---------------------------- MODULE MCChatRequest ----------------------------
(* Small instances of ChatRequest for TLC. *)
EXTENDS ChatRequest

CONSTANTS turnOn, lock, read, bad
=============================================================================
