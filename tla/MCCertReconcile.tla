--------------------------- MODULE MCCertReconcile ---------------------------
(* Small instances of CertReconcile for TLC. *)
EXTENDS CertReconcile

MCAllFiles == <<"cert", "chain", "fullchain", "privkey">>
MCPair == <<"fullchain", "privkey">>

MCTwoTargets == <<MCPair, MCPair>>
MCMixedTargets == <<MCAllFiles, MCPair>>
MCOneTarget == <<MCPair>>
=============================================================================
