--------------------------- MODULE MCSiteConnection ---------------------------
(* A small instance of SiteConnection for TLC. *)
EXTENDS SiteConnection

CONSTANTS home, a, b
=============================================================================
