--------------------------- MODULE MCNamecheapZone ---------------------------
(* Small instances of NamecheapZone for TLC. *)
EXTENDS NamecheapZone, TLC

CONSTANTS c1, c2, r1, r2, r3, mail

MCTwoOwners == r1 :> c1 @@ r2 :> c2
MCOneOwner == r1 :> c1 @@ r2 :> c1
=============================================================================
