------------------------------ MODULE AtomicZone ------------------------------
(***************************************************************************)
(* What the Namecheap client promises to a caller that is alone on the     *)
(* zone: each challenge record appears once and disappears once, nothing   *)
(* else changes, and a success that the caller is told is true of the      *)
(* zone.  NamecheapZone is shown to implement it for one instance whose    *)
(* requests take effect at once or never.                                  *)
(***************************************************************************)
CONSTANTS Base, Challenges

VARIABLES
    zone,    \* the records served
    status   \* status[r]: "new", "presented", "removed", "leftover"

vars == <<zone, status>>

Init == zone = Base /\ status = [r \in Challenges |-> "new"]

Publish(r) ==
    /\ status[r] = "new"
    /\ zone' = zone \cup {r}
    /\ UNCHANGED status

ReportPublished(r) ==
    /\ status[r] = "new" /\ r \in zone
    /\ status' = [status EXCEPT ![r] = "presented"]
    /\ UNCHANGED zone

Remove(r) ==
    /\ status[r] = "presented"
    /\ zone' = zone \ {r}
    /\ UNCHANGED status

ReportRemoved(r) ==
    /\ status[r] = "presented" /\ r \notin zone
    /\ status' = [status EXCEPT ![r] = "removed"]
    /\ UNCHANGED zone

(* Cleanup gave up: its last request may or may not have been applied *)
GiveUp(r) ==
    /\ status[r] = "presented"
    /\ status' = [status EXCEPT ![r] = "leftover"]
    /\ zone' \in {zone, zone \ {r}}

Next == \E r \in Challenges :
    \/ Publish(r) \/ ReportPublished(r)
    \/ Remove(r) \/ ReportRemoved(r) \/ GiveUp(r)

Spec == Init /\ [][Next]_vars
=============================================================================
