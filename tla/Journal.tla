-------------------------------- MODULE Journal -------------------------------
(***************************************************************************)
(* What remote logging promises to its callers, who never wait for it: the *)
(* records offered to it are settled one after the other, in the order in  *)
(* which they came.  A logged record has a line, or two, in the log of its *)
(* day; a dropped one has as many or none.  A line once written stays.     *)
(* Records are dropped in silence only when the process dies: a log that   *)
(* closes has settled them all.  Telemetry is shown to implement it.       *)
(***************************************************************************)
EXTENDS Naturals, Sequences

CONSTANTS Records, Days

VARIABLES
    waiting,  \* the records offered and not settled
    day,      \* of each record's time stamp
    lines,    \* per day, the log
    fate,     \* "none", "waiting", "logged" or "dropped"
    closed

vars == <<waiting, day, lines, fate, closed>>

Init ==
    /\ waiting = <<>> /\ closed = FALSE
    /\ day = [r \in Records |-> 1]
    /\ lines = [d \in 1..Days |-> <<>>]
    /\ fate = [r \in Records |-> "none"]

Offer(r, d) ==
    /\ ~closed /\ fate[r] = "none"
    /\ \A q \in Records : fate[q] # "none" => q < r
    /\ waiting' = Append(waiting, r)
    /\ day' = [day EXCEPT ![r] = d]
    /\ fate' = [fate EXCEPT ![r] = "waiting"]
    /\ UNCHANGED <<lines, closed>>

Written(log, r) == {Append(log, r), Append(Append(log, r), r)}

Settle ==
    /\ waiting # <<>> /\ ~closed
    /\ waiting' = Tail(waiting)
    /\ LET r == Head(waiting)
           log == lines[day[r]]
       IN  \E how \in {"logged", "dropped"} :
              /\ fate' = [fate EXCEPT ![r] = how]
              /\ \/ how = "dropped" /\ UNCHANGED lines
                 \/ \E after \in Written(log, r) : lines' = [lines EXCEPT ![day[r]] = after]
    /\ UNCHANGED <<day, closed>>

Close ==
    /\ ~closed /\ waiting = <<>>
    /\ closed' = TRUE
    /\ UNCHANGED <<waiting, day, lines, fate>>

(* The next process has a log of its own to close. *)
Die ==
    /\ waiting' = <<>> /\ closed' = FALSE
    /\ fate' = [r \in Records |-> IF fate[r] = "waiting" THEN "dropped" ELSE fate[r]]
    /\ UNCHANGED <<day, lines>>

Next ==
    \/ \E r \in Records, d \in 1..Days : Offer(r, d)
    \/ Settle \/ Close \/ Die

Spec == Init /\ [][Next]_vars
=============================================================================
