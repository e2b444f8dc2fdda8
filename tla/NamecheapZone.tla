---------------------------- MODULE NamecheapZone ----------------------------
(***************************************************************************)
(* The Namecheap client of ACME Courier (internal/namecheap/client.go):    *)
(* several independent instances change one DNS zone through an API that   *)
(* can only read the whole zone and replace the whole zone.  An instance   *)
(* publishes a challenge record (Present) and later removes it (Cleanup),  *)
(* each by read, merge, write, wait, read again, up to mutationAttempts    *)
(* times.                                                                  *)
(*                                                                         *)
(* The caller is certmanager.issue: it presents its records one by one,    *)
(* may present a published one again while it waits for DNS propagation    *)
(* (waitForTXT's repair), and on every way out cleans up exactly the       *)
(* records whose first Present succeeded.                                  *)
(*                                                                         *)
(* A zone is a set of records: Present appends only what is absent, so the *)
(* code's lists hold no challenge twice, and the order means nothing.      *)
(***************************************************************************)
EXTENDS Naturals, FiniteSets

CONSTANTS
    Clients,        \* instances of the add-on, one certificate order each
    Challenges,     \* the TXT challenge records of all orders
    Owner,          \* Owner[r]: the instance whose order needs r
    Base,           \* every other record of the zone: the user's own
    MutationAttempts, \* const mutationAttempts (6 in the code)
    HttpTries,      \* tries of Client.do for one API call (3 in the code)
    MaxCalls,       \* bound: Present calls per instance, repairs included
    Faults,         \* TRUE: API calls may fail or lose their reply
    LateWrites      \* TRUE: a request whose reply was lost may be applied later

ASSUME OwnerAssumption == /\ Owner \in [Challenges -> Clients]
                          /\ \A c \in Clients : \E r \in Challenges : Owner[r] = c
ASSUME BaseAssumption == Base \cap Challenges = {}
ASSUME BoundAssumption == /\ MutationAttempts \in Nat \ {0}
                          /\ HttpTries \in Nat \ {0}
                          /\ MaxCalls \in Nat
ASSUME SwitchAssumption == Faults \in BOOLEAN /\ LateWrites \in BOOLEAN

VARIABLES
    zone,     \* the records the provider serves
    late,     \* zone replacements in the network, sender gone
    pc,       \* pc[c]: where the current call of instance c stands
    op,       \* op[c]: "Present" or "Cleanup"
    rec,      \* rec[c]: the record of the current call
    attempt,  \* attempt[c]: the mutation loop's counter
    tries,    \* tries[c]: the tries of the pending setHosts in Client.do
    snap,     \* snap[c]: the record list setHosts is to write
    stage,    \* stage[c]: "issuing", then "cleaning" (deferred cleanup); "crashed"
    status,   \* status[r]: what issue knows of the challenge r
    calls     \* calls[c]: Present calls made so far

vars == <<zone, late, pc, op, rec, attempt, tries, snap, stage, status, calls>>

Records == Base \cup Challenges
Steps == {"idle", "read", "write", "settle", "verify", "backoff"}

(* "new": no Present has succeeded; "presented": in issue's records list;  *)
(* "removed" and "leftover": Cleanup returned nil, or an error that issue  *)
(* only logs.                                                              *)
Statuses == {"new", "presented", "removed", "leftover"}

TypeOK ==
    /\ zone \in SUBSET Records
    /\ late \in SUBSET SUBSET Records
    /\ pc \in [Clients -> Steps]
    /\ op \in [Clients -> {"Present", "Cleanup"}]
    /\ rec \in [Clients -> Challenges]
    /\ attempt \in [Clients -> 1..MutationAttempts]
    /\ tries \in [Clients -> 1..HttpTries]
    /\ snap \in [Clients -> SUBSET Records]
    /\ stage \in [Clients -> {"issuing", "cleaning", "crashed"}]
    /\ status \in [Challenges -> Statuses]
    /\ calls \in [Clients -> 0..MaxCalls]

Init ==
    /\ zone = Base
    /\ late = {}
    /\ pc = [c \in Clients |-> "idle"]
    /\ op = [c \in Clients |-> "Present"]
    /\ rec = [c \in Clients |-> CHOOSE r \in Challenges : Owner[r] = c]
    /\ attempt = [c \in Clients |-> 1]
    /\ tries = [c \in Clients |-> 1]
    /\ snap = [c \in Clients |-> {}]
    /\ stage = [c \in Clients |-> "issuing"]
    /\ status = [r \in Challenges |-> "new"]
    /\ calls = [c \in Clients |-> 0]

-----------------------------------------------------------------------------
(* The client's mutation loop. *)

(* containsRecord of a record list the client has just read, and for       *)
(* Cleanup its negation: the call has nothing left to do.                  *)
Satisfied(o, r, records) == (r \in records) = (o = "Present")

MutatedNoMerge(o, r, records) ==
    IF o = "Present" THEN {r} ELSE records \ {r}

(* append(records, desired), or the copy without the records that match    *)
Mutated(o, r, records) ==
    IF o = "Present" THEN records \cup {r} ELSE records \ {r}

ReturnForgets(c, ok) ==
    /\ pc' = [pc EXCEPT ![c] = "idle"]
    /\ status' = [status EXCEPT ![rec[c]] =
                     IF op[c] = "Present"
                     THEN (IF ok THEN "presented" ELSE "new")
                     ELSE (IF ok THEN "removed" ELSE "leftover")]
    /\ stage' = [stage EXCEPT ![c] =
                     IF op[c] = "Present" /\ ~ok THEN "cleaning" ELSE @]
    /\ attempt' = [attempt EXCEPT ![c] = 1]
    /\ tries' = [tries EXCEPT ![c] = 1]
    /\ snap' = [snap EXCEPT ![c] = {}]

(* The call returns: a first success of Present puts the record on issue's *)
(* list, a failure of Present makes issue (and so waitForTXT) return, and  *)
(* a Cleanup is made once whatever it returns.                             *)
Return(c, ok) ==
    /\ pc' = [pc EXCEPT ![c] = "idle"]
    /\ status' = [status EXCEPT ![rec[c]] =
                     IF op[c] = "Present"
                     THEN (IF ok THEN "presented" ELSE @)
                     ELSE (IF ok THEN "removed" ELSE "leftover")]
    /\ stage' = [stage EXCEPT ![c] =
                     IF op[c] = "Present" /\ ~ok THEN "cleaning" ELSE @]
    /\ attempt' = [attempt EXCEPT ![c] = 1]
    /\ tries' = [tries EXCEPT ![c] = 1]
    /\ snap' = [snap EXCEPT ![c] = {}]

BackoffOffByOne(c) ==
    IF attempt[c] <= MutationAttempts
    THEN /\ pc' = [pc EXCEPT ![c] = "backoff"]
         /\ UNCHANGED <<attempt, tries, snap, stage, status>>
    ELSE Return(c, FALSE)

(* lastErr is set: back off, or give up after the last attempt *)
Backoff(c) ==
    IF attempt[c] < MutationAttempts
    THEN /\ pc' = [pc EXCEPT ![c] = "backoff"]
         /\ UNCHANGED <<attempt, tries, snap, stage, status>>
    ELSE Return(c, FALSE)

Begin(c, o, r) ==
    /\ pc[c] = "idle"
    /\ pc' = [pc EXCEPT ![c] = "read"]
    /\ op' = [op EXCEPT ![c] = o]
    /\ rec' = [rec EXCEPT ![c] = r]
    /\ attempt' = [attempt EXCEPT ![c] = 1]
    /\ UNCHANGED <<zone, late, tries, snap, status>>

(* issue publishes a record, or waitForTXT repairs one *)
CallPresent(c) ==
    /\ stage[c] = "issuing"
    /\ calls[c] < MaxCalls
    /\ \E r \in Challenges : Owner[r] = c /\ Begin(c, "Present", r)
    /\ calls' = [calls EXCEPT ![c] = @ + 1]
    /\ UNCHANGED stage

(* issue's deferred cleanup, one listed record after the other; it starts  *)
(* when the order is done or has failed                                    *)
CallCleanup(c) ==
    /\ stage[c] # "crashed"
    /\ \E r \in Challenges :
          Owner[r] = c /\ status[r] = "presented" /\ Begin(c, "Cleanup", r)
    /\ stage' = [stage EXCEPT ![c] = "cleaning"]
    /\ UNCHANGED calls

(* getHosts answers: done if the zone is as wanted, else merge for setHosts *)
ReadHosts(c) ==
    /\ pc[c] = "read"
    /\ IF Satisfied(op[c], rec[c], zone)
       THEN Return(c, TRUE)
       ELSE /\ snap' = [snap EXCEPT ![c] = Mutated(op[c], rec[c], zone)]
            /\ tries' = [tries EXCEPT ![c] = 1]
            /\ pc' = [pc EXCEPT ![c] = "write"]
            /\ UNCHANGED <<attempt, stage, status>>
    /\ UNCHANGED <<zone, late, op, rec, calls>>

(* getHosts fails after the HTTP tries, or the provider reports an error *)
ReadFails(c) ==
    /\ Faults
    /\ pc[c] \in {"read", "verify"}
    /\ Backoff(c)
    /\ UNCHANGED <<zone, late, op, rec, calls>>

(* setHosts replaces the whole zone and its reply arrives *)
WriteHosts(c) ==
    /\ pc[c] = "write"
    /\ zone' = snap[c]
    /\ pc' = [pc EXCEPT ![c] = "settle"]
    /\ UNCHANGED <<late, op, rec, attempt, tries, snap, stage, status, calls>>

(* One try of setHosts fails.  The provider may have applied it (the reply *)
(* was lost or not understood), may never, or may yet apply it.  Client.do *)
(* sends the same body again after a transport error, HTTP 429 or 5xx; any *)
(* other failure, and the last try, end the call with an error.            *)
WriteFails(c) ==
    /\ Faults
    /\ pc[c] = "write"
    /\ \/ zone' = snap[c] /\ UNCHANGED late
       \/ UNCHANGED <<zone, late>>
       \/ LateWrites /\ late' = late \cup {snap[c]} /\ UNCHANGED zone
    /\ \/ /\ tries[c] < HttpTries
          /\ tries' = [tries EXCEPT ![c] = @ + 1]
          /\ UNCHANGED <<pc, attempt, snap, stage, status>>
       \/ Backoff(c)
    /\ UNCHANGED <<op, rec, calls>>

SettleTrusts(c) ==
    /\ pc[c] = "settle"
    /\ Return(c, TRUE)
    /\ UNCHANGED <<zone, late, op, rec, calls>>

(* waitForMutation after a successful setHosts *)
Settle(c) ==
    /\ pc[c] = "settle"
    /\ pc' = [pc EXCEPT ![c] = "verify"]
    /\ UNCHANGED <<zone, late, op, rec, attempt, tries, snap, stage, status, calls>>

(* getHosts after the wait: only a zone that shows the change ends the loop *)
Verify(c) ==
    /\ pc[c] = "verify"
    /\ IF Satisfied(op[c], rec[c], zone) THEN Return(c, TRUE) ELSE Backoff(c)
    /\ UNCHANGED <<zone, late, op, rec, calls>>

NextAttemptUncounted(c) ==
    /\ pc[c] = "backoff"
    /\ pc' = [pc EXCEPT ![c] = "read"]
    /\ UNCHANGED <<zone, late, op, rec, attempt, tries, snap, stage, status, calls>>

NextAttemptStale(c) ==
    /\ pc[c] = "backoff"
    /\ pc' = [pc EXCEPT ![c] = IF snap[c] = {} THEN "read" ELSE "write"]
    /\ attempt' = [attempt EXCEPT ![c] = @ + 1]
    /\ UNCHANGED <<zone, late, op, rec, tries, snap, stage, status, calls>>

(* waitForMutation before the next attempt *)
NextAttempt(c) ==
    /\ pc[c] = "backoff"
    /\ pc' = [pc EXCEPT ![c] = "read"]
    /\ attempt' = [attempt EXCEPT ![c] = @ + 1]
    /\ UNCHANGED <<zone, late, op, rec, tries, snap, stage, status, calls>>

(* The call's context ends during a wait: the call returns ctx.Err() *)
ContextDone(c) ==
    /\ Faults
    /\ pc[c] \in {"settle", "backoff"}
    /\ Return(c, FALSE)
    /\ UNCHANGED <<zone, late, op, rec, calls>>

(* The provider applies a request whose sender has given up on it *)
LateWrite ==
    \E s \in late :
        /\ zone' = s
        /\ late' = late \ {s}
        /\ UNCHANGED <<pc, op, rec, attempt, tries, snap, stage, status, calls>>

(* The process dies.  issue's list of published records is in memory only, *)
(* so nothing is cleaned up later; a request under way may be applied.     *)
Crash(c) ==
    /\ Faults
    /\ stage[c] # "crashed"
    /\ stage' = [stage EXCEPT ![c] = "crashed"]
    /\ pc' = [pc EXCEPT ![c] = "idle"]
    /\ attempt' = [attempt EXCEPT ![c] = 1]
    /\ tries' = [tries EXCEPT ![c] = 1]
    /\ snap' = [snap EXCEPT ![c] = {}]
    /\ \/ UNCHANGED <<zone, late>>
       \/ pc[c] = "write" /\ zone' = snap[c] /\ UNCHANGED late
       \/ LateWrites /\ pc[c] = "write" /\ late' = late \cup {snap[c]} /\ UNCHANGED zone
    /\ UNCHANGED <<op, rec, status, calls>>

ClientStep(c) ==
    \/ ReadHosts(c) \/ ReadFails(c)
    \/ WriteHosts(c) \/ WriteFails(c)
    \/ Settle(c) \/ Verify(c) \/ NextAttempt(c) \/ ContextDone(c)

Next ==
    \/ \E c \in Clients : CallPresent(c) \/ CallCleanup(c) \/ ClientStep(c)
    \/ \E c \in Clients : Crash(c)
    \/ LateWrite

Spec == Init /\ [][Next]_vars

(* A call in progress goes on: every wait in the client is a timer, every  *)
(* HTTP request has a timeout (http.Client.Timeout, one minute), and issue *)
(* runs its deferred cleanup because its context has a timeout as well.    *)
FairSpec ==
    /\ Spec
    /\ \A c \in Clients : WF_vars(ClientStep(c)) /\ WF_vars(CallCleanup(c))

-----------------------------------------------------------------------------
(* Whatever the instances do to each other, and whatever requests are      *)
(* lost, repeated or late, no record of the user disappears: every zone    *)
(* that setHosts ever writes is a changed copy of one that was served.     *)
BasePreserved == Base \subseteq zone

(* Present and Cleanup report success only on the evidence of a read that  *)
(* shows the zone as wanted, never because setHosts said so.               *)
ReportsAreVerified ==
    [][\A r \in Challenges :
          /\ status'[r] = "presented" /\ status[r] = "new" => r \in zone
          /\ status'[r] = "removed" /\ status[r] # "removed" => r \notin zone]_vars

(* No zone that contains r is on its way to the provider *)
NotInFlight(r) ==
    /\ \A c \in Clients : pc[c] = "write" => r \notin snap[c]
    /\ \A s \in late : r \notin s

Gone(r) == status[r] = "removed" /\ r \notin zone /\ NotInFlight(r)

(* A challenge that was cleaned up comes back only through a list read     *)
(* before it went: once no instance holds such a list it stays away.       *)
RemovedStaysGone == [][\A r \in Challenges : Gone(r) => Gone(r)']_vars

(* Every call of Present or Cleanup returns, however the API behaves. *)
CallsReturn == \A c \in Clients : pc[c] # "idle" ~> pc[c] = "idle"

(* Every challenge that issue has published is given to Cleanup, on every  *)
(* way out of the order, unless the process dies.                          *)
PublishedIsCleanedUp ==
    \A r \in Challenges :
        status[r] = "presented" ~>
            status[r] \in {"removed", "leftover"} \/ stage[Owner[r]] = "crashed"

(* The README's "verifies challenge cleanup so concurrent removals         *)
(* converge safely": when every instance has published and then cleaned up *)
(* with success, and nothing is in flight, the zone is the user's again.   *)
CleanupsConverge ==
    (\A r \in Challenges : status[r] = "removed") => zone = Base

(* One instance alone, whose requests are applied at once or never, works  *)
(* on the zone as if every addition and removal were atomic.               *)
Atomic == INSTANCE AtomicZone WITH
    zone <- zone, status <- status, Base <- Base, Challenges <- Challenges
ImplementsAtomicZone == Atomic!Spec
=============================================================================
