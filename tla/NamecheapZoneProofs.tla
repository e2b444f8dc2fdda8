------------------------- MODULE NamecheapZoneProofs -------------------------
(***************************************************************************)
(* Proofs about NamecheapZone, for any number of instances and challenges, *)
(* any number of attempts and tries, with or without faults and requests   *)
(* applied late.                                                           *)
(***************************************************************************)
EXTENDS NamecheapZone, TLAPS

(* A client that waits to try again has attempts left. *)
AttemptsLeft == \A c \in Clients : pc[c] = "backoff" => attempt[c] < MutationAttempts

(* Every list of records that is, was or may yet become the zone holds the *)
(* user's records.                                                         *)
SnapshotsComplete ==
    /\ Base \subseteq zone
    /\ \A c \in Clients : pc[c] = "write" => Base \subseteq snap[c]
    /\ \A s \in late : Base \subseteq s

IInv == TypeOK /\ AttemptsLeft /\ SnapshotsComplete

-----------------------------------------------------------------------------
(* The part of a client's state that one of its own steps may change keeps *)
(* its type: both ways out of an attempt are typed.                        *)
ReturnTyped(c) ==
    /\ pc' \in [Clients -> Steps]
    /\ attempt' \in [Clients -> 1..MutationAttempts]
    /\ tries' \in [Clients -> 1..HttpTries]
    /\ snap' \in [Clients -> SUBSET Records]
    /\ stage' \in [Clients -> {"issuing", "cleaning", "crashed"}]
    /\ status' \in [Challenges -> Statuses]

(* A call that returns, with or without success, leaves typed state. *)
LEMMA ReturnIsTyped ==
    ASSUME TypeOK, NEW c \in Clients, NEW ok \in BOOLEAN, Return(c, ok)
    PROVE  ReturnTyped(c)
  BY BoundAssumption DEF TypeOK, Return, ReturnTyped, Steps, Statuses

(* A failed attempt, whether or not it is the last, leaves typed state. *)
LEMMA BackoffIsTyped ==
    ASSUME TypeOK, NEW c \in Clients, Backoff(c)
    PROVE  ReturnTyped(c)
<1>1. CASE attempt[c] < MutationAttempts
  BY <1>1 DEF TypeOK, Backoff, ReturnTyped, Steps
<1>2. CASE ~(attempt[c] < MutationAttempts)
  BY <1>2, ReturnIsTyped DEF Backoff
<1> QED BY <1>1, <1>2

(* The records that setHosts is given are records of the zone's universe. *)
LEMMA MutatedIsTyped ==
    ASSUME NEW o, NEW r \in Challenges, NEW z \in SUBSET Records
    PROVE  Mutated(o, r, z) \in SUBSET Records
  BY DEF Mutated, Records

(* Merging for Present and filtering for Cleanup keep the user's records,  *)
(* since those are no challenges.                                          *)
LEMMA MutatedKeepsBase ==
    ASSUME NEW o, NEW r \in Challenges, NEW z, Base \subseteq z
    PROVE  Base \subseteq Mutated(o, r, z)
  BY BaseAssumption DEF Mutated

(* The initial state is typed. *)
LEMMA InitTyped == Init => TypeOK
<1> SUFFICES ASSUME Init PROVE TypeOK
  OBVIOUS
<1>1. rec \in [Clients -> Challenges]
  BY OwnerAssumption DEF Init
<1> QED
  BY <1>1, BoundAssumption DEF Init, TypeOK, Records, Steps, Statuses

(* Every step of the specification keeps the types. *)
LEMMA StepTyped == TypeOK /\ AttemptsLeft /\ [Next]_vars => TypeOK'
<1> SUFFICES ASSUME TypeOK, AttemptsLeft, [Next]_vars PROVE TypeOK'
  OBVIOUS
<1>1. ASSUME NEW c \in Clients, CallPresent(c) PROVE TypeOK'
  <2>1. PICK r \in Challenges : Owner[r] = c /\ Begin(c, "Present", r)
    BY <1>1 DEF CallPresent
  <2>2. calls' \in [Clients -> 0..MaxCalls]
    BY <1>1, BoundAssumption DEF CallPresent, TypeOK
  <2> QED
    BY <1>1, <2>1, <2>2, BoundAssumption DEF CallPresent, Begin, TypeOK, Steps
<1>2. ASSUME NEW c \in Clients, CallCleanup(c) PROVE TypeOK'
  <2>1. PICK r \in Challenges : Begin(c, "Cleanup", r)
    BY <1>2 DEF CallCleanup
  <2> QED
    BY <1>2, <2>1, BoundAssumption DEF CallCleanup, Begin, TypeOK, Steps
<1>3. ASSUME NEW c \in Clients, ReadHosts(c) PROVE TypeOK'
  <2>1. CASE Satisfied(op[c], rec[c], zone)
    <3>1. ReturnTyped(c)
      BY <1>3, <2>1, ReturnIsTyped DEF ReadHosts
    <3> QED
      BY <1>3, <3>1 DEF ReadHosts, ReturnTyped, TypeOK
  <2>2. CASE ~Satisfied(op[c], rec[c], zone)
    <3>1. Mutated(op[c], rec[c], zone) \in SUBSET Records
      BY MutatedIsTyped DEF TypeOK
    <3> QED
      BY <1>3, <2>2, <3>1, BoundAssumption DEF ReadHosts, TypeOK, Steps
  <2> QED BY <2>1, <2>2
<1>4. ASSUME NEW c \in Clients, ReadFails(c) PROVE TypeOK'
  BY <1>4, BackoffIsTyped DEF ReadFails, ReturnTyped, TypeOK
<1>5. ASSUME NEW c \in Clients, WriteHosts(c) PROVE TypeOK'
  BY <1>5 DEF WriteHosts, TypeOK, Steps
<1>6. ASSUME NEW c \in Clients, WriteFails(c) PROVE TypeOK'
  <2>1. zone' \in SUBSET Records /\ late' \in SUBSET SUBSET Records
    BY <1>6 DEF WriteFails, TypeOK
  <2>2. ReturnTyped(c)
    <3>1. CASE Backoff(c)
      BY <3>1, BackoffIsTyped
    <3>2. CASE /\ tries[c] < HttpTries
               /\ tries' = [tries EXCEPT ![c] = @ + 1]
               /\ UNCHANGED <<pc, attempt, snap, stage, status>>
      BY <3>2, BoundAssumption DEF TypeOK, ReturnTyped
    <3> QED BY <1>6, <3>1, <3>2 DEF WriteFails
  <2> QED
    BY <1>6, <2>1, <2>2 DEF WriteFails, ReturnTyped, TypeOK
<1>7. ASSUME NEW c \in Clients, Settle(c) PROVE TypeOK'
  BY <1>7 DEF Settle, TypeOK, Steps
<1>8. ASSUME NEW c \in Clients, Verify(c) PROVE TypeOK'
  <2>1. ReturnTyped(c)
    BY <1>8, ReturnIsTyped, BackoffIsTyped DEF Verify
  <2> QED
    BY <1>8, <2>1 DEF Verify, ReturnTyped, TypeOK
<1>9. ASSUME NEW c \in Clients, NextAttempt(c) PROVE TypeOK'
  BY <1>9, BoundAssumption DEF NextAttempt, AttemptsLeft, TypeOK, Steps
<1>10. ASSUME NEW c \in Clients, ContextDone(c) PROVE TypeOK'
  <2>1. ReturnTyped(c)
    BY <1>10, ReturnIsTyped DEF ContextDone
  <2> QED
    BY <1>10, <2>1 DEF ContextDone, ReturnTyped, TypeOK
<1>11. ASSUME NEW c \in Clients, Crash(c) PROVE TypeOK'
  BY <1>11, BoundAssumption DEF Crash, TypeOK, Steps
<1>12. CASE LateWrite
  BY <1>12 DEF LateWrite, TypeOK
<1>13. CASE UNCHANGED vars
  BY <1>13 DEF vars, TypeOK
<1> QED
  BY <1>1, <1>2, <1>3, <1>4, <1>5, <1>6, <1>7, <1>8, <1>9, <1>10, <1>11, <1>12, <1>13
     DEF Next, ClientStep

(* Only a failed attempt that is not the last makes a client wait for the  *)
(* next one.                                                               *)
LEMMA StepAttemptsLeft == TypeOK /\ AttemptsLeft /\ [Next]_vars => AttemptsLeft'
<1> SUFFICES ASSUME TypeOK, AttemptsLeft, [Next]_vars PROVE AttemptsLeft'
  OBVIOUS
<1>1. ASSUME NEW c \in Clients, Return(c, TRUE) \/ Return(c, FALSE)
      PROVE  AttemptsLeft'
  BY <1>1 DEF Return, AttemptsLeft, TypeOK
<1>2. ASSUME NEW c \in Clients, Backoff(c) PROVE AttemptsLeft'
  BY <1>1, <1>2 DEF Backoff, AttemptsLeft, TypeOK
<1>3. ASSUME NEW c \in Clients, CallPresent(c) \/ CallCleanup(c)
      PROVE  AttemptsLeft'
  BY <1>3 DEF CallPresent, CallCleanup, Begin, AttemptsLeft, TypeOK
<1>4. ASSUME NEW c \in Clients, ClientStep(c) PROVE AttemptsLeft'
  <2>1. CASE ReadHosts(c)
    BY <2>1, <1>1 DEF ReadHosts, AttemptsLeft, TypeOK
  <2>2. CASE ReadFails(c) \/ Verify(c) \/ ContextDone(c)
    BY <2>2, <1>1, <1>2 DEF ReadFails, Verify, ContextDone
  <2>3. CASE WriteHosts(c) \/ Settle(c) \/ NextAttempt(c)
    BY <2>3 DEF WriteHosts, Settle, NextAttempt, AttemptsLeft, TypeOK
  <2>4. CASE WriteFails(c)
    BY <2>4, <1>2 DEF WriteFails, AttemptsLeft
  <2> QED
    BY <1>4, <2>1, <2>2, <2>3, <2>4 DEF ClientStep
<1>5. ASSUME NEW c \in Clients, Crash(c) PROVE AttemptsLeft'
  BY <1>5 DEF Crash, AttemptsLeft, TypeOK
<1>6. CASE LateWrite \/ UNCHANGED vars
  BY <1>6 DEF LateWrite, vars, AttemptsLeft
<1> QED
  BY <1>3, <1>4, <1>5, <1>6 DEF Next

(* A list for setHosts is made from one that was just served, and the zone *)
(* is only ever replaced by such a list.                                   *)
LEMMA StepSnapshotsComplete ==
    TypeOK /\ SnapshotsComplete /\ [Next]_vars => SnapshotsComplete'
<1> SUFFICES ASSUME TypeOK, SnapshotsComplete, [Next]_vars
             PROVE  SnapshotsComplete'
  OBVIOUS
<1>1. ASSUME NEW c \in Clients, CallPresent(c) \/ CallCleanup(c)
      PROVE  SnapshotsComplete'
  BY <1>1 DEF CallPresent, CallCleanup, Begin, SnapshotsComplete, TypeOK
<1>2. ASSUME NEW c \in Clients, ReadHosts(c) PROVE SnapshotsComplete'
  <2>1. Base \subseteq Mutated(op[c], rec[c], zone)
    BY MutatedKeepsBase DEF SnapshotsComplete, TypeOK
  <2> QED
    BY <1>2, <2>1 DEF ReadHosts, Return, SnapshotsComplete, TypeOK
<1>3. ASSUME NEW c \in Clients, ReadFails(c) \/ Verify(c) \/ ContextDone(c)
      PROVE  SnapshotsComplete'
  BY <1>3 DEF ReadFails, Verify, ContextDone, Backoff, Return, SnapshotsComplete, TypeOK
<1>4. ASSUME NEW c \in Clients, WriteHosts(c) \/ Settle(c) \/ NextAttempt(c)
      PROVE  SnapshotsComplete'
  BY <1>4 DEF WriteHosts, Settle, NextAttempt, SnapshotsComplete, TypeOK
<1>5. ASSUME NEW c \in Clients, WriteFails(c) PROVE SnapshotsComplete'
  <2>1. Base \subseteq zone' /\ \A s \in late' : Base \subseteq s
    BY <1>5 DEF WriteFails, SnapshotsComplete
  <2>2. \A d \in Clients : pc'[d] = "write" => pc[d] = "write" /\ snap'[d] = snap[d]
    BY <1>5 DEF WriteFails, Backoff, Return, TypeOK
  <2> QED
    BY <2>1, <2>2 DEF SnapshotsComplete
<1>6. ASSUME NEW c \in Clients, Crash(c) PROVE SnapshotsComplete'
  BY <1>6 DEF Crash, SnapshotsComplete, TypeOK
<1>7. CASE LateWrite \/ UNCHANGED vars
  BY <1>7 DEF LateWrite, vars, SnapshotsComplete
<1> QED
  BY <1>1, <1>2, <1>3, <1>4, <1>5, <1>6, <1>7 DEF Next, ClientStep

-----------------------------------------------------------------------------
(* IInv is an inductive invariant of the client. *)
THEOREM Invariance == Spec => []IInv
<1>1. Init => IInv
  BY InitTyped DEF Init, IInv, AttemptsLeft, SnapshotsComplete
<1>2. IInv /\ [Next]_vars => IInv'
  BY StepTyped, StepAttemptsLeft, StepSnapshotsComplete DEF IInv
<1> QED
  BY <1>1, <1>2, PTL DEF Spec

(* The type invariant holds for every number of instances, challenges,     *)
(* attempts and tries.                                                     *)
THEOREM TypeCorrect == Spec => []TypeOK
<1>1. IInv => TypeOK
  BY DEF IInv
<1> QED
  BY <1>1, Invariance, PTL

(* No record of the user is ever lost from the zone, whatever any number   *)
(* of instances do concurrently and whichever requests fail or come late.  *)
THEOREM UserRecordsSurvive == Spec => []BasePreserved
<1>1. IInv => BasePreserved
  BY DEF IInv, SnapshotsComplete, BasePreserved
<1> QED
  BY <1>1, Invariance, PTL

-----------------------------------------------------------------------------
(* What a call in progress says of its instance and its record: only an    *)
(* order that is still being issued presents, and only a published record  *)
(* is being cleaned up, by its own instance.                               *)
CallMatchesStage ==
    /\ \A c \in Clients : pc[c] # "idle" =>
          /\ Owner[rec[c]] = c
          /\ op[c] = "Present" => stage[c] = "issuing"
          /\ op[c] = "Cleanup" => stage[c] = "cleaning" /\ status[rec[c]] = "presented"
    /\ \A r \in Challenges :
          status[r] \in {"removed", "leftover"} => stage[Owner[r]] # "issuing"

(* A return keeps it: the cleaned-up record's order is past issuing. *)
LEMMA ReturnMatchesStage ==
    ASSUME TypeOK, CallMatchesStage, UNCHANGED <<op, rec>>,
           NEW c \in Clients, pc[c] # "idle", NEW ok \in BOOLEAN, Return(c, ok)
    PROVE  CallMatchesStage'
<1>1. ASSUME NEW d \in Clients, pc'[d] # "idle"
      PROVE  /\ Owner[rec'[d]] = d
             /\ op'[d] = "Present" => stage'[d] = "issuing"
             /\ op'[d] = "Cleanup" => stage'[d] = "cleaning" /\ status'[rec'[d]] = "presented"
  <2>1. d # c /\ pc[d] # "idle"
    BY <1>1 DEF Return, TypeOK
  <2>2. rec[d] # rec[c]
    BY <2>1 DEF CallMatchesStage
  <2> QED
    BY <2>1, <2>2 DEF Return, CallMatchesStage, TypeOK
<1>2. ASSUME NEW r \in Challenges, status'[r] \in {"removed", "leftover"}
      PROVE  stage'[Owner[r]] # "issuing"
  <2>1. Owner[r] \in Clients
    BY OwnerAssumption
  <2>2. CASE status[r] \in {"removed", "leftover"}
    BY <2>1, <2>2 DEF Return, CallMatchesStage, TypeOK
  <2>3. CASE status[r] \notin {"removed", "leftover"}
    <3>1. rec[c] = r /\ op[c] = "Cleanup"
      BY <1>2, <2>3 DEF Return, TypeOK
    <3> QED
      BY <2>1, <3>1 DEF Return, CallMatchesStage, TypeOK
  <2> QED BY <2>2, <2>3
<1> QED BY <1>1, <1>2 DEF CallMatchesStage

(* Calls in progress match their stage throughout. *)
LEMMA StepMatchesStage ==
    TypeOK /\ CallMatchesStage /\ [Next]_vars => CallMatchesStage'
<1> SUFFICES ASSUME TypeOK, CallMatchesStage, [Next]_vars
             PROVE  CallMatchesStage'
  OBVIOUS
<1>1. ASSUME NEW c \in Clients, CallPresent(c) PROVE CallMatchesStage'
  <2>1. PICK r \in Challenges : Owner[r] = c /\ Begin(c, "Present", r)
    BY <1>1 DEF CallPresent
  <2> QED
    BY <1>1, <2>1, OwnerAssumption DEF CallPresent, Begin, CallMatchesStage, TypeOK
<1>2. ASSUME NEW c \in Clients, CallCleanup(c) PROVE CallMatchesStage'
  <2>1. PICK r \in Challenges :
           Owner[r] = c /\ status[r] = "presented" /\ Begin(c, "Cleanup", r)
    BY <1>2 DEF CallCleanup
  <2> QED
    BY <1>2, <2>1, OwnerAssumption DEF CallCleanup, Begin, CallMatchesStage, TypeOK
<1>3. ASSUME NEW c \in Clients, pc[c] # "idle", Backoff(c), UNCHANGED <<op, rec>>
      PROVE  CallMatchesStage'
  <2>1. CASE attempt[c] < MutationAttempts
    BY <1>3, <2>1 DEF Backoff, CallMatchesStage, TypeOK
  <2>2. CASE ~(attempt[c] < MutationAttempts)
    BY <1>3, <2>2, ReturnMatchesStage DEF Backoff
  <2> QED BY <2>1, <2>2
<1>4. ASSUME NEW c \in Clients, ReadHosts(c) PROVE CallMatchesStage'
  <2>1. CASE Satisfied(op[c], rec[c], zone)
    BY <1>4, <2>1, ReturnMatchesStage DEF ReadHosts
  <2>2. CASE ~Satisfied(op[c], rec[c], zone)
    BY <1>4, <2>2 DEF ReadHosts, CallMatchesStage, TypeOK
  <2> QED BY <2>1, <2>2
<1>5. ASSUME NEW c \in Clients, ReadFails(c) \/ Verify(c) \/ ContextDone(c)
      PROVE  CallMatchesStage'
  BY <1>5, <1>3, ReturnMatchesStage DEF ReadFails, Verify, ContextDone
<1>6. ASSUME NEW c \in Clients, WriteHosts(c) \/ Settle(c) \/ NextAttempt(c)
      PROVE  CallMatchesStage'
  BY <1>6 DEF WriteHosts, Settle, NextAttempt, CallMatchesStage, TypeOK
<1>7. ASSUME NEW c \in Clients, WriteFails(c) PROVE CallMatchesStage'
  BY <1>7, <1>3 DEF WriteFails, CallMatchesStage
<1>8. ASSUME NEW c \in Clients, Crash(c) PROVE CallMatchesStage'
  BY <1>8, OwnerAssumption DEF Crash, CallMatchesStage, TypeOK
<1>9. CASE LateWrite \/ UNCHANGED vars
  BY <1>9 DEF LateWrite, vars, CallMatchesStage
<1> QED
  BY <1>1, <1>2, <1>4, <1>5, <1>6, <1>7, <1>8, <1>9 DEF Next, ClientStep

(* A record that is gone stays gone in every step. *)
LEMMA StepGone ==
    ASSUME TypeOK, CallMatchesStage, [Next]_vars, NEW r \in Challenges, Gone(r)
    PROVE  Gone(r)'
<1>1. ASSUME NEW c \in Clients, pc[c] # "idle"
      PROVE  rec[c] # r
  <2>1. CASE op[c] = "Present"
    BY <1>1, <2>1 DEF CallMatchesStage, Gone
  <2>2. CASE op[c] = "Cleanup"
    BY <1>1, <2>2 DEF CallMatchesStage, Gone
  <2> QED BY <2>1, <2>2 DEF TypeOK
<1>2. ASSUME NEW c \in Clients, CallPresent(c) \/ CallCleanup(c) PROVE Gone(r)'
  BY <1>2 DEF CallPresent, CallCleanup, Begin, Gone, NotInFlight, TypeOK
<1>3. ASSUME NEW c \in Clients, ReadHosts(c) PROVE Gone(r)'
  <2>1. r \notin Mutated(op[c], rec[c], zone)
    BY <1>1, <1>3 DEF ReadHosts, Mutated, Gone
  <2> QED
    BY <1>1, <1>3, <2>1 DEF ReadHosts, Return, Gone, NotInFlight, TypeOK
<1>4. ASSUME NEW c \in Clients, ReadFails(c) \/ Verify(c) \/ ContextDone(c)
      PROVE  Gone(r)'
  BY <1>1, <1>4 DEF ReadFails, Verify, ContextDone, Backoff, Return, Gone, NotInFlight, TypeOK
<1>5. ASSUME NEW c \in Clients, WriteHosts(c) \/ Settle(c) \/ NextAttempt(c)
      PROVE  Gone(r)'
  BY <1>5 DEF WriteHosts, Settle, NextAttempt, Gone, NotInFlight, TypeOK
<1>6. ASSUME NEW c \in Clients, WriteFails(c) PROVE Gone(r)'
  <2>1. r \notin zone' /\ \A s \in late' : r \notin s
    BY <1>6 DEF WriteFails, Gone, NotInFlight
  <2>2. \A d \in Clients : pc'[d] = "write" => pc[d] = "write" /\ snap'[d] = snap[d]
    BY <1>6 DEF WriteFails, Backoff, Return, TypeOK
  <2>3. status'[r] = status[r]
    BY <1>1, <1>6 DEF WriteFails, Backoff, Return, TypeOK
  <2> QED
    BY <2>1, <2>2, <2>3 DEF Gone, NotInFlight
<1>7. ASSUME NEW c \in Clients, Crash(c) PROVE Gone(r)'
  BY <1>7 DEF Crash, Gone, NotInFlight, TypeOK
<1>8. CASE LateWrite \/ UNCHANGED vars
  BY <1>8 DEF LateWrite, vars, Gone, NotInFlight
<1> QED
  BY <1>2, <1>3, <1>4, <1>5, <1>6, <1>7, <1>8 DEF Next, ClientStep

(* Calls in progress match the stage of their order. *)
LEMMA StageInvariance == Spec => []CallMatchesStage
<1>1. Init => CallMatchesStage
  BY DEF Init, CallMatchesStage
<1>2. TypeOK /\ CallMatchesStage /\ [Next]_vars => CallMatchesStage'
  BY StepMatchesStage
<1> QED
  BY <1>1, <1>2, TypeCorrect, PTL DEF Spec

(* A challenge whose cleanup succeeded, and which no instance and no late  *)
(* request still carries, never returns to the zone.                       *)
THEOREM CleanupIsFinal == Spec => RemovedStaysGone
<1>1. TypeOK /\ CallMatchesStage /\ [Next]_vars
      => [\A r \in Challenges : Gone(r) => Gone(r)']_vars
  BY StepGone
<1> QED
  BY <1>1, TypeCorrect, StageInvariance, PTL DEF Spec, RemovedStaysGone
-----------------------------------------------------------------------------
(* A success that returns is one that the zone just read bears out. *)
LEMMA ReturnIsVerified ==
    ASSUME TypeOK, NEW c \in Clients, NEW ok \in BOOLEAN, Return(c, ok),
           ok => Satisfied(op[c], rec[c], zone), NEW r \in Challenges
    PROVE  /\ status'[r] = "presented" /\ status[r] = "new" => r \in zone
           /\ status'[r] = "removed" /\ status[r] # "removed" => r \notin zone
<1>1. status'[r] = IF r # rec[c] THEN status[r]
                   ELSE IF op[c] = "Present"
                        THEN (IF ok THEN "presented" ELSE status[r])
                        ELSE (IF ok THEN "removed" ELSE "leftover")
  BY DEF Return, TypeOK
<1> QED
  BY <1>1 DEF Satisfied, TypeOK

(* No step reports a success that no read has shown. *)
LEMMA StepIsVerified ==
    ASSUME TypeOK, [Next]_vars, NEW r \in Challenges
    PROVE  /\ status'[r] = "presented" /\ status[r] = "new" => r \in zone
           /\ status'[r] = "removed" /\ status[r] # "removed" => r \notin zone
<1>1. CASE status' = status
  BY <1>1
<1>2. ASSUME NEW c \in Clients, ReadHosts(c) \/ Verify(c), status' # status
      PROVE  \/ Return(c, FALSE)
             \/ /\ Return(c, TRUE)
                /\ Satisfied(op[c], rec[c], zone)
  BY <1>2 DEF ReadHosts, Verify, Backoff
<1>3. ASSUME NEW c \in Clients, ReadFails(c) \/ WriteFails(c) \/ ContextDone(c),
             status' # status
      PROVE  Return(c, FALSE)
  BY <1>3 DEF ReadFails, WriteFails, ContextDone, Backoff
<1>4. \/ status' = status
      \/ \E c \in Clients :
            \/ ReadHosts(c) \/ Verify(c)
            \/ ReadFails(c) \/ WriteFails(c) \/ ContextDone(c)
  BY DEF Next, ClientStep, CallPresent, CallCleanup, Begin, WriteHosts, Settle,
         NextAttempt, Crash, LateWrite, vars
<1> QED
  BY <1>1, <1>2, <1>3, <1>4, ReturnIsVerified

(* Present and Cleanup report success only of what a read of the zone has  *)
(* shown, whatever the other instances and the provider do meanwhile.      *)
THEOREM SuccessIsVerified == Spec => ReportsAreVerified
<1>1. TypeOK /\ [Next]_vars
      => [\A r \in Challenges :
             /\ status'[r] = "presented" /\ status[r] = "new" => r \in zone
             /\ status'[r] = "removed" /\ status[r] # "removed" => r \notin zone]_vars
  BY StepIsVerified
<1> QED
  BY <1>1, TypeCorrect, PTL DEF Spec, ReportsAreVerified
-----------------------------------------------------------------------------
(* One instance alone, and no request applied late *)
Alone == (\E c \in Clients : Clients = {c}) /\ ~LateWrites

(* The list that a pending setHosts carries is still the change of the     *)
(* zone as it is, and what issue has listed is served, until the record's  *)
(* own Cleanup is under way.                                               *)
AloneInv ==
    /\ late = {}
    /\ \A c \in Clients : pc[c] = "write" => snap[c] = Mutated(op[c], rec[c], zone)
    /\ \A c \in Clients, r \in Challenges :
          stage[c] # "crashed" /\ status[r] = "presented" =>
             \/ r \in zone
             \/ pc[c] # "idle" /\ op[c] = "Cleanup" /\ rec[c] = r

(* The zone and the statuses as one step of the call of c may leave them:  *)
(* the change is applied or not, and the call may end with an error.       *)
Attempted(c) ==
    /\ zone' \in {zone, Mutated(op[c], rec[c], zone)}
    /\ \/ status' = status
       \/ status' = [status EXCEPT ![rec[c]] = IF op[c] = "Present" THEN @ ELSE "leftover"]

(* What an attempt leaves is a step of the promise, or no change. *)
LEMMA AttemptedIsAtomic ==
    ASSUME TypeOK, CallMatchesStage, AloneInv, NEW c \in Clients, pc[c] # "idle",
           Attempted(c)
    PROVE  [Atomic!Next]_(Atomic!vars)
<1> DEFINE r == rec[c]
<1>1. r \in Challenges /\ Owner[r] = c /\ op[c] \in {"Present", "Cleanup"}
  BY DEF TypeOK, CallMatchesStage
<1>2. CASE op[c] = "Present"
  <2>1. stage[c] = "issuing" /\ status[r] \in {"new", "presented"}
    BY <1>1, <1>2 DEF CallMatchesStage, TypeOK, Statuses
  <2>2. status' = status /\ zone' \in {zone, zone \cup {r}}
    BY <1>1, <1>2 DEF Attempted, Mutated, TypeOK
  <2>3. CASE status[r] = "new"
    BY <1>1, <2>2, <2>3 DEF Atomic!Next, Atomic!Publish, Atomic!vars
  <2>4. CASE status[r] = "presented"
    <3>1. r \in zone
      BY <1>1, <1>2, <2>1, <2>4 DEF AloneInv
    <3> QED
      BY <2>2, <3>1 DEF Atomic!vars
  <2> QED BY <2>1, <2>3, <2>4
<1>3. CASE op[c] = "Cleanup"
  <2>1. status[r] = "presented" /\ zone' \in {zone, zone \ {r}}
    BY <1>1, <1>3 DEF CallMatchesStage, Attempted, Mutated
  <2>2. CASE status' = status
    BY <1>1, <2>1, <2>2 DEF Atomic!Next, Atomic!Remove, Atomic!vars
  <2>3. CASE status' = [status EXCEPT ![r] = "leftover"]
    BY <1>1, <2>1, <2>3 DEF Atomic!Next, Atomic!GiveUp
  <2> QED BY <1>3, <2>2, <2>3 DEF Attempted
<1> QED BY <1>1, <1>2, <1>3

(* A call that returns success reports what the zone shows. *)
LEMMA SuccessIsAtomic ==
    ASSUME TypeOK, CallMatchesStage, NEW c \in Clients, pc[c] # "idle",
           Return(c, TRUE), Satisfied(op[c], rec[c], zone), zone' = zone
    PROVE  [Atomic!Next]_(Atomic!vars)
<1> DEFINE r == rec[c]
<1>1. r \in Challenges /\ Owner[r] = c /\ op[c] \in {"Present", "Cleanup"}
  BY DEF TypeOK, CallMatchesStage
<1>2. CASE op[c] = "Present"
  <2>1. status[r] \in {"new", "presented"} /\ r \in zone
    BY <1>1, <1>2 DEF CallMatchesStage, TypeOK, Statuses, Satisfied
  <2>2. status' = [status EXCEPT ![r] = "presented"]
    BY <1>2 DEF Return
  <2>3. CASE status[r] = "new"
    BY <1>1, <2>1, <2>2, <2>3 DEF Atomic!Next, Atomic!ReportPublished
  <2>4. CASE status[r] = "presented"
    BY <2>2, <2>4 DEF TypeOK, Atomic!vars
  <2> QED BY <2>1, <2>3, <2>4
<1>3. CASE op[c] = "Cleanup"
  BY <1>1, <1>3 DEF CallMatchesStage, Satisfied, Return, Atomic!Next, Atomic!ReportRemoved
<1> QED BY <1>1, <1>2, <1>3
(* Every step of an instance that is alone is a step of the promise. *)
LEMMA StepIsAtomic ==
    ASSUME Alone, TypeOK, CallMatchesStage, AloneInv, [Next]_vars
    PROVE  [Atomic!Next]_(Atomic!vars)
<1>1. CASE zone' = zone /\ status' = status
  BY <1>1 DEF Atomic!vars
<1>2. ASSUME NEW c \in Clients, Backoff(c)
      PROVE  \/ status' = status
             \/ status' = [status EXCEPT ![rec[c]] =
                              IF op[c] = "Present" THEN @ ELSE "leftover"]
  BY <1>2 DEF Backoff, Return
<1>3. ASSUME NEW c \in Clients, ReadHosts(c) \/ Verify(c)
      PROVE  [Atomic!Next]_(Atomic!vars)
  <2>1. pc[c] # "idle" /\ zone' = zone
    BY <1>3 DEF ReadHosts, Verify
  <2>2. CASE Satisfied(op[c], rec[c], zone)
    BY <1>3, <2>1, <2>2, SuccessIsAtomic DEF ReadHosts, Verify
  <2>3. CASE ~Satisfied(op[c], rec[c], zone)
    <3>1. Attempted(c)
      BY <1>2, <1>3, <2>1, <2>3 DEF ReadHosts, Verify, Attempted
    <3> QED BY <2>1, <3>1, AttemptedIsAtomic
  <2> QED BY <2>2, <2>3
<1>4. ASSUME NEW c \in Clients, ReadFails(c) \/ ContextDone(c)
      PROVE  [Atomic!Next]_(Atomic!vars)
  <2>1. pc[c] # "idle" /\ zone' = zone
    BY <1>4 DEF ReadFails, ContextDone
  <2>2. Attempted(c)
    BY <1>2, <1>4, <2>1 DEF ReadFails, ContextDone, Return, Attempted
  <2> QED BY <2>1, <2>2, AttemptedIsAtomic
<1>5. ASSUME NEW c \in Clients, WriteHosts(c) \/ WriteFails(c) \/ Crash(c),
             pc[c] = "write"
      PROVE  [Atomic!Next]_(Atomic!vars)
  <2>1. snap[c] = Mutated(op[c], rec[c], zone)
    BY <1>5 DEF AloneInv
  <2>2. Attempted(c)
    BY <1>2, <1>5, <2>1 DEF WriteHosts, WriteFails, Crash, Attempted
  <2> QED BY <1>5, <2>2, AttemptedIsAtomic
<1>6. \/ zone' = zone /\ status' = status
      \/ \E c \in Clients :
            \/ ReadHosts(c) \/ Verify(c)
            \/ ReadFails(c) \/ ContextDone(c)
            \/ /\ WriteHosts(c) \/ WriteFails(c) \/ Crash(c)
               /\ pc[c] = "write"
  BY DEF Next, ClientStep, CallPresent, CallCleanup, Begin, WriteHosts, WriteFails,
         Settle, NextAttempt, Crash, LateWrite, AloneInv, vars
<1> QED
  BY <1>1, <1>3, <1>4, <1>5, <1>6

(* An instance that is alone keeps AloneInv: whatever an attempt does to   *)
(* the zone and however the call ends, the records that issue has listed   *)
(* are served, the record of its own Cleanup apart.                        *)
LEMMA StepAlone ==
    ASSUME Alone, TypeOK, CallMatchesStage, AloneInv, [Next]_vars
    PROVE  AloneInv'
<1>1. PICK c \in Clients : Clients = {c}
  BY DEF Alone
<1>l. late' = {}
  BY DEF Alone, AloneInv, Next, ClientStep, CallPresent, CallCleanup, Begin, ReadHosts,
         ReadFails, WriteHosts, WriteFails, Settle, Verify, NextAttempt, ContextDone,
         Crash, LateWrite, vars
<1>2. CASE UNCHANGED vars
  BY <1>2, <1>l DEF vars, AloneInv
<1>3. CASE CallPresent(c) \/ CallCleanup(c)
  <2>1. /\ pc[c] = "idle" /\ pc'[c] = "read" /\ zone' = zone /\ status' = status
        /\ stage'[c] # "crashed" => stage[c] # "crashed"
    BY <1>3 DEF CallPresent, CallCleanup, Begin, TypeOK
  <2> QED
    BY <1>1, <1>l, <2>1 DEF AloneInv
<1>4. ASSUME pc[c] # "idle", UNCHANGED <<op, rec>>, Attempted(c),
             Backoff(c) \/ Return(c, FALSE)
      PROVE  AloneInv'
  <2>1. pc'[c] \in {"idle", "backoff"}
    BY <1>4 DEF Backoff, Return, TypeOK
  <2>2. ASSUME NEW r \in Challenges, stage'[c] # "crashed", status'[r] = "presented"
        PROVE  r \in zone' \/ (pc'[c] # "idle" /\ op'[c] = "Cleanup" /\ rec'[c] = r)
    <3>1. stage[c] # "crashed"
      BY <1>4 DEF CallMatchesStage, TypeOK
    <3>2. status[r] = "presented"
      BY <1>4, <2>2 DEF Attempted, TypeOK
    <3>3. r \in zone \/ (op[c] = "Cleanup" /\ rec[c] = r)
      BY <3>1, <3>2 DEF AloneInv
    <3>4. CASE op[c] = "Cleanup" /\ rec[c] = r
      <4>1. pc'[c] # "idle"
        BY <1>4, <2>2, <3>4 DEF Backoff, Return, TypeOK
      <4> QED BY <1>4, <3>4, <4>1
    <3>5. CASE r \in zone /\ ~(op[c] = "Cleanup" /\ rec[c] = r)
      BY <1>4, <3>5 DEF Attempted, Mutated, TypeOK
    <3> QED BY <3>3, <3>4, <3>5
  <2> QED
    BY <1>1, <1>l, <2>1, <2>2 DEF AloneInv
<1>5. CASE ReadHosts(c) \/ Verify(c)
  <2>1. /\ pc[c] # "idle" /\ zone' = zone /\ UNCHANGED <<op, rec>>
        /\ stage[c] # "crashed"
    <3>1. pc[c] # "idle" /\ zone' = zone /\ UNCHANGED <<op, rec>>
      BY <1>5 DEF ReadHosts, Verify
    <3>2. stage[c] # "crashed"
      BY <3>1 DEF CallMatchesStage, TypeOK
    <3> QED BY <3>1, <3>2
  <2>2. CASE Return(c, TRUE) /\ Satisfied(op[c], rec[c], zone)
    <3>1. pc'[c] = "idle"
      BY <2>2 DEF Return, TypeOK
    <3>2. ASSUME NEW r \in Challenges, status'[r] = "presented" PROVE r \in zone
      <4>1. CASE r = rec[c]
        BY <2>2, <3>2, <4>1 DEF Return, Satisfied, TypeOK
      <4>2. CASE r # rec[c]
        BY <2>1, <2>2, <3>2, <4>2 DEF Return, AloneInv, TypeOK
      <4> QED BY <4>1, <4>2
    <3> QED
      BY <1>1, <1>l, <2>1, <3>1, <3>2 DEF AloneInv
  <2>3. CASE Backoff(c)
    <3>1. Attempted(c)
      BY <2>1, <2>3 DEF Backoff, Return, Attempted
    <3> QED BY <1>4, <2>1, <2>3, <3>1
  <2>4. CASE /\ pc' = [pc EXCEPT ![c] = "write"]
             /\ snap' = [snap EXCEPT ![c] = Mutated(op[c], rec[c], zone)]
             /\ UNCHANGED <<stage, status>>
    <3>1. pc'[c] = "write" /\ snap'[c] = Mutated(op[c], rec[c], zone)
      BY <2>4 DEF TypeOK
    <3> QED
      BY <1>1, <1>l, <2>1, <2>4, <3>1 DEF AloneInv, Mutated
  <2> QED
    BY <1>5, <2>2, <2>3, <2>4 DEF ReadHosts, Verify
<1>6. CASE ReadFails(c) \/ ContextDone(c)
  <2>1. Attempted(c)
    BY <1>6 DEF ReadFails, ContextDone, Backoff, Return, Attempted
  <2> QED
    BY <1>4, <1>6, <2>1 DEF ReadFails, ContextDone
<1>7. CASE WriteHosts(c) \/ WriteFails(c)
  <2>1. /\ pc[c] = "write" /\ stage[c] # "crashed" /\ UNCHANGED <<op, rec>>
        /\ zone' \in {zone, Mutated(op[c], rec[c], zone)}
    BY <1>7 DEF WriteHosts, WriteFails, AloneInv, CallMatchesStage, TypeOK
  <2>2. CASE Backoff(c)
    <3>1. Attempted(c)
      BY <2>1, <2>2 DEF Backoff, Return, Attempted
    <3> QED BY <1>4, <2>1, <2>2, <3>1
  <2>3. CASE /\ pc'[c] \in {"write", "settle"}
             /\ UNCHANGED <<snap, stage, status>>
    <3>1. snap'[c] = Mutated(op'[c], rec'[c], zone')
      BY <2>1, <2>3 DEF AloneInv, Mutated
    <3>2. ASSUME NEW r \in Challenges, status'[r] = "presented"
          PROVE  r \in zone' \/ (op'[c] = "Cleanup" /\ rec'[c] = r)
      BY <2>1, <2>3, <3>2 DEF AloneInv, Mutated, TypeOK
    <3> QED
      BY <1>1, <1>l, <2>1, <2>3, <3>1, <3>2 DEF AloneInv
  <2> QED
    BY <1>7, <2>2, <2>3 DEF WriteHosts, WriteFails, TypeOK
<1>8. CASE Settle(c) \/ NextAttempt(c)
  <2>1. /\ pc[c] # "idle" /\ pc'[c] \in {"verify", "read"}
        /\ UNCHANGED <<zone, op, rec, stage, status>>
    BY <1>8 DEF Settle, NextAttempt, TypeOK
  <2> QED
    BY <1>1, <1>l, <2>1 DEF AloneInv
<1>9. CASE Crash(c)
  <2>1. pc'[c] = "idle" /\ stage'[c] = "crashed"
    BY <1>9 DEF Crash, TypeOK
  <2> QED
    BY <1>1, <1>l, <2>1 DEF AloneInv
<1> QED
  <2>1. ~LateWrite
    BY DEF LateWrite, AloneInv
  <2> QED
    BY <1>1, <1>2, <1>3, <1>5, <1>6, <1>7, <1>8, <1>9, <2>1 DEF Next, ClientStep

(* For one instance whose requests take effect at once or never, the read, *)
(* merge and write loop with all its retries is atomic to its caller: each *)
(* step adds or removes the record of the call, reports what is so, gives  *)
(* up a cleanup, or changes neither the zone nor what issue knows.         *)
THEOREM AloneIsAtomic == ASSUME Alone PROVE Spec => ImplementsAtomicZone
<1>1. Init => AloneInv /\ Atomic!Init
  BY DEF Init, AloneInv, Atomic!Init
<1>2. TypeOK /\ CallMatchesStage /\ AloneInv /\ [Next]_vars => AloneInv'
  BY StepAlone
<1>3. TypeOK /\ CallMatchesStage /\ AloneInv /\ [Next]_vars
      => [Atomic!Next]_(Atomic!vars)
  BY StepIsAtomic
<1> QED
  BY <1>1, <1>2, <1>3, TypeCorrect, StageInvariance, PTL
     DEF Spec, ImplementsAtomicZone, Atomic!Spec

-----------------------------------------------------------------------------
(* The steps that a call may still take: those of the attempts to come,    *)
(* and those of the present one, whose request has some tries left.        *)
AttemptSteps == HttpTries + 4
StepsOfAttempt(c) ==
    CASE pc[c] = "read" -> AttemptSteps
      [] pc[c] = "write" -> (HttpTries - tries[c]) + 4
      [] pc[c] = "settle" -> 3
      [] pc[c] = "verify" -> 2
      [] pc[c] = "backoff" -> 1
StepsLeft(c) ==
    IF pc[c] = "idle" THEN 0
    ELSE (MutationAttempts - attempt[c]) * AttemptSteps + StepsOfAttempt(c)
MostSteps == MutationAttempts * AttemptSteps

(* A product with one factor more *)
LEMMA AttemptsArithmetic ==
    ASSUME NEW m \in Nat, NEW a \in 1..m, NEW k \in Nat
    PROVE  /\ (m - a) * k \in Nat /\ m * k \in Nat
           /\ (m - a) * k + k <= m * k
           /\ a < m => (m - a) * k = (m - (a + 1)) * k + k
<1>1. \A x, y \in Nat : x * y \in Nat
  OBVIOUS
<1>2. \A x, y \in Nat : (x + y) * k = x * k + y * k
  OBVIOUS
<1>3. m - a \in Nat /\ a - 1 \in Nat /\ (m - a) + 1 \in Nat
  OBVIOUS
<1>4. m * k = ((m - a) + 1) * k + (a - 1) * k
  <2>1. m = ((m - a) + 1) + (a - 1)
    OBVIOUS
  <2> QED BY <1>2, <1>3, <2>1
<1>5. ((m - a) + 1) * k = (m - a) * k + k
  BY <1>2, <1>3
<1>6. a < m => (m - a) * k = (m - (a + 1)) * k + k
  <2> SUFFICES ASSUME a < m PROVE (m - a) * k = (m - (a + 1)) * k + k
    OBVIOUS
  <2>1. m - (a + 1) \in Nat /\ m - a = (m - (a + 1)) + 1
    OBVIOUS
  <2> QED BY <1>2, <2>1
<1> QED BY <1>1, <1>3, <1>4, <1>5, <1>6

LEMMA StepsLeftFacts ==
    ASSUME TypeOK, NEW c \in Clients
    PROVE  /\ StepsLeft(c) \in 0..MostSteps
           /\ StepsLeft(c) = 0 <=> pc[c] = "idle"
<1>1. /\ attempt[c] \in 1..MutationAttempts /\ tries[c] \in 1..HttpTries /\ pc[c] \in Steps
      /\ MutationAttempts \in Nat /\ HttpTries \in Nat /\ AttemptSteps \in Nat
  BY BoundAssumption DEF TypeOK, AttemptSteps
<1>2. pc[c] # "idle" => StepsOfAttempt(c) \in 1..AttemptSteps
  BY <1>1 DEF StepsOfAttempt, Steps, AttemptSteps
<1> DEFINE k == AttemptSteps
           p == (MutationAttempts - attempt[c]) * k
           q == MutationAttempts * k
<1>3. p \in Nat /\ q \in Nat /\ p + k <= q
  BY <1>1, AttemptsArithmetic
<1> HIDE DEF p, q
<1>4. CASE pc[c] = "idle"
  BY <1>3, <1>4 DEF StepsLeft, MostSteps, q
<1>5. CASE pc[c] # "idle"
  <2>1. StepsLeft(c) = p + StepsOfAttempt(c)
    BY <1>5 DEF StepsLeft, p
  <2>2. MostSteps = q
    BY DEF MostSteps, q
  <2> QED BY <1>1, <1>2, <1>3, <1>5, <2>1, <2>2
<1> QED BY <1>4, <1>5

(* Backing off, or giving up, leaves fewer steps than any request. *)
LEMMA BackoffAdvances ==
    ASSUME TypeOK, NEW c \in Clients, pc[c] \in {"read", "write", "verify"}, Backoff(c)
    PROVE  StepsLeft(c)' < StepsLeft(c)
<1>1. /\ attempt[c] \in 1..MutationAttempts /\ tries[c] \in 1..HttpTries
      /\ HttpTries \in Nat /\ StepsLeft(c) \in Nat
  BY BoundAssumption, StepsLeftFacts DEF TypeOK
<1>2. CASE attempt[c] < MutationAttempts
  <2>1. pc'[c] = "backoff" /\ attempt' = attempt
    BY <1>2 DEF Backoff, TypeOK
  <2>2. StepsOfAttempt(c) \in Nat /\ StepsOfAttempt(c) > 1
    BY <1>1 DEF StepsOfAttempt, AttemptSteps
  <2> DEFINE p == (MutationAttempts - attempt[c]) * AttemptSteps
  <2>3. p \in Nat
    BY <1>1, BoundAssumption, AttemptsArithmetic DEF AttemptSteps
  <2>4. StepsLeft(c)' = p + 1 /\ StepsLeft(c) = p + StepsOfAttempt(c)
    BY <2>1 DEF StepsLeft, StepsOfAttempt
  <2> HIDE DEF p
  <2> QED BY <2>2, <2>3, <2>4
<1>3. CASE ~(attempt[c] < MutationAttempts)
  <2>1. StepsLeft(c)' = 0
    BY <1>3 DEF Backoff, Return, StepsLeft, TypeOK
  <2> QED BY <1>1, <2>1, StepsLeftFacts
<1> QED BY <1>2, <1>3

(* A success, and an end of the context *)
LEMMA ReturnAdvances ==
    ASSUME TypeOK, NEW c \in Clients, pc[c] # "idle", NEW ok \in BOOLEAN, Return(c, ok)
    PROVE  StepsLeft(c)' < StepsLeft(c)
<1>1. StepsLeft(c)' = 0
  BY DEF Return, StepsLeft, TypeOK
<1>2. StepsLeft(c) \in 0..MostSteps /\ StepsLeft(c) # 0
  BY StepsLeftFacts
<1> QED BY <1>1, <1>2

LEMMA ClientStepAdvances ==
    ASSUME TypeOK, AttemptsLeft, NEW c \in Clients, ClientStep(c)
    PROVE  StepsLeft(c)' < StepsLeft(c)
<1>1. /\ attempt[c] \in 1..MutationAttempts /\ tries[c] \in 1..HttpTries
      /\ MutationAttempts \in Nat /\ HttpTries \in Nat /\ HttpTries > 0
      /\ AttemptSteps \in Nat
  BY BoundAssumption DEF TypeOK, AttemptSteps
<1> DEFINE p == (MutationAttempts - attempt[c]) * AttemptSteps
<1>2. p \in Nat
  BY <1>1, AttemptsArithmetic
<1>3. ASSUME pc[c] # "idle", pc'[c] # "idle", attempt'[c] = attempt[c]
      PROVE  StepsLeft(c) = p + StepsOfAttempt(c) /\ StepsLeft(c)' = p + StepsOfAttempt(c)'
  BY <1>3 DEF StepsLeft
<1> HIDE DEF p
<1>4. CASE ReadHosts(c)
  <2>1. CASE Return(c, TRUE)
    BY <1>4, <2>1, ReturnAdvances DEF ReadHosts
  <2>2. CASE ~Return(c, TRUE)
    <3>1. pc[c] = "read" /\ pc'[c] = "write" /\ tries'[c] = 1 /\ attempt'[c] = attempt[c]
      BY <1>4, <2>2 DEF ReadHosts, TypeOK
    <3>2. StepsOfAttempt(c) = HttpTries + 4 /\ StepsOfAttempt(c)' = (HttpTries - 1) + 4
      BY <3>1 DEF StepsOfAttempt, AttemptSteps
    <3> QED BY <1>1, <1>2, <1>3, <3>1, <3>2
  <2> QED BY <2>1, <2>2
<1>5. CASE ReadFails(c)
  BY <1>5, BackoffAdvances DEF ReadFails
<1>6. CASE WriteHosts(c)
  <2>1. pc[c] = "write" /\ pc'[c] = "settle" /\ attempt'[c] = attempt[c]
    BY <1>6 DEF WriteHosts, TypeOK
  <2>2. StepsOfAttempt(c) = (HttpTries - tries[c]) + 4 /\ StepsOfAttempt(c)' = 3
    BY <2>1 DEF StepsOfAttempt
  <2> QED BY <1>1, <1>2, <1>3, <2>1, <2>2
<1>7. CASE WriteFails(c)
  <2>1. CASE Backoff(c)
    BY <1>7, <2>1, BackoffAdvances DEF WriteFails
  <2>2. CASE ~Backoff(c)
    <3>1. /\ pc[c] = "write" /\ pc'[c] = "write" /\ attempt'[c] = attempt[c]
          /\ tries[c] < HttpTries /\ tries'[c] = tries[c] + 1
      BY <1>7, <2>2 DEF WriteFails, TypeOK
    <3>2. /\ StepsOfAttempt(c) = (HttpTries - tries[c]) + 4
          /\ StepsOfAttempt(c)' = (HttpTries - (tries[c] + 1)) + 4
      BY <3>1 DEF StepsOfAttempt
    <3> QED BY <1>1, <1>2, <1>3, <3>1, <3>2
  <2> QED BY <2>1, <2>2
<1>8. CASE Settle(c)
  <2>1. pc[c] = "settle" /\ pc'[c] = "verify" /\ attempt'[c] = attempt[c]
    BY <1>8 DEF Settle, TypeOK
  <2>2. StepsOfAttempt(c) = 3 /\ StepsOfAttempt(c)' = 2
    BY <2>1 DEF StepsOfAttempt
  <2> QED BY <1>2, <1>3, <2>1, <2>2
<1>9. CASE Verify(c)
  BY <1>9, ReturnAdvances, BackoffAdvances DEF Verify
<1>10. CASE ContextDone(c)
  BY <1>10, ReturnAdvances DEF ContextDone
<1>11. CASE NextAttempt(c)
  <2>1. /\ pc[c] = "backoff" /\ attempt[c] < MutationAttempts
        /\ pc'[c] = "read" /\ attempt'[c] = attempt[c] + 1
    BY <1>11 DEF NextAttempt, AttemptsLeft, TypeOK
  <2> DEFINE r == (MutationAttempts - (attempt[c] + 1)) * AttemptSteps
  <2>2. p = r + AttemptSteps
    BY <1>1, <2>1, AttemptsArithmetic DEF p
  <2>3. r \in Nat
    <3>1. attempt[c] + 1 \in 1..MutationAttempts
      BY <1>1, <2>1
    <3> QED BY <1>1, <3>1, AttemptsArithmetic
  <2>4. StepsLeft(c) = p + 1
    BY <2>1 DEF StepsLeft, StepsOfAttempt, p
  <2>5. StepsLeft(c)' = r + AttemptSteps
    BY <2>1 DEF StepsLeft, StepsOfAttempt, AttemptSteps
  <2> HIDE DEF r
  <2> QED BY <1>1, <2>2, <2>3, <2>4, <2>5
<1> QED BY <1>4, <1>5, <1>6, <1>7, <1>8, <1>9, <1>10, <1>11 DEF ClientStep

(* What the others do, and a crash, takes none of a call's steps away but  *)
(* its end, and adds none.                                                 *)
LEMMA OthersLeaveSteps ==
    ASSUME TypeOK, [Next]_vars, NEW c \in Clients, pc[c] # "idle", ~ClientStep(c)
    PROVE  StepsLeft(c)' \in {StepsLeft(c), 0}
<1>2. ASSUME pc'[c] = pc[c], attempt'[c] = attempt[c], tries'[c] = tries[c]
      PROVE  StepsLeft(c)' = StepsLeft(c)
  <2>1. StepsOfAttempt(c)' = StepsOfAttempt(c)
    BY <1>2, Zenon DEF StepsOfAttempt, AttemptSteps
  <2>2. AttemptSteps' = AttemptSteps
    BY DEF AttemptSteps
  <2> QED BY <1>2, <2>1, <2>2 DEF StepsLeft
<1>1. CASE UNCHANGED <<pc, attempt, tries>>
  BY <1>1, <1>2
<1>3. ASSUME NEW d \in Clients, CallPresent(d) \/ CallCleanup(d)
      PROVE  d # c /\ pc'[c] = pc[c] /\ attempt'[c] = attempt[c] /\ tries' = tries
  <2>1. PICK o, r : Begin(d, o, r)
    BY <1>3 DEF CallPresent, CallCleanup
  <2> QED BY <2>1 DEF Begin, TypeOK
<1>4. ASSUME NEW d \in Clients, ClientStep(d)
      PROVE  d # c /\ pc'[c] = pc[c] /\ attempt'[c] = attempt[c] /\ tries'[c] = tries[c]
  <2>1. d # c
    BY <1>4
  <2>2. ASSUME Return(d, TRUE) \/ Return(d, FALSE) \/ Backoff(d)
        PROVE  pc'[c] = pc[c] /\ attempt'[c] = attempt[c] /\ tries'[c] = tries[c]
    BY <2>1, <2>2 DEF Return, Backoff, TypeOK
  <2>3. CASE ReadHosts(d) \/ ReadFails(d) \/ Verify(d) \/ ContextDone(d)
    BY <2>1, <2>2, <2>3 DEF ReadHosts, ReadFails, Verify, ContextDone, TypeOK
  <2>4. CASE WriteHosts(d) \/ WriteFails(d) \/ Settle(d) \/ NextAttempt(d)
    BY <2>1, <2>2, <2>4 DEF WriteHosts, WriteFails, Settle, NextAttempt, TypeOK
  <2> QED BY <1>4, <2>1, <2>3, <2>4 DEF ClientStep
<1>5. ASSUME NEW d \in Clients, Crash(d) PROVE StepsLeft(c)' \in {StepsLeft(c), 0}
  <2>1. CASE d = c
    BY <1>5, <2>1 DEF Crash, StepsLeft, TypeOK
  <2>2. CASE d # c
    BY <1>2, <1>5, <2>2 DEF Crash, TypeOK
  <2> QED BY <2>1, <2>2
<1> QED
  BY <1>1, <1>2, <1>3, <1>4, <1>5 DEF Next, LateWrite, vars

(* A call of Present or Cleanup ends after a bounded number of its own     *)
(* steps, 6 * 7 with the code's constants, whatever the API answers and    *)
(* whatever the other instances do: each step uses one up, and nothing     *)
(* but the next call brings new ones.                                      *)
THEOREM CallsAreFinite ==
    Spec => /\ [](\A c \in Clients : /\ StepsLeft(c) \in 0..MostSteps
                                     /\ StepsLeft(c) = 0 <=> pc[c] = "idle")
            /\ [][\A c \in Clients :
                     /\ ClientStep(c) => StepsLeft(c)' < StepsLeft(c)
                     /\ pc[c] # "idle" => StepsLeft(c)' <= StepsLeft(c)]_vars
<1>1. TypeOK => \A c \in Clients : /\ StepsLeft(c) \in 0..MostSteps
                                   /\ StepsLeft(c) = 0 <=> pc[c] = "idle"
  BY StepsLeftFacts
<1>3. TypeOK' => (\A c \in Clients : /\ StepsLeft(c) \in 0..MostSteps
                                     /\ StepsLeft(c) = 0 <=> pc[c] = "idle")'
  BY <1>1, PTL
<1>2. IInv /\ [Next]_vars =>
        [\A c \in Clients :
            /\ ClientStep(c) => StepsLeft(c)' < StepsLeft(c)
            /\ pc[c] # "idle" => StepsLeft(c)' <= StepsLeft(c)]_vars
  <2> SUFFICES ASSUME IInv, [Next]_vars, NEW c \in Clients
               PROVE  /\ ClientStep(c) => StepsLeft(c)' < StepsLeft(c)
                      /\ pc[c] # "idle" => StepsLeft(c)' <= StepsLeft(c)
    OBVIOUS
  <2>1. ClientStep(c) => StepsLeft(c)' < StepsLeft(c)
    BY ClientStepAdvances DEF IInv
  <2>2. StepsLeft(c) \in Nat
    BY <1>1, BoundAssumption DEF IInv, MostSteps, AttemptSteps
  <2>3. pc[c] # "idle" /\ ~ClientStep(c) => StepsLeft(c)' \in {StepsLeft(c), 0}
    BY OthersLeaveSteps DEF IInv
  <2>4. ClientStep(c) => StepsLeft(c)' <= StepsLeft(c)
    <3>1. StepsLeft(c)' \in Nat
      <4>1. TypeOK'
        BY StepTyped DEF IInv
      <4> QED BY <1>3, <4>1, BoundAssumption DEF MostSteps, AttemptSteps
    <3> QED BY <2>1, <2>2, <3>1
  <2> QED BY <2>1, <2>2, <2>3, <2>4
<1> QED
  <2>1. IInv => TypeOK
    BY DEF IInv
  <2> QED BY <1>1, <1>2, <2>1, Invariance, PTL DEF Spec
=============================================================================
