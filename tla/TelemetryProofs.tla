---------------------------- MODULE TelemetryProofs ---------------------------
(***************************************************************************)
(* Proofs about Telemetry, for any number of requests, sensors, lives,     *)
(* days and faults.                                                        *)
(***************************************************************************)
EXTENDS Telemetry, TLAPS

Pending == {"queued", "absent", "created"}

(* Requests are numbered as they finish, those to come are untouched, and  *)
(* nothing is pushed or logged by a process that does not run.             *)
CountInv ==
    /\ stats <= finished
    /\ \A r \in Requests : r > finished => request[r] = "open" /\ stage[r] = "none"
    /\ phase = "down" => \A r \in Requests : request[r] \in {"open", "done"}
    /\ phase \in {"down", "closed"} => queue = <<>>

(* The waiters of the lock are in the order of their numbers, all of them  *)
(* pending and nobody else is.  Only the holder has found its blob         *)
(* missing, and then it is: nobody else creates it meanwhile.              *)
QueueInv ==
    /\ \A i, j \in DOMAIN queue : i < j => queue[i] < queue[j]
    /\ \A i \in DOMAIN queue : queue[i] <= finished
    /\ \A r \in Requests : stage[r] \in Pending => \E i \in DOMAIN queue : queue[i] = r
    /\ \A i \in DOMAIN queue : stage[queue[i]] \in Pending
    /\ \A i \in DOMAIN queue : i > 1 => stage[queue[i]] = "queued"
    /\ \A r \in Requests : stage[r] = "absent" => dayOf[r] \notin created

(* The lines of a blob are in order and before all that wait *)
BlobInv ==
    /\ \A d \in 1..Days : d \notin created => blob[d] = <<>>
    /\ \A d \in 1..Days : \A i \in DOMAIN blob[d] :
          /\ blob[d][i] <= finished
          /\ \A j \in DOMAIN queue : blob[d][i] < queue[j]
    /\ LogInOrder
    /\ WrittenIsLogged

LogInv == QueueInv /\ BlobInv

(* Until pushes cross there is at most one, of a value no less than the    *)
(* sensors', and no post is left that was given up.                        *)
SensorInv ==
    /\ \A i \in 1..Sensors : sensor[i].life <= life
    /\ \A r \in Pushes : snap[r] <= stats
    /\ ~crossed =>
          /\ late = {}
          /\ \A r, q \in Pushes : r = q
          /\ \A i \in 1..Sensors : sensor[i].life = life =>
                /\ phase # "down" => sensor[i].count <= stats
                /\ \A r \in Pushes : sensor[i].count <= snap[r]

LateInv == \A p \in late : p[2].life <= life

IInv == TypeOK /\ CountInv /\ LogInv /\ SensorInv /\ LateInv

-----------------------------------------------------------------------------
(* Taking the head off a queue, and waiting at its end *)
LEMMA SeqFacts ==
    ASSUME NEW q \in Seq(Requests)
    PROVE  /\ Len(q) \in Nat /\ DOMAIN q = 1..Len(q)
           /\ \A i \in DOMAIN q : q[i] \in Requests
OBVIOUS

LEMMA TailFacts ==
    ASSUME NEW q \in Seq(Requests), q # <<>>
    PROVE  /\ Tail(q) \in Seq(Requests)
           /\ DOMAIN q = 1..Len(q) /\ DOMAIN Tail(q) = 1..(Len(q) - 1)
           /\ Len(q) \in Nat \ {0}
           /\ Head(q) = q[1] /\ q[1] \in Requests
           /\ \A i \in 1..(Len(q) - 1) : Tail(q)[i] = q[i + 1]
OBVIOUS

LEMMA AppendFacts ==
    ASSUME NEW q \in Seq(Requests), NEW r \in Requests
    PROVE  /\ Append(q, r) \in Seq(Requests)
           /\ DOMAIN q = 1..Len(q) /\ DOMAIN Append(q, r) = 1..(Len(q) + 1)
           /\ Len(q) \in Nat
           /\ Append(q, r)[Len(q) + 1] = r
           /\ \A i \in 1..Len(q) : Append(q, r)[i] = q[i]
OBVIOUS

LEMMA TwiceFacts ==
    ASSUME NEW q \in Seq(Requests), NEW r \in Requests,
           NEW lines \in {Append(q, r), Append(Append(q, r), r)}
    PROVE  /\ DOMAIN lines \in {1..(Len(q) + 1), 1..(Len(q) + 2)}
           /\ \A i \in 1..Len(q) : lines[i] = q[i]
           /\ \A i \in DOMAIN lines : i > Len(q) => lines[i] = r
<1>1. CASE lines = Append(q, r)
  BY <1>1, AppendFacts
<1>2. CASE lines = Append(Append(q, r), r)
  <2>1. /\ Append(q, r) \in Seq(Requests) /\ Len(Append(q, r)) = Len(q) + 1
        /\ Len(q) \in Nat
    OBVIOUS
  <2>2. /\ DOMAIN lines = 1..(Len(q) + 2)
        /\ lines[Len(q) + 2] = r
        /\ \A i \in 1..(Len(q) + 1) : lines[i] = Append(q, r)[i]
    BY <1>2, <2>1, AppendFacts
  <2>3. lines[Len(q) + 1] = r /\ \A i \in 1..Len(q) : lines[i] = q[i]
    BY <2>1, <2>2, AppendFacts
  <2>4. \A i \in 1..(Len(q) + 2) : i > Len(q) => i = Len(q) + 1 \/ i = Len(q) + 2
    BY <2>1
  <2> QED BY <2>2, <2>3, <2>4
<1> QED BY <1>1, <1>2

(* The states that steps assign *)
LEMMA StateNames ==
    /\ {"open", "offered", "stream_push", "chat_push", "done"} \subseteq RequestStates
    /\ {"none", "queued", "absent", "created", "written", "failed", "lost"} \subseteq Stages
    /\ {"down", "serving", "flushing", "closed"} \subseteq Phases /\ "off" \in Modes
BY DEF RequestStates, Stages, Phases, Modes

(* The first state satisfies the invariant. *)
LEMMA InitIInv == Init => IInv
<1> SUFFICES ASSUME Init PROVE IInv
  OBVIOUS
<1> USE TelemetryAssumption DEF Init
<1>1. TypeOK
  <2>1. /\ blob \in [1..Days -> Seq(Requests)] /\ queue \in Seq(Requests)
        /\ late \subseteq (1..Sensors) \X Value /\ created \subseteq 1..Days
    OBVIOUS
  <2>4. /\ ensured \in BOOLEAN /\ crossed \in BOOLEAN
        /\ life \in 0..MaxLives /\ faults \in 0..MaxFaults /\ day \in 1..Days
        /\ stats \in 0..MaxRequests /\ finished \in 0..MaxRequests
    <3>1. /\ 0 \in 0..MaxLives /\ 0 \in 0..MaxFaults /\ 1 \in 1..Days
          /\ 0 \in 0..MaxRequests
      OBVIOUS
    <3>2. ensured \in BOOLEAN /\ crossed \in BOOLEAN
      OBVIOUS
    <3> QED BY <3>1, <3>2
  <2>5. /\ snap \in [Requests -> 0..MaxRequests] /\ at \in [Requests -> 1..Sensors]
        /\ dayOf \in [Requests -> 1..Days]
    <3>1. 0 \in 0..MaxRequests /\ 1 \in 1..Sensors /\ 1 \in 1..Days
      OBVIOUS
    <3> QED BY <3>1
  <2>2. /\ request \in [Requests -> RequestStates] /\ stage \in [Requests -> Stages]
        /\ phase \in Phases /\ mode \in Modes
    BY DEF RequestStates, Stages, Phases, Modes
  <2>3. sensor \in [1..Sensors -> Value]
    BY DEF Value
  <2> QED
    BY ONLY <2>1, <2>2, <2>3, <2>4, <2>5 DEF TypeOK
<1>2. CountInv
  BY DEF CountInv, Pushes
<1>3. LogInv
  BY DEF LogInv, QueueInv, BlobInv, Pending, LogInOrder, WrittenIsLogged
<1>4. SensorInv /\ LateInv
  BY DEF SensorInv, LateInv, Pushes
<1> QED BY <1>1, <1>2, <1>3, <1>4 DEF IInv

(* A post that is given up is of the present life and marks the pushes as  *)
(* crossed; if none is, nothing changes.                                   *)
LEMMA GiveUpFacts ==
    ASSUME TypeOK, NEW senders \in SUBSET Requests, GiveUp(senders)
    PROVE  /\ late' \subseteq (1..Sensors) \X Value /\ crossed' \in BOOLEAN
           /\ ~crossed' => ~crossed /\ late' = late
           /\ LateInv => \A p \in late' : p[2].life <= life
<1>1. PICK sent \in SUBSET senders :
        late' = late \cup {InFlight(r) : r \in sent} /\ crossed' = (crossed \/ sent # {})
  BY DEF GiveUp
<1>2. /\ life \in 0..MaxLives /\ at \in [Requests -> 1..Sensors] /\ crossed \in BOOLEAN
      /\ snap \in [Requests -> 0..MaxRequests] /\ late \subseteq (1..Sensors) \X Value
  BY DEF TypeOK
<1>3. \A r \in sent : InFlight(r) \in (1..Sensors) \X Value /\ InFlight(r)[2].life = life
  BY <1>2 DEF InFlight, Value
<1>4. late' \subseteq (1..Sensors) \X Value /\ crossed' \in BOOLEAN
  BY <1>1, <1>2, <1>3
<1>5. ~crossed' => ~crossed /\ late' = late
  BY <1>1
<1>6. ASSUME LateInv, NEW p \in late' PROVE p[2].life <= life
  <2>1. CASE p \in late
    BY <2>1, <1>6 DEF LateInv
  <2>2. ASSUME NEW r \in sent, p = InFlight(r) PROVE p[2].life <= life
    BY <2>2, <1>2, <1>3, TelemetryAssumption
  <2> QED BY <2>1, <2>2, <1>1
<1> QED BY <1>4, <1>5, <1>6

(* Every step keeps the types. *)
LEMMA TypeStep == IInv /\ [Next]_vars => TypeOK'
<1> SUFFICES ASSUME IInv, [Next]_vars PROVE TypeOK'
  OBVIOUS
<1> USE TelemetryAssumption DEF IInv, TypeOK, service, pushing, log
<1>1. CASE Boot
  BY <1>1 DEF Boot, Phases
<1>2. CASE Stop \/ Close
  BY <1>2 DEF Stop, Close, Phases
<1>3. CASE Exit
  <2>1. /\ request' \in [Requests -> RequestStates] /\ stage' \in [Requests -> Stages]
        /\ phase' \in Phases /\ mode' \in Modes
    BY <1>3 DEF Exit, RequestStates, Stages, Phases, Modes
  <2>2. /\ snap' \in [Requests -> 0..MaxRequests] /\ at' \in [Requests -> 1..Sensors]
        /\ stats' \in 0..MaxRequests /\ queue' \in Seq(Requests) /\ ensured' \in BOOLEAN
    <3>1. 0 \in 0..MaxRequests /\ 1 \in 1..Sensors /\ <<>> \in Seq(Requests)
      OBVIOUS
    <3> QED BY <3>1, <1>3 DEF Exit
  <2>3. UNCHANGED <<life, finished, sensor, dayOf, blob, created, day, faults>>
    BY <1>3 DEF Exit
  <2>4. late' \subseteq (1..Sensors) \X Value /\ crossed' \in BOOLEAN
    BY <1>3, GiveUpFacts DEF Exit, Pushes
  <2> QED
    BY <2>1, <2>2, <2>3, <2>4
<1>4. CASE Midnight
  BY <1>4 DEF Midnight
<1>5. ASSUME NEW how \in {"chat_push", "offered"}, NEW o \in Outcomes, Reply(how, o)
      PROVE  TypeOK'
  <2> DEFINE r == finished + 1
  <2>1. r \in Requests /\ finished' = r /\ stats' = stats + 1
    BY <1>5 DEF Reply, Requests
  <2>2. stats' \in 0..MaxRequests /\ finished' \in 0..MaxRequests
    BY <2>1, <1>5 DEF Reply, CountInv
  <2>3. /\ queue' \in Seq(Requests) /\ stage' \in [Requests -> Stages]
        /\ dayOf' \in [Requests -> 1..Days]
    <3>1. LogEvent(r, o)
      BY <1>5 DEF Reply
    <3>2. CASE IsLogged(o)
      <4>1. queue' \in Seq(Requests)
        BY ONLY queue \in Seq(Requests), <2>1, <3>1, <3>2, AppendFacts DEF LogEvent, Waits
      <4>2. stage' \in [Requests -> Stages] /\ dayOf' \in [Requests -> 1..Days]
        BY <3>1, <3>2, StateNames, ZenonT(40) DEF LogEvent
      <4> QED BY <4>1, <4>2
    <3> QED BY <3>1, <3>2 DEF LogEvent
  <2>4. request' \in [Requests -> RequestStates]
    BY <1>5, StateNames, ZenonT(40) DEF Reply, BeginPush
  <2>5. snap' \in [Requests -> 0..MaxRequests] /\ crossed' \in BOOLEAN
    <3>1. \/ BeginPush(r, how, stats + 1)
          \/ UNCHANGED <<snap, crossed>>
      BY <1>5 DEF Reply
    <3>2. stats + 1 \in 0..MaxRequests
      BY <2>1, <2>2
    <3> QED
      BY <3>1, <3>2, ZenonT(40) DEF BeginPush
  <2>6. UNCHANGED <<phase, life, mode, ensured, at, sensor, late, blob, created, day, faults>>
    BY <1>5 DEF Reply
  <2> QED
    BY <2>2, <2>3, <2>4, <2>5, <2>6
<1>6. ASSUME NEW r \in Requests, TakeLastChunk(r) PROVE TypeOK'
  <2>1. request' \in [Requests -> RequestStates]
    BY <1>6, StateNames DEF TakeLastChunk, BeginPush
  <2>2. snap' \in [Requests -> 0..MaxRequests] /\ crossed' \in BOOLEAN
    BY <1>6 DEF TakeLastChunk, BeginPush, Snapshot
  <2> QED
    BY <1>6, <2>1, <2>2 DEF TakeLastChunk
<1>7. ASSUME NEW r \in Requests, Leave(r) PROVE TypeOK'
  <2>1. /\ request' \in [Requests -> RequestStates] /\ at' \in [Requests -> 1..Sensors]
        /\ snap' \in [Requests -> 0..MaxRequests]
    BY <1>7, StateNames DEF Leave, EndRequest
  <2>2. late' \subseteq (1..Sensors) \X Value /\ crossed' \in BOOLEAN
    BY <1>7, GiveUpFacts DEF Leave, Pushes
  <2>3. UNCHANGED <<service, sensor, log, day, faults>>
    BY <1>7 DEF Leave
  <2> QED
    BY <2>1, <2>2, <2>3
<1>8. ASSUME NEW r \in Requests, Post(r) PROVE TypeOK'
  <2> DEFINE value == [life |-> life, count |-> snap[r]]
  <2>1. value \in Value /\ at[r] \in 1..Sensors
    BY DEF Value
  <2> HIDE DEF value
  <2>2. \/ /\ sensor' = [sensor EXCEPT ![at[r]] = value]
           /\ UNCHANGED <<late, crossed, faults>>
        \/ /\ faults < MaxFaults /\ faults' = faults + 1
           /\ GiveUp({r})
           /\ UNCHANGED sensor
    BY <1>8 DEF Post, InFlight, value
  <2>3. sensor' \in [1..Sensors -> Value]
    BY <2>1, <2>2
  <2>4. late' \subseteq (1..Sensors) \X Value /\ crossed' \in BOOLEAN
    <3>1. UNCHANGED <<late, crossed>> \/ GiveUp({r})
      BY <2>2
    <3> QED BY <3>1, GiveUpFacts
  <2>5. faults' \in 0..MaxFaults
    <3>1. faults \in 0..MaxFaults /\ MaxFaults \in Nat
      OBVIOUS
    <3>2. faults' = faults \/ (faults < MaxFaults /\ faults' = faults + 1)
      BY <2>2
    <3> QED BY ONLY <3>1, <3>2
  <2>9. \/ EndRequest(r)
        \/ /\ at' = [at EXCEPT ![r] = at[r] + 1] /\ at[r] # Sensors
           /\ UNCHANGED <<request, snap>>
    BY <1>8 DEF Post, LastSensor
  <2>6. request' \in [Requests -> RequestStates] /\ snap' \in [Requests -> 0..MaxRequests]
    <3>1. /\ request' = request \/ request' = [request EXCEPT ![r] = "done"]
          /\ snap' = snap \/ snap' = [snap EXCEPT ![r] = 0]
      BY <2>9 DEF EndRequest
    <3>2. 0 \in 0..MaxRequests /\ "done" \in RequestStates
      BY StateNames
    <3> QED
      BY ONLY <3>1, <3>2, request \in [Requests -> RequestStates],
              snap \in [Requests -> 0..MaxRequests]
  <2>7. at' \in [Requests -> 1..Sensors]
    <3>1. CASE EndRequest(r)
      BY <3>1 DEF EndRequest
    <3>2. CASE at' = [at EXCEPT ![r] = at[r] + 1] /\ at[r] # Sensors
      <4>1. at[r] + 1 \in 1..Sensors
        BY ONLY <3>2, <2>1, TelemetryAssumption
      <4> QED
        BY ONLY <3>2, <4>1, at \in [Requests -> 1..Sensors]
    <3> QED BY <2>9, <3>1, <3>2
  <2>8. UNCHANGED <<service, log, day>>
    BY <1>8 DEF Post
  <2> QED
    BY <2>3, <2>4, <2>5, <2>6, <2>7, <2>8
<1>9. CASE ApplyLate
  BY <1>9 DEF ApplyLate
<1>10. ASSUME NEW r \in Requests, EnsureContainer(r) PROVE TypeOK'
  <2>1. Tail(queue) \in Seq(Requests)
    BY <1>10, TailFacts DEF EnsureContainer, Holds
  <2>2. queue' \in Seq(Requests)
    BY <1>10, <2>1 DEF EnsureContainer, EndTask
  <2>3. stage' \in [Requests -> Stages]
    BY <1>10, StateNames DEF EnsureContainer, EndTask
  <2>4. faults' \in 0..MaxFaults
    BY <1>10 DEF EnsureContainer, Fault
  <2>5. ensured' \in BOOLEAN
    BY <1>10 DEF EnsureContainer
  <2>6. UNCHANGED <<service, pushing, dayOf, blob, created, day>>
    BY <1>10 DEF EnsureContainer
  <2> QED
    BY <2>2, <2>3, <2>4, <2>5, <2>6
<1>11. ASSUME NEW r \in Requests, AppendBlock(r) PROVE TypeOK'
  <2>1. Tail(queue) \in Seq(Requests)
    BY <1>11, TailFacts DEF AppendBlock, Holds
  <2>2. queue' \in Seq(Requests)
    BY <1>11, <2>1 DEF AppendBlock, EndTask
  <2>3. stage' \in [Requests -> Stages]
    BY <1>11, StateNames DEF AppendBlock, EndTask
  <2>4. faults' \in 0..MaxFaults
    BY <1>11, SMTT(30) DEF AppendBlock, Fault
  <2>5. blob' \in [1..Days -> Seq(Requests)]
    <3>1. blob[dayOf[r]] \in Seq(Requests)
      OBVIOUS
    <3>2. /\ Append(blob[dayOf[r]], r) \in Seq(Requests)
          /\ Append(Append(blob[dayOf[r]], r), r) \in Seq(Requests)
      BY <3>1, AppendFacts
    <3> QED
      BY <1>11, <3>2 DEF AppendBlock
  <2>6. UNCHANGED <<service, pushing, ensured, dayOf, created, day>>
    BY <1>11 DEF AppendBlock
  <2> QED
    BY <2>2, <2>3, <2>4, <2>5, <2>6
<1>12. ASSUME NEW r \in Requests, CreateBlob(r) PROVE TypeOK'
  <2>1. Tail(queue) \in Seq(Requests)
    BY <1>12, TailFacts DEF CreateBlob, Holds
  <2>2. queue' \in Seq(Requests)
    BY <1>12, <2>1 DEF CreateBlob, EndTask
  <2>3. stage' \in [Requests -> Stages]
    BY <1>12, StateNames DEF CreateBlob, EndTask
  <2>4. faults' \in 0..MaxFaults
    <3>1. UNCHANGED faults \/ Fault
      BY <1>12 DEF CreateBlob
    <3> QED BY <3>1 DEF Fault
  <2>5. blob' \in [1..Days -> Seq(Requests)] /\ created' \subseteq 1..Days
    <3>1. <<>> \in Seq(Requests)
      OBVIOUS
    <3> QED
      BY <1>12, <3>1, ZenonT(40) DEF CreateBlob
  <2>6. UNCHANGED <<service, pushing, ensured, dayOf, day>>
    BY <1>12 DEF CreateBlob
  <2> QED
    BY <2>2, <2>3, <2>4, <2>5, <2>6
<1>13. CASE UNCHANGED vars
  BY <1>13 DEF vars
<1> QED
  BY <1>1, <1>2, <1>3, <1>4, <1>5, <1>6, <1>7, <1>8, <1>9, <1>10, <1>11, <1>12, <1>13
     DEF Next, LogTask

(* Every step keeps the numbering, and a process that is down has nothing  *)
(* to push or to log.                                                      *)
LEMMA CountStep == IInv /\ [Next]_vars => CountInv'
<1> SUFFICES ASSUME IInv, [Next]_vars PROVE CountInv'
  OBVIOUS
<1>t. /\ stats \in Nat /\ finished \in Nat /\ queue \in Seq(Requests)
      /\ request \in [Requests -> RequestStates] /\ stage \in [Requests -> Stages]
      /\ phase \in Phases
  BY TelemetryAssumption DEF IInv, TypeOK
<1>c. CountInv /\ QueueInv
  BY DEF IInv, LogInv
<1>1. CASE Boot
  BY <1>1, <1>t, <1>c DEF Boot, CountInv
<1>2. CASE Stop \/ Close
  BY <1>2, <1>c DEF Stop, Close, CountInv, Flushed, pushing, log
<1>3. CASE Exit
  BY <1>3, <1>t, <1>c DEF Exit, CountInv
<1>4. CASE Midnight
  BY <1>4, <1>c DEF Midnight, CountInv, service, pushing, log
<1>5. ASSUME NEW how \in {"chat_push", "offered"}, NEW o \in Outcomes, Reply(how, o)
      PROVE  CountInv'
  <2> DEFINE r == finished + 1
  <2>1. /\ r \in Requests /\ finished' = r /\ stats' = stats + 1
        /\ phase = "serving" /\ phase' = phase
    BY <1>5, <1>t, TelemetryAssumption DEF Reply, Requests
  <2>2. request' = [request EXCEPT ![r] = how]
    BY <1>5 DEF Reply, BeginPush
  <2>3. stage' = stage \/ stage' = [stage EXCEPT ![r] = "queued"]
    BY <1>5 DEF Reply, LogEvent
  <2>4. ASSUME NEW q \in Requests, q > finished'
        PROVE  request'[q] = "open" /\ stage'[q] = "none"
    <3>1. q # r /\ q > finished
      BY <2>1, <2>4, <1>t DEF Requests
    <3> QED
      BY <3>1, <2>2, <2>3, <1>c, <1>t DEF CountInv
  <2> QED
    BY <2>1, <2>4, <1>c, <1>t DEF CountInv
<1>6. ASSUME NEW r \in Requests, TakeLastChunk(r) \/ Leave(r) \/ Post(r) PROVE CountInv'
  <2>1. /\ request[r] \in {"offered", "stream_push", "chat_push"}
        /\ UNCHANGED <<phase, finished, stats, queue, stage>>
    BY <1>6 DEF TakeLastChunk, Leave, Post, Pushes, service, log
  <2>2. \/ request' = request
        \/ \E state \in RequestStates : request' = [request EXCEPT ![r] = state]
    BY <1>6, StateNames DEF TakeLastChunk, BeginPush, Leave, Post, EndRequest
  <2>3. phase # "down" /\ ~(r > finished)
    BY <2>1, <1>c DEF CountInv
  <2>4. \A q \in Requests : q # r => request'[q] = request[q]
    BY <2>2, <1>t
  <2> QED
    BY <2>1, <2>3, <2>4, <1>c DEF CountInv
<1>7. CASE ApplyLate
  BY <1>7, <1>c DEF ApplyLate, CountInv, service, log
<1>8. CASE LogTask
  <2>1. PICK r \in Requests : EnsureContainer(r) \/ AppendBlock(r) \/ CreateBlob(r)
    BY <1>8 DEF LogTask
  <2>2. /\ queue # <<>> /\ r = Head(queue) /\ UNCHANGED <<phase, finished, stats, request>>
        /\ \/ stage' = stage
           \/ \E state \in Stages : stage' = [stage EXCEPT ![r] = state]
    BY <2>1, StateNames
       DEF EnsureContainer, AppendBlock, CreateBlob, EndTask, Holds, service, pushing
  <2>3. r <= finished
    BY <2>2, <1>c, <1>t, TailFacts DEF QueueInv
  <2>4. \A q \in Requests : q # r => stage'[q] = stage[q]
    BY <2>2, <1>t
  <2> QED
    BY <2>2, <2>3, <2>4, <1>c, <1>t DEF CountInv, Requests
<1>9. CASE UNCHANGED vars
  BY <1>9, <1>c DEF vars, CountInv, service, pushing, log
<1> QED
  BY <1>1, <1>2, <1>3, <1>4, <1>5, <1>6, <1>7, <1>8, <1>9 DEF Next

-----------------------------------------------------------------------------
(* What a step can do to the log.  It leaves it alone, a finished request  *)
(* joins the waiters, the holder gets one stage further, the holder ends,  *)
(* having appended its line or not, or the process ends.  The log closes   *)
(* only when nobody waits.                                                 *)
SameLog ==
    /\ UNCHANGED <<queue, stage, dayOf, blob, created>>
    /\ finished' \in {finished, finished + 1}
    /\ \/ phase' = "closed" <=> phase = "closed"
       \/ phase' = "closed" /\ queue = <<>>
Joins(r) ==
    /\ phase = "serving" /\ phase' = phase
    /\ r = finished + 1 /\ finished' = r
    /\ queue' = Append(queue, r) /\ stage' = [stage EXCEPT ![r] = "queued"]
    /\ \E d \in 1..Days : dayOf' = [dayOf EXCEPT ![r] = d]
    /\ UNCHANGED <<blob, created>>
Advances(r) ==
    /\ queue # <<>> /\ r = Head(queue) /\ phase' = phase
    /\ \/ /\ dayOf[r] \notin created /\ created' = created
          /\ stage' = [stage EXCEPT ![r] = "absent"]
       \/ /\ created' = created \cup {dayOf[r]}
          /\ stage' = [stage EXCEPT ![r] = "created"]
    /\ UNCHANGED <<queue, dayOf, blob, finished>>
Ends(r) ==
    /\ queue # <<>> /\ r = Head(queue) /\ phase' = phase
    /\ queue' = Tail(queue) /\ UNCHANGED <<dayOf, finished>>
    /\ \/ /\ stage' = [stage EXCEPT ![r] = "failed"]
          /\ created \subseteq created' /\ blob' = blob
       \/ /\ dayOf[r] \in created /\ created' = created
          /\ \E how \in {"written", "failed"} : stage' = [stage EXCEPT ![r] = how]
          /\ \E lines \in {Append(blob[dayOf[r]], r), Append(Append(blob[dayOf[r]], r), r)} :
                blob' = [blob EXCEPT ![dayOf[r]] = lines]
Dies ==
    /\ phase' = "down" /\ queue' = <<>>
    /\ UNCHANGED <<dayOf, blob, created, finished>>
    /\ stage' = [r \in Requests |-> IF stage[r] \in Pending THEN "lost" ELSE stage[r]]

(* Every step is one of these. *)
LEMMA LogSteps ==
    ASSUME IInv, [Next]_vars
    PROVE  \/ SameLog \/ Dies
           \/ \E r \in Requests : Joins(r) \/ Advances(r) \/ Ends(r)
<1>t. /\ finished \in Nat /\ blob \in [1..Days -> Seq(Requests)] /\ day \in 1..Days
      /\ dayOf \in [Requests -> 1..Days]
  BY TelemetryAssumption DEF IInv, TypeOK
<1>c. LogInv
  BY DEF IInv
<1>1. CASE Boot \/ Stop \/ Close \/ Midnight \/ ApplyLate \/ UNCHANGED vars
  BY <1>1, <1>t DEF Boot, Stop, Close, Flushed, Midnight, ApplyLate, vars, service, pushing, log, SameLog
<1>2. CASE Exit
  BY <1>2 DEF Exit, Dies, Pending
<1>3. ASSUME NEW how \in {"chat_push", "offered"}, NEW o \in Outcomes, Reply(how, o)
      PROVE  SameLog \/ \E r \in Requests : Joins(r)
  <2>1. /\ finished + 1 \in Requests /\ finished' = finished + 1
        /\ LogEvent(finished + 1, o) /\ UNCHANGED <<blob, created>>
        /\ phase = "serving" /\ phase' = phase
    BY <1>3, <1>t, TelemetryAssumption DEF Reply, Requests
  <2>2. CASE IsLogged(o)
    BY <2>1, <2>2, <1>t DEF LogEvent, Waits, Joins
  <2>3. CASE ~IsLogged(o)
    BY <2>1, <2>3, <1>t DEF LogEvent, SameLog
  <2> QED BY <2>2, <2>3
<1>4. ASSUME NEW r \in Requests, TakeLastChunk(r) \/ Leave(r) \/ Post(r) PROVE SameLog
  BY <1>4, <1>t DEF TakeLastChunk, Leave, Post, service, log, SameLog
<1>5. ASSUME NEW r \in Requests, EnsureContainer(r) PROVE SameLog \/ Ends(r)
  BY <1>5, <1>t DEF EnsureContainer, Holds, EndTask, service, pushing, SameLog, Ends
<1>6. ASSUME NEW r \in Requests, AppendBlock(r) PROVE Advances(r) \/ Ends(r)
  <2>1. /\ queue # <<>> /\ r = Head(queue) /\ UNCHANGED <<dayOf, finished, created, phase>>
    BY <1>6 DEF AppendBlock, Holds, service, pushing
  <2>2. \/ /\ dayOf[r] \in created
           /\ blob' = [blob EXCEPT ![dayOf[r]] = Append(@, r)]
           /\ EndTask(r, "written") \/ EndTask(r, "failed")
        \/ /\ dayOf[r] \in created
           /\ blob' = [blob EXCEPT ![dayOf[r]] = Append(Append(@, r), r)]
           /\ EndTask(r, "written")
        \/ /\ dayOf[r] \notin created
           /\ stage' = [stage EXCEPT ![r] = "absent"] /\ UNCHANGED <<queue, blob>>
        \/ EndTask(r, "failed") /\ UNCHANGED blob
    BY <1>6 DEF AppendBlock
  <2> QED
    BY <2>1, <2>2 DEF EndTask, Advances, Ends
<1>7. ASSUME NEW r \in Requests, CreateBlob(r) PROVE Advances(r) \/ Ends(r)
  <2>1. /\ queue # <<>> /\ r = Head(queue) /\ UNCHANGED <<dayOf, finished, phase>>
        /\ dayOf[r] \notin created /\ dayOf[r] \in 1..Days
    BY <1>7, <1>c, <1>t DEF CreateBlob, Holds, service, pushing, LogInv, QueueInv
  <2>2. \/ /\ created' = created \cup {dayOf[r]}
           /\ blob' = [blob EXCEPT ![dayOf[r]] = <<>>]
           /\ \/ stage' = [stage EXCEPT ![r] = "created"] /\ UNCHANGED queue
              \/ EndTask(r, "failed")
        \/ EndTask(r, "failed") /\ UNCHANGED <<created, blob>>
    BY <1>7 DEF CreateBlob
  <2>3. [blob EXCEPT ![dayOf[r]] = <<>>] = blob
    <3>1. blob[dayOf[r]] = <<>>
      BY <2>1, <1>c DEF LogInv, BlobInv
    <3> QED BY <3>1, <1>t
  <2> QED
    BY <2>1, <2>2, <2>3 DEF EndTask, Advances, Ends
<1> QED
  BY <1>1, <1>2, <1>3, <1>4, <1>5, <1>6, <1>7 DEF Next, LogTask

(* The waiters stay in order. *)
LEMMA QueueStep == IInv /\ [Next]_vars => QueueInv'
<1> SUFFICES ASSUME IInv, [Next]_vars PROVE QueueInv'
  OBVIOUS
<1>t. /\ finished \in Nat /\ queue \in Seq(Requests) /\ stage \in [Requests -> Stages]
      /\ dayOf \in [Requests -> 1..Days]
  BY TelemetryAssumption DEF IInv, TypeOK
<1>q. QueueInv /\ CountInv
  BY DEF IInv, LogInv
<1>l. /\ Len(queue) \in Nat /\ DOMAIN queue = 1..Len(queue)
      /\ \A i \in DOMAIN queue : queue[i] \in Requests
  BY <1>t
<1>1. CASE SameLog
  <2>1. \A i \in DOMAIN queue : queue[i] <= finished'
    BY <1>1, <1>t, <1>q, <1>l DEF SameLog, QueueInv, Requests
  <2> QED
    BY <2>1, <1>1, <1>q DEF SameLog, QueueInv
<1>2. CASE Dies
  <2>1. DOMAIN queue' = {} /\ \A r \in Requests : stage'[r] \notin Pending /\ stage'[r] # "absent"
    BY <1>2, <1>t DEF Dies, Pending
  <2> QED
    BY <2>1 DEF QueueInv
<1>3. ASSUME NEW r \in Requests, Joins(r) PROVE QueueInv'
  <2>1. /\ finished' = finished + 1 /\ r = finished + 1
        /\ queue' = Append(queue, r) /\ created' = created
        /\ stage'[r] = "queued" /\ \A q \in Requests : q # r => stage'[q] = stage[q]
        /\ \A q \in Requests : q # r => dayOf'[q] = dayOf[q]
    BY <1>3, <1>t DEF Joins
  <2>2. /\ DOMAIN queue' = 1..(Len(queue) + 1) /\ queue'[Len(queue) + 1] = r
        /\ \A i \in 1..Len(queue) : queue'[i] = queue[i] /\ queue[i] # r
    BY <2>1, <1>t, <1>l, <1>q, AppendFacts DEF QueueInv, Requests
  <2>3. \A i, j \in DOMAIN queue' : i < j => queue'[i] < queue'[j]
    BY <2>1, <2>2, <1>l, <1>q, <1>t DEF QueueInv, Requests
  <2>4. \A i \in DOMAIN queue' : queue'[i] <= finished'
    BY <2>1, <2>2, <1>l, <1>q, <1>t DEF QueueInv, Requests
  <2>5. \A q \in Requests : stage'[q] \in Pending => \E i \in DOMAIN queue' : queue'[i] = q
    <3> SUFFICES ASSUME NEW q \in Requests, stage'[q] \in Pending
                 PROVE  \E i \in DOMAIN queue' : queue'[i] = q
      OBVIOUS
    <3>1. CASE q = r
      BY <3>1, <2>2, <1>l
    <3>2. CASE q # r
      <4>1. PICK i \in DOMAIN queue : queue[i] = q
        BY <3>2, <2>1, <1>q DEF QueueInv
      <4> QED BY <4>1, <2>2, <1>l
    <3> QED BY <3>1, <3>2
  <2>6. \A i \in DOMAIN queue' : /\ stage'[queue'[i]] \in Pending
                                 /\ i > 1 => stage'[queue'[i]] = "queued"
    <3> SUFFICES ASSUME NEW i \in DOMAIN queue'
                 PROVE  /\ stage'[queue'[i]] \in Pending
                        /\ i > 1 => stage'[queue'[i]] = "queued"
      OBVIOUS
    <3>1. CASE i = Len(queue) + 1
      BY <3>1, <2>1, <2>2 DEF Pending
    <3>2. CASE i \in 1..Len(queue)
      <4>1. /\ i \in DOMAIN queue /\ queue[i] \in Requests
            /\ queue'[i] = queue[i] /\ queue[i] # r
        BY <3>2, <2>2, <1>l
      <4>2. stage'[queue'[i]] = stage[queue[i]]
        BY <4>1, <2>1
      <4> QED BY <4>1, <4>2, <1>q DEF QueueInv
    <3> QED BY <3>1, <3>2, <2>2, <1>l
  <2>7. \A q \in Requests : stage'[q] = "absent" => dayOf'[q] \notin created'
    BY <2>1, <1>q DEF QueueInv
  <2> QED
    BY <2>3, <2>4, <2>5, <2>6, <2>7 DEF QueueInv
<1>h. ASSUME queue # <<>>, NEW q \in Requests, stage[q] \in Pending, q # Head(queue)
      PROVE  /\ stage[q] = "queued"
             /\ \E i \in DOMAIN queue : i > 1 /\ queue[i] = q
  <2>1. PICK i \in DOMAIN queue : queue[i] = q
    BY <1>h, <1>q DEF QueueInv
  <2>2. i > 1
    BY <2>1, <1>h, <1>l, <1>t, TailFacts
  <2> QED
    BY <2>1, <2>2, <1>q DEF QueueInv
<1>4. ASSUME NEW r \in Requests, Advances(r) PROVE QueueInv'
  <2>1. /\ finished' = finished /\ queue # <<>> /\ r = Head(queue)
        /\ queue' = queue /\ dayOf' = dayOf
        /\ \/ stage'[r] = "absent" /\ dayOf[r] \notin created /\ created' = created
           \/ stage'[r] = "created"
        /\ \A q \in Requests : q # r => stage'[q] = stage[q]
    BY <1>4, <1>t DEF Advances
  <2>2. /\ Head(queue) = queue[1] /\ 1 \in DOMAIN queue /\ r = queue[1]
        /\ \A i \in DOMAIN queue : i > 1 => queue[i] # r
    <3>1. /\ Head(queue) = queue[1] /\ 1 \in DOMAIN queue /\ r = queue[1]
      BY <2>1, <1>t, <1>l, TailFacts
    <3>2. ASSUME NEW i \in DOMAIN queue, i > 1 PROVE queue[1] < queue[i]
      BY <3>1, <3>2, <1>q, <1>l DEF QueueInv
    <3> QED
      BY <3>1, <3>2, <1>l DEF Requests
  <2>3. \A q \in Requests : stage'[q] \in Pending => \E i \in DOMAIN queue' : queue'[i] = q
    BY <2>1, <2>2, <1>h
  <2>4. \A i \in DOMAIN queue' : /\ stage'[queue'[i]] \in Pending
                                 /\ i > 1 => stage'[queue'[i]] = "queued"
    <3>1. stage'[r] \in Pending
      BY <2>1 DEF Pending
    <3>2. ASSUME NEW i \in DOMAIN queue, i > 1 PROVE stage'[queue[i]] = "queued"
      BY <3>2, <2>1, <2>2, <1>l, <1>q DEF QueueInv
    <3>3. \A i \in DOMAIN queue : i = 1 \/ i > 1
      BY <1>l
    <3> QED BY <3>1, <3>2, <3>3, <2>1, <2>2 DEF Pending
  <2>5. \A q \in Requests : stage'[q] = "absent" => dayOf'[q] \notin created'
    <3>1. ASSUME NEW q \in Requests, q # r PROVE stage'[q] # "absent"
      BY <3>1, <2>1, <1>h DEF Pending
    <3> QED
      BY <3>1, <2>1
  <2> QED
    BY <2>1, <2>3, <2>4, <2>5, <1>q DEF QueueInv
<1>5. ASSUME NEW r \in Requests, Ends(r) PROVE QueueInv'
  <2>1. /\ finished' = finished /\ queue # <<>> /\ r = Head(queue) /\ queue' = Tail(queue)
        /\ stage'[r] \in {"written", "failed"}
        /\ \A q \in Requests : q # r => stage'[q] = stage[q]
    BY <1>5, <1>t DEF Ends
  <2>2. /\ DOMAIN queue' = 1..(Len(queue) - 1)
        /\ \A i \in DOMAIN queue' : queue'[i] = queue[i + 1]
        /\ r = queue[1]
    BY <2>1, <1>t, TailFacts
  <2>3. \A i \in DOMAIN queue' : i + 1 \in DOMAIN queue /\ i + 1 > 1
    BY <2>2, <1>l
  <2>4. \A i, j \in DOMAIN queue' : i < j => queue'[i] < queue'[j]
    <3> SUFFICES ASSUME NEW i \in DOMAIN queue', NEW j \in DOMAIN queue', i < j
                 PROVE  queue[i + 1] < queue[j + 1]
      BY <2>2
    <3>1. i + 1 < j + 1
      BY <2>2, <1>l
    <3> QED BY <3>1, <2>3, <1>q DEF QueueInv
  <2>5. \A i \in DOMAIN queue' : queue'[i] <= finished'
    BY <2>1, <2>2, <2>3, <1>q DEF QueueInv
  <2>6. \A q \in Requests : stage'[q] \in Pending => \E i \in DOMAIN queue' : queue'[i] = q
    <3> SUFFICES ASSUME NEW q \in Requests, stage'[q] \in Pending
                 PROVE  \E i \in DOMAIN queue' : queue'[i] = q
      OBVIOUS
    <3>1. q # r /\ stage[q] \in Pending
      BY <2>1 DEF Pending
    <3>2. PICK i \in DOMAIN queue : i > 1 /\ queue[i] = q
      BY <3>1, <2>1, <1>h
    <3>3. i - 1 \in DOMAIN queue' /\ (i - 1) + 1 = i
      BY <3>2, <2>2, <1>l
    <3> QED BY <3>2, <3>3, <2>2
  <2>7. \A i \in DOMAIN queue' : stage'[queue'[i]] = "queued"
    <3> SUFFICES ASSUME NEW i \in DOMAIN queue' PROVE stage'[queue[i + 1]] = "queued"
      BY <2>2
    <3>1. queue[1] < queue[i + 1]
      BY <2>3, <1>l, <1>q DEF QueueInv
    <3>2. queue[i + 1] # r /\ queue[i + 1] \in Requests
      BY <3>1, <2>2, <2>3, <1>l DEF Requests
    <3> QED BY <3>2, <2>1, <2>3, <1>q DEF QueueInv
  <2>8. \A q \in Requests : stage'[q] # "absent"
    BY <2>1, <1>h DEF Pending
  <2> QED
    BY <2>4, <2>5, <2>6, <2>7, <2>8 DEF QueueInv, Pending
<1> QED
  BY <1>1, <1>2, <1>3, <1>4, <1>5, LogSteps

(* What is written stays, and every line comes after the ones before it. *)
LEMMA BlobStep == IInv /\ [Next]_vars => BlobInv'
<1> SUFFICES ASSUME IInv, [Next]_vars PROVE BlobInv'
  OBVIOUS
<1>t. /\ finished \in Nat /\ queue \in Seq(Requests) /\ stage \in [Requests -> Stages]
      /\ dayOf \in [Requests -> 1..Days] /\ blob \in [1..Days -> Seq(Requests)]
  BY TelemetryAssumption DEF IInv, TypeOK
<1>q. QueueInv /\ BlobInv /\ CountInv
  BY DEF IInv, LogInv
<1>l. /\ Len(queue) \in Nat /\ DOMAIN queue = 1..Len(queue)
      /\ \A i \in DOMAIN queue : queue[i] \in Requests
      /\ \A d \in 1..Days : /\ blob[d] \in Seq(Requests) /\ Len(blob[d]) \in Nat
                            /\ DOMAIN blob[d] = 1..Len(blob[d])
                            /\ \A i \in DOMAIN blob[d] : blob[d][i] \in Requests
  BY <1>t, SeqFacts
<1>b. /\ \A d \in 1..Days : d \notin created => blob[d] = <<>>
      /\ \A d \in 1..Days : \A i \in DOMAIN blob[d] :
            /\ blob[d][i] <= finished
            /\ \A j \in DOMAIN queue : blob[d][i] < queue[j]
      /\ LogInOrder /\ WrittenIsLogged
  BY <1>q DEF BlobInv
<1>1. CASE SameLog
  <2>1. \A d \in 1..Days : \A i \in DOMAIN blob[d] : blob[d][i] <= finished'
    BY <1>1, <1>t, <1>b, <1>l DEF SameLog, Requests
  <2> QED
    BY <2>1, <1>1, <1>b DEF SameLog, BlobInv, LogInOrder, WrittenIsLogged
<1>2. CASE Dies
  <2>1. DOMAIN queue' = {} /\ \A r \in Requests : stage'[r] = "written" => stage[r] = "written"
    BY <1>2, <1>t DEF Dies
  <2> QED
    BY <2>1, <1>2, <1>b DEF Dies, BlobInv, LogInOrder, WrittenIsLogged
<1>3. ASSUME NEW r \in Requests, Joins(r) PROVE BlobInv'
  <2>1. /\ finished' = finished + 1 /\ r = finished + 1
        /\ queue' = Append(queue, r) /\ created' = created /\ blob' = blob
        /\ stage'[r] = "queued" /\ \A q \in Requests : q # r => stage'[q] = stage[q]
        /\ \A q \in Requests : q # r => dayOf'[q] = dayOf[q]
    BY <1>3, <1>t DEF Joins
  <2>2. /\ DOMAIN queue' = 1..(Len(queue) + 1) /\ queue'[Len(queue) + 1] = r
        /\ \A i \in 1..Len(queue) : queue'[i] = queue[i]
    BY <2>1, <1>t, <1>l, AppendFacts DEF Requests
  <2>3. ASSUME NEW d \in 1..Days, NEW i \in DOMAIN blob[d]
        PROVE  blob[d][i] <= finished' /\ blob[d][i] < r
    BY <2>1, <1>b, <1>l, <1>t DEF Requests
  <2>4. ASSUME NEW d \in 1..Days, NEW i \in DOMAIN blob[d], NEW j \in DOMAIN queue'
        PROVE  blob[d][i] < queue'[j]
    <3>1. CASE j = Len(queue) + 1
      BY <3>1, <2>2, <2>3
    <3>2. CASE j \in DOMAIN queue
      BY <3>2, <2>2, <1>b, <1>l
    <3> QED BY <3>1, <3>2, <2>2, <1>l
  <2>5. WrittenIsLogged'
    BY <2>1, <1>b DEF WrittenIsLogged
  <2>6. LogInOrder'
    BY <2>1, <1>b DEF LogInOrder
  <2> QED
    BY <2>1, <2>3, <2>4, <2>5, <2>6, <1>b DEF BlobInv
<1>4. ASSUME NEW r \in Requests, Advances(r) PROVE BlobInv'
  <2>1. /\ UNCHANGED <<queue, dayOf, blob, finished>> /\ created \subseteq created'
        /\ stage'[r] # "written" /\ \A q \in Requests : q # r => stage'[q] = stage[q]
    BY <1>4, <1>t DEF Advances
  <2>2. LogInOrder' /\ WrittenIsLogged'
    BY <2>1, <1>b DEF LogInOrder, WrittenIsLogged
  <2> QED
    BY <2>1, <2>2, <1>b DEF BlobInv
<1>5. ASSUME NEW r \in Requests, Ends(r) PROVE BlobInv'
  <2>1. /\ UNCHANGED <<dayOf, finished>> /\ queue # <<>> /\ r = Head(queue)
        /\ queue' = Tail(queue) /\ created \subseteq created'
        /\ \A q \in Requests : q # r => stage'[q] = stage[q]
    BY <1>5, <1>t DEF Ends
  <2>2. /\ DOMAIN queue' = 1..(Len(queue) - 1)
        /\ \A j \in DOMAIN queue' : queue'[j] = queue[j + 1] /\ j + 1 \in DOMAIN queue
        /\ r = queue[1] /\ 1 \in DOMAIN queue
    <3>1. /\ DOMAIN queue' = 1..(Len(queue) - 1) /\ Len(queue) \in Nat \ {0}
          /\ \A j \in DOMAIN queue' : queue'[j] = queue[j + 1]
          /\ r = queue[1]
      BY <2>1, <1>t, TailFacts
    <3>2. \A j \in 1..(Len(queue) - 1) : j + 1 \in 1..Len(queue)
      BY <1>l
    <3> QED BY <3>1, <3>2, <1>l
  <2>3. \A d \in 1..Days : \A i \in DOMAIN blob[d] : \A j \in DOMAIN queue' :
          blob[d][i] < queue'[j]
    BY <2>2, <1>b
  <2>4. CASE stage'[r] = "failed" /\ blob' = blob
    <3>1. LogInOrder' /\ WrittenIsLogged'
      BY <2>1, <2>4, <1>b DEF LogInOrder, WrittenIsLogged
    <3> QED
      BY <2>1, <2>3, <2>4, <3>1, <1>b DEF BlobInv
  <2>5. ASSUME dayOf[r] \in created, created' = created,
               NEW lines \in {Append(blob[dayOf[r]], r), Append(Append(blob[dayOf[r]], r), r)},
               blob' = [blob EXCEPT ![dayOf[r]] = lines]
        PROVE  BlobInv'
    <3> DEFINE d == dayOf[r]  n == Len(blob[d])
    <3>1. d \in 1..Days /\ n \in Nat /\ DOMAIN blob[d] = 1..n
      BY <1>t, <1>l
    <3>2. /\ blob'[d] = lines /\ \A e \in 1..Days : e # d => blob'[e] = blob[e]
      BY <2>5, <3>1, <1>t
    <3>3. /\ DOMAIN lines \in {1..(n + 1), 1..(n + 2)}
          /\ \A i \in 1..n : lines[i] = blob[d][i]
          /\ \A i \in DOMAIN lines : i > n => lines[i] = r
      <4>1. blob[d] \in Seq(Requests)
        BY <3>1, <1>t
      <4>2. lines \in {Append(blob[d], r), Append(Append(blob[d], r), r)}
        BY <2>5
      <4>3. n = Len(blob[d])
        OBVIOUS
      <4> HIDE DEF d, n
      <4>4. r \in Requests
        OBVIOUS
      <4> QED
        BY ONLY <4>1, <4>2, <4>3, <4>4, TwiceFacts, SMTT(30)
    <3> HIDE DEF d, n
    <3>4. r <= finished /\ \A j \in DOMAIN queue' : r < queue'[j]
      <4>1. r <= finished
        BY <2>2, <1>q DEF QueueInv
      <4>2. ASSUME NEW j \in DOMAIN queue' PROVE r < queue'[j]
        <5>1. 1 < j + 1 /\ j + 1 \in DOMAIN queue
          BY <2>2, <1>l
        <5> QED BY <5>1, <2>2, <1>q DEF QueueInv
      <4> QED BY <4>1, <4>2
    <3>5. \A i \in 1..n : blob[d][i] < r
      BY <2>2, <3>1, <1>b
    <3>6. ASSUME NEW i \in DOMAIN lines
          PROVE  lines[i] <= finished' /\ \A j \in DOMAIN queue' : lines[i] < queue'[j]
      <4>1. i \in 1..n \/ i > n
        BY <3>1, <3>3
      <4>2. CASE i \in 1..n
        BY <4>2, <3>1, <3>3, <2>1, <2>3, <1>b
      <4>3. CASE i > n
        BY <4>3, <3>3, <3>4, <2>1
      <4> QED BY <4>1, <4>2, <4>3
    <3>7. ASSUME NEW i \in DOMAIN lines, NEW j \in DOMAIN lines, i < j
          PROVE  lines[i] <= lines[j]
      <4>1. (i \in 1..n \/ i > n) /\ (j \in 1..n \/ j > n)
        BY <3>1, <3>3
      <4>2. CASE j \in 1..n
        <5>1. i \in 1..n
          BY <4>1, <4>2, <3>7, <3>1, <3>3
        <5> QED BY <5>1, <4>2, <3>1, <3>3, <3>7, <1>b DEF LogInOrder
      <4>3. CASE j > n /\ i \in 1..n
        <5>1. lines[j] = r /\ lines[i] = blob[d][i] /\ blob[d][i] < r
          BY <4>3, <3>3, <3>5
        <5>2. blob[d][i] \in Requests
          BY <4>3, <3>1, <1>l
        <5> QED BY <5>1, <5>2 DEF Requests
      <4>4. CASE j > n /\ i > n
        BY <4>4, <3>3 DEF Requests
      <4> QED BY <4>1, <4>2, <4>3, <4>4
    <3>8. WrittenIsLogged'
      <4> SUFFICES ASSUME NEW q \in Requests, stage'[q] = "written"
                   PROVE  \E i \in DOMAIN blob'[dayOf[q]] : blob'[dayOf[q]][i] = q
        BY <2>1 DEF WrittenIsLogged
      <4>1. CASE q = r
        <5>1. n + 1 \in DOMAIN lines /\ n + 1 > n
          BY <3>1, <3>3
        <5> QED BY <4>1, <5>1, <3>2, <3>3 DEF d
      <4>2. CASE q # r
        <5>1. PICK i \in DOMAIN blob[dayOf[q]] : blob[dayOf[q]][i] = q
          BY <4>2, <2>1, <1>b DEF WrittenIsLogged
        <5>2. CASE dayOf[q] = d
          <6>1. i \in 1..n /\ i \in DOMAIN lines
            BY <5>1, <5>2, <3>1, <3>3
          <6> QED BY <6>1, <5>1, <5>2, <3>2, <3>3
        <5>3. CASE dayOf[q] # d
          BY <5>1, <5>3, <3>2, <1>t
        <5> QED BY <5>2, <5>3
      <4> QED BY <4>1, <4>2
    <3>9. LogInOrder'
      <4> SUFFICES ASSUME NEW e \in 1..Days, NEW i \in DOMAIN blob'[e],
                          NEW j \in DOMAIN blob'[e], i < j
                   PROVE  blob'[e][i] <= blob'[e][j]
        BY DEF LogInOrder
      <4>1. CASE e = d
        BY <4>1, <3>2, <3>7
      <4>2. CASE e # d
        BY <4>2, <3>2, <1>b DEF LogInOrder
      <4> QED BY <4>1, <4>2
    <3>10. \A e \in 1..Days : e \notin created' => blob'[e] = <<>>
      BY <2>5, <3>2, <1>b DEF d
    <3>11. ASSUME NEW e \in 1..Days, NEW i \in DOMAIN blob'[e]
           PROVE  /\ blob'[e][i] <= finished'
                  /\ \A j \in DOMAIN queue' : blob'[e][i] < queue'[j]
      <4>1. CASE e = d
        BY <4>1, <3>2, <3>6
      <4>2. CASE e # d
        BY <4>2, <3>2, <2>1, <2>3, <1>b
      <4> QED BY <4>1, <4>2
    <3> QED
      BY <3>8, <3>9, <3>10, <3>11 DEF BlobInv
  <2> QED
    BY <1>5, <1>t, <2>4, <2>5 DEF Ends
<1> QED
  BY <1>1, <1>2, <1>3, <1>4, <1>5, LogSteps

-----------------------------------------------------------------------------
(* A sensor never shows more than the one push under way pushes. *)
LEMMA SensorStep == IInv /\ [Next]_vars => SensorInv' /\ LateInv'
<1> SUFFICES ASSUME IInv, [Next]_vars PROVE SensorInv' /\ LateInv'
  OBVIOUS
<1>t. /\ life \in Nat /\ stats \in Nat /\ finished \in Nat /\ crossed \in BOOLEAN
      /\ snap \in [Requests -> 0..MaxRequests] /\ at \in [Requests -> 1..Sensors]
      /\ request \in [Requests -> RequestStates] /\ sensor \in [1..Sensors -> Value]
      /\ late \subseteq (1..Sensors) \X Value
  BY TelemetryAssumption DEF IInv, TypeOK
<1>s. SensorInv /\ LateInv /\ CountInv
  BY DEF IInv
<1>v. /\ \A i \in 1..Sensors : sensor[i].life \in Nat /\ sensor[i].count \in Nat
      /\ \A r \in Requests : snap[r] \in Nat
      /\ \A p \in late : p[1] \in 1..Sensors /\ p[2] \in Value /\ p[2].life \in Nat
  BY <1>t, TelemetryAssumption DEF Value
<1>1. CASE Boot
  <2>1. /\ phase = "down" /\ life' = life + 1 /\ stats' = 0
        /\ UNCHANGED <<sensor, late, request, snap>> /\ crossed' = (late # {})
    BY <1>1 DEF Boot
  <2>2. Pushes' = {}
    BY <2>1, <1>s DEF Pushes, CountInv
  <2>3. \A i \in 1..Sensors : sensor'[i].life <= life' /\ sensor'[i].life # life'
    BY <2>1, <1>s, <1>v, <1>t DEF SensorInv
  <2>4. \A p \in late' : p[2].life <= life'
    BY <2>1, <1>s, <1>v, <1>t DEF LateInv
  <2> QED
    BY <2>1, <2>2, <2>3, <2>4 DEF SensorInv, LateInv
<1>2. CASE Stop \/ Close \/ Midnight \/ LogTask \/ UNCHANGED vars
  <2>1. /\ UNCHANGED <<life, stats, request, snap, sensor, late, crossed>>
        /\ phase' = "down" => phase = "down"
        /\ phase = "down" => phase' = "down"
    BY <1>2 DEF Stop, Close, Midnight, LogTask, EnsureContainer, AppendBlock, CreateBlob,
                vars, service, pushing
  <2>2. Pushes' = Pushes
    BY <2>1 DEF Pushes
  <2> QED
    BY <2>1, <2>2, <1>s DEF SensorInv, LateInv
<1>3. CASE Exit
  <2>1. /\ phase' = "down" /\ UNCHANGED <<life, sensor>>
        /\ request' = [r \in Requests |-> IF request[r] = "open" THEN "open" ELSE "done"]
    BY <1>3 DEF Exit
  <2>2. Pushes' = {}
    BY <2>1 DEF Pushes
  <2>3. /\ ~crossed' => ~crossed /\ late' = late
        /\ \A p \in late' : p[2].life <= life
    BY <1>3, <1>s, GiveUpFacts DEF Exit, Pushes, IInv
  <2> QED
    BY <2>1, <2>2, <2>3, <1>s DEF SensorInv, LateInv
<1>4. ASSUME NEW r \in Requests, NEW total \in Nat, NEW how \in {"chat_push", "stream_push"},
             BeginPush(r, how, total), total = stats', stats' >= stats, phase # "down",
             UNCHANGED <<phase, life, sensor, late>>
      PROVE  SensorInv' /\ LateInv'
  <2>1. /\ snap'[r] = total /\ \A q \in Requests : q # r => snap'[q] = snap[q]
        /\ \A q \in Requests : q # r => request'[q] = request[q]
        /\ ~crossed' => ~crossed /\ Pushes = {} /\ late = {}
    BY <1>4, <1>t DEF BeginPush
  <2>2. Pushes' \subseteq Pushes \cup {r}
    BY <2>1 DEF Pushes
  <2>3. \A i \in 1..Sensors : sensor'[i].life <= life'
    BY <1>4, <1>s DEF SensorInv
  <2>4. \A q \in Pushes' : snap'[q] <= stats'
    <3> SUFFICES ASSUME NEW q \in Pushes' PROVE snap'[q] <= stats'
      OBVIOUS
    <3>1. CASE q = r
      BY <3>1, <2>1, <1>4
    <3>2. CASE q # r
      <4>1. q \in Pushes /\ q \in Requests
        BY <3>2, <2>2 DEF Pushes
      <4>2. snap[q] <= stats /\ snap'[q] = snap[q]
        BY <4>1, <3>2, <2>1, <1>s DEF SensorInv
      <4> QED BY <4>1, <4>2, <1>4, <1>v, <1>t
    <3> QED BY <3>1, <3>2
  <2>5. ASSUME ~crossed'
        PROVE  /\ late' = {} /\ \A p, q \in Pushes' : p = q
               /\ \A i \in 1..Sensors : sensor'[i].life = life' =>
                     /\ phase' # "down" => sensor'[i].count <= stats'
                     /\ \A q \in Pushes' : sensor'[i].count <= snap'[q]
    <3>1. Pushes' \subseteq {r} /\ late' = {}
      BY <2>1, <2>2, <2>5, <1>4
    <3>2. ASSUME NEW i \in 1..Sensors, sensor'[i].life = life' PROVE sensor'[i].count <= stats'
      <4>1. sensor[i].count <= stats
        BY <3>2, <2>1, <2>5, <1>4, <1>s DEF SensorInv
      <4> QED BY <4>1, <1>4, <1>v, <1>t
    <3> QED BY <3>1, <3>2, <2>1, <1>4
  <2>6. LateInv'
    BY <1>4, <1>s DEF LateInv
  <2> QED
    BY <2>3, <2>4, <2>5, <2>6 DEF SensorInv
<1>5. ASSUME NEW how \in {"chat_push", "offered"}, NEW o \in Outcomes, Reply(how, o)
      PROVE  SensorInv' /\ LateInv'
  <2> DEFINE r == finished + 1
  <2>1. /\ r \in Requests /\ stats' = stats + 1 /\ phase = "serving"
        /\ UNCHANGED <<phase, life, sensor, late>>
    BY <1>5, <1>t, TelemetryAssumption DEF Reply, Requests
  <2>2. CASE how = "chat_push"
    <3>1. BeginPush(r, how, stats + 1) /\ stats + 1 \in Nat /\ stats' >= stats
      BY <1>5, <2>1, <2>2, <1>t DEF Reply
    <3> QED BY <3>1, <2>1, <2>2, <1>4
  <2>3. CASE how = "offered"
    <3>1. /\ request' = [request EXCEPT ![r] = "offered"] /\ UNCHANGED <<snap, crossed>>
      BY <1>5, <2>3 DEF Reply
    <3>2. Pushes' \subseteq Pushes
      BY <3>1, <2>1, <1>t DEF Pushes
    <3>3. ASSUME NEW n \in Nat, n <= stats PROVE n <= stats'
      BY <3>3, <2>1, <1>t
    <3>4. /\ \A q \in Pushes' : snap'[q] <= stats'
          /\ \A i \in 1..Sensors : sensor[i].count <= stats => sensor[i].count <= stats'
      BY <3>1, <3>2, <3>3, <1>s, <1>v DEF SensorInv, Pushes
    <3> QED
      BY <3>1, <3>2, <3>4, <2>1, <1>s DEF SensorInv, LateInv
  <2> QED BY <2>2, <2>3
<1>6. ASSUME NEW r \in Requests, TakeLastChunk(r) PROVE SensorInv' /\ LateInv'
  <2>1. /\ BeginPush(r, "stream_push", stats) /\ UNCHANGED <<phase, life, stats, sensor, late>>
        /\ request[r] = "offered"
    BY <1>6 DEF TakeLastChunk, Snapshot, service
  <2>2. phase # "down" /\ stats' = stats /\ stats' >= stats
    BY <2>1, <1>s, <1>t DEF CountInv
  <2> QED BY <2>1, <2>2, <1>4, <1>t
<1>7. ASSUME NEW r \in Requests, Leave(r) PROVE SensorInv' /\ LateInv'
  <2>1. /\ request' = [request EXCEPT ![r] = "done"] /\ snap' = [snap EXCEPT ![r] = 0]
        /\ UNCHANGED <<phase, life, stats, sensor>>
    BY <1>7 DEF Leave, EndRequest, service
  <2>2. Pushes' \subseteq Pushes /\ \A q \in Pushes' : snap'[q] = snap[q]
    BY <2>1, <1>t DEF Pushes
  <2>3. /\ ~crossed' => ~crossed /\ late' = late
        /\ \A p \in late' : p[2].life <= life
    BY <1>7, <1>s, GiveUpFacts DEF Leave, Pushes, IInv
  <2> QED
    BY <2>1, <2>2, <2>3, <1>s DEF SensorInv, LateInv
<1>8. ASSUME NEW r \in Requests, Post(r) PROVE SensorInv' /\ LateInv'
  <2> DEFINE value == [life |-> life, count |-> snap[r]]
  <2>1. /\ r \in Pushes /\ UNCHANGED <<phase, life, stats>>
        /\ \/ sensor' = [sensor EXCEPT ![at[r]] = value] /\ UNCHANGED <<late, crossed>>
           \/ sensor' = sensor /\ GiveUp({r})
        /\ \/ UNCHANGED <<request, snap>>
           \/ request' = [request EXCEPT ![r] = "done"] /\ snap' = [snap EXCEPT ![r] = 0]
    BY <1>8 DEF Post, InFlight, service, EndRequest
  <2>2. Pushes' \subseteq Pushes /\ \A q \in Pushes' : snap'[q] = snap[q]
    BY <2>1, <1>t DEF Pushes
  <2>3. value.life = life /\ value.count = snap[r] /\ value.count <= stats
    BY <2>1, <1>s DEF SensorInv
  <2> HIDE DEF value
  <2>0. GiveUp({r}) => /\ ~crossed' => ~crossed /\ late' = late
                       /\ \A p \in late' : p[2].life <= life
    BY <1>s, GiveUpFacts DEF IInv
  <2>4. LateInv'
    <3>1. CASE UNCHANGED late
      BY <3>1, <2>1, <1>s DEF LateInv
    <3>2. CASE GiveUp({r})
      BY <3>2, <2>0, <2>1 DEF LateInv
    <3> QED BY <3>1, <3>2, <2>1
  <2>5. ASSUME NEW i \in 1..Sensors
        PROVE  sensor'[i] = sensor[i] \/ (sensor'[i] = value /\ crossed' = crossed)
    BY <2>1, <1>t
  <2>6. \A i \in 1..Sensors : sensor'[i].life <= life'
    <3> SUFFICES ASSUME NEW i \in 1..Sensors PROVE sensor'[i].life <= life
      BY <2>1
    <3>1. sensor[i].life <= life
      BY <1>s DEF SensorInv
    <3>2. value.life <= life
      BY <2>3, <1>t
    <3> QED BY <3>1, <3>2, <2>5
  <2>7. ASSUME ~crossed'
        PROVE  /\ late' = {} /\ \A p, q \in Pushes' : p = q
               /\ \A i \in 1..Sensors : sensor'[i].life = life' =>
                     /\ phase' # "down" => sensor'[i].count <= stats'
                     /\ \A q \in Pushes' : sensor'[i].count <= snap'[q]
    <3>1. ~crossed /\ late' = late
      BY <2>0, <2>1, <2>7
    <3>2. late' = {} /\ \A p, q \in Pushes' : p = q /\ p = r
      BY <3>1, <2>1, <2>2, <1>s DEF SensorInv
    <3>3. ASSUME NEW i \in 1..Sensors, sensor'[i].life = life'
          PROVE  /\ phase' # "down" => sensor'[i].count <= stats'
                 /\ \A q \in Pushes' : sensor'[i].count <= snap'[q]
      <4>1. CASE sensor'[i] = sensor[i]
        BY <4>1, <3>1, <3>3, <2>1, <2>2, <1>s DEF SensorInv
      <4>2. CASE sensor'[i] = value
        <5>1. \A q \in Pushes' : q = r /\ snap'[q] = snap[r]
          BY <3>2, <2>2
        <5>2. snap[r] <= snap[r]
          BY <1>v, <2>1 DEF Pushes
        <5> QED BY <4>2, <5>1, <5>2, <2>1, <2>3
      <4> QED BY <4>1, <4>2, <2>5
    <3> QED BY <3>2, <3>3
  <2>8. \A q \in Pushes' : snap'[q] <= stats'
    BY <2>1, <2>2, <1>s DEF SensorInv
  <2> QED
    BY <2>4, <2>6, <2>7, <2>8 DEF SensorInv
<1>9. CASE ApplyLate
  <2>1. PICK p \in late : sensor' = [sensor EXCEPT ![p[1]] = p[2]] /\ late' = late \ {p}
    BY <1>9 DEF ApplyLate
  <2>2. UNCHANGED <<phase, life, stats, request, snap, crossed>> /\ Pushes' = Pushes
    BY <1>9 DEF ApplyLate, service, Pushes
  <2>3. crossed
    BY <2>1, <1>s DEF SensorInv
  <2>4. \A i \in 1..Sensors : sensor'[i].life <= life'
    BY <2>1, <2>2, <1>s, <1>t DEF SensorInv, LateInv
  <2> QED
    BY <2>1, <2>2, <2>3, <2>4, <1>s DEF SensorInv, LateInv
<1> QED
  BY <1>1, <1>2, <1>3, <1>5, <1>6, <1>7, <1>8, <1>9 DEF Next

-----------------------------------------------------------------------------
(* What holds of the numbering, the log and the sensors in every state     *)
THEOREM Invariance == Spec => []IInv
<1>1. IInv /\ [Next]_vars => IInv'
  BY TypeStep, CountStep, QueueStep, BlobStep, SensorStep DEF IInv, LogInv
<1> QED
  BY InitIInv, <1>1, PTL DEF Spec

(* The variables have their types. *)
THEOREM TypeCorrect == Spec => []TypeOK
<1>1. IInv => TypeOK
  BY DEF IInv
<1> QED
  BY <1>1, Invariance, PTL

(* However the blob service fails or repeats a call, and whenever the      *)
(* process ends: a record whose write succeeded stays in the blob of its   *)
(* day, a log that was closed left nothing behind, and the lines are in    *)
(* order.                                                                  *)
THEOREM LogSound == Spec => []LogIsSound
<1>1. IInv => LogIsSound
  <2> SUFFICES ASSUME IInv PROVE LogIsSound
    OBVIOUS
  <2>1. LogInOrder /\ WrittenIsLogged /\ QueueInv /\ CountInv
    BY DEF IInv, LogInv, BlobInv
  <2>2. ASSUME phase = "closed", NEW r \in Requests PROVE stage[r] \notin Pending
    <3>1. DOMAIN queue = {}
      BY <2>1, <2>2 DEF CountInv
    <3> QED BY <3>1, <2>1 DEF QueueInv
  <2> QED
    BY <2>1, <2>2 DEF LogIsSound, ClosedIsFlushed, Pending
<1> QED
  BY <1>1, Invariance, PTL

(* Each step offers a record, settles the one that is first, closes the    *)
(* log, ends the process, or is none of the caller's business.             *)
LEMMA FateFacts ==
    ASSUME NEW s \in Stages
    PROVE  /\ Fate(s) = "none" <=> s = "none"
           /\ Fate(s) = "waiting" <=> s \in Pending
           /\ s = "written" => Fate(s) = "logged"
           /\ s \in {"failed", "lost"} => Fate(s) = "dropped"
BY DEF Stages, Fate, Pending

LEMMA JournalInit == Init => Promised!Init
BY DEF Init, Promised!Init, Fate

LEMMA JournalStep == IInv /\ [Next]_vars => [Promised!Next]_(Promised!vars)
<1> SUFFICES ASSUME IInv, [Next]_vars PROVE [Promised!Next]_(Promised!vars)
  OBVIOUS
<1> DEFINE fate == [r \in Requests |-> Fate(stage[r])]
           closed == phase = "closed"
<1>t. /\ finished \in Nat /\ queue \in Seq(Requests) /\ stage \in [Requests -> Stages]
      /\ dayOf \in [Requests -> 1..Days] /\ blob \in [1..Days -> Seq(Requests)]
  BY TelemetryAssumption DEF IInv, TypeOK
<1>q. QueueInv /\ CountInv
  BY DEF IInv, LogInv
<1>1. CASE SameLog
  <2>1. UNCHANGED <<queue, dayOf, blob, fate>>
    BY <1>1 DEF SameLog
  <2>2. CASE closed' <=> closed
    BY <2>1, <2>2 DEF Promised!vars
  <2>3. CASE ~closed /\ closed' /\ queue = <<>>
    BY <2>1, <2>3 DEF Promised!Close, Promised!Next
  <2> QED BY <1>1, <2>2, <2>3 DEF SameLog
<1>2. CASE Dies
  <2>1. fate' = [r \in Requests |-> IF fate[r] = "waiting" THEN "dropped" ELSE fate[r]]
    <3>1. ASSUME NEW r \in Requests
          PROVE  Fate(stage'[r]) = IF fate[r] = "waiting" THEN "dropped" ELSE fate[r]
      <4>1. stage'[r] = IF stage[r] \in Pending THEN "lost" ELSE stage[r]
        BY <1>2 DEF Dies
      <4>2. stage[r] \in Stages /\ "lost" \in Stages
        BY <1>t, StateNames
      <4> QED BY <4>1, <4>2, FateFacts
    <3> QED BY <3>1
  <2> QED
    BY <1>2, <2>1 DEF Dies, Promised!Die, Promised!Next
<1>3. ASSUME NEW r \in Requests, Joins(r) PROVE Promised!Next
  <2>1. PICK d \in 1..Days : dayOf' = [dayOf EXCEPT ![r] = d]
    BY <1>3 DEF Joins
  <2>2. stage[r] = "none" /\ fate[r] = "none"
    <3>1. r > finished
      BY <1>3, <1>t DEF Joins
    <3> QED BY <3>1, <1>q, <1>t, FateFacts DEF CountInv
  <2>3. ASSUME NEW q \in Requests, fate[q] # "none" PROVE q < r
    <3>1. stage[q] # "none"
      BY <2>3, <1>t, FateFacts
    <3>2. ~(q > finished)
      BY <3>1, <1>q DEF CountInv
    <3> QED BY <3>2, <1>3, <1>t DEF Joins, Requests
  <2>4. fate' = [fate EXCEPT ![r] = "waiting"]
    <3>1. stage' = [stage EXCEPT ![r] = "queued"]
      BY <1>3 DEF Joins
    <3>2. Fate("queued") = "waiting"
      BY DEF Fate
    <3> QED BY <3>1, <3>2, <1>t
  <2>5. /\ ~closed /\ UNCHANGED <<blob, closed>> /\ queue' = Append(queue, r)
    BY <1>3 DEF Joins
  <2> HIDE DEF fate
  <2>6. Promised!Offer(r, d)
    BY <2>1, <2>2, <2>3, <2>4, <2>5 DEF Promised!Offer, fate
  <2> QED BY <2>6 DEF Promised!Next
<1>h. ASSUME queue # <<>> PROVE Head(queue) \in Requests /\ stage[Head(queue)] \in Pending
  BY <1>h, <1>t, <1>q, TailFacts DEF QueueInv
<1>4. ASSUME NEW r \in Requests, Advances(r) PROVE UNCHANGED Promised!vars
  <2>1. /\ UNCHANGED <<queue, dayOf, blob, phase>>
        /\ \E state \in Pending : stage' = [stage EXCEPT ![r] = state]
        /\ stage[r] \in Pending
    BY <1>4, <1>h DEF Advances, Pending
  <2>2. ASSUME NEW q \in Requests PROVE Fate(stage'[q]) = Fate(stage[q])
    <3>1. stage'[q] = stage[q] \/ (stage'[q] \in Pending /\ stage[q] \in Pending)
      BY <2>1, <1>t
    <3> QED BY <3>1 DEF Fate, Pending
  <2>3. fate' = fate
    BY <2>2
  <2> QED BY <2>1, <2>3 DEF Promised!vars
<1>5. ASSUME NEW r \in Requests, Ends(r) PROVE Promised!Next
  <2>1. /\ queue # <<>> /\ r = Head(queue) /\ queue' = Tail(queue)
        /\ UNCHANGED <<dayOf, phase>>
        /\ \/ stage' = [stage EXCEPT ![r] = "failed"] /\ blob' = blob
           \/ /\ \E how \in {"written", "failed"} : stage' = [stage EXCEPT ![r] = how]
              /\ \E lines \in Promised!Written(blob[dayOf[r]], r) :
                    blob' = [blob EXCEPT ![dayOf[r]] = lines]
    BY <1>5 DEF Ends, Promised!Written
  <2>2. ~closed
    BY <2>1, <1>q DEF CountInv
  <2>3. ASSUME NEW state \in Stages, stage' = [stage EXCEPT ![r] = state]
        PROVE  fate' = [fate EXCEPT ![r] = Fate(state)]
    BY <2>3, <1>t
  <2>4. Fate("failed") = "dropped" /\ Fate("written") = "logged"
    BY DEF Fate
  <2>5. \E how \in {"logged", "dropped"} :
           /\ fate' = [fate EXCEPT ![r] = how]
           /\ \/ how = "dropped" /\ UNCHANGED blob
              \/ \E lines \in Promised!Written(blob[dayOf[r]], r) :
                    blob' = [blob EXCEPT ![dayOf[r]] = lines]
    <3> HIDE DEF fate
    <3> QED BY <2>1, <2>3, <2>4, StateNames
  <2>6. Promised!Settle
    BY <2>1, <2>2, <2>5 DEF Promised!Settle
  <2> QED BY <2>6 DEF Promised!Next
<1> QED
  BY <1>1, <1>2, <1>3, <1>4, <1>5, LogSteps

(* Remote logging is the append-only log that its callers rely on, for any *)
(* number of requests, days and faults: creating a blob never empties one  *)
(* with lines, a retried or lost call only doubles or drops the record     *)
(* whose turn it is, and nothing is left behind when the log closes.       *)
THEOREM LogIsAppendOnly == Spec => ImplementsJournal
<1> QED
  BY JournalInit, JournalStep, Invariance, PTL DEF Spec, ImplementsJournal, Promised!Spec

(* A sensor goes back within one life only when pushes overlap or a post   *)
(* is given up, by a timeout, a client that leaves or the process's end.   *)
THEOREM PushesOrdered == Spec => OnlyCrossedPushesGoBack
<1>1. IInv /\ [Next]_vars =>
        [~crossed' => \A i \in 1..Sensors : ~Older(sensor'[i], sensor[i])]_vars
  <2> SUFFICES ASSUME IInv, [Next]_vars, ~crossed', NEW i \in 1..Sensors
               PROVE  ~Older(sensor'[i], sensor[i])
    OBVIOUS
  <2>t. /\ life \in Nat /\ sensor \in [1..Sensors -> Value] /\ at \in [Requests -> 1..Sensors]
        /\ snap \in [Requests -> 0..MaxRequests]
        /\ sensor[i].life \in Nat /\ sensor[i].count \in Nat
    <3>1. /\ life \in Nat /\ sensor \in [1..Sensors -> Value]
          /\ at \in [Requests -> 1..Sensors] /\ snap \in [Requests -> 0..MaxRequests]
      BY TelemetryAssumption DEF IInv, TypeOK
    <3>2. sensor[i] \in Value
      BY <3>1
    <3> QED BY <3>1, <3>2, TelemetryAssumption DEF Value
  <2>1. CASE sensor' = sensor
    BY <2>1, <2>t DEF Older
  <2>2. ASSUME NEW r \in Requests, Post(r), sensor' # sensor
        PROVE  ~Older(sensor'[i], sensor[i])
    <3> DEFINE value == [life |-> life, count |-> snap[r]]
    <3>1. r \in Pushes /\ sensor' = [sensor EXCEPT ![at[r]] = value] /\ crossed' = crossed
      BY <2>2 DEF Post, InFlight
    <3>2. sensor'[i] = sensor[i] \/ sensor'[i] = value
      BY <3>1, <2>t
    <3>3. value.life = life /\ value.count = snap[r] /\ snap[r] \in Nat
      BY <2>t, TelemetryAssumption
    <3> HIDE DEF value
    <3>4. /\ sensor[i].life <= life
          /\ sensor[i].life = life => sensor[i].count <= snap[r]
      BY <3>1 DEF IInv, SensorInv
    <3> QED
      BY <3>2, <3>3, <3>4, <2>t DEF Older
  <2>3. ASSUME ApplyLate PROVE FALSE
    BY <2>3 DEF ApplyLate, IInv, SensorInv
  <2>4. \/ sensor' = sensor \/ ApplyLate \/ \E r \in Requests : Post(r)
    BY DEF Next, Boot, Stop, Close, Exit, Midnight, Reply, TakeLastChunk, Leave, LogTask,
           EnsureContainer, AppendBlock, CreateBlob, vars, service, pushing
  <2> QED
    BY <2>1, <2>2, <2>3, <2>4
<1> QED
  BY <1>1, Invariance, PTL DEF Spec, OnlyCrossedPushesGoBack
=============================================================================
