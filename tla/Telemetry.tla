------------------------------- MODULE Telemetry ------------------------------
(***************************************************************************)
(* What MCP Orchestrator tells the outside about its requests: counters    *)
(* pushed to sensors of Home Assistant (server.py, ha_sensors.py) and one  *)
(* line per interaction in the append blob of the day                      *)
(* (remote_logging.py).  Requests are numbered as they finish; each sensor *)
(* stands for the number of requests its value sums up.  Home Assistant    *)
(* and the blob container live on when the process ends.                   *)
(***************************************************************************)
EXTENDS Naturals, Sequences

CONSTANTS
    MaxRequests,  \* bound on the requests
    Sensors,      \* how many sensors one push posts
    MaxLives,     \* bound on the starts of the server
    Days,         \* bound on the days
    MaxFaults     \* bound on failed calls of either service

ASSUME TelemetryAssumption ==
    /\ MaxRequests \in Nat /\ Sensors \in Nat \ {0}
    /\ MaxLives \in Nat /\ Days \in Nat \ {0} /\ MaxFaults \in Nat

Requests == 1..MaxRequests

VARIABLES
    phase,      \* of the lifespan: see Phases
    life,       \* which start of the server this is
    mode,       \* REMOTE_LOGGING_MODE
    ensured,    \* _container_ensured
    stats,      \* requests recorded in this life
    finished,   \* requests that have finished in any life
    request,    \* what each still does: see RequestStates
    snap,       \* the snapshot it pushes
    at,         \* the sensor it posts next
    sensor,     \* what Home Assistant shows: the value and the life it is of
    late,       \* posts whose sender has given up, and may still be applied
    crossed,    \* pushes of this life have overlapped, or a post was or is late
    day,
    queue,      \* the tasks in _pending, in the order of the lock's waiters
    stage,      \* of each request's record: see Stages
    dayOf,      \* the day of its time stamp
    blob,       \* per day, the lines of its blob
    created,    \* the days whose blob exists
    faults      \* failed calls so far

service == <<phase, life, mode, finished, stats>>
pushing == <<request, snap, at, sensor, late, crossed>>
log == <<ensured, queue, stage, dayOf, blob, created>>
vars == <<service, pushing, log, day, faults>>

Phases == {"down", "serving", "flushing", "closed"}
RequestStates == {"open", "offered", "stream_push", "chat_push", "done"}
Stages == {"none", "queued", "absent", "created", "written", "failed", "lost"}
Modes == {"off", "missed", "all"}
Pushes == {r \in Requests : request[r] \in {"stream_push", "chat_push"}}
Value == [life : 0..MaxLives, count : 0..MaxRequests]

TypeOK ==
    /\ phase \in Phases /\ mode \in Modes
    /\ ensured \in BOOLEAN /\ crossed \in BOOLEAN
    /\ life \in 0..MaxLives /\ faults \in 0..MaxFaults /\ day \in 1..Days
    /\ stats \in 0..MaxRequests /\ finished \in 0..MaxRequests
    /\ request \in [Requests -> RequestStates]
    /\ snap \in [Requests -> 0..MaxRequests]
    /\ at \in [Requests -> 1..Sensors]
    /\ sensor \in [1..Sensors -> Value]
    /\ late \subseteq (1..Sensors) \X Value
    /\ queue \in Seq(Requests)
    /\ stage \in [Requests -> Stages]
    /\ dayOf \in [Requests -> 1..Days]
    /\ blob \in [1..Days -> Seq(Requests)]
    /\ created \subseteq 1..Days

Init ==
    /\ phase = "down" /\ mode = "off" /\ ensured = FALSE /\ crossed = FALSE
    /\ life = 0 /\ faults = 0 /\ day = 1 /\ stats = 0 /\ finished = 0
    /\ request = [r \in Requests |-> "open"]
    /\ snap = [r \in Requests |-> 0] /\ at = [r \in Requests |-> 1]
    /\ sensor = [i \in 1..Sensors |-> [life |-> 0, count |-> 0]]
    /\ late = {} /\ queue = <<>>
    /\ stage = [r \in Requests |-> "none"] /\ dayOf = [r \in Requests |-> 1]
    /\ blob = [d \in 1..Days |-> <<>>] /\ created = {}

-----------------------------------------------------------------------------
(* lifespan up to its yield.  A container-scoped URL needs no creation. *)
Boot ==
    /\ phase = "down" /\ life < MaxLives
    /\ phase' = "serving" /\ life' = life + 1
    /\ mode' \in Modes /\ ensured' \in BOOLEAN
    /\ stats' = 0 /\ crossed' = (late # {})
    /\ UNCHANGED <<finished, request, snap, at, sensor, late, queue, stage,
                   dayOf, blob, created, day, faults>>

(* push_stats(snapshot()): the values are taken when the push begins. *)
BeginPush(r, how, total) ==
    /\ request' = [request EXCEPT ![r] = how]
    /\ snap' = [snap EXCEPT ![r] = total]
    /\ crossed' = (crossed \/ Pushes # {} \/ late # {})

(* _emit_interaction: which outcomes are logged *)
Outcomes == {"tool_error", "tools_used", "no_tool_calls", "no_tools_available",
             "model_error", "max_iterations", "timeout"}
IsLogged(outcome) ==
    \/ mode = "all"
    \/ mode = "missed" /\ outcome = "no_tool_calls"

(* log_event_bg, and log_event up to its lock, whose waiters are served in *)
(* the order in which they came                                            *)
WaitsFirst(r) == <<r>> \o queue
Waits(r) == Append(queue, r)

LogEvent(r, outcome) ==
    IF IsLogged(outcome)
    THEN /\ queue' = Waits(r)
         /\ stage' = [stage EXCEPT ![r] = "queued"]
         /\ dayOf' = [dayOf EXCEPT ![r] = day]
    ELSE UNCHANGED <<queue, stage, dayOf>>

(* A request reaches its reply: it is recorded and logged.  chat() then    *)
(* pushes before it answers; a stream first offers its last chunk.         *)
Reply(how, outcome) ==
    /\ phase = "serving" /\ finished < MaxRequests
    /\ LET r == finished + 1
       IN  /\ finished' = r
           /\ stats' = stats + 1
           /\ LogEvent(r, outcome)
           /\ \/ how = "chat_push" /\ BeginPush(r, how, stats + 1)
              \/ /\ how = "offered"
                 /\ request' = [request EXCEPT ![r] = how]
                 /\ UNCHANGED <<snap, crossed>>
    /\ UNCHANGED <<phase, life, mode, ensured, at, sensor, late, blob, created,
                   day, faults>>

(* _stream_and_push: the push follows the last chunk that the client took. *)
SnapshotOfReply(r) == stats - (finished - r)  \* as it was when r replied
Snapshot(r) == stats

TakeLastChunk(r) ==
    /\ request[r] = "offered"
    /\ BeginPush(r, "stream_push", Snapshot(r))
    /\ UNCHANGED <<service, at, sensor, late, log, day, faults>>

(* A push, or the whole request, is over. *)
EndRequest(r) ==
    /\ request' = [request EXCEPT ![r] = "done"]
    /\ snap' = [snap EXCEPT ![r] = 0]
    /\ at' = [at EXCEPT ![r] = 1]

(* Whoever stops waiting for the answer to its post, because it timed out  *)
(* or was itself cancelled, does not unsend it: Home Assistant never gets  *)
(* it, or takes it later, after posts that were sent after it.             *)
InFlight(r) == <<at[r], [life |-> life, count |-> snap[r]]>>
GiveUp(senders) ==
    \E sent \in SUBSET senders :
        /\ late' = late \cup {InFlight(r) : r \in sent}
        /\ crossed' = (crossed \/ sent # {})

(* The client of a stream leaves: its response is cancelled, and with it   *)
(* the push that follows.                                                  *)
Leave(r) ==
    /\ request[r] \in {"offered", "stream_push"}
    /\ GiveUp(Pushes \cap {r})
    /\ EndRequest(r)
    /\ UNCHANGED <<service, sensor, log, day, faults>>

BeyondLastSensor(r) == at[r] > Sensors
LastSensor(r) == at[r] = Sensors

(* One post of a push: Home Assistant takes it, it is lost, or it times    *)
(* out and is taken later.  A failure does not stop the push.              *)
Post(r) ==
    /\ r \in Pushes
    /\ \/ /\ sensor' = [sensor EXCEPT ![at[r]] = InFlight(r)[2]]
          /\ UNCHANGED <<late, crossed, faults>>
       \/ /\ faults < MaxFaults /\ faults' = faults + 1
          /\ GiveUp({r})
          /\ UNCHANGED sensor
    /\ \/ /\ ~LastSensor(r)
          /\ at' = [at EXCEPT ![r] = @ + 1]
          /\ UNCHANGED <<request, snap>>
       \/ LastSensor(r) /\ EndRequest(r)
    /\ UNCHANGED <<service, log, day>>

ApplyLate ==
    /\ \E p \in late :
          /\ sensor' = [sensor EXCEPT ![p[1]] = p[2]]
          /\ late' = late \ {p}
    /\ UNCHANGED <<service, request, snap, at, crossed, log, day, faults>>

-----------------------------------------------------------------------------
(* The holder of _append_lock *)
Holds(r) == queue # <<>> /\ r = Head(queue)

(* The task ends: it leaves _pending and releases the lock. *)
EndTaskLocked(r, how) ==
    /\ queue' = IF how = "failed" THEN queue ELSE Tail(queue)
    /\ stage' = [stage EXCEPT ![r] = how]
EndTask(r, how) ==
    /\ queue' = Tail(queue)
    /\ stage' = [stage EXCEPT ![r] = how]

Fault == faults < MaxFaults /\ faults' = faults + 1

(* _ensure_container; an existing container is as good. *)
EnsureContainer(r) ==
    /\ Holds(r) /\ stage[r] = "queued" /\ ~ensured
    /\ \/ ensured' = TRUE /\ UNCHANGED <<queue, stage, faults>>
       \/ Fault /\ EndTask(r, "failed") /\ UNCHANGED ensured
    /\ UNCHANGED <<service, pushing, dayOf, blob, created, day>>

(* append_block: the service may apply it, or apply it twice when the SDK  *)
(* repeats it, and a failure says nothing about that.                      *)
AppendBlock(r) ==
    /\ Holds(r) /\ stage[r] \in {"queued", "created"} /\ ensured
    /\ LET d == dayOf[r]
       IN  \/ /\ d \in created
              /\ blob' = [blob EXCEPT ![d] = Append(@, r)]
              /\ \/ EndTask(r, "written") /\ UNCHANGED faults
                 \/ Fault /\ EndTask(r, "failed")
           \/ /\ d \in created /\ Fault
              /\ blob' = [blob EXCEPT ![d] = Append(Append(@, r), r)]
              /\ EndTask(r, "written")
           \/ /\ d \notin created /\ stage[r] = "queued"
              /\ stage' = [stage EXCEPT ![r] = "absent"]
              /\ UNCHANGED <<queue, blob, faults>>
           \/ Fault /\ EndTask(r, "failed") /\ UNCHANGED blob
    /\ UNCHANGED <<service, pushing, ensured, dayOf, created, day>>

(* create_append_blob: a blob of that name is replaced by an empty one. *)
CreateBlob(r) ==
    /\ Holds(r) /\ stage[r] = "absent"
    /\ LET d == dayOf[r]
       IN  \/ /\ created' = created \cup {d}
              /\ blob' = [blob EXCEPT ![d] = <<>>]
              /\ \/ stage' = [stage EXCEPT ![r] = "created"] /\ UNCHANGED <<queue, faults>>
                 \/ Fault /\ EndTask(r, "failed")
           \/ Fault /\ EndTask(r, "failed") /\ UNCHANGED <<created, blob>>
    /\ UNCHANGED <<service, pushing, ensured, dayOf, day>>

LogTask == \E r \in Requests : EnsureContainer(r) \/ AppendBlock(r) \/ CreateBlob(r)

-----------------------------------------------------------------------------
(* The server stops once its requests have ended; close() then waits for   *)
(* the pending records and closes the container.                           *)
Stop ==
    /\ phase = "serving"
    /\ \A r \in Requests : request[r] \in {"open", "done"}
    /\ phase' = "flushing"
    /\ UNCHANGED <<life, mode, finished, stats, pushing, log, day, faults>>

FlushedAtOnce == TRUE
Flushed == queue = <<>>

Close ==
    /\ phase = "flushing" /\ Flushed
    /\ phase' = "closed"
    /\ UNCHANGED <<life, mode, finished, stats, pushing, log, day, faults>>

(* The process ends, by itself or not: what it still had to do is lost,    *)
(* except for posts that it has sent.                                      *)
Exit ==
    /\ phase # "down"
    /\ GiveUp(Pushes)
    /\ phase' = "down"
    /\ request' = [r \in Requests |-> IF request[r] = "open" THEN "open" ELSE "done"]
    /\ queue' = <<>>
    /\ stage' = [r \in Requests |->
                    IF stage[r] \in {"queued", "absent", "created"} THEN "lost" ELSE stage[r]]
    /\ snap' = [r \in Requests |-> 0] /\ at' = [r \in Requests |-> 1]
    /\ stats' = 0 /\ mode' = "off" /\ ensured' = FALSE
    /\ UNCHANGED <<life, finished, sensor, dayOf, blob, created, day, faults>>

Midnight ==
    /\ day < Days /\ day' = day + 1
    /\ UNCHANGED <<service, pushing, log, faults>>

Next ==
    \/ Boot \/ Stop \/ Close \/ Exit \/ Midnight
    \/ \E how \in {"chat_push", "offered"}, o \in Outcomes : Reply(how, o)
    \/ \E r \in Requests : TakeLastChunk(r) \/ Leave(r) \/ Post(r)
    \/ ApplyLate
    \/ LogTask

(* Every call of the blob service ends, and so does close(). *)
Fairness == WF_vars(LogTask) /\ WF_vars(Close)
Spec == Init /\ [][Next]_vars /\ Fairness

-----------------------------------------------------------------------------
(* A record whose write succeeded stays in the blob of its day, although   *)
(* each first writer of a day creates the blob, which empties one that     *)
(* exists (remote_logging.py:73-80); when a clean stop has closed the      *)
(* container no record was dropped in silence (92-99); and a day's lines   *)
(* are in the order of their time stamps, whatever fails, is repeated or   *)
(* crosses midnight.                                                       *)
WrittenIsLogged ==
    \A r \in Requests : stage[r] = "written" =>
        \E i \in DOMAIN blob[dayOf[r]] : blob[dayOf[r]][i] = r
ClosedIsFlushed ==
    phase = "closed" => \A r \in Requests : stage[r] \notin {"queued", "absent", "created"}
LogInOrder ==
    \A d \in 1..Days : \A i, j \in DOMAIN blob[d] :
        i < j => blob[d][i] <= blob[d][j]
LogIsSound == WrittenIsLogged /\ ClosedIsFlushed /\ LogInOrder

(* To its callers the log is append-only and first come, first served,     *)
(* with its container and blobs made on the way and calls that fail, are   *)
(* repeated or get lost.                                                   *)
Fate(s) ==
    CASE s = "none" -> "none"
      [] s \in {"queued", "absent", "created"} -> "waiting"
      [] s = "written" -> "logged"
      [] s \in {"failed", "lost"} -> "dropped"
Promised == INSTANCE Journal WITH
    Records <- Requests, Days <- Days, waiting <- queue, day <- dayOf, lines <- blob,
    fate <- [r \in Requests |-> Fate(stage[r])], closed <- (phase = "closed")
ImplementsJournal == Promised!Spec

(* Within one life of the server a sensor goes back only if two pushes     *)
(* overlapped or the answer to a post was not waited for: it timed out, or *)
(* the push was cut off by a client that left or by the end of the process *)
(* ("All sensors use state_class: total_increasing", README:266).          *)
(* Otherwise each push is of a total at least as great as any before       *)
(* (server.py:60-72).                                                      *)
Older(v, w) ==
    \/ v.life < w.life
    \/ v.life = w.life /\ v.count < w.count
OnlyCrossedPushesGoBack ==
    [][~crossed' => \A i \in 1..Sensors : ~Older(sensor'[i], sensor[i])]_vars

(* Once the server stops it closes its log, however its calls end. *)
FlushEnds == phase = "flushing" ~> phase \in {"closed", "down"}
=============================================================================
