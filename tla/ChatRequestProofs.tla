-------------------------- MODULE ChatRequestProofs --------------------------
(***************************************************************************)
(* Proofs about ChatRequest, for both of the client's loops, any number of *)
(* iterations, any timeouts and any sets of tool calls.                    *)
(***************************************************************************)
EXTENDS ChatRequest, FiniteSets, FiniteSetTheorems, TLAPS

ModelSteps == {"opening", "waiting", "yielded", "closing"}

RetryPending == pc = "closing" /\ after = "retry"

(* The accounting of attempts: one per iteration, one more once the retry  *)
(* has been made, and none yet for a retry that is only granted.           *)
AttemptsCounted ==
    /\ attempts <= iteration + (IF retryUsed THEN 1 ELSE 0)
    /\ RetryPending => retryUsed /\ attempts <= iteration /\ number = 1
    /\ ~retryUsed => number <= 1
    /\ pc \in ModelSteps => iteration > 0 /\ number > 0
    /\ pc \in {"responded", "tools", "final"} => iteration > 0

(* Who has spoken: nobody before speech_started is set, and in the running *)
(* iteration only the running attempt.  A retry is pending only in silence.*)
SpeechTracked ==
    /\ spoken # {} => speech
    /\ RetryPending => spoken = {}
    /\ \A a \in spoken : a[1] <= iteration /\ (a[1] = iteration => a[2] = number)
    /\ \A a, b \in spoken : a[1] = b[1] => a = b

(* Every action that was dispatched has its outcome recorded, except while *)
(* its task runs or if the request ended before its task did.              *)
ActionsRecorded ==
    \A d \in dispatched :
        /\ d[2] <= iteration
        /\ d[1] \in Actions /\ d[1] \notin results =>
              \/ pc = "end"
              \/ /\ pc = "tools" /\ d[2] = iteration
                 /\ \E i \in DOMAIN batch : batch[i] = d[1] /\ task[i] = "running"

(* What is still open while the request goes on *)
EndingsClean ==
    /\ open => pc \in {"waiting", "yielded", "closing"}
    /\ (\E i \in DOMAIN batch : task[i] = "running") => pc = "tools"
    /\ stats = replies
    /\ pc # "end" => replies = 0 /\ outcome = "none"
    /\ pc = "end" => (replies = 0) = (outcome \in {"raised", "abandoned"})

IInv == TypeOK /\ AttemptsCounted /\ SpeechTracked /\ ActionsRecorded /\ EndingsClean

-----------------------------------------------------------------------------
(* The initial state satisfies the inductive invariant. *)
LEMMA InitIInv == Init => IInv
<1> SUFFICES ASSUME Init PROVE IInv
  OBVIOUS
<1>1. batch \in Batches
  <2>1. batch \in [1..0 -> Calls]
    BY DEF Init
  <2> QED
    BY <2>1, BoundAssumption DEF Batches
<1>4. task \in [DOMAIN batch -> TaskStates]
  BY DEF Init
<1>2. TypeOK
  <2>1. /\ now \in 0..RequestTimeout /\ due \in 0..RequestTimeout
        /\ iteration \in 0..MaxIterations /\ number \in 0..2
        /\ attempts \in Nat /\ deltas \in 0..MaxDeltas
        /\ stats \in 0..1 /\ replies \in 0..1
    BY TimeAssumption, BoundAssumption DEF Init
  <2>2. /\ pc \in Steps /\ after \in Endings /\ outcome \in Outcomes
        /\ open \in BOOLEAN /\ retryUsed \in BOOLEAN
        /\ speech \in BOOLEAN /\ sawDelta \in BOOLEAN
        /\ endpoint \in {"stream", "chat"}
    BY DEF Init, Steps, Endings, Outcomes
  <2>3. /\ spoken \in SUBSET ((1..MaxIterations) \X (1..2))
        /\ results \in SUBSET Actions
        /\ dispatched \in SUBSET ((Actions \cup Reads) \X (1..MaxIterations))
    BY DEF Init
  <2> QED
    BY <1>1, <1>4, <2>1, <2>2, <2>3 DEF TypeOK
<1>3. AttemptsCounted /\ SpeechTracked /\ ActionsRecorded /\ EndingsClean
  BY DEF Init, AttemptsCounted, SpeechTracked, ActionsRecorded, EndingsClean,
         RetryPending, ModelSteps
<1> QED BY <1>2, <1>3 DEF IInv

(* A granted or refused retry keeps the invariant's part about attempts:   *)
(* TimeOut, on its own, is typed and sets retryUsed when it grants one.    *)
LEMMA TimeOutEffect ==
    ASSUME IInv, TimeOut
    PROVE  /\ pc' = "closing" /\ after' \in {"retry", "timeout"}
           /\ retryUsed' \in BOOLEAN
           /\ after' = "retry" => ~retryUsed /\ retryUsed' /\ ~speech
           /\ retryUsed => retryUsed'
           /\ after' = "timeout" => retryUsed' = retryUsed
           /\ UNCHANGED <<number, due, attempts>>
  BY DEF IInv, TypeOK, TimeOut, EndAttempt

(* A step inside an attempt that moves between its awaits, or ends it, and *)
(* delivers no text keeps the invariant.                                   *)
LEMMA AttemptStep ==
    ASSUME IInv, pc \in {"opening", "waiting", "yielded"},
           open' \in BOOLEAN,
           UNCHANGED <<endpoint, now, iteration, number, due, attempts, textVars,
                       toolVars, endVars>>,
           \/ TimeOut
           \/ EndAttempt("completed") /\ UNCHANGED retryUsed
           \/ EndAttempt("abandoned") /\ UNCHANGED retryUsed
           \/ Fail
           \/ pc' = "waiting" /\ UNCHANGED <<after, retryUsed>>
    PROVE  IInv'
<1>1. /\ pc' \in {"waiting", "closing"}
      /\ after' \in Endings /\ retryUsed' \in BOOLEAN
      /\ retryUsed => retryUsed'
      /\ pc' = "closing" /\ after' = "retry" => ~retryUsed /\ retryUsed' /\ ~speech
      /\ ~(pc' = "closing" /\ after' = "retry") => retryUsed' = retryUsed
  BY TimeOutEffect DEF IInv, TypeOK, EndAttempt, Fail, Endings
<1>2. TypeOK'
  BY <1>1 DEF IInv, TypeOK, textVars, toolVars, endVars, Steps
<1>3. AttemptsCounted'
  BY <1>1 DEF IInv, TypeOK, AttemptsCounted, RetryPending, ModelSteps
<1>4. SpeechTracked'
  BY <1>1 DEF IInv, SpeechTracked, RetryPending, textVars
<1>5. ActionsRecorded'
  BY <1>1 DEF IInv, ActionsRecorded, toolVars
<1>6. EndingsClean'
  BY <1>1 DEF IInv, EndingsClean, toolVars, endVars
<1> QED BY <1>2, <1>3, <1>4, <1>5, <1>6 DEF IInv

(* A step that ends the request, its running tasks cancelled, keeps it. *)
LEMMA EndStep ==
    ASSUME IInv, pc # "end", pc' = "end", open' = FALSE,
           UNCHANGED <<endpoint, now, iteration, after, number, due, attempts, retryUsed,
                       textVars, batch, results, dispatched>>,
           task' \in [DOMAIN batch -> TaskStates \ {"running"}],
           \/ /\ outcome' \in {"raised", "abandoned"}
              /\ UNCHANGED <<stats, replies>>
           \/ /\ outcome' \in {"answered", "timeout", "model_error", "max_iterations"}
              /\ stats' = stats + 1 /\ replies' = replies + 1
    PROVE  IInv'
<1>1. replies = 0 /\ stats = 0
  BY DEF IInv, EndingsClean, TypeOK
<1>2. TypeOK'
  <2>1. task' \in [DOMAIN batch' -> TaskStates]
    BY DEF TaskStates
  <2>2. stats' \in 0..1 /\ replies' \in 0..1
    BY <1>1
  <2> QED
    BY <2>1, <2>2 DEF IInv, TypeOK, textVars, Steps, Outcomes
<1>3. AttemptsCounted'
  BY DEF IInv, AttemptsCounted, RetryPending, ModelSteps
<1>4. SpeechTracked'
  BY DEF IInv, SpeechTracked, RetryPending, textVars
<1>5. ActionsRecorded'
  BY DEF IInv, ActionsRecorded
<1>6. EndingsClean'
  BY <1>1 DEF IInv, EndingsClean, TypeOK, TaskStates
<1> QED BY <1>2, <1>3, <1>4, <1>5, <1>6 DEF IInv

(* Outside an attempt's stream no stream is open. *)
LEMMA NothingOpen ==
    ASSUME IInv, pc \notin {"waiting", "yielded", "closing"}
    PROVE  open = FALSE
  BY DEF IInv, TypeOK, EndingsClean

(* Outside a tool batch no task runs. *)
LEMMA NoTaskRuns ==
    ASSUME IInv, pc # "tools"
    PROVE  task \in [DOMAIN batch -> TaskStates \ {"running"}]
  BY DEF IInv, TypeOK, EndingsClean

(* Cancelling leaves no task running. *)
LEMMA CancelledTasks ==
    ASSUME IInv
    PROVE  Cancelled \in [DOMAIN batch -> TaskStates \ {"running"}]
  BY DEF IInv, TypeOK, Cancelled, TaskStates

(* A step that starts a model attempt, the first of an iteration or the    *)
(* pending retry, keeps the invariant.                                     *)
LEMMA StartStep ==
    ASSUME IInv,
           open' = FALSE, pc' = "opening", number' \in 1..2,
           now < RequestTimeout,
           due' = Min2(RequestTimeout, now + LLMTimeout),
           attempts' = attempts + 1,
           UNCHANGED <<endpoint, now, after, retryUsed, speech, deltas, spoken,
                       toolVars, endVars>>,
           sawDelta' \in BOOLEAN,
           \/ /\ pc = "next" /\ iteration < MaxIterations
              /\ iteration' = iteration + 1 /\ number' = 1
           \/ RetryPending /\ iteration' = iteration /\ number' = number + 1
    PROVE  IInv'
<1>1. due' \in 0..RequestTimeout
  BY TimeAssumption DEF Min2, IInv, TypeOK
<1>2. TypeOK'
  <2>1. iteration' \in 0..MaxIterations /\ number' \in 0..2 /\ attempts' \in Nat
    BY BoundAssumption DEF IInv, TypeOK
  <2>2. task' \in [DOMAIN batch' -> TaskStates]
    BY DEF IInv, TypeOK, toolVars
  <2> QED
    BY <1>1, <2>1, <2>2 DEF IInv, TypeOK, toolVars, endVars, Steps
<1>3. AttemptsCounted'
  BY DEF IInv, TypeOK, AttemptsCounted, RetryPending, ModelSteps
<1>4. SpeechTracked'
  <2>1. ASSUME NEW a \in spoken PROVE a[1] \in Nat
    BY DEF IInv, TypeOK
  <2> QED
    BY <2>1 DEF IInv, TypeOK, SpeechTracked, RetryPending
<1>5. ActionsRecorded'
  <2>1. ASSUME NEW d \in dispatched PROVE d[2] \in Nat
    BY DEF IInv, TypeOK
  <2> QED
    BY <2>1 DEF IInv, TypeOK, ActionsRecorded, RetryPending, toolVars
<1>6. EndingsClean'
  BY DEF IInv, EndingsClean, toolVars, endVars, RetryPending
<1> QED BY <1>2, <1>3, <1>4, <1>5, <1>6 DEF IInv

-----------------------------------------------------------------------------
(* Every step keeps the inductive invariant. *)
LEMMA StepIInv == IInv /\ [Next]_vars => IInv'
<1> SUFFICES ASSUME IInv, [Next]_vars PROVE IInv'
  OBVIOUS
<1> USE DEF modelVars
<1>0. UNCHANGED endpoint
  BY DEF Next, vars
<1> USE <1>0
<1>1. CASE NextIteration
  <2>1. open = FALSE /\ pc = "next"
    BY <1>1, NothingOpen DEF NextIteration
  <2>2. CASE iteration < MaxIterations /\ ~Expired
    <3>1. now < RequestTimeout
      BY <2>2, TimeAssumption DEF Expired, IInv, TypeOK
    <3>2. /\ pc' = "opening" /\ number' = 1 /\ iteration' = iteration + 1
          /\ due' = Min2(RequestTimeout, now + LLMTimeout)
          /\ attempts' = attempts + 1
          /\ sawDelta' \in BOOLEAN
          /\ UNCHANGED <<now, after, open, retryUsed, speech, deltas, spoken, toolVars, endVars>>
      BY <1>1, <2>2 DEF NextIteration, StartAttempt
    <3>3. /\ open' = FALSE /\ number' \in 1..2
          /\ UNCHANGED <<now, after, retryUsed, speech, deltas, spoken, toolVars, endVars>>
      BY <2>1, <3>2
    <3> QED
      BY <2>1, <2>2, <3>1, <3>2, <3>3, StartStep
  <2>3. CASE iteration < MaxIterations /\ Expired
    <3>1. /\ pc' = "end" /\ outcome' = "timeout"
          /\ stats' = 1 /\ replies' = 1
          /\ iteration' = iteration + 1 /\ sawDelta' = FALSE
          /\ UNCHANGED <<now, after, open, number, due, attempts, retryUsed,
                         speech, deltas, spoken, toolVars>>
      BY <1>1, <2>1, <2>3
         DEF NextIteration, StartAttempt, Finish, IInv, EndingsClean, TypeOK
    <3>2. TypeOK'
      <4>1. iteration' \in 0..MaxIterations
        BY <3>1, <2>3, BoundAssumption DEF IInv, TypeOK
      <4>2. /\ batch' \in Batches /\ task' \in [DOMAIN batch' -> TaskStates]
            /\ results' \in SUBSET Actions
            /\ dispatched' \in SUBSET ((Actions \cup Reads) \X (1..MaxIterations))
        BY <3>1 DEF IInv, TypeOK, toolVars
      <4>3. pc' \in Steps /\ outcome' \in Outcomes
        BY <3>1 DEF Steps, Outcomes
      <4>4. stats' \in 0..1 /\ replies' \in 0..1
        BY <3>1
      <4>5. sawDelta' \in BOOLEAN
        BY <3>1
      <4> QED
        BY <3>1, <4>1, <4>2, <4>3, <4>4, <4>5 DEF IInv, TypeOK
    <3>3. AttemptsCounted'
      BY <3>1, <2>1, <2>3 DEF IInv, TypeOK, AttemptsCounted, RetryPending, ModelSteps
    <3>4. SpeechTracked'
      <4>1. ASSUME NEW a \in spoken PROVE a[1] \in Nat
        BY DEF IInv, TypeOK
      <4> QED
        BY <4>1, <3>1 DEF IInv, TypeOK, SpeechTracked, RetryPending
    <3>5. ActionsRecorded'
      <4>1. ASSUME NEW d \in dispatched PROVE d[2] \in Nat
        BY DEF IInv, TypeOK
      <4> QED
        BY <4>1, <3>1 DEF IInv, TypeOK, ActionsRecorded, toolVars
    <3>6. EndingsClean'
      BY <3>1, <2>1 DEF IInv, EndingsClean, toolVars
    <3> QED BY <3>2, <3>3, <3>4, <3>5, <3>6 DEF IInv
  <2>4. CASE ~(iteration < MaxIterations)
    <3>1. /\ pc' = "end" /\ open' = FALSE /\ outcome' = "max_iterations"
          /\ stats' = stats + 1 /\ replies' = replies + 1
          /\ UNCHANGED <<now, iteration, after, number, due, attempts, retryUsed,
                         textVars, batch, task, results, dispatched>>
      BY <1>1, <2>1, <2>4 DEF NextIteration, Finish, textVars, toolVars, IInv, TypeOK
    <3> QED
      BY <2>1, <3>1, EndStep, NoTaskRuns
  <2> QED BY <2>2, <2>3, <2>4
<1>2. CASE ModelResponds
  <2>1. /\ pc = "opening" /\ open' \in BOOLEAN
        /\ UNCHANGED <<now, iteration, number, due, attempts, textVars, toolVars, endVars>>
    BY <1>2 DEF Streaming, ModelResponds, TimeOut, Fail, EndAttempt
  <2>2. \/ TimeOut
        \/ EndAttempt("completed") /\ UNCHANGED retryUsed
        \/ Fail
        \/ pc' = "waiting" /\ UNCHANGED <<after, retryUsed>>
    BY <1>2 DEF ModelResponds
  <2> QED
    BY <2>1, <2>2, AttemptStep
<1>3. CASE AttemptDeadline \/ ModelFails \/ ResumeStream \/ StreamEvent
  BY <1>3, AttemptStep
     DEF AttemptDeadline, ModelFails, ResumeStream, StreamEvent, IInv, TypeOK,
         TimeOut, Fail, EndAttempt
<1>4. ASSUME NEW empty \in BOOLEAN, TextDelta(empty) PROVE IInv'
  <2>1. TypeOK'
    BY <1>4, BoundAssumption
       DEF TextDelta, IInv, TypeOK, AttemptsCounted, ModelSteps, Steps, toolVars, endVars
  <2>2. AttemptsCounted'
    BY <1>4 DEF TextDelta, IInv, AttemptsCounted, RetryPending, ModelSteps
  <2>3. SpeechTracked'
    <3>1. CASE empty
      BY <1>4, <3>1 DEF TextDelta, IInv, SpeechTracked, RetryPending
    <3>2. CASE ~empty
      <4>1. /\ spoken' = spoken \cup {<<iteration, number>>} /\ speech'
            /\ pc' = "yielded" /\ UNCHANGED <<iteration, number>>
        BY <1>4, <3>2 DEF TextDelta
      <4>2. ASSUME NEW a \in spoken'
            PROVE  a[1] <= iteration' /\ (a[1] = iteration' => a[2] = number')
        <5>1. CASE a \in spoken
          BY <4>1, <5>1 DEF IInv, SpeechTracked
        <5>2. CASE a = <<iteration, number>>
          BY <4>1, <5>2 DEF IInv, TypeOK
        <5> QED BY <4>1, <5>1, <5>2
      <4>3. ASSUME NEW a \in spoken', NEW b \in spoken', a[1] = b[1]
            PROVE  a = b
        <5>1. ASSUME NEW c \in spoken, c[1] = iteration
              PROVE  c = <<iteration, number>>
          BY <5>1 DEF IInv, TypeOK, SpeechTracked
        <5>2. CASE a \in spoken /\ b \in spoken
          BY <4>3, <5>2 DEF IInv, SpeechTracked
        <5>3. CASE a = <<iteration, number>> \/ b = <<iteration, number>>
          BY <4>1, <4>3, <5>1, <5>3
        <5> QED BY <4>1, <5>2, <5>3
      <4> QED
        BY <4>1, <4>2, <4>3 DEF SpeechTracked, RetryPending
    <3> QED BY <3>1, <3>2
  <2>4. ActionsRecorded'
    BY <1>4 DEF TextDelta, IInv, ActionsRecorded, toolVars
  <2>5. EndingsClean'
    BY <1>4 DEF TextDelta, IInv, EndingsClean, toolVars, endVars
  <2> QED BY <2>1, <2>2, <2>3, <2>4, <2>5 DEF IInv
<1>5. CASE CloseStream
  <2>1. pc = "closing" /\ open' = FALSE
    BY <1>5 DEF CloseStream
  <2>2. CASE after = "retry" /\ ~Expired
    <3>1. now < RequestTimeout
      BY <2>2, TimeAssumption DEF Expired, IInv, TypeOK
    <3>2. RetryPending /\ number = 1
      BY <2>1, <2>2 DEF IInv, AttemptsCounted, RetryPending
    <3>3. /\ pc' = "opening" /\ number' = number + 1 /\ iteration' = iteration
          /\ due' = Min2(RequestTimeout, now + LLMTimeout)
          /\ attempts' = attempts + 1
          /\ UNCHANGED <<now, after, retryUsed, textVars, toolVars, endVars>>
      BY <1>5, <2>2 DEF CloseStream, StartAttempt
    <3>4. /\ sawDelta' \in BOOLEAN /\ number' \in 1..2
          /\ UNCHANGED <<now, after, retryUsed, speech, deltas, spoken, toolVars, endVars>>
      BY <3>2, <3>3 DEF textVars, IInv, TypeOK
    <3> QED
      BY <2>1, <3>1, <3>2, <3>3, <3>4, StartStep
  <2>3. CASE after = "retry" /\ Expired
    <3>1. Finish("timeout") /\ UNCHANGED <<number, due, attempts>>
      BY <1>5, <2>3 DEF CloseStream, StartAttempt
    <3> QED
      BY <1>5, <2>1, <3>1, EndStep, NoTaskRuns DEF CloseStream, Finish, toolVars
  <2>4. CASE after = "timeout"
    BY <1>5, <2>1, <2>4, EndStep, NoTaskRuns DEF CloseStream, Finish, toolVars
  <2>5. CASE after = "error"
    BY <1>5, <2>1, <2>5, EndStep, NoTaskRuns
       DEF CloseStream, Finish, Abort, toolVars
  <2>6. CASE after = "completed"
    <3>1. /\ pc' = "responded" /\ ~open'
          /\ UNCHANGED <<now, after, iteration, retryUsed, number, due, attempts,
                         textVars, toolVars, endVars>>
      BY <1>5, <2>6 DEF CloseStream
    <3>2. TypeOK'
      BY <2>1, <3>1 DEF IInv, TypeOK, textVars, toolVars, endVars, Steps
    <3>3. AttemptsCounted'
      BY <2>1, <3>1 DEF IInv, AttemptsCounted, RetryPending, ModelSteps
    <3>4. SpeechTracked' /\ ActionsRecorded' /\ EndingsClean'
      BY <2>1, <3>1 DEF IInv, SpeechTracked, ActionsRecorded, EndingsClean,
                        RetryPending, textVars, toolVars, endVars
    <3> QED BY <3>2, <3>3, <3>4 DEF IInv
  <2>7. CASE after = "abandoned"
    BY <1>5, <2>1, <2>7, EndStep, NoTaskRuns DEF CloseStream, Abort, toolVars
  <2> QED
    BY <1>5, <2>2, <2>3, <2>4, <2>5, <2>6, <2>7 DEF CloseStream
<1>6. CASE CloseFails
  BY <1>6, EndStep, NoTaskRuns DEF CloseFails, Finish, Abort, toolVars
<1>7. CASE StartBatch
  <2>1. PICK b \in Batches \ {<<>>} :
           IF Expired
           THEN Finish("timeout") /\ UNCHANGED toolVars
           ELSE /\ pc' = "tools"
                /\ batch' = b
                /\ task' = [i \in DOMAIN b |-> "not_started"]
                /\ UNCHANGED <<results, dispatched, endVars>>
    BY <1>7 DEF StartBatch
  <2>2. /\ pc = "responded" /\ open = FALSE
        /\ UNCHANGED <<now, iteration, modelVars, textVars>>
    BY <1>7, NothingOpen DEF StartBatch
  <2>3. CASE Expired
    BY <2>1, <2>2, <2>3, EndStep, NoTaskRuns DEF Finish, toolVars
  <2>4. CASE ~Expired
    <3>1. TypeOK'
      BY <2>1, <2>2, <2>4 DEF IInv, TypeOK, textVars, endVars, Steps, TaskStates
    <3>2. AttemptsCounted' /\ SpeechTracked'
      BY <2>1, <2>2, <2>4 DEF IInv, AttemptsCounted, SpeechTracked, RetryPending,
                              ModelSteps, textVars
    <3>3. ActionsRecorded'
      BY <2>1, <2>2, <2>4 DEF IInv, ActionsRecorded
    <3>4. EndingsClean'
      BY <2>1, <2>2, <2>4 DEF IInv, EndingsClean, endVars
    <3> QED BY <3>1, <3>2, <3>3, <3>4 DEF IInv
  <2> QED BY <2>3, <2>4
<1>8. CASE Answer
  <2>1. pc = "responded" /\ open = FALSE
    BY <1>8, NothingOpen DEF Answer
  <2>2. CASE Finish("answered")
    BY <1>8, <2>1, <2>2, EndStep, NoTaskRuns DEF Answer, Finish, toolVars
  <2>3. CASE pc' = "final" /\ UNCHANGED endVars
    <3>1. TypeOK'
      BY <1>8, <2>3 DEF Answer, IInv, TypeOK, textVars, toolVars, endVars, Steps
    <3>2. AttemptsCounted' /\ SpeechTracked'
      BY <1>8, <2>1, <2>3 DEF Answer, IInv, AttemptsCounted, SpeechTracked,
                              RetryPending, ModelSteps, textVars
    <3>3. ActionsRecorded' /\ EndingsClean'
      BY <1>8, <2>1, <2>3 DEF Answer, IInv, ActionsRecorded, EndingsClean, toolVars, endVars
    <3> QED BY <3>1, <3>2, <3>3 DEF IInv
  <2> QED BY <1>8, <2>2, <2>3 DEF Answer
<1>9. CASE FinalChunk
  <2>1. open = FALSE
    BY <1>9, NothingOpen DEF FinalChunk
  <2> QED
    BY <1>9, <2>1, EndStep, NoTaskRuns DEF FinalChunk, Finish, toolVars
<1>10. ASSUME NEW i \in DOMAIN batch, StartTask(i) PROVE IInv'
  <2>1. open = FALSE /\ pc = "tools" /\ task[i] = "not_started"
    BY <1>10, NothingOpen DEF StartTask
  <2>2. CASE Expired
    BY <1>10, <2>1, <2>2, EndStep, CancelledTasks DEF StartTask, Finish
  <2>3. CASE ~Expired
    <3>1. /\ \/ task' = [task EXCEPT ![i] = "error"] /\ dispatched' = dispatched
             \/ task' = [task EXCEPT ![i] = "reused"] /\ dispatched' = dispatched
             \/ /\ task' = [task EXCEPT ![i] = "running"] /\ batch[i] \notin Refused
                /\ dispatched' = dispatched \cup {<<batch[i], iteration>>}
          /\ UNCHANGED <<now, pc, iteration, modelVars, textVars, batch, results, endVars>>
      BY <1>10, <2>1, <2>3 DEF StartTask, IInv, TypeOK
    <3>2. task' \in [DOMAIN batch' -> TaskStates]
      BY <3>1 DEF IInv, TypeOK, TaskStates
    <3>3. dispatched' \in SUBSET ((Actions \cup Reads) \X (1..MaxIterations))
      <4>1. batch[i] \in Calls
        BY DEF IInv, TypeOK, Batches
      <4>2. iteration \in 1..MaxIterations
        BY <2>1 DEF IInv, TypeOK, AttemptsCounted
      <4> QED
        BY <3>1, <4>1, <4>2 DEF IInv, TypeOK, Calls
    <3>4. TypeOK'
      BY <3>1, <3>2, <3>3 DEF IInv, TypeOK, textVars, endVars
    <3>5. AttemptsCounted' /\ SpeechTracked'
      BY <3>1 DEF IInv, AttemptsCounted, SpeechTracked, RetryPending, ModelSteps, textVars
    <3>6. ActionsRecorded'
      <4>1. \A j \in DOMAIN batch : task[j] = "running" => task'[j] = "running"
        BY <2>1, <3>1 DEF IInv, TypeOK
      <4>2. ASSUME NEW d \in dispatched'
            PROVE  /\ d[2] <= iteration
                   /\ d[1] \in Actions /\ d[1] \notin results =>
                        /\ d[2] = iteration
                        /\ \E j \in DOMAIN batch : batch[j] = d[1] /\ task'[j] = "running"
        <5>1. CASE d \in dispatched
          BY <2>1, <4>1, <5>1 DEF IInv, ActionsRecorded
        <5>2. CASE d \notin dispatched
          <6>1. d = <<batch[i], iteration>> /\ task' = [task EXCEPT ![i] = "running"]
            BY <3>1, <4>2, <5>2
          <6>2. d[1] = batch[i] /\ d[2] = iteration
            BY <6>1
          <6>3. task'[i] = "running" /\ iteration <= iteration
            BY <6>1 DEF IInv, TypeOK
          <6> QED BY <6>2, <6>3
        <5> QED BY <5>1, <5>2
      <4> QED
        BY <2>1, <3>1, <4>2 DEF ActionsRecorded
    <3>7. EndingsClean'
      BY <2>1, <3>1 DEF IInv, EndingsClean, endVars
    <3> QED BY <3>4, <3>5, <3>6, <3>7 DEF IInv
  <2> QED BY <2>2, <2>3
<1>11. ASSUME NEW i \in DOMAIN batch, EndTask(i) PROVE IInv'
  <2>1. PICK how \in {"completed", "error"} : task' = [task EXCEPT ![i] = how]
    BY <1>11 DEF EndTask
  <2>2. /\ pc = "tools" /\ task[i] = "running"
        /\ results' = results \cup ({batch[i]} \cap Actions)
        /\ UNCHANGED <<now, pc, iteration, modelVars, textVars, batch, dispatched, endVars>>
    BY <1>11 DEF EndTask
  <2>3. task' \in [DOMAIN batch' -> TaskStates] /\ results' \in SUBSET Actions
    BY <2>1, <2>2 DEF IInv, TypeOK, TaskStates
  <2>4. TypeOK'
    BY <2>2, <2>3 DEF IInv, TypeOK, textVars, endVars
  <2>5. AttemptsCounted' /\ SpeechTracked'
    BY <2>2 DEF IInv, AttemptsCounted, SpeechTracked, RetryPending, ModelSteps, textVars
  <2>6. ActionsRecorded'
    <3>1. ASSUME NEW j \in DOMAIN batch, task[j] = "running", batch[j] \notin results',
                 batch[j] \in Actions
          PROVE  task'[j] = "running"
      BY <2>1, <2>2, <3>1 DEF IInv, TypeOK
    <3> QED
      BY <2>2, <3>1 DEF IInv, ActionsRecorded
  <2>7. EndingsClean'
    BY <2>1, <2>2 DEF IInv, EndingsClean, endVars
  <2> QED BY <2>4, <2>5, <2>6, <2>7 DEF IInv
<1>12. CASE ToolsDeadline
  <2>1. open = FALSE
    BY <1>12, NothingOpen DEF ToolsDeadline
  <2> QED
    BY <1>12, <2>1, EndStep, CancelledTasks DEF ToolsDeadline, Finish
<1>13. CASE EndBatch
  <2>1. /\ pc = "tools" /\ pc' = "next" /\ batch' = <<>> /\ task' = <<>>
        /\ \A i \in DOMAIN batch : task[i] # "running"
        /\ UNCHANGED <<now, iteration, modelVars, textVars, results, dispatched, endVars>>
    BY <1>13 DEF EndBatch
  <2>2. batch' \in Batches
    <3>1. batch' \in [1..0 -> Calls]
      BY <2>1
    <3> QED
      BY <3>1, BoundAssumption DEF Batches
  <2>3. task' \in [DOMAIN batch' -> TaskStates]
    BY <2>1
  <2>4. TypeOK'
    BY <2>1, <2>2, <2>3 DEF IInv, TypeOK, textVars, endVars, Steps
  <2>5. AttemptsCounted' /\ SpeechTracked'
    BY <2>1 DEF IInv, AttemptsCounted, SpeechTracked, RetryPending, ModelSteps, textVars
  <2>6. ActionsRecorded'
    BY <2>1 DEF IInv, ActionsRecorded
  <2>7. EndingsClean'
    BY <2>1, NothingOpen DEF IInv, EndingsClean, endVars
  <2> QED BY <2>4, <2>5, <2>6, <2>7 DEF IInv
<1>14. CASE Disconnect
  <2>1. CASE pc \in {"opening", "waiting", "yielded"}
    <3>1. /\ EndAttempt("abandoned") /\ UNCHANGED retryUsed /\ open' \in BOOLEAN
          /\ UNCHANGED <<now, iteration, number, due, attempts, textVars, toolVars, endVars>>
      BY <1>14, <2>1 DEF Disconnect, EndAttempt, toolVars, IInv, TypeOK
    <3> QED
      BY <2>1, <3>1, AttemptStep
  <2>2. CASE pc \in {"tools", "final"}
    <3>1. open = FALSE
      BY <2>2, NothingOpen
    <3> QED
      BY <1>14, <2>2, <3>1, EndStep, CancelledTasks DEF Disconnect, Abort
  <2> QED BY <1>14, <2>1, <2>2 DEF Disconnect
<1>15. CASE Tick
  <2>1. now' \in 0..RequestTimeout
    BY <1>15, TimeAssumption DEF Tick, IInv, TypeOK
  <2>2. TypeOK'
    BY <1>15, <2>1 DEF Tick, IInv, TypeOK, textVars, toolVars, endVars
  <2> QED
    BY <1>15, <2>2 DEF Tick, IInv, AttemptsCounted, SpeechTracked, ActionsRecorded,
                       EndingsClean, RetryPending, ModelSteps, textVars, toolVars, endVars
<1>16. CASE UNCHANGED vars
  BY <1>16 DEF vars, IInv, TypeOK, AttemptsCounted, SpeechTracked, ActionsRecorded,
               EndingsClean, RetryPending, ModelSteps, textVars, toolVars, endVars
<1> QED
  BY <1>1, <1>2, <1>3, <1>4, <1>5, <1>6, <1>7, <1>8, <1>9, <1>10, <1>11, <1>12,
     <1>13, <1>14, <1>15, <1>16
     DEF Next, OwnStep, ClientStep, OutsideStep

-----------------------------------------------------------------------------
(* IInv is an inductive invariant of a chat request. *)
THEOREM Invariance == Spec => []IInv
  BY InitIInv, StepIInv, PTL DEF Spec

(* The type invariant, in which the attempts of one iteration are at most  *)
(* two, holds for every timeout and number of iterations.                  *)
THEOREM TypeCorrect == Spec => []TypeOK
<1>1. IInv => TypeOK
  BY DEF IInv
<1> QED BY <1>1, Invariance, PTL

(* The model is asked at most once per iteration and once more per request.*)
THEOREM OneRetryPerRequest == Spec => []AttemptsBounded
<1>1. IInv => AttemptsBounded
  BY DEF IInv, AttemptsCounted, AttemptsBounded
<1> QED BY <1>1, Invariance, PTL

(* No iteration's answer is spoken by two attempts. *)
THEOREM NoAnswerSpokenTwice == Spec => []OneVoice
<1>1. IInv => OneVoice
  BY DEF IInv, SpeechTracked, OneVoice
<1> QED BY <1>1, Invariance, PTL

(* A finished request has closed its stream, stopped its tools, and kept   *)
(* one statistics record for a delivered reply, none for a broken one.     *)
THEOREM EveryEndIsClean == Spec => []CleanEnd
<1>1. IInv => CleanEnd
  BY DEF IInv, TypeOK, EndingsClean, CleanEnd
<1> QED BY <1>1, Invariance, PTL

(* After the retry, an action dispatched in an earlier iteration is not    *)
(* dispatched again.                                                       *)
THEOREM ActionsRunOnceAfterRetry == Spec => NoRepeatAfterRetry
<1>1. ASSUME IInv, [Next]_vars,
             NEW a \in Actions, NEW k \in 1..MaxIterations,
             retryUsed, <<a, k>> \in dispatched' \ dispatched,
             NEW j \in 1..(k - 1), <<a, j>> \in dispatched
      PROVE  FALSE
  <2>1. PICK i \in DOMAIN batch : StartTask(i)
    BY <1>1 DEF Next, OwnStep, ClientStep, OutsideStep, vars, toolVars, NextIteration,
        AttemptDeadline, CloseStream, StartBatch, Answer, ToolsDeadline, EndBatch,
        ResumeStream, FinalChunk, ModelResponds, ModelFails, StreamEvent, TextDelta,
        CloseFails, EndTask, Disconnect, Tick
  <2>2. /\ pc = "tools"
        /\ <<a, k>> = <<batch[i], iteration>>
        /\ ~ReusesResult(batch[i])
    BY <1>1, <2>1 DEF StartTask, IInv, TypeOK
  <2>3. a = batch[i] /\ k = iteration
    BY <2>2
  <2>4. a \notin results
    BY <1>1, <2>2, <2>3 DEF ReusesResult
  <2>5. j = iteration
    <3>1. <<a, j>>[1] = a /\ <<a, j>>[2] = j
      OBVIOUS
    <3> QED
      BY <1>1, <2>2, <2>4, <3>1 DEF IInv, ActionsRecorded
  <2> QED
    BY <2>3, <2>5 DEF IInv, TypeOK
<1>2. IInv /\ [Next]_vars =>
        [\A a \in Actions, k \in 1..MaxIterations :
            /\ retryUsed
            /\ <<a, k>> \in dispatched' \ dispatched
            => \A j \in 1..(k - 1) : <<a, j>> \notin dispatched]_vars
  BY <1>1
<1> QED
  BY <1>2, Invariance, PTL DEF Spec, NoRepeatAfterRetry

(* Once the request's time is up, no model attempt and no tool starts. *)
THEOREM DeadlineStopsWork == Spec => NothingStartsLate
<1>1. ASSUME [Next]_vars, Expired
      PROVE  attempts' = attempts /\ dispatched' = dispatched
  BY <1>1 DEF Next, OwnStep, ClientStep, OutsideStep, vars, modelVars, toolVars,
      NextIteration, AttemptDeadline, CloseStream, StartBatch, Answer, StartTask,
      ToolsDeadline, EndBatch, ResumeStream, FinalChunk, ModelResponds, ModelFails,
      StreamEvent, TextDelta, CloseFails, EndTask, Disconnect, Tick,
      StartAttempt, TimeOut, Fail, EndAttempt
<1>2. [Next]_vars => [Expired => attempts' = attempts /\ dispatched' = dispatched]_vars
  BY <1>1
<1> QED
  BY <1>2, PTL DEF Spec, NothingStartsLate
-----------------------------------------------------------------------------
(* The steps that are left to a request, the arrival of text apart: those  *)
(* of its tool tasks, of the rest of its iteration, of its one retry and   *)
(* of the iterations to come.                                              *)
NotStarted(t) == {i \in DOMAIN t : t[i] = "not_started"}
Running(t) == {i \in DOMAIN t : t[i] = "running"}
TasksLeft(t) == 2 * Cardinality(NotStarted(t)) + Cardinality(Running(t))

IterationSteps == 6 + 2 * MaxCalls
StepsOfIteration ==
    CASE pc = "opening" -> IterationSteps
      [] pc \in {"waiting", "yielded"} -> 5 + 2 * MaxCalls
      [] pc = "closing" -> 4 + 2 * MaxCalls
      [] pc = "responded" -> 3 + 2 * MaxCalls
      [] pc = "tools" -> 2 + TasksLeft(task)
      [] OTHER -> 1
RetrySteps == IF retryUsed /\ ~RetryPending THEN 0 ELSE 3
WorkLeft ==
    IF pc = "end" THEN 0
    ELSE (MaxIterations - iteration) * IterationSteps + StepsOfIteration + RetrySteps
MostWork == MaxIterations * IterationSteps + 4

(* The tasks of a batch of n calls have at most 2n steps to take. *)
LEMMA TasksBound ==
    ASSUME NEW n \in Nat, NEW t \in [1..n -> TaskStates]
    PROVE  /\ IsFiniteSet(NotStarted(t)) /\ IsFiniteSet(Running(t))
           /\ Cardinality(NotStarted(t)) \in Nat /\ Cardinality(Running(t)) \in Nat
           /\ TasksLeft(t) \in 0..(2 * n)
<1> DEFINE w == NotStarted(t)
           r == Running(t)
<1>1. IsFiniteSet(1..n) /\ Cardinality(1..n) = n
  BY FS_Interval
<1>2. w \subseteq 1..n /\ r \subseteq 1..n /\ w \cap r = {} /\ w \cup r \subseteq 1..n
  BY DEF NotStarted, Running
<1> HIDE DEF w, r
<1>3. IsFiniteSet(w) /\ IsFiniteSet(r) /\ IsFiniteSet(w \cup r)
  BY <1>1, <1>2, FS_Subset
<1>4. Cardinality(w) \in Nat /\ Cardinality(r) \in Nat
  BY <1>3, FS_CardinalityType
<1>5. Cardinality(w \cup r) <= n
  BY <1>1, <1>2, FS_Subset, ZenonT(40)
<1>6. Cardinality(w \cup r) = Cardinality(w) + Cardinality(r)
  <2>1. Cardinality(w \cup r) = Cardinality(w) + Cardinality(r) - Cardinality(w \cap r)
    BY <1>3, FS_Union
  <2>2. Cardinality(w \cap r) = 0
    BY <1>2, FS_EmptySet
  <2> QED BY <1>4, <2>1, <2>2
<1>7. 2 * Cardinality(w) + Cardinality(r) \in 0..(2 * n)
  BY <1>4, <1>5, <1>6
<1> QED BY <1>3, <1>4, <1>7 DEF w, r, TasksLeft

(* Starting a task, and ending one, is a step less. *)
LEMMA TaskAdvances ==
    ASSUME NEW n \in Nat, NEW t \in [1..n -> TaskStates], NEW i \in 1..n, NEW x \in TaskStates,
           \/ t[i] = "not_started" /\ x # "not_started"
           \/ t[i] = "running" /\ x \notin {"not_started", "running"}
    PROVE  TasksLeft([t EXCEPT ![i] = x]) < TasksLeft(t)
<1> DEFINE u == [t EXCEPT ![i] = x]
<1>1. u \in [1..n -> TaskStates]
  OBVIOUS
<1>2. /\ Cardinality(NotStarted(t)) \in Nat /\ Cardinality(Running(t)) \in Nat
      /\ Cardinality(NotStarted(u)) \in Nat /\ Cardinality(Running(u)) \in Nat
      /\ IsFiniteSet(NotStarted(t)) /\ IsFiniteSet(Running(t))
  BY <1>1, TasksBound
<1>3. CASE t[i] = "not_started" /\ x # "not_started"
  <2>1. NotStarted(u) = NotStarted(t) \ {i} /\ i \in NotStarted(t)
    BY <1>3 DEF NotStarted
  <2>2. Running(u) = Running(t) \/ (i \notin Running(t) /\ Running(u) = Running(t) \cup {i})
    BY <1>3 DEF Running
  <2> HIDE DEF u
  <2>3. Cardinality(NotStarted(u)) = Cardinality(NotStarted(t)) - 1
    BY <1>2, <2>1, FS_RemoveElement
  <2>4. Cardinality(Running(u)) <= Cardinality(Running(t)) + 1
    <3>1. CASE Running(u) = Running(t)
      BY <1>2, <3>1
    <3>2. CASE i \notin Running(t) /\ Running(u) = Running(t) \cup {i}
      <4>1. Cardinality(Running(t) \cup {i}) = Cardinality(Running(t)) + 1
        BY <1>2, <3>2, FS_AddElement
      <4> QED BY <1>2, <3>2, <4>1
    <3> QED BY <2>2, <3>1, <3>2
  <2> QED BY <1>2, <2>3, <2>4 DEF TasksLeft, u
<1>4. CASE t[i] = "running" /\ x \notin {"not_started", "running"}
  <2>1. NotStarted(u) = NotStarted(t)
    BY <1>4 DEF NotStarted
  <2>2. Running(u) = Running(t) \ {i} /\ i \in Running(t)
    BY <1>4 DEF Running
  <2> HIDE DEF u
  <2>3. Cardinality(Running(u)) = Cardinality(Running(t)) - 1
    BY <1>2, <2>2, FS_RemoveElement
  <2> QED BY <1>2, <2>1, <2>3 DEF TasksLeft, u
<1> QED BY <1>3, <1>4

(* The running batch has a length, and at most MaxCalls. *)
LEMMA BatchLength ==
    ASSUME TypeOK
    PROVE  \E n \in 0..MaxCalls : DOMAIN batch = 1..n /\ task \in [1..n -> TaskStates]
  BY BoundAssumption DEF TypeOK, Batches

LEMMA WorkParts ==
    ASSUME IInv, pc # "end"
    PROVE  /\ MaxCalls \in Nat /\ IterationSteps \in Nat
           /\ (MaxIterations - iteration) * IterationSteps \in Nat
           /\ MaxIterations * IterationSteps \in Nat
           /\ iteration > 0 =>
                (MaxIterations - iteration) * IterationSteps + IterationSteps
                    <= MaxIterations * IterationSteps
           /\ (MaxIterations - iteration) * IterationSteps <= MaxIterations * IterationSteps
           /\ StepsOfIteration \in 1..IterationSteps
           /\ pc \in {"next", "end"} => StepsOfIteration = 1
           /\ RetrySteps \in {0, 3}
<1>1. /\ MaxIterations \in Nat /\ MaxCalls \in Nat /\ iteration \in 0..MaxIterations
      /\ IterationSteps \in Nat /\ IterationSteps >= 6 + 2 * MaxCalls
  BY BoundAssumption DEF IInv, TypeOK, IterationSteps
<1>2. \A x, y \in Nat : x * y \in Nat
  OBVIOUS
<1>3. \A x, y, k \in Nat : (x + y) * k = x * k + y * k
  OBVIOUS
<1> DEFINE m == MaxIterations - iteration
           k == IterationSteps
<1>4. m \in Nat /\ MaxIterations = m + iteration
  BY <1>1
<1>5. m * k \in Nat /\ iteration * k \in Nat /\ MaxIterations * k = m * k + iteration * k
  <2>1. (m + iteration) * k = m * k + iteration * k
    BY <1>1, <1>3, <1>4
  <2> QED BY <1>1, <1>2, <1>4, <2>1
<1>6. iteration > 0 => iteration * k >= k
  <2> SUFFICES ASSUME iteration > 0 PROVE iteration * k >= k
    OBVIOUS
  <2>1. iteration - 1 \in Nat /\ iteration = (iteration - 1) + 1
    BY <1>1
  <2>2. iteration * k = (iteration - 1) * k + 1 * k
    BY <1>1, <1>3, <2>1
  <2>3. (iteration - 1) * k \in Nat /\ 1 * k = k
    BY <1>1, <1>2, <2>1
  <2> QED BY <1>1, <2>2, <2>3
<1>7. StepsOfIteration \in 1..IterationSteps
  <2>1. pc = "tools" => TasksLeft(task) \in 0..(2 * MaxCalls)
    <3>1. PICK n \in 0..MaxCalls : task \in [1..n -> TaskStates]
      BY BatchLength DEF IInv
    <3>2. TasksLeft(task) \in 0..(2 * n)
      BY <1>1, <3>1, TasksBound
    <3> QED BY <1>1, <3>1, <3>2
  <2> QED BY <1>1, <2>1 DEF StepsOfIteration, IterationSteps
<1>8. pc \in {"next", "end"} => StepsOfIteration = 1
  BY DEF StepsOfIteration
<1>9. RetrySteps \in {0, 3}
  BY DEF RetrySteps
<1> HIDE DEF m
<1> QED BY <1>1, <1>2, <1>5, <1>6, <1>7, <1>8, <1>9 DEF m

LEMMA WorkFacts ==
    IInv => WorkLeft \in 0..MostWork /\ (WorkLeft = 0 <=> pc = "end")
<1> SUFFICES ASSUME IInv
             PROVE  WorkLeft \in 0..MostWork /\ (WorkLeft = 0 <=> pc = "end")
  OBVIOUS
<1>1. CASE pc = "end"
  <2>1. MaxIterations * IterationSteps \in Nat
    BY BoundAssumption DEF IterationSteps
  <2> QED BY <1>1, <2>1 DEF WorkLeft, MostWork
<1>2. CASE pc # "end"
  <2> DEFINE p == (MaxIterations - iteration) * IterationSteps
             q == MaxIterations * IterationSteps
  <2>1. /\ p \in Nat /\ q \in Nat /\ IterationSteps \in Nat
        /\ iteration > 0 => p + IterationSteps <= q
        /\ p <= q
        /\ StepsOfIteration \in 1..IterationSteps
        /\ pc \in {"next", "end"} => StepsOfIteration = 1
        /\ RetrySteps \in {0, 3}
    BY <1>2, WorkParts
  <2>2. iteration > 0 \/ pc = "next"
    BY <1>2 DEF IInv, AttemptsCounted, TypeOK, ModelSteps, Steps
  <2>3. WorkLeft = p + StepsOfIteration + RetrySteps /\ MostWork = q + 4
    BY <1>2 DEF WorkLeft, MostWork
  <2> HIDE DEF p, q
  <2> QED BY <1>2, <2>1, <2>2, <2>3
<1> QED BY <1>1, <1>2

(* The steps that only pass on time or text *)
Flowing == Tick \/ ResumeStream \/ \E empty \in BOOLEAN : TextDelta(empty)

LEMMA EndAdvances ==
    ASSUME IInv, pc # "end", pc' = "end"
    PROVE  WorkLeft' < WorkLeft
<1>1. WorkLeft' = 0
  BY DEF WorkLeft
<1>2. MostWork \in Nat
  BY BoundAssumption DEF MostWork, IterationSteps
<1>3. WorkLeft \in Nat /\ WorkLeft # 0
  BY <1>2, WorkFacts
<1> QED BY <1>1, <1>3

(* Within an iteration only its own steps and the retry count. *)
LEMMA SameIteration ==
    ASSUME IInv, pc # "end", pc' # "end", iteration' = iteration,
           StepsOfIteration' \in Nat, RetrySteps' \in Nat
    PROVE  /\ StepsOfIteration' + RetrySteps' < StepsOfIteration + RetrySteps => WorkLeft' < WorkLeft
           /\ StepsOfIteration' + RetrySteps' = StepsOfIteration + RetrySteps => WorkLeft' = WorkLeft
<1> DEFINE p == (MaxIterations - iteration) * IterationSteps
<1>1. p \in Nat /\ StepsOfIteration \in Nat /\ RetrySteps \in Nat
  BY WorkParts
<1>2. WorkLeft = p + StepsOfIteration + RetrySteps
  BY DEF WorkLeft
<1>3. WorkLeft' = p + StepsOfIteration' + RetrySteps'
  BY DEF WorkLeft, IterationSteps
<1> HIDE DEF p
<1>4. \A a, b, d, e \in Nat : /\ a + b < d + e => p + a + b < p + d + e
                              /\ a + b = d + e => p + a + b = p + d + e
  BY <1>1
<1>5. PICK a \in Nat : a = StepsOfIteration'
  OBVIOUS
<1>6. PICK b \in Nat : b = RetrySteps'
  OBVIOUS
<1>7. PICK d \in Nat : d = StepsOfIteration
  BY <1>1
<1>8. PICK e \in Nat : e = RetrySteps
  BY <1>1
<1>9. /\ a + b < d + e => p + a + b < p + d + e
      /\ a + b = d + e => p + a + b = p + d + e
  BY <1>4
<1> QED BY <1>2, <1>3, <1>5, <1>6, <1>7, <1>8, <1>9

(* The end of an attempt, and its closing, grant at most the one retry. *)
LEMMA AttemptAdvances ==
    ASSUME IInv, pc \in {"opening", "waiting", "yielded"}, iteration' = iteration,
           pc' = "closing",
           \/ TimeOut
           \/ after' # "retry" /\ UNCHANGED retryUsed
    PROVE  WorkLeft' < WorkLeft
<1>1. MaxCalls \in Nat /\ RetrySteps \in {0, 3}
  BY WorkParts
<1>2. StepsOfIteration' = 4 + 2 * MaxCalls
  BY DEF StepsOfIteration
<1>3. StepsOfIteration \in {5 + 2 * MaxCalls, 6 + 2 * MaxCalls}
  BY DEF StepsOfIteration, IterationSteps
<1>4. after' = "retry" => ~retryUsed
  BY TimeOutEffect
<1>5. after' # "retry" => retryUsed' = retryUsed
  BY TimeOutEffect
<1>6. RetrySteps' = RetrySteps
  BY <1>4, <1>5 DEF RetrySteps, RetryPending, IInv, TypeOK
<1> QED BY <1>1, <1>2, <1>3, <1>6, SameIteration

(* A task of the batch that starts, or ends, is a step of the request. *)
LEMMA TaskStepAdvances ==
    ASSUME IInv, pc = "tools", pc' = "tools", iteration' = iteration, retryUsed' = retryUsed,
           NEW i \in DOMAIN batch, NEW x \in TaskStates, task' = [task EXCEPT ![i] = x],
           \/ task[i] = "not_started" /\ x # "not_started"
           \/ task[i] = "running" /\ x \notin {"not_started", "running"}
    PROVE  WorkLeft' < WorkLeft
<1>1. PICK n \in 0..MaxCalls : DOMAIN batch = 1..n /\ task \in [1..n -> TaskStates]
  BY BatchLength DEF IInv
<1>2. n \in Nat /\ task' \in [1..n -> TaskStates]
  BY <1>1, BoundAssumption
<1>3. TasksLeft(task) \in 0..(2 * n) /\ TasksLeft(task') \in 0..(2 * n)
  BY <1>1, <1>2, TasksBound
<1>4. TasksLeft(task') < TasksLeft(task)
  <2>1. TasksLeft([task EXCEPT ![i] = x]) < TasksLeft(task)
    BY <1>1, <1>2, TaskAdvances
  <2> QED BY <2>1
<1>5. StepsOfIteration = 2 + TasksLeft(task) /\ StepsOfIteration' = 2 + TasksLeft(task')
  BY DEF StepsOfIteration
<1>6. RetrySteps' = RetrySteps /\ RetrySteps \in {0, 3}
  BY DEF RetrySteps, RetryPending
<1> QED BY <1>2, <1>3, <1>4, <1>5, <1>6, SameIteration

LEMMA OwnStepsAdvance ==
    ASSUME IInv, OwnStep
    PROVE  WorkLeft' < WorkLeft
<1>1. MaxCalls \in Nat /\ MaxIterations \in Nat
  BY BoundAssumption
<1>2. CASE NextIteration
  <2>1. pc = "next"
    BY <1>2 DEF NextIteration
  <2>2. CASE pc' = "end"
    BY <2>1, <2>2, EndAdvances
  <2>3. CASE pc' # "end"
    <3>1. /\ iteration < MaxIterations /\ iteration' = iteration + 1
          /\ pc' = "opening" /\ retryUsed' = retryUsed
      BY <1>2, <2>3 DEF NextIteration, StartAttempt, Finish
    <3> DEFINE p == (MaxIterations - iteration) * IterationSteps
               r == (MaxIterations - (iteration + 1)) * IterationSteps
    <3>2. p = r + IterationSteps
      <4>1. MaxIterations - iteration = (MaxIterations - (iteration + 1)) + 1
        BY <1>1, <3>1 DEF IInv, TypeOK
      <4>2. \A x, k \in Nat : (x + 1) * k = x * k + k
        OBVIOUS
      <4>3. MaxIterations - (iteration + 1) \in Nat /\ IterationSteps \in Nat
        BY <1>1, <3>1 DEF IInv, TypeOK, IterationSteps
      <4> QED BY <4>1, <4>2, <4>3
    <3>3. p \in Nat /\ IterationSteps \in Nat /\ RetrySteps \in {0, 3} /\ StepsOfIteration = 1
      BY <2>1, WorkParts
    <3>4. WorkLeft = p + 1 + RetrySteps
      BY <2>1, <3>3 DEF WorkLeft
    <3>5. RetrySteps' = RetrySteps
      BY <2>1, <3>1 DEF RetrySteps, RetryPending
    <3>6. WorkLeft' = r + IterationSteps + RetrySteps
      <4>1. StepsOfIteration' = IterationSteps
        BY <3>1 DEF StepsOfIteration, IterationSteps
      <4> QED BY <3>1, <3>5, <4>1 DEF WorkLeft, IterationSteps
    <3> HIDE DEF p, r
    <3> QED BY <3>2, <3>3, <3>4, <3>6
  <2> QED BY <2>2, <2>3
<1>3. CASE AttemptDeadline
  BY <1>3, AttemptAdvances DEF AttemptDeadline, TimeOut, EndAttempt
<1>4. CASE CloseStream
  <2>1. pc = "closing" /\ iteration' = iteration /\ retryUsed' = retryUsed /\ after' = after
    BY <1>4 DEF CloseStream
  <2>2. CASE pc' = "end"
    BY <2>1, <2>2, EndAdvances
  <2>3. CASE pc' # "end"
    <3>1. \/ after = "retry" /\ pc' = "opening"
          \/ after = "completed" /\ pc' = "responded"
      BY <1>4, <2>3 DEF CloseStream, StartAttempt, Finish, Abort
    <3>2. StepsOfIteration = 4 + 2 * MaxCalls
      BY <2>1 DEF StepsOfIteration
    <3>3. CASE after = "retry" /\ pc' = "opening"
      <4>1. retryUsed
        BY <2>1, <3>3 DEF IInv, AttemptsCounted, RetryPending
      <4>2. RetrySteps = 3 /\ RetrySteps' = 0
        BY <2>1, <3>3, <4>1 DEF RetrySteps, RetryPending
      <4>3. StepsOfIteration' = 6 + 2 * MaxCalls
        BY <3>3 DEF StepsOfIteration, IterationSteps
      <4> QED BY <1>1, <2>1, <2>3, <3>2, <4>2, <4>3, SameIteration
    <3>4. CASE after = "completed" /\ pc' = "responded"
      <4>1. RetrySteps' = RetrySteps /\ RetrySteps \in {0, 3}
        BY <2>1, <3>4 DEF RetrySteps, RetryPending
      <4>2. StepsOfIteration' = 3 + 2 * MaxCalls
        BY <3>4 DEF StepsOfIteration
      <4> QED BY <1>1, <2>1, <2>3, <3>2, <4>1, <4>2, SameIteration
    <3> QED BY <3>1, <3>3, <3>4
  <2> QED BY <2>2, <2>3
<1>5. CASE StartBatch
  <2>1. pc = "responded" /\ iteration' = iteration /\ retryUsed' = retryUsed
    BY <1>5 DEF StartBatch, modelVars
  <2>2. CASE pc' = "end"
    BY <2>1, <2>2, EndAdvances
  <2>3. CASE pc' # "end"
    <3>1. PICK b \in Batches : pc' = "tools" /\ task' = [i \in DOMAIN b |-> "not_started"]
      BY <1>5, <2>3 DEF StartBatch, Finish
    <3>2. PICK n \in 0..MaxCalls : DOMAIN b = 1..n
      BY BoundAssumption DEF Batches
    <3>3. task' \in [1..n -> TaskStates]
      BY <3>1, <3>2 DEF TaskStates
    <3>4. TasksLeft(task') \in 0..(2 * n)
      BY <1>1, <3>2, <3>3, TasksBound
    <3>5. StepsOfIteration' = 2 + TasksLeft(task')
      BY <3>1 DEF StepsOfIteration
    <3>6. StepsOfIteration = 3 + 2 * MaxCalls
      BY <2>1 DEF StepsOfIteration
    <3>7. RetrySteps' = RetrySteps /\ RetrySteps \in {0, 3}
      BY <2>1, <3>1 DEF RetrySteps, RetryPending
    <3> QED BY <1>1, <2>1, <2>3, <3>2, <3>4, <3>5, <3>6, <3>7, SameIteration
  <2> QED BY <2>2, <2>3
<1>6. CASE Answer
  <2>1. pc = "responded" /\ iteration' = iteration /\ retryUsed' = retryUsed
    BY <1>6 DEF Answer, modelVars
  <2>2. CASE pc' = "end"
    BY <2>1, <2>2, EndAdvances
  <2>3. CASE pc' # "end"
    <3>1. pc' = "final"
      BY <1>6, <2>3 DEF Answer, Finish
    <3>2. RetrySteps' = RetrySteps /\ RetrySteps \in {0, 3}
      BY <2>1, <3>1 DEF RetrySteps, RetryPending
    <3>3. StepsOfIteration' = 1 /\ StepsOfIteration = 3 + 2 * MaxCalls
      BY <2>1, <3>1 DEF StepsOfIteration
    <3> QED BY <1>1, <2>1, <2>3, <3>2, <3>3, SameIteration
  <2> QED BY <2>2, <2>3
<1>7. ASSUME NEW i \in DOMAIN batch, StartTask(i) PROVE WorkLeft' < WorkLeft
  <2>1. pc = "tools" /\ iteration' = iteration /\ retryUsed' = retryUsed /\ task[i] = "not_started"
    BY <1>7 DEF StartTask, modelVars
  <2>2. CASE pc' = "end"
    BY <2>1, <2>2, EndAdvances
  <2>3. CASE pc' # "end"
    <3>1. PICK x \in {"error", "reused", "running"} : pc' = "tools" /\ task' = [task EXCEPT ![i] = x]
      BY <1>7, <2>1, <2>3 DEF StartTask, Finish
    <3> QED BY <2>1, <3>1, TaskStepAdvances DEF TaskStates
  <2> QED BY <2>2, <2>3
<1>8. CASE ToolsDeadline
  BY <1>8, EndAdvances DEF ToolsDeadline, Finish
<1>9. CASE EndBatch
  <2>1. /\ pc = "tools" /\ pc' = "next" /\ iteration' = iteration /\ retryUsed' = retryUsed
    BY <1>9 DEF EndBatch, modelVars
  <2>2. PICK n \in 0..MaxCalls : task \in [1..n -> TaskStates]
    BY BatchLength DEF IInv
  <2>3. TasksLeft(task) \in 0..(2 * n)
    BY <1>1, <2>2, TasksBound
  <2>4. StepsOfIteration = 2 + TasksLeft(task) /\ StepsOfIteration' = 1
    BY <2>1 DEF StepsOfIteration
  <2>5. RetrySteps' = RetrySteps /\ RetrySteps \in {0, 3}
    BY <2>1 DEF RetrySteps, RetryPending
  <2> QED BY <1>1, <2>1, <2>2, <2>3, <2>4, <2>5, SameIteration
<1> QED BY <1>2, <1>3, <1>4, <1>5, <1>6, <1>7, <1>8, <1>9 DEF OwnStep

LEMMA OutsideStepsAdvance ==
    ASSUME IInv, OutsideStep, \A empty \in BOOLEAN : ~TextDelta(empty)
    PROVE  WorkLeft' < WorkLeft
<1>1. MaxCalls \in Nat
  BY BoundAssumption
<1>2. CASE ModelResponds
  <2>1. pc = "opening" /\ iteration' = iteration
    BY <1>2 DEF ModelResponds
  <2>2. CASE pc' = "closing"
    BY <1>2, <2>1, <2>2, AttemptAdvances DEF ModelResponds, EndAttempt, Fail
  <2>3. CASE pc' # "closing"
    <3>1. pc' = "waiting" /\ retryUsed' = retryUsed
      BY <1>2, <2>3 DEF ModelResponds, TimeOut, Fail, EndAttempt
    <3>2. RetrySteps' = RetrySteps /\ RetrySteps \in {0, 3}
      BY <2>1, <3>1 DEF RetrySteps, RetryPending
    <3>3. StepsOfIteration = 6 + 2 * MaxCalls /\ StepsOfIteration' = 5 + 2 * MaxCalls
      BY <2>1, <3>1 DEF StepsOfIteration, IterationSteps
    <3> QED BY <1>1, <2>1, <3>1, <3>2, <3>3, SameIteration
  <2> QED BY <2>2, <2>3
<1>3. CASE ModelFails
  BY <1>3, AttemptAdvances DEF ModelFails, TimeOut, Fail, EndAttempt
<1>4. CASE StreamEvent
  BY <1>4, AttemptAdvances DEF StreamEvent, TimeOut, EndAttempt
<1>5. CASE CloseFails
  BY <1>5, EndAdvances DEF CloseFails, Abort, Finish
<1>6. ASSUME NEW i \in DOMAIN batch, EndTask(i) PROVE WorkLeft' < WorkLeft
  <2>1. PICK x \in {"completed", "error"} : task' = [task EXCEPT ![i] = x]
    BY <1>6 DEF EndTask
  <2>2. /\ pc = "tools" /\ pc' = "tools" /\ iteration' = iteration
        /\ retryUsed' = retryUsed /\ task[i] = "running"
    BY <1>6 DEF EndTask, modelVars
  <2> QED BY <2>1, <2>2, TaskStepAdvances DEF TaskStates
<1>7. CASE Disconnect
  <2>1. CASE pc' = "end"
    BY <1>7, <2>1, EndAdvances DEF Disconnect
  <2>2. CASE pc' # "end"
    <3>1. /\ pc \in {"opening", "waiting", "yielded"} /\ pc' = "closing"
          /\ iteration' = iteration /\ after' = "abandoned" /\ retryUsed' = retryUsed
      BY <1>7, <2>2 DEF Disconnect, EndAttempt, Abort
    <3> QED BY <3>1, AttemptAdvances
  <2> QED BY <2>1, <2>2
<1> QED BY <1>2, <1>3, <1>4, <1>5, <1>6, <1>7 DEF OutsideStep

(* Time and text leave the rest of the work as it is; a stream whose time  *)
(* is up when the client reads on ends its attempt.                        *)
LEMMA FlowAdvances ==
    ASSUME IInv, Flowing
    PROVE  WorkLeft' < WorkLeft \/ WorkLeft' = WorkLeft
<1>1. MaxCalls \in Nat
  BY BoundAssumption
<1>2. CASE Tick
  BY <1>2 DEF Tick, modelVars, toolVars, WorkLeft, StepsOfIteration, RetrySteps,
      RetryPending, IterationSteps
<1>3. ASSUME pc = "yielded" \/ pc = "waiting", pc' = "yielded" \/ pc' = "waiting",
             iteration' = iteration, retryUsed' = retryUsed
      PROVE  WorkLeft' = WorkLeft
  <2>1. StepsOfIteration = 5 + 2 * MaxCalls /\ StepsOfIteration' = 5 + 2 * MaxCalls
    BY <1>3 DEF StepsOfIteration
  <2>2. RetrySteps' = RetrySteps /\ RetrySteps \in {0, 3}
    BY <1>3 DEF RetrySteps, RetryPending
  <2> QED BY <1>1, <1>3, <2>1, <2>2, SameIteration
<1>4. CASE ResumeStream
  <2>1. CASE pc' = "closing"
    BY <1>4, <2>1, AttemptAdvances DEF ResumeStream
  <2>2. CASE pc' # "closing"
    BY <1>3, <1>4, <2>2 DEF ResumeStream, TimeOut, EndAttempt
  <2> QED BY <2>1, <2>2
<1>5. ASSUME NEW empty \in BOOLEAN, TextDelta(empty) PROVE WorkLeft' = WorkLeft
  BY <1>3, <1>5 DEF TextDelta, modelVars
<1> QED BY <1>2, <1>4, <1>5 DEF Flowing

(* A request is finite work: whatever the model, the tools, the client and *)
(* the clock do, each step of it that is more than the passing on of time  *)
(* or text uses up one of a number of steps fixed by max_tool_iterations   *)
(* and the calls of one response; no step brings any back.                 *)
THEOREM RequestIsFiniteWork ==
    Spec => /\ [](WorkLeft \in 0..MostWork /\ (WorkLeft = 0 <=> pc = "end"))
            /\ [][/\ WorkLeft' <= WorkLeft
                  /\ Flowing \/ WorkLeft' < WorkLeft]_vars
<1>1. IInv => WorkLeft \in 0..MostWork /\ (WorkLeft = 0 <=> pc = "end")
  BY WorkFacts
<1>2. IInv' => (WorkLeft \in 0..MostWork /\ (WorkLeft = 0 <=> pc = "end"))'
  BY <1>1, PTL
<1>3. IInv /\ [Next]_vars =>
        [WorkLeft' <= WorkLeft /\ (Flowing \/ WorkLeft' < WorkLeft)]_vars
  <2> SUFFICES ASSUME IInv, Next
               PROVE  WorkLeft' <= WorkLeft /\ (Flowing \/ WorkLeft' < WorkLeft)
    OBVIOUS
  <2>1. WorkLeft \in Nat /\ WorkLeft' \in Nat
    <3>1. IInv'
      BY StepIInv
    <3>2. MostWork \in Nat
      BY BoundAssumption DEF MostWork, IterationSteps
    <3> QED BY <1>1, <1>2, <3>1, <3>2 DEF MostWork, IterationSteps
  <2>2. CASE Flowing
    BY <2>1, <2>2, FlowAdvances
  <2>3. CASE FinalChunk
    BY <2>1, <2>3, EndAdvances DEF FinalChunk, Finish
  <2>4. CASE OwnStep \/ OutsideStep
    BY <2>1, <2>2, <2>4, OwnStepsAdvance, OutsideStepsAdvance DEF Flowing
  <2> QED BY <2>2, <2>3, <2>4 DEF Next, ClientStep, Flowing
<1> QED BY <1>1, <1>3, Invariance, PTL DEF Spec
=============================================================================
