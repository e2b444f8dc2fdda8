----------------------------- MODULE ChatRequest -----------------------------
(***************************************************************************)
(* One chat request of MCP Orchestrator: the tool-calling loop of          *)
(* LLMClient.chat_stream_ollama (Streaming) or LLMClient.chat, the model   *)
(* attempts of RequestBudget.events or .response with their timeouts and   *)
(* the single retry, and the concurrent tool tasks of _execute_tool_calls. *)
(*                                                                         *)
(* asyncio code runs without interruption between awaits, so an action is  *)
(* the code from one await (or yield to the client) to the next.  Time may *)
(* pass anywhere; it is counted up to the request's deadline.              *)
(***************************************************************************)
EXTENDS Naturals, Sequences

CONSTANTS
    MaxIterations,   \* MAX_TOOL_ITERATIONS (10 by default)
    LLMTimeout,      \* llm_seconds, one model attempt
    RequestTimeout,  \* request_seconds, the whole request
    Actions,         \* tool calls that change something, name and arguments
    Reads,           \* calls of the four read-only tools
    Refused,         \* calls refused before dispatch: unknown tool, bad arguments
    MaxCalls,        \* bound: tool calls in one model response
    MaxDeltas        \* bound: text deltas in the whole request

Calls == Actions \cup Reads \cup Refused

ASSUME TimeAssumption == /\ LLMTimeout \in Nat \ {0}
                         /\ RequestTimeout \in Nat \ {0}
ASSUME BoundAssumption == MaxIterations \in Nat /\ MaxCalls \in Nat /\ MaxDeltas \in Nat
ASSUME CallAssumption == /\ Actions \cap Reads = {}
                         /\ (Actions \cup Reads) \cap Refused = {}

VARIABLES
    endpoint,   \* request.stream: which of the two loops serves the request
    now,        \* time since started_at, RequestTimeout once that is reached
    pc,         \* the await or yield the request is at
    after,      \* how the attempt ended: what follows the closing of its stream
    iteration,  \* the loop's iterations so far
    number,     \* the attempt of this iteration (events' or response's number)
    due,        \* the attempt's deadline
    open,       \* an event stream of the model is open
    retryUsed,  \* budget.retry_used
    speech,     \* budget.speech_started
    attempts,   \* length of budget.attempts
    sawDelta,   \* content_parts of this iteration is not empty
    deltas,     \* text deltas so far
    spoken,     \* history: the <<iteration, number>> whose text was delivered
    batch,      \* the tool calls of the model's last response
    task,       \* task[i]: the status record of batch[i]
    results,    \* domain of budget.action_results
    dispatched, \* history: <<call, iteration>> handed to call_tool
    stats,      \* stats.record calls of this request
    replies,    \* final replies: done chunks, or the response of chat
    outcome     \* how the request ended

modelVars == <<after, number, due, open, retryUsed, attempts>>
textVars == <<speech, sawDelta, deltas, spoken>>
toolVars == <<batch, task, results, dispatched>>
endVars == <<stats, replies, outcome>>
vars == <<endpoint, now, pc, iteration, modelVars, textVars, toolVars, endVars>>

(* chat_stream_ollama, otherwise chat *)
Streaming == endpoint = "stream"

Steps == {"next", "opening", "waiting", "yielded", "closing", "responded",
          "tools", "final", "end"}
Endings == {"none", "retry", "timeout", "error", "completed", "abandoned"}
TaskStates == {"not_started", "running", "completed", "error", "reused", "cancelled"}
Outcomes == {"none", "answered", "timeout", "model_error", "max_iterations",
             "raised", "abandoned"}
Batches == UNION {[1..n -> Calls] : n \in 0..MaxCalls}

TypeOK ==
    /\ endpoint \in {"stream", "chat"}
    /\ now \in 0..RequestTimeout
    /\ pc \in Steps
    /\ after \in Endings
    /\ iteration \in 0..MaxIterations
    /\ number \in 0..2
    /\ due \in 0..RequestTimeout
    /\ open \in BOOLEAN
    /\ retryUsed \in BOOLEAN
    /\ speech \in BOOLEAN
    /\ attempts \in Nat
    /\ sawDelta \in BOOLEAN
    /\ deltas \in 0..MaxDeltas
    /\ spoken \in SUBSET ((1..MaxIterations) \X (1..2))
    /\ batch \in Batches
    /\ task \in [DOMAIN batch -> TaskStates]
    /\ results \in SUBSET Actions
    /\ dispatched \in SUBSET ((Actions \cup Reads) \X (1..MaxIterations))
    /\ stats \in 0..1
    /\ replies \in 0..1
    /\ outcome \in Outcomes

Init ==
    /\ endpoint \in {"stream", "chat"}
    /\ now = 0 /\ pc = "next" /\ after = "none"
    /\ iteration = 0 /\ number = 0 /\ due = 0
    /\ open = FALSE /\ retryUsed = FALSE /\ speech = FALSE
    /\ attempts = 0 /\ sawDelta = FALSE /\ deltas = 0 /\ spoken = {}
    /\ batch = <<>> /\ task = <<>> /\ results = {} /\ dispatched = {}
    /\ stats = 0 /\ replies = 0 /\ outcome = "none"

Min2(a, b) == IF a < b THEN a ELSE b

(* budget.check: the request is past its deadline *)
Expired == now >= RequestTimeout

(* _check_attempt_deadline, and the moment asyncio.timeout_at fires *)
AttemptExpired == now >= due

-----------------------------------------------------------------------------
(* The end of a request. *)

(* The request ends with one reply, after stats.record and the log record *)
Finish(how) ==
    /\ pc' = "end"
    /\ outcome' = how
    /\ stats' = stats + 1
    /\ replies' = replies + 1

(* chat lets a model error through to the HTTP server; a client that left  *)
(* is owed nothing.  Neither reaches stats.record.                         *)
Abort(how) ==
    /\ pc' = "end"
    /\ outcome' = how
    /\ UNCHANGED <<stats, replies>>

-----------------------------------------------------------------------------
(* Model attempts: RequestBudget.events and .response. *)

StartAttemptUnchecked(n) ==
    /\ pc' = "opening"
    /\ number' = n
    /\ due' = now + LLMTimeout
    /\ attempts' = attempts + 1
    /\ UNCHANGED endVars

(* _start_attempt: past the deadline the request times out instead *)
StartAttempt(n) ==
    IF Expired
    THEN Finish("timeout") /\ UNCHANGED <<number, due, attempts>>
    ELSE /\ pc' = "opening"
         /\ number' = n
         /\ due' = Min2(RequestTimeout, now + LLMTimeout)
         /\ attempts' = attempts + 1
         /\ UNCHANGED endVars

(* The attempt is over; its finally clause closes the stream first *)
EndAttempt(how) ==
    /\ pc' = "closing"
    /\ after' = how
    /\ UNCHANGED <<number, due, attempts>>

TimeOutAgain ==
    LET retry == ~speech /\ ~Expired IN
    /\ EndAttempt(IF retry THEN "retry" ELSE "timeout")
    /\ retryUsed' = (retryUsed \/ retry)

TimeOutWhileSpeaking ==
    LET retry == ~retryUsed /\ ~Expired IN
    /\ EndAttempt(IF retry THEN "retry" ELSE "timeout")
    /\ retryUsed' = (retryUsed \/ retry)

(* except (TimeoutError, APITimeoutError): _retry_timeout grants one retry *)
(* per request, before any speech and before the deadline                  *)
TimeOut ==
    LET retry == ~retryUsed /\ ~speech /\ ~Expired IN
    /\ EndAttempt(IF retry THEN "retry" ELSE "timeout")
    /\ retryUsed' = (retryUsed \/ retry)

(* except Exception (and the end of the stream without a completed         *)
(* response): a failed retry counts as a timeout                           *)
Fail ==
    /\ EndAttempt(IF number > 1 THEN "timeout" ELSE "error")
    /\ UNCHANGED retryUsed

(* for iteration in range(max_iterations) *)
NextIteration ==
    /\ pc = "next"
    /\ IF iteration < MaxIterations
       THEN /\ iteration' = iteration + 1
            /\ sawDelta' = FALSE
            /\ StartAttempt(1)
       ELSE /\ Finish("max_iterations")
            /\ UNCHANGED <<iteration, sawDelta, number, due, attempts>>
    /\ UNCHANGED <<now, after, open, retryUsed, speech, deltas, spoken, toolVars>>

(* responses.create returns: the event stream, or the response itself,     *)
(* whose status may be other than "completed".  Either is dropped if the   *)
(* attempt's time is up when the request runs again.                       *)
ModelResponds ==
    /\ pc = "opening"
    /\ open' = Streaming
    /\ IF AttemptExpired THEN TimeOut
       ELSE IF Streaming
       THEN pc' = "waiting" /\ UNCHANGED <<after, number, due, attempts, retryUsed>>
       ELSE \/ EndAttempt("completed") /\ UNCHANGED retryUsed
            \/ Fail
    /\ UNCHANGED <<now, iteration, textVars, toolVars, endVars>>

AttemptDeadlineOpening ==
    /\ pc = "opening"
    /\ AttemptExpired
    /\ TimeOut
    /\ UNCHANGED <<now, iteration, open, textVars, toolVars, endVars>>

(* asyncio.timeout_at fires in responses.create or in anext(iterator) *)
AttemptDeadline ==
    /\ pc \in {"opening", "waiting"}
    /\ AttemptExpired
    /\ TimeOut
    /\ UNCHANGED <<now, iteration, open, textVars, toolVars, endVars>>

(* The SDK reports a timeout of its own, or any other error; a stream may  *)
(* fail, or end without a completed response                               *)
ModelFails ==
    /\ pc \in {"opening", "waiting"}
    /\ TimeOut \/ Fail
    /\ UNCHANGED <<now, iteration, open, textVars, toolVars, endVars>>

(* An event with text: it is yielded to the client at once.  An empty      *)
(* delta is forwarded too, but is not speech.                              *)
TextDelta(empty) ==
    /\ pc = "waiting" /\ Streaming /\ ~AttemptExpired
    /\ deltas < MaxDeltas
    /\ deltas' = deltas + 1
    /\ sawDelta' = TRUE
    /\ speech' = (speech \/ ~empty)
    /\ spoken' = IF empty THEN spoken ELSE spoken \cup {<<iteration, number>>}
    /\ pc' = "yielded"
    /\ UNCHANGED <<now, iteration, modelVars, toolVars, endVars>>

(* The client has taken the chunk: check the attempt's time, wait for more *)
ResumeStream ==
    /\ pc = "yielded"
    /\ IF AttemptExpired THEN TimeOut
       ELSE pc' = "waiting" /\ UNCHANGED <<after, number, due, attempts, retryUsed>>
    /\ UNCHANGED <<now, iteration, open, textVars, toolVars, endVars>>

(* Another event arrives when the attempt's time is up, or the completed   *)
(* response in time                                                        *)
StreamEvent ==
    /\ pc = "waiting"
    /\ IF AttemptExpired THEN TimeOut
       ELSE EndAttempt("completed") /\ UNCHANGED retryUsed
    /\ UNCHANGED <<now, iteration, open, textVars, toolVars, endVars>>

(* stream.close() has returned (or there was no stream): go on with what   *)
(* the attempt came to                                                     *)
CloseStream ==
    /\ pc = "closing"
    /\ open' = FALSE
    /\ \/ after = "retry" /\ StartAttempt(number + 1)
       \/ /\ UNCHANGED <<number, due, attempts>>
          /\ \/ after = "timeout" /\ Finish("timeout")
             \/ after = "error" /\ Streaming /\ Finish("model_error")
             \/ after = "error" /\ ~Streaming /\ Abort("raised")
             \/ after = "completed" /\ pc' = "responded" /\ UNCHANGED endVars
             \/ after = "abandoned" /\ Abort("abandoned")
    /\ UNCHANGED <<now, after, iteration, retryUsed, textVars, toolVars>>

(* stream.close() raises: whatever the attempt came to, the exception      *)
(* leaves events and is a model error for chat_stream_ollama               *)
CloseFails ==
    /\ pc = "closing" /\ open
    /\ open' = FALSE
    /\ IF after = "abandoned" THEN Abort("abandoned") ELSE Finish("model_error")
    /\ UNCHANGED <<now, after, iteration, number, due, retryUsed, attempts, textVars, toolVars>>

-----------------------------------------------------------------------------
(* The model's response and its tool calls. *)

(* A response with tool calls: _execute_tool_calls checks the budget and   *)
(* creates one task per call.                                              *)
StartBatch ==
    /\ pc = "responded"
    /\ \E b \in Batches \ {<<>>} :
          IF Expired
          THEN Finish("timeout") /\ UNCHANGED toolVars
          ELSE /\ pc' = "tools"
               /\ batch' = b
               /\ task' = [i \in DOMAIN b |-> "not_started"]
               /\ UNCHANGED <<results, dispatched, endVars>>
    /\ UNCHANGED <<now, iteration, modelVars, textVars>>

(* A response without tool calls ends the request.  Its text is yielded    *)
(* first if this iteration has streamed none.                              *)
Answer ==
    /\ pc = "responded"
    /\ \/ Finish("answered")
       \/ Streaming /\ ~sawDelta /\ pc' = "final" /\ UNCHANGED endVars
    /\ UNCHANGED <<now, iteration, modelVars, textVars, toolVars>>

(* The client has taken the whole text as one chunk *)
FinalChunk ==
    /\ pc = "final"
    /\ Finish("answered")
    /\ UNCHANGED <<now, iteration, modelVars, textVars, toolVars>>

(* asyncio.gather raises or is cancelled: the finally clause cancels every *)
(* task that is not done and waits for it.                                 *)
Cancelled == [i \in DOMAIN batch |-> IF task[i] = "running" THEN "cancelled" ELSE task[i]]

ReusesResult(call) == retryUsed /\ call \in Actions /\ call \in results

(* The first slice of execute(call, record), up to the await of call_tool. *)
(* Tasks start in the order of their creation.                             *)
StartTask(i) ==
    /\ pc = "tools" /\ task[i] = "not_started"
    /\ \A j \in 1..(i - 1) : task[j] # "not_started"
    /\ IF Expired
       THEN /\ Finish("timeout")
            /\ task' = Cancelled
            /\ UNCHANGED dispatched
       ELSE /\ task' = [task EXCEPT ![i] =
                  IF batch[i] \in Refused THEN "error"
                  ELSE IF ReusesResult(batch[i]) THEN "reused" ELSE "running"]
            /\ dispatched' = IF task'[i] = "running"
                             THEN dispatched \cup {<<batch[i], iteration>>}
                             ELSE dispatched
            /\ UNCHANGED <<pc, endVars>>
    /\ UNCHANGED <<now, iteration, modelVars, textVars, batch, results>>

EndTaskUnlessError(i) ==
    /\ pc = "tools" /\ task[i] = "running"
    /\ \/ task' = [task EXCEPT ![i] = "completed"] /\ results' = results \cup ({batch[i]} \cap Actions)
       \/ task' = [task EXCEPT ![i] = "error"] /\ UNCHANGED results
    /\ UNCHANGED <<now, pc, iteration, modelVars, textVars, batch, dispatched, endVars>>

(* call_tool returns or raises; an action's outcome is recorded either way *)
EndTask(i) ==
    /\ pc = "tools" /\ task[i] = "running"
    /\ \E how \in {"completed", "error"} : task' = [task EXCEPT ![i] = how]
    /\ results' = results \cup ({batch[i]} \cap Actions)
    /\ UNCHANGED <<now, pc, iteration, modelVars, textVars, batch, dispatched, endVars>>

ToolsDeadlineOrphans ==
    /\ pc = "tools" /\ Expired
    /\ \E i \in DOMAIN batch : task[i] \in {"not_started", "running"}
    /\ Finish("timeout")
    /\ UNCHANGED <<now, iteration, modelVars, textVars, toolVars>>

(* asyncio.timeout_at(budget.deadline) fires while tasks are unfinished *)
ToolsDeadline ==
    /\ pc = "tools" /\ Expired
    /\ \E i \in DOMAIN batch : task[i] \in {"not_started", "running"}
    /\ Finish("timeout")
    /\ task' = Cancelled
    /\ UNCHANGED <<now, iteration, modelVars, textVars, batch, results, dispatched>>

(* All tasks are done: their outputs join the input of the next iteration *)
EndBatch ==
    /\ pc = "tools"
    /\ \A i \in DOMAIN batch : task[i] \in {"completed", "error", "reused"}
    /\ pc' = "next"
    /\ batch' = <<>> /\ task' = <<>>
    /\ UNCHANGED <<now, iteration, modelVars, textVars, results, dispatched, endVars>>

-----------------------------------------------------------------------------
(* The client goes away: the generator is closed at a yield or cancelled   *)
(* at an await, and its finally clauses run.                               *)
Disconnect ==
    /\ Streaming
    /\ \/ /\ pc \in {"opening", "waiting", "yielded"}
          /\ EndAttempt("abandoned")
          /\ UNCHANGED <<open, retryUsed, task, endVars>>
       \/ /\ pc \in {"tools", "final"}
          /\ Abort("abandoned")
          /\ task' = Cancelled
          /\ UNCHANGED modelVars
    /\ UNCHANGED <<now, iteration, textVars, batch, results, dispatched>>

Tick ==
    /\ now < RequestTimeout /\ pc # "end"
    /\ now' = now + 1
    /\ UNCHANGED <<pc, iteration, modelVars, textVars, toolVars, endVars>>

(* Steps of the program that wait for nobody but its own timers *)
OwnStep ==
    \/ NextIteration \/ AttemptDeadline \/ CloseStream
    \/ StartBatch \/ Answer
    \/ (\E i \in DOMAIN batch : StartTask(i))
    \/ ToolsDeadline \/ EndBatch

(* Steps that the client takes by reading on *)
ClientStep == ResumeStream \/ FinalChunk

(* Steps that the model, its transport or a tool server take or not *)
OutsideStep ==
    \/ ModelResponds \/ ModelFails \/ StreamEvent
    \/ (\E empty \in BOOLEAN : TextDelta(empty))
    \/ CloseFails
    \/ (\E i \in DOMAIN batch : EndTask(i))
    \/ Disconnect

Next ==
    /\ OwnStep \/ ClientStep \/ OutsideStep \/ Tick
    /\ UNCHANGED endpoint

Spec == Init /\ [][Next]_vars

(* Time passes, the event loop runs what is ready (closing a stream needs  *)
(* no answer from the model), and a connected client reads.  Nothing is    *)
(* assumed of the model or of the tools.                                   *)
FairSpec ==
    /\ Spec
    /\ WF_vars(Tick /\ UNCHANGED endpoint)
    /\ WF_vars(OwnStep /\ UNCHANGED endpoint)
    /\ WF_vars(ClientStep /\ UNCHANGED endpoint)

-----------------------------------------------------------------------------
(* "One timed-out model step may be retried per request": the model is     *)
(* asked once per iteration, and once more after the one retry.            *)
AttemptsBounded == attempts <= iteration + (IF retryUsed THEN 1 ELSE 0)

(* "... provided no answer text has been streamed": the text spoken in one *)
(* iteration comes from one attempt, so no half-spoken answer is followed  *)
(* by a second version of it.                                              *)
OneVoice == \A a, b \in spoken : a[1] = b[1] => a = b

(* "Identical previously dispatched actions reuse their recorded result or *)
(* error": after a retry no action of an earlier batch runs again.         *)
NoRepeatAfterRetry ==
    [][\A a \in Actions, k \in 1..MaxIterations :
          /\ retryUsed
          /\ <<a, k>> \in dispatched' \ dispatched
          => \A j \in 1..(k - 1) : <<a, j>> \notin dispatched]_vars

(* Past request_timeout_seconds no model attempt starts and no tool runs.  *)
NothingStartsLate ==
    [][Expired => attempts' = attempts /\ dispatched' = dispatched]_vars

(* Whichever way the request ends, it leaves no tool task running and no   *)
(* stream open, and one statistics record stands for one delivered reply,  *)
(* none for a request that broke off.                                      *)
CleanEnd ==
    pc = "end" =>
        /\ ~open
        /\ \A i \in DOMAIN batch : task[i] # "running"
        /\ stats = replies
        /\ (replies = 0) = (outcome \in {"raised", "abandoned"})

(* Every request ends, though model and tools may never answer. *)
RequestEnds == <>(pc = "end")
=============================================================================
