--------------------------- MODULE AudioPowersave ---------------------------
(* The audio-powersave add-on (src/audio-powersave/run.rb).                *)
(*                                                                         *)
(* One thread reads PulseAudio events and counts the sink inputs.  A new   *)
(* sink input cancels the delayed switch-off and switches the amplifier on *)
(* with an HTTP call; the removal of the last one schedules a switch-off   *)
(* that a thread of a pool executes when the timeout has passed.  Both     *)
(* threads call switch, which compares @state before the call and sets it  *)
(* after, with no lock.                                                    *)
(*                                                                         *)
(* A call takes effect (Apply) and returns (Reply) in two steps, and may   *)
(* fail before or after it took effect.  Sink inputs are model values, and *)
(* the timeout has no length: a pending task may start at any time.        *)
EXTENDS Naturals, Sequences

CONSTANTS
  Sinks,      \* sink inputs PulseAudio may announce
  MaxEvents,  \* bound on the events of a behaviour
  MaxFaults   \* bound on the failed HTTP calls

ASSUME BoundsAssumption == MaxEvents \in Nat /\ MaxFaults \in Nat

VARIABLES
  playing,   \* sink inputs that exist in PulseAudio
  emitted,   \* number of events so far
  events,    \* the pipe from pactl: events not read yet
  sinks,     \* @sinks
  main,      \* what the event loop does
  schedule,  \* @schedule: the last scheduled task, 0 for nil
  task,      \* state of every ScheduledTask
  post,      \* the HTTP call of every thread
  state,     \* @state
  amp,       \* the amplifier, as Home Assistant has switched it
  faults,    \* failed HTTP calls
  raced      \* history: a switch-off was under way when audio started

vars == <<playing, emitted, events, sinks, main, schedule, task, post, state,
          amp, faults, raced>>

Tasks == 1..MaxEvents       \* at most one task for every removal
Threads == {0} \cup Tasks   \* 0 is the event loop

Event == [kind: {"new", "remove"}, sink: Sinks]

(* An amplifier in either position, and no sink input known: pactl reports *)
(* changes only, so those that exist at the start are not announced.       *)
Init == /\ playing \in SUBSET Sinks
        /\ amp \in {"on", "off"}
        /\ emitted = 0
        /\ events = <<>>
        /\ sinks = {}
        /\ main = "reading"
        /\ schedule = 0
        /\ task = [t \in Tasks |-> "unused"]
        /\ post = [t \in Threads |-> "none"]
        /\ state = "nil"
        /\ faults = 0
        /\ raced = FALSE

Pending(t) == t # 0 /\ task[t] = "pending"
Running == {t \in Tasks : task[t] = "running"}

(* Sink inputs come and go in PulseAudio while the event loop is busy.     *)
AudioStarts(s) ==
  /\ s \notin playing
  /\ emitted < MaxEvents
  /\ playing' = playing \cup {s}
  /\ emitted' = emitted + 1
  /\ events' = Append(events, [kind |-> "new", sink |-> s])
  /\ UNCHANGED <<sinks, main, schedule, task, post, state, amp, faults, raced>>

AudioStops(s) ==
  /\ s \in playing
  /\ emitted < MaxEvents
  /\ playing' = playing \ {s}
  /\ emitted' = emitted + 1
  /\ events' = Append(events, [kind |-> "remove", sink |-> s])
  /\ UNCHANGED <<sinks, main, schedule, task, post, state, amp, faults, raced>>

(* The loop reads a new sink input; the schedule is not cancelled yet.     *)
HearNew ==
  /\ main = "reading"
  /\ events # <<>>
  /\ Head(events).kind = "new"
  /\ sinks' = sinks \cup {Head(events).sink}
  /\ events' = Tail(events)
  /\ main' = "cancelling"
  /\ raced' = (raced \/ Running # {})
  /\ UNCHANGED <<playing, emitted, schedule, task, post, state, amp, faults>>

(* turn_on: cancel has an effect on a pending task only; then switch('on'),*)
(* which returns at once when @state is 'on' already.                      *)
\* Mutant: cancel would stop a task that is already running.
CancelRunning ==
  task' = IF schedule # 0 THEN [task EXCEPT ![schedule] = "cancelled"] ELSE task

\* Mutant: turn_on does not cancel.
CancelNothing == UNCHANGED task

CancelSchedule ==
  task' = IF Pending(schedule) THEN [task EXCEPT ![schedule] = "cancelled"] ELSE task

TurnOn ==
  /\ main = "cancelling"
  /\ CancelSchedule
  /\ IF state = "on"
     THEN main' = "reading" /\ UNCHANGED post
     ELSE main' = "switching" /\ post' = [post EXCEPT ![0] = "sent"]
  /\ UNCHANGED <<playing, emitted, events, sinks, schedule, state, amp, faults, raced>>

(* A removal, with cleanup: nothing while sink inputs are left or a task   *)
(* is pending, else a new task.                                            *)
\* Mutant: cleanup forgets the pending task and schedules another one.
IdleAgain(rest) == rest = {}

Idle(rest) == rest = {} /\ ~Pending(schedule)

HearRemove ==
  /\ main = "reading"
  /\ events # <<>>
  /\ Head(events).kind = "remove"
  /\ sinks' = sinks \ {Head(events).sink}
  /\ events' = Tail(events)
  /\ IF Idle(sinks')
     THEN /\ schedule' = schedule + 1
          /\ task' = [task EXCEPT ![schedule + 1] = "pending"]
     ELSE UNCHANGED <<schedule, task>>
  /\ UNCHANGED <<playing, emitted, main, post, state, amp, faults, raced>>

(* The timeout of a task has passed and the pool starts it: from here on   *)
(* cancel has no effect.                                                   *)
Fire(t) ==
  /\ main # "exited"
  /\ task[t] = "pending"
  /\ task' = [task EXCEPT ![t] = "running"]
  /\ raced' = (raced \/ main # "reading")
  /\ UNCHANGED <<playing, emitted, events, sinks, main, schedule, post, state, amp, faults>>

(* switch('off') of a task: the comparison with @state, then the call.     *)
SwitchOff(t) ==
  /\ main # "exited"
  /\ task[t] = "running"
  /\ post[t] = "none"
  /\ IF state = "off"
     THEN task' = [task EXCEPT ![t] = "done"] /\ UNCHANGED post
     ELSE post' = [post EXCEPT ![t] = "sent"] /\ UNCHANGED task
  /\ UNCHANGED <<playing, emitted, events, sinks, main, schedule, state, amp, faults, raced>>

Wanted(t) == IF t = 0 THEN "on" ELSE "off"

(* The end of switch, with or without an error: the thread goes on.        *)
EndSwitch(t) ==
  /\ main # "exited"
  /\ post' = [post EXCEPT ![t] = "none"]
  /\ main' = IF t = 0 THEN "reading" ELSE main
  /\ task' = IF t = 0 THEN task ELSE [task EXCEPT ![t] = "done"]

(* Home Assistant carries the call out, also when its sender has died.     *)
Apply(t) ==
  /\ post[t] = "sent"
  /\ post' = [post EXCEPT ![t] = "applied"]
  /\ amp' = Wanted(t)
  /\ UNCHANGED <<playing, emitted, events, sinks, main, schedule, task, state, faults, raced>>

(* A successful answer: @state is what the thread asked for, whatever the  *)
(* other threads have asked for in the meantime.                           *)
Reply(t) ==
  /\ post[t] = "applied"
  /\ state' = Wanted(t)
  /\ EndSwitch(t)
  /\ UNCHANGED <<playing, emitted, events, sinks, schedule, amp, faults, raced>>

(* The call fails before or after it took effect; the error is logged.     *)
PostFails(t) ==
  /\ faults < MaxFaults
  /\ post[t] \in {"sent", "applied"}
  /\ faults' = faults + 1
  /\ EndSwitch(t)
  /\ UNCHANGED <<playing, emitted, events, sinks, schedule, state, amp, raced>>

(* pactl ends or the add-on is stopped, also in the middle of turn_on: the *)
(* process and its threads end, and a call that was sent may be applied.   *)
SubscriptionEnds ==
  /\ main # "exited"
  /\ main' = "exited"
  /\ UNCHANGED <<playing, emitted, events, sinks, schedule, task, post, state,
                 amp, faults, raced>>

Next ==
  \/ \E s \in Sinks : AudioStarts(s) \/ AudioStops(s)
  \/ HearNew \/ TurnOn \/ HearRemove \/ SubscriptionEnds
  \/ \E t \in Tasks : Fire(t) \/ SwitchOff(t)
  \/ \E t \in Threads : Apply(t) \/ Reply(t) \/ PostFails(t)

Spec == Init /\ [][Next]_vars

-----------------------------------------------------------------------------
(* The values of the variables (run.rb:21, @state, @sinks, @schedule), and *)
(* a call under way only in a thread that is inside switch.                *)
TypeOK ==
  /\ playing \subseteq Sinks /\ sinks \subseteq Sinks
  /\ emitted \in 0..MaxEvents /\ faults \in 0..MaxFaults
  /\ events \in Seq(Event)
  /\ main \in {"reading", "cancelling", "switching", "exited"}
  /\ schedule \in 0..emitted
  /\ task \in [Tasks -> {"unused", "pending", "cancelled", "running", "done"}]
  /\ post \in [Threads -> {"none", "sent", "applied"}]
  /\ state \in {"nil", "on", "off"} /\ amp \in {"on", "off"}
  /\ raced \in BOOLEAN
  /\ post[0] # "none" => main \in {"switching", "exited"}
  /\ \A t \in Tasks : post[t] # "none" => task[t] = "running"

(* Only the task that turn_on would cancel can be waiting (run.rb:45,50),  *)
(* and it waits only while no sink input is known: a pending switch-off    *)
(* that nobody can cancel any more would cut the sound off.                *)
TimerMeansSilence ==
  \A t \in Tasks : task[t] = "pending" =>
    /\ t = schedule
    /\ sinks = {} \/ main \in {"cancelling", "exited"}

Quiet == /\ main = "reading"
         /\ \A t \in Tasks : task[t] \notin {"pending", "running"}

(* When every event is handled and nothing waits, the amplifier is on      *)
(* exactly while sink inputs are known, unless a call has failed or audio  *)
(* started while a switch-off was under way (run.rb:33,39,45): no other    *)
(* order of events, timers and calls makes @state and the amplifier differ.*)
FollowsUnlessRaced ==
  Quiet /\ faults = 0 /\ ~raced =>
    IF sinks = {} THEN state = "nil" \/ amp = "off" ELSE amp = "on"

(* DOCS.md:3, "Initially the number is zero and upon an increase it calls  *)
(* a user-specified API endpoint": the first sink input is passed over     *)
(* without a call only while the amplifier is on and no switch-off is      *)
(* under way.  The code breaks this: @state says 'on' until the answer of  *)
(* the switch-off is there (run.rb:33,39).                                 *)
PassedOver == main = "cancelling" /\ main' = "reading"
IncreaseCalls ==
  [][PassedOver /\ faults = 0 /\ (\E s \in Sinks : sinks = {s}) =>
        amp = "on" /\ \A t \in Tasks : post[t] = "none"]_vars

=============================================================================
