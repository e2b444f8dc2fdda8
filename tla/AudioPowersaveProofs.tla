------------------------ MODULE AudioPowersaveProofs ------------------------
(* The safety of the audio-powersave add-on for any sink inputs, any       *)
(* number of events and any number of failed calls.                        *)
(*                                                                         *)
(* Tasks are numbered in the order of their creation, and only @schedule   *)
(* can be pending: cleanup makes the next one when the last is not pending *)
(* any more.  As long as no switch-off was under way when audio started    *)
(* and no call failed, the event loop and the tasks never call switch at   *)
(* the same time, so @state and the amplifier differ only between the two  *)
(* halves of one call.                                                     *)
EXTENDS AudioPowersave, TLAPS, SequenceTheorems

(* The tasks after @schedule do not exist yet, and there is one event for  *)
(* each task and for each entry of the pipe.                               *)
Numbered ==
  /\ schedule + Len(events) <= emitted
  /\ \A t \in Tasks : t > schedule => task[t] = "unused"

(* turn_on runs on behalf of a sink input that is known.                   *)
SwitchedFor == main \in {"cancelling", "switching"} => sinks # {}

Orderly == ~raced /\ faults = 0 /\ main # "exited"

(* switch is called by the event loop or by tasks, never by both, and by   *)
(* tasks in silence only.                                                  *)
Apart ==
  Orderly => /\ main # "reading" => Running = {}
             /\ Running # {} => sinks = {}

(* What @state says of the amplifier while calls are under way.            *)
Belief ==
  Orderly =>
    /\ state = "on" /\ (\A t \in Tasks : post[t] # "applied") => amp = "on"
    /\ state = "off" /\ post[0] # "applied" => amp = "off"
    /\ post[0] = "applied" => amp = "on"
    /\ \A t \in Tasks : post[t] = "applied" => amp = "off"

(* What @state says of the sink inputs between two events.                 *)
Told ==
  Orderly /\ main = "reading" =>
    /\ sinks # {} => state = "on"
    /\ sinks = {} => \/ state # "on"
                     \/ \E t \in Tasks : task[t] \in {"pending", "running"}

IInv == /\ TypeOK /\ Numbered /\ TimerMeansSilence /\ SwitchedFor
        /\ Apart /\ Belief /\ Told

USE BoundsAssumption

LEMMA TasksAreThreads == Tasks \subseteq Nat /\ Tasks \subseteq Threads /\ 0 \in Threads /\ 0 \notin Tasks
  BY DEF Tasks, Threads

LEMMA InitIInv == Init => IInv
  BY TasksAreThreads DEF Init, IInv, TypeOK, Numbered, TimerMeansSilence, SwitchedFor, Orderly, Apart,
     Belief, Told, Running, Event, Tasks

(* Typing and the numbering of tasks go together: a new task has a number  *)
(* because there was an event for it.                                      *)
LEMMA StepTyped == TypeOK /\ Numbered /\ [Next]_vars => TypeOK' /\ Numbered'
<1> SUFFICES ASSUME TypeOK, Numbered, [Next]_vars
             PROVE  TypeOK' /\ Numbered'
  OBVIOUS
<1> USE TasksAreThreads DEF TypeOK, Numbered, Tasks
<1>1. ASSUME NEW s \in Sinks, AudioStarts(s) PROVE TypeOK' /\ Numbered'
  BY <1>1 DEF AudioStarts, Event
<1>2. ASSUME NEW s \in Sinks, AudioStops(s) PROVE TypeOK' /\ Numbered'
  BY <1>2 DEF AudioStops, Event
<1>3. CASE HearNew
  <2>1. /\ Head(events) \in Event
        /\ Tail(events) \in Seq(Event)
        /\ Len(Tail(events)) = Len(events) - 1
    BY <1>3, HeadTailProperties DEF HearNew
  <2>2. raced' \in BOOLEAN
    BY <1>3 DEF HearNew
  <2>3. sinks' \subseteq Sinks
    BY <1>3, <2>1 DEF HearNew, Event
  <2> QED
    BY <1>3, <2>1, <2>2, <2>3 DEF HearNew
<1>4. CASE TurnOn
  BY <1>4 DEF TurnOn, CancelSchedule, Pending
<1>5. CASE HearRemove
  BY <1>5 DEF HearRemove, Idle, Pending, Event
<1>6. CASE SubscriptionEnds
  BY <1>6 DEF SubscriptionEnds
<1>7. ASSUME NEW t \in Tasks, Fire(t) PROVE TypeOK' /\ Numbered'
  BY <1>7 DEF Fire
<1>8. ASSUME NEW t \in Tasks, SwitchOff(t) PROVE TypeOK' /\ Numbered'
  BY <1>8 DEF SwitchOff
<1>9. ASSUME NEW t \in Threads, Apply(t) PROVE TypeOK' /\ Numbered'
  BY <1>9 DEF Apply, Wanted
<1>10. ASSUME NEW t \in Threads, Reply(t) PROVE TypeOK' /\ Numbered'
  BY <1>10 DEF Reply, EndSwitch, Wanted
<1>11. ASSUME NEW t \in Threads, PostFails(t) PROVE TypeOK' /\ Numbered'
  BY <1>11 DEF PostFails, EndSwitch
<1>12. CASE UNCHANGED vars
  BY <1>12 DEF vars
<1> QED
  BY <1>1, <1>2, <1>3, <1>4, <1>5, <1>6, <1>7, <1>8, <1>9, <1>10, <1>11, <1>12 DEF Next

(* Cancelling ends the only pending task, and a new one begins in silence.*)
LEMMA StepTimer == TypeOK /\ Numbered /\ TimerMeansSilence /\ SwitchedFor /\ [Next]_vars => TimerMeansSilence' /\ SwitchedFor'
<1> SUFFICES ASSUME TypeOK, Numbered, TimerMeansSilence, SwitchedFor, TypeOK', [Next]_vars
             PROVE  TimerMeansSilence' /\ SwitchedFor'
  BY StepTyped DEF IInv
<1> USE TasksAreThreads DEF TypeOK, Numbered, TimerMeansSilence, SwitchedFor, Tasks
<1>1. ASSUME NEW s \in Sinks, AudioStarts(s) PROVE TimerMeansSilence' /\ SwitchedFor'
  BY <1>1 DEF AudioStarts, Event
<1>2. ASSUME NEW s \in Sinks, AudioStops(s) PROVE TimerMeansSilence' /\ SwitchedFor'
  BY <1>2 DEF AudioStops, Event
<1>3. CASE HearNew
  BY <1>3 DEF HearNew, Event, Running
<1>4. CASE TurnOn
  BY <1>4 DEF TurnOn, CancelSchedule, Pending
<1>5. CASE HearRemove
  BY <1>5 DEF HearRemove, Idle, Pending, Event
<1>6. CASE SubscriptionEnds
  BY <1>6 DEF SubscriptionEnds
<1>7. ASSUME NEW t \in Tasks, Fire(t) PROVE TimerMeansSilence' /\ SwitchedFor'
  BY <1>7 DEF Fire
<1>8. ASSUME NEW t \in Tasks, SwitchOff(t) PROVE TimerMeansSilence' /\ SwitchedFor'
  BY <1>8 DEF SwitchOff
<1>9. ASSUME NEW t \in Threads, Apply(t) PROVE TimerMeansSilence' /\ SwitchedFor'
  BY <1>9 DEF Apply, Wanted
<1>10. ASSUME NEW t \in Threads, Reply(t) PROVE TimerMeansSilence' /\ SwitchedFor'
  BY <1>10 DEF Reply, EndSwitch, Wanted
<1>11. ASSUME NEW t \in Threads, PostFails(t) PROVE TimerMeansSilence' /\ SwitchedFor'
  BY <1>11 DEF PostFails, EndSwitch
<1>12. CASE UNCHANGED vars
  BY <1>12 DEF vars
<1> QED
  BY <1>1, <1>2, <1>3, <1>4, <1>5, <1>6, <1>7, <1>8, <1>9, <1>10, <1>11, <1>12 DEF Next

(* The event loop and the tasks take turns.                                *)
LEMMA StepOrderly == IInv /\ [Next]_vars => Apart' /\ Belief' /\ Told'
<1> SUFFICES ASSUME IInv, TypeOK', [Next]_vars
             PROVE  Apart' /\ Belief' /\ Told'
  BY StepTyped DEF IInv
<1> USE TasksAreThreads DEF TypeOK, Numbered, TimerMeansSilence, SwitchedFor, Tasks, IInv, Apart, Belief, Told, Orderly, Running
<1>1. ASSUME NEW s \in Sinks, AudioStarts(s) PROVE Apart' /\ Belief' /\ Told'
  BY <1>1 DEF AudioStarts, Event
<1>2. ASSUME NEW s \in Sinks, AudioStops(s) PROVE Apart' /\ Belief' /\ Told'
  BY <1>2 DEF AudioStops, Event
<1>3. CASE HearNew
  BY <1>3 DEF HearNew, Event
<1>4. CASE TurnOn
  BY <1>4 DEF TurnOn, CancelSchedule, Pending
<1>5. CASE HearRemove
  BY <1>5 DEF HearRemove, Idle, Pending, Event
<1>6. CASE SubscriptionEnds
  BY <1>6 DEF SubscriptionEnds
<1>7. ASSUME NEW t \in Tasks, Fire(t) PROVE Apart' /\ Belief' /\ Told'
  BY <1>7 DEF Fire
<1>8. ASSUME NEW t \in Tasks, SwitchOff(t) PROVE Apart' /\ Belief' /\ Told'
  BY <1>8 DEF SwitchOff
<1>9. ASSUME NEW t \in Threads, Apply(t) PROVE Apart' /\ Belief' /\ Told'
  BY <1>9 DEF Apply, Wanted
<1>10. ASSUME NEW t \in Threads, Reply(t) PROVE Apart' /\ Belief' /\ Told'
  BY <1>10 DEF Reply, EndSwitch, Wanted
<1>11. ASSUME NEW t \in Threads, PostFails(t) PROVE Apart' /\ Belief' /\ Told'
  BY <1>11 DEF PostFails, EndSwitch
<1>12. CASE UNCHANGED vars
  BY <1>12 DEF vars
<1> QED
  BY <1>1, <1>2, <1>3, <1>4, <1>5, <1>6, <1>7, <1>8, <1>9, <1>10, <1>11, <1>12 DEF Next

-----------------------------------------------------------------------------
(* The inductive invariant holds in every behaviour.                       *)
THEOREM Invariance == Spec => []IInv
<1>1. IInv /\ [Next]_vars => IInv'
  BY StepTyped, StepTimer, StepOrderly DEF IInv
<1> QED
  BY InitIInv, <1>1, PTL DEF Spec

(* The types of the daemon's variables, and calls only inside switch.      *)
THEOREM TypeCorrect == Spec => []TypeOK
<1>1. IInv => TypeOK
  BY DEF IInv
<1> QED
  BY Invariance, <1>1, PTL

(* Every pending switch-off can still be cancelled, and none is pending    *)
(* when turn_on has passed its cancellation (run.rb:44-53).                *)
THEOREM NoStrayTimer == Spec => []TimerMeansSilence
<1>1. IInv => TimerMeansSilence
  BY DEF IInv
<1> QED
  BY Invariance, <1>1, PTL

(* Without failed calls and without audio that starts during a switch-off, *)
(* the amplifier follows the audio.                                        *)
THEOREM AmplifierFollows == Spec => []FollowsUnlessRaced
<1>1. IInv => FollowsUnlessRaced
  BY TasksAreThreads DEF IInv, TypeOK, FollowsUnlessRaced, Quiet, Orderly, Belief, Told
<1> QED
  BY Invariance, <1>1, PTL
=============================================================================
