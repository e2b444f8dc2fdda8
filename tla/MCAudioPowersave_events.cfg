\* The add-on may end with pactl, and the events are bounded.
SPECIFICATION Spec
CONSTANTS
  Sinks = {s1, s2}
  MaxEvents = 6
  MaxFaults = 1
SYMMETRY Symmetry
CHECK_DEADLOCK FALSE
INVARIANTS
  TypeOK
  TimerMeansSilence
  FollowsUnlessRaced
