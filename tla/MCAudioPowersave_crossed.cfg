\* The add-on may end with pactl, and the events are bounded.
SPECIFICATION Spec
CONSTANTS
  Sinks = {s1, s2}
  MaxEvents = 4
  MaxFaults = 0
SYMMETRY Symmetry
CHECK_DEADLOCK FALSE
PROPERTIES
  IncreaseCalls
