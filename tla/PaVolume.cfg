\* Two devices of each kind, so that one can go and several can have a name;
\* sinks with one port and with two; ret at first zero, one or anything else.
CONSTANTS
  Sinks = {k1, k2}
  Sources = {m1, m2}
  Ports = {"speaker", "headphones"}
  NumPorts <- MCNumPorts
  Values = {2, 3}
  Garbage = {0, 1, 7}
  MaxCalls = 1
  MaxChanges = 1
  None = None
SPECIFICATION PaSpec
INVARIANTS
  RequestUnderWay
  SuccessIsWhole
  InfoIsOfDefault
PROPERTIES
  Returns
CHECK_DEADLOCK FALSE
