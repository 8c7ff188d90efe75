\* A Ctrl pair, an ordinary key, the power key, and a code the table has no place for.
CONSTANTS
  Keys = {lctrl, rctrl, a, power, unknown}
  Ctrl = {lctrl, rctrl}
  Power = power
  Unknown = {unknown}
  Reserved = reserved
SPECIFICATION KeyboardSpec
INVARIANTS
  NoStuckKey
  RememberedKeysHeld
