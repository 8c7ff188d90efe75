--------------------------- MODULE WindowLifecycle ----------------------------
(***************************************************************************)
(* What the composer promises of each window, whoever asks for what: it is *)
(* created open, it is closed only because the user has asked for it, a    *)
(* closed window stays closed until the composer forgets it, and only a    *)
(* forgotten one can be created anew. No request for an open window is     *)
(* lost. One whose window is forgotten while it waits goes astray: it may  *)
(* close any window, or none.                                              *)
(***************************************************************************)
CONSTANTS
  Keys,   \* what a window is for: a task, the full screen, a popup
  First,  \* the windows the composer service starts with
  Astray  \* what is left of the window of a request

VARIABLES
  open, closed,   \* sets of keys
  asked           \* the windows the user has asked to close, at most one

lifeVars == <<open, closed, asked>>

Init ==
  /\ open = First
  /\ closed = {}
  /\ asked = {}

Create(k) ==
  /\ k \notin open \cup closed
  /\ open' = open \cup {k}
  /\ UNCHANGED <<closed, asked>>

Ask(k) ==
  /\ k \in open
  /\ asked = {}
  /\ asked' = {k}
  /\ UNCHANGED <<open, closed>>

CloseByUser(k) ==
  /\ k \in open
  /\ k \in asked \/ Astray \in asked
  /\ open' = open \ {k}
  /\ closed' = closed \cup {k}
  /\ asked' = {}

\* The window the user has asked to close is open no more.
Ignore ==
  /\ asked \cap open = {}
  /\ asked' = {}
  /\ UNCHANGED <<open, closed>>

Forget(S) ==
  /\ open' = open \ S
  /\ closed' = closed \ S
  /\ asked' = IF asked \cap S = {} THEN asked ELSE {Astray}

\* The composer service died and is started again.
Restart ==
  /\ open' = First
  /\ closed' = {}
  /\ asked' = {}

Next ==
  \/ \E k \in Keys : Create(k) \/ Ask(k) \/ CloseByUser(k)
  \/ Ignore
  \/ \E S \in SUBSET Keys : Forget(S)
  \/ Restart

Spec == Init /\ [][Next]_lifeVars
===============================================================================
