---------------------------- MODULE LayerSelection ----------------------------
(***************************************************************************)
(* How hwc_set decides from the names of the layers of a frame, the        *)
(* blacklist and the windows it has which task is shown and which window   *)
(* is closed. The loops of the code appear as loops over the layers, the   *)
(* entries of the blacklist and the keys of the map of windows.            *)
(*                                                                         *)
(* A layer is named for the task it belongs to ("TID:<task>#<app>/...") or *)
(* for what it draws ("InputMethod#0"): here it is the task or the name.   *)
(*                                                                         *)
(* A definition marked Variant is no part of the model: it is the one      *)
(* below it with a plausible mistake, and shows that a property sees it.   *)
(***************************************************************************)
EXTENDS Naturals, Sequences, SequencesExt

CONSTANTS
  Tasks,    \* task ids
  Apps,     \* package names
  AppOf,    \* the package of each task
  NoTask    \* the empty string in single_layer_tid

ASSUME NoTaskAssumption == NoTask \notin Tasks
ASSUME AppOfAssumption == AppOf \in [Tasks -> Apps]

IsTid(layer) == layer \in Tasks

OnScreen(layers) == ToSet(layers) \cap Tasks

\* What a loop of n rounds makes of base: round[i] is what the i-th does.
Loop(base, n, round) ==
  LET After[i \in 0 .. n] == IF i = 0 THEN base ELSE round[i][After[i - 1]]
  IN  After[n]

-------------------------------------------------------------------------------
(* Single window mode.                                                     *)

\* showWindow and single_layer_tid, and whether the blacklist loop has ended.
Selections == [show : BOOLEAN, tid : Tasks \cup {NoTask}, break : BOOLEAN]

\* A package that is not the task's shows, and elects the task if none is yet.
Elect(sel, task) ==
  [sel EXCEPT !.show = TRUE, !.tid = IF @ = NoTask THEN task ELSE @]

\* Variant: the loop goes on after a match.
BlacklistRoundNoBreak(app, task) ==
  [sel \in Selections |->
     IF app = AppOf[task] THEN [sel EXCEPT !.show = FALSE] ELSE Elect(sel, task)]

\* A match hides and ends the loop.
BlacklistRound(app, task) ==
  [sel \in Selections |->
     IF sel.break THEN sel
     ELSE IF app = AppOf[task] THEN [sel EXCEPT !.show = FALSE, !.break = TRUE]
     ELSE Elect(sel, task)]

\* The blacklist loop of one task layer.
BlacklistLoop(sel, task, blacklist) ==
  Loop([sel EXCEPT !.break = FALSE], Len(blacklist),
       [i \in 1 .. Len(blacklist) |-> BlacklistRound(blacklist[i], task)])

NothingSelected == [show |-> FALSE, tid |-> NoTask, break |-> FALSE]

\* The loop over the layers: each task layer decides on showWindow anew.
LayerRound(layer, blacklist) ==
  [sel \in Selections |-> IF IsTid(layer) THEN BlacklistLoop(sel, layer, blacklist) ELSE sel]

SelectSingle(layers, blacklist) ==
  Loop(NothingSelected, Len(layers),
       [i \in 1 .. Len(layers) |-> LayerRound(layers[i], blacklist)])

\* The same by cases: the last task layer decides whether anything is shown,
\* the first one whose app is not at the head of the list what is shown.
ShowWindow(layers, blacklist) ==
  \E i \in DOMAIN layers :
    /\ IsTid(layers[i]) /\ AppOf[layers[i]] \notin ToSet(blacklist)
    /\ \A k \in DOMAIN layers : IsTid(layers[k]) => k <= i

\* Variant: the first task layer is elected without a look at the list.
FirstTask(layers, blacklist) ==
  LET tids == {i \in DOMAIN layers : IsTid(layers[i])}
  IN  {layers[i] : i \in {n \in tids : \A m \in tids : n <= m}}

\* A set with the task, empty if none is elected.
SingleTask(layers, blacklist) ==
  LET electable == {i \in DOMAIN layers : IsTid(layers[i]) /\ AppOf[layers[i]] # Head(blacklist)}
  IN  {layers[i] : i \in {n \in electable : \A m \in electable : n <= m}}

-------------------------------------------------------------------------------
(* Leftover windows of single window mode: closed by the user, or the full *)
(* screen window of an earlier mode.                                       *)

\* The loop over the map in the order of its keys, with the one flag
\* shouldCloseLeftover that all of them share.
LeftoverRound(key, candidates, layers) ==
  [acc \in [flag : BOOLEAN, closed : SUBSET candidates] |->
     IF key \notin candidates THEN acc
     ELSE IF acc.flag /\ key \notin OnScreen(layers) THEN [acc EXCEPT !.closed = @ \cup {key}]
     ELSE [acc EXCEPT !.flag = FALSE]]

LeftoverLoop(keys, candidates, layers) ==
  Loop([flag |-> TRUE, closed |-> {}], Len(keys),
       [i \in 1 .. Len(keys) |-> LeftoverRound(keys[i], candidates, layers)]).closed

\* The same by cases: a candidate goes only if no candidate up to it in the
\* order of the keys still has a layer.
Leftover(keys, candidates, layers) ==
  {keys[i] : i \in {n \in DOMAIN keys :
     /\ keys[n] \in candidates
     /\ \A m \in 1..n : keys[m] \in candidates => keys[m] \notin OnScreen(layers)}}

-------------------------------------------------------------------------------
(* Multi window mode.                                                      *)

\* The blacklist loop of one task layer on its own: showWindow after it.
MultiRound(app, task) ==
  [sel \in [show : BOOLEAN, break : BOOLEAN] |->
     IF sel.break THEN sel ELSE [show |-> app # AppOf[task], break |-> app = AppOf[task]]]

ShownInMulti(task, blacklist) ==
  Loop([show |-> FALSE, break |-> FALSE], Len(blacklist),
       [i \in 1 .. Len(blacklist) |-> MultiRound(blacklist[i], task)]).show

-------------------------------------------------------------------------------
(* What the comments of hwc_set say of these decisions.                    *)

\* hwcomposer.cpp:568 "in prop "waydroid.blacklist_apps" we select apps to not
\* show in display".
Blacklisted(task, blacklist) == AppOf[task] \in ToSet(blacklist)
===============================================================================
