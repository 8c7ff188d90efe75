------------------------------ MODULE LayerFrames ------------------------------
(***************************************************************************)
(* The inputs of LayerSelection: SurfaceFlinger names the layers of a frame*)
(* one by one, the property holds a list of packages. The property is never*)
(* the empty list: property_get falls back to the launcher's package then. *)
(***************************************************************************)
EXTENDS LayerSelection

CONSTANTS
  Names,        \* the names of layers that are no task's
  Packages,     \* what the blacklist may name
  Keys,         \* the keys of the map of windows, in their order
  MaxLayers,    \* layers of a frame, a bound of the model
  MaxBlacklist  \* packages in the list, a bound of the model

ASSUME KeysAssumption == Keys \in Seq(ToSet(Keys))

VARIABLES
  layers,     \* layer_names
  blacklist,  \* waydroid.blacklist_apps
  candidates  \* the windows that may be leftovers

vars == <<layers, blacklist, candidates>>

TypeOK ==
  /\ layers \in Seq(Tasks \cup Names)
  /\ blacklist \in Seq(Packages) /\ blacklist # <<>>
  /\ candidates \subseteq ToSet(Keys)

Init ==
  /\ layers = <<>>
  /\ blacklist \in {<<a>> : a \in Packages}
  /\ candidates \in SUBSET ToSet(Keys)

AddLayer ==
  /\ Len(layers) < MaxLayers
  /\ \E l \in Tasks \cup Names : layers' = Append(layers, l)
  /\ UNCHANGED <<blacklist, candidates>>

AddToBlacklist ==
  /\ Len(blacklist) < MaxBlacklist
  /\ \E a \in Packages : blacklist' = Append(blacklist, a)
  /\ UNCHANGED <<layers, candidates>>

NextFrame ==
  /\ layers # <<>>
  /\ layers' = <<>>
  /\ UNCHANGED <<blacklist, candidates>>

Next == AddLayer \/ AddToBlacklist \/ NextFrame

Spec == Init /\ [][Next]_vars

-------------------------------------------------------------------------------
\* The case forms the window manager's model uses compute what the loops of
\* hwc_set compute, on every frame and every list (hwcomposer.cpp:620, 674).
LoopsAgree ==
  LET sel == SelectSingle(layers, blacklist) IN
  /\ sel.show = ShowWindow(layers, blacklist)
  /\ SingleTask(layers, blacklist) = {sel.tid} \ {NoTask}
  /\ LeftoverLoop(Keys, candidates, layers) = Leftover(Keys, candidates, layers)

\* With a single entry in the list, whenever single window mode shows a window it
\* is for a task that is on screen and not in the list. Multi window mode keeps
\* to the list whatever its length and order.
BlacklistHonoured ==
  /\ Len(blacklist) = 1 /\ ShowWindow(layers, blacklist) =>
       /\ SingleTask(layers, blacklist) # {}
       /\ \A task \in SingleTask(layers, blacklist) :
            task \in OnScreen(layers) /\ ~Blacklisted(task, blacklist)
  /\ \A task \in Tasks : ShownInMulti(task, blacklist) <=> ~Blacklisted(task, blacklist)
===============================================================================
