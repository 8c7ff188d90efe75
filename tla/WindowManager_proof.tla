-------------------------- MODULE WindowManager_proof -------------------------
(***************************************************************************)
(* The safety of the window manager, for every set of tasks, frames and    *)
(* blacklists and in every mode, proved from one inductive invariant.      *)
(***************************************************************************)
EXTENDS WindowManager, FiniteSetTheorems, TLAPS

\* What a frame has established about the windows before it handles its layers,
\* and keeps while it does: the mutex keeps the close handler away.
FrameInv ==
  hwc \in {"layer", "roundtrip"} =>
    /\ frame.mode = FullScreen => windows \subseteq {FullScreen}
    /\ frame.mode # FullScreen => FullScreen \notin windows
    /\ MultiWindows => \A i \in DOMAIN frame.todo : frame.todo[i] \in ToSet(frame.layers)

IInv ==
  /\ TypeOK
  /\ ShownWindowsActive
  /\ FullScreenAlone
  /\ NoObsoleteWindow
  /\ OpenWindowsCounted
  /\ FrameInv

-------------------------------------------------------------------------------
(* The operators the actions are built from.                               *)

\* A set of keys is finite, so that its cardinality is a number.
LEMMA KeysFinite ==
  ASSUME NEW S \in SUBSET Keys
  PROVE  IsFiniteSet(S) /\ Cardinality(S) \in Nat
<1>1. IsFiniteSet({FullScreen}) /\ IsFiniteSet({InputMethod})
  BY FS_Singleton
<1>2. IsFiniteSet({FullScreen} \cup {InputMethod})
  BY <1>1, FS_Union
<1>3. IsFiniteSet(Tasks \cup ({FullScreen} \cup {InputMethod}))
  BY <1>2, KeyAssumption, FS_Union
<1>4. Keys = Tasks \cup ({FullScreen} \cup {InputMethod})
  BY DEF Keys
<1> QED
  BY <1>3, <1>4, FS_Subset, FS_CardinalityType

\* A layer of an app's frame is never drawn in the full screen window.
LEMMA AppsNotFullScreen ==
  ASSUME frame.mode # FullScreen, NEW layer, NEW k \in KeysOf(layer)
  PROVE  k # FullScreen
<1>1. k \in Tasks \/ k = InputMethod
  BY DEF KeysOf, SingleTask, IsTid
<1> QED
  BY <1>1, KeyAssumption DEF FullScreen, InputMethod

\* If the full screen window is the only one it is a leftover of app frames.
LEMMA FullScreenLeftover ==
  ASSUME NEW layers
  PROVE  FullScreen \in Leftover(KeyOrder, {FullScreen}, layers)
<1>1. PICK i \in DOMAIN KeyOrder : KeyOrder[i] = FullScreen
  BY KeyAssumption DEF Keys
<1>2. FullScreen \notin OnScreen(layers)
  BY KeyAssumption DEF OnScreen
<1> QED
  BY <1>1, <1>2 DEF Leftover

\* Leftover windows are among the candidates.
LEMMA LeftoverSubset ==
  ASSUME NEW keys, NEW candidates, NEW layers
  PROVE  Leftover(keys, candidates, layers) \subseteq candidates
  BY DEF Leftover

-------------------------------------------------------------------------------
(* The initial states.                                                     *)

LEMMA InitIInv == Init => IInv
<1> SUFFICES ASSUME Init PROVE IInv
  OBVIOUS
<1> USE DEF Init, FirstWindows
<1>1. FirstWindows \in SUBSET Keys
  BY DEF Keys
<1>2. Cardinality(windows) \in Nat
  BY <1>1, KeysFinite
<1>3. TypeOK
  <2>1. active_apps \in {"none", FullScreen, "apps"}
    BY ModesAssumption
  <2>2. frame \in [mode : {"none", FullScreen, "apps"}, layers : Frames \cup {<<>>},
                   blacklist : Blacklists \cup {<<>>}, todo : Seq(Layers \cup {"target"})]
    BY DEF NoFrame
  <2>3. closer \in [at : {"idle", "request", "lock"}, window : Keys \cup {Freed, NoKey}]
    BY DEF NoClose
  <2> QED
    BY <1>1, <1>2, <2>1, <2>2, <2>3 DEF TypeOK
<1>4. ShownWindowsActive /\ FullScreenAlone /\ FrameInv
  BY DEF ShownWindowsActive, FullScreenAlone, FrameInv
<1>5. NoObsoleteWindow /\ OpenWindowsCounted
  BY DEF NoObsoleteWindow, OpenWindowsCounted
<1> QED
  BY <1>3, <1>4, <1>5 DEF IInv

-------------------------------------------------------------------------------
(* SurfaceFlinger's thread.                                                *)

\* Deleting windows keeps the types, and no deleted surface can be found.
LEMMA DeleteTypes ==
  ASSUME IInv, NEW S, NEW lastNow \in [Keys -> {"null", "live", "freed"}], Delete(S, lastNow)
  PROVE  /\ windows' \subseteq Keys /\ active' \subseteq Keys
         /\ shown' \subseteq Keys /\ snapshot' \subseteq Keys
         /\ last' \in [Keys -> {"null", "live", "freed"}]
         /\ closer' \in [at : {"idle", "request", "lock"}, window : Keys \cup {Freed, NoKey}]
         /\ shown' \subseteq active' /\ active' \subseteq windows'
  BY DEF Delete, IInv, TypeOK, ShownWindowsActive

LEMMA ResetLastType ==
  ASSUME TypeOK, NEW S
  PROVE  ResetLast(S) \in [Keys -> {"null", "live", "freed"}]
  BY DEF TypeOK, ResetLast

\* Destroying buffers keeps the pointers' types.
LEMMA DangleType ==
  ASSUME TypeOK, NEW S
  PROVE  Dangle(S) \in [Keys -> {"null", "live", "freed"}]
  BY DEF TypeOK, Dangle

LEMMA BeginFrameIInv ==
  ASSUME IInv, NEW layers \in Frames, NEW blacklist \in Blacklists, NEW geometry \in BOOLEAN,
         NEW cursor \in SUBSET CursorWindows, BeginFrame(layers, blacklist, geometry, cursor)
  PROVE  IInv'
<1> USE DEF BeginFrame
<1>1. frame' \in [mode : {"none", FullScreen, "apps"}, layers : Frames \cup {<<>>},
                  blacklist : Blacklists \cup {<<>>}, todo : Seq(Layers \cup {"target"})]
  BY DEF IInv, TypeOK
<1>2. TypeOK'
  BY <1>1, ConfigAssumption, DangleType DEF IInv, TypeOK
<1>3. hwc' = "lock" /\ ShownWindowsActive' /\ FullScreenAlone' /\ FrameInv'
  BY DEF IInv, ShownWindowsActive, FullScreenAlone, FrameInv
<1>4. NoObsoleteWindow' /\ OpenWindowsCounted'
  BY DEF IInv, NoObsoleteWindow, OpenWindowsCounted
<1> QED
  BY <1>2, <1>3, <1>4 DEF IInv

\* When all windows go the frame ends, and the number is set to zero.
LEMMA ClearAllIInv ==
  ASSUME IInv, Delete(windows, last), open_windows' = 0, Return, UNCHANGED <<active_apps, geo_changed>>
  PROVE  IInv'
<1>1. last \in [Keys -> {"null", "live", "freed"}]
  BY DEF IInv, TypeOK
<1>2. windows' = {} /\ hwc' = "idle"
  BY DEF Delete, Return
<1>3. frame' \in [mode : {"none", FullScreen, "apps"}, layers : Frames \cup {<<>>},
                  blacklist : Blacklists \cup {<<>>}, todo : Seq(Layers \cup {"target"})]
  BY DEF Return, NoFrame
<1>4. TypeOK'
  BY <1>1, <1>2, <1>3, DeleteTypes DEF IInv, TypeOK
<1> QED
  BY <1>1, <1>2, <1>4, DeleteTypes
     DEF IInv, ShownWindowsActive, FullScreenAlone, FrameInv, NoObsoleteWindow, OpenWindowsCounted

LEMMA LayersType ==
  ASSUME IInv
  PROVE  frame.layers \in Seq(Layers)
<1>1. frame.layers \in Frames \cup {<<>>}
  BY DEF IInv, TypeOK
<1>2. <<>> \in Seq(Layers)
  OBVIOUS
<1>3. Frames \subseteq Seq(Layers)
  BY LayersAssumption
<1> QED
  BY ONLY <1>1, <1>2, <1>3

\* The types when a frame goes on to its layers.
LEMMA StartLayersTypes ==
  ASSUME IInv, StartLayers
  PROVE  /\ hwc' = "layer"
         /\ frame' \in [mode : {"none", FullScreen, "apps"}, layers : Frames \cup {<<>>},
                        blacklist : Blacklists \cup {<<>>}, todo : Seq(Layers \cup {"target"})]
         /\ frame'.mode = frame.mode /\ frame'.layers = frame.layers
         /\ MultiWindows => \A i \in DOMAIN frame'.todo : frame'.todo[i] \in ToSet(frame'.layers)
<1>1. frame.layers \in Seq(Layers \cup {"target"})
  <2>1. frame.layers \in Seq(Layers)
    BY LayersType
  <2>2. \A i \in 1..Len(frame.layers) : frame.layers[i] \in Layers \cup {"target"}
    BY <2>1
  <2>3. frame.layers \in [1..Len(frame.layers) -> Layers \cup {"target"}] /\ Len(frame.layers) \in Nat
    BY <2>1, <2>2
  <2> QED
    BY <2>3
<1>2. <<"target">> \in Seq(Layers \cup {"target"})
  OBVIOUS
<1>3. MultiWindows => frame'.todo = frame.layers
  BY ConfigAssumption DEF StartLayers, IInv, TypeOK
<1> QED
  BY <1>1, <1>2, <1>3 DEF StartLayers, IInv, TypeOK, ToSet

\* What is left to show when a frame deletes S and goes on to its layers.
LEMMA StartIInv ==
  ASSUME IInv, NEW S, NEW T, Delete(S, ResetLast(T)), StartLayers, UNCHANGED <<active_apps, geo_changed>>,
         open_windows' \in Nat, windows' # {} => open_windows' = Cardinality(windows'),
         frame.mode = FullScreen => windows' \subseteq {FullScreen},
         frame.mode # FullScreen => FullScreen \notin windows',
         MultiWindows /\ frame.mode = "apps" => windows' \subseteq active' \cap ToSet(frame.layers)
  PROVE  IInv'
<1>1. ResetLast(T) \in [Keys -> {"null", "live", "freed"}]
  BY ResetLastType DEF IInv
<1>2. TypeOK'
  BY <1>1, DeleteTypes, StartLayersTypes DEF IInv, TypeOK
<1>3. ShownWindowsActive'
  BY <1>1, DeleteTypes DEF ShownWindowsActive
<1>4. FullScreenAlone'
  <2>1. windows' \subseteq windows
    BY DEF Delete
  <2> QED
    BY <2>1 DEF FullScreenAlone, IInv
<1>5. NoObsoleteWindow' /\ OpenWindowsCounted' /\ FrameInv'
  BY StartLayersTypes DEF NoObsoleteWindow, OpenWindowsCounted, FrameInv
<1> QED
  BY <1>2, <1>3, <1>4, <1>5 DEF IInv

\* The number follows the map where property_set follows each erase.
LEMMA CountWindowsCounts ==
  ASSUME IInv, hwc = "lock", windows' \subseteq windows, CountWindows
  PROVE  open_windows' \in Nat /\ (windows' # {} => open_windows' = Cardinality(windows'))
<1>1. windows' \in SUBSET Keys
  BY DEF IInv, TypeOK
<1>2. Cardinality(windows') \in Nat
  BY <1>1, KeysFinite
<1> QED
  BY <1>2 DEF CountWindows, IInv, TypeOK, OpenWindowsCounted

LEMMA SelectWindowsIInv == IInv /\ SelectWindows => IInv'
<1> SUFFICES ASSUME IInv, SelectWindows
             PROVE  IInv'
  OBVIOUS
<1>1. hwc = "lock" /\ UNCHANGED <<active_apps, geo_changed>>
  BY DEF SelectWindows
<1>2. windows \in SUBSET Keys /\ open_windows \in Nat /\ active \subseteq windows
  BY DEF IInv, TypeOK, ShownWindowsActive
<1>3. CASE SelectNone
  BY <1>1, <1>3, ClearAllIInv DEF SelectNone
<1>4. CASE SelectFullScreen
  <2> DEFINE S == IF FullScreen \in active THEN {} ELSE windows
  <2>1. Delete(S, ResetLast({FullScreen})) /\ StartLayers /\ open_windows' = open_windows
    BY <1>4 DEF SelectFullScreen
  <2>2. windows' = windows \/ windows' = {}
    BY <2>1 DEF Delete
  <2>3. windows' \subseteq {FullScreen}
    BY <1>2, <2>1 DEF Delete, IInv, FullScreenAlone
  <2>4. windows' # {} => open_windows' = Cardinality(windows')
    BY <1>1, <2>1, <2>2 DEF IInv, OpenWindowsCounted
  <2>5. frame.mode = FullScreen
    BY <1>4 DEF SelectFullScreen
  <2> HIDE DEF S
  <2> QED
    BY <1>1, <1>2, <2>1, <2>3, <2>4, <2>5, StartIInv DEF FullScreen
<1>5. CASE SelectSingleWindow
  <2>1. frame.mode = "apps" /\ ~MultiWindows
    BY <1>5 DEF SelectSingleWindow
  <2>2. CASE Delete(windows, last) /\ open_windows' = 0 /\ Return
    BY <1>1, <2>2, ClearAllIInv
  <2> DEFINE C == (windows \ active) \cup (windows \cap {FullScreen})
             S == Leftover(KeyOrder, C, frame.layers)
             T == SingleTask(frame.layers, frame.blacklist)
  <2>3. CASE Delete(S, ResetLast(T)) /\ CountWindows /\ StartLayers
    <3>1. FullScreen \notin windows'
      <4>1. CASE FullScreen \in windows
        <5>1. C = {FullScreen}
          BY <4>1 DEF IInv, FullScreenAlone
        <5> QED
          BY <2>3, <5>1, FullScreenLeftover DEF Delete
      <4>2. CASE FullScreen \notin windows
        BY <2>3, <4>2 DEF Delete
      <4> QED
        BY <4>1, <4>2
    <3>2. windows' \subseteq windows
      BY <2>3 DEF Delete
    <3>3. open_windows' \in Nat /\ (windows' # {} => open_windows' = Cardinality(windows'))
      BY <1>1, <2>3, <3>2, CountWindowsCounts
    <3> HIDE DEF S, T
    <3> QED
      BY <1>1, <2>1, <2>3, <3>1, <3>3, StartIInv DEF FullScreen
  <2> QED
    BY <1>5, <2>2, <2>3 DEF SelectSingleWindow
<1>6. CASE SelectMultiWindows
  <2> DEFINE S == windows \ (active \cap ToSet(frame.layers))
             T == ToSet(frame.layers)
  <2>1. frame.mode = "apps" /\ Delete(S, ResetLast(T)) /\ CountWindows /\ StartLayers
    BY <1>6 DEF SelectMultiWindows
  <2>2. windows' \subseteq windows /\ windows' \subseteq active' \cap ToSet(frame.layers)
    BY <2>1 DEF Delete
  <2>3. FullScreen \notin ToSet(frame.layers)
    <3>1. frame.layers \in Seq(Layers)
      BY LayersType
    <3> QED
      BY <3>1, LayersAssumption DEF ToSet
  <2>4. open_windows' \in Nat /\ (windows' # {} => open_windows' = Cardinality(windows'))
    BY <1>1, <2>1, <2>2, CountWindowsCounts
  <2> HIDE DEF S, T
  <2> QED
    BY <1>1, <2>1, <2>2, <2>3, <2>4, StartIInv DEF FullScreen
<1> QED
  BY <1>3, <1>4, <1>5, <1>6 DEF SelectWindows

\* A frame record whose first layer has been handled.
LEMMA NextLayerTypes ==
  ASSUME IInv, AtLayer, NextLayer
  PROVE  /\ frame' \in [mode : {"none", FullScreen, "apps"}, layers : Frames \cup {<<>>},
                        blacklist : Blacklists \cup {<<>>}, todo : Seq(Layers \cup {"target"})]
         /\ frame'.mode = frame.mode /\ frame'.layers = frame.layers
         /\ \A i \in DOMAIN frame'.todo : i + 1 \in DOMAIN frame.todo /\ frame'.todo[i] = frame.todo[i + 1]
<1>1. frame.todo \in Seq(Layers \cup {"target"}) /\ frame.todo # <<>>
  BY DEF IInv, TypeOK, AtLayer
<1>2. Tail(frame.todo) \in Seq(Layers \cup {"target"})
  BY <1>1
<1>3. \A i \in DOMAIN Tail(frame.todo) :
        i + 1 \in DOMAIN frame.todo /\ Tail(frame.todo)[i] = frame.todo[i + 1]
  BY <1>1
<1> QED
  BY <1>2, <1>3 DEF NextLayer, IInv, TypeOK

LEMMA SkipLayerIInv == IInv /\ SkipLayer => IInv'
<1> SUFFICES ASSUME IInv, SkipLayer
             PROVE  IInv'
  OBVIOUS
<1> USE DEF SkipLayer
<1>1. PICK replaced \in SUBSET Replaceable : last' = Dangle(replaced)
  OBVIOUS
<1>2. TypeOK'
  BY <1>1, NextLayerTypes, DangleType DEF IInv, TypeOK
<1>3. ShownWindowsActive' /\ FullScreenAlone'
  BY DEF IInv, ShownWindowsActive, FullScreenAlone
<1>4. NoObsoleteWindow' /\ OpenWindowsCounted' /\ FrameInv'
  BY NextLayerTypes DEF IInv, NoObsoleteWindow, OpenWindowsCounted, FrameInv
<1> QED
  BY <1>2, <1>3, <1>4 DEF IInv

LEMMA CreateWindowIInv ==
  ASSUME IInv, NEW k \in Keys, CreateWindow(k)
  PROVE  IInv'
<1> USE DEF CreateWindow
<1>1. TypeOK'
  BY DEF IInv, TypeOK
<1>2. ShownWindowsActive'
  BY DEF IInv, ShownWindowsActive
<1>3. hwc = "layer" /\ frame' = frame /\ hwc' = "roundtrip"
  BY DEF AtLayer
<1>4. FullScreenAlone' /\ FrameInv'
  <2>1. CASE frame.mode = FullScreen
    BY <1>3, <2>1 DEF IInv, FrameInv, FullScreenAlone, KeysOf
  <2>2. CASE frame.mode # FullScreen
    <3>1. k # FullScreen
      BY <2>2, AppsNotFullScreen
    <3> QED
      BY <1>3, <2>2, <3>1 DEF IInv, FrameInv, FullScreenAlone
  <2> QED
    BY <2>1, <2>2
<1>5. NoObsoleteWindow'
  <2> SUFFICES ASSUME MultiWindows, frame.mode = "apps"
               PROVE  k \in ToSet(frame.layers)
    BY <1>3 DEF NoObsoleteWindow, IInv
  <2>1. k = Head(frame.todo)
    BY DEF KeysOf, FullScreen
  <2>2. frame.todo \in Seq(Layers \cup {"target"}) /\ frame.todo # <<>>
    BY DEF IInv, TypeOK, AtLayer
  <2>3. Head(frame.todo) = frame.todo[1] /\ 1 \in DOMAIN frame.todo
    BY <2>2
  <2> QED
    BY <1>3, <2>1, <2>3 DEF IInv, FrameInv
<1>6. OpenWindowsCounted'
  BY <1>3 DEF OpenWindowsCounted
<1> QED
  BY <1>1, <1>2, <1>4, <1>5, <1>6 DEF IInv

LEMMA RoundtripDoneIInv == IInv /\ RoundtripDone => IInv'
<1> SUFFICES ASSUME IInv, RoundtripDone
             PROVE  IInv'
  OBVIOUS
<1> USE DEF RoundtripDone, winVars
<1>1. Cardinality(windows) \in Nat
  BY KeysFinite DEF IInv, TypeOK
<1>2. TypeOK'
  BY <1>1 DEF IInv, TypeOK
<1>3. ShownWindowsActive' /\ FullScreenAlone' /\ NoObsoleteWindow'
  BY DEF IInv, ShownWindowsActive, FullScreenAlone, NoObsoleteWindow
<1>4. OpenWindowsCounted' /\ FrameInv'
  BY DEF IInv, OpenWindowsCounted, FrameInv
<1> QED
  BY <1>2, <1>3, <1>4 DEF IInv

LEMMA RoundtripStuckIInv ==
  ASSUME IInv, NEW k \in Keys, RoundtripStuck(k)
  PROVE  IInv'
<1> USE DEF RoundtripStuck, winVars
<1>1. TypeOK'
  BY DEF IInv, TypeOK
<1>2. ShownWindowsActive' /\ FullScreenAlone' /\ NoObsoleteWindow'
  BY DEF IInv, ShownWindowsActive, FullScreenAlone, NoObsoleteWindow
<1>3. OpenWindowsCounted' /\ FrameInv'
  BY DEF IInv, OpenWindowsCounted, FrameInv
<1> QED
  BY <1>1, <1>2, <1>3 DEF IInv

LEMMA DrawLayerIInv ==
  ASSUME IInv, NEW k \in Keys, DrawLayer(k)
  PROVE  IInv'
<1> USE DEF DrawLayer
<1>1. TypeOK'
  <2>1. PICK replaced \in SUBSET Replaceable : last' = [Dangle(replaced) EXCEPT ![k] = "live"]
    OBVIOUS
  <2>2. last' \in [Keys -> {"null", "live", "freed"}]
    BY <2>1, DangleType DEF IInv
  <2> QED
    BY <2>2, NextLayerTypes DEF IInv, TypeOK
<1>2. ShownWindowsActive' /\ FullScreenAlone'
  BY DEF IInv, ShownWindowsActive, FullScreenAlone
<1>3. NoObsoleteWindow' /\ OpenWindowsCounted' /\ FrameInv'
  BY NextLayerTypes DEF IInv, NoObsoleteWindow, OpenWindowsCounted, FrameInv
<1> QED
  BY <1>1, <1>2, <1>3 DEF IInv

LEMMA ReturnType ==
  ASSUME Return
  PROVE  frame' \in [mode : {"none", FullScreen, "apps"}, layers : Frames \cup {<<>>},
                     blacklist : Blacklists \cup {<<>>}, todo : Seq(Layers \cup {"target"})]
  BY DEF Return, NoFrame

LEMMA EndLayersIInv == IInv /\ EndLayers => IInv'
<1> SUFFICES ASSUME IInv, EndLayers
             PROVE  IInv'
  OBVIOUS
<1> USE DEF EndLayers, winVars
<1>1. hwc = "layer" /\ hwc' \in {"stage", "idle"}
  BY DEF Return
<1>2. TypeOK'
  <2>1. CASE Return
    BY <1>1, <2>1, ReturnType DEF IInv, TypeOK
  <2>2. CASE frame' = frame
    BY <1>1, <2>2 DEF IInv, TypeOK
  <2> QED
    BY <2>1, <2>2
<1>3. ShownWindowsActive' /\ FullScreenAlone' /\ NoObsoleteWindow'
  BY <1>1 DEF IInv, ShownWindowsActive, FullScreenAlone, NoObsoleteWindow
<1>4. OpenWindowsCounted' /\ FrameInv'
  BY <1>1 DEF IInv, OpenWindowsCounted, FrameInv
<1> QED
  BY <1>2, <1>3, <1>4 DEF IInv

LEMMA TakeSnapshotsIInv == IInv /\ TakeSnapshots => IInv'
<1> SUFFICES ASSUME IInv, TakeSnapshots
             PROVE  IInv'
  OBVIOUS
<1> USE DEF TakeSnapshots
<1>1. hwc = "stage" /\ hwc' = "idle"
  BY DEF Return
<1>2. snapshot' \subseteq Keys
  BY DEF SnapshotTargets, SnapshotJobs, IInv, TypeOK
<1>3. TypeOK'
  BY <1>1, <1>2, ReturnType DEF IInv, TypeOK
<1>4. ShownWindowsActive' /\ FullScreenAlone' /\ NoObsoleteWindow'
  BY <1>1 DEF IInv, ShownWindowsActive, FullScreenAlone, NoObsoleteWindow
<1>5. OpenWindowsCounted' /\ FrameInv'
  BY <1>1 DEF IInv, OpenWindowsCounted, FrameInv
<1> QED
  BY <1>3, <1>4, <1>5 DEF IInv

LEMMA FrameStepIInv == IInv /\ FrameStep => IInv'
  BY BeginFrameIInv, SelectWindowsIInv, SkipLayerIInv, CreateWindowIInv, RoundtripDoneIInv,
     DrawLayerIInv, EndLayersIInv, TakeSnapshotsIInv DEF FrameStep

-------------------------------------------------------------------------------
(* The Wayland thread and the session.                                     *)

LEMMA CloseDispatchIInv ==
  ASSUME IInv, NEW k \in Keys, CloseDispatch(k)
  PROVE  IInv'
<1> USE DEF CloseDispatch, winVars
<1>1. TypeOK'
  BY DEF IInv, TypeOK
<1>2. ShownWindowsActive' /\ FullScreenAlone' /\ NoObsoleteWindow'
  BY DEF IInv, ShownWindowsActive, FullScreenAlone, NoObsoleteWindow
<1>3. OpenWindowsCounted' /\ FrameInv'
  BY DEF IInv, OpenWindowsCounted, FrameInv
<1> QED
  BY <1>1, <1>2, <1>3 DEF IInv

LEMMA CloseRequestIInv == IInv /\ CloseRequest => IInv'
<1> SUFFICES ASSUME IInv, CloseRequest
             PROVE  IInv'
  OBVIOUS
<1> USE DEF CloseRequest, winVars
<1>1. active_apps' \in {"none", active_apps}
  OBVIOUS
<1>2. TypeOK'
  BY <1>1 DEF IInv, TypeOK
<1>3. ShownWindowsActive' /\ FullScreenAlone' /\ NoObsoleteWindow'
  BY DEF IInv, ShownWindowsActive, FullScreenAlone, NoObsoleteWindow
<1>4. OpenWindowsCounted' /\ FrameInv'
  BY DEF IInv, OpenWindowsCounted, FrameInv
<1> QED
  BY <1>2, <1>3, <1>4 DEF IInv

LEMMA CloseFinishIInv == IInv /\ CloseFinish => IInv'
<1> SUFFICES ASSUME IInv, CloseFinish
             PROVE  IInv'
  OBVIOUS
<1> USE DEF CloseFinish
<1>1. hwc \notin {"layer", "roundtrip"}
  BY DEF MutexHeld
<1>2. TypeOK'
  BY DEF IInv, TypeOK, NoClose
<1>3. ShownWindowsActive' /\ FullScreenAlone'
  BY DEF IInv, ShownWindowsActive, FullScreenAlone
<1>4. NoObsoleteWindow' /\ OpenWindowsCounted' /\ FrameInv'
  BY <1>1 DEF IInv, NoObsoleteWindow, OpenWindowsCounted, FrameInv
<1> QED
  BY <1>2, <1>3, <1>4 DEF IInv

LEMMA CrashRestartIInv == IInv /\ CrashRestart => IInv'
<1> SUFFICES ASSUME IInv, CrashRestart
             PROVE  IInv'
  OBVIOUS
<1> USE DEF CrashRestart
<1>1. FirstWindows \in SUBSET Keys
  BY DEF Keys, FirstWindows
<1>2. Cardinality(FirstWindows) \in Nat
  BY <1>1, KeysFinite
<1>3. frame' \in [mode : {"none", FullScreen, "apps"}, layers : Frames \cup {<<>>},
                  blacklist : Blacklists \cup {<<>>}, todo : Seq(Layers \cup {"target"})]
  BY DEF NoFrame
<1>4. active_apps' \in {"none", FullScreen, "apps"}
  BY DEF IInv, TypeOK
<1>5. closer' \in [at : {"idle", "request", "lock"}, window : Keys \cup {Freed, NoKey}]
  BY DEF NoClose
<1>6. TypeOK'
  BY <1>1, <1>2, <1>3, <1>4, <1>5 DEF IInv, TypeOK
<1>7. ShownWindowsActive' /\ FullScreenAlone' /\ NoObsoleteWindow'
  BY DEF ShownWindowsActive, FullScreenAlone, NoObsoleteWindow, FirstWindows
<1>8. OpenWindowsCounted' /\ FrameInv'
  BY DEF OpenWindowsCounted, FrameInv, FirstWindows
<1> QED
  BY <1>6, <1>7, <1>8 DEF IInv

LEMMA SetActiveAppsIInv ==
  ASSUME IInv, NEW mode \in Modes, SetActiveApps(mode)
  PROVE  IInv'
<1> USE DEF SetActiveApps, winVars
<1>1. TypeOK'
  BY ModesAssumption DEF IInv, TypeOK
<1>2. ShownWindowsActive' /\ FullScreenAlone' /\ NoObsoleteWindow'
  BY DEF IInv, ShownWindowsActive, FullScreenAlone, NoObsoleteWindow
<1>3. OpenWindowsCounted' /\ FrameInv'
  BY DEF IInv, OpenWindowsCounted, FrameInv
<1> QED
  BY <1>1, <1>2, <1>3 DEF IInv

LEMMA NextIInv == IInv /\ [Next]_vars => IInv'
<1> SUFFICES ASSUME IInv, [Next]_vars
             PROVE  IInv'
  OBVIOUS
<1>1. CASE UNCHANGED vars
  BY <1>1 DEF vars, IInv, TypeOK, ShownWindowsActive, FullScreenAlone, NoObsoleteWindow,
              OpenWindowsCounted, FrameInv
<1> QED
  BY <1>1, FrameStepIInv, RoundtripStuckIInv, CloseDispatchIInv, CloseRequestIInv, CloseFinishIInv,
     CrashRestartIInv, SetActiveAppsIInv DEF Next

THEOREM Invariance == Spec => []IInv
  BY InitIInv, NextIInv, PTL DEF Spec

-------------------------------------------------------------------------------
(* The theorems.                                                           *)

\* The variables keep their types, the frame's locals and the handler's among
\* them, whatever the modes and frames.
THEOREM TypeCorrect == Spec => []TypeOK
  BY Invariance, PTL DEF IInv

\* What the threads find in display->windows has its surface.
THEOREM ShownActive == Spec => []ShownWindowsActive
  BY Invariance, PTL DEF IInv

\* The full screen window never stands beside another.
THEOREM FullScreenOnly == Spec => []FullScreenAlone
  BY Invariance, PTL DEF IInv

\* A multi window frame draws in windows of its own tasks only.
THEOREM NoObsolete == Spec => []NoObsoleteWindow
  BY Invariance, PTL DEF IInv

\* waydroid.open_windows is the number of windows whenever there is one.
THEOREM WindowsCounted == Spec => []OpenWindowsCounted
  BY Invariance, PTL DEF IInv

-------------------------------------------------------------------------------
(* The life cycle of a window.                                             *)

LEMMA InitLife == Init => Life!Init
  BY DEF Init, Life!Init, FirstWindows, NoClose

\* Whatever is deleted, the abstract specification forgets it.
LEMMA DeleteForgets ==
  ASSUME IInv, NEW S \in SUBSET Keys, NEW lastNow, Delete(S, lastNow)
  PROVE  Life!Next
<1>1. Life!Forget(S)
  BY ZenonT(40) DEF Delete, Life!Forget, IInv, TypeOK
<1> QED
  BY <1>1 DEF Life!Next

\* Each step is a step of the life cycle or leaves it as it was.
LEMMA StepLife ==
  ASSUME IInv, [Next]_vars
  PROVE  [Life!Next]_(Life!lifeVars)
<1> USE DEF Life!lifeVars
<1>1. windows \in SUBSET Keys
  BY DEF IInv, TypeOK
<1>2. CASE SelectWindows
  <2>1. PICK S \in SUBSET Keys : \E lastNow : Delete(S, lastNow)
    <3>1. Leftover(KeyOrder, (windows \ active) \cup (windows \cap {FullScreen}), frame.layers)
            \in SUBSET Keys
      BY <1>1, LeftoverSubset
    <3> QED
      BY <1>1, <1>2, <3>1
         DEF SelectWindows, SelectNone, SelectFullScreen, SelectSingleWindow, SelectMultiWindows
  <2> QED
    BY <2>1, DeleteForgets
<1>3. ASSUME NEW k \in Keys, CreateWindow(k)
      PROVE  Life!Next
  <2>1. Life!Create(k)
    BY <1>3 DEF CreateWindow, Life!Create, IInv, TypeOK, ShownWindowsActive
  <2> QED
    BY <2>1 DEF Life!Next
<1>4. CASE CloseFinish
  <2>1. PICK k \in {closer.window} \cup (IF closer.window = Freed THEN windows ELSE {}) :
          active' = active \ {k} /\ windows' = windows
    BY <1>4 DEF CloseFinish
  <2>2. closer.at = "lock" /\ closer'.at = "idle" /\ active \subseteq Keys /\ Freed \notin Keys
    BY <1>4, KeyAssumption DEF CloseFinish, NoClose, IInv, TypeOK
  <2>3. CASE k \in active
    <3>1. k \in Keys /\ Life!CloseByUser(k)
      BY <2>1, <2>2, <2>3 DEF Life!CloseByUser, IInv, ShownWindowsActive
    <3> QED
      BY <3>1 DEF Life!Next
  <2>4. CASE k \notin active
    <3>1. closer.window \notin active
      BY <2>1, <2>2, <2>4
    <3>2. Life!Ignore
      BY <2>1, <2>2, <2>4, <3>1 DEF Life!Ignore
    <3> QED
      BY <3>2 DEF Life!Next
  <2> QED
    BY <2>3, <2>4
<1>5. CASE CrashRestart
  BY <1>5 DEF CrashRestart, FirstWindows, NoClose, Life!Next, Life!Restart
<1>6. ASSUME UNCHANGED <<windows, active, closer>>
      PROVE  UNCHANGED Life!lifeVars
  BY <1>6
<1>7. ASSUME NEW layers \in Frames, NEW blacklist \in Blacklists, NEW geometry \in BOOLEAN,
             NEW cursor \in SUBSET CursorWindows, BeginFrame(layers, blacklist, geometry, cursor)
      PROVE  UNCHANGED <<windows, active, closer>>
  BY <1>7 DEF BeginFrame
<1>8. ASSUME NEW k \in Keys, DrawLayer(k) \/ RoundtripStuck(k)
      PROVE  UNCHANGED <<windows, active, closer>>
  BY <1>8 DEF DrawLayer, RoundtripStuck, winVars
<1>9. ASSUME SkipLayer \/ RoundtripDone \/ EndLayers \/ TakeSnapshots
      PROVE  UNCHANGED <<windows, active, closer>>
  BY <1>9 DEF SkipLayer, RoundtripDone, EndLayers, TakeSnapshots, winVars
<1>10. ASSUME NEW mode \in Modes, SetActiveApps(mode)
       PROVE  UNCHANGED <<windows, active, closer>>
  BY <1>10 DEF SetActiveApps, winVars
<1>11. ASSUME NEW k \in Keys, CloseDispatch(k)
       PROVE  Life!Next
  <2>1. Life!Ask(k)
    BY <1>11 DEF CloseDispatch, winVars, Life!Ask
  <2> QED
    BY <2>1 DEF Life!Next
<1>12. CASE CloseRequest
  BY <1>12 DEF CloseRequest, winVars, IInv, TypeOK
<1>13. CASE UNCHANGED vars
  BY <1>13 DEF vars
<1> QED
  BY <1>2, <1>3, <1>4, <1>5, <1>6, <1>7, <1>8, <1>9, <1>10, <1>11, <1>12, <1>13 DEF Next, FrameStep

\* The threads implement the life cycle: a window the user has closed stays
\* closed until hwc_set throws it away, across stale pointers and restarts.
THEOREM LifecycleImplemented == Spec => LifecycleRefinement
<1>1. IInv /\ [Next]_vars => [Life!Next]_(Life!lifeVars)
  BY StepLife
<1> QED
  BY <1>1, InitLife, Invariance, PTL DEF Spec, LifecycleRefinement, Life!Spec

-------------------------------------------------------------------------------
(* The buffers of snapshots.                                               *)

\* No change of geometry is waiting to reach the buffers, and none that a window
\* has drawn has been destroyed.
BuffersKept == ~geo_changed /\ \A k \in Keys : last[k] # "freed"

\* Nothing changes where no buffer is thrown away.
LEMMA DangleNone ==
  ASSUME last \in [Keys -> {"null", "live"}]
  PROVE  Dangle({}) = last
  BY DEF Dangle

\* Deleting windows forgets their buffers and frees none that another uses.
LEMMA DeleteKeepsBuffers ==
  ASSUME NEW S, NEW lastNow \in [Keys -> {"null", "live"}], Delete(S, lastNow)
  PROVE  \A k \in Keys : last'[k] # "freed"
  BY DEF Delete

LEMMA LastUnfreed ==
  ASSUME TypeOK, BuffersKept, NEW S
  PROVE  last \in [Keys -> {"null", "live"}] /\ ResetLast(S) \in [Keys -> {"null", "live"}]
<1>1. last \in [Keys -> {"null", "live"}]
  BY DEF TypeOK, BuffersKept
<1> QED
  BY <1>1 DEF ResetLast

LEMMA StepBuffers ==
  ASSUME ~UseSubsurface, ~ShmBuffers, IInv, BuffersKept, [Next]_vars
  PROVE  BuffersKept'
<1> USE DEF BuffersKept
<1>1. TypeOK /\ last \in [Keys -> {"null", "live"}]
  BY LastUnfreed DEF IInv
<1>2. ASSUME NEW layers \in Frames, NEW blacklist \in Blacklists, NEW geometry \in BOOLEAN,
             NEW cursor \in SUBSET CursorWindows, BeginFrame(layers, blacklist, geometry, cursor)
      PROVE  BuffersKept'
  <2>1. cursor = {} /\ geo_changed' = FALSE
    BY <1>2, ConfigAssumption DEF CursorWindows, BeginFrame
  <2>2. last' = last
    BY <1>1, <1>2, <2>1, DangleNone DEF BeginFrame
  <2> QED
    BY <2>1, <2>2
<1>3. CASE SelectWindows
  <2> SUFFICES \A k \in Keys : last'[k] # "freed"
    BY <1>3 DEF SelectWindows
  <2>1. CASE SelectNone
    BY <1>1, <2>1, DeleteKeepsBuffers DEF SelectNone
  <2>2. CASE SelectFullScreen
    <3>1. ResetLast({FullScreen}) \in [Keys -> {"null", "live"}]
      BY <1>1, LastUnfreed
    <3> QED
      BY <2>2, <3>1, DeleteKeepsBuffers DEF SelectFullScreen
  <2>3. CASE SelectSingleWindow
    <3>1. \A T : ResetLast(T) \in [Keys -> {"null", "live"}]
      BY <1>1, LastUnfreed
    <3> QED
      BY <1>1, <2>3, <3>1, DeleteKeepsBuffers DEF SelectSingleWindow
  <2>4. CASE SelectMultiWindows
    <3>1. ResetLast(ToSet(frame.layers)) \in [Keys -> {"null", "live"}]
      BY <1>1, LastUnfreed
    <3> QED
      BY <2>4, <3>1, DeleteKeepsBuffers DEF SelectMultiWindows
  <2> QED
    BY <1>3, <2>1, <2>2, <2>3, <2>4 DEF SelectWindows
<1>4. ASSUME NEW k \in Keys, CreateWindow(k) \/ DrawLayer(k)
      PROVE  BuffersKept'
  <2>1. CASE CreateWindow(k)
    BY <1>1, <2>1 DEF CreateWindow
  <2>2. CASE DrawLayer(k)
    <3>1. last' = [last EXCEPT ![k] = "live"] /\ UNCHANGED geo_changed
      BY <1>1, <2>2, DangleNone DEF DrawLayer, Replaceable
    <3> QED
      BY <1>1, <3>1
  <2> QED
    BY <1>4, <2>1, <2>2
<1>5. CASE EndLayers
  BY <1>5 DEF EndLayers, winVars
<1>6. CASE CrashRestart
  BY <1>6 DEF CrashRestart
<1>7. ASSUME UNCHANGED <<last, geo_changed>>
      PROVE  BuffersKept'
  BY <1>7
<1>8. ASSUME SkipLayer \/ RoundtripDone \/ TakeSnapshots \/ CloseRequest \/ CloseFinish
      PROVE  UNCHANGED <<last, geo_changed>>
  BY <1>1, <1>8, DangleNone DEF Replaceable, SkipLayer, RoundtripDone, TakeSnapshots, CloseRequest, CloseFinish, winVars
<1>9. ASSUME NEW k \in Keys, RoundtripStuck(k) \/ CloseDispatch(k)
      PROVE  UNCHANGED <<last, geo_changed>>
  BY <1>9 DEF RoundtripStuck, CloseDispatch, winVars
<1>10. ASSUME NEW mode \in Modes, SetActiveApps(mode)
       PROVE  UNCHANGED <<last, geo_changed>>
  BY <1>10 DEF SetActiveApps, winVars
<1>11. CASE UNCHANGED vars
  BY <1>11 DEF vars
<1> QED
  BY <1>2, <1>3, <1>4, <1>5, <1>6, <1>7, <1>8, <1>9, <1>10, <1>11 DEF Next, FrameStep

\* With buffers of the graphics memory and without subsurfaces each of the three
\* ways to destroy a buffer is shut: the worker looks into none that has gone,
\* whichever snapshots fail and however often a window waits for its own.
THEOREM BuffersLive ==
  ASSUME ~UseSubsurface, ~ShmBuffers
  PROVE  Spec => []SnapshotBufferLive
<1>1. Init => BuffersKept
  BY DEF Init, BuffersKept
<1>2. IInv /\ BuffersKept /\ [Next]_vars => BuffersKept'
  BY StepBuffers
<1>3. IInv /\ BuffersKept => SnapshotBufferLive
  BY DEF IInv, TypeOK, BuffersKept, SnapshotBufferLive, SnapshotJobs
<1> QED
  BY <1>1, <1>2, <1>3, Invariance, PTL DEF Spec
===============================================================================
