---------------------------- MODULE WindowManager -----------------------------
(***************************************************************************)
(* The windows of the Wayland composer HAL and the threads that share them.*)
(*                                                                         *)
(*   SurfaceFlinger's thread   hwc_prepare and hwc_set, once per frame     *)
(*   the Wayland thread        xdg_toplevel_handle_close                   *)
(*   the session               sets the property waydroid.active_apps      *)
(*                                                                         *)
(* hwc_set holds windowsMutex from its decision about the windows to its   *)
(* return. The close handler is given a pointer to its window when it is   *)
(* dispatched and takes the mutex only later; create_window, called with   *)
(* the mutex held, makes a round trip that dispatches events itself.       *)
(*                                                                         *)
(* A window is named by its key in the map pdev->windows; a pointer to a   *)
(* window that has been deleted is Freed. The threads of the window        *)
(* service run under the mutex and change no variable of this module.      *)
(*                                                                         *)
(* A definition marked Variant is no part of the model: it is the one      *)
(* below it with a plausible mistake, and shows that a property sees it.   *)
(***************************************************************************)
EXTENDS LayerSelection, FiniteSets

CONSTANTS
  UseSubsurface,    \* persist.waydroid.use_subsurface, or multi windows
  MultiWindows,     \* persist.waydroid.multi_windows
  ShmBuffers,       \* buffers lie in shared memory: the gralloc or the compositor
                    \* has no others
  BackgroundStart,  \* waydroid.background_start
  Modes,            \* what the session sets waydroid.active_apps to
  Blacklists,       \* the lists waydroid.blacklist_apps holds, none empty
  Layers,           \* the names of layers
  Frames,           \* the sequences of layers SurfaceFlinger composes
  KeyOrder,         \* the keys of pdev->windows in the order of the map
  Freed

FullScreen == "Openfde"
InputMethod == "InputMethod"

Keys == Tasks \cup {FullScreen, InputMethod}
NoKey == NoTask

ASSUME ConfigAssumption ==
  /\ UseSubsurface \in BOOLEAN /\ MultiWindows \in BOOLEAN
  /\ ShmBuffers \in BOOLEAN /\ BackgroundStart \in BOOLEAN
  /\ MultiWindows => UseSubsurface
ASSUME KeyAssumption ==
  /\ FullScreen \notin Tasks /\ InputMethod \notin Tasks
  /\ KeyOrder \in Seq(Keys) /\ \A k \in Keys : \E i \in DOMAIN KeyOrder : KeyOrder[i] = k
  /\ NoTask \notin Keys /\ Freed \notin Keys /\ Freed # NoTask
  /\ IsFiniteSet(Tasks)
\* No surface of Android has the name of the full screen window.
ASSUME LayersAssumption == Frames \subseteq Seq(Layers) /\ FullScreen \notin Layers
ASSUME ModesAssumption == Modes \subseteq {"none", FullScreen, "apps"}

VARIABLES
  active_apps,  \* the property
  open_windows, \* the property waydroid.open_windows, a number
  windows,      \* pdev->windows: the keys with a window object
  active,       \* those whose isActive is set, that is, whose surfaces exist
  shown,        \* display->windows: those found by their surface
  last,         \* last_layer_buffer of each window: "null", "live" or "freed"
  snapshot,     \* the windows with a snapshot_buffer
  geo_changed,
  hwc,          \* where SurfaceFlinger's thread is
  frame,        \* the locals of hwc_set: mode, layers, blacklist, and the
                \* layers still to handle
  closer        \* the close handler: where it is and its window

winVars == <<windows, active, shown, last, snapshot>>
vars == <<active_apps, open_windows, windows, active, shown, last, snapshot, geo_changed, hwc, frame, closer>>

NoFrame == [mode |-> "none", layers |-> <<>>, blacklist |-> <<>>, todo |-> <<>>]
NoClose == [at |-> "idle", window |-> NoKey]

TypeOK ==
  /\ active_apps \in {"none", FullScreen, "apps"}
  /\ open_windows \in Nat
  /\ windows \subseteq Keys /\ active \subseteq Keys
  /\ shown \subseteq Keys /\ snapshot \subseteq Keys
  /\ last \in [Keys -> {"null", "live", "freed"}]
  /\ geo_changed \in BOOLEAN
  /\ hwc \in {"idle", "lock", "layer", "roundtrip", "stage", "stuck"}
  /\ frame \in [mode : {"none", FullScreen, "apps"}, layers : Frames \cup {<<>>},
                 blacklist : Blacklists \cup {<<>>}, todo : Seq(Layers \cup {"target"})]
  /\ closer \in [at : {"idle", "request", "lock"}, window : Keys \cup {Freed, NoKey}]

\* hwc_open: the first window is kept only if the session starts with it.
FirstWindows == IF BackgroundStart THEN {} ELSE {FullScreen}

Init ==
  /\ active_apps \in IF BackgroundStart THEN Modes ELSE {FullScreen}
  /\ open_windows = Cardinality(FirstWindows)
  /\ windows = FirstWindows
  /\ active = FirstWindows
  /\ shown = {}
  /\ last = [k \in Keys |-> "null"]
  /\ snapshot = {}
  /\ geo_changed = FALSE
  /\ hwc = "idle"
  /\ frame = NoFrame
  /\ closer = NoClose

MutexHeld == hwc \in {"layer", "roundtrip", "stage", "stuck"}

-------------------------------------------------------------------------------
(* Parts of the actions.                                                   *)

\* Variant: destroy_window leaves its surface in display->windows.
DeleteKeepsSurface(S, lastNow) ==
  /\ windows' = windows \ S
  /\ active' = active \ S
  /\ shown' = shown
  /\ last' = [k \in Keys |-> IF k \in S THEN "null" ELSE lastNow[k]]
  /\ snapshot' = snapshot \ S
  /\ closer' = IF closer.window \in S THEN [closer EXCEPT !.window = Freed] ELSE closer

\* destroy_window(w) for the windows of S, which leave the map: the pointer a
\* close handler was given to one of them dangles from now on.
Delete(S, lastNow) ==
  /\ windows' = windows \ S
  /\ active' = active \ S
  /\ shown' = shown \ (S \cap active)
  /\ last' = [k \in Keys |-> IF k \in S THEN "null" ELSE lastNow[k]]
  /\ snapshot' = snapshot \ S
  /\ closer' = IF closer.window \in S THEN [closer EXCEPT !.window = Freed] ELSE closer

\* The property is set whenever a window is erased from the map.
CountWindows ==
  open_windows' = IF windows' = windows THEN open_windows ELSE Cardinality(windows')

\* The end of hwc_set, which releases the mutex.
Return == hwc' = "idle" /\ frame' = NoFrame

\* With subsurfaces every layer is handled, otherwise the framebuffer target.
StartLayers ==
  /\ hwc' = "layer"
  /\ frame' = [frame EXCEPT !.todo = IF UseSubsurface THEN frame.layers ELSE <<"target">>]

\* lastLayer and last_layer_buffer of the windows a frame starts over with.
ResetLast(S) == [k \in Keys |-> IF k \in S \cap windows THEN "null" ELSE last[k]]

\* destroy_buffer for what the windows of S have drawn last: they keep a pointer.
Dangle(S) == [k \in Keys |-> IF k \in S /\ last[k] = "live" THEN "freed" ELSE last[k]]

\* The windows that may have the buffer of the handle get_wl_buffer is given:
\* if it is shm and has another size it is destroyed, to be made again.
Replaceable == IF ShmBuffers THEN Keys ELSE {}

\* The windows the layer of the cursor may have been drawn in last.
CursorWindows ==
  IF ~UseSubsurface THEN {} ELSE IF MultiWindows THEN {FullScreen} ELSE Keys

\* A set with the key of the window a layer is drawn in, empty if there is none.
KeysOf(layer) ==
  IF frame.mode = FullScreen THEN {FullScreen}
  ELSE IF ~MultiWindows THEN SingleTask(frame.layers, frame.blacklist)
  ELSE {k \in {layer} : (IsTid(k) /\ ShownInMulti(k, frame.blacklist)) \/ k = InputMethod}

-------------------------------------------------------------------------------
(* SurfaceFlinger's thread.                                                *)

\* hwc_prepare, and hwc_set up to the mutex: a new cursor throws away the buffer
\* of the old one, a change of geometry all buffers; the properties are read
\* before the mutex is taken.
BeginFrame(layers, blacklist, geometry, cursor) ==
  /\ hwc = "idle"
  /\ geo_changed' = (geo_changed \/ (geometry /\ UseSubsurface))
  /\ last' = Dangle(IF geo_changed' THEN Keys ELSE cursor)
  /\ frame' = [mode |-> IF ~BackgroundStart /\ "BootAnimation" \in ToSet(layers)
                        THEN FullScreen ELSE active_apps,
               layers |-> layers, blacklist |-> blacklist, todo |-> <<>>]
  /\ hwc' = "lock"
  /\ UNCHANGED <<active_apps, open_windows, windows, active, shown, snapshot, closer>>

\* Variant: windows the user has closed are passed over.
SelectNoneActive ==
  /\ frame.mode = "none"
  /\ Delete(active, last)
  /\ open_windows' = 0
  /\ Return

SelectNone ==
  /\ frame.mode = "none"
  /\ Delete(windows, last)
  /\ open_windows' = 0
  /\ Return

SelectFullScreen ==
  /\ frame.mode = FullScreen
  /\ Delete(IF FullScreen \in active THEN {} ELSE windows, ResetLast({FullScreen}))
  /\ StartLayers
  /\ UNCHANGED open_windows

\* Variant: the full screen window of an earlier mode is no leftover.
SelectSingleBeside ==
  /\ frame.mode = "apps" /\ ~MultiWindows
  /\ \/ /\ ~ShowWindow(frame.layers, frame.blacklist)
        /\ Delete(windows, last)
        /\ open_windows' = 0
        /\ Return
     \/ /\ ShowWindow(frame.layers, frame.blacklist)
        /\ Delete(Leftover(KeyOrder, windows \ active, frame.layers), ResetLast(SingleTask(frame.layers, frame.blacklist)))
        /\ CountWindows
        /\ StartLayers

SelectSingleWindow ==
  /\ frame.mode = "apps" /\ ~MultiWindows
  /\ \/ /\ ~ShowWindow(frame.layers, frame.blacklist)
        /\ Delete(windows, last)
        /\ open_windows' = 0
        /\ Return
     \/ /\ ShowWindow(frame.layers, frame.blacklist)
        /\ Delete(Leftover(KeyOrder, (windows \ active) \cup (windows \cap {FullScreen}), frame.layers),
                  ResetLast(SingleTask(frame.layers, frame.blacklist)))
        /\ CountWindows
        /\ StartLayers

\* Variant: a window the user has closed stays as long as it has layers.
SelectMultiInactive ==
  /\ frame.mode = "apps" /\ MultiWindows
  /\ Delete(windows \ ToSet(frame.layers), ResetLast(ToSet(frame.layers)))
  /\ CountWindows
  /\ StartLayers

SelectMultiWindows ==
  /\ frame.mode = "apps" /\ MultiWindows
  /\ Delete(windows \ (active \cap ToSet(frame.layers)), ResetLast(ToSet(frame.layers)))
  /\ CountWindows
  /\ StartLayers

\* From the mutex to the loop over the layers.
SelectWindows ==
  /\ hwc = "lock"
  /\ SelectNone \/ SelectFullScreen \/ SelectSingleWindow \/ SelectMultiWindows
  /\ UNCHANGED <<active_apps, geo_changed>>

AtLayer == hwc = "layer" /\ frame.todo # <<>>

NextLayer == frame' = [frame EXCEPT !.todo = Tail(@)]

\* A layer SurfaceFlinger composes itself, without a handle, for no window or
\* an inactive one, the cursor's, or one whose buffer cannot be made (again).
SkipLayer ==
  /\ AtLayer
  /\ NextLayer
  /\ \E replaced \in SUBSET Replaceable : last' = Dangle(replaced)
  /\ UNCHANGED <<active_apps, open_windows, windows, active, shown, snapshot, geo_changed, hwc, closer>>

\* Variant: a window the user has closed is opened again.
CreateWindowAgain(k) ==
  /\ AtLayer /\ k \in KeysOf(Head(frame.todo))
  /\ k \notin active
  /\ windows' = windows \cup {k}
  /\ active' = active \cup {k}
  /\ last' = [last EXCEPT ![k] = "null"]
  /\ snapshot' = snapshot \ {k}
  /\ hwc' = "roundtrip"
  /\ UNCHANGED <<active_apps, open_windows, shown, geo_changed, frame, closer>>

\* create_window, up to its round trip.
CreateWindow(k) ==
  /\ AtLayer /\ k \in KeysOf(Head(frame.todo))
  /\ k \notin windows
  /\ windows' = windows \cup {k}
  /\ active' = active \cup {k}
  /\ last' = [last EXCEPT ![k] = "null"]
  /\ snapshot' = snapshot \ {k}
  /\ hwc' = "roundtrip"
  /\ UNCHANGED <<active_apps, open_windows, shown, geo_changed, frame, closer>>

\* Variant: the property is set before the window is in the map.
RoundtripDoneEarly ==
  /\ hwc = "roundtrip"
  /\ open_windows' = Cardinality(windows) - 1
  /\ hwc' = "layer"
  /\ UNCHANGED <<active_apps, winVars, geo_changed, frame, closer>>

RoundtripDone ==
  /\ hwc = "roundtrip"
  /\ open_windows' = Cardinality(windows)
  /\ hwc' = "layer"
  /\ UNCHANGED <<active_apps, winVars, geo_changed, frame, closer>>

\* The round trip dispatches what is queued, in this thread: a handler that
\* takes windowsMutex (close, keyboard enter) never gets it. The close handler
\* has set the property by then.
RoundtripStuck(k) ==
  /\ hwc = "roundtrip"
  /\ k \in active
  /\ hwc' = "stuck"
  /\ active_apps' \in {active_apps, IF k = FullScreen THEN "none" ELSE active_apps}
  /\ UNCHANGED <<open_windows, winVars, geo_changed, frame, closer>>

\* Variant: get_wl_buffer replaces a buffer of any kind that has another size.
DrawLayerAnyKind(k) ==
  /\ AtLayer /\ k \in KeysOf(Head(frame.todo))
  /\ k \in windows \cap active
  /\ shown' = shown \cup {k}
  /\ \E replaced \in SUBSET Keys : last' = [Dangle(replaced) EXCEPT ![k] = "live"]
  /\ snapshot' = snapshot \ {k}
  /\ NextLayer
  /\ UNCHANGED <<active_apps, open_windows, windows, active, geo_changed, hwc, closer>>

\* get_wl_buffer, get_surface and the commit, for an active window. Other
\* windows may have drawn the buffer of the same handle.
DrawLayer(k) ==
  /\ AtLayer /\ k \in KeysOf(Head(frame.todo))
  /\ k \in windows \cap active
  /\ shown' = shown \cup {k}
  /\ \E replaced \in SUBSET Replaceable : last' = [Dangle(replaced) EXCEPT ![k] = "live"]
  /\ snapshot' = snapshot \ {k}
  /\ NextLayer
  /\ UNCHANGED <<active_apps, open_windows, windows, active, geo_changed, hwc, closer>>

\* Staged mode: the windows that were not drawn get a snapshot next.
EndLayers ==
  /\ hwc = "layer" /\ frame.todo = <<>>
  /\ geo_changed' = FALSE
  /\ \/ ~MultiWindows /\ frame.mode # FullScreen /\ hwc' = "stage" /\ frame' = frame
     \/ (MultiWindows \/ frame.mode = FullScreen) /\ Return
  /\ UNCHANGED <<active_apps, open_windows, winVars, closer>>

\* The windows whose last_layer_buffer snapshot_inactive_app_window looks into.
SnapshotJobs ==
  {k \in windows \ SingleTask(frame.layers, frame.blacklist) :
     k \notin snapshot /\ last[k] # "null"}

\* Those it goes on to make a snapshot for: isShm of a buffer that has been
\* destroyed may be anything.
SnapshotTargets == {k \in SnapshotJobs : ~ShmBuffers \/ last[k] = "freed"}

\* Variant: the thread waits for jobs it has not posted.
TakeSnapshotsNoPost ==
  /\ hwc = "stage" /\ SnapshotTargets = {}
  /\ Return
  /\ UNCHANGED <<active_apps, open_windows, winVars, geo_changed, closer>>

\* The jobs run on the EGL worker while this thread waits: see EglWorker. A job
\* ends without a snapshot if there is no memory for one.
TakeSnapshots ==
  /\ hwc = "stage"
  /\ \E made \in SUBSET SnapshotTargets : snapshot' = snapshot \cup made
  /\ Return
  /\ UNCHANGED <<active_apps, open_windows, windows, active, shown, last, geo_changed, closer>>

-------------------------------------------------------------------------------
(* xdg_toplevel_handle_close on the Wayland thread.                        *)

CloseDispatch(k) ==
  /\ closer.at = "idle"
  /\ k \in active
  /\ closer' = [at |-> "request", window |-> k]
  /\ UNCHANGED <<active_apps, open_windows, winVars, geo_changed, hwc, frame>>

\* The part before the mutex, which asks Android to remove the task, or turns
\* the full screen off, if there is a task service. The memory of a freed window
\* may hold another by now.
CloseRequest ==
  /\ closer.at = "request"
  /\ active_apps' \in IF closer.window \in {FullScreen, Freed} THEN {active_apps, "none"}
                      ELSE {active_apps}
  /\ closer' = [closer EXCEPT !.at = "lock"]
  /\ UNCHANGED <<open_windows, winVars, geo_changed, hwc, frame>>

\* Variant: the surface of the window is left in display->windows.
CloseFinishKeepsSurface ==
  /\ closer.at = "lock"
  /\ ~MutexHeld
  /\ active' = active \ {closer.window}
  /\ closer' = NoClose
  /\ UNCHANGED <<active_apps, open_windows, windows, shown, last, snapshot, geo_changed, hwc, frame>>

\* destroy_window(window, keep = true). What it does with a freed window is
\* undefined: it closes the window that has been allocated in its place, finds
\* an inactive one there, or crashes.
CloseFinish ==
  /\ closer.at = "lock"
  /\ ~MutexHeld
  /\ \E k \in {closer.window} \cup (IF closer.window = Freed THEN windows ELSE {}) :
       /\ active' = active \ {k}
       /\ shown' = shown \ {k}
  /\ closer' = NoClose
  /\ UNCHANGED <<active_apps, open_windows, windows, last, snapshot, geo_changed, hwc, frame>>

\* The composer service dies in the close handler, or in a job whose window has
\* lost its buffer or its surface, and is started again.
CrashRestart ==
  /\ \/ closer.at # "idle" /\ closer.window = Freed
     \/ hwc = "stage" /\ (\E k \in SnapshotJobs : last[k] = "freed")
     \/ hwc = "stage" /\ (\E k \in SnapshotTargets : k \notin active)
  /\ active_apps' = IF BackgroundStart THEN active_apps ELSE FullScreen
  /\ open_windows' = IF BackgroundStart THEN open_windows ELSE Cardinality(FirstWindows)
  /\ windows' = FirstWindows
  /\ active' = FirstWindows
  /\ shown' = {}
  /\ last' = [k \in Keys |-> "null"]
  /\ snapshot' = {}
  /\ geo_changed' = FALSE
  /\ hwc' = "idle"
  /\ frame' = NoFrame
  /\ closer' = NoClose

-------------------------------------------------------------------------------
SetActiveApps(mode) ==
  /\ active_apps' = mode
  /\ UNCHANGED <<open_windows, winVars, geo_changed, hwc, frame, closer>>

FrameStep ==
  \/ \E layers \in Frames, blacklist \in Blacklists, geometry \in BOOLEAN :
       \E cursor \in SUBSET CursorWindows : BeginFrame(layers, blacklist, geometry, cursor)
  \/ SelectWindows
  \/ SkipLayer
  \/ \E k \in Keys : CreateWindow(k) \/ DrawLayer(k)
  \/ RoundtripDone
  \/ EndLayers \/ TakeSnapshots

Next ==
  \/ FrameStep
  \/ \E k \in Keys : RoundtripStuck(k) \/ CloseDispatch(k)
  \/ CloseRequest \/ CloseFinish \/ CrashRestart
  \/ \E mode \in Modes : SetActiveApps(mode)

\* SurfaceFlinger keeps composing and a frame is straight-line code; a handler
\* that waits for the mutex gets it in the pause between two frames.
Fairness == WF_vars(FrameStep) /\ WF_vars(CloseRequest) /\ SF_vars(CloseFinish)

Spec == Init /\ [][Next]_vars /\ Fairness

-------------------------------------------------------------------------------
(* Safety.                                                                 *)

\* display->windows is walked by the keyboard handler and the window service,
\* which use what they find without a further test: each entry is a window
\* that exists and whose surface has not been destroyed.
ShownWindowsActive == shown \subseteq active /\ active \subseteq windows

\* hwcomposer.cpp:610 "Clear all open windows if there's any and just keep
\* "Waydroid"": across all changes of mode, closes and restarts the full
\* screen window never stands beside a window of an app.
FullScreenAlone == FullScreen \in windows => windows = {FullScreen}

\* hwcomposer.cpp:697 "Checking current open windows to detect and kill
\* obsolete ones": while a multi window frame is drawn no window is open for a
\* task that has no layer in it, or that the user has closed.
NoObsoleteWindow ==
  MultiWindows /\ frame.mode = "apps" /\ hwc \in {"layer", "roundtrip"} =>
    windows \subseteq active \cap ToSet(frame.layers)

\* The session reads waydroid.open_windows to learn how many windows are left.
\* Every path of hwc_set that changes the map has its own call of property_set,
\* but for the one that clears it for the full screen: there the number may be
\* stale while there is no window, and is right as soon as there is one.
OpenWindowsCounted ==
  hwc \in {"idle", "lock", "layer", "stage"} /\ windows # {} =>
    open_windows = Cardinality(windows)

\* The threads never lose a window nor a request of the user: whatever comes
\* between the dispatch of a close handler and its turn at the mutex, a window goes
\* through the phases of the abstract life cycle, and is closed by the handler
\* that was given it or by one whose own window has been deleted.
Life == INSTANCE WindowLifecycle
          WITH First <- FirstWindows, Astray <- Freed, open <- active, closed <- windows \ active,
               asked <- IF closer.at = "idle" THEN {} ELSE {closer.window}

LifecycleRefinement == Life!Spec

\* wayland-hwc.cpp:306 "Need a surface to draw and a non-SHM buffer to make
\* snapshot from": the buffer a job looks into, and makes the snapshot from, still
\* exists, however long ago its window has drawn it. It is so with buffers of the
\* graphics memory and without subsurfaces; nobody keeps it so: get_wl_buffer
\* spares buffers that are not shm, hwc_prepare notes a change of geometry for
\* subsurfaces only, and the layer of the cursor is drawn in no window.
SnapshotBufferLive ==
  hwc = "stage" => \A k \in SnapshotJobs : last[k] = "live"

-------------------------------------------------------------------------------
(* Liveness.                                                               *)

\* A frame comes to its end, unless the round trip of create_window dispatched
\* a handler that needs the mutex.
FrameEnds == hwc # "idle" ~> hwc \in {"idle", "stuck"}

\* A window the user closes goes away, even if frames keep being drawn in it.
CloseTakesEffect ==
  \A k \in Keys : closer.window = k ~> (k \notin shown \/ hwc = "stuck")

\* Once waydroid.active_apps stays "none" all windows go, and once it stays
\* "Openfde" all those of apps: also those that a frame which read the property
\* before the change has created since.
ModeTakesEffect ==
  /\ <>[](active_apps = "none") => <>[](windows = {}) \/ <>(hwc = "stuck")
  /\ <>[](active_apps = FullScreen) =>
       <>[](windows \subseteq {FullScreen}) \/ <>(hwc = "stuck")
===============================================================================
