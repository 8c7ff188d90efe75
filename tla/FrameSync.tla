------------------------------ MODULE FrameSync ------------------------------
(***************************************************************************)
(* A frame of the Wayland composer HAL and the time of the next one: which *)
(* layers are handed to the compositor and in which order, who closes      *)
(* their acquire fences, and when the thread that says "vsync" wakes up.   *)
(*                                                                         *)
(*   SurfaceFlinger's thread   hwc_prepare and hwc_set, layer by layer     *)
(*   its event thread          hwc_event_control                           *)
(*   the vsync thread          hwc_vsync_thread                            *)
(*   the Wayland thread        feedback_presented, feedback_discarded; it  *)
(*                             sends requests other threads have queued    *)
(*   the GPU                   signals the fences                          *)
(*                                                                         *)
(* Which window a layer belongs to is WindowManager's subject: here a      *)
(* layer may always turn out to have none. The buffers, the cursor layer   *)
(* and the retire fence are left out.                                      *)
(*                                                                         *)
(* A definition marked Variant is no part of the model: it is the one      *)
(* below it with a plausible mistake, and shows that a property sees it.   *)
(***************************************************************************)
EXTENDS Integers, Sequences, FiniteSets

CONSTANTS
  Frames,  \* the lists of layers SurfaceFlinger hands to hwc_prepare
  Period,  \* vsync_period_ns
  Wrap     \* the number of values of an unsigned number of nanoseconds

Layer == [type : {"framebuffer", "overlay", "target"}, skip : BOOLEAN, fence : BOOLEAN]

\* The last layer, and no other, is the one SurfaceFlinger composes into.
ASSUME FramesAssumption ==
  \A f \in Frames :
    /\ f \in Seq(Layer) /\ f # <<>>
    /\ ~f[Len(f)].skip
    /\ \A i \in DOMAIN f : f[i].type = "target" <=> i = Len(f)

\* The period is less than a second, or nanosleep would refuse to wait: an
\* output of two or more frames a second.
ASSUME TimeAssumption == Period \in Nat \ {0} /\ Wrap \in Nat /\ Period < Wrap

Times == 0..(Wrap - 1)

VARIABLES
  use_subsurface, multi_windows,  \* constant after hwc_open
  hwc,        \* where SurfaceFlinger's thread is
  layers,     \* the layers of the frame, as hwc_prepare has left them
  pos,        \* l of the loop over the layers
  drawn,      \* the layers committed, in the order of their surfaces
  closes,     \* how often the fence of each layer has been closed
  signalled,  \* the layers whose fence has signalled, or that have none
  timedOut,   \* those whose wait of 100 ms has ended first
  pending,    \* those committed that the compositor does not show yet
  vs,         \* where the vsync thread is
  enabled,    \* vsync_callback_enabled
  was,        \* vsync_enabled, the thread's copy
  procs,      \* whether the callbacks have been registered
  rt, wait,   \* the thread's clock reading and the time it sleeps
  last,       \* last_vsync_ns
  late        \* callbacks made since vsync was turned off

config == <<use_subsurface, multi_windows>>
frameVars == <<hwc, layers, pos, drawn, closes, signalled, timedOut, pending>>
threadVars == <<vs, was, rt, wait, late>>
vars == <<config, frameVars, threadVars, enabled, procs, last>>

Positions == DOMAIN layers
Target == Len(layers)
Skipped == {i \in Positions : layers[i].skip}

TypeOK ==
  /\ use_subsurface \in BOOLEAN /\ multi_windows \in BOOLEAN
  /\ hwc \in {"idle", "layer", "wait", "flush", "sync"}
  /\ layers \in Seq(Layer)
  /\ pos \in 1..(Len(layers) + 1)
  /\ drawn \in Seq(Positions)
  /\ closes \in [Positions -> Nat]
  /\ signalled \subseteq Positions /\ timedOut \subseteq Positions /\ pending \subseteq Positions
  /\ vs \in {"asleep", "awake", "callback", "gone"}
  /\ enabled \in BOOLEAN /\ was \in BOOLEAN /\ procs \in BOOLEAN
  /\ rt \in Times /\ wait \in 0..Period /\ last \in Times
  /\ late \in Nat

-------------------------------------------------------------------------------
(* hwc_prepare.                                                            *)

\* A layer that stands between two that SurfaceFlinger has to compose.
Between(f, i) == \E j, k \in DOMAIN f : f[j].skip /\ f[k].skip /\ j < i /\ i < k

\* What hwc_prepare makes of the type of layer i: first a layer in between is
\* left to SurfaceFlinger, then the type the composer does not use is replaced
\* by the other one, in a layer in between as well.
Demoted(f, i) == IF ~multi_windows /\ Between(f, i) THEN "framebuffer" ELSE f[i].type

PreparedType(f, i) ==
  IF f[i].type = "target" \/ f[i].skip THEN f[i].type
  ELSE IF Demoted(f, i) = (IF use_subsurface THEN "framebuffer" ELSE "overlay")
  THEN IF use_subsurface THEN "overlay" ELSE "framebuffer"
  ELSE Demoted(f, i)

Prepared(f) == [i \in DOMAIN f |-> [f[i] EXCEPT !.type = PreparedType(f, i)]]

-------------------------------------------------------------------------------
(* The loop of hwc_set.                                                    *)

\* Variant: skipped starts as (0, 0), so there always is a first one.
FirstSkippedZero ==
  {i \in {1} : use_subsurface /\ ~multi_windows}

\* The first layer SurfaceFlinger has composed, in whose place the target is
\* drawn; none where every layer, or only the target, is drawn anyway.
FirstSkipped ==
  {i \in Skipped : use_subsurface /\ ~multi_windows /\ \A j \in Skipped : i <= j}

AtLayer == hwc = "layer" /\ pos \in Positions

\* The target has been handled in the place of another layer.
TargetHandled == FirstSkipped # {} /\ pos = Target

Handled == IF pos \in FirstSkipped THEN Target ELSE pos

\* The fences of the layers S are closed, if they have one.
Closed(S) == [i \in Positions |-> IF i \in S /\ layers[i].fence THEN closes[i] + 1 ELSE closes[i]]

Init ==
  /\ use_subsurface \in BOOLEAN /\ multi_windows \in BOOLEAN
  /\ multi_windows => use_subsurface
  /\ hwc = "idle" /\ layers = <<>> /\ pos = 1 /\ drawn = <<>> /\ closes = <<>>
  /\ signalled = {} /\ timedOut = {} /\ pending = {}
  /\ vs = "asleep" /\ enabled = TRUE /\ was = FALSE /\ procs = FALSE
  /\ rt = 0 /\ wait \in 1..Period /\ last \in Times
  /\ late = 0

\* hwc_prepare, and hwc_set up to its loop.
BeginFrame(f) ==
  /\ hwc = "idle"
  /\ hwc' = "layer"
  /\ layers' = Prepared(f)
  /\ pos' = 1
  /\ closes' = [i \in DOMAIN f |-> 0]
  /\ signalled' = {i \in DOMAIN f : ~f[i].fence}
  /\ UNCHANGED <<config, drawn, timedOut, pending, threadVars, enabled, procs, last>>

\* No window is to be shown: all fences are closed, and nothing is drawn.
ShowNothing ==
  /\ hwc = "layer" /\ pos = 1
  /\ hwc' = "sync"
  /\ closes' = Closed(Positions)
  /\ UNCHANGED <<config, layers, pos, drawn, signalled, timedOut, pending, threadVars, enabled, procs, last>>

\* Variant: the target is handled, that is closed, a second time.
TargetTwice ==
  /\ AtLayer /\ TargetHandled
  /\ pos' = pos + 1
  /\ closes' = Closed({pos})
  /\ UNCHANGED <<config, hwc, layers, drawn, signalled, timedOut, pending, threadVars, enabled, procs, last>>

PassTarget ==
  /\ AtLayer /\ TargetHandled
  /\ pos' = pos + 1
  /\ UNCHANGED <<config, hwc, layers, drawn, closes, signalled, timedOut, pending, threadVars, enabled, procs, last>>

\* A layer SurfaceFlinger composes, or without a handle, a window or a buffer.
DropLayer ==
  /\ AtLayer /\ ~TargetHandled
  /\ pos' = pos + 1
  /\ closes' = Closed({pos, Handled})
  /\ UNCHANGED <<config, hwc, layers, drawn, signalled, timedOut, pending, threadVars, enabled, procs, last>>

\* With subsurfaces the overlays are drawn, otherwise the target; the target
\* also in the place of another layer. The commit of a subsurface has no effect
\* before its parent's. get_surface returns a surface or does not return.
CommitLayer ==
  /\ AtLayer /\ ~TargetHandled
  /\ ~layers[Handled].skip
  /\ layers[Handled].type = (IF use_subsurface THEN "overlay" ELSE "target") \/ Handled # pos
  /\ hwc' = "wait"
  /\ drawn' = Append(drawn, Handled)
  /\ pending' = pending \cup {Handled}
  /\ closes' = Closed({pos} \ {Handled})
  /\ UNCHANGED <<config, layers, pos, signalled, timedOut, threadVars, enabled, procs, last>>

\* Variant: the fence is polled, not waited for.
WaitNoTime ==
  /\ hwc = "wait"
  /\ UNCHANGED timedOut
  /\ hwc' = "layer"
  /\ pos' = pos + 1
  /\ closes' = Closed({Handled})
  /\ UNCHANGED <<config, layers, drawn, signalled, pending, threadVars, enabled, procs, last>>

\* sync_wait returns when the fence signals, at once where there is none, or
\* after 100 ms; the fence is closed.
Wait ==
  /\ hwc = "wait"
  /\ timedOut' = IF Handled \in signalled THEN timedOut ELSE timedOut \cup {Handled}
  /\ hwc' = "layer"
  /\ pos' = pos + 1
  /\ closes' = Closed({Handled})
  /\ UNCHANGED <<config, layers, drawn, signalled, pending, threadVars, enabled, procs, last>>

EndLayers ==
  /\ hwc = "layer" /\ pos \notin Positions
  /\ hwc' = "flush"
  /\ UNCHANGED <<config, layers, pos, drawn, closes, signalled, timedOut, pending, threadVars, enabled, procs, last>>

\* The commits of the parent surfaces, sent with all that is queued.
Flush ==
  /\ hwc = "flush"
  /\ hwc' = "sync"
  /\ pending' = {}
  /\ UNCHANGED <<config, layers, pos, drawn, closes, signalled, timedOut, threadVars, enabled, procs, last>>

EndFrame ==
  /\ hwc = "sync"
  /\ hwc' = "idle"
  /\ layers' = <<>> /\ pos' = 1 /\ drawn' = <<>> /\ closes' = <<>>
  /\ signalled' = {} /\ timedOut' = {}
  /\ UNCHANGED <<config, pending, threadVars, enabled, procs, last>>

\* A fence that has been closed may signal as well, which nobody sees.
Signal(i) ==
  /\ i \in Positions \ signalled /\ closes[i] = 0
  /\ signalled' = signalled \cup {i}
  /\ UNCHANGED <<config, hwc, layers, pos, drawn, closes, timedOut, pending, threadVars, enabled, procs, last>>

\* wl_display_dispatch on the Wayland thread sends what is queued before it
\* reads: a surface that has no parent is shown from then on.
DispatchFlush ==
  /\ ~use_subsurface /\ pending # {}
  /\ pending' = {}
  /\ UNCHANGED <<config, hwc, layers, pos, drawn, closes, signalled, timedOut, threadVars, enabled, procs, last>>

-------------------------------------------------------------------------------
(* Vsync.                                                                  *)

\* Variant: the frame that is going on is not counted.
TimeToLastVsync(now, since) ==
  (since + (((now - since) % Wrap) \div Period) * Period - now) % Wrap

\* time_to_sleep_to_next_vsync: all of it is unsigned.
TimeToNextVsync(now, since) ==
  (since + (((now - since) % Wrap) \div Period + 1) * Period - now) % Wrap

\* Variant: turned on once, it stays on.
WakeOnceOn ==
  /\ vs = "asleep"
  /\ vs' = "awake"
  /\ was' = (was \/ enabled)
  /\ rt' \in Times
  /\ wait' = 0
  /\ UNCHANGED <<config, frameVars, late, enabled, procs, last>>

\* The thread wakes up, copies the flag and reads the clock.
Wake ==
  /\ vs = "asleep"
  /\ vs' = "awake"
  /\ was' = enabled
  /\ rt' \in Times
  /\ wait' = 0
  /\ UNCHANGED <<config, frameVars, late, enabled, procs, last>>

\* The next wait is computed first; the callback is made without the lock. The
\* clock reading is of no use to the thread after that, but for the timestamp.
Reckon ==
  /\ vs = "awake"
  /\ wait' = TimeToNextVsync(rt, last)
  /\ vs' = IF was /\ procs THEN "callback" ELSE "asleep"
  /\ rt' = 0
  /\ UNCHANGED <<config, frameVars, was, late, enabled, procs, last>>

Callback ==
  /\ vs = "callback"
  /\ vs' = "asleep"
  /\ late' = IF enabled THEN late ELSE late + 1
  /\ UNCHANGED <<config, frameVars, was, rt, wait, enabled, procs, last>>

\* A signal handler ran on the thread: it breaks out of its loop for good.
Interrupted ==
  /\ vs = "asleep"
  /\ vs' = "gone"
  /\ was' = FALSE /\ wait' = 0
  /\ UNCHANGED <<config, frameVars, rt, late, enabled, procs, last>>

\* hwc_event_control for HWC_EVENT_VSYNC.
EventControl(on) ==
  /\ enabled' = on
  /\ late' = 0
  /\ UNCHANGED <<config, frameVars, vs, was, rt, wait, procs, last>>

RegisterProcs ==
  /\ ~procs /\ procs' = TRUE
  /\ UNCHANGED <<config, frameVars, threadVars, enabled, last>>

\* The compositor answers the feedback of a frame it has been sent, at any time
\* and as often as frames were. It may use another clock: presentation_clock_id
\* is ignored. A feedback that is discarded changes nothing.
Presented(time) ==
  /\ last' = time
  /\ UNCHANGED <<config, frameVars, threadVars, enabled, procs>>

-------------------------------------------------------------------------------
FrameStep ==
  \/ \E f \in Frames : BeginFrame(f)
  \/ ShowNothing
  \/ PassTarget \/ DropLayer \/ CommitLayer \/ Wait
  \/ EndLayers \/ Flush \/ EndFrame

VsyncStep == Wake \/ Reckon \/ Callback

Next ==
  \/ FrameStep
  \/ \E i \in Positions : Signal(i)
  \/ DispatchFlush
  \/ VsyncStep \/ Interrupted
  \/ \E on \in BOOLEAN : EventControl(on)
  \/ RegisterProcs
  \/ \E time \in Times : Presented(time)

Spec == Init /\ [][Next]_vars

-------------------------------------------------------------------------------
(* Properties.                                                             *)

\* Every path through hwc_set closes the acquire fence of each layer once, by
\* hand: also of the first skipped layer, which the target replaces, and of the
\* target, whose turn comes a second time.
FencesClosedOnce ==
  hwc = "sync" => \A i \in Positions : closes[i] = IF layers[i].fence THEN 1 ELSE 0

\* hwc_set commits a layer before it waits for its fence, so that what is sent
\* with the end of the frame is finished all the same, or its wait timed out.
FinishedWhenSent == hwc = "flush" => pending \subseteq signalled \cup timedOut

\* What the compositor draws from bottom to top: the layers SurfaceFlinger has
\* composed are all where the target is.
PlaceOf(i) ==
  {n \in DOMAIN drawn : drawn[n] = IF layers[i].skip \/ layers[i].type = "framebuffer" THEN Target ELSE i}

InOrder ==
  \A i, j \in Positions \ {Target} : i < j =>
    \A m \in PlaceOf(i), n \in PlaceOf(j) : m <= n

\* hwcomposer.cpp:746 "draw framebuffer target instead of skipped layers": the
\* layers keep the order SurfaceFlinger gave them on the screen, provided that
\* none stands between two skipped ones.
OrderKept ==
  hwc = "flush" /\ ~multi_windows /\ (\A i \in Positions : layers[i].skip \/ ~Between(layers, i)) => InOrder

\* hwcomposer.cpp:192 "skipped layers have to be composited by SurfaceFlinger;
\* so in order have correct z-ordering, we must ask SurfaceFlinger to composite
\* everything between the first and the last skipped layer".
SkippedInOrder == hwc = "flush" /\ ~multi_windows => InOrder

\* Once hwc_event_control has turned vsync off one callback may still come, the
\* one the thread had decided on; never a second.
VsyncStops == late <= 1

\* The thread sleeps for at most a period and never for nothing, whatever clock
\* the compositor uses; if it is the same one the thread wakes in phase with
\* the last frame that was presented.
WakesInPhase ==
  [][vs = "awake" /\ vs' # "awake" =>
       /\ wait' \in 1..Period
       /\ last <= rt => (rt + wait' - last) % Period = 0]_vars

===============================================================================
