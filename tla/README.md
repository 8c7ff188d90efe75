# TLA+ models of the Open FDE / Waydroid hardware layer

The repository holds the Android HALs of a container that shows Android on a
Linux desktop: a hardware composer that turns SurfaceFlinger's layers into
Wayland (or X11) windows and the desktop's input into Android input events, an
audio HAL on top of PulseAudio, and a number of small services. This directory
holds TLA+ models of the parts whose correctness depends on the order in which
threads, callbacks and failures come together, TLC configurations that check
them, and TLAPS proofs of what matters most.

`tlc -config <run>.cfg <module>` checks a run, `tlapm <module>_proof.tla` a proof
(`Audio_proof` and `Input_proof` are of two modules each).

## 1. Inventory

| part | state it keeps | operations | talks to | what is hard |
|---|---|---|---|---|
| window manager (`hwcomposer.cpp` `hwc_prepare`, `hwc_set`; `wayland-hwc.cpp` `create_window`, `destroy_window`, close handler) | `pdev->windows`, `window::isActive`, `display->windows`, `last_layer_buffer`, `snapshot_buffer`, the properties `waydroid.active_apps`, `waydroid.open_windows` | a frame of SurfaceFlinger, closing of a window by the user, change of a property by the session | compositor, session, EGL worker, task service | `windowsMutex` is taken late by the close handler and held across a round trip that dispatches events; stale pointers to windows, surfaces and buffers |
| layer selection (`hwc_set`) | none | the loops over layers, blacklist and windows | window manager | loops that decide by the last or the first element |
| EGL worker (`egl-tools.cpp`, `update_shm_buffer`, staged mode) | `egl_work_queue`, `egl_go`, `egl_done` | hand over jobs, run them | window manager | an unlocked list between two threads |
| pointer, touch and gestures (`wayland-hwc.cpp` 821-1780) | `touch_id`, `isTouchDown`, `isMouseLeftDown`, `lastAxisEventNanoSeconds`, `axis_simulation_two_finger_started`, two input pipes | Wayland's pointer, touch, gesture and seat events | InputFlinger through pipes | slots shared by real and emulated touches; events that never get their end; pipes that come, go and open late |
| keyboard (`wayland-hwc.cpp` 695-798) | `keysDown`, `ctrl_key_pressed`, an input pipe | keys, focus, seat events | InputFlinger through a pipe | keys held while the focus or the device goes |
| tablet (`wayland-hwc.cpp` 1888-2270) | tools, event number per tool, tool's surface | proximity, contact, motion, frame | InputFlinger | tools removed in mid-contact |
| vsync and feedback (`hwcomposer.cpp` 424-525, 1103-1140) | `last_vsync_ns`, `vsync_callback_enabled`, `procs` | timer thread, presentation feedback, `hwc_event_control`, `hwc_register_procs` | SurfaceFlinger, compositor | the callback runs outside the lock; unsigned times that wrap around, of a clock that may be another |
| fences and order of layers (`hwc_prepare`, the loop of `hwc_set`) | the types of layers, acquire fences, requests not yet sent | prepare and draw a frame | SurfaceFlinger, compositor, GPU | ten ways out of the loop, each of which has to close the right fences; a target that takes another layer's place |
| window service (`WaydroidWindow.cpp`) | locked pointer, idle inhibitor of each window | pointer capture, idle inhibition, minimise | compositor | objects outlive the window's surface |
| extension service (`extension.cpp`) | `layer_names`, `layer_handles_ext`, target layer | set name and handle of a layer | window manager, gralloc | binder threads write what `hwc_set` reads without a lock |
| buffers and cursor (`hwcomposer.cpp` 91-156, 249-422) | `buffer_map`, cursor surface, `mouse_icon_addr`, `serial` | get or make the buffer of a handle, release, draw or hide the cursor | compositor | the cursor belongs to two threads |
| composer for X11 (`hwcomposerx11`) | as the Wayland one, `xcb` windows | as the Wayland one, an event loop of its own | X server | as above |
| audio streams (`audio_hw.c`) | per stream: standby, PCM, mutex; per device: active streams, mutex | write, read, standby, routing, open, close | AudioFlinger, PulseAudio | opposite lock orders, starts that fail in the middle, retries with locks held |
| PulseAudio volume (`pa_volume_ctl.c`) | context, operation in flight | get and set volume and mute | PulseAudio | callbacks of a loop in another thread, lost connection |
| gralloc (`gralloc.cpp`, `gralloc_gbm.cpp`) | registered handles, `locked_for` of each buffer object | alloc, register, lock, unlock | GBM | nested and mixed locks, use by several processes |
| gatekeeper (`SoftGateKeeper*`) | failure record per user | enroll, verify | keystore | throttling over restarts and clocks |
| gps (`gps_open_fde.cpp`) | state, callbacks, control descriptors | init, start, stop, cleanup, polling thread | geoclue | commands through a pipe to a thread that ends |
| task service (`WaydroidTask.cpp`) | none | forwards to the activity manager | | |
| sensors, lights, power, vibrator, health, memtrack | none | stubs and constants | | |

What makes each correct, in short: **window manager**: a window the user
closed does not come back by itself, the full screen and the windows of apps
exclude each other, nothing is drawn in or made from an object that has been
destroyed, closes and mode changes take effect in the end; **layer selection**:
the loops honour the blacklist; **EGL worker**: synchronous, each job once;
**input**: what is pressed or touched in Android has a cause that still holds,
slots are distinct, no finger and no key stays down;
**vsync**: at most the callback that was under way comes while it is off, and
the wait is never nothing nor more than a period; **frames**: each fence is
closed once, nothing unfinished is sent, layers keep their order;
**audio**: documented lock preconditions hold, a transfer has a PCM, a stream
in standby has none, every call returns; **PulseAudio volume**: a call that ends
well has done all of its work, on the device it was for, and every call returns;
**gralloc**: the map names living buffers, locks add up, an address given out
stays mapped; **gps**: a fix is of one sentence, the newest, and never older than
the one before, and starts and stops are obeyed.

The repository has no documentation of its own beside comments; the
properties that quote one name its line.

## 2. Plan

The order is by what the rest of the system hangs on. The first ten rows are
done, the others are left.

| step | module | composes / refines | runs and bounds | theorems |
|---|---|---|---|---|
| 1 | `EglWorker` | refines `SyncCall` | 2 jobs, batches of 3 | types, exclusion, run once, hand-off, refinement |
| 2 | `LayerSelection`, with its inputs in `LayerFrames` | used by 3 | frames of 3 layers, lists of 2 | types, loops, blacklist |
| 3 | `WindowManager` | extends 2, refines `WindowLifecycle` | 2 tasks, frames of 2 layers | types, all safety invariants, refinement |
| 4 | `AudioStreams` | | 2 threads, 2 retries | types, lock preconditions, transfers, standby, no deadlock |
| 5 | `TouchInput`: slots, emulated touches, scrolling, gestures, seat capabilities, pipes | | 4 fingers, table of 3 slots | types and all safety properties |
| 6 | `Keyboard`: keys held across focus changes and pipes | | 5 keys | types and all safety properties |
| 7 | `Gralloc`: handles, buffer objects, lock counts | | 2 addresses, 3 buffer objects, 2 locks | types, map, locks, mappings, sizes |
| 8 | `FrameSync`: fences, order of layers, vsync | | 4 frames of up to 3 layers and the target, clock of 5 values | types, fences, order, waits, vsync |
| 9 | `Gps`: servers, hosts, the HAL's thread | | 2 inits, 2 sentences, 3 descriptors | types, fixes, sessions, order, nothing lost |
| 10 | `PaVolume`: chains of callbacks | | 2 sinks, 2 sources, a call, a change | types and all safety properties |
| 11 | `WindowService`: locked pointers and relative pointer over windows and devices | with 3 | 2 windows | locks and relative motion |
| 12 | `Tablet`: tools, the surface and the touch button they share | the pipes as in 6 | 2 tools | no contact without proximity |
| 13 | `X11Windows`: what differs from 3 | | as 3 | |

## 3. The models

### EglWorker and SyncCall

`SyncCall` says what SurfaceFlinger's thread expects: it hands over jobs, each
runs once and in order, the call returns after the last. `EglWorker` is the
protocol: `Push` is `egl_work_queue.push_back`, `PostGo` and `WaitDone` the
`sem_post` and `sem_wait` of `update_shm_buffer` and of the staged mode of
`hwc_set`, `WaitGo`, `RunJob`, `ClearQueue`, `PostDone` the body of `egl_loop`,
each access of a shared variable a step. `batch` and `ran` are history
variables. The refinement maps `phase` to whether the caller waits.

Run `egl_worker`: two jobs, batches up to three. Two jobs are what it takes to
see a wrong order, three places to see one repeated or left behind. The queue is
one thread's at a time, and the refinement says that a call runs its batch.

Fairness: the worker is a loop without exit; a thread waiting on a posted
semaphore goes on. Nothing says that a next frame comes.

### LayerSelection

The decisions of `hwc_set` as operators on a frame (a sequence of layers, each
a task or a name), the blacklist (a sequence of packages), and the windows. The
loops appear twice: as folds that keep the order, flags and `break` of the code,
and as case forms (`ShowWindow`, `SingleTask`, `Leftover`), which the window
manager's model uses. `LayerFrames` builds frames, lists and sets of windows step
by step, and `MCLayerSelection` gives it tasks and apps.

Run `layer_selection` (frames up to three layers over three tasks, lists up to
two): both forms agree, also on the windows left over, a list with one entry is
honoured, and multi window mode honours any list. Three
layers are enough for a first, a last and one between; the loops carry a flag
and one task from layer to layer.

`shouldCloseLeftover` is not set back between windows, so a closed window with
layers left keeps all closed windows after it in the map, as `Leftover` says.

### WindowManager and WindowLifecycle

Threads: SurfaceFlinger's (`BeginFrame`, `SelectWindows`, one step for each
layer, `CreateWindow` with the round trip as a step of its own, `EndLayers`,
`TakeSnapshots`), the Wayland thread's close handler (`CloseDispatch`,
`CloseRequest` before the mutex, `CloseFinish` under it), and the session
(`SetActiveApps`).

| variable | code |
|---|---|
| `windows` | keys of `pdev->windows` |
| `active` | those with `isActive` |
| `shown` | `display->windows`, by key instead of surface |
| `last`, `snapshot` | `last_layer_buffer`, `snapshot_buffer`; "freed" is a pointer to a buffer that has been destroyed |
| `frame` | locals of `hwc_set` |
| `closer` | the handler's window, `Freed` once it has been deleted |

Undefined behaviour: a close handler whose window was deleted while it waited
(`CloseFinish` with `Freed`) may find another window at that address, nothing
of interest, or crash (`CrashRestart`, after which init starts the service
again and only the properties survive). A round trip inside `create_window` may dispatch a handler
that locks `windowsMutex` again: `hwc = "stuck"`, from which nothing returns. The
liveness properties say so explicitly, since the code does not exclude it.

Buffers. Three calls destroy a buffer that a window may have drawn last, and leave
the window its pointer: a change of geometry (`hwc_prepare`, with subsurfaces),
a shm buffer whose handle comes with another size (`get_wl_buffer`, `Replaceable`), and
the cursor's, each time the cursor is refreshed (`erase_cursor_layer_buffer`,
`CursorWindows`). `Dangle` is what they do to `last`; which windows share the buffer's
handle is any set. `SnapshotJobs` are the windows whose job dereferences
`last_layer_buffer`, `SnapshotTargets` those for which it goes on to make a snapshot:
none with a shm buffer, though `isShm` of a freed buffer may read as anything.
A creation may fail, and the window has a job again in the next frame. A job that finds a
freed buffer or the surface of a closed window may kill the service.
`ShmBuffers` says which kind of buffer there is: gralloc and compositor decide it
once. Assumed: a handle's address names one buffer as long as a window points to it.

`WindowLifecycle` is what a user may rely on: a window is created open, closed only
after the user has asked for it, forgotten, and only then created again.
A request is not lost while its window stays. One whose window was forgotten while it waited
has gone astray and may close any window, or none: this is the hazard of the late
mutex, and the abstract specification allows it in that case only.
`LifecycleRefinement` states that the threads implement it.

Runs, all with two tasks of one app and a list that names the launcher:

- `windows_single`: no subsurfaces, no shm buffers, modes "none", "apps" and "Openfde". Safety,
  the refinement and liveness: frames end, a close takes effect, "none" clears
  all windows and "Openfde" all but the full screen, also those of a frame that
  read the property before (`ModeTakesEffect`).
- `windows_multi`: a popup, a list that changes between frames, subsurfaces, shm buffers, and
  `background_start` off, so that the boot animation forces the full screen. The
  set of windows agrees with the layers, `display->windows` with the windows,
  `waydroid.open_windows` with the map.

Two tasks make a window that is shown and one that is not; the handler holds one
window at a time since the Wayland thread is one thread. Frames of two layers
give each order of the two tasks.

Fairness: SurfaceFlinger keeps composing (weak fairness of `FrameStep`) and a
handler of the Wayland thread proceeds (weak fairness of `CloseRequest`). `std::mutex` is not
fair, but the mutex is free from the end of a frame to the next `hwc_set`, a
pause of a display period: strong fairness of `CloseFinish`.

Assumed: no Android surface is named "Openfde"; `waydroid.blacklist_apps` is not
empty (an empty value falls back to the launcher).

### AudioStreams

`LockFirst` and `LockSecond` take the two mutexes, device first for an output,
stream first for an input. The body of an operation that holds both is one step
except for a start, whose calls to PulseAudio may each fail: `PcmNotOpened` (with
the retry and what it closes), `PcmOpened`, `ConfigFails`, `NotPrepared`,
`Started`. `Transfer` is the read or write under the stream's mutex alone.
`in_read` ends a failure with `in_standby`, which locks again (`FailCall`).

A PCM is "null", "open" (opened, not configured), "ready", or "dangling":
`NotPrepared` closes it and keeps the pointer, and a next start that cannot open
one closes it again, of which the process may die (`Crash`).

Assumed of AudioFlinger (`MayCall`): it puts an output in standby before it
closes it, does not close a stream another thread is in, and sets parameters of
outputs. The policy file declares one output and one input, hence two streams.

Run `audio_streams`: two threads, either of which may do any call to either
stream; two already show opposite lock orders, and the proofs cover any number.
`MaxRetries` is 2 where the code has 100: a first and a last attempt.

Fairness: straight-line code and PulseAudio's calls return (weak fairness of the
steps of a call); a mutex that is released again and again is obtained in the end
(strong fairness of the two lock steps).

### TouchInput

Android has one emulated touch screen and one mouse. The composer writes to the
first from four sources that do not know of each other: fingers (slots of the
table `touch_id`), the left button when `fde.click_as_touch` is set (slot 0), pinches
of the touchpad and the wheel with Ctrl (slots 0 and 1), and the wheel (slot 8,
with a tap of slot 9 that stops Android from scrolling on).

Handlers are actions; the calls they make are operators from display to display
with the names of the functions (`CancelAxis` is `pointer_cancel_axis_to_touch`).

| in `display` | code |
|---|---|
| `fd` | `input_fd`; "stale" is a descriptor of a pipe that has been removed |
| `touch_id`, `isTouchDown`, `isMouseLeftDown` | the same |
| `axis`, `recent` | `lastAxisEventNanoSeconds` is not 0, and less than 300 ms old |
| `zoom` | `axis_simulation_two_finger_started` |
| `down`, `mouse` | not of the code: the slots and buttons Android takes for pressed |

`fifos` and `readers` say which pipes exist and which of them Android reads,
`fingers` and `held` what the user does. Opening a pipe for writing fails until
Android reads it, so any event may be the first that gets through.

Assumed of the compositor: pointer events come only while the pointer is on a
window and it stays there while a button is held; touch points are numbered from
0; a device's events are ended before the device goes; a touch screen does not
come while a button is held. The first two are in Wayland's protocol; the last
two are what compositors do. The property `fde.click_as_touch` and the Ctrl key
take any value at each event. A pipe that Android reads does not run full.

`LeftButtonExclusive` does not say that press and release of the left button are of
one kind: in a chord they are not (section 5). It says that Android never has the left
button as a touch and as a button at once, and keeps neither after the release.

Left out: positions, the scale of a pinch, the accumulators (an event may or may
not reach a whole step), the cursor, the surfaces of fingers.

Run `touch_input`: three slots, the wheel's among them, so that fingers meet all
emulated touches, and four fingers, one more than the table holds. The tap's slot
is beyond the table; it is down only within one call. The proofs cover tables
and wheel slots of any size.

The loss of the touch screen removes the touch pipe although the pointer made
it too (`TouchGoes`): emulated touches reach nobody until a device comes. The
model has these steps, and the properties hold in spite of them.

There is no fairness: all properties are safety. That the wheel's touch ends in the
end depends on the user moving on; `ButtonEndsWheel` says that a click does it.

### Keyboard

`Press` and `Release` are `send_key_event`; `Leave` releases what is marked in
`keysDown`; `Enter` ignores the keys that are held already. `real` is what the
user holds, `android` what Android takes for held. The pipe is as above.

Assumed of the compositor: keys are sent to the client with the focus only, and
the focus goes before the keyboard does. Android releases the keys of a device it
loses.

`CloseSendsKey` is the key the close handler presses and releases to wake the idle
timer. It is code 0, `Reserved`, which no key of a keyboard has.

Run `keyboard`: two Ctrl keys, which share a flag; an ordinary key; the power key,
left to the host; and a code beyond the table. No fairness is needed.

### Gralloc

One process, which may be allocator, mapper or both. Each call runs from first
to last access under `dmod->mutex` and is an action; `Close` takes no lock.

| variable | code |
|---|---|
| `hnd` | the native handles, named by their addresses; "client" are those made of another process's |
| `map` | `gbm_bo_handle_map`; `Null` is an entry that `operator[]` has left |
| `bo` | buffer objects with their `bo_data_t` (`lock_count`, `locked_for`, `map_data`) |
| `gbm`, `opened` | `dmod->gbm`, which closing destroys and does not reset, and the alloc device |
| `granted`, `leaked` | not of the code: the locks clients have been told of, and those they have not |

Addresses are used again while the map lives on: this is what the model is
about. A null entry keeps a later handle at its address from being registered,
and a buffer allocated there can never be named again; `LostOnlyToNull` says
that this is the only way to lose one. `lock_ycbcr` finds only after the lock
that a format has no planes: `leaked` counts these.

Crashes of the code are actions (`AllocDies` for a blob, whose stride is a
division by zero, or after the close; `RegisterDies`; `UnlockDies`, on a buffer
that was never locked): the process is started again with nothing.

Assumed: the framework frees its buffers before it closes the device; a client
holds no lock of a buffer it frees or unregisters; while locks are held, only
who holds one unlocks.

Run `gralloc`: two addresses and three buffer objects, so that one may be lost
and both addresses used again; two locks nest and mix; the formats are one with
planes, one without, the blob, and one GBM does not have. Addresses and objects
are symmetric. All is safety.

The size of a blob is computed for every length up to 700, beyond the squares of the
first three multiples of 8 at which it turns. The image is not always large enough:
the root is cut off before it is rounded up, so a blob of 80 gets 8 x 9 = 72.
`BlobSizeClose` says exactly which blobs are too small, those whose root is a
multiple of 8 and whose length is above `root * (root + 1)`, by a row at most; all others
waste less than a row. The name of `find_closest_size` promises no more than a close one.

### FrameSync

Two halves of `hwcomposer.cpp` that share the Wayland thread.

The first is a frame: what `hwc_prepare` makes of the types of layers
(`PreparedType`), and the loop of `hwc_set`, a step or two for each layer.
`PassTarget` is the turn of the target after it has been drawn in the place of
the first skipped layer, `DropLayer` every path that draws nothing, `CommitLayer`
and `Wait` the drawing of one. `closes` counts how often each acquire fence is
closed, `pending` the commits no one has sent. `ShowNothing` is the early return.

The second is vsync: the thread's three steps are the read of the flag under
the lock with the reading of the clock, the computation of the wait, and the
callback. `Times` are the values of an unsigned clock of `Wrap` values; the
subtractions are modulo `Wrap`, those of `time_to_sleep_to_next_vsync`. `Presented` is the
feedback, at any time and with any value since `presentation_clock_id` is ignored.
Locals that are dead have a fixed value.

The three settings of subsurfaces and multi windows are chosen at the start.
By the protocol a subsurface's commit has no effect before its parent's, hence
with subsurfaces nothing is shown before the end of the frame. Without them the
Wayland thread may send the target's commit before its fence is waited for
(`DispatchFlush`), which the code does not prevent; `FinishedWhenSent` is about
what the end of the frame sends.

Assumed: `get_surface` returns a surface or does not return; the target is the
last layer; a refresh rate of two frames a second or more; a clock with more
values than the period. Left out: which window a layer has (`DropLayer` and
`CommitLayer` are both possible), the cursor's layer, whose commit is not waited
for, the retire fence, buffers, and the rounding of times beyond 2^53 ns in a
double.

Run `frame_sync`: frames with a skipped layer first, in the middle and last, with
and without fences, a layer between two skipped ones and one beside them. The
period, 3, does not divide the clock's 5 values, so that a wrap around shifts the
phase. `OrderKept` excludes frames with a layer between two skipped ones: run
`frame_order` shows why, and is the one run that expects a violation (section 5).

All is safety: a signal handler ends the vsync thread for good (`Interrupted`).

### Gps

`qemu_gps_init` makes a server thread on a Unix socket, to which hosts connect
with one sentence each, and the HAL itself; `gps_state_thread` reads sentences
from its connection and commands from a socket pair.

| variable | code |
|---|---|
| `caller`, `inits`, `init`, `fd` | where `gps_state_init` is, and the state it makes |
| `path` | the server `/tmp/unix.str` leads to |
| `server` | of each server thread its place, its connection, `client_hal_fd` and its backlog |
| `wire`, `control` | what the HAL's thread has to read |
| `gnss` | `persist.fde.gnss`, the last sentence |
| `thread`, `started`, `status`, `reader` | `gps_state_thread`, its local, `gps_status.status` (uninitialized at first), its `NmeaReader` |
| `leaked` | connections of requests, which are closed only where they failed |
| `told`, `report` | what the framework has been told |

A sentence is its number and which of position and altitude it has. A second
`init` after a failure (`GiveUp`, `ThreadFails`) may connect to the first server before its
own has unlinked the path; hosts then talk to a server without HAL. When the
requests of a session have used up the descriptors, `accept` fails for good.
Both are the code's, and the properties say so: `inits = 1`, `Exhausted`. If the
server's thread cannot be made (`ServerFails`) the state is undone at once and init may be
called again; this counts in `inits` as well.

Assumed: hosts send whole sentences at once; calls of the framework come one
after the other, and init is not called again once it has succeeded. `cleanup` does nothing (`#if 0`) and has no action.

Run `gps`: two inits and a sentence, or one and two, and three descriptors beside
the permanent ones: the HAL's connection, a host's, and a request's that leaks.
Two commands may be under way. All calls and hosts are bounded, so the run may
stop: deadlock is not checked.

Fairness: each server, the thread's commands and its sentences (weak: `epoll_wait`
returns all descriptors that are ready). Neither hosts nor timeouts have to come.

### PaVolume

Each of the calls in `pa_volume_ctl.c` makes a loop and a context and is a chain
of callbacks. `pa` holds what `pa_callback_args` does, where the chain is, and
the requests under way; `Serve` is the server, which answers in order, with an
error if a device has gone or it refuses; `Loop` runs the callback of an answer.
Meanwhile a device is unplugged, or another client changes a value or a default
(`Others`), and the context may fail (`ContextFails`). `meant`, `did` and `made` are history variables.

`pa_callback_args` lies uninitialized on the stack: `ret` starts as garbage, which
decides at the end of a list if a request is under way. At 1 by chance, and no
device of the name, the call waits for ever: `Hanging`, the exception of `Returns`
and of `RequestUnderWay`, which says that a loop that runs has a request to wait for.
A server without default device names none: libpulse aborts the service that asks it to
mute NULL (`SetMasterMuteCallback`, state "aborted"), and the next call is one of the
service started again. `Returns` excepts this too, and these two only. A source's name
without a dot quits with 1, and the end of the list, which comes in the same dispatch,
quits once more with 0, which counts (`MalformedName`); `pa_process` then returns `ret` in either case.
What the calls that set a default device have done is in neither `meant` nor `did`.

PulseAudio's library is modelled from its use: requests are answered in their
order, a drain ends when nothing is under way. Volume and mute are one value.
Uninitialized pointers are taken to be null. The proofs assume that there are finitely
many sources, and a value and a port at all.

Run `pa_volume`: one of the calls, two sinks, one with one port and one with two,
two sources that share a name or not, one change by others, each garbage that
differs. Success is whole, the value reported is that of the right device, no loop
is left without a request, every call returns. Two requests are the most a call has under way at once but for those of
several sources. The last call returns and the run stops: deadlock is not checked.

Fairness: the loop runs until it quits, and the server answers (weak fairness of
`Loop` and `Serve`).

## 4. What is proved

For every value of the constants, under their named assumptions only. Each safety
invariant and action property of a passing run is a theorem.

- `EglWorker_proof`: `Handshake` is the inductive invariant. It lists the five
  states of the hand-off (who owns the queue, what the semaphores are, how far
  the history is); exclusion and "run once" do not follow from types alone, as
  they need that the two semaphores are never both up. It is a theorem itself
  (`HandshakeHolds`). From it `SyncSafety`:
  each step is a step of `SyncCall` or a stutter.
- `LayerSelection_proof`: for frames, lists and maps of windows of any length, the
  case forms are what the loops compute. A loop is a fold over a sequence;
  `LoopRounds` says that it is its rounds in their order, `LoopInvariant` that what
  each round keeps holds at the end, and each of the four loops has such an
  invariant (`BlacklistLoopIs`, `SelectSingleIs`, `LeftoverLoopIs`, `ShownInMultiIs`).
- `WindowManager_proof`: the invariant joins the types, `ShownWindowsActive`,
  `FullScreenAlone`, `NoObsoleteWindow`, `OpenWindowsCounted` and what ties the
  frame's locals to the map while the mutex is held. Deleting a window is one
  lemma that all selections cite. `LifecycleImplemented` maps steps to the
  abstract life cycle. `BuffersLive` has two assumptions, `~UseSubsurface` and
  `~ShmBuffers`: they exclude the three ways in which a buffer is destroyed that a window
  still points to. Only with subsurfaces does a change of geometry empty the map
  and is the cursor's layer drawn in a window, and `get_wl_buffer` replaces shm
  buffers only. `BuffersKept`, that no pointer dangles, is inductive then. With either
  assumption dropped TLC finds the property violated within two frames (section 5).
- `Input_proof`, of `TouchInput`: the properties are not inductive without `PipeInv` (a
  descriptor is open only of a pipe that Android reads, so who may write is
  monotone while the device stays), `ClickInv` (what is held against what is
  remembered, while a pipe may fail), `GhostInv` (the cause of each slot that is
  down) and `TableInv` (the table is a partial injection of the fingers that are
  down, if there is a touch screen). Each operator keeps them by a lemma, and the
  actions compose lemmas. `LowestFacts`, that the first slot of a set exists, rests
  on the library's theorems on well-founded orders. Of `Keyboard`: the properties
  together with its `PipeInv` and `MarkInv` (Android holds only keys that are marked)
  are inductive.
- `Audio_proof`, of `AudioStreams`: `LockInv` (who holds which mutex follows from where
  the threads are), `CallInv` (a thread in a call is in an open stream), `PhaseInv`
  (a start begins in standby, a transfer ends out of it) and
  `StandbyConsistent`; `TransferHasPcm` follows since a stream leaves and
  enters standby only under the mutex the transfer holds. From `LockInv` also that
  the opposite lock orders are harmless for any number of threads: `NoCircle` (a chain of
  waits ends at a thread that waits for nothing, after three waits at most)
  and `NoDeadlock`.
- `Audio_proof`, of `PaVolume`: `PaInv` says what stage a call of each kind is at
  (`Stage`: which requests are under way, and that `quit_count` is their number), that
  requests are answered in their order and what has been set has been set by one
  of them (`RequestInv`), and that the last request is of the source to be reported
  (`InfoInv`). `SuccessIsWhole` and `InfoIsOfDefault` are its cases at the end of a
  call. `RequestUnderWay` needs in addition what `ret` is where the end of a list reads
  it (`RetInv`): 0 from one callback, what lay on the stack from the other.
- `Gralloc_proof`: the invariant joins the types, `EntriesLive` and
  `LostOnlyToNull` with `HandleInv` (who owns a handle, and that an unknown one has
  no buffer), `DataInv` (an unlocked buffer has neither usage nor mapping) and
  `GrantInv` (lock counts are grants and leaks; software access is exclusive).
  The last is why an unlock by one client cannot unmap another's. `MapExact` follows.
  `BlobSizeClose` is arithmetic: `SquareRootFacts`, that the loop which lowers the
  height stops at the lowest that is enough if it begins with enough (`LoopResult`), and
  when it does not begin so.
- `FrameSync_proof`: `PositionInv` says for each layer how often its fence has been
  closed, by where the loop is and whether the target took another's place;
  `FenceInv` that what is committed has been waited for, but for the layer whose
  turn it is; `IdleInv`, `PendingInv` and `LateInv` tie the rest. `OrderInv` says which
  layers have had their turn and that those drawn are in the order of their turns,
  which is the order of the frame (`InTurnInOrder`) if no layer lies between two
  skipped ones. The wait rests on lemmas about remainders (`Division`,
  `SmallRemainder`, `MultipleRemainder`, `WaitBounded`), proved from the definition of
  `\div` and `%`.
- `Gps_proof`: `FixInv` (what the reader holds and what was reported are of one
  sentence if complete) and `ThreadInv` (the thread's variables are at rest before
  it runs) make `FixFromOneSentence`, `SessionsAgree` and `LatestReported` inductive, of
  which `FrameworkAgrees` is made. `NeverBackwards` needs `Rising`: the numbers of
  sentences rise all the way from the report over the reader, the wire and the property
  to the hosts that wait, while there is one server. `NewestInv` follows the newest
  sentence along the same way: `NewestOnItsWay` says that it is not lost.

Where a proof needs induction over data (the folds of `LayerSelection` and the square
root of `Gralloc`), it takes the least number at which the claim fails, which exists by
the library's theorem that the naturals are well founded; theorems with an operator
as parameter are not used.

Model-checked only: liveness, which is out of the prover's reach, with the liveness half of
`SyncRefinement`. For three of these properties the part that is safety is proved:
`NoDeadlock` for `CallsReturn`, `RequestUnderWay` for `Returns` and `NewestOnItsWay` for
`SentencesArrive`; what is left to fairness is that what can go on does.

Proved only, and in no run: the type invariants, `Handshake`, `JobsRunOnReturn`, which a
synchronous call contains, `ButtonEndsWheel`, `WaitsEnd`, `OneGoesOn` and `NothingLost`.
The runs are for what takes several steps to go wrong.

Each property of a passing run comes with a variant of a mapped definition that
breaks it; definitions marked Variant in the modules are those and no part of
the specification.

## 5. What the comments say

The code does not do what these comments say. The first has a run; each of the
others follows from a definition of the models.

- `hwcomposer.cpp:192`: "we must ask SurfaceFlinger to composite everything between
  the first and the last skipped layer". With subsurfaces line 201 sets such a
  layer back to an overlay, above the target that holds both skipped ones. Run
  `frame_order`: `SkippedInOrder` is violated.
- `hwcomposer.cpp:568`: in the property for the blacklist "we select apps to not show
  in display". With two packages in it, line 637 elects the task at the first entry
  that does not match (`SingleTask`), so that the second package's app gets the window;
  `BlacklistHonoured` is about lists of one.
- `hwcomposer.cpp:623`: "detecting if any unblacklisted app is on screen". At line 635
  the last task layer alone decides (`ShowWindow`).
- `wayland-hwc.cpp:306`: "Need a surface to draw". After a close by the user the surface
  has been destroyed (line 500) but the pointer, which is what is tested, is set.
- `wayland-hwc.cpp:306` again, "a non-SHM buffer to make snapshot from": what is tested
  may be no buffer any more. With subsurfaces a change of geometry (`hwcomposer.cpp:542`) or of the
  cursor (94) destroys buffers that `last_layer_buffer` still names. Without them
  `get_wl_buffer` destroys a shm buffer whose handle comes with another size (276); a window
  of such buffers never gets a snapshot, so each later frame reads `isShm` of the
  freed one (line 305) again. `SnapshotBufferLive` holds without subsurfaces and without shm only.
- `wayland-hwc.cpp:1103`: "Left button convert to touch event, right button reserved
  mouse event". Line 1104 tests only if a touch
  is down: press right, press left (a touch), release right lifts the touch, and
  Android's right button stays pressed. Press left (a touch), press and release
  right: the touch has ended, and left goes to the mouse when it is released with the
  property off. So press and release need not be of one kind, and
  `LeftButtonExclusive` says only that Android never has both and keeps neither.
- `gralloc_gbm.cpp:435`: unregistering "is no-op for handles created locally". Line 439
  frees a local one as well (`Unregister`).

## 6. What is not modelled, and why

Parts left (section 2):

- Window service. `setPointerCapture` destroys, with the last capture, the relative
  pointer the seat's handler has made, so relative motion stops until the next
  capture, and a lock that outlives its pointer counts as a capture. Neither is
  called wrong by a comment. Idle inhibition keeps objects nothing else reads;
  minimising changes nothing here.
- Tablet. Each event is written as it comes; the state is a surface and a number for
  each tool.
- Composer for X11: the design of the Wayland one again, with another event loop.

Not planned:

- Gatekeeper. `SoftGateKeeper` is a store of failure records and a random generator. The
  order of calls and the throttling are in a class of `system/gatekeeper`, which is
  not in the repository.
- Extension service. What it shares with `hwc_set` it shares without a lock: each
  interleaving is a data race on `std::map` and `std::string`, whose outcomes are not
  states of the program.
- Cursor. Which image SurfaceFlinger has for which icon, and when, decides what
  is shown and is not in the repository. Two races are visible without a model: an
  icon that changes to another and back between two frames keeps the other's
  image, and a request to hide the cursor that an enter overtakes is ignored by the
  compositor while the code takes the cursor for hidden.
- Buffers: `buffer_map` is a cache; of what is thrown out of it `WindowManager` has what
  windows see.
- Task service (forwards calls), sensors, lights, power, vibrator, health and
  memtrack (no state), the `.hal` declarations, the vendored X11 headers and
  libraries, which are most of the lines of the repository.

Hazards of modelled parts that no property covers, since no comment or test says
what is right, or the cause is outside the repository:

- audio: a PCM that is closed twice after a failed configuration (the model has the
  crash), one that a failed configuration leaves open, and a close without standby
  (assumed away);
- gralloc: the stride of a blob, use after the close, the unlock of a buffer
  never locked (crashes of the model);
- gps: descriptors of a HAL that is initialized again after `cleanup`, the tail of an
  earlier sentence in a buffer that `read` does not terminate;
- PulseAudio volume: the abort without a default device (the model has it), what a call that fails returns, names freed uninitialized, and a
  port's name that several cards have;
- vsync: a rate below 2 Hz makes `nanosleep` fail and the thread spin; times beyond
  2^53 ns are rounded;
- input: a write to a full pipe is not noticed (`res` is unsigned), descriptors of pipes
  are dropped unclosed when a device comes, and a window destroyed under a held
  button takes its release with it;
- windows: `destroy_window` leaves locked pointer and idle inhibitor to the window service;
  `hwc_close` destroys the display before it stops the thread that dispatches on it.

Inside modelled parts: pixel contents, placement of subsurfaces, IME placement,
positions of touches and of the pointer, swipes (which are ignored), the focused
task, logging, timestamps of audio, the mute of the microphone.
