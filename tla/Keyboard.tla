------------------------------ MODULE Keyboard ------------------------------
(***************************************************************************)
(* The keys the composer presses in Android. A Wayland client sees keys    *)
(* only while it has the focus, so the composer remembers what it pressed  *)
(* and releases it when the focus goes. Events pass through a pipe that    *)
(* Android opens in its own time, possibly while keys are held.            *)
(*                                                                         *)
(* A definition marked Variant is no part of the model: it is the one      *)
(* below it with a plausible mistake, and shows that a property sees it.   *)
(***************************************************************************)
CONSTANTS
  Keys,     \* key codes
  Ctrl,     \* KEY_LEFTCTRL and KEY_RIGHTCTRL
  Power,    \* KEY_POWER, left to the host
  Unknown,  \* codes beyond keysDown
  Reserved  \* code 0, which no key has

ASSUME KeysAssumption ==
  /\ Ctrl \subseteq Keys /\ Unknown \subseteq Keys /\ Power \in Keys /\ Reserved \notin Keys
  /\ Ctrl \cap Unknown = {} /\ Power \notin Ctrl

VARIABLES
  keysDown,          \* those marked as pressed
  ctrl_key_pressed,
  fd,                \* input_fd: "none", "open", or "stale" after the pipe's removal
  fifo, reader,      \* whether the pipe exists and Android reads it
  keyboard,          \* whether the seat has one
  focus,
  real,              \* the keys that are down
  android            \* the keys that Android takes for down

keyboardVars == <<keysDown, ctrl_key_pressed, fd, fifo, reader, keyboard, focus, real, android>>

KeyboardTypeOK ==
  /\ keysDown \subseteq Keys \ (Unknown \cup {Power})
  /\ ctrl_key_pressed \in BOOLEAN
  /\ fd \in {"none", "open", "stale"}
  /\ fifo \in BOOLEAN /\ reader \in BOOLEAN
  /\ keyboard \in BOOLEAN /\ focus \in BOOLEAN
  /\ real \subseteq Keys /\ android \subseteq Keys

KeyboardInit ==
  /\ keysDown = {} /\ ctrl_key_pressed = FALSE
  /\ fd = "none" /\ fifo = FALSE /\ reader = FALSE
  /\ keyboard = FALSE /\ focus = FALSE
  /\ real = {} /\ android = {}

\* ensure_pipe
CanWriteKeys == fd # "none" \/ reader
Opened == IF fd = "none" /\ reader THEN "open" ELSE fd

\* Variant: a key is marked only when the pipe was open before.
PressUnmarked(K) ==
  IF CanWriteKeys /\ K \cap Unknown = {}
  THEN /\ fd' = Opened
       /\ keysDown' = IF fd = "open" THEN keysDown \cup K ELSE keysDown
       /\ android' = IF Opened = "open" THEN android \cup K ELSE android
  ELSE UNCHANGED <<fd, keysDown, android>>

\* send_key_event, for each key of K: marked even if nobody reads the event.
Press(K) ==
  IF CanWriteKeys /\ K \cap Unknown = {}
  THEN /\ fd' = Opened
       /\ keysDown' = keysDown \cup K
       /\ android' = IF Opened = "open" THEN android \cup K ELSE android
  ELSE UNCHANGED <<fd, keysDown, android>>

\* Variant: a released key stays marked.
ReleaseKeepsMark(K) ==
  IF CanWriteKeys /\ K \cap Unknown = {}
  THEN /\ fd' = Opened
       /\ android' = IF Opened = "open" THEN android \ K ELSE android
       /\ UNCHANGED keysDown
  ELSE UNCHANGED <<fd, keysDown, android>>

Release(K) ==
  IF CanWriteKeys /\ K \cap Unknown = {}
  THEN /\ fd' = Opened
       /\ keysDown' = keysDown \ K
       /\ android' = IF Opened = "open" THEN android \ K ELSE android
  ELSE UNCHANGED <<fd, keysDown, android>>

\* Keys that are held already come with the focus, and are ignored.
Enter ==
  /\ keyboard /\ ~focus
  /\ focus' = TRUE
  /\ UNCHANGED <<keysDown, ctrl_key_pressed, fd, fifo, reader, keyboard, real, android>>

\* The loop of keyboard_handle_leave calls send_key_event for marked keys only.
Leave ==
  /\ focus
  /\ focus' = FALSE
  /\ IF keysDown = {} THEN UNCHANGED <<fd, keysDown, android>> ELSE Release(keysDown)
  /\ ctrl_key_pressed' = FALSE
  /\ UNCHANGED <<fifo, reader, keyboard, real>>

\* The user presses or releases a key; the composer learns of it with the focus.
Key(k) ==
  /\ real' = IF k \in real THEN real \ {k} ELSE real \cup {k}
  /\ IF ~focus \/ k = Power THEN UNCHANGED <<keysDown, ctrl_key_pressed, fd, android>>
     ELSE /\ ctrl_key_pressed' = IF k \in Ctrl THEN k \notin real ELSE ctrl_key_pressed
          /\ IF k \notin real THEN Press({k}) ELSE Release({k})
  /\ UNCHANGED <<fifo, reader, keyboard, focus>>

\* xdg_toplevel_handle_close presses and releases a key, to restart the idle
\* timeout: what was marked and sent for the press is taken back at once.
CloseSendsKey ==
  /\ Release({Reserved})
  /\ UNCHANGED <<ctrl_key_pressed, fifo, reader, keyboard, focus, real>>

\* seat_handle_capabilities; the focus goes before the keyboard does.
KeyboardComes ==
  /\ ~keyboard
  /\ keyboard' = TRUE /\ fifo' = TRUE
  /\ fd' = "none"
  /\ UNCHANGED <<keysDown, ctrl_key_pressed, reader, focus, real, android>>

KeyboardGoes ==
  /\ keyboard /\ ~focus
  /\ keyboard' = FALSE /\ fifo' = FALSE /\ reader' = FALSE
  /\ fd' = IF fd = "open" THEN "stale" ELSE fd
  /\ android' = {}
  /\ UNCHANGED <<keysDown, ctrl_key_pressed, focus, real>>

AndroidOpensKeys ==
  /\ fifo /\ ~reader
  /\ reader' = TRUE
  /\ UNCHANGED <<keysDown, ctrl_key_pressed, fd, fifo, keyboard, focus, real, android>>

KeyboardNext ==
  \/ Enter \/ Leave \/ CloseSendsKey
  \/ KeyboardComes \/ KeyboardGoes \/ AndroidOpensKeys
  \/ \E k \in Keys : Key(k)

KeyboardSpec == KeyboardInit /\ [][KeyboardNext]_keyboardVars

-----------------------------------------------------------------------------
(* Properties.                                                             *)

\* Android holds no key that nobody holds, and none at all while another client
\* has the focus: what was pressed through the pipe is released through it,
\* whenever Android opened it and wherever the release happened.
NoStuckKey ==
  /\ android \subseteq real
  /\ ~focus => android = {}

\* Scrolling zooms only while a Ctrl key is held on one of the windows.
CtrlHeld == ctrl_key_pressed => focus /\ real \cap Ctrl # {}

\* The table of pressed keys has no entry from before the focus came.
MarkedKeysHeld == keysDown \subseteq real /\ (~focus => keysDown = {})

\* What the composer remembers of the keys agrees with what the user holds.
RememberedKeysHeld == CtrlHeld /\ MarkedKeysHeld
=============================================================================
