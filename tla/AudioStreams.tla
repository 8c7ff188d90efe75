----------------------------- MODULE AudioStreams -----------------------------
(***************************************************************************)
(* The streams of the audio HAL and the threads of AudioFlinger that call  *)
(* it: the mixer writes, the recorder reads, and any of them may put a     *)
(* stream in standby.                                                      *)
(*                                                                         *)
(* An output operation takes the mutex of the device first and the mutex   *)
(* of its stream second, an input operation the other way round. A stream  *)
(* in standby has no PCM: the next write or read opens one, with both      *)
(* mutexes held, and retries for as long as PulseAudio is not there. The   *)
(* transfer itself holds the mutex of the stream alone.                    *)
(*                                                                         *)
(* A definition marked Variant is no part of the model: it is the one      *)
(* below it with a plausible mistake, and shows that a property sees it.   *)
(***************************************************************************)
EXTENDS Naturals

CONSTANTS
  Threads,
  Out, In,     \* the output and the input stream
  NoThread,    \* the owner of a free mutex
  NoStream,    \* NULL in active_output and active_input
  MaxRetries   \* PCM_OPEN_RETRIES

Streams == {Out, In}

ASSUME StreamsAssumption ==
  /\ Out # In /\ NoStream \notin Streams
  /\ NoThread \notin Threads
  /\ MaxRetries \in Nat \ {0}

VARIABLES
  adev_lock,  \* the owner of the device's mutex
  lock,       \* the owner of each stream's mutex
  opened,     \* the streams AudioFlinger has open
  standby,
  pcm,        \* "null", "open" but not configured, "ready", or "dangling"
  active,     \* active_output and active_input, by stream
  pc,
  call,       \* the operation a thread is in and its stream
  retry       \* pcm_retry_count

streamVars == <<opened, standby, pcm, active>>
vars == <<adev_lock, lock, opened, standby, pcm, active, pc, call, retry>>

Ops == {"transfer", "standby", "route", "close"}
NoCall == [op |-> "standby", s |-> NoStream]

TypeOK ==
  /\ adev_lock \in Threads \cup {NoThread}
  /\ lock \in [Streams -> Threads \cup {NoThread}]
  /\ opened \subseteq Streams
  /\ standby \in [Streams -> BOOLEAN]
  /\ pcm \in [Streams -> {"null", "open", "ready", "dangling"}]
  /\ active \in [Streams -> Streams \cup {NoStream}]
  /\ pc \in [Threads -> {"idle", "first", "second", "body", "open", "config", "transfer"}]
  /\ call \in [Threads -> [op : Ops, s : Streams \cup {NoStream}]]
  /\ retry \in [Threads -> 0..MaxRetries]

Init ==
  /\ adev_lock = NoThread
  /\ lock = [s \in Streams |-> NoThread]
  /\ opened = {}
  /\ standby = [s \in Streams |-> TRUE]
  /\ pcm = [s \in Streams |-> "null"]
  /\ active = [s \in Streams |-> NoStream]
  /\ pc = [t \in Threads |-> "idle"]
  /\ call = [t \in Threads |-> NoCall]
  /\ retry = [t \in Threads |-> 0]

-------------------------------------------------------------------------------
(* The mutexes.                                                            *)

FreeAdev(t) == adev_lock = NoThread /\ adev_lock' = t /\ UNCHANGED lock

FreeOwn(t, s) == lock[s] = NoThread /\ lock' = [lock EXCEPT ![s] = t] /\ UNCHANGED adev_lock

\* Variant: the input operations start with the stream's mutex but give it up
\* for the device's.
LockSecondAlone(t) ==
  LET s == call[t].s IN
  /\ pc[t] = "second"
  /\ pc' = [pc EXCEPT ![t] = "body"]
  /\ IF s = Out THEN FreeOwn(t, s)
     ELSE adev_lock = NoThread /\ adev_lock' = t /\ lock' = [lock EXCEPT ![s] = NoThread]
  /\ UNCHANGED <<streamVars, call, retry>>

LockFirst(t) ==
  /\ pc[t] = "first"
  /\ pc' = [pc EXCEPT ![t] = "second"]
  /\ IF call[t].s = Out THEN FreeAdev(t) ELSE FreeOwn(t, In)
  /\ UNCHANGED <<streamVars, call, retry>>

LockSecond(t) ==
  /\ pc[t] = "second"
  /\ pc' = [pc EXCEPT ![t] = "body"]
  /\ IF call[t].s = Out THEN FreeOwn(t, Out) ELSE FreeAdev(t)
  /\ UNCHANGED <<streamVars, call, retry>>

\* Both mutexes are given up, the order does not matter.
UnlockBoth(s) == adev_lock' = NoThread /\ lock' = [lock EXCEPT ![s] = NoThread]

-------------------------------------------------------------------------------
(* AudioFlinger calls.                                                     *)

\* It does not close a stream another thread is in, and it puts an output in
\* standby before it closes it: adev_close_output_stream only frees it.
MayCall(t, op, s) ==
  /\ s \in opened
  /\ \A u \in Threads \ {t} : pc[u] # "idle" /\ call[u].s = s =>
       op # "close" /\ call[u].op # "close"
  /\ op = "close" => s = In \/ standby[s]
  /\ op = "route" => s = Out

Call(t, op, s) ==
  /\ pc[t] = "idle"
  /\ MayCall(t, op, s)
  /\ ~(op = "close" /\ s = Out)
  /\ pc' = [pc EXCEPT ![t] = "first"]
  /\ call' = [call EXCEPT ![t] = [op |-> op, s |-> s]]
  /\ UNCHANGED <<adev_lock, lock, streamVars, retry>>

OpenStream(s) ==
  /\ s \notin opened
  /\ opened' = opened \cup {s}
  /\ standby' = [standby EXCEPT ![s] = TRUE]
  /\ pcm' = [pcm EXCEPT ![s] = "null"]
  /\ UNCHANGED <<adev_lock, lock, active, pc, call, retry>>

CloseOutput(t) ==
  /\ pc[t] = "idle"
  /\ MayCall(t, "close", Out)
  /\ opened' = opened \ {Out}
  /\ UNCHANGED <<adev_lock, lock, standby, pcm, active, pc, call, retry>>

-------------------------------------------------------------------------------
(* The operations, with both mutexes held.                                 *)

Done(t) ==
  /\ pc' = [pc EXCEPT ![t] = "idle"]
  /\ call' = [call EXCEPT ![t] = NoCall]

\* Variant: the stream is marked before its PCM is closed by the next one.
DoStandbyKeepsPcm(t) ==
  LET s == call[t].s IN
  /\ pc[t] = "body" /\ call[t].op \in {"standby", "close"}
  /\ standby' = [standby EXCEPT ![s] = TRUE]
  /\ UNCHANGED pcm
  /\ active' = [active EXCEPT ![s] = NoStream]
  /\ opened' = IF call[t].op = "close" THEN opened \ {s} ELSE opened
  /\ UnlockBoth(s)
  /\ Done(t)
  /\ UNCHANGED retry

\* do_output_standby, do_input_standby; adev_close_input_stream frees the
\* stream after it.
DoStandby(t) ==
  LET s == call[t].s IN
  /\ pc[t] = "body" /\ call[t].op \in {"standby", "close"}
  /\ \/ /\ ~standby[s]
        /\ pcm' = [pcm EXCEPT ![s] = "null"]
        /\ active' = [active EXCEPT ![s] = NoStream]
        /\ standby' = [standby EXCEPT ![s] = TRUE]
     \/ standby[s] /\ UNCHANGED <<pcm, active, standby>>
  /\ opened' = IF call[t].op = "close" THEN opened \ {s} ELSE opened
  /\ UnlockBoth(s)
  /\ Done(t)
  /\ UNCHANGED retry

\* out_set_parameters, whose devices nothing reads.
SetRoute(t) ==
  /\ pc[t] = "body" /\ call[t].op = "route"
  /\ UnlockBoth(call[t].s)
  /\ Done(t)
  /\ UNCHANGED <<streamVars, retry>>

\* out_write, in_read: a stream in standby is started first.
Begin(t) ==
  LET s == call[t].s IN
  /\ pc[t] = "body" /\ call[t].op = "transfer"
  /\ \/ /\ standby[s]
        /\ pc' = [pc EXCEPT ![t] = "open"]
        /\ retry' = [retry EXCEPT ![t] = MaxRetries]
        /\ UNCHANGED adev_lock
     \/ /\ ~standby[s]
        /\ pc' = [pc EXCEPT ![t] = "transfer"]
        /\ adev_lock' = NoThread
        /\ UNCHANGED retry
  /\ UNCHANGED <<lock, streamVars, call>>

\* Variant: in_read calls in_standby before it unlocks its mutex.
FailCallLocked(t) ==
  /\ adev_lock' = NoThread
  /\ IF call[t].s = In
     THEN /\ pc' = [pc EXCEPT ![t] = "first"]
          /\ call' = [call EXCEPT ![t].op = "standby"]
          /\ UNCHANGED lock
     ELSE Done(t) /\ lock' = [lock EXCEPT ![Out] = NoThread]

\* The end of a call whose transfer did not take place, with ret negative: the
\* mutexes are released, and in_read goes on to call in_standby.
FailCall(t) ==
  /\ UnlockBoth(call[t].s)
  /\ IF call[t].s = In
     THEN /\ pc' = [pc EXCEPT ![t] = "first"]
          /\ call' = [call EXCEPT ![t].op = "standby"]
     ELSE Done(t)

\* start_output_stream, start_input_stream: a PCM is opened.
PcmOpened(t) ==
  /\ pc[t] = "open"
  /\ pcm' = [pcm EXCEPT ![call[t].s] = "open"]
  /\ pc' = [pc EXCEPT ![t] = "config"]
  /\ retry' = [retry EXCEPT ![t] = 0]
  /\ UNCHANGED <<adev_lock, lock, opened, standby, active, call>>

\* PulseAudio is not there: what an earlier attempt has left is closed, and the
\* last retry gives up.
PcmNotOpened(t) ==
  LET s == call[t].s IN
  /\ pc[t] = "open"
  /\ pcm' = [pcm EXCEPT ![s] = "null"]
  /\ retry' = [retry EXCEPT ![t] = @ - 1]
  /\ \/ retry[t] > 1 /\ UNCHANGED <<adev_lock, lock, active, pc, call>>
     \/ /\ retry[t] = 1
        /\ active' = [active EXCEPT ![s] = NoStream]
        /\ FailCall(t)
  /\ UNCHANGED <<opened, standby>>

\* One of the calls that configure the PCM fails: it stays open.
ConfigFails(t) ==
  LET s == call[t].s IN
  /\ pc[t] = "config"
  /\ active' = [active EXCEPT ![s] = NoStream]
  /\ FailCall(t)
  /\ UNCHANGED <<opened, standby, pcm, retry>>

\* The PCM is not prepared after all: it is closed, but the pointer is kept.
NotPrepared(t) ==
  LET s == call[t].s IN
  /\ pc[t] = "config"
  /\ pcm' = [pcm EXCEPT ![s] = "dangling"]
  /\ active' = [active EXCEPT ![s] = NoStream]
  /\ FailCall(t)
  /\ UNCHANGED <<opened, standby, retry>>

\* Variant: the stream's mutex, too, is released for the transfer.
StartedUnlocked(t) ==
  LET s == call[t].s IN
  /\ pc[t] = "config"
  /\ pcm' = [pcm EXCEPT ![s] = "ready"]
  /\ active' = [active EXCEPT ![s] = s]
  /\ standby' = [standby EXCEPT ![s] = FALSE]
  /\ UnlockBoth(s)
  /\ pc' = [pc EXCEPT ![t] = "transfer"]
  /\ UNCHANGED <<opened, call, retry>>

Started(t) ==
  LET s == call[t].s IN
  /\ pc[t] = "config"
  /\ pcm' = [pcm EXCEPT ![s] = "ready"]
  /\ active' = [active EXCEPT ![s] = s]
  /\ standby' = [standby EXCEPT ![s] = FALSE]
  /\ adev_lock' = NoThread
  /\ pc' = [pc EXCEPT ![t] = "transfer"]
  /\ UNCHANGED <<lock, opened, call, retry>>

\* snd_pcm_writei or snd_pcm_readi, and once more after an underrun or overrun.
\* An output that failed is left as it is.
Transfer(t) ==
  /\ pc[t] = "transfer"
  /\ lock' = [lock EXCEPT ![call[t].s] = NoThread]
  /\ \/ Done(t)
     \/ /\ call[t].s = In
        /\ pc' = [pc EXCEPT ![t] = "first"]
        /\ call' = [call EXCEPT ![t].op = "standby"]
  /\ UNCHANGED <<adev_lock, streamVars, retry>>

\* A PCM that has been closed is closed again: the process may well die of it,
\* and is started anew.
Crash(t) ==
  /\ pc[t] = "open" /\ pcm[call[t].s] = "dangling"
  /\ adev_lock' = NoThread
  /\ lock' = [s \in Streams |-> NoThread]
  /\ opened' = {}
  /\ standby' = [s \in Streams |-> TRUE]
  /\ pcm' = [s \in Streams |-> "null"]
  /\ active' = [s \in Streams |-> NoStream]
  /\ pc' = [u \in Threads |-> "idle"]
  /\ call' = [u \in Threads |-> NoCall]
  /\ retry' = [u \in Threads |-> 0]

-------------------------------------------------------------------------------
Lock(t) == LockFirst(t) \/ LockSecond(t)

Step(t) ==
  \/ DoStandby(t) \/ SetRoute(t) \/ Begin(t)
  \/ PcmOpened(t) \/ PcmNotOpened(t)
  \/ ConfigFails(t) \/ NotPrepared(t) \/ Started(t)
  \/ Transfer(t)

Next ==
  \/ \E t \in Threads :
       \/ \E op \in Ops, s \in Streams : Call(t, op, s)
       \/ Lock(t) \/ Step(t) \/ CloseOutput(t) \/ Crash(t)
  \/ \E s \in Streams : OpenStream(s)

\* The code between two locks is straight-line or a bounded loop, PulseAudio
\* answers each call in the end; a waiting thread gets a mutex that is released
\* again and again.
Fairness == \A t \in Threads : WF_vars(Step(t)) /\ SF_vars(LockFirst(t)) /\ SF_vars(LockSecond(t))

Spec == Init /\ [][Next]_vars /\ Fairness

-------------------------------------------------------------------------------
(* Properties.                                                             *)

\* audio_hw.c:157, 528: start_output_stream and start_input_stream "must be
\* called with hw device and ... stream mutexes locked", though the two callers
\* take them in opposite orders and in_read comes back for in_standby.
StartHoldsBoth ==
  \A t \in Threads : pc[t] \in {"body", "open", "config"} =>
    adev_lock = t /\ lock[call[t].s] = t

\* No standby, close or failing start of another thread takes the PCM away from
\* under a transfer, which does not hold the device's mutex.
TransferHasPcm ==
  \A t \in Threads : pc[t] = "transfer" =>
    LET s == call[t].s IN
    lock[s] = t /\ s \in opened /\ pcm[s] = "ready" /\ ~standby[s] /\ active[s] = s

\* Whatever failed in between: a stream is active, out of standby and has a
\* configured PCM, or none of the three.
StandbyConsistent ==
  \A s \in Streams :
    /\ standby[s] <=> active[s] # s
    /\ standby[s] <=> pcm[s] # "ready"

\* Every call returns, although its retries hold the device's mutex and the two
\* directions lock in opposite orders.
CallsReturn == \A t \in Threads : pc[t] # "idle" ~> pc[t] = "idle"
===============================================================================
