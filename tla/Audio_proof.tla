------------------------------ MODULE Audio_proof ------------------------------
(***************************************************************************)
(* Proofs about AudioStreams and PaVolume, the two halves of the audio HAL.*)
(***************************************************************************)
EXTENDS AudioStreams, PaVolume, FiniteSetTheorems, SequenceTheorems, WellFoundedInduction, TLAPS

(***************************************************************************)
(* AudioStreams: the safety of the streams for any number of threads and   *)
(* retries.                                                                *)
(***************************************************************************)
\* Who holds which mutex follows from where the threads are.
LockInv ==
  \A t \in Threads :
    /\ adev_lock = t <=> \/ pc[t] \in {"body", "open", "config"}
                         \/ pc[t] = "second" /\ call[t].s = Out
    /\ \A s \in Streams :
         lock[s] = t <=> /\ call[t].s = s
                         /\ \/ pc[t] \in {"body", "open", "config", "transfer"}
                            \/ pc[t] = "second" /\ s = In

\* A thread in a call is in an open stream, alone if it closes it.
CallInv ==
  /\ \A t \in Threads : pc[t] # "idle" => call[t].s \in opened
  /\ \A t, u \in Threads :
       t # u /\ pc[t] # "idle" /\ pc[u] # "idle" /\ call[t].op = "close" => call[t].s # call[u].s
  /\ \A s \in Streams : s \notin opened => standby[s]

\* A stream is started from standby and transfers out of it.
PhaseInv ==
  \A t \in Threads :
    /\ pc[t] \in {"open", "config"} => standby[call[t].s] /\ retry[t] \in 0..MaxRetries
    /\ pc[t] = "open" => retry[t] > 0
    /\ pc[t] = "transfer" => ~standby[call[t].s]

IInv == TypeOK /\ LockInv /\ CallInv /\ PhaseInv /\ StandbyConsistent

LEMMA InitIInv == Init => IInv
<1> SUFFICES ASSUME Init PROVE IInv
  OBVIOUS
<1> USE StreamsAssumption DEF Init, NoCall, Streams
<1>1. TypeOK
  BY DEF TypeOK, Ops
<1>2. LockInv /\ CallInv /\ PhaseInv /\ StandbyConsistent
  BY DEF LockInv, CallInv, PhaseInv, StandbyConsistent
<1> QED
  BY <1>1, <1>2 DEF IInv

-------------------------------------------------------------------------------
(* Locking and calling.                                                    *)

LEMMA LockFirstIInv ==
  ASSUME IInv, NEW t \in Threads, LockFirst(t)
  PROVE  IInv'
<1> USE StreamsAssumption DEF LockFirst, FreeAdev, FreeOwn, streamVars, Streams
<1>1. TypeOK'
  BY DEF IInv, TypeOK
<1>2. call[t].s \in Streams
  BY DEF IInv, TypeOK, CallInv
<1>3. LockInv'
  BY <1>2 DEF IInv, TypeOK, LockInv
<1>4. CallInv' /\ PhaseInv'
  BY DEF IInv, TypeOK, CallInv, PhaseInv
<1>5. StandbyConsistent'
  BY DEF IInv, StandbyConsistent
<1> QED
  BY <1>1, <1>3, <1>4, <1>5 DEF IInv

LEMMA LockSecondIInv ==
  ASSUME IInv, NEW t \in Threads, LockSecond(t)
  PROVE  IInv'
<1> USE StreamsAssumption DEF LockSecond, FreeAdev, FreeOwn, streamVars, Streams
<1>1. TypeOK'
  BY DEF IInv, TypeOK
<1>2. call[t].s \in Streams
  BY DEF IInv, TypeOK, CallInv
<1>3. LockInv'
  BY <1>2 DEF IInv, TypeOK, LockInv
<1>4. CallInv' /\ PhaseInv'
  BY DEF IInv, TypeOK, CallInv, PhaseInv
<1>5. StandbyConsistent'
  BY DEF IInv, StandbyConsistent
<1> QED
  BY <1>1, <1>3, <1>4, <1>5 DEF IInv

LEMMA CallIInv ==
  ASSUME IInv, NEW t \in Threads, NEW op \in Ops, NEW s \in Streams, Call(t, op, s)
  PROVE  IInv'
<1> USE StreamsAssumption DEF Call, MayCall, streamVars, Streams
<1>1. TypeOK'
  BY DEF IInv, TypeOK
<1>2. LockInv'
  BY DEF IInv, TypeOK, LockInv
<1>3. CallInv' /\ PhaseInv'
  BY DEF IInv, TypeOK, CallInv, PhaseInv
<1>4. StandbyConsistent'
  BY DEF IInv, StandbyConsistent
<1> QED
  BY <1>1, <1>2, <1>3, <1>4 DEF IInv

-------------------------------------------------------------------------------
(* Opening and closing.                                                    *)

LEMMA OpenStreamIInv ==
  ASSUME IInv, NEW s \in Streams, OpenStream(s)
  PROVE  IInv'
<1> USE StreamsAssumption DEF OpenStream, Streams
<1>1. TypeOK'
  BY DEF IInv, TypeOK
<1>2. LockInv'
  BY DEF IInv, TypeOK, LockInv, CallInv
<1>3. CallInv'
  BY DEF IInv, TypeOK, CallInv, LockInv
<1>4. PhaseInv'
  BY DEF IInv, TypeOK, CallInv, LockInv, PhaseInv
<1>5. StandbyConsistent'
  BY DEF IInv, TypeOK, CallInv, PhaseInv, StandbyConsistent
<1> QED
  BY <1>1, <1>2, <1>3, <1>4, <1>5 DEF IInv

LEMMA CloseOutputIInv ==
  ASSUME IInv, NEW t \in Threads, CloseOutput(t)
  PROVE  IInv'
<1> USE StreamsAssumption DEF CloseOutput, MayCall, Streams
<1>1. TypeOK'
  BY DEF IInv, TypeOK
<1>2. LockInv'
  BY DEF IInv, TypeOK, LockInv, CallInv
<1>3. CallInv'
  BY DEF IInv, TypeOK, CallInv, LockInv
<1>4. PhaseInv'
  BY DEF IInv, TypeOK, CallInv, LockInv, PhaseInv
<1>5. StandbyConsistent'
  BY DEF IInv, TypeOK, CallInv, PhaseInv, StandbyConsistent
<1> QED
  BY <1>1, <1>2, <1>3, <1>4, <1>5 DEF IInv

-------------------------------------------------------------------------------
(* The operations.                                                         *)

LEMMA DoStandbyIInv ==
  ASSUME IInv, NEW t \in Threads, DoStandby(t)
  PROVE  IInv'
<1> USE StreamsAssumption DEF DoStandby, UnlockBoth, Done, NoCall, Ops, Streams
<1>0. call[t].s \in Streams /\ t # NoThread
  BY DEF IInv, TypeOK, CallInv
<1>1. TypeOK'
  <2>1. adev_lock' \in Threads \cup {NoThread} /\ lock' \in [Streams -> Threads \cup {NoThread}]
    BY <1>0 DEF IInv, TypeOK
  <2>2. opened' \subseteq Streams /\ standby' \in [Streams -> BOOLEAN]
    <3>1. opened' \subseteq opened
      OBVIOUS
    <3> QED
      <4>1. opened' \subseteq Streams
        BY <3>1 DEF IInv, TypeOK
      <4>2. standby' \in [Streams -> BOOLEAN]
        BY ZenonT(40), <1>0 DEF IInv, TypeOK
      <4> QED
        BY <4>1, <4>2
  <2>3. /\ pcm' \in [Streams -> {"null", "open", "ready", "dangling"}]
        /\ active' \in [Streams -> Streams \cup {NoStream}]
    BY <1>0 DEF IInv, TypeOK
  <2>4. pc' \in [Threads -> {"idle", "first", "second", "body", "open", "config", "transfer"}]
    BY <1>0 DEF IInv, TypeOK
  <2>5. call' \in [Threads -> [op : Ops, s : Streams \cup {NoStream}]]
    BY <1>0 DEF IInv, TypeOK
  <2>6. retry' \in [Threads -> 0..MaxRetries]
    BY <1>0 DEF IInv, TypeOK, PhaseInv
  <2> QED
    BY <2>1, <2>2, <2>3, <2>4, <2>5, <2>6 DEF TypeOK
<1>2. LockInv'
  BY <1>0 DEF IInv, TypeOK, LockInv
<1>3. CallInv'
  BY <1>0 DEF IInv, TypeOK, LockInv, CallInv
<1>4. PhaseInv'
  BY DEF IInv, TypeOK, CallInv, LockInv, PhaseInv
<1>5. StandbyConsistent'
  BY DEF IInv, TypeOK, CallInv, PhaseInv, StandbyConsistent
<1> QED
  BY <1>1, <1>2, <1>3, <1>4, <1>5 DEF IInv

LEMMA SetRouteIInv ==
  ASSUME IInv, NEW t \in Threads, SetRoute(t)
  PROVE  IInv'
<1> USE StreamsAssumption DEF SetRoute, UnlockBoth, Done, NoCall, Ops, streamVars, Streams
<1>0. call[t].s \in Streams /\ t # NoThread
  BY DEF IInv, TypeOK, CallInv
<1>1. TypeOK'
  <2>1. adev_lock' \in Threads \cup {NoThread} /\ lock' \in [Streams -> Threads \cup {NoThread}]
    BY <1>0 DEF IInv, TypeOK
  <2>2. opened' \subseteq Streams /\ standby' \in [Streams -> BOOLEAN]
    BY <1>0 DEF IInv, TypeOK
  <2>3. /\ pcm' \in [Streams -> {"null", "open", "ready", "dangling"}]
        /\ active' \in [Streams -> Streams \cup {NoStream}]
    BY <1>0 DEF IInv, TypeOK
  <2>4. pc' \in [Threads -> {"idle", "first", "second", "body", "open", "config", "transfer"}]
    BY <1>0 DEF IInv, TypeOK
  <2>5. call' \in [Threads -> [op : Ops, s : Streams \cup {NoStream}]]
    BY <1>0 DEF IInv, TypeOK
  <2>6. retry' \in [Threads -> 0..MaxRetries]
    BY <1>0 DEF IInv, TypeOK, PhaseInv
  <2> QED
    BY <2>1, <2>2, <2>3, <2>4, <2>5, <2>6 DEF TypeOK
<1>2. LockInv'
  BY <1>0 DEF IInv, TypeOK, LockInv
<1>3. CallInv'
  BY <1>0 DEF IInv, TypeOK, LockInv, CallInv
<1>4. PhaseInv'
  BY DEF IInv, TypeOK, CallInv, LockInv, PhaseInv
<1>5. StandbyConsistent'
  BY DEF IInv, TypeOK, CallInv, PhaseInv, StandbyConsistent
<1> QED
  BY <1>1, <1>2, <1>3, <1>4, <1>5 DEF IInv

LEMMA BeginIInv ==
  ASSUME IInv, NEW t \in Threads, Begin(t)
  PROVE  IInv'
<1> USE StreamsAssumption DEF Begin, streamVars, Streams
<1>0. call[t].s \in Streams /\ t # NoThread
  BY DEF IInv, TypeOK, CallInv
<1>1. TypeOK'
  <2>1. adev_lock' \in Threads \cup {NoThread} /\ lock' \in [Streams -> Threads \cup {NoThread}]
    BY <1>0 DEF IInv, TypeOK
  <2>2. opened' \subseteq Streams /\ standby' \in [Streams -> BOOLEAN]
    BY <1>0 DEF IInv, TypeOK
  <2>3. /\ pcm' \in [Streams -> {"null", "open", "ready", "dangling"}]
        /\ active' \in [Streams -> Streams \cup {NoStream}]
    BY <1>0 DEF IInv, TypeOK
  <2>4. pc' \in [Threads -> {"idle", "first", "second", "body", "open", "config", "transfer"}]
    BY <1>0 DEF IInv, TypeOK
  <2>5. call' \in [Threads -> [op : Ops, s : Streams \cup {NoStream}]]
    BY <1>0 DEF IInv, TypeOK
  <2>6. retry' \in [Threads -> 0..MaxRetries]
    BY <1>0 DEF IInv, TypeOK, PhaseInv
  <2> QED
    BY <2>1, <2>2, <2>3, <2>4, <2>5, <2>6 DEF TypeOK
<1>2. LockInv'
  BY <1>0 DEF IInv, TypeOK, LockInv
<1>3. CallInv'
  BY <1>0 DEF IInv, TypeOK, LockInv, CallInv
<1>4. PhaseInv'
  BY DEF IInv, TypeOK, CallInv, LockInv, PhaseInv
<1>5. StandbyConsistent'
  BY DEF IInv, TypeOK, CallInv, PhaseInv, StandbyConsistent
<1> QED
  BY <1>1, <1>2, <1>3, <1>4, <1>5 DEF IInv

LEMMA PcmOpenedIInv ==
  ASSUME IInv, NEW t \in Threads, PcmOpened(t)
  PROVE  IInv'
<1> USE StreamsAssumption DEF PcmOpened, Streams
<1>0. call[t].s \in Streams /\ t # NoThread
  BY DEF IInv, TypeOK, CallInv
<1>1. TypeOK'
  <2>1. adev_lock' \in Threads \cup {NoThread} /\ lock' \in [Streams -> Threads \cup {NoThread}]
    BY <1>0 DEF IInv, TypeOK
  <2>2. opened' \subseteq Streams /\ standby' \in [Streams -> BOOLEAN]
    BY <1>0 DEF IInv, TypeOK
  <2>3. /\ pcm' \in [Streams -> {"null", "open", "ready", "dangling"}]
        /\ active' \in [Streams -> Streams \cup {NoStream}]
    BY <1>0 DEF IInv, TypeOK
  <2>4. pc' \in [Threads -> {"idle", "first", "second", "body", "open", "config", "transfer"}]
    BY <1>0 DEF IInv, TypeOK
  <2>5. call' \in [Threads -> [op : Ops, s : Streams \cup {NoStream}]]
    BY <1>0 DEF IInv, TypeOK
  <2>6. retry' \in [Threads -> 0..MaxRetries]
    BY <1>0 DEF IInv, TypeOK, PhaseInv
  <2> QED
    BY <2>1, <2>2, <2>3, <2>4, <2>5, <2>6 DEF TypeOK
<1>2. LockInv'
  BY <1>0 DEF IInv, TypeOK, LockInv
<1>3. CallInv'
  BY <1>0 DEF IInv, TypeOK, LockInv, CallInv
<1>4. PhaseInv'
  BY DEF IInv, TypeOK, CallInv, LockInv, PhaseInv
<1>5. StandbyConsistent'
  BY DEF IInv, TypeOK, CallInv, PhaseInv, StandbyConsistent
<1> QED
  BY <1>1, <1>2, <1>3, <1>4, <1>5 DEF IInv

LEMMA PcmNotOpenedIInv ==
  ASSUME IInv, NEW t \in Threads, PcmNotOpened(t)
  PROVE  IInv'
<1> USE StreamsAssumption DEF PcmNotOpened, FailCall, UnlockBoth, Done, NoCall, Ops, Streams
<1>0. call[t].s \in Streams /\ t # NoThread
  BY DEF IInv, TypeOK, CallInv
<1>1. TypeOK'
  <2>1. adev_lock' \in Threads \cup {NoThread} /\ lock' \in [Streams -> Threads \cup {NoThread}]
    BY <1>0 DEF IInv, TypeOK
  <2>2. opened' \subseteq Streams /\ standby' \in [Streams -> BOOLEAN]
    BY <1>0 DEF IInv, TypeOK
  <2>3. /\ pcm' \in [Streams -> {"null", "open", "ready", "dangling"}]
        /\ active' \in [Streams -> Streams \cup {NoStream}]
    BY <1>0 DEF IInv, TypeOK
  <2>4. pc' \in [Threads -> {"idle", "first", "second", "body", "open", "config", "transfer"}]
    BY <1>0 DEF IInv, TypeOK
  <2>5. call' \in [Threads -> [op : Ops, s : Streams \cup {NoStream}]]
    BY <1>0 DEF IInv, TypeOK
  <2>6. retry' \in [Threads -> 0..MaxRetries]
    BY <1>0 DEF IInv, TypeOK, PhaseInv
  <2> QED
    BY <2>1, <2>2, <2>3, <2>4, <2>5, <2>6 DEF TypeOK
<1>2. LockInv'
  BY <1>0 DEF IInv, TypeOK, LockInv
<1>3. CallInv'
  <2>1. \A u \in Threads : pc'[u] # "idle" =>
          /\ pc[u] # "idle" /\ call'[u].s = call[u].s
          /\ call'[u].op = "close" => call[u].op = "close"
    BY <1>0 DEF IInv, TypeOK
  <2> QED
    BY <2>1 DEF IInv, CallInv
<1>4. PhaseInv'
  BY DEF IInv, TypeOK, CallInv, LockInv, PhaseInv
<1>5. StandbyConsistent'
  BY DEF IInv, TypeOK, CallInv, PhaseInv, StandbyConsistent
<1> QED
  BY <1>1, <1>2, <1>3, <1>4, <1>5 DEF IInv

LEMMA ConfigFailsIInv ==
  ASSUME IInv, NEW t \in Threads, ConfigFails(t)
  PROVE  IInv'
<1> USE StreamsAssumption DEF ConfigFails, FailCall, UnlockBoth, Done, NoCall, Ops, Streams
<1>0. call[t].s \in Streams /\ t # NoThread
  BY DEF IInv, TypeOK, CallInv
<1>1. TypeOK'
  <2>1. adev_lock' \in Threads \cup {NoThread} /\ lock' \in [Streams -> Threads \cup {NoThread}]
    BY <1>0 DEF IInv, TypeOK
  <2>2. opened' \subseteq Streams /\ standby' \in [Streams -> BOOLEAN]
    BY <1>0 DEF IInv, TypeOK
  <2>3. /\ pcm' \in [Streams -> {"null", "open", "ready", "dangling"}]
        /\ active' \in [Streams -> Streams \cup {NoStream}]
    BY <1>0 DEF IInv, TypeOK
  <2>4. pc' \in [Threads -> {"idle", "first", "second", "body", "open", "config", "transfer"}]
    BY SMTT(30), <1>0 DEF IInv, TypeOK
  <2>5. call' \in [Threads -> [op : Ops, s : Streams \cup {NoStream}]]
    BY <1>0 DEF IInv, TypeOK
  <2>6. retry' \in [Threads -> 0..MaxRetries]
    BY <1>0 DEF IInv, TypeOK, PhaseInv
  <2> QED
    BY <2>1, <2>2, <2>3, <2>4, <2>5, <2>6 DEF TypeOK
<1>2. LockInv'
  BY <1>0 DEF IInv, TypeOK, LockInv
<1>3. CallInv'
  <2>1. \A u \in Threads : pc'[u] # "idle" =>
          /\ pc[u] # "idle" /\ call'[u].s = call[u].s
          /\ call'[u].op = "close" => call[u].op = "close"
    <3>1. CASE call[t].s = In
      BY <1>0, <3>1 DEF IInv, TypeOK
    <3>2. CASE call[t].s # In
      BY <1>0, <3>2 DEF IInv, TypeOK
    <3> QED
      BY <3>1, <3>2
  <2> QED
    BY <2>1 DEF IInv, CallInv
<1>4. PhaseInv'
  BY DEF IInv, TypeOK, CallInv, LockInv, PhaseInv
<1>5. StandbyConsistent'
  BY DEF IInv, TypeOK, CallInv, PhaseInv, StandbyConsistent
<1> QED
  BY <1>1, <1>2, <1>3, <1>4, <1>5 DEF IInv

LEMMA NotPreparedIInv ==
  ASSUME IInv, NEW t \in Threads, NotPrepared(t)
  PROVE  IInv'
<1> USE StreamsAssumption DEF NotPrepared, FailCall, UnlockBoth, Done, NoCall, Ops, Streams
<1>0. call[t].s \in Streams /\ t # NoThread
  BY DEF IInv, TypeOK, CallInv
<1>1. TypeOK'
  <2>1. adev_lock' \in Threads \cup {NoThread} /\ lock' \in [Streams -> Threads \cup {NoThread}]
    BY <1>0 DEF IInv, TypeOK
  <2>2. opened' \subseteq Streams /\ standby' \in [Streams -> BOOLEAN]
    BY <1>0 DEF IInv, TypeOK
  <2>3. /\ pcm' \in [Streams -> {"null", "open", "ready", "dangling"}]
        /\ active' \in [Streams -> Streams \cup {NoStream}]
    BY <1>0 DEF IInv, TypeOK
  <2>4. pc' \in [Threads -> {"idle", "first", "second", "body", "open", "config", "transfer"}]
    BY SMTT(30), <1>0 DEF IInv, TypeOK
  <2>5. call' \in [Threads -> [op : Ops, s : Streams \cup {NoStream}]]
    BY <1>0 DEF IInv, TypeOK
  <2>6. retry' \in [Threads -> 0..MaxRetries]
    BY <1>0 DEF IInv, TypeOK, PhaseInv
  <2> QED
    BY <2>1, <2>2, <2>3, <2>4, <2>5, <2>6 DEF TypeOK
<1>2. LockInv'
  BY <1>0 DEF IInv, TypeOK, LockInv
<1>3. CallInv'
  <2>1. \A u \in Threads : pc'[u] # "idle" =>
          /\ pc[u] # "idle" /\ call'[u].s = call[u].s
          /\ call'[u].op = "close" => call[u].op = "close"
    <3>1. CASE call[t].s = In
      BY <1>0, <3>1 DEF IInv, TypeOK
    <3>2. CASE call[t].s # In
      BY <1>0, <3>2 DEF IInv, TypeOK
    <3> QED
      BY <3>1, <3>2
  <2> QED
    BY <2>1 DEF IInv, CallInv
<1>4. PhaseInv'
  BY DEF IInv, TypeOK, CallInv, LockInv, PhaseInv
<1>5. StandbyConsistent'
  BY DEF IInv, TypeOK, CallInv, PhaseInv, StandbyConsistent
<1> QED
  BY <1>1, <1>2, <1>3, <1>4, <1>5 DEF IInv

LEMMA StartedIInv ==
  ASSUME IInv, NEW t \in Threads, Started(t)
  PROVE  IInv'
<1> USE StreamsAssumption DEF Started, Streams
<1>0. call[t].s \in Streams /\ t # NoThread
  BY DEF IInv, TypeOK, CallInv
<1>1. TypeOK'
  <2>1. adev_lock' \in Threads \cup {NoThread} /\ lock' \in [Streams -> Threads \cup {NoThread}]
    BY <1>0 DEF IInv, TypeOK
  <2>2. opened' \subseteq Streams /\ standby' \in [Streams -> BOOLEAN]
    BY <1>0 DEF IInv, TypeOK
  <2>3. /\ pcm' \in [Streams -> {"null", "open", "ready", "dangling"}]
        /\ active' \in [Streams -> Streams \cup {NoStream}]
    BY <1>0 DEF IInv, TypeOK
  <2>4. pc' \in [Threads -> {"idle", "first", "second", "body", "open", "config", "transfer"}]
    BY <1>0 DEF IInv, TypeOK
  <2>5. call' \in [Threads -> [op : Ops, s : Streams \cup {NoStream}]]
    BY <1>0 DEF IInv, TypeOK
  <2>6. retry' \in [Threads -> 0..MaxRetries]
    BY <1>0 DEF IInv, TypeOK, PhaseInv
  <2> QED
    BY <2>1, <2>2, <2>3, <2>4, <2>5, <2>6 DEF TypeOK
<1>2. LockInv'
  BY <1>0 DEF IInv, TypeOK, LockInv
<1>3. CallInv'
  BY <1>0 DEF IInv, TypeOK, LockInv, CallInv
<1>4. PhaseInv'
  BY DEF IInv, TypeOK, CallInv, LockInv, PhaseInv
<1>5. StandbyConsistent'
  BY DEF IInv, TypeOK, CallInv, PhaseInv, StandbyConsistent
<1> QED
  BY <1>1, <1>2, <1>3, <1>4, <1>5 DEF IInv

LEMMA TransferIInv ==
  ASSUME IInv, NEW t \in Threads, Transfer(t)
  PROVE  IInv'
<1> USE StreamsAssumption DEF Transfer, Done, NoCall, Ops, streamVars, Streams
<1>0. call[t].s \in Streams /\ t # NoThread
  BY DEF IInv, TypeOK, CallInv
<1>1. TypeOK'
  <2>1. adev_lock' \in Threads \cup {NoThread} /\ lock' \in [Streams -> Threads \cup {NoThread}]
    BY <1>0 DEF IInv, TypeOK
  <2>2. opened' \subseteq Streams /\ standby' \in [Streams -> BOOLEAN]
    BY <1>0 DEF IInv, TypeOK
  <2>3. /\ pcm' \in [Streams -> {"null", "open", "ready", "dangling"}]
        /\ active' \in [Streams -> Streams \cup {NoStream}]
    BY <1>0 DEF IInv, TypeOK
  <2>4. pc' \in [Threads -> {"idle", "first", "second", "body", "open", "config", "transfer"}]
    BY <1>0 DEF IInv, TypeOK
  <2>5. call' \in [Threads -> [op : Ops, s : Streams \cup {NoStream}]]
    BY <1>0 DEF IInv, TypeOK
  <2>6. retry' \in [Threads -> 0..MaxRetries]
    BY <1>0 DEF IInv, TypeOK, PhaseInv
  <2> QED
    BY <2>1, <2>2, <2>3, <2>4, <2>5, <2>6 DEF TypeOK
<1>2. LockInv'
  BY <1>0 DEF IInv, TypeOK, LockInv
<1>3. CallInv'
  <2>1. CASE Done(t)
    BY <1>0, <2>1 DEF IInv, TypeOK, CallInv
  <2>2. CASE call[t].s = In /\ pc' = [pc EXCEPT ![t] = "first"]
             /\ call' = [call EXCEPT ![t].op = "standby"]
    <3>1. \A u \in Threads : call'[u].s = call[u].s /\ (pc'[u] # "idle" => pc[u] # "idle")
      BY <2>2 DEF IInv, TypeOK
    <3>2. \A u \in Threads : call'[u].op = "close" => call[u].op = "close"
      BY <2>2 DEF IInv, TypeOK
    <3> QED
      BY <2>2, <3>1, <3>2 DEF IInv, CallInv
  <2> QED
    BY <2>1, <2>2
<1>4. PhaseInv'
  BY DEF IInv, TypeOK, CallInv, LockInv, PhaseInv
<1>5. StandbyConsistent'
  BY DEF IInv, TypeOK, CallInv, PhaseInv, StandbyConsistent
<1> QED
  BY <1>1, <1>2, <1>3, <1>4, <1>5 DEF IInv

LEMMA CrashIInv ==
  ASSUME IInv, NEW t \in Threads, Crash(t)
  PROVE  IInv'
<1> USE StreamsAssumption DEF Crash, NoCall, Ops, Streams
<1>1. TypeOK'
  BY DEF IInv, TypeOK
<1>2. LockInv'
  BY DEF IInv, TypeOK, LockInv, CallInv
<1>3. CallInv'
  BY DEF IInv, TypeOK, CallInv, LockInv
<1>4. PhaseInv'
  BY DEF IInv, TypeOK, CallInv, LockInv, PhaseInv
<1>5. StandbyConsistent'
  BY DEF IInv, TypeOK, CallInv, PhaseInv, StandbyConsistent
<1> QED
  BY <1>1, <1>2, <1>3, <1>4, <1>5 DEF IInv

-------------------------------------------------------------------------------
(* Every step preserves the invariant.                                     *)

LEMMA NextIInv == IInv /\ [Next]_vars => IInv'
<1> SUFFICES ASSUME IInv, [Next]_vars PROVE IInv'
  OBVIOUS
<1>1. ASSUME NEW t \in Threads, Lock(t) \/ Step(t) \/ CloseOutput(t) \/ Crash(t)
      PROVE  IInv'
  BY <1>1, LockFirstIInv, LockSecondIInv, DoStandbyIInv, SetRouteIInv, BeginIInv, PcmOpenedIInv,
     PcmNotOpenedIInv, ConfigFailsIInv, NotPreparedIInv, StartedIInv, TransferIInv,
     CloseOutputIInv, CrashIInv DEF Lock, Step
<1>2. ASSUME NEW t \in Threads, NEW op \in Ops, NEW s \in Streams, Call(t, op, s)
      PROVE  IInv'
  BY <1>2, CallIInv
<1>3. ASSUME NEW s \in Streams, OpenStream(s)
      PROVE  IInv'
  BY <1>3, OpenStreamIInv
<1>4. CASE UNCHANGED vars
  BY <1>4 DEF vars, streamVars, IInv, TypeOK, LockInv, CallInv, PhaseInv, StandbyConsistent
<1> QED
  BY <1>1, <1>2, <1>3, <1>4 DEF Next

LEMMA Invariance == Spec => []IInv
  BY InitIInv, NextIInv, PTL DEF Spec

\* The variables keep their types, the count of retries its bound.
THEOREM TypeCorrect == Spec => []TypeOK
<1>1. IInv => TypeOK
  BY DEF IInv
<1> QED
  BY <1>1, Invariance, PTL

\* What the comments on start_output_stream and start_input_stream demand of
\* their callers: both mutexes are held, whichever is taken first.
THEOREM BothHeld == Spec => []StartHoldsBoth
<1>1. IInv => StartHoldsBoth
  <2> SUFFICES ASSUME IInv, NEW t \in Threads, pc[t] \in {"body", "open", "config"}
               PROVE  adev_lock = t /\ lock[call[t].s] = t
    BY DEF StartHoldsBoth
  <2>1. call[t].s \in Streams
    BY DEF IInv, TypeOK, CallInv
  <2> QED
    BY <2>1 DEF IInv, LockInv
<1> QED
  BY <1>1, Invariance, PTL

\* A transfer, which has released the device's mutex, keeps its PCM.
THEOREM TransferSafe == Spec => []TransferHasPcm
<1>1. IInv => TransferHasPcm
  <2> SUFFICES ASSUME IInv, NEW t \in Threads, pc[t] = "transfer"
               PROVE  LET s == call[t].s IN
                      lock[s] = t /\ s \in opened /\ pcm[s] = "ready" /\ ~standby[s] /\ active[s] = s
    BY DEF TransferHasPcm
  <2>1. call[t].s \in opened /\ call[t].s \in Streams
    BY DEF IInv, TypeOK, CallInv
  <2> QED
    BY <2>1 DEF IInv, LockInv, PhaseInv, StandbyConsistent
<1> QED
  BY <1>1, Invariance, PTL

\* A stream is out of standby exactly when it is active and its PCM configured,
\* whichever call of its start failed.
THEOREM StandbyAgrees == Spec => []StandbyConsistent
<1>1. IInv => StandbyConsistent
  BY DEF IInv
<1> QED
  BY <1>1, Invariance, PTL

-------------------------------------------------------------------------------
(***************************************************************************)
(* The opposite lock orders. What a thread at a lock waits for is the owner*)
(* of a mutex; a deadlock would be a circle of such waits.                 *)
(***************************************************************************)
WaitsFor(t) ==
  CASE pc[t] = "first"  -> IF call[t].s = Out THEN adev_lock ELSE lock[In]
    [] pc[t] = "second" -> IF call[t].s = Out THEN lock[Out] ELSE adev_lock
    [] OTHER            -> NoThread

\* A thread waits, through others, for one that waits for nothing: an input call
\* for one that waits for the device, that one for an output call that waits for
\* its stream, and that for the transfer of the stream.
WaitsEnd ==
  \A t, u, v, w \in Threads :
    WaitsFor(t) = u /\ WaitsFor(u) = v /\ WaitsFor(v) = w =>
      pc[w] \in {"body", "open", "config", "transfer"}

\* While there is a call, one of the calls can go on.
OneGoesOn ==
  (\E t \in Threads : pc[t] # "idle") =>
    \E t \in Threads : pc[t] # "idle" /\ WaitsFor(t) = NoThread

\* Who holds a mutex another waits for, by the kind of the wait.
LEMMA HolderFacts ==
  ASSUME IInv, NEW t \in Threads, NEW u \in Threads, WaitsFor(t) = u
  PROVE  /\ pc[t] \in {"first", "second"} /\ pc[u] \notin {"idle", "first"}
         /\ pc[t] = "first" /\ pc[u] = "second" => call[t].s = call[u].s
         /\ pc[t] = "second" /\ pc[u] = "second" => call[t].s = In /\ call[u].s = Out
<1>1. t # NoThread /\ u # NoThread /\ Out # In
  BY StreamsAssumption
<1>2. /\ call[t].s \in Streams \/ pc[t] = "idle"
      /\ call[u].s \in Streams \/ pc[u] = "idle"
  BY DEF IInv, CallInv, TypeOK
<1>3. pc[t] \in {"first", "second"}
  BY <1>1 DEF WaitsFor
<1>4. u = IF (pc[t] = "first") = (call[t].s = Out) THEN adev_lock
                                                   ELSE lock[call[t].s]
  BY <1>1, <1>2, <1>3 DEF WaitsFor, Streams
<1>5. CASE u = adev_lock /\ (pc[t] = "first") = (call[t].s = Out)
  <2>1. \/ pc[u] \in {"body", "open", "config"}
        \/ pc[u] = "second" /\ call[u].s = Out
    BY <1>5 DEF IInv, LockInv
  <2> QED
    BY <1>1, <1>2, <1>3, <1>5, <2>1 DEF Streams
<1>6. CASE u = lock[call[t].s] /\ (pc[t] = "first") # (call[t].s = Out)
  <2>1. /\ call[u].s = call[t].s
        /\ \/ pc[u] \in {"body", "open", "config", "transfer"}
           \/ pc[u] = "second" /\ call[t].s = In
    BY <1>2, <1>3, <1>6 DEF IInv, LockInv
  <2> QED
    BY <1>1, <1>2, <1>3, <1>6, <2>1 DEF Streams
<1> QED
  BY <1>4, <1>5, <1>6

\* The two lock orders make no circle of waits, for any number of threads: no
\* chain is longer than three.
THEOREM NoCircle == Spec => []WaitsEnd
<1>1. IInv => WaitsEnd
  <2> SUFFICES ASSUME IInv, NEW t \in Threads, NEW u \in Threads, NEW v \in Threads,
                      NEW w \in Threads, WaitsFor(t) = u, WaitsFor(u) = v, WaitsFor(v) = w
               PROVE  pc[w] \in {"body", "open", "config", "transfer"}
    BY DEF WaitsEnd
  <2>1. pc[w] \in {"idle", "first", "second", "body", "open", "config", "transfer"}
    BY DEF IInv, TypeOK
  <2> QED
    BY <2>1, HolderFacts, StreamsAssumption
<1> QED
  BY <1>1, Invariance, PTL

\* Hence there is no deadlock: one of the threads that are in a call does not
\* wait for another.
THEOREM NoDeadlock == Spec => []OneGoesOn
<1>1. IInv => OneGoesOn
  <2> SUFFICES ASSUME IInv, NEW t \in Threads, pc[t] # "idle",
                      \A u \in Threads : pc[u] # "idle" => WaitsFor(u) # NoThread
               PROVE  FALSE
    BY DEF OneGoesOn
  <2>1. ASSUME NEW u \in Threads, pc[u] # "idle"
        PROVE  WaitsFor(u) \in Threads
    <3>1. WaitsFor(u) \in Threads \cup {NoThread}
      BY DEF WaitsFor, IInv, TypeOK, Streams
    <3> QED
      BY <2>1, <3>1
  <2>2. WaitsFor(t) \in Threads /\ pc[WaitsFor(t)] # "idle"
    BY <2>1, HolderFacts
  <2> DEFINE u == WaitsFor(t)
             v == WaitsFor(u)
             w == WaitsFor(v)
  <2>3. v \in Threads /\ pc[v] # "idle"
    BY <2>1, <2>2, HolderFacts
  <2>4. w \in Threads /\ pc[w] # "idle"
    BY <2>1, <2>3, HolderFacts
  <2>5. WaitsFor(w) \in Threads
    BY <2>1, <2>4
  <2> HIDE DEF u, v, w
  <2>6. u \in Threads /\ WaitsFor(t) = u /\ WaitsFor(u) = v /\ WaitsFor(v) = w
    BY <2>2 DEF u, v, w
  <2>7. /\ pc[t] \in {"first", "second"} /\ pc[u] = "second" /\ pc[v] = "second"
        /\ pc[w] = "second"
    BY <2>3, <2>4, <2>5, <2>6, HolderFacts
  <2> QED
    BY <2>3, <2>4, <2>6, <2>7, HolderFacts, StreamsAssumption
<1> QED
  BY <1>1, Invariance, PTL

-------------------------------------------------------------------------------
(***************************************************************************)
(* PaVolume: a call is in order at each of its stages.                     *)
(***************************************************************************)
(***************************************************************************)
(* The stages of a call. In most of them one request is under way, the     *)
(* second stage of a master call has two and that of an input call one for *)
(* each source.                                                            *)
(***************************************************************************)
Positions(c) == 1 .. Len(c.requests)

Lone(c, cbs) == Len(c.requests) = 1 /\ c.requests[1].cb \in cbs

Nothing(c) == c.meant = {} /\ c.did = {}

\* Each name is that of a device that is set, or a request for it is under way.
Covers(c, names) == names \subseteq c.did \cup {c.requests[n].dev : n \in Positions(c)}

MasterSetStage(c) ==
  /\ ~c.draining
  /\ \/ Lone(c, {"server_info"}) /\ c.quit_count = 2 /\ Nothing(c)
     \/ /\ c.quit_count = Len(c.requests) /\ c.quit_count \in 1 .. 2
        /\ c.meant = {c.sink_name, c.source_name} \ {None}
        /\ Covers(c, {c.sink_name, c.source_name})
        /\ \A n \in Positions(c) :
             /\ c.requests[n].cb \in {"get_info_to_set", "simple_callback_lock"}
             /\ c.requests[n].dev \in {c.sink_name, c.source_name}

InputSetStage(c) ==
  \/ Lone(c, {"set_input"}) /\ Nothing(c)
  \/ /\ Covers(c, c.meant)
     /\ \A n \in Positions(c) :
          c.requests[n].cb = "simple_callback" /\ c.requests[n].op = "set_value"

OutputSetStage(c) ==
  \/ Lone(c, {"get_info_to_set"}) /\ Nothing(c)
  \/ Lone(c, {"simple_callback"}) /\ c.requests[1].op = "set_value" /\ c.meant = {c.requests[1].dev}

InputDefaultStage(c) ==
  /\ Nothing(c)
  /\ \/ Lone(c, {"set_profile", "set_input_default"}) /\ c.info = None
     \/ \A n \in Positions(c) :
          c.requests[n].cb = "simple_callback" /\ c.requests[n].op # "set_value"

Stage(c) ==
  /\ c.action \in MasterSets => MasterSetStage(c)
  /\ c.action \in MasterGets => Lone(c, {"server_info", "get_value"}) /\ Nothing(c)
  /\ c.action = "GET_OUTPUT_DEVS" => Lone(c, {"server_info", "devs"}) /\ Nothing(c)
  /\ c.action = "GET_INPUT_DEVS" => Lone(c, {"get_input_devs", "devs"}) /\ Nothing(c)
  /\ c.action \in InputSets => InputSetStage(c)
  /\ c.action \in OutputSets => OutputSetStage(c)
  /\ c.action = "SET_INPUT_DEFAULT_DEV" => InputDefaultStage(c)
  /\ c.action = "SET_OUTPUT_DEFAULT_DEV" =>
       /\ Nothing(c)
       /\ \/ c.requests = <<>>
          \/ /\ Lone(c, {"set_output_default_dev", "simple_callback", "default_set",
                        "default_info"})
             /\ c.requests[1].op # "set_value"

\* The ops by which the callbacks are reached, as far as it matters.
OpOf(r) ==
  /\ r.cb = "simple_callback_lock" => r.op = "set_value"
  /\ r.cb \in {"get_info_to_set", "get_value", "set_output_default_dev"} => r.op = "by_name"
  /\ r.cb \notin {"simple_callback_lock", "simple_callback"} => r.op # "set_value"
  /\ r.op = "set_default" => r.cb # "server_info"

\* Requests are answered in their order; one that succeeded was for a device
\* that was there, and what it set is set.
RequestInv(c) ==
  /\ \A n \in Positions(c) :
       /\ OpOf(c.requests[n])
       /\ c.requests[n].op = "set_value" => c.requests[n].dev \in c.meant \cup {None}
       /\ c.requests[n].answered => \A m \in 1 .. n : c.requests[m].answered
       /\ c.requests[n].answered /\ c.requests[n].ok =>
            /\ c.requests[n].op \in {"by_name", "set_value"} => c.requests[n].dev \in Devs
            /\ c.requests[n].op = "set_value" => c.requests[n].dev \in c.did
  /\ c.did \subseteq c.meant

\* The value to be reported is that of the source whose request comes last.
InfoInv(c) ==
  c.info \in Sources =>
    /\ c.action = "SET_INPUT_DEFAULT_DEV"
    /\ \A n \in Positions(c) : c.requests[n].cb = "simple_callback"
    /\ c.requests = <<>> => c.made = c.info
    /\ c.requests # <<>> =>
         LET last == c.requests[Len(c.requests)] IN
         /\ last.op = "set_default" /\ last.dev = c.info
         /\ last.answered /\ last.ok => c.made = c.info

Fresh(c) ==
  /\ c.requests = <<>> /\ ~c.draining /\ Nothing(c) /\ c.info = None
  /\ c.action \in OutputSets \cup {"SET_OUTPUT_DEFAULT_DEV"} => c.sink_name \in Sinks

\* SuccessIsWhole, of a call.
Whole(c) ==
  /\ c.requests = <<>>
  /\ c.did = c.meant
  /\ c.action \in MasterSets =>
       /\ None \notin {c.sink_name, c.source_name}
       /\ c.meant = {c.sink_name, c.source_name}
  /\ c.action \in MasterGets => c.ret \in Values

RequestsInv(c) == RequestInv(c) /\ InfoInv(c)

PaCallInv(c) ==
  /\ c.state = "connect" => Fresh(c)
  /\ c.state = "run" => Stage(c) /\ RequestsInv(c)
  /\ c.state = "quit(0)" => Whole(c) /\ InfoInv(c)

PaInv == PaTypeOK /\ PaCallInv(pa)

-------------------------------------------------------------------------------
(* Numbers and sequences.                                                  *)

\* A set of natural numbers that is not empty has a least element.
LEMMA LeastIndex ==
  ASSUME NEW S \in SUBSET Nat, S # {}
  PROVE  \E n \in S : \A k \in S : n <= k
<1>1. IsWellFoundedOn(OpToRel(<, Nat), Nat)
  BY NatLessThanWellFounded, Zenon
<1>2. PICK n \in S : \A k \in S : ~ (<<k, n>> \in OpToRel(<, Nat))
  BY <1>1, WFMin, Zenon
<1>3. \A k \in S : k < n => <<k, n>> \in OpToRel(<, Nat)
  BY Zenon DEF OpToRel
<1>4. \A k \in S : ~(k < n)
  BY <1>2, <1>3, Zenon
<1> QED
  BY <1>4

\* The sources of a list in their order: each is somewhere in it.
LEMMA OrderFacts ==
  ASSUME NEW S \in SUBSET Sources
  PROVE  LET order == SetToSeq(S) IN
         /\ order \in Seq(S)
         /\ S # {} => Len(order) > 0
         /\ \A s \in S : \E i \in 1 .. Len(order) : order[i] = s
<1> DEFINE n == Cardinality(S)
           D == 1 .. n
           order == SetToSeq(S)
<1>1. IsFiniteSet(S)
  BY FS_Subset, FiniteAssumption
<1>2. n \in Nat /\ ExistsBijection(D, S)
  BY <1>1, FS_CardinalityType
<1>3. IsFiniteSet(D) /\ Cardinality(D) = n
  BY <1>2, FS_Interval
<1>4. PICK f \in Injection(D, S) : TRUE
  BY <1>2 DEF ExistsBijection, Bijection
<1>5. f \in [D -> S] /\ IsInjective(f)
  BY <1>4 DEF Injection
<1>6. order \in [D -> S] /\ IsInjective(order)
  BY <1>5 DEF SetToSeq
<1> HIDE DEF order
<1>7. order \in Injection(D, S)
  BY <1>6 DEF Injection
<1>8. order \in Surjection(D, S)
  BY <1>1, <1>3, <1>7, FS_Injection, Zenon
<1>9. \A s \in S : \E i \in D : order[i] = s
  BY <1>8 DEF Surjection
<1>10. order \in Seq(S) /\ Len(order) = n
  BY <1>2, <1>6
<1>11. S # {} => n > 0
  BY <1>2, <1>9
<1> QED
  BY <1>9, <1>10, <1>11 DEF order

-------------------------------------------------------------------------------
(* The parts of callbacks.                                                 *)

\* d differs from c at most in the state of the loop and in its requests.
Alike(c, d) ==
  /\ d.action = c.action /\ d.sink_name = c.sink_name /\ d.source_name = c.source_name
  /\ d.quit_count = c.quit_count /\ d.meant = c.meant /\ d.did = c.did
  /\ d.info = c.info /\ d.made = c.made

LEMMA AlikeInv ==
  ASSUME NEW c \in PaCalls, NEW d \in PaCalls, Alike(c, d), d.requests = c.requests,
         c.action \in MasterSets => d.draining = c.draining
  PROVE  /\ Stage(c) => Stage(d)
         /\ RequestsInv(c) => RequestsInv(d)
         /\ Whole(c) /\ c.action \notin MasterGets => Whole(d)
<1> USE DEF Alike
<1>1. Positions(d) = Positions(c) /\ (Nothing(c) => Nothing(d))
  BY DEF Positions, Nothing
<1>2. \A cbs : Lone(c, cbs) => Lone(d, cbs)
  BY DEF Lone
<1>3. \A names : Covers(c, names) => Covers(d, names)
  BY <1>1 DEF Covers
<1>4. Stage(c) => Stage(d)
  BY <1>1, <1>2, <1>3 DEF Stage, MasterSetStage, InputSetStage, OutputSetStage, InputDefaultStage
<1>5. RequestsInv(c) => RequestsInv(d)
  BY <1>1 DEF RequestsInv, RequestInv, InfoInv
<1> QED
  BY <1>4, <1>5 DEF Whole

\* Where nothing is under way a context that drains has done all it was to do.
LEMMA EmptyIsWhole ==
  ASSUME NEW c \in PaCalls, Stage(c), RequestsInv(c), c.requests = <<>>
  PROVE  Whole(c) /\ c.action \notin MasterSets \cup MasterGets
<1>1. Len(c.requests) = 0 /\ Positions(c) = {}
  BY DEF Positions
<1>2. \A cbs : ~Lone(c, cbs)
  BY <1>1 DEF Lone
<1>3. c.action \notin MasterSets
  BY <1>1, <1>2 DEF Stage, MasterSetStage
<1>4. c.action \in InputSets \cup {"SET_INPUT_DEFAULT_DEV", "SET_OUTPUT_DEFAULT_DEV"}
  BY <1>2, <1>3 DEF Stage, OutputSetStage, PaCalls, Actions
<1>5. c.meant \subseteq c.did
  BY <1>1, <1>2, <1>4
     DEF Stage, InputSetStage, InputDefaultStage, Covers, Nothing, InputSets
<1>6. c.did = c.meant
  BY <1>5 DEF RequestsInv, RequestInv
<1> QED
  BY <1>3, <1>4, <1>6 DEF Whole, InputSets, MasterGets, MasterSets

LEMMA DrainInv ==
  ASSUME NEW c \in PaCalls, c.state = "run", RequestsInv(c),
         c.requests = <<>> => Whole(c),
         c.requests # <<>> => Stage(c) /\ c.action \notin MasterSets
  PROVE  /\ Drain(c) \in PaCalls /\ PaCallInv(Drain(c)) /\ Alike(c, Drain(c))
         /\ Drain(c).ret = c.ret /\ Drain(c).requests = c.requests
         /\ Drain(c).state \in {"run", "quit(0)"}
<1> DEFINE d == Drain(c)
<1>1. CASE c.requests = <<>>
  <2>1. /\ d \in PaCalls /\ d.state = "quit(0)" /\ Alike(c, d)
        /\ d.ret = c.ret /\ d.requests = c.requests /\ d.draining = c.draining
    BY <1>1 DEF Drain, PaCalls, Alike
  <2> HIDE DEF d
  <2>2. Whole(d)
    BY <1>1, <2>1 DEF Whole, Alike
  <2>3. RequestsInv(d)
    BY <2>1, AlikeInv
  <2> QED
    BY <2>1, <2>2, <2>3 DEF PaCallInv, RequestsInv, d
<1>2. CASE c.requests # <<>>
  <2>1. /\ d \in PaCalls /\ d.state = "run" /\ Alike(c, d)
        /\ d.ret = c.ret /\ d.requests = c.requests
    BY <1>2 DEF Drain, PaCalls, Alike
  <2> HIDE DEF d
  <2>2. Stage(d) /\ RequestsInv(d)
    BY <1>2, <2>1, AlikeInv
  <2> QED
    BY <2>1, <2>2 DEF PaCallInv, d
<1> QED
  BY <1>1, <1>2

LEMMA EndOfListInv ==
  ASSUME NEW c \in PaCalls, c.state = "run", Stage(c), RequestsInv(c),
         c.action \notin MasterSets \cup MasterGets
  PROVE  /\ EndOfList(c) \in PaCalls /\ PaCallInv(EndOfList(c))
         /\ EndOfList(c).state \in {"run", "quit(0)"}
<1> DEFINE d == IF c.ret # 1 THEN Drain(c) ELSE c
           e == [d EXCEPT !.ret = 0]
<1>1. d \in PaCalls /\ PaCallInv(d) /\ d.state \in {"run", "quit(0)"} /\ Alike(c, d)
  BY DrainInv, EmptyIsWhole DEF PaCallInv, Alike
<1> HIDE DEF d
<1>2. /\ e \in PaCalls /\ e.state = d.state /\ e.requests = d.requests
      /\ Alike(d, e) /\ e.draining = d.draining
  BY ZenonT(40), <1>1 DEF PaCalls, Alike
<1> HIDE DEF e
<1>3. PaCallInv(e)
  <2>1. CASE d.state = "run"
    BY <1>1, <1>2, <2>1, AlikeInv DEF PaCallInv
  <2>2. CASE d.state = "quit(0)"
    <3>1. Whole(e)
      BY <1>1, <1>2, <2>2 DEF PaCallInv, Whole, Alike
    <3>2. InfoInv(e)
      BY <1>1, <1>2, <2>2 DEF PaCallInv, InfoInv, Alike, Positions
    <3> QED
      BY <1>2, <2>2, <3>1, <3>2 DEF PaCallInv
  <2> QED
    BY <1>1, <2>1, <2>2
<1> QED
  BY <1>1, <1>2, <1>3 DEF EndOfList, d, e

\* A callback that leaves a call in order leaves one with nothing under way,
\* too, when the context drains.
LEMMA CallbackInv ==
  ASSUME PaInv, NEW c \in PaCalls, PaCallInv(c), c.state # "connect",
         pa' = DrainComplete(c), UNCHANGED <<server, changes, calls>>
  PROVE  PaInv'
<1>1. CASE c.draining /\ c.state = "run" /\ c.requests = <<>>
  <2> DEFINE d == [c EXCEPT !.state = "quit(0)"]
  <2>1. /\ d \in PaCalls /\ d.state = "quit(0)" /\ d.requests = c.requests
        /\ Alike(c, d) /\ d.draining = c.draining
    BY DEF PaCalls, Alike
  <2>2. Whole(c) /\ c.action \notin MasterSets \cup MasterGets /\ InfoInv(c)
    BY <1>1, EmptyIsWhole DEF PaCallInv, RequestsInv
  <2> HIDE DEF d
  <2>3. Whole(d)
    BY <2>1, <2>2, AlikeInv
  <2>4. RequestsInv(d)
    BY <1>1, <2>1, AlikeInv DEF PaCallInv
  <2>5. PaCallInv(d)
    BY <2>1, <2>3, <2>4 DEF PaCallInv, RequestsInv
  <2>6. pa' = d
    BY <1>1 DEF DrainComplete, d
  <2>7. PaTypeOK'
    BY <2>1, <2>6 DEF PaInv, PaTypeOK
  <2> QED
    BY <2>5, <2>6, <2>7 DEF PaInv, PaCallInv, Stage, RequestsInv, InfoInv, Whole, Fresh
<1>2. CASE ~(c.draining /\ c.state = "run" /\ c.requests = <<>>)
  <2>1. pa' = c
    BY <1>2 DEF DrainComplete
  <2>2. PaTypeOK'
    BY <2>1 DEF PaInv, PaTypeOK
  <2> QED
    BY <2>1, <2>2 DEF PaInv
<1> QED
  BY <1>1, <1>2

\* A request more.
LEMMA IssueInv ==
  ASSUME PaTypeOK, NEW c \in PaCalls, NEW op \in RequestOps, NEW cb \in Callbacks,
         NEW dev \in Devs \cup {None}, NEW r, r = Request(op, cb, dev),
         NEW d, d = Issue(c, op, cb, dev)
  PROVE  /\ d \in PaCalls /\ Alike(c, d) /\ d.state = c.state
         /\ d.draining = c.draining /\ d.ret = c.ret
         /\ r \in Requests /\ r.op = op /\ r.cb = cb /\ r.dev = dev /\ ~r.answered
         /\ Len(c.requests) \in Nat /\ Len(d.requests) = Len(c.requests) + 1
         /\ d.requests[Len(c.requests) + 1] = r
         /\ \A i \in 1 .. Len(c.requests) : d.requests[i] = c.requests[i]
         /\ RequestInv(c) /\ OpOf(r) /\ (op = "set_value" => dev \in c.meant \cup {None})
              => RequestInv(d)
<1> DEFINE n == Len(c.requests)
<1>1. r \in Requests /\ r.op = op /\ r.cb = cb /\ r.dev = dev /\ ~r.answered
  BY DEF Request, Requests, PaTypeOK
<1>2. c.requests \in Seq(Requests)
  BY DEF PaCalls
<1>3. /\ Append(c.requests, r) \in Seq(Requests)
      /\ Len(Append(c.requests, r)) = n + 1 /\ Append(c.requests, r)[n + 1] = r
      /\ \A i \in 1 .. n : Append(c.requests, r)[i] = c.requests[i]
  BY <1>1, <1>2, AppendProperties
<1>4. d = [c EXCEPT !.requests = Append(c.requests, r)]
  BY DEF Issue
<1>5. /\ d \in PaCalls /\ Alike(c, d) /\ d.state = c.state
      /\ d.draining = c.draining /\ d.ret = c.ret
      /\ d.requests = Append(c.requests, r)
  BY ZenonT(40), <1>3, <1>4 DEF PaCalls, Alike
<1>6. ASSUME RequestInv(c), OpOf(r), op = "set_value" => dev \in c.meant \cup {None}
      PROVE  RequestInv(d)
  <2>1. n \in Nat /\ Positions(c) = 1 .. n /\ Positions(d) = 1 .. n + 1
    BY <1>2, <1>3, <1>5 DEF Positions
  <2>2. d.did \subseteq d.meant
    BY <1>5, <1>6 DEF RequestInv, Alike
  <2> SUFFICES ASSUME NEW k \in Positions(d)
               PROVE  /\ OpOf(d.requests[k])
                      /\ d.requests[k].op = "set_value" => d.requests[k].dev \in d.meant \cup {None}
                      /\ d.requests[k].answered => \A m \in 1 .. k : d.requests[m].answered
                      /\ d.requests[k].answered /\ d.requests[k].ok =>
                           /\ d.requests[k].op \in {"by_name", "set_value"}
                                => d.requests[k].dev \in Devs
                           /\ d.requests[k].op = "set_value" => d.requests[k].dev \in d.did
    BY <2>2 DEF RequestInv
  <2>3. CASE k = n + 1
    BY <1>1, <1>3, <1>5, <1>6, <2>3 DEF Alike
  <2>4. CASE k \in 1 .. n
    <3>1. \A m \in 1 .. k : d.requests[m] = c.requests[m]
      BY <1>3, <1>5, <2>1, <2>4
    <3>2. d.requests[k] = c.requests[k]
      BY <2>4, <3>1
    <3> QED
      BY <1>5, <1>6, <2>1, <2>4, <3>1, <3>2 DEF RequestInv, Alike
  <2> QED
    BY <2>1, <2>3, <2>4
<1> QED
  BY <1>1, <1>2, <1>3, <1>5, <1>6

\* The answer that is taken from the requests was of the first of them.
LEMMA RestFacts ==
  ASSUME PaInv, Answered
  PROVE  /\ Rest \in PaCalls /\ Alike(pa, Rest) /\ Rest.state = "run"
         /\ Rest.draining = pa.draining /\ Rest.ret = pa.ret
         /\ Stage(pa) /\ RequestsInv(pa)
         /\ Len(pa.requests) \in Nat \ {0}
         /\ Answer = pa.requests[1] /\ Answer \in Requests /\ Answer.answered
         /\ Len(Rest.requests) = Len(pa.requests) - 1
         /\ \A i \in 1 .. Len(pa.requests) - 1 : Rest.requests[i] = pa.requests[i + 1]
         /\ RequestInv(Rest)
         /\ Answer.ok => InfoInv(Rest)
<1>1. pa \in PaCalls /\ pa.state = "run" /\ pa.requests \in Seq(Requests) /\ pa.requests # <<>>
  BY DEF PaInv, PaTypeOK, PaCalls, Answered
<1>2. Stage(pa) /\ RequestsInv(pa)
  BY <1>1 DEF PaInv, PaCallInv
<1>3. Len(pa.requests) \in Nat \ {0}
  BY <1>1
<1>4. Answer = pa.requests[1] /\ Answer \in Requests /\ Answer.answered
  BY <1>1 DEF Answer, Answered
<1> DEFINE rest == Tail(pa.requests)
           n == Len(pa.requests)
<1>5. /\ rest \in Seq(Requests) /\ Len(rest) = n - 1
      /\ \A i \in 1 .. n - 1 : rest[i] = pa.requests[i + 1]
  BY <1>1, HeadTailProperties
<1> HIDE DEF rest
<1>6. Rest = [pa EXCEPT !.requests = rest]
  BY DEF Rest, rest
<1>7. /\ Rest \in PaCalls /\ Alike(pa, Rest) /\ Rest.state = "run" /\ Rest.requests = rest
      /\ Rest.draining = pa.draining /\ Rest.ret = pa.ret
  BY <1>1, <1>5, <1>6 DEF PaCalls, Alike
<1>8. RequestInv(Rest)
  <2>1. Rest.did \subseteq Rest.meant
    BY <1>2, <1>7 DEF RequestsInv, RequestInv, Alike
  <2> SUFFICES ASSUME NEW k \in Positions(Rest)
               PROVE  /\ OpOf(rest[k])
                      /\ rest[k].op = "set_value" => rest[k].dev \in Rest.meant \cup {None}
                      /\ rest[k].answered => \A m \in 1 .. k : rest[m].answered
                      /\ rest[k].answered /\ rest[k].ok =>
                           /\ rest[k].op \in {"by_name", "set_value"} => rest[k].dev \in Devs
                           /\ rest[k].op = "set_value" => rest[k].dev \in Rest.did
    BY <1>7, <2>1 DEF RequestInv
  <2>2. k \in 1 .. n - 1 /\ k + 1 \in Positions(pa)
    BY <1>3, <1>5, <1>7 DEF Positions
  <2>3. rest[k] = pa.requests[k + 1]
    BY <1>5, <2>2
  <2>4. \A m \in 1 .. k : rest[m] = pa.requests[m + 1] /\ m + 1 \in 1 .. k + 1
    BY <1>3, <1>5, <2>2
  <2>5. rest[k].answered => \A m \in 1 .. k + 1 : pa.requests[m].answered
    BY <1>2, <2>2, <2>3 DEF RequestsInv, RequestInv
  <2> QED
    BY SMTT(30), <1>2, <1>7, <2>2, <2>3, <2>4, <2>5 DEF RequestsInv, RequestInv, Alike
<1>9. ASSUME Answer.ok PROVE InfoInv(Rest)
  <2> SUFFICES ASSUME pa.info \in Sources PROVE InfoInv(Rest)
    BY <1>7 DEF InfoInv, Alike
  <2>1. /\ pa.action = "SET_INPUT_DEFAULT_DEV"
        /\ \A i \in 1 .. n : pa.requests[i].cb = "simple_callback"
        /\ pa.requests[n].op = "set_default" /\ pa.requests[n].dev = pa.info
        /\ pa.requests[n].answered /\ pa.requests[n].ok => pa.made = pa.info
    BY <1>1, <1>2 DEF RequestsInv, InfoInv, Positions
  <2>2. \A i \in Positions(Rest) : rest[i].cb = "simple_callback"
    BY <1>3, <1>5, <1>7, <2>1 DEF Positions
  <2>3. CASE n = 1
    <3>1. rest = <<>>
      BY <1>5, <2>3
    <3>2. pa.made = pa.info
      BY <1>4, <1>9, <2>1, <2>3
    <3> QED
      BY <1>7, <2>1, <2>2, <3>1, <3>2 DEF InfoInv, Alike
  <2>4. CASE n # 1
    <3>0. \A k \in Nat \ {0} : k # 1 => k - 1 \in 1 .. k - 1 /\ (k - 1) + 1 = k
      OBVIOUS
    <3>1. n - 1 \in 1 .. n - 1 /\ (n - 1) + 1 = n
      BY <1>3, <2>4, <3>0, Zenon
    <3>2. rest # <<>> /\ rest[n - 1] = pa.requests[n]
      BY <1>5, <3>1
    <3> QED
      BY <1>5, <1>7, <2>1, <2>2, <3>2 DEF InfoInv, Alike
  <2> QED
    BY <2>3, <2>4
<1> QED
  BY <1>2, <1>3, <1>4, <1>5, <1>7, <1>8, <1>9

-------------------------------------------------------------------------------
(* The callbacks of stages with one request.                               *)

\* At what stage a callback runs.
LEMMA StageOfAnswer ==
  ASSUME PaInv, Answered
  PROVE  LET cb == Answer.cb
             alone == Len(pa.requests) = 1 /\ Nothing(pa)
         IN  /\ cb = "server_info" =>
                  /\ pa.action \in MasterSets \cup MasterGets \cup {"GET_OUTPUT_DEVS"} /\ alone
                  /\ pa.action \in MasterSets => pa.quit_count = 2
             /\ cb = "get_value" => pa.action \in MasterGets /\ alone
             /\ cb = "devs" => pa.action \in {"GET_INPUT_DEVS", "GET_OUTPUT_DEVS"} /\ alone
             /\ cb = "get_input_devs" => pa.action = "GET_INPUT_DEVS" /\ alone
             /\ cb = "set_input" => pa.action \in InputSets /\ alone
             /\ cb \in {"set_profile", "set_input_default"} =>
                  pa.action = "SET_INPUT_DEFAULT_DEV" /\ alone /\ pa.info = None
             /\ cb \in {"set_output_default_dev", "default_set", "default_info"} =>
                  pa.action = "SET_OUTPUT_DEFAULT_DEV" /\ alone
             /\ cb = "get_info_to_set" =>
                  pa.action \in MasterSets \/ (pa.action \in OutputSets /\ alone)
             /\ cb = "simple_callback_lock" => pa.action \in MasterSets
             /\ cb = "simple_callback" => pa.action \notin MasterSets \cup MasterGets
             /\ cb # "simple_callback" => pa.info \notin Sources
             /\ pa.action \in MasterSets => ~pa.draining
<1>1. /\ Stage(pa) /\ RequestsInv(pa) /\ Answer = pa.requests[1] /\ pa.action \in Actions
      /\ Len(pa.requests) \in Nat \ {0} /\ 1 \in Positions(pa)
  BY RestFacts DEF Positions, PaInv, PaTypeOK, PaCalls
<1>2. Answer.cb # "simple_callback" => pa.info \notin Sources
  BY <1>1 DEF RequestsInv, InfoInv
<1>3. CASE pa.action \in MasterSets
  <2>1. MasterSetStage(pa) /\ ~pa.draining
    BY <1>1, <1>3 DEF Stage, MasterSetStage
  <2>2. CASE Lone(pa, {"server_info"}) /\ pa.quit_count = 2 /\ Nothing(pa)
    BY <1>1, <1>2, <1>3, <2>1, <2>2
       DEF MasterSetStage, Lone, MasterSets, MasterGets, InputSets, OutputSets
  <2>3. CASE Answer.cb \in {"get_info_to_set", "simple_callback_lock"}
    BY <1>2, <1>3, <2>1, <2>3
  <2> QED
    BY <1>1, <2>1, <2>2, <2>3 DEF MasterSetStage
<1>4. CASE pa.action \in MasterGets \cup {"GET_OUTPUT_DEVS", "GET_INPUT_DEVS"}
  BY <1>1, <1>2, <1>4 DEF Stage, Lone, MasterSets, MasterGets, InputSets, OutputSets
<1>5. CASE pa.action \in InputSets
  BY <1>1, <1>2, <1>5
     DEF Stage, InputSetStage, Lone, MasterSets, MasterGets, InputSets, OutputSets
<1>6. CASE pa.action \in OutputSets
  BY <1>1, <1>2, <1>6
     DEF Stage, OutputSetStage, Lone, MasterSets, MasterGets, InputSets, OutputSets
<1>7. CASE pa.action = "SET_INPUT_DEFAULT_DEV"
  BY <1>1, <1>2, <1>7
     DEF Stage, InputDefaultStage, Lone, MasterSets, MasterGets, InputSets, OutputSets
<1>8. CASE pa.action = "SET_OUTPUT_DEFAULT_DEV"
  BY <1>1, <1>2, <1>8 DEF Stage, Lone, MasterSets, MasterGets, InputSets, OutputSets
<1> QED
  BY <1>1, <1>3, <1>4, <1>5, <1>6, <1>7, <1>8 DEF Actions

\* A request that changes no value, where nothing is under way.
LEMMA NextAlone ==
  ASSUME PaTypeOK, NEW c \in PaCalls, c.requests = <<>>, Nothing(c), c.info \notin Sources,
         NEW op \in RequestOps, NEW cb \in Callbacks, NEW dev \in Devs \cup {None},
         OpOf(Request(op, cb, dev)), op # "set_value",
         NEW d, d = Issue(c, op, cb, dev)
  PROVE  /\ d \in PaCalls /\ d.state = c.state /\ d.draining = c.draining /\ Alike(c, d)
         /\ Len(d.requests) = 1 /\ d.requests[1].cb = cb /\ d.requests[1].op = op
         /\ Nothing(d) /\ RequestsInv(d)
<1> DEFINE r == Request(op, cb, dev)
<1>1. Len(c.requests) = 0 /\ RequestInv(c)
  BY DEF RequestInv, Positions, Nothing
<1>2. /\ d \in PaCalls /\ d.state = c.state /\ d.draining = c.draining /\ Alike(c, d)
      /\ r.cb = cb /\ r.op = op
  BY IssueInv
<1>3. RequestInv(d)
  BY <1>1, IssueInv
<1>4. Len(d.requests) = 1 /\ d.requests[1] = r
  <2>1. c.requests \in Seq(Requests) /\ r \in Requests
    BY IssueInv DEF PaCalls
  <2> HIDE DEF r
  <2>2. d.requests = Append(c.requests, r)
    BY DEF Issue, PaCalls, r
  <2> QED
    BY <2>1, <2>2
<1> HIDE DEF r
<1>5. Nothing(d) /\ InfoInv(d)
  BY <1>2 DEF Nothing, InfoInv, Alike
<1> QED
  BY <1>2, <1>3, <1>4, <1>5 DEF RequestsInv

\* The last answer of a call, or one after which a list has nothing for it.
LEMMA LastAnswer ==
  ASSUME PaInv, NEW c \in PaCalls, c.state = "run", c.requests = <<>>, c.did = c.meant,
         c.action \notin MasterSets, c.action \in MasterGets => c.ret \in Values,
         InfoInv(c), pa' = DrainComplete(Drain(c)), UNCHANGED <<server, changes, calls>>
  PROVE  PaInv'
<1>1. RequestsInv(c)
  BY DEF RequestsInv, RequestInv, Positions
<1>2. Whole(c)
  BY DEF Whole
<1>3. Drain(c) \in PaCalls /\ PaCallInv(Drain(c)) /\ Drain(c).state \in {"run", "quit(0)"}
  BY <1>1, <1>2, DrainInv
<1> QED
  BY <1>3, CallbackInv

LEMMA ErrorInv ==
  ASSUME PaInv, Answered, AnswerIsError
  PROVE  PaInv'
<1>1. /\ [Rest EXCEPT !.state = "quit(1)"] \in PaCalls
      /\ [Rest EXCEPT !.state = "quit(1)"].state = "quit(1)"
  BY ZenonT(40), RestFacts DEF PaCalls
<1>2. pa' \in PaCalls /\ pa'.state = "quit(1)"
  BY <1>1 DEF AnswerIsError
<1> QED
  BY <1>2 DEF AnswerIsError, PaInv, PaTypeOK, PaCallInv

LEMMA GetMasterInv ==
  ASSUME PaInv, Answered, GetMasterCallback
  PROVE  PaInv'
<1> DEFINE c == [Rest EXCEPT !.sink_name = Answer.seen.sink]
<1>1. Answer.cb = "server_info" /\ pa.action \notin MasterSets
  BY DEF GetMasterCallback, Callback
<1>2. /\ pa.action \in MasterGets \cup {"GET_OUTPUT_DEVS"} /\ Nothing(pa)
      /\ pa.info \notin Sources /\ Rest.requests = <<>>
  <2>1. Rest.requests \in Seq(Requests) /\ Len(Rest.requests) = 0
    BY <1>1, RestFacts, StageOfAnswer DEF PaCalls
  <2> QED
    BY <1>1, <2>1, StageOfAnswer
<1>3. /\ c \in PaCalls /\ c.state = "run" /\ c.requests = <<>> /\ c.action = pa.action
      /\ Nothing(c) /\ c.info \notin Sources /\ c.sink_name \in Devs \cup {None}
  <2>1. Answer.seen.sink \in Sinks \cup {None}
    BY RestFacts DEF Requests, Servers
  <2> QED
    BY <1>2, <2>1, RestFacts DEF PaCalls, Alike, Nothing, Devs
<1>4. PaTypeOK
  BY DEF PaInv
<1> HIDE DEF c
<1>5. CASE pa.action \in MasterGets
  <2> DEFINE d == Issue(c, "by_name", "get_value", c.sink_name)
  <2>1. OpOf(Request("by_name", "get_value", c.sink_name))
    BY DEF OpOf, Request
  <2>2. /\ d \in PaCalls /\ d.state = "run" /\ Nothing(d) /\ RequestsInv(d) /\ Alike(c, d)
        /\ Len(d.requests) = 1 /\ d.requests[1].cb = "get_value"
    BY <1>3, <1>4, <2>1, NextAlone DEF RequestOps, Callbacks
  <2> HIDE DEF d
  <2>3. Stage(d)
    BY <1>3, <1>5, <2>2
       DEF Stage, Lone, Alike, MasterSets, MasterGets, InputSets, OutputSets
  <2>4. PaCallInv(d)
    BY <2>2, <2>3 DEF PaCallInv
  <2>5. pa' = DrainComplete(d) /\ UNCHANGED <<server, changes, calls>>
    BY <1>5 DEF GetMasterCallback, Callback, c, d
  <2> QED
    BY <2>2, <2>4, <2>5, CallbackInv
<1>6. CASE pa.action = "GET_OUTPUT_DEVS"
  <2> DEFINE d == Issue(c, "list", "devs", None)
  <2>1. OpOf(Request("list", "devs", None))
    BY DEF OpOf, Request
  <2>2. /\ d \in PaCalls /\ d.state = "run" /\ Nothing(d) /\ RequestsInv(d) /\ Alike(c, d)
        /\ Len(d.requests) = 1 /\ d.requests[1].cb = "devs"
    BY <1>3, <1>4, <2>1, NextAlone DEF RequestOps, Callbacks
  <2> HIDE DEF d
  <2>3. Stage(d)
    BY <1>3, <1>6, <2>2
       DEF Stage, Lone, Alike, MasterSets, MasterGets, InputSets, OutputSets
  <2>4. PaCallInv(d)
    BY <2>2, <2>3 DEF PaCallInv
  <2>5. pa' = DrainComplete(d) /\ UNCHANGED <<server, changes, calls>>
    BY <1>6 DEF GetMasterCallback, Callback, c, d, MasterGets
  <2> QED
    BY <2>2, <2>4, <2>5, CallbackInv
<1> QED
  BY <1>2, <1>5, <1>6

\* The answer that ends a reading call.
LEMMA ReadInv ==
  ASSUME PaInv, Answered, GetValueCallback \/ DevsCallback
  PROVE  PaInv'
<1>1. CASE GetValueCallback
  <2> DEFINE v == Answer.seen.value[Answer.dev]
             c == [Rest EXCEPT !.ret = v]
  <2>1. /\ pa.action \in MasterGets /\ Nothing(pa) /\ pa.info \notin Sources
        /\ Len(pa.requests) = 1 /\ Answer.ok /\ Answer.cb = "get_value"
    BY <1>1, StageOfAnswer DEF GetValueCallback, Callback
  <2>2. Rest.requests = <<>>
    <3>1. Rest.requests \in Seq(Requests) /\ Len(Rest.requests) = 0
      BY <2>1, RestFacts DEF PaCalls
    <3> QED
      BY <3>1
  <2>3. v \in Values
    <3>1. /\ Answer = pa.requests[1] /\ 1 \in Positions(pa) /\ RequestInv(pa)
          /\ Answer \in Requests /\ Answer.answered
      BY <2>1, RestFacts DEF Positions, RequestsInv
    <3>2. Answer.dev \in Devs
      BY <2>1, <3>1 DEF RequestInv, OpOf
    <3> QED
      BY <3>1, <3>2 DEF Requests, Servers
  <2> HIDE DEF v
  <2>4. /\ Rest \in PaCalls /\ Rest.state = "run" /\ Rest.did = Rest.meant
        /\ Rest.action = pa.action /\ Rest.info = pa.info
    BY <2>1, RestFacts DEF Alike, Nothing
  <2>5. /\ c \in PaCalls /\ c.state = "run" /\ c.requests = <<>> /\ c.ret = v
        /\ c.did = c.meant /\ c.action = pa.action /\ c.info = pa.info
    BY <2>2, <2>3, <2>4 DEF PaCalls
  <2>6. pa' = DrainComplete(Drain(c)) /\ UNCHANGED <<server, changes, calls>>
    BY <1>1 DEF GetValueCallback, Callback, v
  <2> HIDE DEF c
  <2> QED
    BY <2>1, <2>3, <2>5, <2>6, LastAnswer DEF InfoInv, MasterGets, MasterSets
<1>2. CASE DevsCallback
  <2>1. /\ pa.action \in {"GET_INPUT_DEVS", "GET_OUTPUT_DEVS"} /\ Nothing(pa)
        /\ pa.info \notin Sources /\ Len(pa.requests) = 1
    BY <1>2, StageOfAnswer DEF DevsCallback, Callback
  <2>2. Rest.requests = <<>>
    <3>1. Rest.requests \in Seq(Requests) /\ Len(Rest.requests) = 0
      BY <2>1, RestFacts DEF PaCalls
    <3> QED
      BY <3>1
  <2>3. /\ Rest \in PaCalls /\ Rest.state = "run" /\ Rest.did = Rest.meant
        /\ Rest.action = pa.action /\ Rest.info = pa.info
    BY <2>1, RestFacts DEF Alike, Nothing
  <2>4. pa' = DrainComplete(Drain(Rest)) /\ UNCHANGED <<server, changes, calls>>
    BY <1>2 DEF DevsCallback, Callback
  <2> QED
    BY <2>1, <2>2, <2>3, <2>4, LastAnswer DEF InfoInv, MasterGets, MasterSets
<1> QED
  BY <1>1, <1>2

\* Where one request was under way nothing is left.
LEMMA RestAlone ==
  ASSUME PaInv, Answered, Len(pa.requests) = 1, Nothing(pa)
  PROVE  /\ Rest \in PaCalls /\ Rest.requests = <<>> /\ Nothing(Rest) /\ Rest.state = "run"
         /\ Rest.action = pa.action /\ Rest.info = pa.info /\ Rest.did = Rest.meant
<1>1. Rest.requests \in Seq(Requests) /\ Len(Rest.requests) = 0
  BY RestFacts DEF PaCalls
<1>2. Rest.requests = <<>>
  BY <1>1
<1> QED
  BY <1>2, RestFacts DEF Nothing, Alike

\* A malformed name ends the loop, and the end of the list perhaps again.
LEMMA MalformedInv ==
  ASSUME PaInv, Answered, MalformedName
  PROVE  PaInv'
<1> DEFINE c == [Rest EXCEPT !.state = "quit(1)"]
           e == EndOfList(c)
<1>1. /\ pa.action \in InputSets \cup {"SET_INPUT_DEFAULT_DEV"}
      /\ Len(pa.requests) = 1 /\ Nothing(pa) /\ pa.info \notin Sources
  BY StageOfAnswer DEF MalformedName, Callback
<1>2. pa' = DrainComplete(e) /\ UNCHANGED <<server, changes, calls>>
  BY DEF MalformedName, Callback
<1>3. /\ c \in PaCalls /\ c.state = "quit(1)" /\ c.requests = <<>> /\ c.did = c.meant
      /\ c.action = pa.action /\ c.info = pa.info
  BY <1>1, RestAlone DEF PaCalls
<1> HIDE DEF c
<1>4. /\ e \in PaCalls /\ e.state \in {"quit(0)", "quit(1)"}
      /\ e.requests = <<>> /\ e.did = e.meant /\ e.action = pa.action /\ e.info = pa.info
  BY <1>3 DEF EndOfList, Drain, PaCalls
<1> HIDE DEF e
<1>5. PaCallInv(e)
  BY <1>1, <1>4 DEF PaCallInv, Whole, InfoInv, InputSets, MasterSets, MasterGets
<1> QED
  BY <1>2, <1>4, <1>5, CallbackInv

\* One request that changes no value follows another.
LEMMA NextInv ==
  ASSUME PaInv, Answered, Len(pa.requests) = 1, Nothing(pa), pa.info \notin Sources,
         NEW op \in RequestOps, NEW cb \in Callbacks, NEW dev \in Devs \cup {None},
         OpOf(Request(op, cb, dev)), op # "set_value",
         \/ pa.action \in {"GET_INPUT_DEVS", "GET_OUTPUT_DEVS"} /\ cb = "devs"
         \/ /\ pa.action = "SET_INPUT_DEFAULT_DEV" /\ pa.info = None
            /\ cb \in {"set_profile", "set_input_default"}
         \/ /\ pa.action = "SET_OUTPUT_DEFAULT_DEV"
            /\ cb \in {"set_output_default_dev", "simple_callback", "default_set", "default_info"},
         pa' = DrainComplete(Issue(Rest, op, cb, dev)), UNCHANGED <<server, changes, calls>>
  PROVE  PaInv'
<1> DEFINE d == Issue(Rest, op, cb, dev)
<1>1. /\ Rest \in PaCalls /\ Rest.requests = <<>> /\ Nothing(Rest) /\ Rest.state = "run"
      /\ Rest.action = pa.action /\ Rest.info = pa.info /\ PaTypeOK
  BY RestAlone DEF PaInv
<1> HIDE DEF d
<1>2. /\ d \in PaCalls /\ d.state = "run" /\ Nothing(d) /\ RequestsInv(d)
      /\ d.action = pa.action /\ d.info = pa.info
      /\ Len(d.requests) = 1 /\ d.requests[1].cb = cb /\ d.requests[1].op = op
  BY <1>1, NextAlone DEF Alike, d
<1>3. Stage(d)
  BY <1>2 DEF Stage, InputDefaultStage, Lone, MasterSets, MasterGets, InputSets, OutputSets
<1>4. PaCallInv(d)
  BY <1>2, <1>3 DEF PaCallInv
<1> QED
  BY <1>2, <1>4, CallbackInv DEF d

LEMMA GetInputDevsInv ==
  ASSUME PaInv, Answered, GetInputDevsCallback
  PROVE  PaInv'
<1>1. /\ pa.action = "GET_INPUT_DEVS" /\ Len(pa.requests) = 1 /\ Nothing(pa)
      /\ pa.info \notin Sources
  BY StageOfAnswer DEF GetInputDevsCallback, Callback
<1>2. CASE Callback({"get_input_devs"}, Issue(Rest, "list", "devs", None))
  BY <1>1, <1>2, NextInv DEF Callback, OpOf, Request, RequestOps, Callbacks
<1>3. CASE Callback({"get_input_devs"}, Drain(Rest))
  BY <1>1, <1>3, RestAlone, LastAnswer DEF Callback, InfoInv, MasterGets, MasterSets
<1> QED
  BY <1>2, <1>3 DEF GetInputDevsCallback

LEMMA SetProfileInv ==
  ASSUME PaInv, Answered, SetProfileCallback
  PROVE  PaInv'
<1>1. /\ pa.action = "SET_INPUT_DEFAULT_DEV" /\ Len(pa.requests) = 1 /\ Nothing(pa)
      /\ pa.info = None /\ pa.info \notin Sources
  BY StageOfAnswer DEF SetProfileCallback, Callback
<1> QED
  BY <1>1, NextInv DEF SetProfileCallback, Callback, OpOf, Request, RequestOps, Callbacks

LEMMA OutputDefaultInv ==
  ASSUME PaInv, Answered,
         SetOutputDefaultCallback \/ DefaultSetCallback \/ DefaultInfoCallback
  PROVE  PaInv'
<1>1. /\ pa.action = "SET_OUTPUT_DEFAULT_DEV" /\ Len(pa.requests) = 1 /\ Nothing(pa)
      /\ pa.info \notin Sources /\ Answer.ok
  BY StageOfAnswer DEF SetOutputDefaultCallback, DefaultSetCallback, DefaultInfoCallback, Callback
<1>2. CASE DefaultSetCallback
  BY <1>1, <1>2, NextInv DEF DefaultSetCallback, Callback, OpOf, Request, RequestOps, Callbacks
<1>3. CASE DefaultInfoCallback
  <2>1. CASE Callback({"default_info"}, Drain(Rest))
    BY <1>1, <2>1, RestAlone, LastAnswer DEF Callback, InfoInv, MasterGets, MasterSets
  <2>2. CASE \E k \in Sinks : Callback({"default_info"}, Drain([Rest EXCEPT !.info = k]))
    <3>1. PICK k \in Sinks : Callback({"default_info"}, Drain([Rest EXCEPT !.info = k]))
      BY <2>2
    <3> DEFINE c == [Rest EXCEPT !.info = k]
    <3>2. /\ c \in PaCalls /\ c.requests = <<>> /\ c.state = "run" /\ c.did = c.meant
          /\ c.action = pa.action /\ c.info = k
      BY <1>1, RestAlone DEF PaCalls, Devs
    <3>3. pa' = DrainComplete(Drain(c)) /\ UNCHANGED <<server, changes, calls>>
      BY <3>1 DEF Callback
    <3> HIDE DEF c
    <3>4. k \notin Sources
      BY DevAssumption
    <3> QED
      BY <1>1, <3>2, <3>3, <3>4, LastAnswer DEF InfoInv, MasterGets, MasterSets
  <2> QED
    BY <1>3, <2>1, <2>2 DEF DefaultInfoCallback
<1>4. CASE SetOutputDefaultCallback
  <2> DEFINE sink == Answer.dev
             cb == IF pa.need_info THEN "default_set" ELSE "simple_callback"
             n == NumPorts[sink]
             op == IF n = 1 THEN "set_default" ELSE "set_port"
             d == Issue(Rest, op, cb, sink)
             e == [d EXCEPT !.ret = 1]
             c == IF n = 0 THEN Rest ELSE e
  <2>1. pa' = DrainComplete(EndOfList(c)) /\ UNCHANGED <<server, changes, calls>>
    BY <1>4 DEF SetOutputDefaultCallback, Callback
  <2>2. /\ Rest \in PaCalls /\ Rest.requests = <<>> /\ Rest.state = "run" /\ Nothing(Rest)
        /\ Rest.action = pa.action /\ Rest.info = pa.info /\ PaTypeOK
    BY <1>1, RestAlone DEF PaInv
  <2>3. Stage(Rest) /\ RequestsInv(Rest)
    BY <1>1, <2>2, RestFacts
       DEF Stage, RequestsInv, MasterSets, MasterGets, InputSets, OutputSets
  <2>4. /\ e \in PaCalls /\ e.state = "run" /\ e.action = pa.action
        /\ Stage(e) /\ RequestsInv(e)
    <3>1. /\ sink \in Devs \cup {None} /\ cb \in Callbacks /\ op \in RequestOps
          /\ op \in {"set_default", "set_port"} /\ cb \in {"default_set", "simple_callback"}
          /\ OpOf(Request(op, cb, sink))
      BY RestFacts DEF Requests, RequestOps, Callbacks, OpOf, Request
    <3> HIDE DEF sink, cb, op, d
    <3>2. /\ d \in PaCalls /\ d.state = "run" /\ Alike(Rest, d)
          /\ Len(d.requests) = 1 /\ d.requests[1].cb = cb /\ d.requests[1].op = op
          /\ Nothing(d) /\ RequestsInv(d)
      BY <1>1, <2>2, <3>1, NextAlone DEF d
    <3>3. Stage(d)
      BY <1>1, <2>2, <3>1, <3>2
         DEF Stage, Lone, Alike, MasterSets, MasterGets, InputSets, OutputSets
    <3>4. /\ e \in PaCalls /\ e.state = "run" /\ Alike(d, e) /\ e.requests = d.requests
          /\ e.draining = d.draining
      BY <3>2 DEF PaCalls, Alike
    <3> HIDE DEF e
    <3> QED
      BY <2>2, <3>2, <3>3, <3>4, AlikeInv DEF Alike
  <2> HIDE DEF e, d, n
  <2>5. /\ c \in PaCalls /\ c.state = "run" /\ Stage(c) /\ RequestsInv(c)
        /\ c.action \notin MasterSets \cup MasterGets
    BY <1>1, <2>2, <2>3, <2>4 DEF MasterSets, MasterGets
  <2> HIDE DEF c
  <2>6. /\ EndOfList(c) \in PaCalls /\ PaCallInv(EndOfList(c))
        /\ EndOfList(c).state \in {"run", "quit(0)"}
    BY <2>5, EndOfListInv
  <2> QED
    BY <2>1, <2>6, CallbackInv
<1> QED
  BY <1>2, <1>3, <1>4

-------------------------------------------------------------------------------
(* The callbacks that make a request for each source of a name.            *)

LEMMA IssueAllFacts ==
  ASSUME PaTypeOK, NEW c \in PaCalls, c.requests = <<>>, NEW op \in RequestOps,
         NEW S \in SUBSET Sources, S # {}, NEW d, d = IssueAll(c, op, S),
         NEW order, order = SetToSeq(S)
  PROVE  /\ d \in PaCalls /\ Alike(c, d) /\ d.state = c.state
         /\ order \in Seq(S) /\ Len(order) \in Nat \ {0}
         /\ \A s \in S : \E i \in 1 .. Len(order) : order[i] = s
         /\ d.requests # <<>> /\ Len(d.requests) = Len(order)
         /\ \A i \in 1 .. Len(order) :
              /\ d.requests[i].op = op /\ d.requests[i].cb = "simple_callback"
              /\ d.requests[i].dev = order[i] /\ ~d.requests[i].answered
<1> DEFINE all == [i \in 1 .. Len(order) |-> Request(op, "simple_callback", order[i])]
<1>1. /\ order \in Seq(S) /\ Len(order) > 0
      /\ \A s \in S : \E i \in 1 .. Len(order) : order[i] = s
  BY OrderFacts
<1>2. Len(order) \in Nat \ {0}
  BY <1>1
<1>3. \A i \in 1 .. Len(order) : order[i] \in Devs
  BY <1>1 DEF Devs
<1>4. \A i \in 1 .. Len(order) :
        /\ Request(op, "simple_callback", order[i]) \in Requests
        /\ all[i] = Request(op, "simple_callback", order[i])
  BY <1>3 DEF Request, Requests, PaTypeOK, Callbacks
<1>5. all \in Seq(Requests) /\ Len(all) = Len(order)
  BY <1>2, <1>4
<1>6. \A i \in 1 .. Len(order) :
        /\ all[i].op = op /\ all[i].cb = "simple_callback"
        /\ all[i].dev = order[i] /\ ~all[i].answered
  BY <1>4 DEF Request
<1> HIDE DEF all
<1>7. <<>> \o all = all
  BY <1>5, ConcatEmptySeq
<1>8. d = [c EXCEPT !.requests = all, !.ret = 1]
  <2>1. d = [c EXCEPT !.requests = @ \o all, !.ret = 1]
    BY DEF IssueAll, all
  <2>2. d = [c EXCEPT !.requests = <<>> \o all, !.ret = 1]
    BY <2>1 DEF PaCalls
  <2> QED
    BY <1>7, <2>2
<1>9. /\ d \in PaCalls /\ Alike(c, d) /\ d.state = c.state /\ d.requests = all
  BY ZenonT(40), <1>5, <1>8 DEF PaCalls, Alike
<1>10. all # <<>>
  BY <1>2, <1>5
<1> QED
  BY <1>1, <1>2, <1>5, <1>6, <1>9, <1>10

LEMMA SetInputInv ==
  ASSUME PaInv, Answered, SetInputCallback
  PROVE  PaInv'
<1> DEFINE S == Matching(Answer.seen)
           c == [Rest EXCEPT !.meant = S]
           d == IssueAll(c, "set_value", S)
<1>1. /\ pa.action \in InputSets /\ Len(pa.requests) = 1 /\ Nothing(pa)
      /\ pa.info \notin Sources
  BY StageOfAnswer DEF SetInputCallback, Callback
<1>2. pa' = DrainComplete(EndOfList(d)) /\ UNCHANGED <<server, changes, calls>>
  BY DEF SetInputCallback, Callback
<1>3. S \in SUBSET Sources /\ PaTypeOK
  BY DEF Matching, PaInv, PaTypeOK, PaCalls
<1> HIDE DEF S
<1>4. /\ c \in PaCalls /\ c.requests = <<>> /\ c.state = "run" /\ c.meant = S /\ c.did = {}
      /\ c.action = pa.action /\ c.info = pa.info
  BY <1>1, <1>3, RestAlone DEF PaCalls, Nothing, Devs
<1> HIDE DEF c
<1>5. /\ d \in PaCalls /\ d.state = "run" /\ d.action = pa.action
      /\ InputSetStage(d) /\ RequestsInv(d)
  <2>1. CASE S = {}
    <3>1. d = c
      BY <2>1 DEF IssueAll
    <3>2. Positions(c) = {}
      BY <1>4 DEF Positions
    <3> QED
      BY <1>1, <1>4, <2>1, <3>1, <3>2
         DEF InputSetStage, Covers, RequestsInv, RequestInv, InfoInv
  <2>2. CASE S # {}
    <3> DEFINE order == SetToSeq(S)
               n == Len(order)
    <3>1. /\ d \in PaCalls /\ Alike(c, d) /\ d.state = c.state
          /\ order \in Seq(S) /\ n \in Nat \ {0}
          /\ \A s \in S : \E i \in 1 .. n : order[i] = s
          /\ Len(d.requests) = n
          /\ \A i \in 1 .. n :
               /\ d.requests[i].op = "set_value" /\ d.requests[i].cb = "simple_callback"
               /\ d.requests[i].dev = order[i] /\ ~d.requests[i].answered
      BY <1>3, <1>4, <2>2, IssueAllFacts DEF RequestOps
    <3> HIDE DEF order, d
    <3>2. Positions(d) = 1 .. n /\ \A i \in 1 .. n : order[i] \in S
      BY <3>1 DEF Positions
    <3>3. InputSetStage(d)
      <4>1. \A s \in S : \E i \in Positions(d) : d.requests[i].dev = s
        BY SMTT(30), <3>1, <3>2
      <4>2. Covers(d, S)
        BY <4>1 DEF Covers
      <4>3. d.meant = S
        BY <1>4, <3>1 DEF Alike
      <4> QED
        BY <3>1, <3>2, <4>2, <4>3 DEF InputSetStage
    <3>4. RequestInv(d)
      BY SMTT(30), <1>4, <3>1, <3>2 DEF RequestInv, OpOf, Alike
    <3>5. InfoInv(d)
      BY <1>1, <1>4, <3>1 DEF InfoInv, Alike
    <3> QED
      BY <1>4, <3>1, <3>3, <3>4, <3>5 DEF RequestsInv, Alike
  <2> QED
    BY <2>1, <2>2
<1> HIDE DEF d
<1>6. Stage(d) /\ d.action \notin MasterSets \cup MasterGets
  BY <1>1, <1>5 DEF Stage, MasterSets, MasterGets, InputSets, OutputSets
<1>7. /\ EndOfList(d) \in PaCalls /\ PaCallInv(EndOfList(d))
      /\ EndOfList(d).state \in {"run", "quit(0)"}
  BY <1>5, <1>6, EndOfListInv
<1> QED
  BY <1>2, <1>7, CallbackInv

LEMMA SetInputDefaultInv ==
  ASSUME PaInv, Answered, SetInputDefaultCallback
  PROVE  PaInv'
<1> DEFINE S == Matching(Answer.seen)
           info == LastOf(S)
           c == [Rest EXCEPT !.info = info]
           d == IssueAll(c, "set_default", S)
           order == SetToSeq(S)
           n == Len(order)
<1>1. pa.action = "SET_INPUT_DEFAULT_DEV" /\ Len(pa.requests) = 1 /\ Nothing(pa)
  BY StageOfAnswer DEF SetInputDefaultCallback, Callback
<1>2. pa' = DrainComplete(EndOfList(d)) /\ UNCHANGED <<server, changes, calls>>
  BY DEF SetInputDefaultCallback, Callback
<1>3. S \in SUBSET Sources /\ PaTypeOK
  BY DEF Matching, PaInv, PaTypeOK, PaCalls
<1> HIDE DEF S
<1>4. /\ S # {} => info = order[n] /\ order \in Seq(S) /\ n \in Nat \ {0}
      /\ S = {} => info = None
      /\ info \in Sources \cup {None}
  <2>1. S # {} => order \in Seq(S) /\ n \in Nat \ {0}
    BY <1>3, OrderFacts
  <2>2. S # {} => info = order[n]
    BY DEF LastOf, Last
  <2>3. S = {} => info = None
    BY DEF LastOf
  <2> HIDE DEF order, info
  <2>4. S # {} => order[n] \in S
    BY <2>1
  <2> QED
    BY <1>3, <2>1, <2>2, <2>3, <2>4
<1> HIDE DEF order, info
<1>5. /\ c \in PaCalls /\ c.requests = <<>> /\ c.state = "run" /\ Nothing(c)
      /\ c.action = pa.action /\ c.info = info
  BY <1>1, <1>4, RestAlone DEF PaCalls, Nothing, Devs
<1> HIDE DEF c
<1>6. /\ d \in PaCalls /\ d.state = "run" /\ d.action = pa.action
      /\ InputDefaultStage(d) /\ RequestsInv(d)
  <2>1. CASE S = {}
    <3>1. d = c
      BY <2>1 DEF IssueAll
    <3>2. Positions(c) = {}
      BY <1>5 DEF Positions
    <3>3. c.info \notin Sources
      BY <1>4, <1>5, <2>1, DevAssumption DEF Devs
    <3> QED
      BY <1>5, <3>1, <3>2, <3>3
         DEF InputDefaultStage, RequestsInv, RequestInv, InfoInv, Nothing
  <2>2. CASE S # {}
    <3>1. /\ d \in PaCalls /\ Alike(c, d) /\ d.state = c.state
          /\ d.requests # <<>> /\ Len(d.requests) = n
          /\ \A i \in 1 .. n :
               /\ d.requests[i].op = "set_default" /\ d.requests[i].cb = "simple_callback"
               /\ d.requests[i].dev = order[i] /\ ~d.requests[i].answered
      BY SMTT(30), <1>3, <1>5, <2>2, IssueAllFacts DEF RequestOps, order
    <3> HIDE DEF d
    <3>2. Positions(d) = 1 .. n /\ n \in 1 .. n
      BY <1>4, <2>2, <3>1 DEF Positions
    <3>3. InputDefaultStage(d)
      BY <1>5, <3>1, <3>2 DEF InputDefaultStage, Nothing, Alike
    <3>4. RequestInv(d)
      BY <1>5, <3>1, <3>2 DEF RequestInv, OpOf, Alike, Nothing
    <3>5. InfoInv(d)
      BY <1>1, <1>4, <1>5, <2>2, <3>1, <3>2 DEF InfoInv, Alike
    <3> QED
      BY <1>5, <3>1, <3>3, <3>4, <3>5 DEF RequestsInv, Alike
  <2> QED
    BY <2>1, <2>2
<1> HIDE DEF d
<1>7. Stage(d) /\ d.action \notin MasterSets \cup MasterGets
  BY <1>1, <1>6 DEF Stage, MasterSets, MasterGets, InputSets, OutputSets
<1>8. /\ EndOfList(d) \in PaCalls /\ PaCallInv(EndOfList(d))
      /\ EndOfList(d).state \in {"run", "quit(0)"}
  BY <1>6, <1>7, EndOfListInv
<1> QED
  BY <1>2, <1>8, CallbackInv

-------------------------------------------------------------------------------
(* The callbacks that set values.                                          *)

\* A master call asks for both devices, or sets both.
LEMMA SetMasterInv ==
  ASSUME PaInv, Answered, SetMasterVolumeCallback \/ SetMasterMuteCallback
  PROVE  PaInv'
<1> DEFINE op == IF SetMasterVolumeCallback THEN "by_name" ELSE "set_value"
           cb == IF SetMasterVolumeCallback THEN "get_info_to_set" ELSE "simple_callback_lock"
           c == Named(Answer.seen)
           b == Issue(c, op, cb, c.sink_name)
           d == Issue(b, op, cb, c.source_name)
           names == {c.sink_name, c.source_name}
           a == [c EXCEPT !.state = "aborted"]
<1>1. /\ pa.action \in MasterSets /\ Len(pa.requests) = 1 /\ Nothing(pa)
      /\ pa.quit_count = 2 /\ pa.info \notin Sources /\ ~pa.draining
  BY StageOfAnswer DEF SetMasterVolumeCallback, SetMasterMuteCallback, Callback, MasterSets
<1>2. pa' \in {DrainComplete(d), DrainComplete(a)} /\ UNCHANGED <<server, changes, calls>>
  BY DEF SetMasterVolumeCallback, SetMasterMuteCallback, Callback
<1>3. /\ op \in RequestOps /\ cb \in {"get_info_to_set", "simple_callback_lock"}
      /\ \A dev : OpOf(Request(op, cb, dev))
  BY DEF RequestOps, OpOf, Request
<1>4. Answer.seen.sink \in Sinks \cup {None} /\ Answer.seen.source \in Sources \cup {None}
  BY RestFacts DEF Requests, Servers
<1>5. /\ c \in PaCalls /\ c.requests = <<>> /\ c.state = "run" /\ c.did = {} /\ c.info = pa.info
      /\ c.action = pa.action /\ c.quit_count = 2 /\ ~c.draining /\ c.meant = names \ {None}
  <2>1. /\ Rest \in PaCalls /\ Rest.requests = <<>> /\ Rest.state = "run" /\ Rest.did = {}
        /\ Rest.info = pa.info /\ Rest.action = pa.action /\ Rest.quit_count = 2
        /\ ~Rest.draining
    BY <1>1, RestAlone, RestFacts DEF Nothing, Alike
  <2>2. c \in PaCalls
    BY ZenonT(40), <1>4, <2>1 DEF Named, PaCalls, Devs
  <2> QED
    BY <2>1, <2>2 DEF Named, PaCalls
<1>6. /\ c.sink_name \in Devs \cup {None} /\ c.source_name \in Devs \cup {None}
      /\ cb \in Callbacks /\ PaTypeOK
  BY <1>3, <1>5 DEF PaCalls, Devs, Callbacks, PaInv
<1>7. RequestInv(c) /\ Len(c.requests) = 0
  BY <1>5 DEF RequestInv, Positions
<1> HIDE DEF c, op, cb
<1> DEFINE r1 == Request(op, cb, c.sink_name)
           r2 == Request(op, cb, c.source_name)
<1>8. /\ b \in PaCalls /\ Alike(c, b) /\ b.state = "run" /\ ~b.draining /\ RequestInv(b)
      /\ b.requests = Append(c.requests, r1) /\ r1 \in Requests
      /\ r1.cb = cb /\ r1.dev = c.sink_name
  <2>1. /\ b \in PaCalls /\ Alike(c, b) /\ b.state = "run" /\ ~b.draining
        /\ r1 \in Requests /\ r1.cb = cb /\ r1.dev = c.sink_name
    BY <1>3, <1>5, <1>6, IssueInv
  <2>2. RequestInv(b)
    BY <1>3, <1>5, <1>6, <1>7, IssueInv
  <2>3. b.requests = Append(c.requests, r1)
    BY <1>5 DEF Issue, PaCalls
  <2> QED
    BY <2>1, <2>2, <2>3
<1> HIDE DEF b
<1>9. /\ d \in PaCalls /\ Alike(b, d) /\ d.state = "run" /\ ~d.draining /\ RequestInv(d)
      /\ d.requests = Append(b.requests, r2) /\ r2 \in Requests
      /\ r2.cb = cb /\ r2.dev = c.source_name
  <2>1. /\ d \in PaCalls /\ Alike(b, d) /\ d.state = "run" /\ ~d.draining
        /\ r2 \in Requests /\ r2.cb = cb /\ r2.dev = c.source_name
    BY <1>3, <1>6, <1>8, IssueInv
  <2>2. b.meant = c.meant
    BY <1>8 DEF Alike
  <2>3. RequestInv(d)
    BY <1>3, <1>5, <1>6, <1>8, <2>2, IssueInv
  <2>4. d.requests = Append(b.requests, r2)
    BY <1>8 DEF Issue, PaCalls
  <2> QED
    BY <2>1, <2>3, <2>4
<1> HIDE DEF d, r1, r2
<1>10. Len(d.requests) = 2 /\ d.requests[1] = r1 /\ d.requests[2] = r2
  BY <1>5, <1>8, <1>9
<1>11. MasterSetStage(d)
  <2>1. d.sink_name = c.sink_name /\ d.source_name = c.source_name /\ d.quit_count = 2
        /\ d.meant = names \ {None}
    BY <1>5, <1>8, <1>9 DEF Alike
  <2>2. Positions(d) = {1, 2}
    BY <1>10 DEF Positions
  <2>3. \A n \in Positions(d) :
          /\ d.requests[n].cb \in {"get_info_to_set", "simple_callback_lock"}
          /\ d.requests[n].dev \in names
    BY <1>3, <1>8, <1>9, <1>10, <2>2
  <2>4. Covers(d, names)
    BY <1>8, <1>9, <1>10, <2>2 DEF Covers
  <2> QED
    <3>1. {d.sink_name, d.source_name} = names
      BY <2>1
    <3>2. d.quit_count = Len(d.requests) /\ d.quit_count \in 1 .. 2
      BY <1>10, <2>1
    <3> HIDE DEF names
    <3> QED
      BY <1>9, <2>1, <2>3, <2>4, <3>1, <3>2 DEF MasterSetStage
<1>12. Stage(d) /\ InfoInv(d)
  <2>1. d.action \in MasterSets /\ d.info \notin Sources
    BY <1>1, <1>5, <1>8, <1>9 DEF Alike
  <2> QED
    BY <1>11, <2>1 DEF Stage, InfoInv, MasterSets, MasterGets, InputSets, OutputSets
<1>13. PaCallInv(d)
  BY <1>9, <1>12 DEF PaCallInv, RequestsInv
<1>14. a \in PaCalls /\ a.state = "aborted"
  BY <1>5 DEF PaCalls
<1> HIDE DEF a
<1>15. PaCallInv(a)
  BY <1>14 DEF PaCallInv
<1>16. CASE pa' = DrainComplete(d)
  BY <1>2, <1>9, <1>13, <1>16, CallbackInv
<1>17. CASE pa' = DrainComplete(a)
  BY <1>2, <1>14, <1>15, <1>17, CallbackInv
<1> QED
  BY <1>2, <1>16, <1>17

\* At the second stage of a master call. With the first answer, if it is of a
\* request to set a value, that device is done.
LEMMA MasterFacts ==
  ASSUME PaInv, Answered, pa.action \in MasterSets, Answer.ok,
         Answer.cb \in {"get_info_to_set", "simple_callback_lock"}
  PROVE  /\ ~pa.draining /\ pa.quit_count = Len(pa.requests) /\ pa.quit_count \in 1 .. 2
         /\ pa.meant = {pa.sink_name, pa.source_name} \ {None} /\ pa.did \subseteq pa.meant
         /\ Covers(pa, {pa.sink_name, pa.source_name})
         /\ \A n \in Positions(pa) :
              /\ pa.requests[n].cb \in {"get_info_to_set", "simple_callback_lock"}
              /\ pa.requests[n].dev \in {pa.sink_name, pa.source_name}
         /\ 1 \in Positions(pa) /\ Answer = pa.requests[1] /\ Answer.dev \in Devs
         /\ Answer.cb = "simple_callback_lock" => Answer.dev \in pa.did
<1>1. /\ Stage(pa) /\ RequestInv(pa) /\ 1 \in Positions(pa) /\ Answer = pa.requests[1]
      /\ Answer.answered
  BY RestFacts DEF RequestsInv, Positions
<1>2. MasterSetStage(pa) /\ ~Lone(pa, {"server_info"})
  BY <1>1 DEF Stage, Lone
<1>3. /\ Answer.dev \in Devs
      /\ Answer.cb = "simple_callback_lock" => Answer.dev \in pa.did
      /\ pa.did \subseteq pa.meant
  BY <1>1 DEF RequestInv, OpOf
<1> QED
  BY <1>1, <1>2, <1>3 DEF MasterSetStage

\* What covers the names with the answer covers them without it once its
\* device is done or asked for anew.
LEMMA RestCovers ==
  ASSUME PaInv, Answered, NEW names, Covers(pa, names)
  PROVE  \A x \in names : \/ x \in pa.did \/ x = Answer.dev
                          \/ \E n \in Positions(Rest) : x = Rest.requests[n].dev
<1> SUFFICES ASSUME NEW x \in names, x \notin pa.did, x # Answer.dev
             PROVE  \E n \in Positions(Rest) : x = Rest.requests[n].dev
  OBVIOUS
<1>1. PICK n \in Positions(pa) : x = pa.requests[n].dev
  BY DEF Covers
<1>2. n # 1 /\ n \in 1 .. Len(pa.requests) /\ Len(pa.requests) \in Nat
  BY <1>1, RestFacts DEF Positions
<1>3. n - 1 \in 1 .. Len(pa.requests) - 1 /\ (n - 1) + 1 = n
  BY <1>2
<1>4. Rest.requests[n - 1] = pa.requests[n] /\ n - 1 \in Positions(Rest)
  BY <1>3, RestFacts DEF Positions
<1> QED
  BY <1>1, <1>4

LEMMA CountedInv ==
  ASSUME PaInv, Answered, SimpleCallbackLock
  PROVE  PaInv'
<1> DEFINE names == {pa.sink_name, pa.source_name}
           n == Len(pa.requests)
<1>1. pa.action \in MasterSets /\ Answer.ok /\ Answer.cb = "simple_callback_lock"
      /\ pa.info \notin Sources
  BY StageOfAnswer DEF SimpleCallbackLock, Callback
<1>2. /\ ~pa.draining /\ pa.quit_count = n /\ n \in 1 .. 2
      /\ pa.meant = names \ {None} /\ pa.did \subseteq pa.meant
      /\ Covers(pa, names) /\ Answer.dev \in pa.did
      /\ \A i \in Positions(pa) :
           /\ pa.requests[i].cb \in {"get_info_to_set", "simple_callback_lock"}
           /\ pa.requests[i].dev \in names
  BY <1>1, MasterFacts
<1>3. /\ Rest \in PaCalls /\ Alike(pa, Rest) /\ Rest.state = "run" /\ ~Rest.draining
      /\ RequestInv(Rest) /\ Len(Rest.requests) = n - 1 /\ Rest.requests \in Seq(Requests)
      /\ \A i \in 1 .. n - 1 : Rest.requests[i] = pa.requests[i + 1]
  BY <1>2, RestFacts DEF PaCalls
<1>4. pa' = DrainComplete(Counted(Rest)) /\ UNCHANGED <<server, changes, calls>>
  BY DEF SimpleCallbackLock, Callback
<1>5. \A x \in names : x \in pa.did \/ \E i \in Positions(Rest) : x = Rest.requests[i].dev
  BY <1>2, RestCovers
<1>6. CASE n = 1
  <2> DEFINE c == [Rest EXCEPT !.quit_count = 0]
  <2>1. Rest.requests = <<>> /\ Positions(Rest) = {}
    BY <1>3, <1>6 DEF Positions
  <2>2. names \subseteq pa.did
    BY <1>5, <2>1
  <2>3. None \notin names /\ pa.meant = names /\ pa.did = pa.meant
    BY <1>2, <2>2
  <2>4. /\ c \in PaCalls /\ c.state = "run" /\ c.requests = <<>>
        /\ c.action = pa.action /\ c.did = pa.did /\ c.meant = pa.meant
        /\ c.sink_name = pa.sink_name /\ c.source_name = pa.source_name /\ c.info = pa.info
    BY <1>3, <2>1 DEF PaCalls, Alike
  <2>5. pa' = DrainComplete(Drain(c))
    BY <1>2, <1>3, <1>4, <1>6 DEF Counted, Alike
  <2> HIDE DEF c
  <2>6. Whole(c) /\ RequestsInv(c)
    BY <1>1, <2>3, <2>4
       DEF Whole, RequestsInv, RequestInv, InfoInv, Positions, MasterSets, MasterGets
  <2>7. Drain(c) \in PaCalls /\ PaCallInv(Drain(c)) /\ Drain(c).state \in {"run", "quit(0)"}
    BY <2>4, <2>6, DrainInv
  <2> QED
    BY <1>4, <2>5, <2>7, CallbackInv
<1>7. CASE n = 2
  <2> DEFINE d == [Rest EXCEPT !.quit_count = 1]
  <2>1. /\ d \in PaCalls /\ d.state = "run" /\ d.requests = Rest.requests
        /\ d.action = pa.action /\ d.did = pa.did /\ d.meant = pa.meant
        /\ d.sink_name = pa.sink_name /\ d.source_name = pa.source_name /\ d.info = pa.info
        /\ d.quit_count = 1 /\ ~d.draining
    BY <1>3 DEF PaCalls, Alike
  <2>2. pa' = DrainComplete(d)
    <3>1. Rest.quit_count = 2 /\ Counted(Rest) = [Rest EXCEPT !.quit_count = 2 - 1]
      BY <1>2, <1>3, <1>7 DEF Counted, Alike
    <3> QED
      BY <1>4, <3>1
  <2> HIDE DEF d
  <2>3. Positions(d) = {1} /\ Positions(Rest) = {1} /\ 2 \in Positions(pa)
        /\ d.requests[1] = pa.requests[2]
    <3>1. 1 \in 1 .. n - 1 /\ n - 1 = 1
      BY <1>7
    <3>2. Rest.requests[1] = pa.requests[1 + 1]
      BY <1>3, <3>1
    <3>3. Len(Rest.requests) = 1 /\ Len(d.requests) = 1
      BY <1>3, <2>1, <3>1
    <3>4. Positions(d) = {1} /\ Positions(Rest) = {1}
      BY <3>3 DEF Positions
    <3>5. 2 \in Positions(pa)
      BY <1>7 DEF Positions
    <3> QED
      BY <2>1, <3>2, <3>4, <3>5
  <2>4. Covers(d, names)
    BY <1>5, <2>1, <2>3 DEF Covers
  <2>5. MasterSetStage(d)
    BY <1>2, <1>3, <1>7, <2>1, <2>3, <2>4 DEF MasterSetStage
  <2>6. RequestsInv(d)
    BY <1>1, <1>3, <2>1, <2>3 DEF RequestsInv, RequestInv, InfoInv, Alike
  <2>7. Stage(d)
    BY <1>1, <2>1, <2>5 DEF Stage, MasterSets, MasterGets, InputSets, OutputSets
  <2>8. PaCallInv(d)
    BY <2>1, <2>6, <2>7 DEF PaCallInv
  <2> QED
    BY <1>4, <2>1, <2>2, <2>8, CallbackInv
<1> QED
  BY <1>2, <1>6, <1>7

LEMMA InfoToSetInv ==
  ASSUME PaInv, Answered, GetInfoToSetCallback
  PROVE  PaInv'
<1> DEFINE dev == Answer.dev
           cb == IF pa.action \in MasterSets THEN "simple_callback_lock" ELSE "simple_callback"
           c == [Rest EXCEPT !.meant = @ \cup {dev}]
           d == Issue(c, "set_value", cb, dev)
           r == Request("set_value", cb, dev)
           n == Len(pa.requests)
<1>1. /\ Answer.ok /\ Answer.cb = "get_info_to_set" /\ pa.info \notin Sources
      /\ pa.action \in MasterSets \/ (pa.action \in OutputSets /\ n = 1 /\ Nothing(pa))
  BY StageOfAnswer DEF GetInfoToSetCallback, Callback
<1>2. pa' = DrainComplete(d) /\ UNCHANGED <<server, changes, calls>>
  BY DEF GetInfoToSetCallback, Callback
<1>3. dev \in Devs
  <2>1. /\ Answer = pa.requests[1] /\ Answer.answered /\ RequestInv(pa) /\ 1 \in Positions(pa)
    BY RestFacts DEF RequestsInv, Positions
  <2> QED
    BY <1>1, <2>1 DEF RequestInv, OpOf
<1>4. cb \in Callbacks /\ cb \in {"simple_callback", "simple_callback_lock"}
      /\ (pa.action \in MasterSets => cb = "simple_callback_lock") /\ PaTypeOK
      /\ (pa.action \notin MasterSets => cb = "simple_callback")
      /\ "set_value" \in RequestOps /\ dev \in Devs \cup {None}
  BY <1>3 DEF Callbacks, PaInv, RequestOps
<1> HIDE DEF dev, cb
<1>5. /\ c \in PaCalls /\ c.state = "run" /\ c.meant = pa.meant \cup {dev} /\ c.did = pa.did
      /\ c.requests = Rest.requests /\ c.draining = pa.draining
      /\ c.action = pa.action /\ c.info = pa.info /\ c.quit_count = pa.quit_count
      /\ c.sink_name = pa.sink_name /\ c.source_name = pa.source_name
  BY SMTT(30), <1>3, RestFacts DEF PaCalls, Alike
<1>6. RequestInv(c) /\ Len(c.requests) = n - 1 /\ n \in Nat \ {0}
  BY <1>5, RestFacts DEF RequestInv, Positions, Alike
<1> HIDE DEF c
<1>7. /\ d \in PaCalls /\ Alike(c, d) /\ d.state = "run" /\ d.draining = c.draining
      /\ r \in Requests /\ r.op = "set_value" /\ r.cb = cb /\ r.dev = dev
  BY <1>4, <1>5, IssueInv
<1>8. RequestInv(d)
  <2>1. OpOf(r)
    BY <1>4, <1>7 DEF OpOf
  <2> QED
    BY <1>3, <1>4, <1>5, <1>6, <2>1, IssueInv
<1>9. /\ Len(d.requests) = n /\ d.requests[n] = r
      /\ \A i \in 1 .. n - 1 : d.requests[i] = Rest.requests[i]
  <2>1. d.requests = Append(c.requests, r) /\ c.requests \in Seq(Requests)
    BY <1>5 DEF Issue, PaCalls
  <2> HIDE DEF d, r
  <2>2. /\ Len(d.requests) = (n - 1) + 1 /\ d.requests[(n - 1) + 1] = r
        /\ \A i \in 1 .. n - 1 : d.requests[i] = c.requests[i]
    BY <1>6, <1>7, <2>1
  <2> QED
    BY <1>5, <1>6, <2>2
<1> HIDE DEF d, r
<1>10. d.action = pa.action /\ d.info = pa.info /\ d.did = pa.did /\ d.meant = pa.meant \cup {dev}
       /\ d.sink_name = pa.sink_name /\ d.source_name = pa.source_name
       /\ d.quit_count = pa.quit_count
  BY <1>5, <1>7 DEF Alike
<1>11. Positions(d) = 1 .. n /\ n \in 1 .. n
  BY <1>6, <1>9 DEF Positions
<1>12. Stage(d)
  <2>1. CASE pa.action \in MasterSets
    <3> DEFINE names == {pa.sink_name, pa.source_name}
    <3>1. /\ ~pa.draining /\ pa.quit_count = n /\ pa.quit_count \in 1 .. 2
          /\ pa.meant = names \ {None} /\ Covers(pa, names)
          /\ \A i \in Positions(pa) :
               /\ pa.requests[i].cb \in {"get_info_to_set", "simple_callback_lock"}
               /\ pa.requests[i].dev \in names
          /\ 1 \in Positions(pa) /\ Answer = pa.requests[1]
      BY <1>1, <2>1, MasterFacts
    <3>2. dev \in names /\ d.meant = names \ {None}
      BY <1>3, <1>10, <3>1, DevAssumption DEF dev
    <3>3. Covers(d, names)
      <4> SUFFICES ASSUME NEW x \in names, x \notin d.did
                   PROVE  \E i \in Positions(d) : x = d.requests[i].dev
        BY DEF Covers
      <4>1. CASE x = dev
        BY <1>7, <1>9, <1>11, <4>1
      <4>2. CASE x # dev
        <5>1. PICK i \in Positions(Rest) : x = Rest.requests[i].dev
          BY <1>10, <3>1, <4>2, RestCovers DEF dev
        <5>2. i \in 1 .. n - 1 /\ i \in 1 .. n
          BY <1>5, <1>6 DEF Positions
        <5> QED
          BY <1>9, <1>11, <5>1, <5>2
      <4> QED
        BY <4>1, <4>2
    <3>4. ASSUME NEW i \in Positions(d)
          PROVE  /\ d.requests[i].cb \in {"get_info_to_set", "simple_callback_lock"}
                 /\ d.requests[i].dev \in names
      <4>1. CASE i = n
        BY <1>4, <1>7, <1>9, <2>1, <3>2, <4>1
      <4>2. CASE i # n
        <5>1. i \in 1 .. n - 1 /\ i + 1 \in Positions(pa)
          BY <1>6, <1>11, <4>2 DEF Positions
        <5>2. d.requests[i] = pa.requests[i + 1]
          BY <1>9, <5>1, RestFacts
        <5> QED
          BY <3>1, <5>1, <5>2
      <4> QED
        BY <4>1, <4>2
    <3>5. MasterSetStage(d)
      <4>1. {d.sink_name, d.source_name} = names /\ ~d.draining
            /\ d.quit_count = Len(d.requests) /\ d.quit_count \in 1 .. 2
        BY <1>5, <1>7, <1>9, <1>10, <3>1
      <4> HIDE DEF names
      <4> QED
        BY <3>2, <3>3, <3>4, <4>1 DEF MasterSetStage
    <3> QED
      BY <1>10, <2>1, <3>5 DEF Stage, MasterSets, MasterGets, InputSets, OutputSets
  <2>2. CASE pa.action \notin MasterSets
    <3>1. pa.action \in OutputSets /\ n = 1 /\ pa.meant = {}
      BY <1>1, <2>2 DEF Nothing
    <3>2. /\ Len(d.requests) = 1 /\ d.requests[1].cb = "simple_callback"
          /\ d.requests[1].op = "set_value" /\ d.meant = {d.requests[1].dev}
      BY <1>4, <1>7, <1>9, <1>10, <2>2, <3>1
    <3>3. OutputSetStage(d)
      BY <3>2 DEF OutputSetStage, Lone
    <3> QED
      BY <1>10, <3>1, <3>3 DEF Stage, MasterSets, MasterGets, InputSets, OutputSets
  <2> QED
    BY <2>1, <2>2
<1>13. PaCallInv(d)
  BY <1>1, <1>7, <1>8, <1>10, <1>12 DEF PaCallInv, RequestsInv, InfoInv
<1> QED
  BY <1>2, <1>7, <1>13, CallbackInv

LEMMA SimpleInv ==
  ASSUME PaInv, Answered, SimpleCallback
  PROVE  PaInv'
<1> DEFINE n == Len(pa.requests)
<1>1. /\ Answer.ok /\ Answer.cb = "simple_callback"
      /\ pa.action \notin MasterSets \cup MasterGets
  BY StageOfAnswer DEF SimpleCallback, Callback
<1>2. /\ Rest \in PaCalls /\ Alike(pa, Rest) /\ Rest.state = "run"
      /\ Stage(pa) /\ RequestInv(pa) /\ RequestsInv(Rest) /\ Rest.action = pa.action
      /\ Answer = pa.requests[1] /\ Answer.answered /\ 1 \in Positions(pa)
      /\ n \in Nat \ {0} /\ Len(Rest.requests) = n - 1 /\ Rest.requests \in Seq(Requests)
      /\ \A i \in 1 .. n - 1 : Rest.requests[i] = pa.requests[i + 1]
  BY <1>1, RestFacts DEF RequestsInv, Positions, Alike, PaCalls
<1>3. Answer.op = "set_value" => Answer.dev \in pa.did
  BY <1>1, <1>2 DEF RequestInv
<1>4. \A i \in Positions(Rest) : i + 1 \in Positions(pa) /\ Rest.requests[i] = pa.requests[i + 1]
  BY <1>2 DEF Positions
<1>5. Rest.requests = <<>> => Whole(Rest)
  <2> SUFFICES ASSUME Rest.requests = <<>> PROVE Rest.did = Rest.meant
    BY <1>1, <1>2 DEF Whole
  <2>1. n = 1 /\ Positions(Rest) = {}
    BY <1>2 DEF Positions
  <2>2. pa.meant \subseteq pa.did
    <3>1. CASE pa.action \in InputSets
      <4>1. Covers(pa, pa.meant) /\ Answer.op = "set_value"
        BY <1>1, <1>2, <3>1 DEF Stage, InputSetStage, Lone
      <4> QED
        BY <1>3, <2>1, <4>1, RestCovers
    <3>2. CASE pa.action \in OutputSets
      BY <1>1, <1>2, <1>3, <3>2 DEF Stage, OutputSetStage, Lone
    <3>3. CASE pa.action \in {"SET_INPUT_DEFAULT_DEV", "SET_OUTPUT_DEFAULT_DEV"}
      BY <1>1, <1>2, <3>3 DEF Stage, InputDefaultStage, Nothing
    <3>4. CASE pa.action \in {"GET_INPUT_DEVS", "GET_OUTPUT_DEVS"}
      BY <1>2, <3>4 DEF Stage, Nothing
    <3> QED
      BY <1>1, <3>1, <3>2, <3>3, <3>4 DEF PaInv, PaTypeOK, PaCalls, Actions
  <2>3. pa.did \subseteq pa.meant
    BY <1>2 DEF RequestInv
  <2>4. Rest.did = pa.did /\ Rest.meant = pa.meant
    BY <1>2 DEF Alike
  <2>5. pa.did = pa.meant
    <3>1. \A S, T : S \subseteq T /\ T \subseteq S => S = T
      OBVIOUS
    <3> QED
      BY <2>2, <2>3, <3>1, Zenon
  <2> QED
    BY <2>4, <2>5
<1>6. ASSUME Rest.requests # <<>> PROVE Stage(Rest)
  <2>1. n # 1
    BY <1>2, <1>6
  <2>2. pa.action \in InputSets \cup {"SET_INPUT_DEFAULT_DEV"}
    <3>1. CASE pa.action \in OutputSets
      BY <1>2, <2>1, <3>1 DEF Stage, OutputSetStage, Lone
    <3>2. CASE pa.action \in {"SET_OUTPUT_DEFAULT_DEV", "GET_INPUT_DEVS", "GET_OUTPUT_DEVS"}
      BY <1>2, <2>1, <3>2 DEF Stage, Lone
    <3> QED
      BY <1>1, <3>1, <3>2 DEF PaInv, PaTypeOK, PaCalls, Actions
  <2>3. CASE pa.action \in InputSets
    <3>1. Covers(pa, pa.meant)
          /\ \A i \in Positions(pa) :
               pa.requests[i].cb = "simple_callback" /\ pa.requests[i].op = "set_value"
      BY <1>2, <2>1, <2>3 DEF Stage, InputSetStage, Lone
    <3>2. Answer.dev \in pa.did
      BY <1>2, <1>3, <3>1
    <3>3. Covers(Rest, Rest.meant)
      BY <1>2, <3>1, <3>2, RestCovers DEF Covers, Alike
    <3>4. InputSetStage(Rest)
      BY <1>4, <3>1, <3>3 DEF InputSetStage
    <3> QED
      BY <1>2, <2>3, <3>4 DEF Stage, MasterSets, MasterGets, InputSets, OutputSets
  <2>4. CASE pa.action = "SET_INPUT_DEFAULT_DEV"
    <3>1. Nothing(pa)
          /\ \A i \in Positions(pa) :
               pa.requests[i].cb = "simple_callback" /\ pa.requests[i].op # "set_value"
      BY <1>2, <2>1, <2>4 DEF Stage, InputDefaultStage, Lone
    <3>2. InputDefaultStage(Rest)
      BY <1>2, <1>4, <3>1 DEF InputDefaultStage, Nothing, Alike
    <3> QED
      BY <1>2, <2>4, <3>2 DEF Stage, MasterSets, MasterGets, InputSets, OutputSets
  <2> QED
    BY <2>2, <2>3, <2>4
<1>7. /\ Drain(Rest) \in PaCalls /\ PaCallInv(Drain(Rest))
      /\ Drain(Rest).state \in {"run", "quit(0)"}
  BY <1>1, <1>2, <1>5, <1>6, DrainInv
<1> QED
  BY <1>7, CallbackInv DEF SimpleCallback, Callback

-------------------------------------------------------------------------------
(* The beginning of a call.                                                *)

LEMMA NoPaCallFacts ==
  /\ NoPaCall \in PaCalls /\ NoPaCall.requests = <<>> /\ ~NoPaCall.draining
  /\ NoPaCall.meant = {} /\ NoPaCall.did = {} /\ NoPaCall.info = None
  /\ NoPaCall.state = "none"
<1>1. (CHOOSE v \in Values : TRUE) \in Values /\ (CHOOSE p \in Ports : TRUE) \in Ports
  BY PortAssumption
<1>2. <<>> \in Seq(Requests)
  OBVIOUS
<1> QED
  BY <1>1, <1>2 DEF NoPaCall, PaCalls, Actions, MasterGets

\* A call with other arguments is a call.
LEMMA ArgsFacts ==
  /\ \A c \in PaCalls, v \in Values : [c EXCEPT !.value = v] \in PaCalls
  /\ \A c \in PaCalls, S \in SUBSET Sources : [c EXCEPT !.sources = S] \in PaCalls
  /\ \A c \in PaCalls, b \in BOOLEAN : [c EXCEPT !.malformed = b] \in PaCalls
  /\ \A c \in PaCalls, b \in BOOLEAN : [c EXCEPT !.none = b] \in PaCalls
  /\ \A c \in PaCalls, b \in BOOLEAN : [c EXCEPT !.need_info = b] \in PaCalls
  /\ \A c \in PaCalls, k \in Sinks : [c EXCEPT !.sink_name = k] \in PaCalls
  /\ \A c \in PaCalls, p \in Ports : [c EXCEPT !.port = p] \in PaCalls
<1>1. \A c \in PaCalls, v \in Values : [c EXCEPT !.value = v] \in PaCalls
  BY DEF PaCalls
<1>2. \A c \in PaCalls, S \in SUBSET Sources : [c EXCEPT !.sources = S] \in PaCalls
  BY DEF PaCalls
<1>3. \A c \in PaCalls, b \in BOOLEAN : [c EXCEPT !.malformed = b] \in PaCalls
  BY DEF PaCalls
<1>4. \A c \in PaCalls, b \in BOOLEAN : [c EXCEPT !.none = b] \in PaCalls
  BY DEF PaCalls
<1>5. \A c \in PaCalls, b \in BOOLEAN : [c EXCEPT !.need_info = b] \in PaCalls
  BY DEF PaCalls
<1>6. \A c \in PaCalls, k \in Sinks : [c EXCEPT !.sink_name = k] \in PaCalls
  BY DEF PaCalls
<1>7. \A c \in PaCalls, p \in Ports : [c EXCEPT !.port = p] \in PaCalls
  BY DEF PaCalls
<1> QED
  BY <1>1, <1>2, <1>3, <1>4, <1>5, <1>6, <1>7

\* The same of what every call sets first.
LEMMA StartFacts ==
  /\ \A c \in PaCalls : [c EXCEPT !.state = "connect"] \in PaCalls
  /\ \A c \in PaCalls, a \in Actions : [c EXCEPT !.action = a] \in PaCalls
  /\ \A c \in PaCalls, g \in Garbage \cup {0, 1} : [c EXCEPT !.garbage = g] \in PaCalls
  /\ \A c \in PaCalls, g \in Garbage \cup {0, 1} : [c EXCEPT !.ret = g] \in PaCalls
<1>1. \A c \in PaCalls : [c EXCEPT !.state = "connect"] \in PaCalls
  BY DEF PaCalls
<1>2. \A c \in PaCalls, a \in Actions : [c EXCEPT !.action = a] \in PaCalls
  BY DEF PaCalls
<1>3. \A c \in PaCalls, g \in Garbage \cup {0, 1} : [c EXCEPT !.garbage = g] \in PaCalls
  BY DEF PaCalls
<1>4. \A c \in PaCalls, g \in Garbage \cup {0, 1} : [c EXCEPT !.ret = g] \in PaCalls
  BY DEF PaCalls
<1> QED
  BY <1>1, <1>2, <1>3, <1>4

LEMMA BeginInv ==
  ASSUME PaInv, NEW args \in PaCalls, Fresh(args), NEW action \in Actions,
         action \in OutputSets \cup {"SET_OUTPUT_DEFAULT_DEV"} => args.sink_name \in Sinks,
         calls < MaxCalls, calls' = calls + 1, UNCHANGED <<server, changes>>,
         NEW g \in Garbage \cup {0, 1},
         pa' = [args EXCEPT !.state = "connect", !.action = action, !.garbage = g, !.ret = g]
  PROVE  PaInv'
<1>1. /\ pa' \in PaCalls /\ pa'.state = "connect" /\ pa'.requests = <<>> /\ ~pa'.draining
      /\ pa'.meant = {} /\ pa'.did = {} /\ pa'.info = None
      /\ pa'.action = action /\ pa'.sink_name = args.sink_name
  <2>1. /\ args.requests = <<>> /\ ~args.draining
        /\ args.meant = {} /\ args.did = {} /\ args.info = None
    BY DEF Fresh, Nothing
  <2>2. pa' \in PaCalls
    BY StartFacts, Zenon
  <2>3. pa'.state = "connect" /\ pa'.action = action
    BY DEF PaCalls
  <2>4. /\ pa'.requests = args.requests /\ pa'.draining = args.draining
        /\ pa'.meant = args.meant /\ pa'.did = args.did /\ pa'.info = args.info
        /\ pa'.sink_name = args.sink_name
    BY SMTT(30) DEF PaCalls
  <2> QED
    BY <2>1, <2>2, <2>3, <2>4
<1>2. Fresh(pa)'
  BY <1>1 DEF Fresh, Nothing
<1>3. PaCallInv(pa)'
  BY <1>1, <1>2 DEF PaCallInv
<1>4. calls' \in 0 .. MaxCalls
  BY BoundAssumption DEF PaInv, PaTypeOK
<1> QED
  BY <1>1, <1>3, <1>4 DEF PaInv, PaTypeOK

\* Every call of the client begins with arguments of these kinds.
Begins(args, action, g) ==
  /\ Fresh(args)
  /\ action \in OutputSets \cup {"SET_OUTPUT_DEFAULT_DEV"} => args.sink_name \in Sinks
  /\ calls < MaxCalls /\ calls' = calls + 1 /\ UNCHANGED <<server, changes>>
  /\ pa' = [args EXCEPT !.state = "connect", !.action = action, !.garbage = g, !.ret = g]

LEMMA ClientBegins ==
  ASSUME Client
  PROVE  \E args \in PaCalls, action \in Actions, g \in Garbage \cup {0, 1} :
           Begins(args, action, g)
<1> DEFINE Goal == \E args \in PaCalls, action \in Actions, g \in Garbage \cup {0, 1} :
                     Begins(args, action, g)
<1> SUFFICES Goal
  OBVIOUS
<1>1. ASSUME NEW action \in Actions, NEW args \in PaCalls, Fresh(args),
             action \in OutputSets \cup {"SET_OUTPUT_DEFAULT_DEV"} => args.sink_name \in Sinks,
             BeginCall(action, args)
      PROVE  Goal
  <2>1. /\ calls < MaxCalls /\ calls' = calls + 1 /\ UNCHANGED <<server, changes>>
        /\ \E g \in Garbage :
             pa' = [args EXCEPT !.state = "connect", !.action = action, !.garbage = g, !.ret = g]
    BY <1>1 DEF BeginCall, Idle
  <2> QED
    BY <1>1, <2>1 DEF Begins
<1> HIDE DEF Goal
<1>2. CASE MasterCall
  <2>1. PICK action \in MasterSets \cup MasterGets, v \in Values :
          BeginCall(action, [NoPaCall EXCEPT !.value = v])
    BY <1>2 DEF MasterCall
  <2> DEFINE args == [NoPaCall EXCEPT !.value = v]
  <2>2. args \in PaCalls /\ Fresh(args)
        /\ action \in Actions \ (OutputSets \cup {"SET_OUTPUT_DEFAULT_DEV"})
    <3>1. /\ args.requests = <<>> /\ ~args.draining
          /\ args.meant = {} /\ args.did = {} /\ args.info = None
          /\ args.action = NoPaCall.action
      BY NoPaCallFacts DEF PaCalls
    <3>3. args \in PaCalls
      BY NoPaCallFacts, ArgsFacts, Zenon
    <3> HIDE DEF args
    <3>2. NoPaCall.action = "GET_MASTER_MUTE"
      BY DEF NoPaCall
    <3> QED
      BY <3>1, <3>2, <3>3 DEF Fresh, Nothing, Actions, OutputSets, MasterSets, MasterGets
  <2> HIDE DEF args
  <2> QED
    BY <1>1, <2>1, <2>2 DEF args
<1>3. CASE ListCall
  <2>1. PICK action \in {"GET_INPUT_DEVS", "GET_OUTPUT_DEVS"} : BeginCall(action, NoPaCall)
    BY <1>3 DEF ListCall
  <2>2. NoPaCall.action = "GET_MASTER_MUTE"
    BY DEF NoPaCall
  <2>3. Fresh(NoPaCall) /\ action \in Actions \ (OutputSets \cup {"SET_OUTPUT_DEFAULT_DEV"})
    BY <2>2, NoPaCallFacts DEF Fresh, Nothing, Actions, OutputSets
  <2> QED
    BY <1>1, <2>1, <2>3, NoPaCallFacts
<1>4. CASE InputCall
  <2>1. PICK action \in InputSets, v \in Values, sources \in SUBSET Sources,
             malformed \in BOOLEAN :
          BeginCall(action, [NoPaCall EXCEPT !.value = v, !.sources = sources,
                                             !.malformed = malformed])
    BY <1>4 DEF InputCall
  <2> DEFINE args == [NoPaCall EXCEPT !.value = v, !.sources = sources, !.malformed = malformed]
  <2>2. args \in PaCalls /\ Fresh(args)
        /\ action \in Actions \ (OutputSets \cup {"SET_OUTPUT_DEFAULT_DEV"})
    <3>1. /\ args.requests = <<>> /\ ~args.draining
          /\ args.meant = {} /\ args.did = {} /\ args.info = None
          /\ args.action = NoPaCall.action
      BY NoPaCallFacts DEF PaCalls
    <3>3. args \in PaCalls
      BY NoPaCallFacts, ArgsFacts, Zenon
    <3> HIDE DEF args
    <3>2. NoPaCall.action = "GET_MASTER_MUTE"
      BY DEF NoPaCall
    <3> QED
      BY <3>1, <3>2, <3>3 DEF Fresh, Nothing, Actions, OutputSets, InputSets
  <2> HIDE DEF args
  <2> QED
    BY <1>1, <2>1, <2>2 DEF args
<1>5. CASE OutputCall
  <2>1. PICK action \in OutputSets, v \in Values, k \in Sinks :
          BeginCall(action, [NoPaCall EXCEPT !.value = v, !.sink_name = k])
    BY <1>5 DEF OutputCall
  <2> DEFINE args == [NoPaCall EXCEPT !.value = v, !.sink_name = k]
  <2>2. args \in PaCalls /\ Fresh(args) /\ action \in Actions /\ args.sink_name \in Sinks
    <3>1. /\ args.requests = <<>> /\ ~args.draining
          /\ args.meant = {} /\ args.did = {} /\ args.info = None /\ args.sink_name = k
      BY NoPaCallFacts DEF PaCalls
    <3>3. args \in PaCalls
      BY NoPaCallFacts, ArgsFacts, Zenon
    <3> HIDE DEF args
    <3> QED
      BY <3>1, <3>3 DEF Fresh, Nothing, Actions
  <2> HIDE DEF args
  <2> QED
    BY <1>1, <2>1, <2>2 DEF args
<1>6. CASE InputDefaultCall
  <2>1. PICK sources \in SUBSET Sources, malformed \in BOOLEAN, none \in BOOLEAN,
             need_info \in BOOLEAN :
          LET args == [NoPaCall EXCEPT !.sources = sources, !.malformed = malformed,
                                       !.none = none, !.need_info = need_info]
          IN  \/ BeginCall("SET_INPUT_DEFAULT_DEV", args)
              \/ /\ calls < MaxCalls /\ calls' = calls + 1 /\ UNCHANGED <<server, changes>>
                 /\ pa' = [args EXCEPT !.state = "connect", !.action = "SET_INPUT_DEFAULT_DEV",
                                       !.garbage = 1, !.ret = 1]
    <3>1. BeginCall("SET_INPUT_DEFAULT_DEV", NoPaCall) \in BOOLEAN
      BY DEF BeginCall
    <3> QED
      BY <1>6, ZenonT(30) DEF InputDefaultCall, Idle
  <2> DEFINE args == [NoPaCall EXCEPT !.sources = sources, !.malformed = malformed,
                                      !.none = none, !.need_info = need_info]
  <2>2. args \in PaCalls /\ Fresh(args)
    <3>1. /\ args.requests = <<>> /\ ~args.draining
          /\ args.meant = {} /\ args.did = {} /\ args.info = None
          /\ args.action = NoPaCall.action
      BY NoPaCallFacts DEF PaCalls
    <3>3. args \in PaCalls
      BY NoPaCallFacts, ArgsFacts, Zenon
    <3> HIDE DEF args
    <3>2. NoPaCall.action = "GET_MASTER_MUTE"
      BY DEF NoPaCall
    <3> QED
      BY <3>1, <3>2, <3>3 DEF Fresh, Nothing, OutputSets
  <2>3. "SET_INPUT_DEFAULT_DEV" \in Actions \ (OutputSets \cup {"SET_OUTPUT_DEFAULT_DEV"})
    BY DEF Actions, OutputSets
  <2>4. \/ BeginCall("SET_INPUT_DEFAULT_DEV", args)
        \/ /\ calls < MaxCalls /\ calls' = calls + 1 /\ UNCHANGED <<server, changes>>
           /\ pa' = [args EXCEPT !.state = "connect", !.action = "SET_INPUT_DEFAULT_DEV",
                                 !.garbage = 1, !.ret = 1]
    BY <2>1
  <2> HIDE DEF args
  <2> QED
    BY <1>1, <2>2, <2>3, <2>4 DEF Begins, Goal
<1>7. CASE OutputDefaultCall
  <2>1. PICK k \in Sinks, port \in Ports, need_info \in BOOLEAN :
          BeginCall("SET_OUTPUT_DEFAULT_DEV",
                    [NoPaCall EXCEPT !.sink_name = k, !.port = port, !.need_info = need_info])
    BY <1>7 DEF OutputDefaultCall
  <2> DEFINE args == [NoPaCall EXCEPT !.sink_name = k, !.port = port, !.need_info = need_info]
  <2>2. args \in PaCalls /\ Fresh(args) /\ args.sink_name \in Sinks
    <3>1. /\ args.requests = <<>> /\ ~args.draining
          /\ args.meant = {} /\ args.did = {} /\ args.info = None /\ args.sink_name = k
      BY NoPaCallFacts DEF PaCalls
    <3>3. args \in PaCalls
      BY NoPaCallFacts, ArgsFacts, Zenon
    <3> HIDE DEF args
    <3> QED
      BY <3>1, <3>3 DEF Fresh, Nothing
  <2>3. "SET_OUTPUT_DEFAULT_DEV" \in Actions
    BY DEF Actions
  <2> HIDE DEF args
  <2> QED
    BY <1>1, <2>1, <2>2, <2>3 DEF args
<1> QED
  BY <1>2, <1>3, <1>4, <1>5, <1>6, <1>7 DEF Client

LEMMA ClientInv ==
  ASSUME PaInv, Client
  PROVE  PaInv'
BY ClientBegins, BeginInv DEF Begins

\* pa_set_dev_mute, of a sink: the one that is meant is set at once.
LEMMA OutputMuteInv ==
  ASSUME PaTypeOK, NEW c \in PaCalls, c.state = "run", c.requests = <<>>, Nothing(c),
         c.info \notin Sources, c.action = "SET_OUTPUT_DEV_MUTE",
         c.sink_name \in Devs \cup {None}, c.sink_name \in Sinks,
         NEW d, d = Issue([c EXCEPT !.meant = {c.sink_name}], "set_value", "simple_callback",
                          c.sink_name)
  PROVE  d \in PaCalls /\ d.state = "run" /\ Stage(d) /\ RequestsInv(d)
<1> DEFINE e == [c EXCEPT !.meant = {c.sink_name}]
           r == Request("set_value", "simple_callback", c.sink_name)
<1>1. /\ e \in PaCalls /\ e.state = "run" /\ e.requests = <<>> /\ e.meant = {c.sink_name}
      /\ e.did = {} /\ e.info = c.info /\ e.action = c.action /\ e.sink_name = c.sink_name
  BY DEF PaCalls, Nothing, Devs
<1>2. d = Issue(e, "set_value", "simple_callback", c.sink_name)
  OBVIOUS
<1> HIDE DEF e
<1>3. "set_value" \in RequestOps /\ "simple_callback" \in Callbacks
  BY DEF RequestOps, Callbacks
<1>4. /\ d \in PaCalls /\ d.state = "run" /\ Alike(e, d)
      /\ r.op = "set_value" /\ r.cb = "simple_callback" /\ r.dev = c.sink_name /\ r \in Requests
  BY <1>1, <1>2, <1>3, IssueInv
<1>5. Len(e.requests) = 0 /\ RequestInv(e)
  BY <1>1 DEF RequestInv, Positions
<1>6. OpOf(r)
  BY <1>4 DEF OpOf
<1>7. RequestInv(d)
  BY <1>1, <1>2, <1>3, <1>5, <1>6, IssueInv
<1> HIDE DEF r
<1>8. d.requests = Append(e.requests, r)
  BY <1>1, <1>2 DEF Issue, PaCalls, r
<1>9. Len(d.requests) = 1 /\ d.requests[1] = r
  <2>1. d.requests = Append(<<>>, r) /\ r \in Requests
    BY <1>1, <1>4, <1>8
  <2>2. \A x \in Requests : Len(Append(<<>>, x)) = 1 /\ Append(<<>>, x)[1] = x
    OBVIOUS
  <2> QED
    BY <2>1, <2>2, Zenon
<1>10. Stage(d)
  BY <1>1, <1>4, <1>9
     DEF Stage, OutputSetStage, Lone, Alike, MasterSets, MasterGets, InputSets, OutputSets
<1>11. InfoInv(d)
  BY <1>1, <1>4 DEF InfoInv, Alike
<1> QED
  BY <1>4, <1>7, <1>10, <1>11 DEF RequestsInv

LEMMA ReadyInv ==
  ASSUME PaInv, Ready
  PROVE  PaInv'
<1> DEFINE c == [pa EXCEPT !.state = "run", !.quit_count = QuitCount(pa.action)]
           e == [c EXCEPT !.meant = {c.sink_name}]
           d == FirstRequest(c)
<1>1. pa' = d /\ UNCHANGED <<server, changes, calls>> /\ pa.state = "connect" /\ PaTypeOK
  BY DEF Ready, PaInv
<1>2. pa \in PaCalls /\ Fresh(pa) /\ pa.action \in Actions
  BY <1>1 DEF PaInv, PaTypeOK, PaCallInv, PaCalls
<1>3. QuitCount(pa.action) \in 0 .. 2 /\ (pa.action \in MasterSets => QuitCount(pa.action) = 2)
  BY DEF QuitCount
<1>4. /\ c \in PaCalls /\ c.state = "run" /\ c.requests = <<>> /\ ~c.draining
      /\ Nothing(c) /\ c.info = None /\ c.action = pa.action
      /\ c.quit_count = QuitCount(pa.action)
      /\ c.action \in OutputSets \cup {"SET_OUTPUT_DEFAULT_DEV"} => c.sink_name \in Sinks
  <2>1. c \in PaCalls
    <3>1. \A a \in PaCalls : [a EXCEPT !.state = "run"] \in PaCalls
      BY DEF PaCalls
    <3>2. \A a \in PaCalls : [a EXCEPT !.quit_count = QuitCount(pa.action)] \in PaCalls
      BY <1>3 DEF PaCalls
    <3> QED
      BY <1>2, <3>1, <3>2, Zenon
  <2>2. c.state = "run" /\ c.action = pa.action /\ c.quit_count = QuitCount(pa.action)
    BY <1>2, SMTT(30) DEF PaCalls
  <2>3. /\ c.requests = pa.requests /\ c.draining = pa.draining /\ c.meant = pa.meant
        /\ c.did = pa.did /\ c.info = pa.info /\ c.sink_name = pa.sink_name
    BY <1>2, SMTT(30) DEF PaCalls
  <2> HIDE DEF c
  <2> QED
    BY <1>2, <2>1, <2>2, <2>3 DEF Fresh, Nothing
<1>5. c.info \notin Sources /\ None \in Devs \cup {None}
      /\ c.sink_name \in Devs \cup {None}
  BY <1>4, DevAssumption DEF Devs, PaCalls
<1> HIDE DEF c
<1>6. ASSUME NEW op \in RequestOps, NEW cb \in Callbacks, NEW dev \in Devs \cup {None},
             op \notin {"set_value", "set_default"}, NEW f, f = Issue(c, op, cb, dev),
             cb = "simple_callback_lock" => FALSE,
             cb \in {"get_info_to_set", "get_value", "set_output_default_dev"} => op = "by_name"
      PROVE  /\ f \in PaCalls /\ f.state = "run" /\ ~f.draining /\ Alike(c, f)
             /\ Len(f.requests) = 1 /\ f.requests[1].cb = cb /\ f.requests[1].op = op
             /\ Nothing(f) /\ RequestsInv(f)
  <2>1. OpOf(Request(op, cb, dev))
    BY <1>6 DEF OpOf, Request
  <2> QED
    BY <1>1, <1>4, <1>5, <1>6, <2>1, NextAlone
<1>7. d \in PaCalls /\ d.state = "run" /\ Stage(d) /\ RequestsInv(d)
  <2>1. CASE c.action \in MasterSets \cup MasterGets \cup {"GET_OUTPUT_DEVS"}
    <3>1. d = Issue(c, "server_info", "server_info", None)
      BY <2>1 DEF FirstRequest, MasterSets, MasterGets, InputSets
    <3> HIDE DEF d
    <3>2. /\ d \in PaCalls /\ d.state = "run" /\ ~d.draining /\ Alike(c, d)
          /\ Lone(d, {"server_info"}) /\ Nothing(d) /\ RequestsInv(d)
      BY <1>5, <1>6, <3>1 DEF RequestOps, Callbacks, Lone
    <3>3. Lone(d, {"server_info", "get_value"}) /\ Lone(d, {"server_info", "devs"})
      BY <3>2 DEF Lone
    <3>4. d.action = c.action /\ (c.action \in MasterSets => d.quit_count = 2)
      BY <1>3, <1>4, <3>2 DEF Alike
    <3> QED
      BY <2>1, <3>2, <3>3, <3>4
         DEF Stage, MasterSetStage, MasterSets, MasterGets, InputSets, OutputSets
  <2>2. CASE c.action = "GET_INPUT_DEVS"
    <3>1. d = Issue(c, "list", "get_input_devs", None)
      BY <2>2 DEF FirstRequest, MasterSets, MasterGets, InputSets
    <3> HIDE DEF d
    <3>2. /\ d \in PaCalls /\ d.state = "run" /\ Alike(c, d)
          /\ Lone(d, {"get_input_devs", "devs"}) /\ Nothing(d) /\ RequestsInv(d)
      BY <1>5, <1>6, <3>1 DEF RequestOps, Callbacks, Lone
    <3> QED
      BY <2>2, <3>2 DEF Stage, Alike, MasterSets, MasterGets, InputSets, OutputSets
  <2>3. CASE c.action \in InputSets
    <3>1. d = Issue(c, "list", "set_input", None)
      BY <2>3 DEF FirstRequest, MasterSets, MasterGets, InputSets
    <3> HIDE DEF d
    <3>2. /\ d \in PaCalls /\ d.state = "run" /\ Alike(c, d)
          /\ Lone(d, {"set_input"}) /\ Nothing(d) /\ RequestsInv(d)
      BY <1>5, <1>6, <3>1 DEF RequestOps, Callbacks, Lone
    <3> QED
      BY <2>3, <3>2 DEF Stage, InputSetStage, Alike, MasterSets, MasterGets, InputSets, OutputSets
  <2>4. CASE c.action = "SET_OUTPUT_DEV_VOLUME"
    <3>1. d = Issue(c, "by_name", "get_info_to_set", c.sink_name)
      BY <2>4 DEF FirstRequest, MasterSets, MasterGets, InputSets
    <3> HIDE DEF d
    <3>2. /\ d \in PaCalls /\ d.state = "run" /\ Alike(c, d)
          /\ Lone(d, {"get_info_to_set"}) /\ Nothing(d) /\ RequestsInv(d)
      BY <1>5, <1>6, <3>1 DEF RequestOps, Callbacks, Lone
    <3> QED
      BY <2>4, <3>2 DEF Stage, OutputSetStage, Alike, MasterSets, MasterGets, InputSets, OutputSets
  <2>5. CASE c.action = "SET_OUTPUT_DEV_MUTE"
    <3>1. d = Issue([c EXCEPT !.meant = {c.sink_name}], "set_value", "simple_callback",
                    c.sink_name)
      BY <2>5 DEF FirstRequest, MasterSets, MasterGets, InputSets
    <3> HIDE DEF d
    <3>2. c.sink_name \in Sinks
      BY <1>4, <2>5 DEF OutputSets
    <3> QED
      BY <1>1, <1>4, <1>5, <2>5, <3>1, <3>2, OutputMuteInv
  <2>6. CASE c.action = "SET_INPUT_DEFAULT_DEV"
    <3> DEFINE cb == IF c.ret # 0 THEN "simple_callback" ELSE "set_profile"
    <3>1. d = Issue(c, "set_profile", cb, None)
      BY <2>6 DEF FirstRequest, MasterSets, MasterGets, InputSets
    <3>2. cb \in {"simple_callback", "set_profile"}
      OBVIOUS
    <3> HIDE DEF d, cb
    <3>3. /\ d \in PaCalls /\ d.state = "run" /\ Alike(c, d)
          /\ Len(d.requests) = 1 /\ d.requests[1].cb = cb /\ d.requests[1].op = "set_profile"
          /\ Nothing(d) /\ RequestsInv(d)
      BY <1>5, <1>6, <3>1, <3>2 DEF RequestOps, Callbacks
    <3>4. InputDefaultStage(d)
      BY <1>4, <3>2, <3>3 DEF InputDefaultStage, Lone, Positions, Alike
    <3> QED
      BY <2>6, <3>3, <3>4 DEF Stage, Alike, MasterSets, MasterGets, InputSets, OutputSets
  <2>7. CASE c.action = "SET_OUTPUT_DEFAULT_DEV"
    <3> DEFINE f == Issue(c, "by_name", "set_output_default_dev", c.sink_name)
    <3>1. d = [f EXCEPT !.ret = 0]
      BY <2>7 DEF FirstRequest, MasterSets, MasterGets, InputSets
    <3> HIDE DEF d
    <3>2. /\ f \in PaCalls /\ f.state = "run" /\ Alike(c, f)
          /\ Len(f.requests) = 1 /\ f.requests[1].cb = "set_output_default_dev"
          /\ f.requests[1].op = "by_name"
          /\ Nothing(f) /\ RequestsInv(f)
      BY <1>5, <1>6 DEF RequestOps, Callbacks
    <3>3. Stage(f)
      BY <2>7, <3>2 DEF Stage, Lone, Alike, MasterSets, MasterGets, InputSets, OutputSets
    <3> HIDE DEF f
    <3>4. /\ d \in PaCalls /\ Alike(f, d) /\ d.requests = f.requests
          /\ d.draining = f.draining /\ d.state = "run"
      BY <3>1, <3>2 DEF PaCalls, Alike
    <3> QED
      BY <3>2, <3>3, <3>4, AlikeInv
  <2> QED
    BY <1>2, <1>4, <2>1, <2>2, <2>3, <2>4, <2>5, <2>6, <2>7 DEF Actions, OutputSets
<1>8. PaCallInv(d)
  BY <1>7 DEF PaCallInv
<1>9. PaTypeOK'
  BY <1>1, <1>7 DEF PaTypeOK
<1> QED
  BY <1>1, <1>8, <1>9 DEF PaInv

-------------------------------------------------------------------------------
(* The server's answers, and what else happens.                            *)

\* The call when its n-th request has an answer.
AnswerTo(n, ok, s) ==
  LET r == pa.requests[n] IN
  [pa EXCEPT !.requests[n] = [r EXCEPT !.answered = TRUE, !.ok = ok, !.seen = s],
             !.did = IF ok /\ r.op = "set_value" THEN pa.did \cup {r.dev} ELSE pa.did,
             !.made = IF ok /\ r.op = "set_default" THEN r.dev ELSE pa.made]

LEMMA DoneFacts ==
  /\ \A c \in PaCalls, x \in Seq(Requests) : [c EXCEPT !.requests = x] \in PaCalls
  /\ \A c \in PaCalls, y \in SUBSET Devs : [c EXCEPT !.did = y] \in PaCalls
  /\ \A c \in PaCalls, z \in Devs \cup {None} : [c EXCEPT !.made = z] \in PaCalls
<1>1. \A c \in PaCalls, x \in Seq(Requests) : [c EXCEPT !.requests = x] \in PaCalls
  BY DEF PaCalls
<1>2. \A c \in PaCalls, y \in SUBSET Devs : [c EXCEPT !.did = y] \in PaCalls
  BY DEF PaCalls
<1>3. \A c \in PaCalls, z \in Devs \cup {None} : [c EXCEPT !.made = z] \in PaCalls
  BY DEF PaCalls
<1> QED
  BY <1>1, <1>2, <1>3

\* The first request without an answer gets one.
LEMMA AnswerInv ==
  ASSUME PaInv, pa.state = "run", NEW n \in Positions(pa), ~pa.requests[n].answered,
         \A k \in Positions(pa) : ~pa.requests[k].answered => n <= k,
         NEW s \in Servers, NEW ok \in BOOLEAN,
         ok /\ pa.requests[n].op \in {"by_name", "set_value", "set_default"}
           => pa.requests[n].dev \in Devs,
         NEW d, d = AnswerTo(n, ok, s)
  PROVE  d \in PaCalls /\ PaCallInv(d)
<1> DEFINE r == pa.requests[n]
           q == [r EXCEPT !.answered = TRUE, !.ok = ok, !.seen = s]
           done == IF ok /\ r.op = "set_value" THEN pa.did \cup {r.dev} ELSE pa.did
           made == IF ok /\ r.op = "set_default" THEN r.dev ELSE pa.made
           R == [pa.requests EXCEPT ![n] = q]
<1>1. /\ pa \in PaCalls /\ pa.requests \in Seq(Requests) /\ r \in Requests
      /\ Stage(pa) /\ RequestInv(pa) /\ InfoInv(pa)
  BY DEF PaInv, PaTypeOK, PaCalls, PaCallInv, RequestsInv, Positions
<1>2. /\ q \in Requests /\ q.op = r.op /\ q.cb = r.cb /\ q.dev = r.dev
      /\ q.answered /\ q.ok = ok
  BY <1>1 DEF Requests
<1>3. R \in Seq(Requests) /\ Len(R) = Len(pa.requests) /\ R[n] = q
      /\ \A k \in Positions(pa) : k # n => R[k] = pa.requests[k]
  BY <1>1, <1>2 DEF Positions
<1>7. d = [pa EXCEPT !.requests = R, !.did = done, !.made = made]
  BY DEF AnswerTo
<1>14. /\ ok /\ r.op \in {"by_name", "set_value", "set_default"} => r.dev \in Devs
       /\ ok /\ r.op = "set_value" => r.dev \in done
       /\ ok /\ r.op = "set_default" => made = r.dev
       /\ ~(ok /\ r.op = "set_default") => made = pa.made
  OBVIOUS
<1> HIDE DEF R, q
<1>4. r.op = "set_value" => r.dev \in pa.meant \cup {None}
  BY <1>1 DEF RequestInv
<1>5. done \subseteq pa.meant /\ pa.did \subseteq done /\ done \in SUBSET Devs
  BY <1>1, <1>4, DevAssumption DEF RequestInv, PaCalls
<1>6. made \in Devs \cup {None}
  BY <1>1 DEF PaCalls
<1> HIDE DEF done, made
<1>8. /\ d \in PaCalls /\ d.state = "run" /\ d.requests = R /\ d.did = done /\ d.made = made
      /\ d.action = pa.action /\ d.sink_name = pa.sink_name /\ d.source_name = pa.source_name
      /\ d.quit_count = pa.quit_count /\ d.meant = pa.meant /\ d.info = pa.info
      /\ d.draining = pa.draining /\ d.ret = pa.ret
  <2>1. d \in PaCalls
    <3>1. [pa EXCEPT !.requests = R] \in PaCalls
      BY <1>1, <1>3, DoneFacts, Zenon
    <3>2. [pa EXCEPT !.requests = R, !.did = done] \in PaCalls
      BY <1>5, <3>1, DoneFacts, Zenon
    <3>3. [pa EXCEPT !.requests = R, !.did = done, !.made = made] \in PaCalls
      BY <1>6, <3>2, DoneFacts, Zenon
    <3> QED
      BY <1>7, <3>3, Zenon
  <2>2. /\ d.state = "run" /\ d.requests = R /\ d.did = done /\ d.made = made
        /\ d.action = pa.action /\ d.sink_name = pa.sink_name /\ d.source_name = pa.source_name
        /\ d.quit_count = pa.quit_count /\ d.meant = pa.meant /\ d.info = pa.info
        /\ d.draining = pa.draining /\ d.ret = pa.ret
    BY <1>1, <1>7 DEF PaCalls
  <2> QED
    BY <2>1, <2>2
<1>9. Positions(d) = Positions(pa)
  BY <1>3, <1>8 DEF Positions
<1>10. \A k \in Positions(pa) : R[k].op = pa.requests[k].op /\ R[k].cb = pa.requests[k].cb
                                /\ R[k].dev = pa.requests[k].dev
  BY <1>2, <1>3
<1>11. Stage(d)
  <2>1. Nothing(pa) => Nothing(d)
    BY <1>5, <1>8 DEF Nothing
  <2>2. \A cbs : Lone(pa, cbs) => Lone(d, cbs) /\ R[1].op = pa.requests[1].op
                                 /\ R[1].dev = pa.requests[1].dev
    BY <1>3, <1>8, <1>10 DEF Lone, Positions
  <2>3. \A names : Covers(pa, names) => Covers(d, names)
    BY <1>5, <1>8, <1>9, <1>10 DEF Covers
  <2>4. (pa.requests = <<>>) <=> (R = <<>>)
    BY <1>1, <1>3
  <2>5. MasterSetStage(pa) => MasterSetStage(d)
    BY <1>3, <1>8, <1>9, <1>10, <2>1, <2>2, <2>3 DEF MasterSetStage
  <2>6. InputSetStage(pa) => InputSetStage(d)
    BY <1>8, <1>9, <1>10, <2>1, <2>2, <2>3 DEF InputSetStage
  <2>7. OutputSetStage(pa) => OutputSetStage(d)
    BY <1>8, <2>1, <2>2 DEF OutputSetStage
  <2>8. InputDefaultStage(pa) => InputDefaultStage(d)
    BY <1>8, <1>9, <1>10, <2>1, <2>2 DEF InputDefaultStage
  <2> QED
    BY <1>1, <1>8, <2>1, <2>2, <2>4, <2>5, <2>6, <2>7, <2>8 DEF Stage
<1>12. RequestInv(d)
  <2> SUFFICES ASSUME NEW k \in Positions(pa)
               PROVE  /\ OpOf(R[k])
                      /\ R[k].op = "set_value" => R[k].dev \in pa.meant \cup {None}
                      /\ R[k].answered => \A m \in 1 .. k : R[m].answered
                      /\ R[k].answered /\ R[k].ok =>
                           /\ R[k].op \in {"by_name", "set_value"} => R[k].dev \in Devs
                           /\ R[k].op = "set_value" => R[k].dev \in done
    BY <1>5, <1>8, <1>9 DEF RequestInv
  <2>1. k \in Nat /\ n \in Nat /\ 1 .. k \subseteq Positions(pa)
    BY <1>1 DEF Positions
  <2>2. OpOf(pa.requests[k])
        /\ (pa.requests[k].op = "set_value" => pa.requests[k].dev \in pa.meant \cup {None})
        /\ (pa.requests[k].answered => \A m \in 1 .. k : pa.requests[m].answered)
    BY <1>1 DEF RequestInv
  <2>3. OpOf(R[k]) /\ (R[k].op = "set_value" => R[k].dev \in pa.meant \cup {None})
    BY <1>10, <2>2 DEF OpOf
  <2>4. CASE k = n
    <3>1. \A m \in 1 .. k : m # n => pa.requests[m].answered
      BY <2>1, <2>4
    <3>2. \A m \in 1 .. k : R[m].answered
      BY <1>2, <1>3, <2>1, <2>4, <3>1
    <3> QED
      BY <1>2, <1>3, <1>14, <2>3, <2>4, <3>2
  <2>5. CASE k # n
    <3>1. R[k] = pa.requests[k]
      BY <1>3, <2>5
    <3>2. R[k].answered => \A m \in 1 .. k : R[m].answered
      BY <1>2, <1>3, <2>1, <2>2, <3>1
    <3>3. R[k].answered /\ R[k].ok =>
            /\ R[k].op \in {"by_name", "set_value"} => R[k].dev \in Devs
            /\ R[k].op = "set_value" => R[k].dev \in done
      BY <1>1, <1>5, <3>1 DEF RequestInv
    <3> QED
      BY <2>3, <3>2, <3>3
  <2> QED
    BY <2>4, <2>5
<1>13. InfoInv(d)
  <2> SUFFICES ASSUME pa.info \in Sources PROVE InfoInv(d)
    BY <1>8 DEF InfoInv
  <2> DEFINE l == Len(pa.requests)
  <2>1. pa.requests # <<>> /\ l \in Positions(pa) /\ l \in Nat /\ n \in 1 .. l
    BY <1>1 DEF Positions
  <2>2. /\ pa.action = "SET_INPUT_DEFAULT_DEV"
        /\ \A i \in Positions(pa) : pa.requests[i].cb = "simple_callback"
        /\ pa.requests[l].op = "set_default" /\ pa.requests[l].dev = pa.info
        /\ pa.requests[l].answered /\ pa.requests[l].ok => pa.made = pa.info
    BY <1>1, <2>1 DEF InfoInv
  <2>3. R[l].op = "set_default" /\ R[l].dev = pa.info
    BY <1>10, <2>1, <2>2
  <2>4. R[l].answered /\ R[l].ok => made = pa.info
    <3>1. CASE l = n
      BY <1>2, <1>3, <1>14, <2>2, <3>1
    <3>2. CASE l # n
      <4>1. ~pa.requests[l].answered
        BY <1>1, <2>1 DEF RequestInv
      <4> QED
        BY <1>3, <2>1, <3>2, <4>1
    <3> QED
      BY <3>1, <3>2
  <2>5. \A i \in Positions(pa) : R[i].cb = "simple_callback"
    BY <1>10, <2>2
  <2>6. R # <<>>
    BY <1>3, <2>1
  <2> QED
    BY <1>3, <1>8, <1>9, <2>2, <2>3, <2>4, <2>5, <2>6 DEF InfoInv
<1> QED
  BY <1>8, <1>11, <1>12, <1>13 DEF PaCallInv, RequestsInv

LEMMA EffectType ==
  ASSUME PaInv, NEW r \in Requests
  PROVE  Effect(r) \in Servers
<1>1. server \in Servers /\ pa.value \in Values /\ pa.port \in Ports
  BY DEF PaInv, PaTypeOK, PaCalls
<1>2. /\ \A d : [server EXCEPT !.value[d] = pa.value] \in Servers
      /\ \A d : [server EXCEPT !.port[d] = pa.port] \in Servers
      /\ \A d \in Sinks : [server EXCEPT !.sink = d] \in Servers
      /\ \A d \in Sources : [server EXCEPT !.source = d] \in Servers
  BY <1>1 DEF Servers
<1> QED
  BY <1>1, <1>2 DEF Effect

\* The server answers the first request that has no answer.
LEMMA ServeAnswers ==
  ASSUME PaInv, Serve
  PROVE  \E n \in Unanswered, ok \in BOOLEAN :
           /\ \A k \in Unanswered : n <= k
           /\ pa' = AnswerTo(n, ok, server')
           /\ IF ok THEN Possible(pa.requests[n]) /\ server' = Effect(pa.requests[n])
                    ELSE UNCHANGED server
<1>1. pa \in PaCalls /\ pa.requests \in Seq(Requests)
  BY DEF PaInv, PaTypeOK, PaCalls
<1>2. Unanswered \in SUBSET Nat /\ Unanswered # {}
  <2>1. Len(pa.requests) \in Nat
    BY <1>1
  <2>2. Unanswered \in SUBSET Nat
    BY <2>1 DEF Unanswered
  <2> QED
    BY <2>2, Zenon DEF Serve
<1> DEFINE n == CHOOSE n \in Unanswered : \A k \in Unanswered : n <= k
           r == pa.requests[n]
<1>3. n \in Unanswered /\ \A k \in Unanswered : n <= k
  BY <1>2, LeastIndex
<1>4. \/ /\ Possible(r) /\ server' = Effect(r)
         /\ pa' = AnswerTo(n, TRUE, server')
      \/ /\ UNCHANGED server
         /\ pa' = AnswerTo(n, FALSE, server')
  <2>1. CASE /\ Possible(r)
             /\ server' = Effect(r)
             /\ pa' = [pa EXCEPT !.requests[n] = [r EXCEPT !.answered = TRUE, !.ok = TRUE,
                                                           !.seen = server'],
                         !.did = IF r.op = "set_value" THEN @ \cup {r.dev} ELSE @,
                         !.made = IF r.op = "set_default" THEN r.dev ELSE @]
    <3>1. pa' = AnswerTo(n, TRUE, server')
      BY <2>1 DEF AnswerTo
    <3> QED
      BY <2>1, <3>1
  <2>2. CASE /\ UNCHANGED server
             /\ pa' = [pa EXCEPT !.requests[n] = [r EXCEPT !.answered = TRUE, !.ok = FALSE,
                                                           !.seen = server']]
    <3>1. ASSUME NEW c \in PaCalls, NEW x
          PROVE  [c EXCEPT !.requests = x, !.did = c.did, !.made = c.made]
                   = [c EXCEPT !.requests = x]
      BY DEF PaCalls
    <3> DEFINE x == [pa.requests EXCEPT ![n] = [r EXCEPT !.answered = TRUE, !.ok = FALSE,
                                                        !.seen = server']]
    <3>3. AnswerTo(n, FALSE, server') = [pa EXCEPT !.requests = x, !.did = pa.did, !.made = pa.made]
      BY DEF AnswerTo
    <3>4. pa' = [pa EXCEPT !.requests = x]
      BY <2>2
    <3>2. pa' = AnswerTo(n, FALSE, server')
      BY <1>1, <3>1, <3>3, <3>4, Zenon
    <3> QED
      BY <2>2, <3>2
  <2> QED
    BY <2>1, <2>2, Zenon DEF Serve
<1> HIDE DEF n, r
<1> QED
  BY <1>3, <1>4 DEF r

LEMMA ServeInv ==
  ASSUME PaInv, Serve
  PROVE  PaInv'
<1>1. /\ pa \in PaCalls /\ pa.requests \in Seq(Requests) /\ pa.state = "run"
      /\ server \in Servers /\ UNCHANGED <<changes, calls>>
  BY DEF PaInv, PaTypeOK, PaCalls, Serve
<1>2. Len(pa.requests) \in Nat
  BY <1>1
<1>3. PICK n \in Unanswered, ok \in BOOLEAN :
        /\ \A k \in Unanswered : n <= k
        /\ pa' = AnswerTo(n, ok, server')
        /\ IF ok THEN Possible(pa.requests[n]) /\ server' = Effect(pa.requests[n])
                 ELSE UNCHANGED server
  BY ServeAnswers
<1> DEFINE r == pa.requests[n]
<1>4. \/ /\ Possible(r) /\ server' = Effect(r)
         /\ pa' = AnswerTo(n, TRUE, server')
      \/ /\ UNCHANGED server
         /\ pa' = AnswerTo(n, FALSE, server')
  BY <1>3
<1>5. /\ n \in Positions(pa) /\ ~r.answered /\ r \in Requests
      /\ \A k \in Positions(pa) : ~pa.requests[k].answered => n <= k
  BY <1>1, <1>3 DEF Unanswered, Positions
<1>6. server' \in Servers
  BY <1>1, <1>4, <1>5, EffectType
<1>7. Possible(r) /\ r.op \in {"by_name", "set_value", "set_default"} => r.dev \in Devs
  BY <1>1 DEF Possible, Servers
<1>8. pa' \in PaCalls /\ PaCallInv(pa')
  BY <1>1, <1>4, <1>5, <1>6, <1>7, AnswerInv
<1> QED
  BY <1>1, <1>6, <1>8 DEF PaInv, PaTypeOK

\* The context fails, or the loop has ended.
LEMMA LoopEndInv ==
  ASSUME PaInv, ContextFails \/ Return
  PROVE  PaInv'
<1>1. \A c \in PaCalls, s \in {"quit(1)", "returned"} :
        [c EXCEPT !.state = s] \in PaCalls /\ [c EXCEPT !.state = s].state = s
  BY DEF PaCalls
<1>2. pa' \in PaCalls /\ pa'.state \in {"quit(1)", "returned"}
      /\ UNCHANGED <<server, changes, calls>>
  BY <1>1 DEF ContextFails, Return, PaInv, PaTypeOK
<1>3. PaCallInv(pa')
  BY <1>2 DEF PaCallInv
<1> QED
  BY <1>2, <1>3 DEF PaInv, PaTypeOK

LEMMA OthersInv ==
  ASSUME PaInv, Others
  PROVE  PaInv'
<1>1. server \in Servers /\ changes \in 0 .. MaxChanges
  BY DEF PaInv, PaTypeOK
<1>2. PICK d \in Devs : Unplug(d) \/ OtherClient(d)
  BY DEF Others
<1>3. changes' \in 0 .. MaxChanges /\ UNCHANGED <<calls, pa>>
  <2>1. changes < MaxChanges /\ changes' = changes + 1 /\ UNCHANGED <<calls, pa>>
    BY <1>2, Zenon DEF Unplug, OtherClient
  <2> QED
    BY <1>1, <2>1, BoundAssumption
<1>4. CASE Unplug(d)
  BY <1>1, <1>3, <1>4 DEF Unplug, Servers, PaInv, PaTypeOK
<1>5. CASE OtherClient(d)
  BY <1>1, <1>3, <1>5 DEF OtherClient, Servers, PaInv, PaTypeOK
<1>6. server' \in Servers
  BY <1>1, <1>2, <1>4, <1>5 DEF PaInv, PaTypeOK
<1> QED
  BY <1>3, <1>6 DEF PaInv, PaTypeOK

-------------------------------------------------------------------------------
(* Every step, and the theorems.                                           *)

LEMMA InitPaInv ==
  ASSUME PaInit
  PROVE  PaInv
<1>1. NoPaCall \in PaCalls /\ NoPaCall.state = "none"
  BY NoPaCallFacts
<1>2. NoPaCall.value \in Values /\ NoPaCall.port \in Ports
  BY <1>1 DEF PaCalls
<1>3. server \in Servers
  BY <1>2 DEF PaInit, Servers, Devs
<1>4. PaCallInv(pa)
  BY <1>1 DEF PaInit, PaCallInv
<1> QED
  BY <1>1, <1>3, <1>4, BoundAssumption DEF PaInit, PaInv, PaTypeOK

LEMMA AnswerCallbackInv ==
  ASSUME PaInv, Answered, AnswerCallback
  PROVE  PaInv'
<1>1. CASE AnswerIsError
  BY <1>1, ErrorInv
<1>2. CASE SetMasterVolumeCallback \/ SetMasterMuteCallback
  BY <1>2, SetMasterInv
<1>3. CASE GetMasterCallback
  BY <1>3, GetMasterInv
<1>4. CASE GetInfoToSetCallback
  BY <1>4, InfoToSetInv
<1>5. CASE SimpleCallbackLock
  BY <1>5, CountedInv
<1>6. CASE SimpleCallback
  BY <1>6, SimpleInv
<1>7. CASE GetValueCallback \/ DevsCallback
  BY <1>7, ReadInv
<1>8. CASE GetInputDevsCallback
  BY <1>8, GetInputDevsInv
<1>9. CASE MalformedName
  BY <1>9, MalformedInv
<1>10. CASE SetInputCallback
  BY <1>10, SetInputInv
<1>11. CASE SetProfileCallback
  BY <1>11, SetProfileInv
<1>12. CASE SetInputDefaultCallback
  BY <1>12, SetInputDefaultInv
<1>13. CASE SetOutputDefaultCallback \/ DefaultSetCallback \/ DefaultInfoCallback
  BY <1>13, OutputDefaultInv
<1> QED
  BY <1>1, <1>2, <1>3, <1>4, <1>5, <1>6, <1>7, <1>8, <1>9, <1>10, <1>11, <1>12, <1>13
     DEF AnswerCallback

LEMMA NextPaInv ==
  ASSUME PaInv, [PaNext]_paVars
  PROVE  PaInv'
<1>1. CASE Client
  BY <1>1, ClientInv
<1>2. CASE Ready
  BY <1>2, ReadyInv
<1>3. CASE Return \/ ContextFails
  BY <1>3, LoopEndInv
<1>4. CASE Answered /\ AnswerCallback
  BY <1>4, AnswerCallbackInv
<1>5. CASE Serve
  BY <1>5, ServeInv
<1>6. CASE Others
  BY <1>6, OthersInv
<1>7. CASE UNCHANGED paVars
  BY <1>7 DEF paVars, PaInv, PaTypeOK
<1> QED
  BY <1>1, <1>2, <1>3, <1>4, <1>5, <1>6, <1>7 DEF PaNext, Loop

-------------------------------------------------------------------------------
(***************************************************************************)
(* A call always goes on: what ret is at the ends of lists, and that a     *)
(* request is under way.                                                   *)
(***************************************************************************)
\* A list that may end without a request finds ret as it is to be.
RetFits(c, cb) ==
  /\ cb \in {"set_profile", "set_input_default", "set_output_default_dev"} => c.ret = 0
  /\ cb = "set_input" => c.ret = c.garbage

RetInv(c) == \A n \in Positions(c) : RetFits(c, c.requests[n].cb)

HangsBy(c) == c.action \in InputSets /\ c.garbage = 1 /\ c.meant = {}

GoesOn(c) ==
  /\ c.state = "connect" => c.ret = c.garbage
  /\ c.state = "run" => RetInv(c) /\ (c.requests # <<>> \/ HangsBy(c))

\* Draining changes neither, and ends a call that has nothing under way.
LEMMA DrainGoes ==
  ASSUME NEW c \in PaCalls, RetInv(c), c.state # "connect"
  PROVE  /\ Drain(c) \in PaCalls /\ Drain(c).state # "connect" /\ GoesOn(Drain(c))
         /\ Drain(c).ret = c.ret /\ Drain(c).requests = c.requests
<1> DEFINE d == Drain(c)
<1>1. /\ d \in PaCalls /\ d.requests = c.requests /\ d.ret = c.ret /\ d.garbage = c.garbage
      /\ d.state # "connect" /\ (d.state = "quit(0)" \/ d.requests # <<>>)
  BY DEF Drain, PaCalls
<1> HIDE DEF d
<1>2. RetInv(d)
  BY <1>1 DEF RetInv, RetFits, Positions
<1> QED
  BY <1>1, <1>2 DEF GoesOn, d

LEMMA CallbackGoes ==
  ASSUME NEW c \in PaCalls, GoesOn(c), c.state # "connect", pa' = DrainComplete(c)
  PROVE  GoesOn(pa)'
<1>1. CASE c.draining /\ c.state = "run" /\ c.requests = <<>>
  <2>1. pa'.state = "quit(0)"
    BY <1>1 DEF DrainComplete, PaCalls
  <2> QED
    BY <2>1 DEF GoesOn
<1>2. CASE ~(c.draining /\ c.state = "run" /\ c.requests = <<>>)
  <2>1. pa' = c
    BY <1>2 DEF DrainComplete
  <2> QED
    BY <2>1 DEF GoesOn, RetInv, RetFits, Positions, HangsBy
<1> QED
  BY <1>1, <1>2

\* A request more.
LEMMA IssueGoes ==
  ASSUME PaTypeOK, NEW c \in PaCalls, RetInv(c), c.state = "run", NEW op \in RequestOps,
         NEW cb \in Callbacks, NEW dev \in Devs \cup {None}, RetFits(c, cb),
         NEW d, d = Issue(c, op, cb, dev)
  PROVE  /\ d \in PaCalls /\ d.state = "run" /\ GoesOn(d) /\ RetInv(d)
         /\ d.ret = c.ret /\ d.garbage = c.garbage
<1> DEFINE r == Request(op, cb, dev)
           n == Len(c.requests)
<1>1. /\ d \in PaCalls /\ d.state = c.state /\ d.ret = c.ret /\ r.cb = cb
      /\ n \in Nat /\ Len(d.requests) = n + 1 /\ d.requests[n + 1] = r
      /\ \A i \in 1 .. n : d.requests[i] = c.requests[i]
  BY IssueInv
<1>2. d.garbage = c.garbage
  BY DEF Issue, PaCalls
<1> HIDE DEF r, n
<1>3. ASSUME NEW k \in Positions(d) PROVE RetFits(d, d.requests[k].cb)
  <2>1. CASE k = n + 1
    BY <1>1, <1>2, <2>1 DEF RetFits
  <2>2. CASE k \in 1 .. n
    BY <1>1, <1>2, <2>2 DEF RetInv, RetFits, Positions, n
  <2> QED
    BY <1>1, <1>3, <2>1, <2>2 DEF Positions
<1>4. d.requests # <<>>
  BY <1>1
<1> QED
  BY <1>1, <1>2, <1>3, <1>4 DEF GoesOn, RetInv

\* An answer less.
LEMMA RestGoes ==
  ASSUME PaInv, GoesOn(pa), Answered
  PROVE  /\ RetInv(Rest) /\ RetFits(pa, Answer.cb)
         /\ Rest.ret = pa.ret /\ Rest.garbage = pa.garbage /\ Rest.action = pa.action
<1>1. /\ Rest.ret = pa.ret /\ Rest.action = pa.action /\ Len(pa.requests) \in Nat \ {0}
      /\ Answer = pa.requests[1]
      /\ Len(Rest.requests) = Len(pa.requests) - 1
      /\ \A i \in 1 .. Len(pa.requests) - 1 : Rest.requests[i] = pa.requests[i + 1]
  BY RestFacts DEF Alike
<1>2. Rest.garbage = pa.garbage
  BY DEF Rest, PaInv, PaTypeOK, PaCalls
<1>3. RetInv(pa)
  BY DEF GoesOn, Answered
<1>4. ASSUME NEW k \in Positions(Rest) PROVE RetFits(Rest, Rest.requests[k].cb)
  <2>1. k \in 1 .. Len(pa.requests) - 1 /\ k + 1 \in Positions(pa)
    BY <1>1 DEF Positions
  <2>2. RetFits(pa, pa.requests[k + 1].cb) /\ Rest.requests[k] = pa.requests[k + 1]
    BY <1>1, <1>3, <2>1 DEF RetInv
  <2> QED
    BY <1>1, <1>2, <2>2 DEF RetFits
<1>5. RetFits(pa, Answer.cb)
  BY <1>1, <1>3 DEF RetInv, Positions
<1> QED
  BY <1>1, <1>2, <1>4, <1>5 DEF RetInv

\* The end of a list.
LEMMA EndOfListGoes ==
  ASSUME NEW c \in PaCalls, c.state = "run",
         \A n \in Positions(c) : c.requests[n].cb = "simple_callback" \/ c.requests[n].cb = "default_set",
         c.requests # <<>> \/ c.ret # 1 \/ HangsBy(c)
  PROVE  /\ EndOfList(c) \in PaCalls /\ EndOfList(c).state # "connect" /\ GoesOn(EndOfList(c))
<1> DEFINE d == IF c.ret # 1 THEN Drain(c) ELSE c
           e == EndOfList(c)
<1>1. /\ d \in PaCalls /\ d.state # "connect" /\ d.requests = c.requests
      /\ d.state = "quit(0)" \/ d.requests # <<>> \/ HangsBy(d)
  <2>1. CASE c.ret # 1
    <3>1. d = Drain(c)
      BY <2>1
    <3>2. Drain(c) \in PaCalls /\ Drain(c).requests = c.requests
          /\ Drain(c).state \in {"run", "quit(0)"}
          /\ (Drain(c).state = "quit(0)" \/ c.requests # <<>>)
      BY DEF Drain, PaCalls
    <3> HIDE DEF d
    <3> QED
      BY <3>1, <3>2
  <2>2. CASE c.ret = 1
    BY <2>2
  <2> QED
    BY <2>1, <2>2
<1>2. e = [d EXCEPT !.ret = 0]
  BY DEF EndOfList
<1> HIDE DEF d, e
<1>3. /\ e \in PaCalls /\ e.state = d.state /\ e.requests = c.requests
      /\ e.state = "quit(0)" \/ e.requests # <<>> \/ HangsBy(e)
  BY <1>1, <1>2 DEF PaCalls, HangsBy
<1>4. RetInv(e)
  BY <1>3 DEF RetInv, RetFits, Positions
<1> QED
  BY <1>1, <1>3, <1>4 DEF GoesOn, e

\* What has the requests and what ret is from another call.
LEMMA RetKept ==
  ASSUME NEW c, NEW d, RetInv(c), d.requests = c.requests, d.ret = c.ret,
         d.garbage = c.garbage
  PROVE  RetInv(d)
BY DEF RetInv, RetFits, Positions

\* The callbacks of one request that drain, or make another one.
LEMMA NextGoes ==
  ASSUME PaInv, GoesOn(pa), Answered,
         \/ GetMasterCallback \/ GetInfoToSetCallback \/ SimpleCallback \/ GetValueCallback
         \/ DevsCallback \/ GetInputDevsCallback \/ SetProfileCallback
         \/ DefaultSetCallback \/ DefaultInfoCallback
  PROVE  GoesOn(pa)'
<1>1. /\ Rest \in PaCalls /\ Rest.state = "run" /\ RetInv(Rest) /\ PaTypeOK
      /\ Rest.ret = pa.ret /\ Rest.garbage = pa.garbage /\ RetFits(pa, Answer.cb)
      /\ Answer \in Requests
  BY RestFacts, RestGoes DEF PaInv
<1>2. ASSUME NEW c \in PaCalls, RetInv(c), c.state = "run", pa' = DrainComplete(Drain(c))
      PROVE  GoesOn(pa)'
  BY <1>2, DrainGoes, CallbackGoes
<1>3. ASSUME NEW c \in PaCalls, RetInv(c), c.state = "run", c.ret = pa.ret, NEW op \in RequestOps,
             NEW cb \in Callbacks, NEW dev \in Devs \cup {None},
             cb \notin {"set_profile", "set_input", "set_output_default_dev"},
             cb = "set_input_default" => pa.ret = 0,
             pa' = DrainComplete(Issue(c, op, cb, dev))
      PROVE  GoesOn(pa)'
  <2>1. RetFits(c, cb)
    BY <1>3 DEF RetFits
  <2> DEFINE d == Issue(c, op, cb, dev)
  <2>2. d \in PaCalls /\ d.state = "run" /\ GoesOn(d)
    BY <1>1, <1>3, <2>1, IssueGoes
  <2> HIDE DEF d
  <2> QED
    BY <1>3, <2>2, CallbackGoes DEF d
<1>4. CASE GetMasterCallback
  <2> DEFINE c == [Rest EXCEPT !.sink_name = Answer.seen.sink]
  <2>1. /\ c \in PaCalls /\ c.state = "run" /\ c.requests = Rest.requests
        /\ c.ret = Rest.ret /\ c.garbage = Rest.garbage
        /\ c.sink_name \in Devs \cup {None}
    <3>1. Answer.seen.sink \in Sinks \cup {None}
      BY <1>1 DEF Requests, Servers
    <3> QED
      BY <1>1, <3>1 DEF PaCalls, Devs
  <2>2. \/ pa' = DrainComplete(Issue(c, "by_name", "get_value", c.sink_name))
        \/ pa' = DrainComplete(Issue(c, "list", "devs", None))
    BY <1>4 DEF GetMasterCallback, Callback
  <2> HIDE DEF c
  <2>3. RetInv(c)
    BY <1>1, <2>1, RetKept
  <2> QED
    BY <1>1, <1>3, <2>1, <2>2, <2>3 DEF RequestOps, Callbacks
<1>5. CASE GetInfoToSetCallback
  <2> DEFINE c == [Rest EXCEPT !.meant = @ \cup {Answer.dev}]
  <2>0. Answer.dev \in Devs
    <3>1. 1 \in Positions(pa) /\ RequestInv(pa) /\ Answer = pa.requests[1] /\ Answer.answered
      BY RestFacts DEF Positions, RequestsInv
    <3> QED
      BY <1>5, <3>1 DEF RequestInv, OpOf, GetInfoToSetCallback, Callback
  <2>1. /\ c \in PaCalls /\ c.state = "run" /\ c.requests = Rest.requests
        /\ c.ret = Rest.ret /\ c.garbage = Rest.garbage
    BY <1>1, <2>0 DEF PaCalls
  <2>2. \/ pa' = DrainComplete(Issue(c, "set_value", "simple_callback_lock", Answer.dev))
        \/ pa' = DrainComplete(Issue(c, "set_value", "simple_callback", Answer.dev))
    BY <1>5 DEF GetInfoToSetCallback, Callback
  <2> HIDE DEF c
  <2>3. RetInv(c)
    BY <1>1, <2>1, RetKept
  <2> QED
    BY <1>1, <1>3, <2>0, <2>1, <2>2, <2>3 DEF RequestOps, Callbacks
<1>6. CASE SimpleCallback \/ DevsCallback
  BY <1>1, <1>2, <1>6 DEF SimpleCallback, DevsCallback, Callback
<1>7. CASE GetValueCallback
  <2> DEFINE v == Answer.seen.value[Answer.dev]
             c == [Rest EXCEPT !.ret = v]
  <2>1. Rest.requests = <<>>
    BY <1>7, StageOfAnswer, RestAlone DEF GetValueCallback, Callback
  <2>2. v \in Values
    <3>1. /\ 1 \in Positions(pa) /\ RequestInv(pa) /\ Answer = pa.requests[1]
          /\ Answer.answered /\ Answer.cb = "get_value" /\ Answer.ok
      BY <1>7, RestFacts DEF Positions, RequestsInv, GetValueCallback, Callback
    <3>2. Answer.dev \in Devs
      BY <3>1 DEF RequestInv, OpOf
    <3> QED
      BY <1>1, <3>2 DEF Requests, Servers
  <2> HIDE DEF v
  <2>3. c \in PaCalls /\ c.state = "run" /\ c.requests = <<>>
    BY <1>1, <2>1, <2>2 DEF PaCalls
  <2>4. pa' = DrainComplete(Drain(c))
    BY <1>7 DEF GetValueCallback, Callback, v
  <2> HIDE DEF c
  <2>5. RetInv(c)
    BY <2>3 DEF RetInv, Positions
  <2> QED
    BY <1>2, <2>3, <2>4, <2>5
<1>8. CASE GetInputDevsCallback
  BY <1>1, <1>2, <1>3, <1>8 DEF GetInputDevsCallback, Callback, RequestOps, Callbacks
<1>9. CASE SetProfileCallback
  <2>1. pa.ret = 0
    BY <1>1, <1>9 DEF SetProfileCallback, Callback, RetFits
  <2> QED
    BY <1>1, <1>3, <1>9, <2>1 DEF SetProfileCallback, Callback, RequestOps, Callbacks
<1>10. CASE DefaultSetCallback
  BY <1>1, <1>3, <1>10 DEF DefaultSetCallback, Callback, RequestOps, Callbacks
<1>11. CASE DefaultInfoCallback
  <2>1. ASSUME NEW k \in Sinks, pa' = DrainComplete(Drain([Rest EXCEPT !.info = k]))
        PROVE  GoesOn(pa)'
    <3> DEFINE c == [Rest EXCEPT !.info = k]
    <3>1. /\ c \in PaCalls /\ c.state = "run" /\ c.requests = Rest.requests
          /\ c.ret = Rest.ret /\ c.garbage = Rest.garbage
      BY <1>1 DEF PaCalls, Devs
    <3> HIDE DEF c
    <3>2. RetInv(c)
      BY <1>1, <3>1, RetKept
    <3> QED
      BY <1>2, <2>1, <3>1, <3>2 DEF c
  <2> QED
    BY <1>1, <1>2, <1>11, <2>1 DEF DefaultInfoCallback, Callback
<1> QED
  BY <1>4, <1>5, <1>6, <1>7, <1>8, <1>9, <1>10, <1>11

\* The callbacks of the master calls: two requests at once, and the counter.
LEMMA MasterGoes ==
  ASSUME PaInv, GoesOn(pa), Answered,
         SetMasterVolumeCallback \/ SetMasterMuteCallback \/ SimpleCallbackLock
  PROVE  GoesOn(pa)'
<1>1. /\ Rest \in PaCalls /\ Rest.state = "run" /\ RetInv(Rest) /\ PaTypeOK
      /\ Rest.ret = pa.ret /\ Rest.garbage = pa.garbage
      /\ Answer \in Requests
  BY RestFacts, RestGoes DEF PaInv
<1>2. ASSUME NEW op \in RequestOps, NEW cb \in {"get_info_to_set", "simple_callback_lock"},
             NEW c, c = Named(Answer.seen),
             pa' = DrainComplete(Issue(Issue(c, op, cb, c.sink_name), op, cb, c.source_name))
      PROVE  GoesOn(pa)'
  <2>1. /\ c \in PaCalls /\ c.state = "run" /\ c.requests = Rest.requests
        /\ c.ret = Rest.ret /\ c.garbage = Rest.garbage
        /\ c.sink_name \in Devs \cup {None} /\ c.source_name \in Devs \cup {None}
    <3>1. /\ Answer.seen.sink \in Sinks \cup {None}
          /\ Answer.seen.source \in Sources \cup {None}
      BY <1>1 DEF Requests, Servers
    <3> DEFINE names == {Answer.seen.sink, Answer.seen.source} \ {None}
    <3>2. names \in SUBSET Devs
      BY <3>1 DEF Devs
    <3>3. c = [Rest EXCEPT !.sink_name = Answer.seen.sink, !.source_name = Answer.seen.source,
                           !.meant = names]
      BY <1>2 DEF Named
    <3> HIDE DEF names
    <3> QED
      BY <1>1, <3>1, <3>2, <3>3 DEF PaCalls, Devs
  <2>2. RetInv(c)
    BY <1>1, <2>1, RetKept
  <2>3. cb \in Callbacks /\ \A x : RetFits(x, cb)
    BY DEF Callbacks, RetFits
  <2> DEFINE d == Issue(c, op, cb, c.sink_name)
             e == Issue(d, op, cb, c.source_name)
  <2>4. d \in PaCalls /\ d.state = "run" /\ RetInv(d)
    BY <1>1, <2>1, <2>2, <2>3, IssueGoes
  <2> HIDE DEF d
  <2>5. e \in PaCalls /\ e.state = "run" /\ GoesOn(e)
    BY <1>1, <2>1, <2>3, <2>4, IssueGoes
  <2> HIDE DEF e
  <2> QED
    BY <1>2, <2>5, CallbackGoes DEF d, e
<1>3. CASE SetMasterVolumeCallback
  BY <1>2, <1>3 DEF SetMasterVolumeCallback, Callback, RequestOps
<1>4. CASE SetMasterMuteCallback
  <2> DEFINE c == Named(Answer.seen)
             a == [c EXCEPT !.state = "aborted"]
  <2>1. CASE None \notin {c.sink_name, c.source_name}
    BY <1>2, <1>4, <2>1 DEF SetMasterMuteCallback, Callback, RequestOps
  <2>2. CASE None \in {c.sink_name, c.source_name}
    <3>1. pa' = DrainComplete(a)
      BY <1>4, <2>2 DEF SetMasterMuteCallback, Callback
    <3>2. a.state = "aborted"
      BY <1>1 DEF Named, PaCalls
    <3> QED
      BY <3>1, <3>2 DEF DrainComplete, GoesOn
  <2> QED
    BY <2>1, <2>2
<1>5. CASE SimpleCallbackLock
  <2> DEFINE c == Counted(Rest)
             n == Len(pa.requests)
  <2>1. pa.quit_count = n /\ n \in 1 .. 2 /\ Rest.quit_count = n /\ Len(Rest.requests) = n - 1
    <3>1. pa.action \in MasterSets
      BY <1>5, StageOfAnswer DEF SimpleCallbackLock, Callback
    <3>2. pa.quit_count = n /\ n \in 1 .. 2
      BY <1>5, <3>1, MasterFacts DEF SimpleCallbackLock, Callback
    <3> QED
      BY <3>2, RestFacts DEF Alike
  <2>2. pa' = DrainComplete(c)
    BY <1>5 DEF SimpleCallbackLock, Callback
  <2>3. c \in PaCalls /\ c.state # "connect" /\ GoesOn(c)
    <3>1. CASE n = 1
      <4> DEFINE d == [Rest EXCEPT !.quit_count = 0]
      <4>1. /\ d \in PaCalls /\ d.requests = Rest.requests /\ d.ret = Rest.ret
            /\ d.garbage = Rest.garbage /\ d.state = "run"
        BY <1>1 DEF PaCalls
      <4>2. c = Drain(d)
        BY <2>1, <3>1 DEF Counted
      <4> HIDE DEF c, d
      <4>3. RetInv(d)
        BY <1>1, <4>1, RetKept
      <4> QED
        BY <4>1, <4>2, <4>3, DrainGoes
    <3>2. CASE n = 2
      <4>1. c = [Rest EXCEPT !.quit_count = 1]
        BY <1>1, <2>1, <3>2 DEF Counted, PaCalls
      <4> HIDE DEF c
      <4>2. /\ c \in PaCalls /\ c.requests = Rest.requests /\ c.ret = Rest.ret
            /\ c.garbage = Rest.garbage /\ c.state = "run"
        BY <1>1, <4>1 DEF PaCalls
      <4>3. c.requests # <<>>
        <5>1. Len(c.requests) = 1
          BY <2>1, <3>2, <4>2
        <5> QED
          BY <5>1
      <4>4. RetInv(c)
        BY <1>1, <4>2, RetKept
      <4> QED
        BY <4>2, <4>3, <4>4 DEF GoesOn
    <3> QED
      BY <2>1, <3>1, <3>2
  <2> HIDE DEF c
  <2> QED
    BY <2>2, <2>3, CallbackGoes
<1> QED
  BY <1>3, <1>4, <1>5

\* A request where none is under way.
LEMMA IssueAlone ==
  ASSUME PaTypeOK, NEW c \in PaCalls, c.requests = <<>>, NEW op \in RequestOps,
         NEW cb \in Callbacks, NEW dev \in Devs \cup {None}, NEW d, d = Issue(c, op, cb, dev)
  PROVE  /\ d \in PaCalls /\ d.state = c.state
         /\ Len(d.requests) = 1 /\ d.requests[1].cb = cb
<1> DEFINE r == Request(op, cb, dev)
<1>1. d \in PaCalls /\ d.state = c.state /\ r \in Requests /\ r.cb = cb
  BY IssueInv
<1>2. d.requests = Append(c.requests, r)
  BY DEF Issue, PaCalls
<1> HIDE DEF r
<1>3. \A x \in Requests : Len(Append(<<>>, x)) = 1 /\ Append(<<>>, x)[1] = x
  OBVIOUS
<1> QED
  BY <1>1, <1>2, <1>3

\* The callbacks of lists whose end looks at ret.
LEMMA ListGoes ==
  ASSUME PaInv, GoesOn(pa), Answered,
         SetInputCallback \/ SetInputDefaultCallback \/ SetOutputDefaultCallback
  PROVE  GoesOn(pa)'
<1>1. /\ Rest \in PaCalls /\ Rest.state = "run" /\ Rest.requests = <<>> /\ PaTypeOK
      /\ Rest.ret = pa.ret /\ Rest.garbage = pa.garbage /\ Rest.action = pa.action
      /\ RetFits(pa, Answer.cb) /\ Answer \in Requests /\ Answer.ok
  BY RestFacts, RestGoes, RestAlone, StageOfAnswer
     DEF PaInv, SetInputCallback, SetInputDefaultCallback, SetOutputDefaultCallback, Callback
<1>2. ASSUME NEW c \in PaCalls, c.state = "run",
             \A n \in Positions(c) :
               c.requests[n].cb = "simple_callback" \/ c.requests[n].cb = "default_set",
             c.requests # <<>> \/ c.ret # 1 \/ HangsBy(c),
             pa' = DrainComplete(EndOfList(c))
      PROVE  GoesOn(pa)'
  BY <1>2, EndOfListGoes, CallbackGoes
<1>3. ASSUME NEW c \in PaCalls, c.state = "run", c.requests = <<>>, NEW op \in RequestOps,
             NEW S \in SUBSET Sources, c.ret # 1 \/ (S = {} => HangsBy(c)),
             pa' = DrainComplete(EndOfList(IssueAll(c, op, S)))
      PROVE  GoesOn(pa)'
  <2> DEFINE d == IssueAll(c, op, S)
  <2>1. CASE S = {}
    <3>1. d = c
      BY <2>1 DEF IssueAll
    <3>2. Positions(c) = {}
      BY <1>3 DEF Positions
    <3> QED
      BY <1>2, <1>3, <2>1, <3>1, <3>2
  <2>2. CASE S # {}
    <3>1. /\ d \in PaCalls /\ d.state = "run" /\ d.requests # <<>>
          /\ \A n \in 1 .. Len(d.requests) : d.requests[n].cb = "simple_callback"
      BY <1>1, <1>3, <2>2, IssueAllFacts
    <3> HIDE DEF d
    <3> QED
      BY <1>2, <1>3, <3>1 DEF Positions, d
  <2> QED
    BY <2>1, <2>2
<1>4. Matching(Answer.seen) \in SUBSET Sources
  BY DEF Matching, PaInv, PaTypeOK, PaCalls
<1>5. CASE SetInputCallback
  <2> DEFINE S == Matching(Answer.seen)
             c == [Rest EXCEPT !.meant = S]
  <2>1. pa.action \in InputSets /\ pa.ret = pa.garbage
    BY <1>1, <1>5, StageOfAnswer DEF SetInputCallback, Callback, RetFits
  <2>2. S \in SUBSET Devs
    BY <1>4 DEF Devs
  <2>3. pa' = DrainComplete(EndOfList(IssueAll(c, "set_value", S)))
    BY <1>5 DEF SetInputCallback, Callback
  <2> HIDE DEF S
  <2>4. /\ c \in PaCalls /\ c.state = "run" /\ c.requests = <<>> /\ c.meant = S
        /\ c.ret = pa.ret /\ c.garbage = pa.garbage /\ c.action = pa.action
    BY <1>1, <2>2 DEF PaCalls
  <2>5. c.ret # 1 \/ (S = {} => HangsBy(c))
    BY <2>1, <2>4 DEF HangsBy
  <2> HIDE DEF c
  <2> QED
    BY <1>3, <1>4, <2>3, <2>4, <2>5 DEF RequestOps, S
<1>6. CASE SetInputDefaultCallback
  <2> DEFINE S == Matching(Answer.seen)
             c == [Rest EXCEPT !.info = LastOf(S)]
  <2>1. pa.ret = 0
    BY <1>1, <1>6 DEF SetInputDefaultCallback, Callback, RetFits
  <2>2. LastOf(S) \in Devs \cup {None}
    <3>1. CASE S = {}
      BY <3>1 DEF LastOf
    <3>2. CASE S # {}
      <4>1. SetToSeq(S) \in Seq(S) /\ Len(SetToSeq(S)) > 0
        BY <1>4, <3>2, OrderFacts
      <4>2. Last(SetToSeq(S)) \in S
        BY <4>1 DEF Last
      <4> QED
        BY <1>4, <3>2, <4>2 DEF LastOf, Devs
    <3> QED
      BY <3>1, <3>2
  <2>3. pa' = DrainComplete(EndOfList(IssueAll(c, "set_default", S)))
    BY <1>6 DEF SetInputDefaultCallback, Callback
  <2> HIDE DEF S
  <2>4. c \in PaCalls /\ c.state = "run" /\ c.requests = <<>> /\ c.ret = 0
    BY <1>1, <2>1, <2>2 DEF PaCalls
  <2> HIDE DEF c
  <2> QED
    BY <1>3, <1>4, <2>3, <2>4 DEF RequestOps, S
<1>7. CASE SetOutputDefaultCallback
  <2> DEFINE sink == Answer.dev
             cb == IF pa.need_info THEN "default_set" ELSE "simple_callback"
             n == NumPorts[sink]
             op == IF n = 1 THEN "set_default" ELSE "set_port"
             d == Issue(Rest, op, cb, sink)
             e == [d EXCEPT !.ret = 1]
  <2>1. pa.ret = 0
    BY <1>1, <1>7 DEF SetOutputDefaultCallback, Callback, RetFits
  <2>2. /\ sink \in Devs \cup {None} /\ cb \in Callbacks /\ op \in RequestOps
        /\ cb \in {"default_set", "simple_callback"}
    BY <1>1 DEF Requests, RequestOps, Callbacks
  <2>3. pa' = DrainComplete(EndOfList(Rest)) \/ pa' = DrainComplete(EndOfList(e))
    BY <1>7 DEF SetOutputDefaultCallback, Callback
  <2>4. CASE pa' = DrainComplete(EndOfList(Rest))
    BY <1>1, <1>2, <2>1, <2>4 DEF Positions
  <2>5. CASE pa' = DrainComplete(EndOfList(e))
    <3> HIDE DEF sink, cb, n, op, d
    <3>1. /\ d \in PaCalls /\ d.state = "run" /\ Len(d.requests) = 1
          /\ d.requests[1].cb = cb
      BY <1>1, <2>2, IssueAlone DEF d
    <3>2. e \in PaCalls /\ e.state = "run" /\ e.requests = d.requests
      BY <3>1 DEF PaCalls
    <3> HIDE DEF e
    <3>3. e.requests # <<>>
      BY <3>1, <3>2
    <3>4. \A i \in Positions(e) :
            e.requests[i].cb = "simple_callback" \/ e.requests[i].cb = "default_set"
      BY <2>2, <3>1, <3>2 DEF Positions
    <3> QED
      BY <1>2, <2>5, <3>2, <3>3, <3>4
  <2> QED
    BY <2>3, <2>4, <2>5
<1> QED
  BY <1>5, <1>6, <1>7

\* The first request of a call.
LEMMA ReadyGoes ==
  ASSUME PaInv, GoesOn(pa), Ready
  PROVE  GoesOn(pa)'
<1> DEFINE c == [pa EXCEPT !.state = "run", !.quit_count = QuitCount(pa.action)]
           d == FirstRequest(c)
<1>1. pa' = d /\ pa.state = "connect" /\ PaTypeOK
  BY DEF Ready, PaInv
<1>2. pa \in PaCalls /\ Fresh(pa) /\ pa.action \in Actions /\ pa.ret = pa.garbage
  BY <1>1 DEF PaInv, PaTypeOK, PaCallInv, PaCalls, GoesOn
<1>3. QuitCount(pa.action) \in 0 .. 2
  BY DEF QuitCount
<1>4. /\ c \in PaCalls /\ c.state = "run" /\ c.requests = <<>> /\ c.action = pa.action
      /\ c.ret = c.garbage /\ c.sink_name = pa.sink_name
  <2>1. c \in PaCalls /\ c.state = "run"
    BY ZenonT(40), <1>2, <1>3 DEF PaCalls
  <2>2. /\ c.requests = pa.requests /\ c.action = pa.action /\ c.ret = pa.ret
        /\ c.garbage = pa.garbage /\ c.sink_name = pa.sink_name
    BY <1>2 DEF PaCalls
  <2> QED
    BY <1>2, <2>1, <2>2 DEF Fresh
<1>15. c.action \in OutputSets \cup {"SET_OUTPUT_DEFAULT_DEV"} => c.sink_name \in Devs
  BY <1>2, <1>4 DEF Fresh, Devs
<1> HIDE DEF c
<1>5. RetInv(c) /\ None \in Devs \cup {None}
  BY <1>4 DEF Positions, RetInv
<1>6. ASSUME NEW op \in RequestOps, NEW cb \in Callbacks, NEW dev \in Devs \cup {None},
             cb # "set_output_default_dev", cb \in {"set_profile", "set_input_default"} => c.ret = 0,
             NEW f, f = Issue(c, op, cb, dev)
      PROVE  GoesOn(f)
  <2>1. RetFits(c, cb)
    BY <1>4, <1>6 DEF RetFits
  <2> QED
    BY <1>1, <1>4, <1>5, <1>6, <2>1, IssueGoes
<1>7. ASSUME c.action \in MasterSets \cup MasterGets \cup {"GET_OUTPUT_DEVS"} PROVE GoesOn(d)
  <2>1. d = Issue(c, "server_info", "server_info", None)
    BY <1>7 DEF FirstRequest, MasterSets, MasterGets, InputSets
  <2> HIDE DEF d
  <2> QED
    BY <1>5, <1>6, <2>1 DEF RequestOps, Callbacks
<1>8. ASSUME c.action = "GET_INPUT_DEVS" PROVE GoesOn(d)
  <2>1. d = Issue(c, "list", "get_input_devs", None)
    BY <1>8 DEF FirstRequest, MasterSets, MasterGets, InputSets
  <2> HIDE DEF d
  <2> QED
    BY <1>5, <1>6, <2>1 DEF RequestOps, Callbacks
<1>9. ASSUME c.action \in InputSets PROVE GoesOn(d)
  <2>1. d = Issue(c, "list", "set_input", None)
    BY <1>9 DEF FirstRequest, MasterSets, MasterGets, InputSets
  <2> HIDE DEF d
  <2> QED
    BY <1>5, <1>6, <2>1 DEF RequestOps, Callbacks
<1>10. ASSUME c.action = "SET_OUTPUT_DEV_VOLUME" PROVE GoesOn(d)
  <2>1. d = Issue(c, "by_name", "get_info_to_set", c.sink_name) /\ c.sink_name \in Devs
    BY <1>10, <1>15 DEF FirstRequest, MasterSets, MasterGets, InputSets, OutputSets
  <2> HIDE DEF d
  <2> QED
    BY <1>5, <1>6, <2>1 DEF RequestOps, Callbacks
<1>11. ASSUME c.action = "SET_OUTPUT_DEV_MUTE" PROVE GoesOn(d)
  <2> DEFINE e == [c EXCEPT !.meant = {c.sink_name}]
  <2>1. d = Issue(e, "set_value", "simple_callback", c.sink_name) /\ c.sink_name \in Devs
    BY <1>11, <1>15 DEF FirstRequest, MasterSets, MasterGets, InputSets, OutputSets
  <2>2. e \in PaCalls /\ e.state = "run" /\ e.requests = <<>>
    BY <1>4, <2>1 DEF PaCalls
  <2> HIDE DEF e
  <2>3. RetInv(e) /\ RetFits(e, "simple_callback")
    BY <2>2 DEF RetInv, RetFits, Positions
  <2> QED
    BY <1>1, <2>1, <2>2, <2>3, IssueGoes DEF RequestOps, Callbacks
<1>12. ASSUME c.action = "SET_INPUT_DEFAULT_DEV" PROVE GoesOn(d)
  <2>1. \/ d = Issue(c, "set_profile", "simple_callback", None)
        \/ d = Issue(c, "set_profile", "set_profile", None) /\ c.ret = 0
    BY <1>12 DEF FirstRequest, MasterSets, MasterGets, InputSets
  <2> HIDE DEF d
  <2> QED
    BY <1>5, <1>6, <2>1 DEF RequestOps, Callbacks
<1>13. ASSUME c.action = "SET_OUTPUT_DEFAULT_DEV" PROVE GoesOn(d)
  <2> DEFINE e == Issue(c, "by_name", "set_output_default_dev", c.sink_name)
  <2>1. d = [e EXCEPT !.ret = 0] /\ c.sink_name \in Devs
    BY <1>13, <1>15 DEF FirstRequest, MasterSets, MasterGets, InputSets
  <2>2. /\ e \in PaCalls /\ Len(e.requests) = 1 /\ e.state = "run"
        /\ e.requests[1].cb = "set_output_default_dev"
    <3>1. "by_name" \in RequestOps /\ "set_output_default_dev" \in Callbacks
      BY DEF RequestOps, Callbacks
    <3> QED
      BY <1>1, <1>4, <2>1, <3>1, IssueAlone
  <2> HIDE DEF e, d
  <2>3. d.requests = e.requests /\ d.ret = 0 /\ d.requests # <<>>
    <3>1. d.requests = e.requests /\ d.ret = 0
      BY <2>1, <2>2 DEF PaCalls
    <3> QED
      BY <2>2, <3>1
  <2>4. RetInv(d)
    BY <2>2, <2>3 DEF RetInv, RetFits, Positions
  <2>5. d.state # "connect"
    BY <2>1, <2>2 DEF PaCalls
  <2> QED
    BY <2>3, <2>4, <2>5, Zenon DEF GoesOn
<1> HIDE DEF d
<1>14. GoesOn(d)
  BY <1>2, <1>4, <1>7, <1>8, <1>9, <1>10, <1>11, <1>12, <1>13 DEF Actions, OutputSets
<1> QED
  BY <1>1, <1>14 DEF GoesOn, RetInv, RetFits, Positions, HangsBy

\* What the client does, and the server.
LEMMA ClientGoes ==
  ASSUME Client
  PROVE  GoesOn(pa)'
<1>1. PICK args \in PaCalls, action \in Actions, g \in Garbage \cup {0, 1} :
        pa' = [args EXCEPT !.state = "connect", !.action = action, !.garbage = g, !.ret = g]
  BY ClientBegins DEF Begins
<1>2. pa'.state = "connect" /\ pa'.ret = g /\ pa'.garbage = g
  BY <1>1 DEF PaCalls
<1> QED
  BY <1>2 DEF GoesOn

\* An answer takes no request away.
LEMMA ServeGoes ==
  ASSUME PaInv, GoesOn(pa), Serve
  PROVE  GoesOn(pa)'
<1>1. /\ pa \in PaCalls /\ pa.requests \in Seq(Requests) /\ pa.state = "run" /\ RetInv(pa)
  BY DEF PaInv, PaTypeOK, PaCalls, Serve, GoesOn
<1>2. PICK n \in Unanswered, ok \in BOOLEAN : pa' = AnswerTo(n, ok, server')
  BY ServeAnswers
<1>3. n \in Positions(pa)
  BY <1>2 DEF Unanswered, Positions
<1>5. /\ pa'.state = "run" /\ pa'.ret = pa.ret /\ pa'.garbage = pa.garbage
      /\ pa'.action = pa.action /\ pa'.meant = pa.meant
      /\ Len(pa'.requests) = Len(pa.requests)
      /\ \A k \in Positions(pa) : pa'.requests[k].cb = pa.requests[k].cb
  BY <1>1, <1>2, <1>3 DEF AnswerTo, PaCalls, Requests, Positions
<1>6. RetInv(pa)'
  BY <1>1, <1>5 DEF RetInv, RetFits, Positions
<1>7. pa'.requests # <<>>
  BY <1>1, <1>3, <1>5 DEF Positions
<1> QED
  BY <1>5, <1>6, <1>7 DEF GoesOn

LEMMA NextGoesOn ==
  ASSUME PaInv, GoesOn(pa), [PaNext]_paVars
  PROVE  GoesOn(pa)'
<1>1. ASSUME pa'.state \in {"quit(1)", "returned"} PROVE GoesOn(pa)'
  BY <1>1 DEF GoesOn
<1>2. ASSUME pa' = pa PROVE GoesOn(pa)'
  BY <1>2 DEF GoesOn, RetInv, RetFits, Positions, HangsBy
<1>3. pa \in PaCalls
  BY DEF PaInv, PaTypeOK
<1>4. CASE Return \/ ContextFails
  BY <1>1, <1>3, <1>4 DEF Return, ContextFails, PaCalls
<1>5. CASE Answered /\ AnswerCallback
  <2>1. CASE AnswerIsError
    <3>1. Rest \in PaCalls
      BY <1>5, RestFacts
    <3>2. pa'.state = "quit(1)"
      BY <2>1, <3>1 DEF AnswerIsError, PaCalls
    <3> QED
      BY <1>1, <3>2
  <2>2. CASE MalformedName
    <3> DEFINE c == [Rest EXCEPT !.state = "quit(1)"]
               e == EndOfList(c)
    <3>1. Rest \in PaCalls /\ Rest.requests = <<>>
      BY <1>5, <2>2, RestFacts, RestAlone, StageOfAnswer DEF MalformedName, Callback
    <3>2. c \in PaCalls /\ c.state = "quit(1)" /\ c.requests = <<>>
      BY <3>1 DEF PaCalls
    <3>3. pa' = DrainComplete(e)
      BY <2>2 DEF MalformedName, Callback
    <3> HIDE DEF c
    <3>4. e.state \in {"quit(0)", "quit(1)"}
      BY <3>2 DEF EndOfList, Drain, PaCalls
    <3> HIDE DEF e
    <3> QED
      BY <3>3, <3>4 DEF DrainComplete, GoesOn
  <2> QED
    BY <1>5, <2>1, <2>2, NextGoes, MasterGoes, ListGoes DEF AnswerCallback
<1>6. CASE Others
  <2>1. PICK d \in Devs : Unplug(d) \/ OtherClient(d)
    BY <1>6 DEF Others
  <2>2. pa' = pa
    BY <2>1, Zenon DEF Unplug, OtherClient
  <2> QED
    BY <1>2, <2>2
<1>7. CASE UNCHANGED paVars
  BY <1>2, <1>7 DEF paVars
<1> QED
  BY <1>4, <1>5, <1>6, <1>7, ClientGoes, ReadyGoes, ServeGoes DEF PaNext, Loop

\* PaInv holds in every behaviour: what a call is at and what it has done agree.
THEOREM CallsAreInOrder == PaSpec => []PaInv
<1>1. PaInit => PaInv
  BY InitPaInv
<1>2. PaInv /\ [PaNext]_paVars => PaInv'
  BY NextPaInv
<1> QED
  BY <1>1, <1>2, PTL DEF PaSpec

\* The state of the volume calls keeps its types: no counter of answers falls
\* below zero and each request has one of the callbacks.
THEOREM PaTypes == PaSpec => []PaTypeOK
<1>1. PaInv => PaTypeOK
  BY DEF PaInv
<1> QED
  BY <1>1, CallsAreInOrder, PTL

\* A call that ends well has done all it was to do and has no request under
\* way, however many devices there are and whatever becomes of them.
THEOREM CallIsWhole == PaSpec => []SuccessIsWhole
<1>1. PaInv => SuccessIsWhole
  BY DEF PaInv, PaCallInv, Whole, SuccessIsWhole
<1> QED
  BY <1>1, CallsAreInOrder, PTL

\* The value reported for an input device is that of the source which was made
\* the default, for any number of sources of its name.
THEOREM InfoIsDefault == PaSpec => []InfoIsOfDefault
<1>1. PaInv => InfoIsOfDefault
  BY DEF PaInv, PaCallInv, Whole, InfoInv, InfoIsOfDefault
<1> QED
  BY <1>1, CallsAreInOrder, PTL

\* A loop that runs has a request under way, but for the one case in which
\* garbage makes a call wait (pa_volume_ctl.c:718): whichever devices go, a
\* chain of callbacks neither ends without ending the loop nor miscounts.
THEOREM CallsGoOn == PaSpec => []RequestUnderWay
<1>1. PaInit => GoesOn(pa)
  BY NoPaCallFacts DEF PaInit, GoesOn
<1>2. PaInv /\ GoesOn(pa) /\ [PaNext]_paVars => GoesOn(pa)'
  BY NextGoesOn
<1>3. GoesOn(pa) => RequestUnderWay
  BY DEF GoesOn, RequestUnderWay, Hanging, HangsBy
<1> QED
  BY <1>1, <1>2, <1>3, CallsAreInOrder, PTL DEF PaSpec
=============================================================================
