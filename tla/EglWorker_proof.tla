--------------------------- MODULE EglWorker_proof ----------------------------
(***************************************************************************)
(* For every set of jobs and every batch size: the semaphore hand-off      *)
(* keeps the two threads off the queue at the same time, runs each job     *)
(* exactly once, and implements the synchronous call.                      *)
(*                                                                         *)
(* Neither QueueExclusive nor JobsRunOnReturn is inductive: both need to   *)
(* know where the one permit is, which is what Handshake says.             *)
(***************************************************************************)
EXTENDS EglWorker, SequenceTheorems, TLAPS

IInv == TypeOK /\ Handshake

LEMMA InitIInv == Init => IInv
  BY DEF Init, IInv, TypeOK, Handshake

\* The composer thread's steps.
LEMMA CallerIInv ==
  ASSUME IInv, Caller
  PROVE  IInv'
<1> USE DEF IInv, TypeOK, Handshake
<1>1. CASE \E j \in Jobs : Push(j)
  <2> PICK j \in Jobs : Push(j)
    BY <1>1
  <2>1. /\ egl_work_queue' \in Seq(Jobs)
        /\ egl_work_queue' # <<>>
    BY DEF Push
  <2> QED
    BY <2>1 DEF Push
<1>2. CASE PostGo
  BY <1>2 DEF PostGo
<1>3. CASE WaitDone
  BY <1>3 DEF WaitDone
<1> QED
  BY <1>1, <1>2, <1>3 DEF Caller

\* One more job has run: the history still agrees with the batch.
LEMMA RunJobIInv ==
  ASSUME IInv, RunJob
  PROVE  IInv'
<1> USE DEF IInv, TypeOK, Handshake, RunJob
<1>1. /\ caller = "wait" /\ egl_go = 0 /\ egl_done = 0
      /\ egl_work_queue = batch
      /\ Len(ran) + 1 = next /\ Len(ran) <= Len(batch)
      /\ \A i \in 1..Len(ran) : ran[i] = batch[i]
  OBVIOUS
<1>2. next \in 1..Len(egl_work_queue) /\ egl_work_queue[next] \in Jobs
  BY ElementOfSeq
<1>3. /\ ran' \in Seq(Jobs)
      /\ Len(ran') = Len(ran) + 1
      /\ \A i \in 1..Len(ran) : ran'[i] = ran[i]
      /\ ran'[Len(ran) + 1] = batch[next]
  BY <1>1, <1>2, AppendProperties
<1>4. \A i \in 1..Len(ran') : ran'[i] = batch[i]
  BY <1>1, <1>3
<1> QED
  BY <1>1, <1>2, <1>3, <1>4

\* The worker has reached the end of the list: what ran is the whole batch.
LEMMA ClearQueueIInv ==
  ASSUME IInv, ClearQueue
  PROVE  IInv'
<1> USE DEF IInv, TypeOK, Handshake, ClearQueue
<1>1. /\ caller = "wait" /\ egl_go = 0 /\ egl_done = 0
      /\ egl_work_queue = batch
      /\ Len(ran) + 1 = next /\ Len(ran) <= Len(batch)
      /\ \A i \in 1..Len(ran) : ran[i] = batch[i]
  OBVIOUS
<1>2. Len(ran) = Len(batch)
  BY <1>1, LenProperties
<1>3. ran = batch
  BY <1>1, <1>2, SeqEqual
<1> QED
  BY <1>1, <1>3

LEMMA WorkerIInv ==
  ASSUME IInv, Worker
  PROVE  IInv'
<1>1. CASE EglInit
  BY <1>1 DEF IInv, TypeOK, Handshake, EglInit
<1>2. CASE WaitGo
  BY <1>2, EmptySeq DEF IInv, TypeOK, Handshake, WaitGo
<1>3. CASE PostDone
  BY <1>3 DEF IInv, TypeOK, Handshake, PostDone
<1> QED
  BY <1>1, <1>2, <1>3, RunJobIInv, ClearQueueIInv DEF Worker

THEOREM Invariance == Spec => []IInv
<1>1. IInv /\ [Next]_vars => IInv'
  <2> SUFFICES ASSUME IInv, [Next]_vars
               PROVE  IInv'
    OBVIOUS
  <2>1. CASE UNCHANGED vars
    BY <2>1 DEF vars, IInv, TypeOK, Handshake
  <2> QED
    BY <2>1, CallerIInv, WorkerIInv DEF Next
<1> QED
  BY <1>1, InitIInv, PTL DEF Spec

\* The variables keep their types; the semaphores never count above one.
THEOREM TypeCorrect == Spec => []TypeOK
  BY Invariance, PTL DEF IInv

\* The two threads are always at places that fit together: which of them owns
\* the queue is told by where they are and by the two semaphores.
THEOREM HandshakeHolds == Spec => []Handshake
  BY Invariance, PTL DEF IInv

\* The queue is never in the hands of both threads.
THEOREM Exclusion == Spec => []QueueExclusive
<1>1. IInv => QueueExclusive
  BY DEF IInv, Handshake, QueueExclusive
<1> QED
  BY <1>1, Invariance, PTL

\* When the composer thread goes on, all of its jobs have run, once, in order.
THEOREM RunOnce == Spec => []JobsRunOnReturn
<1>1. IInv => JobsRunOnReturn
  BY DEF IInv, Handshake, JobsRunOnReturn
<1> QED
  BY <1>1, Invariance, PTL

-------------------------------------------------------------------------------
(* The refinement, its safety part.                                        *)

LEMMA InitSync == Init => Sync!Init
  BY DEF Init, Sync!Init

\* Each step is a step of the synchronous call or leaves it as it was.
LEMMA StepSync ==
  ASSUME IInv, [Next]_vars
  PROVE  [Sync!Next]_(Sync!absVars)
<1> USE DEF Sync!absVars
<1>1. ASSUME NEW j \in Jobs, Push(j)
      PROVE  UNCHANGED Sync!absVars
  BY <1>1 DEF Push
<1>2. CASE PostGo
  <2>1. batch' \in Seq(Jobs) \ {<<>>}
    BY <1>2 DEF PostGo, IInv, TypeOK, Handshake
  <2> QED
    BY <1>2, <2>1 DEF PostGo, Sync!Next, Sync!Call
<1>3. CASE WaitDone
  <2>1. ran = batch
    BY <1>3 DEF WaitDone, IInv, TypeOK, Handshake
  <2> QED
    BY <1>3, <2>1 DEF WaitDone, Sync!Next, Sync!Return
<1>4. CASE RunJob
  <2>1. /\ caller = "wait" /\ egl_work_queue = batch
        /\ next = Len(ran) + 1 /\ Len(ran) \in Nat /\ Len(batch) \in Nat
    BY <1>4 DEF RunJob, IInv, TypeOK, Handshake
  <2> QED
    BY <1>4, <2>1 DEF RunJob, Sync!Next, Sync!Run
<1>5. CASE EglInit \/ WaitGo \/ ClearQueue \/ PostDone
  BY <1>5 DEF EglInit, WaitGo, ClearQueue, PostDone
<1>6. CASE UNCHANGED vars
  BY <1>6 DEF vars
<1> QED
  BY <1>1, <1>2, <1>3, <1>4, <1>5, <1>6 DEF Next, Caller, Worker

\* The semaphores implement the synchronous call, liveness left aside.
THEOREM SyncSafety == Spec => Sync!Safety
<1>1. IInv /\ [Next]_vars => [Sync!Next]_(Sync!absVars)
  BY StepSync
<1> QED
  BY <1>1, InitSync, Invariance, PTL DEF Spec, Sync!Safety
===============================================================================
