------------------------------ MODULE EglWorker -------------------------------
(***************************************************************************)
(* The hand-off between SurfaceFlinger's thread, which runs hwc_prepare    *)
(* and hwc_set, and egl_worker_thread, the only thread with a GL context.  *)
(* The list egl_work_queue has no lock: two semaphores, egl_go and         *)
(* egl_done, are all that keeps the two threads from touching it together. *)
(*                                                                         *)
(* update_shm_buffer hands over one job, the staged mode of hwc_set one    *)
(* job for every inactive window.                                          *)
(*                                                                         *)
(* A definition marked Variant is no part of the model: it is the one      *)
(* below it with a plausible mistake, and shows that a property sees it.   *)
(***************************************************************************)
EXTENDS Naturals, Sequences

CONSTANTS
  Jobs,      \* what a job does: a buffer to render, a window to snapshot
  MaxBatch   \* the most jobs one call hands over

ASSUME MaxBatchAssumption == MaxBatch \in Nat \ {0}

VARIABLES
  egl_work_queue,
  egl_go,
  egl_done,
  caller,    \* where the composer thread is
  worker,    \* where the worker thread is
  next,      \* the index of the element the worker's iterator points to
  batch,     \* history: the queue as it was when egl_go was posted
  ran        \* history: the jobs run since then

vars == <<egl_work_queue, egl_go, egl_done, caller, worker, next, batch, ran>>

TypeOK ==
  /\ egl_work_queue \in Seq(Jobs)
  /\ egl_go \in 0..1
  /\ egl_done \in 0..1
  /\ caller \in {"idle", "push", "wait"}
  /\ worker \in {"init", "sleep", "run", "post"}
  /\ next \in Nat \ {0}
  /\ batch \in Seq(Jobs)
  /\ ran \in Seq(Jobs)

Init ==
  /\ egl_work_queue = <<>>
  /\ egl_go = 0
  /\ egl_done = 0
  /\ caller = "idle"
  /\ worker = "init"
  /\ next = 1
  /\ batch = <<>>
  /\ ran = <<>>

-------------------------------------------------------------------------------
(* The composer thread.                                                    *)

Push(j) ==
  /\ caller \in {"idle", "push"}
  /\ Len(egl_work_queue) < MaxBatch
  /\ egl_work_queue' = Append(egl_work_queue, j)
  /\ caller' = "push"
  /\ UNCHANGED <<egl_go, egl_done, worker, next, batch, ran>>

\* Variant: the composer thread goes on before egl_go is posted and taken.
PostGoNoWait ==
  /\ caller = "push"
  /\ egl_go' = egl_go + 1
  /\ caller' = "idle"
  /\ batch' = egl_work_queue
  /\ ran' = <<>>
  /\ UNCHANGED <<egl_work_queue, egl_done, worker, next>>

\* Posted only with work in the queue: update_shm_buffer has just pushed,
\* hwc_set tests egl_work_queue.empty().
PostGo ==
  /\ caller = "push"
  /\ egl_go' = egl_go + 1
  /\ caller' = "wait"
  /\ batch' = egl_work_queue
  /\ ran' = <<>>
  /\ UNCHANGED <<egl_work_queue, egl_done, worker, next>>

WaitDone ==
  /\ caller = "wait"
  /\ egl_done > 0
  /\ egl_done' = egl_done - 1
  /\ caller' = "idle"
  /\ UNCHANGED <<egl_work_queue, egl_go, worker, next, batch, ran>>

-------------------------------------------------------------------------------
(* egl_loop.                                                               *)

EglInit ==
  /\ worker = "init"
  /\ worker' = "sleep"
  /\ UNCHANGED <<egl_work_queue, egl_go, egl_done, caller, next, batch, ran>>

WaitGo ==
  /\ worker = "sleep"
  /\ egl_go > 0
  /\ egl_go' = egl_go - 1
  /\ worker' = "run"
  /\ next' = 1
  /\ UNCHANGED <<egl_work_queue, egl_done, caller, batch, ran>>

RunJob ==
  /\ worker = "run"
  /\ next <= Len(egl_work_queue)
  /\ ran' = Append(ran, egl_work_queue[next])
  /\ next' = next + 1
  /\ UNCHANGED <<egl_work_queue, egl_go, egl_done, caller, worker, batch>>

ClearQueue ==
  /\ worker = "run"
  /\ next > Len(egl_work_queue)
  /\ egl_work_queue' = <<>>
  /\ worker' = "post"
  /\ UNCHANGED <<egl_go, egl_done, caller, next, batch, ran>>

\* Variant: egl_done is not posted after a batch of several jobs.
PostDoneForOne ==
  /\ worker = "post"
  /\ egl_done' = IF Len(ran) = 1 THEN 1 ELSE egl_done
  /\ worker' = "sleep"
  /\ UNCHANGED <<egl_work_queue, egl_go, caller, next, batch, ran>>

PostDone ==
  /\ worker = "post"
  /\ egl_done' = egl_done + 1
  /\ worker' = "sleep"
  /\ UNCHANGED <<egl_work_queue, egl_go, caller, next, batch, ran>>

-------------------------------------------------------------------------------
Caller == PostGo \/ WaitDone \/ \E j \in Jobs : Push(j)

Worker == EglInit \/ WaitGo \/ RunJob \/ ClearQueue \/ PostDone

Next == Caller \/ Worker

\* The worker is a loop without exit; the caller, once it waits, is woken
\* when the semaphore is posted. Whether there is a next call is up to
\* SurfaceFlinger.
Fairness == WF_vars(Worker) /\ WF_vars(WaitDone)

Spec == Init /\ [][Next]_vars /\ Fairness

-------------------------------------------------------------------------------
(* Properties.                                                             *)

\* std::list is not thread safe: while the worker iterates over the queue or
\* is about to clear it, the composer thread is blocked in sem_wait, and while
\* the composer thread pushes, the worker sleeps with no permit to start.
QueueExclusive ==
  /\ worker \in {"run", "post"} => caller = "wait" /\ egl_go = 0
  /\ caller = "push" => worker \in {"init", "sleep"} /\ egl_go = 0 /\ egl_done = 0

\* When the call has returned, each job handed over has run once, in order,
\* and none is left for the next frame: a snapshot job that stayed behind
\* would run with a window that hwc_set has deleted since.
JobsRunOnReturn ==
  caller = "idle" => egl_work_queue = <<>> /\ ran = batch

\* The two threads and their semaphores implement the synchronous call.
Sync == INSTANCE SyncCall
          WITH phase <- IF caller = "wait" THEN "called" ELSE "idle"

SyncRefinement == Sync!Spec

\* What makes JobsRunOnReturn and QueueExclusive inductive: exactly one of the
\* threads owns the queue, and the history follows the worker's iterator.
Handshake ==
  \/ /\ caller \in {"idle", "push"}
     /\ worker \in {"init", "sleep"}
     /\ egl_go = 0 /\ egl_done = 0
     /\ ran = batch
     /\ caller = "idle" => egl_work_queue = <<>>
     /\ caller = "push" => egl_work_queue # <<>>
  \/ /\ caller = "wait"
     /\ worker \in {"init", "sleep"}
     /\ egl_go = 1 /\ egl_done = 0
     /\ egl_work_queue = batch /\ ran = <<>>
  \/ /\ caller = "wait"
     /\ worker = "run"
     /\ egl_go = 0 /\ egl_done = 0
     /\ egl_work_queue = batch
     /\ Len(ran) + 1 = next /\ Len(ran) <= Len(batch)
     /\ \A i \in 1..Len(ran) : ran[i] = batch[i]
  \/ /\ caller = "wait"
     /\ worker = "post"
     /\ egl_go = 0 /\ egl_done = 0
     /\ egl_work_queue = <<>> /\ ran = batch
  \/ /\ caller = "wait"
     /\ worker = "sleep"
     /\ egl_go = 0 /\ egl_done = 1
     /\ egl_work_queue = <<>> /\ ran = batch
===============================================================================
