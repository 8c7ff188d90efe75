------------------------------- MODULE SyncCall -------------------------------
(***************************************************************************)
(* What the composer thread expects of the EGL worker: a synchronous call. *)
(* It hands over a batch of jobs, every job of the batch runs exactly once *)
(* and in order, and the call returns when the last one has run.           *)
(***************************************************************************)
EXTENDS Naturals, Sequences

CONSTANT Jobs

VARIABLES
  phase,  \* "idle", or "called" between the call and its return
  batch,  \* the jobs of the last call
  ran     \* the jobs of that call that have run, oldest first

absVars == <<phase, batch, ran>>

Init ==
  /\ phase = "idle"
  /\ batch = <<>>
  /\ ran = <<>>

Call ==
  /\ phase = "idle"
  /\ phase' = "called"
  /\ batch' \in Seq(Jobs) \ {<<>>}
  /\ ran' = <<>>

Run ==
  /\ phase = "called"
  /\ Len(ran) < Len(batch)
  /\ ran' = Append(ran, batch[Len(ran) + 1])
  /\ UNCHANGED <<phase, batch>>

Return ==
  /\ phase = "called"
  /\ Len(ran) = Len(batch)
  /\ phase' = "idle"
  /\ UNCHANGED <<batch, ran>>

Next == Call \/ Run \/ Return

Safety == Init /\ [][Next]_absVars

Spec == Safety /\ WF_absVars(Run) /\ WF_absVars(Return)
===============================================================================
