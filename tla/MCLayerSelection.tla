--------------------------- MODULE MCLayerSelection ---------------------------
(***************************************************************************)
(* LayerFrames for TLC: three tasks, two of them of one app.               *)
(***************************************************************************)
EXTENDS LayerFrames

CONSTANTS t1, t2, t3, launcher, app

MCTasks == {t1, t2, t3}
MCApps == {launcher, app}
MCAppOf == t1 :> launcher @@ t2 :> app @@ t3 :> app
MCPackages == MCApps \cup {"other"}
MCKeys == <<"Openfde", t1, t2, t3>>
===============================================================================
