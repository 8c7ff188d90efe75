--------------------------- MODULE MCWindowManager ----------------------------
(***************************************************************************)
(* WindowManager with two tasks of an app, a list that names the launcher, *)
(* and frames of up to two layers.                                         *)
(***************************************************************************)
EXTENDS WindowManager

CONSTANTS t1, t2, launcher, app

MCTasks == {t1, t2}
MCApps == {launcher, app}
MCAppOf == t1 :> app @@ t2 :> app

\* Task ids are digits and sort before the names.
MCKeyOrder == <<t1, t2, InputMethod, FullScreen>>

MCBlacklists == {<<launcher>>}

\* The list may change between two frames.
ChangingBlacklists == {<<launcher>>, <<app, launcher>>}

MCLayers == MCTasks \cup {InputMethod, "BootAnimation"}

AppFrames == {<<>>, <<t1>>, <<t2>>, <<t1, t2>>, <<t2, t1>>}

PopupFrames == AppFrames \cup {<<t1, InputMethod>>, <<InputMethod>>, <<"BootAnimation">>}
===============================================================================
