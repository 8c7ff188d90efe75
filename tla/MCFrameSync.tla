----------------------------- MODULE MCFrameSync ------------------------------
(***************************************************************************)
(* FrameSync with frames of up to three layers and the target.             *)
(***************************************************************************)
EXTENDS FrameSync

App == [type |-> "framebuffer", skip |-> FALSE, fence |-> TRUE]
Kept == [type |-> "overlay", skip |-> FALSE, fence |-> FALSE]
Skip == [type |-> "framebuffer", skip |-> TRUE, fence |-> TRUE]
Fb == [type |-> "target", skip |-> FALSE, fence |-> TRUE]

Bare == [Skip EXCEPT !.fence = FALSE]

MCFrames == {<<App, Fb>>, <<App, Kept, Skip, Fb>>, <<Skip, Bare, App, Fb>>, <<Bare, Kept, Skip, Fb>>}
===============================================================================
