---------------------------- MODULE MCModelRunner ----------------------------
(* ModelRunner with two requests, of which one may be preempted and the    *)
(* other aborted.                                                          *)
EXTENDS ModelRunner
CONSTANTS r1, r2
Two == {r1, r2}
=============================================================================
