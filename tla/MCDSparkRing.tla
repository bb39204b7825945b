---------------------------- MODULE MCDSparkRing ----------------------------
(* DSparkRing with two requests and two rings; one of the requests may be  *)
(* preempted, the other left out of a step.                                *)
EXTENDS DSparkRing
CONSTANTS r1, r2
Two == {r1, r2}
=============================================================================
