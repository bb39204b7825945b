---------------------------- MODULE MCDSparkSlots ----------------------------
(* Three rings shared by five requests: more requests than rings, so that  *)
(* slots are reclaimed and handed on in every order.                       *)
EXTENDS DSparkSlots
CONSTANTS r1, r2, r3, r4, r5
MCReqIds == {r1, r2, r3, r4, r5}
=============================================================================
