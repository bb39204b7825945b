---------------------------- MODULE MCStickyRouter ----------------------------
(* A worker of ROUTER_BACKENDS, one of a group that is asked after that of *)
(* another region, the discovery thread and a handler thread.              *)
EXTENDS StickyRouter
CONSTANTS t1, east, west
Two == {1, 2}
OneKey == {"a"}
OneThread == {t1}
TwoTargets == <<east, west>>
OneStatic == {2}
Western == [b \in Workers \ Static |-> west]
MCScore == [k \in Keys |-> [b \in Workers |-> 3 - b]]
=============================================================================
