------------------------------ MODULE MCScheduler ------------------------------
(* Scheduler with small requests.                                          *)
EXTENDS Scheduler, TLC

\* The first request is the least important one: priority preemption picks it
\* when it stands in front of the request that needs the blocks.
Urgency == 1 :> 2 @@ 2 :> 0 @@ 3 :> 1
Prompts == 1 :> 2 @@ 2 :> 3 @@ 3 :> 1
Outputs == 1 :> 3 @@ 2 :> 2 @@ 3 :> 2
=============================================================================
