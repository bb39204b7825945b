-------------------------- MODULE MCWaitingRequests --------------------------
(* Instances of WaitingRequests: two requests, one of them a streaming  *)
(* session.                                                                *)
EXTENDS WaitingRequests

MC_ReqIds == 1 .. 2
MC_Prompt == <<3, 2>>
MC_Family == <<1, 2>>
=============================================================================
