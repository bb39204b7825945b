--------------------------- MODULE MCEncoderCache ---------------------------
(* Instances of EncoderCache: three requests that share items, and a cache   *)
(* for one item more than the largest.                                       *)
EXTENDS EncoderCache

MC_Requests == 1 .. 3
MC_Prompt == <<6, 4, 4>>
Item(pos, h) == [offset |-> pos, length |-> 2, hash |-> h,
                 embeds |-> IF h = "y" THEN {1} ELSE {0, 1}]
MC_Features == <<<<Item(1, "x"), Item(4, "z")>>, <<Item(1, "x")>>, <<Item(2, "y")>>>>
MC_Priority == <<2, 1, 2>>
=============================================================================
