----------------------------- MODULE MCDSparkPlan -----------------------------
(* Two requests with two draft positions, every table of confidences in    *)
(* thirds, the falling curves over the sizes the step can have, and curves *)
(* profiled at two sizes only, falling or rising.                          *)
EXTENDS DSparkPlan
CONSTANT Rates
MCCurves ==
  {c \in [{2, 3, 4, 5, 6} -> Rates] : Falling(c)} \cup [{3, 5} -> Rates] \cup {<<>>}
=============================================================================
