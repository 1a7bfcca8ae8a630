--------------------------- MODULE HiringPipelineMC ---------------------------
(* Instances of HiringPipeline for TLC; see the .cfg files for the sizes.  *)
EXTENDS HiringPipeline

(* Both sides of every threshold, answers out of range and no answer.      *)
EveryAnswer == {-5, 29, 30, 74, 75, 89, 90, 120, None}
=============================================================================
