--------------------------- MODULE MCTrainingJobs ---------------------------
(* Small instances of TrainingJobs for TLC.                                *)
EXTENDS TrainingJobs

(* All jobs ask for something else.                                        *)
Distinct == [j \in Jobs |-> j]
=============================================================================
