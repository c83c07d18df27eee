------------------------------ MODULE MCTasks -------------------------------
(* Three threads, of which thread 0 is the supervisor that never calls;    *)
(* and a table of four, so that the fifth thread lets it grow.             *)
EXTENDS Tasks

MCCandidates == {"t1", "t2", "t3", "t4", "t5"}
=============================================================================
