----------------------------- MODULE MCCgroupLimits -----------------------------
(* Limits below, at and above each bound, with pages of two bytes.         *)
EXTENDS CgroupLimits

MCRequests == [memory : {0, 1, 4, 5, 8}, pids : {0, 1, 3}, quota : 0 .. 3, period : {1, 2, 4, 5}]
=============================================================================
