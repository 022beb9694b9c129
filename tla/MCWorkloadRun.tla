----------------------------- MODULE MCWorkloadRun -----------------------------
(* WorkloadRun for TLC.                                                    *)
EXTENDS WorkloadRun, TLC

\* The runs are interchangeable: no action and no safety property names one.
RunSymmetry == Permutations(Runs)
=============================================================================
