------------------------------ MODULE RunContract ------------------------------
(***************************************************************************)
(* What runtime.Run (internal/runtime/run_linux.go) promises the handler   *)
(* that calls it, without the network, the cgroup, the pipe and the        *)
(* process that Run uses to keep the promise.                              *)
(***************************************************************************)
CONSTANT Runs  \* the calls of Run

VARIABLE phase

\* "preparing": called, no process yet.  "launched": a process exists that is
\* not the workload yet.  "executing": the workload.  "completed": it ended
\* with status 0.  "aborted": the process ended in any other way.
Phases ==
    {"idle", "preparing", "launched", "executing", "completed", "aborted",
     "succeeded", "failed"}

TypeOK == phase \in [Runs -> Phases]

Become(r, p) == phase' = [phase EXCEPT ![r] = p]

Call(r) == phase[r] = "idle" /\ Become(r, "preparing")

Launch(r) == phase[r] = "preparing" /\ Become(r, "launched")

Execute(r) == phase[r] = "launched" /\ Become(r, "executing")

Complete(r) == phase[r] = "executing" /\ Become(r, "completed")

Abort(r) == phase[r] \in {"launched", "executing"} /\ Become(r, "aborted")

\* The output is returned without an error.
ReturnSuccess(r) == phase[r] = "completed" /\ Become(r, "succeeded")

\* An error is returned: before there is a process, or after its end, even if
\* the workload completed (the cleanup may fail).
ReturnFailure(r) ==
    /\ phase[r] \in {"idle", "preparing", "completed", "aborted"}
    /\ Become(r, "failed")

Init == phase = [r \in Runs |-> "idle"]

Next ==
    \E r \in Runs :
        \/ Call(r) \/ Launch(r) \/ Execute(r)
        \/ Complete(r) \/ Abort(r)
        \/ ReturnSuccess(r) \/ ReturnFailure(r)

Spec == Init /\ [][Next]_phase
=============================================================================
