--------------------------- MODULE DirectoryContract ---------------------------
(***************************************************************************)
(* What the code promises of a directory that it makes for a run, be it a  *)
(* cgroup (createCgroup and the deferred removal of internal/runtime/      *)
(* run_linux.go) or the root of a bundle (Prepare and Bundle.Close of      *)
(* internal/oci/image.go): whoever asks gets a finished directory or an    *)
(* error and no directory, and nothing is left after the release, unless   *)
(* the removal itself fails.                                               *)
(***************************************************************************)
CONSTANT Directories  \* what may be asked for, each once

VARIABLES
    status,    \* how far each directory has come
    existing,  \* the directories that their owner or nobody holds
    stuck      \* history: the directories whose removal has failed

contractVars == << status, existing, stuck >>

Statuses == {"asked", "held", "refused", "released"}

\* The finished directory is handed over.
Make(d) ==
    /\ status[d] = "asked"
    /\ status' = [status EXCEPT ![d] = "held"]
    /\ existing' = existing \cup {d}
    /\ UNCHANGED stuck

\* An error is returned, or the directory is given back.
End(d, from, to) ==
    /\ status[d] = from
    /\ status' = [status EXCEPT ![d] = to]
    /\ \/ existing' = existing \ {d} /\ UNCHANGED stuck
       \/ existing' = existing \cup {d} /\ stuck' = stuck \cup {d}

Refuse(d) == End(d, "asked", "refused")

Release(d) == End(d, "held", "released")

Init ==
    /\ status = [d \in Directories |-> "asked"]
    /\ existing = {}
    /\ stuck = {}

Next == \E d \in Directories : Make(d) \/ Refuse(d) \/ Release(d)

Spec == Init /\ [][Next]_contractVars
=============================================================================
