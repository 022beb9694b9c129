------------------------------ MODULE CgroupLimits ------------------------------
(***************************************************************************)
(* How a workload comes under its limits (internal/runtime/run_linux.go):  *)
(* SetupCgroups enables the controllers when the agent starts, createCgroup*)
(* makes a directory for a run, writes each limit and reads it back.  The  *)
(* kernel takes a limit as it is, rounds it, or refuses it.                *)
(***************************************************************************)
EXTENDS Integers, FiniteSets

CONSTANTS
    Requests,   \* limits that are asked for: [memory, pids, quota, period]
    PageSize,   \* memory.max is kept in pages
    MaxMemory,  \* from here on memory.max means "no limit"
    MaxPids,    \* the kernel's bound of pids.max
    MinTime,    \* the kernel's and the code's bounds of a time in cpu.max,
    MaxTime,    \* 1000 and 1000000 microseconds
    MaxFaults   \* bound on the calls that fail without a cause

ASSUME RequestsAssumption ==
    Requests \subseteq [memory : Nat, pids : Nat, quota : Nat, period : Nat]

ASSUME KernelAssumption ==
    /\ {PageSize, MinTime} \subseteq Nat \ {0}
    /\ {MaxMemory, MaxPids, MaxTime, MaxFaults} \subseteq Nat

VARIABLES
    step,      \* the next thing to do
    offered,   \* the controllers that the kernel offers at the root
    enabled,   \* cgroup.subtree_control of the root and of kernlet
    request,   \* the limits that the run asks for
    pending,   \* the files that have not been written yet
    current,   \* the file that has just been written
    dir,       \* the limits in force in the workload's directory, if it exists
    faults     \* history: the calls that failed without a cause

vars == << step, offered, enabled, request, pending, current, dir, faults >>

Controllers == {"cpu", "memory", "pids"}

\* The parent of the workload's directory is kernlet, whose parent is the root.
Offers(cgroup) == IF cgroup = "root" THEN offered ELSE enabled["root"]

Fault(call) ==
    /\ Cardinality(faults) < MaxFaults
    /\ faults' = faults \cup {call}

\* A call fails: because it cannot work, or without a cause.
Fails(works, call) ==
    \/ ~works /\ UNCHANGED faults
    \/ Fault(call)

Absent == << >>

Unlimited == [memory |-> << >>, pids |-> << >>, cpu |-> << >>]

\* The values of createCgroup, one for each file; a file belongs to the
\* controller of its name.
Wanted(l) == [memory |-> << l.memory >>, pids |-> << l.pids >>, cpu |-> << l.quota, l.period >>]

-----------------------------------------------------------------------------
(* The kernel.                                                             *)

Takes(l, file) ==
    CASE file = "memory" -> TRUE
      [] file = "pids" -> l.pids <= MaxPids
      [] file = "cpu" -> l.quota >= MinTime /\ l.period \in MinTime .. MaxTime

Kept(l, file) ==
    IF file # "memory" THEN Wanted(l)[file]
    ELSE IF l.memory >= MaxMemory THEN Unlimited["memory"]
    ELSE << (l.memory \div PageSize) * PageSize >>

-----------------------------------------------------------------------------
(* SetupCgroups, once, when the agent starts; an error is a panic.         *)

EnableControllers(cgroup, before, after) ==
    /\ step = before
    /\ \/ /\ Controllers \subseteq Offers(cgroup)
          /\ enabled' = [enabled EXCEPT ![cgroup] = Controllers]
          /\ step' = after
          /\ UNCHANGED faults
       \/ /\ Fails(Controllers \subseteq Offers(cgroup), "controllers")
          /\ step' = "panicked"
          /\ UNCHANGED enabled
    /\ UNCHANGED << offered, request, pending, current, dir >>

MkdirKernlet ==
    /\ step = "mkdirKernlet"
    /\ \/ step' = "enableKernlet" /\ UNCHANGED faults
       \/ step' = "panicked" /\ Fault("MkdirAll")
    /\ UNCHANGED << offered, enabled, request, pending, current, dir >>

SetupCgroups ==
    \/ EnableControllers("root", "enableRoot", "mkdirKernlet")
    \/ MkdirKernlet
    \/ EnableControllers("kernlet", "enableKernlet", "idle")

-----------------------------------------------------------------------------
(* Run, as far as its limits go.                                           *)

\* Mutant: the last legal period is refused.
ValidLimitsExclusive(l) ==
    l.memory # 0 /\ l.pids # 0 /\ l.quota # 0 /\ MinTime <= l.period /\ l.period < MaxTime

ValidLimits(l) ==
    l.memory # 0 /\ l.pids # 0 /\ l.quota # 0 /\ MinTime <= l.period /\ l.period <= MaxTime

ValidateLimits ==
    /\ step = "idle"
    /\ step' = IF ValidLimits(request) THEN "mkdir" ELSE "refused"
    /\ UNCHANGED << offered, enabled, request, pending, current, dir, faults >>

\* MkdirTemp: a new directory has a file for each controller enabled above it.
MakeDirectory ==
    /\ step = "mkdir"
    /\ \/ /\ dir' = [file \in enabled["kernlet"] |-> Unlimited[file]]
          /\ pending' = Controllers
          /\ step' = "write"
          /\ UNCHANGED faults
       \/ /\ Fault("MkdirTemp")
          /\ step' = "refused"
          /\ UNCHANGED << dir, pending >>
    /\ UNCHANGED << offered, enabled, request, current >>

\* Go iterates over a map in any order.
WriteLimit(file) ==
    /\ step = "write"
    /\ file \in pending
    /\ current' = file
    /\ \/ /\ file \in DOMAIN dir /\ Takes(request, file)
          /\ dir' = [dir EXCEPT ![file] = Kept(request, file)]
          /\ step' = "verify"
          /\ UNCHANGED faults
       \/ /\ Fails(file \in DOMAIN dir /\ Takes(request, file), "WriteFile")
          /\ step' = "cleanup"
          /\ UNCHANGED dir
    /\ UNCHANGED << offered, enabled, request, pending >>

\* Mutant: what is read back is not compared.
VerifiedUnseen == TRUE

Verified == dir[current] = Wanted(request)[current]

\* writeCgroupValue compares what it reads with what it wrote.
VerifyLimit ==
    /\ step = "verify"
    /\ \/ /\ Verified
          /\ pending' = pending \ {current}
          /\ step' = "write"
          /\ UNCHANGED faults
       \/ /\ Fails(Verified, "ReadFile")
          /\ step' = "cleanup"
          /\ UNCHANGED pending
    /\ UNCHANGED << offered, enabled, request, current, dir >>

\* Mutant: a directory that cannot be opened is left.
OpenDirectoryLeaking ==
    /\ step = "write" /\ pending = {}
    /\ \/ step' = "ready" /\ UNCHANGED faults
       \/ step' = "refused" /\ Fault("Open")
    /\ UNCHANGED << offered, enabled, request, pending, current, dir >>

OpenDirectory ==
    /\ step = "write" /\ pending = {}
    /\ \/ step' = "ready" /\ UNCHANGED faults
       \/ step' = "cleanup" /\ Fault("Open")
    /\ UNCHANGED << offered, enabled, request, pending, current, dir >>

\* The error of the removal is ignored.
Cleanup ==
    /\ step = "cleanup"
    /\ step' = "refused"
    /\ \/ dir' = Absent /\ UNCHANGED faults
       \/ UNCHANGED dir /\ Fault("Remove")
    /\ UNCHANGED << offered, enabled, request, pending, current >>

CreateCgroup ==
    \/ MakeDirectory
    \/ \E file \in Controllers : WriteLimit(file)
    \/ VerifyLimit \/ OpenDirectory \/ Cleanup

Init ==
    /\ step = "enableRoot"
    /\ offered \in SUBSET (Controllers \cup {"io"})
    /\ enabled = [cgroup \in {"root", "kernlet"} |-> {}]
    /\ request \in Requests
    /\ pending = {}
    /\ current = "none"
    /\ dir = Absent
    /\ faults = {}

Next ==
    \/ SetupCgroups
    \/ ValidateLimits
    \/ CreateCgroup

Spec == Init /\ [][Next]_vars

-----------------------------------------------------------------------------
Steps ==
    {"enableRoot", "mkdirKernlet", "enableKernlet", "panicked", "idle", "mkdir",
     "write", "verify", "cleanup", "ready", "refused"}

\* Every variable has its type; what the workload's directory holds is a limit
\* asked for, that limit in whole pages, or no limit.
TypeOK ==
    /\ step \in Steps
    /\ offered \subseteq Controllers \cup {"io"}
    /\ enabled \in [{"root", "kernlet"} -> {{}, Controllers}]
    /\ request \in Requests
    /\ pending \subseteq Controllers
    /\ current \in Controllers \cup {"none"}
    /\ dir # Absent => DOMAIN dir = Controllers
    /\ \A file \in DOMAIN dir : dir[file] \in {Unlimited[file], Kept(request, file)}

\* What the kernel can keep exactly as it is written.
Representable(l) ==
    /\ l.memory % PageSize = 0 /\ l.memory < MaxMemory
    /\ \A file \in Controllers : Takes(l, file)

\* A directory is handed to the child only with every limit in force exactly as
\* it was asked for, in whatever order they were written: none is missing, none
\* has been rounded, none has turned into "no limit" (run_linux.go:365-417).
LimitsInForce ==
    step = "ready" =>
        /\ DOMAIN dir = Controllers
        /\ \A file \in Controllers : dir[file] = Wanted(request)[file]

\* A run that is refused leaves no directory, unless the removal itself failed.
NoDirectoryLeft == step = "refused" /\ dir # Absent => "Remove" \in faults

\* How far the workload's directory has come.
DirStatus ==
    CASE step = "ready" -> "held"
      [] step = "refused" -> "refused"
      [] OTHER -> "asked"

Contract == INSTANCE DirectoryContract WITH
    Directories <- {"workload"},
    status <- [d \in {"workload"} |-> DirStatus],
    existing <- {d \in {"workload"} : dir # Absent /\ DirStatus # "asked"},
    stuck <- {d \in {"workload"} : "Remove" \in faults}

\* createCgroup keeps the contract of a directory: one that is complete, or an error
\* and none, unless the removal failed (run_linux.go:365-395).
KeepsContract == Contract!Spec

\* Nothing is refused without a reason: a fault, controllers that the kernel does
\* not offer, a limit of zero, or a limit that the kernel cannot keep as it is,
\* among them a number of bytes that is no number of pages (run_linux.go:419-437).
RefusalHasCause ==
    faults = {} =>
        /\ step = "panicked" => ~(Controllers \subseteq offered)
        /\ step \in {"cleanup", "refused"} =>
              ~(Representable(request) /\ request.memory > 0 /\ request.pids > 0)
=============================================================================
