------------------------------ MODULE InitSandbox ------------------------------
(***************************************************************************)
(* InitProcess (internal/runtime/run_linux.go) after its network: how the  *)
(* first process of a workload's namespaces enters the image's root and    *)
(* gives up the agent's privileges before it executes the workload.        *)
(*                                                                         *)
(* Credentials belong to threads.  Prctl and Capset change the thread that *)
(* calls them; Setgroups, Setresgid and Setresuid of package syscall       *)
(* change every thread of the process.  The Go scheduler may move a        *)
(* goroutine to another thread between two calls unless it is locked.      *)
(***************************************************************************)
EXTENDS Integers

CONSTANTS
    Threads,    \* the threads of the Go process
    LastCap,    \* what /proc/sys/kernel/cap_last_cap contains
    SetGid,     \* CAP_SETGID
    SetUid,     \* CAP_SETUID
    SetPcap,    \* CAP_SETPCAP
    SysAdmin    \* CAP_SYS_ADMIN

Caps == 0 .. LastCap

ASSUME CapsAssumption ==
    LastCap \in Nat /\ {SetGid, SetUid, SetPcap, SysAdmin} \subseteq Caps

VARIABLES
    place,        \* the next call of InitProcess
    thread,       \* the thread that executes the goroutine
    locked,       \* LockOSThread has been called
    noNewPrivs,   \* threads with the no_new_privs bit
    bounding,     \* the capability bounding set of each thread
    permitted,    \* the permitted and effective set of each thread
    inheriting,   \* threads whose inheritable set is not empty
    groups,       \* threads with the agent's supplementary groups
    agentGid,     \* threads with the agent's group identity
    agentUid,     \* threads with the agent's user identity, 0
    nextCap,      \* the loop variable of dropCapabilityBoundingSet
    mounts,       \* facts about the mount namespace of the process
    guestMounts,  \* mounts of this process that the guest sees
    oldRootDir,   \* who made the directory .oldroot of the image's root
    cwd,          \* the directory the process stands in
    noChange,     \* "uid" and "gid", if the image names 2^32 - 1 for it
    blameless     \* history: no call has failed without a cause in the model

credVars == << noNewPrivs, bounding, permitted, inheriting, groups, agentGid, agentUid >>
fsVars == << mounts, guestMounts, oldRootDir, cwd >>
vars == << place, thread, locked, credVars, nextCap, fsVars, noChange, blameless >>

\* The calls in the order of the code, and the two ends.
Places ==
    {"lock", "sethostname", "private", "bind", "mkdirOldRoot", "pivotRoot",
     "chdirRoot", "detachOldRoot", "removeOldRoot", "mountProc", "chdirWork",
     "noNewPrivs", "readLastCap", "dropBounding", "setgroups", "setresgid",
     "setresuid", "capset", "exec", "workload", "failed"}

\* "shared": mounts propagate to the guest, as the namespace inherits them.
\* "bind": the image's root is a mount point.  "pivoted": it is the root.
\* "oldRoot": the guest's root is attached beneath it.  "proc": a /proc of the
\* process's own PID namespace is mounted.
MountFacts == {"shared", "bind", "pivoted", "oldRoot", "proc"}

Has(cap) == cap \in permitted[thread]

\* What the kernel demands of the call at each place.
Allowed ==
    /\ place \in {"sethostname", "private", "bind", "pivotRoot",
                  "detachOldRoot", "mountProc"} => Has(SysAdmin)
    /\ place = "mkdirOldRoot" => oldRootDir = "absent"
    /\ place = "pivotRoot" => "bind" \in mounts /\ "shared" \notin mounts
    /\ place = "removeOldRoot" => "oldRoot" \notin mounts
    /\ place = "readLastCap" => "proc" \in mounts
    /\ place = "dropBounding" /\ nextCap <= LastCap => Has(SetPcap)
    /\ place \in {"setgroups", "setresgid"} => Has(SetGid)
    /\ place = "setresuid" => Has(SetUid)

\* The call at place p succeeds and the call at place q is next.
Step(p, q) ==
    /\ place = p
    /\ Allowed
    /\ place' = q
    /\ UNCHANGED << thread, noChange, blameless >>

\* Such a call changes nothing that the model knows.
NoEffect == UNCHANGED << locked, credVars, nextCap, fsVars >>

\* Such a call changes only mounts and directories, or only credentials.
FsOnly == UNCHANGED << locked, credVars, nextCap >>

CredOnly == UNCHANGED << locked, nextCap, fsVars >>

-----------------------------------------------------------------------------
\* Mutant: the goroutine is not locked to its thread.
LockOSThreadForgotten == Step("lock", "sethostname") /\ NoEffect

LockOSThread ==
    /\ Step("lock", "sethostname")
    /\ locked' = TRUE
    /\ UNCHANGED << credVars, nextCap, fsVars >>

\* The Go scheduler continues the goroutine on another thread.
Migrate ==
    /\ ~locked
    /\ place \notin {"workload", "failed"}
    /\ \E t \in Threads \ {thread} : thread' = t
    /\ NoEffect
    /\ UNCHANGED << place, noChange, blameless >>

Sethostname == Step("sethostname", "private") /\ NoEffect

\* Mutant: the mounts stay shared with the guest.
MakePrivateForgotten == Step("private", "bind") /\ NoEffect

MakePrivate ==
    /\ Step("private", "bind")
    /\ mounts' = mounts \ {"shared"}
    /\ FsOnly
    /\ UNCHANGED << guestMounts, oldRootDir, cwd >>

\* A mount made beneath a shared mount appears in the guest as well.
Attach(m) ==
    /\ mounts' = mounts \cup {m}
    /\ guestMounts' = IF "shared" \in mounts THEN guestMounts \cup {m} ELSE guestMounts

BindRootfs ==
    /\ Step("bind", "mkdirOldRoot")
    /\ Attach("bind")
    /\ FsOnly
    /\ UNCHANGED << oldRootDir, cwd >>

MkdirOldRoot ==
    /\ Step("mkdirOldRoot", "pivotRoot")
    /\ oldRootDir' = "init"
    /\ FsOnly
    /\ UNCHANGED << mounts, guestMounts, cwd >>

PivotRoot ==
    /\ Step("pivotRoot", "chdirRoot")
    /\ mounts' = mounts \cup {"pivoted", "oldRoot"}
    /\ FsOnly
    /\ UNCHANGED << guestMounts, oldRootDir, cwd >>

ChdirRoot ==
    /\ Step("chdirRoot", "detachOldRoot")
    /\ cwd' = "newRoot"
    /\ FsOnly
    /\ UNCHANGED << mounts, guestMounts, oldRootDir >>

DetachOldRoot ==
    /\ Step("detachOldRoot", "removeOldRoot")
    /\ mounts' = mounts \ {"oldRoot"}
    /\ FsOnly
    /\ UNCHANGED << guestMounts, oldRootDir, cwd >>

RemoveOldRoot ==
    /\ Step("removeOldRoot", "mountProc")
    /\ oldRootDir' = "absent"
    /\ FsOnly
    /\ UNCHANGED << mounts, guestMounts, cwd >>

MountProc ==
    /\ Step("mountProc", "chdirWork")
    /\ Attach("proc")
    /\ FsOnly
    /\ UNCHANGED << oldRootDir, cwd >>

\* os.Chdir to the image's working directory, then exec.LookPath.
ChdirWork ==
    /\ Step("chdirWork", "noNewPrivs")
    /\ cwd' = "workingDirectory"
    /\ FsOnly
    /\ UNCHANGED << mounts, guestMounts, oldRootDir >>

SetNoNewPrivs ==
    /\ Step("noNewPrivs", "readLastCap")
    /\ noNewPrivs' = noNewPrivs \cup {thread}
    /\ CredOnly
    /\ UNCHANGED << bounding, permitted, inheriting, groups, agentGid, agentUid >>

ReadLastCap ==
    /\ Step("readLastCap", "dropBounding")
    /\ nextCap' = 0
    /\ UNCHANGED << locked, credVars, fsVars >>

LoopEnds == nextCap > LastCap

\* One turn of the loop, or its end.
DropBounding ==
    /\ \/ /\ ~LoopEnds
          /\ Step("dropBounding", "dropBounding")
          /\ bounding' = [bounding EXCEPT ![thread] = @ \ {nextCap}]
          /\ nextCap' = nextCap + 1
       \/ /\ LoopEnds
          /\ Step("dropBounding", "setgroups")
          /\ UNCHANGED << bounding, nextCap >>
    /\ UNCHANGED << locked, noNewPrivs, permitted, inheriting, groups, agentGid,
                    agentUid, fsVars >>

Setgroups ==
    /\ Step("setgroups", "setresgid")
    /\ groups' = {}
    /\ CredOnly
    /\ UNCHANGED << noNewPrivs, bounding, permitted, inheriting, agentGid, agentUid >>

\* Mutant: the user is changed where the code changes the group.
SetresgidSwapped ==
    /\ Step("setresgid", "setresuid")
    /\ agentUid' = {}
    /\ permitted' = [t \in Threads |-> {}]
    /\ CredOnly
    /\ UNCHANGED << noNewPrivs, bounding, inheriting, groups, agentGid >>

\* The kernel takes 2^32 - 1 for "leave this identity as it is".
Setresgid ==
    /\ Step("setresgid", "setresuid")
    /\ agentGid' = IF "gid" \in noChange THEN agentGid ELSE {}
    /\ CredOnly
    /\ UNCHANGED << noNewPrivs, bounding, permitted, inheriting, groups, agentUid >>

\* The kernel clears the permitted and effective sets of a thread that leaves
\* user 0; the inheritable set remains.
Setresuid ==
    /\ Step("setresuid", "capset")
    /\ \/ /\ "uid" \notin noChange
          /\ agentUid' = {}
          /\ permitted' = [t \in Threads |-> {}]
       \/ /\ "uid" \in noChange
          /\ UNCHANGED << agentUid, permitted >>
    /\ CredOnly
    /\ UNCHANGED << noNewPrivs, bounding, inheriting, groups, agentGid >>

ClearCapabilities ==
    /\ Step("capset", "exec")
    /\ permitted' = [permitted EXCEPT ![thread] = {}]
    /\ inheriting' = inheriting \ {thread}
    /\ CredOnly
    /\ UNCHANGED << noNewPrivs, bounding, groups, agentGid, agentUid >>

\* The workload inherits the credentials of the calling thread; the other
\* threads end.
Exec == Step("exec", "workload") /\ NoEffect

\* A call that the kernel does not allow fails; any other call may fail for a
\* reason outside the model.  InitProcess returns the error and the process
\* exits, and with it its namespaces.
CallFails ==
    /\ place \notin {"lock", "workload", "failed"}
    /\ place' = "failed"
    /\ blameless' = (blameless /\ ~Allowed)
    /\ NoEffect
    /\ UNCHANGED << thread, noChange >>

-----------------------------------------------------------------------------
Init ==
    /\ place = "lock"
    /\ thread \in Threads
    /\ locked = FALSE
    /\ noNewPrivs = {}
    /\ bounding = [t \in Threads |-> Caps]
    /\ permitted = [t \in Threads |-> Caps]
    /\ inheriting \in {{}, Threads}
    /\ groups = Threads
    /\ agentGid = Threads
    /\ agentUid = Threads
    /\ nextCap = 0
    /\ mounts \in {{}, {"shared"}}  \* as the guest's own mounts are
    /\ guestMounts = {}
    /\ oldRootDir \in {"absent", "image"}
    /\ cwd = "agent"
    /\ noChange \in SUBSET {"uid", "gid"}
    /\ blameless = TRUE

Ended == place \in {"workload", "failed"} /\ UNCHANGED vars

Next ==
    \/ LockOSThread \/ Migrate
    \/ Sethostname \/ MakePrivate \/ BindRootfs \/ MkdirOldRoot \/ PivotRoot
    \/ ChdirRoot \/ DetachOldRoot \/ RemoveOldRoot \/ MountProc \/ ChdirWork
    \/ SetNoNewPrivs \/ ReadLastCap \/ DropBounding
    \/ Setgroups \/ Setresgid \/ Setresuid \/ ClearCapabilities \/ Exec
    \/ CallFails
    \/ Ended

Spec == Init /\ [][Next]_vars

-----------------------------------------------------------------------------
\* Every variable has its type.
TypeOK ==
    /\ place \in Places
    /\ thread \in Threads
    /\ {noNewPrivs, inheriting, groups, agentGid, agentUid} \subseteq SUBSET Threads
    /\ bounding \in [Threads -> SUBSET Caps]
    /\ permitted \in [Threads -> SUBSET Caps]
    /\ nextCap \in 0 .. LastCap + 1
    /\ mounts \subseteq MountFacts
    /\ guestMounts \subseteq MountFacts
    /\ oldRootDir \in {"absent", "image", "init"}
    /\ cwd \in {"agent", "newRoot", "workingDirectory"}
    /\ locked \in BOOLEAN
    /\ noChange \subseteq {"uid", "gid"}
    /\ blameless \in BOOLEAN

\* The thread that executes the workload has none of the agent's privileges:
\* whichever thread the goroutine started on, every call of the sequence at
\* run_linux.go:307-329 has reached the thread that makes the last one.  Only an
\* identity that the image names as 2^32 - 1 remains the agent's.
WorkloadUnprivileged ==
    place = "workload" =>
        /\ thread \in noNewPrivs
        /\ bounding[thread] = {} /\ permitted[thread] = {}
        /\ thread \notin inheriting \cup groups
        /\ thread \in agentGid => "gid" \in noChange
        /\ thread \in agentUid => "uid" \in noChange

\* The workload has an identity other than root's, whatever identity Prepare has
\* let through (README.md:231).
WorkloadIsNotRoot == place = "workload" => thread \notin agentGid \cup agentUid

\* The workload starts in the image: its root and working directory are the
\* image's, the guest's root is out of reach and leaves no directory behind,
\* and /proc is its own (run_linux.go:264-300).
WorkloadConfined ==
    place = "workload" =>
        /\ mounts = {"bind", "pivoted", "proc"}
        /\ oldRootDir = "absent"
        /\ cwd = "workingDirectory"

\* At no time, and after no failure, does the guest see a mount of the sandbox;
\* the agent's RemoveAll of the image's root (image.go:244) therefore never
\* descends into another file system.
GuestMountsUntouched == guestMounts = {}

\* Neither side reaches the other's mounts: the workload starts in a root of its
\* own, and nothing that was mounted for it is ever seen by the guest.
MountsSeparate == WorkloadConfined /\ GuestMountsUntouched

\* The calls stand in an order that works: none fails because an earlier one has
\* taken away what it needs, except that an image with an /.oldroot of its own
\* is refused (run_linux.go:274).
OrderWorks == place = "failed" /\ blameless => oldRootDir = "image"
=============================================================================
