------------------------------ MODULE WorkloadRun ------------------------------
(***************************************************************************)
(* Calls of runtime.Run (internal/runtime/run_linux.go) with everything    *)
(* they share: the network sequence, the guest kernel's veth pairs and     *)
(* cgroups, and for each call the child that executes InitProcess and then *)
(* the workload.                                                           *)
(*                                                                         *)
(* A run is one call of Run.  Its caller's goroutine is described by pc,   *)
(* its child process by child.  The steps of InitProcess that touch        *)
(* neither the parent nor the guest's network are one step here            *)
(* (ExecWorkload).  A veth pair is identified by the run that created it,  *)
(* as the kernel identifies it by an interface index; its name is slot.    *)
(***************************************************************************)
EXTENDS AddressPlan, FiniteSets

CONSTANTS
    Runs,         \* the calls of Run
    Guest,        \* the guest agent's own network namespace
    MaxNetworks,  \* maxWorkloadNetworks, 16384 in the code
    SeqModulus,   \* 2^32, the range of networkSequence
    MaxFaults     \* bound on the system calls that fail without a cause

ASSUME GuestAssumption == Guest \notin Runs

ASSUME NetworkAssumption ==
    /\ MaxNetworks \in Nat \ {0}
    /\ SeqModulus \in Nat
    /\ MaxNetworks <= MaxWorkloadNetworks
    /\ MaxNetworks < SeqModulus

ASSUME FaultAssumption == MaxFaults \in Nat

VARIABLES
    pc,               \* where the goroutine that called Run stands
    failures,         \* the errors Run has collected for its caller
    networkSequence,  \* the package variable that numbers networks
    wrapped,          \* history: networkSequence has gone past 2^32 - 1
    slot,             \* the network slot a run has drawn
    cgroups,          \* runs whose workload cgroup exists
    links,            \* runs whose veth pair exists
    peerNs,           \* the namespace that holds the workload end of a pair
    configured,       \* pairs whose workload end is addressed, up and routed
    found,            \* the interface removeGuestNetwork has looked up
    child,            \* the child process of a run
    netns,            \* runs whose private network namespace exists
    writerOpen,       \* runs whose readyWriter is open in the agent
    signalled,        \* runs whose readiness byte has been written
    faults            \* history: the calls that failed without a cause

hostVars == << pc, failures >>
netVars == << networkSequence, wrapped, slot >>
linkVars == << links, peerNs, configured, found >>
procVars == << child, netns >>
pipeVars == << writerOpen, signalled >>

vars == << hostVars, netVars, cgroups, linkVars, procVars, pipeVars, faults >>

NoSlot == -1

\* A child that has not exited.  In "starting" it checks its arguments, in
\* "waiting" it blocks on the readiness pipe, in "networking" it configures
\* its network, in "isolating" it sets up the sandbox, in "running" the
\* workload has replaced it.
Live == {"starting", "waiting", "networking", "isolating", "running"}

\* "exited": the workload ran and ended with status 0.  "failed": any other
\* end, by an error of InitProcess, a nonzero status or a signal.
Dead == {"exited", "failed"}

\* The places where Run may stand, in the order of the code.
Locations ==
    {"idle", "createCgroup", "allocate", "linkAdd", "linkUp", "start", "move",
     "signal", "closeWriter", "wait", "findLink", "deleteLink",
     "removeCgroup", "returned"}

Errors ==
    {"config", "cgroup", "network", "start", "move", "signal", "close",
     "workload", "networkCleanup", "cgroupCleanup"}

\* The netlink calls by which the agent removes a veth pair.
RemovalCalls == {"cleanup", "LinkByName", "LinkDel"}

Calls ==
    RemovalCalls \cup
    {"linkAdd", "linkUp", "start", "move", "signal", "close", "closeCgroup", "rmdir"}

Goto(r, location) == pc' = [pc EXCEPT ![r] = location]

Fail(r, error) == failures' = [failures EXCEPT ![r] = @ \cup {error}]

\* Call c of run r fails although the state of the system gives no cause.
Fault(r, c) ==
    /\ Cardinality(faults) < MaxFaults
    /\ faults' = faults \cup {<< r, c >>}

\* The veth pairs whose guest end has the name that slot s gives.
LinksNamed(s) == {o \in links : slot[o] = s}

\* The pairs whose workload end has that name and is in namespace ns.
PeersNamed(s, ns) == {o \in LinksNamed(s) : peerNs[o] = ns}

\* The veth pairs in gone disappear, with what was configured on them.
DestroyLinks(gone) ==
    /\ links' = links \ gone
    /\ peerNs' = [o \in Runs |-> IF o \in gone THEN Guest ELSE peerNs[o]]
    /\ configured' = configured \ gone

-----------------------------------------------------------------------------
(* Run, up to the start of the child.                                      *)

\* Run accepts its configuration.
Call(r) ==
    /\ pc[r] = "idle"
    /\ Goto(r, "createCgroup")
    /\ UNCHANGED << failures, netVars, cgroups, linkVars, procVars, pipeVars, faults >>

\* Run rejects the command, hostname, rootfs, identity, directory or limits.
RejectConfig(r) ==
    /\ pc[r] = "idle"
    /\ Goto(r, "returned")
    /\ Fail(r, "config")
    /\ UNCHANGED << netVars, cgroups, linkVars, procVars, pipeVars, faults >>

CreateCgroup(r) ==
    /\ pc[r] = "createCgroup"
    /\ cgroups' = cgroups \cup {r}
    /\ Goto(r, "allocate")
    /\ UNCHANGED << failures, netVars, linkVars, procVars, pipeVars, faults >>

\* The directory cannot be made or opened, or the kernel does not take a limit
\* as it was written; createCgroup removes the empty directory itself, and an
\* error of the removal is ignored.
CreateCgroupFails(r) ==
    /\ pc[r] = "createCgroup"
    /\ \/ UNCHANGED << cgroups, faults >>
       \/ cgroups' = cgroups \cup {r} /\ Fault(r, "rmdir")
    /\ Goto(r, "returned")
    /\ Fail(r, "cgroup")
    /\ UNCHANGED << netVars, linkVars, procVars, pipeVars >>

\* Mutants: slots are taken again from the start; every second slot is lost.
NextSequenceRecycled(sequence) == (sequence + 1) % MaxNetworks

NextSequenceSkipping(sequence) == (sequence + 2) % SeqModulus

\* networkSequence.Add(1) on an atomic.Uint32.
NextSequence(sequence) == (sequence + 1) % SeqModulus

IsSlot(sequence) == sequence < MaxNetworks

AllocateWorkloadNetwork(r) ==
    /\ pc[r] = "allocate"
    /\ networkSequence' = NextSequence(networkSequence)
    /\ wrapped' = (wrapped \/ networkSequence = SeqModulus - 1)
    /\ \/ /\ IsSlot(networkSequence)
          /\ slot' = [slot EXCEPT ![r] = networkSequence]
          /\ Goto(r, "linkAdd")
          /\ UNCHANGED failures
       \/ /\ ~IsSlot(networkSequence)
          /\ Goto(r, "removeCgroup")
          /\ Fail(r, "network")
          /\ UNCHANGED slot
    /\ UNCHANGED << cgroups, linkVars, procVars, pipeVars, faults >>

\* netlink.LinkAdd: the kernel refuses a name that is in use.
LinkAdd(r) ==
    /\ pc[r] = "linkAdd"
    /\ LinksNamed(slot[r]) = {}
    /\ links' = links \cup {r}
    /\ Goto(r, "linkUp")
    /\ UNCHANGED << failures, netVars, cgroups, peerNs, configured, found,
                    procVars, pipeVars, faults >>

\* createGuestNetwork returns without its cleanup: it has created nothing.
LinkAddFails(r) ==
    /\ pc[r] = "linkAdd"
    /\ \/ LinksNamed(slot[r]) # {} /\ UNCHANGED faults
       \/ Fault(r, "linkAdd")
    /\ Goto(r, "removeCgroup")
    /\ Fail(r, "network")
    /\ UNCHANGED << netVars, cgroups, linkVars, procVars, pipeVars >>

LinkUp(r) ==
    /\ pc[r] = "linkUp"
    /\ LinksNamed(slot[r]) # {}
    /\ Goto(r, "start")
    /\ UNCHANGED << failures, netVars, cgroups, linkVars, procVars, pipeVars, faults >>

\* LinkByName, AddrAdd or LinkSetUp fails and the cleanup closure deletes the
\* pair by name; a failure of the cleanup itself is ignored.
LinkUpFails(r) ==
    /\ pc[r] = "linkUp"
    /\ \/ LinksNamed(slot[r]) = {} /\ UNCHANGED faults
       \/ Fault(r, "linkUp")
    /\ DestroyLinks(LinksNamed(slot[r]))
    /\ Goto(r, "removeCgroup")
    /\ Fail(r, "network")
    /\ UNCHANGED << netVars, cgroups, found, procVars, pipeVars >>

LinkUpAndCleanupFail(r) ==
    /\ pc[r] = "linkUp"
    /\ Fault(r, "cleanup")
    /\ Goto(r, "removeCgroup")
    /\ Fail(r, "network")
    /\ UNCHANGED << netVars, cgroups, linkVars, procVars, pipeVars >>

\* os.Pipe and cmd.Start: the child is created in its cgroup and in new
\* namespaces, with the read end; Start returns once it has executed
\* /proc/self/exe, which closes its copy of the write end.
StartChild(r) ==
    /\ pc[r] = "start"
    /\ child' = [child EXCEPT ![r] = "starting"]
    /\ netns' = netns \cup {r}
    /\ writerOpen' = writerOpen \cup {r}
    /\ Goto(r, "move")
    /\ UNCHANGED << failures, netVars, cgroups, linkVars, signalled, faults >>

\* Mutant: the removal of the pair is deferred only after Start.
StartChildFailsLeaking(r) ==
    /\ pc[r] = "start"
    /\ Fault(r, "start")
    /\ Goto(r, "removeCgroup")
    /\ Fail(r, "start")
    /\ UNCHANGED << netVars, cgroups, linkVars, procVars, pipeVars >>

StartChildFails(r) ==
    /\ pc[r] = "start"
    /\ Fault(r, "start")
    /\ Goto(r, "findLink")
    /\ Fail(r, "start")
    /\ UNCHANGED << netVars, cgroups, linkVars, procVars, pipeVars >>

-----------------------------------------------------------------------------
(* Run, from the start of the child to its end.                            *)

\* moveNetworkToProcess: the peer must be in the guest, the process alive.
CanMove(r) == PeersNamed(slot[r], Guest) # {} /\ child[r] \in Live

MoveNetworkToProcess(r) ==
    /\ pc[r] = "move"
    /\ CanMove(r)
    /\ peerNs' = [o \in Runs |->
                     IF o \in PeersNamed(slot[r], Guest) THEN r ELSE peerNs[o]]
    /\ Goto(r, "signal")
    /\ UNCHANGED << failures, netVars, cgroups, links, configured, found,
                    procVars, pipeVars, faults >>

\* Mutant: Run waits for the child with the pipe still open.
CloseUnsignalledLate(r) == UNCHANGED pipeVars

\* Run gives the child up: it closes the pipe without writing to it.
CloseUnsignalled(r) == writerOpen' = writerOpen \ {r} /\ UNCHANGED signalled

MoveNetworkFails(r) ==
    /\ pc[r] = "move"
    /\ \/ ~CanMove(r) /\ UNCHANGED faults
       \/ Fault(r, "move")
    /\ CloseUnsignalled(r)
    /\ Goto(r, "wait")
    /\ Fail(r, "move")
    /\ UNCHANGED << netVars, cgroups, linkVars, procVars >>

\* The write succeeds as long as the child holds the read end.
SignalReady(r) ==
    /\ pc[r] = "signal"
    /\ child[r] \in Live
    /\ signalled' = signalled \cup {r}
    /\ Goto(r, "closeWriter")
    /\ UNCHANGED << failures, netVars, cgroups, linkVars, procVars, writerOpen, faults >>

SignalReadyFails(r) ==
    /\ pc[r] = "signal"
    /\ \/ child[r] \in Dead /\ UNCHANGED faults
       \/ Fault(r, "signal")
    /\ CloseUnsignalled(r)
    /\ Goto(r, "wait")
    /\ Fail(r, "signal")
    /\ UNCHANGED << netVars, cgroups, linkVars, procVars >>

\* An error of Close is reported, but the descriptor is gone all the same.
CloseWriter(r) ==
    /\ pc[r] = "closeWriter"
    /\ writerOpen' = writerOpen \ {r}
    /\ Goto(r, "wait")
    /\ \/ UNCHANGED << failures, faults >>
       \/ Fail(r, "close") /\ Fault(r, "close")
    /\ UNCHANGED << netVars, cgroups, linkVars, procVars, signalled >>

\* Mutant: the status of the workload is ignored.
WaitChildIgnoringStatus(r) ==
    /\ pc[r] = "wait"
    /\ child[r] \in Dead
    /\ Goto(r, "findLink")
    /\ UNCHANGED << failures, netVars, cgroups, linkVars, procVars, pipeVars, faults >>

\* cmd.Wait; when Run already has an error to return it ignores the status.
WaitChild(r) ==
    /\ pc[r] = "wait"
    /\ child[r] \in Dead
    /\ failures' = [failures EXCEPT ![r] =
                       IF @ = {} /\ child[r] = "failed" THEN {"workload"} ELSE @]
    /\ Goto(r, "findLink")
    /\ UNCHANGED << netVars, cgroups, linkVars, procVars, pipeVars, faults >>

-----------------------------------------------------------------------------
(* The deferred cleanup of Run: removeGuestNetwork, closeAndRemoveCgroup.  *)

\* LinkByName answers with an interface, which LinkDel will use.
FindGuestLink(r) ==
    /\ pc[r] = "findLink"
    /\ \E o \in LinksNamed(slot[r]) : found' = [found EXCEPT ![r] = {o}]
    /\ Goto(r, "deleteLink")
    /\ UNCHANGED << failures, netVars, cgroups, links, peerNs, configured,
                    procVars, pipeVars, faults >>

\* Every error of LinkByName is taken to mean that the kernel has removed the
\* pair already.
GuestLinkNotFound(r) ==
    /\ pc[r] = "findLink"
    /\ \/ LinksNamed(slot[r]) = {} /\ UNCHANGED faults
       \/ LinksNamed(slot[r]) # {} /\ Fault(r, "LinkByName")
    /\ Goto(r, "removeCgroup")
    /\ UNCHANGED << failures, netVars, cgroups, linkVars, procVars, pipeVars >>

\* LinkDel addresses the interface by the index that LinkByName returned.
DeleteGuestLink(r) ==
    /\ pc[r] = "deleteLink"
    /\ found[r] \subseteq links
    /\ DestroyLinks(found[r])
    /\ Goto(r, "removeCgroup")
    /\ UNCHANGED << failures, netVars, cgroups, found, procVars, pipeVars, faults >>

DeleteGuestLinkFails(r) ==
    /\ pc[r] = "deleteLink"
    /\ \/ ~(found[r] \subseteq links) /\ UNCHANGED faults
       \/ Fault(r, "LinkDel")
    /\ Goto(r, "removeCgroup")
    /\ Fail(r, "networkCleanup")
    /\ UNCHANGED << netVars, cgroups, linkVars, procVars, pipeVars >>

\* The descriptor is closed and the directory removed, which the kernel does unless
\* a process lives in it; an error of either is the error of the cleanup, and the
\* directory is removed even if the descriptor cannot be closed.
RemoveCgroup(r) ==
    /\ pc[r] = "removeCgroup"
    /\ \/ /\ child[r] \notin Live
          /\ cgroups' = cgroups \ {r}
          /\ \/ UNCHANGED << failures, faults >>
             \/ Fault(r, "closeCgroup") /\ Fail(r, "cgroupCleanup")
       \/ /\ \/ child[r] \in Live /\ UNCHANGED faults
             \/ Fault(r, "rmdir")
          /\ Fail(r, "cgroupCleanup")
          /\ UNCHANGED cgroups
    /\ Goto(r, "returned")
    /\ UNCHANGED << netVars, linkVars, procVars, pipeVars >>

-----------------------------------------------------------------------------
(* The child, and the kernel.                                              *)

Become(r, state) == child' = [child EXCEPT ![r] = state]

\* InitProcess accepts its arguments.
CheckArguments(r) ==
    /\ child[r] = "starting"
    /\ Become(r, "waiting")
    /\ UNCHANGED << hostVars, netVars, cgroups, linkVars, netns, pipeVars, faults >>

\* Mutant: the end of the pipe counts as the signal.
WaitForNetworkOrEnd(r) ==
    /\ child[r] = "waiting"
    /\ r \in signalled \/ r \notin writerOpen
    /\ Become(r, "networking")
    /\ UNCHANGED << hostVars, netVars, cgroups, linkVars, netns, pipeVars, faults >>

\* waitForNetwork reads the byte, or the end of the pipe.
WaitForNetwork(r) ==
    /\ child[r] = "waiting"
    /\ \/ r \in signalled /\ Become(r, "networking")
       \/ r \notin signalled /\ r \notin writerOpen /\ Become(r, "failed")
    /\ UNCHANGED << hostVars, netVars, cgroups, linkVars, netns, pipeVars, faults >>

\* configureWorkloadNetwork fails when the interface is not in the namespace.
ConfigureWorkloadNetwork(r) ==
    /\ child[r] = "networking"
    /\ configured' = configured \cup PeersNamed(slot[r], r)
    /\ \/ PeersNamed(slot[r], r) # {} /\ Become(r, "isolating")
       \/ PeersNamed(slot[r], r) = {} /\ Become(r, "failed")
    /\ UNCHANGED << hostVars, netVars, cgroups, links, peerNs, found, netns,
                    pipeVars, faults >>

\* From sethostname to exec: the workload replaces InitProcess.
ExecWorkload(r) ==
    /\ child[r] = "isolating"
    /\ Become(r, "running")
    /\ UNCHANGED << hostVars, netVars, cgroups, linkVars, netns, pipeVars, faults >>

WorkloadExits(r) ==
    /\ child[r] = "running"
    /\ Become(r, "exited")
    /\ UNCHANGED << hostVars, netVars, cgroups, linkVars, netns, pipeVars, faults >>

\* InitProcess returns an error, the workload ends with another status than 0,
\* or the kernel kills the process, which may happen at its memory limit.
ChildFails(r) ==
    /\ child[r] \in Live
    /\ Become(r, "failed")
    /\ UNCHANGED << hostVars, netVars, cgroups, linkVars, netns, pipeVars, faults >>

\* Some time after its last process the kernel tears a namespace down, and
\* with it the pairs that have an end in it.
DestroyNamespace(r) ==
    /\ r \in netns
    /\ child[r] \in Dead
    /\ netns' = netns \ {r}
    /\ DestroyLinks({o \in links : peerNs[o] = r})
    /\ UNCHANGED << hostVars, netVars, cgroups, found, child, pipeVars, faults >>

-----------------------------------------------------------------------------
Init ==
    /\ pc = [r \in Runs |-> "idle"]
    /\ failures = [r \in Runs |-> {}]
    /\ networkSequence = 0
    /\ wrapped = FALSE
    /\ slot = [r \in Runs |-> NoSlot]
    /\ cgroups = {}
    /\ links = {}
    /\ peerNs = [r \in Runs |-> Guest]
    /\ configured = {}
    /\ found = [r \in Runs |-> {}]
    /\ child = [r \in Runs |-> "none"]
    /\ netns = {}
    /\ writerOpen = {}
    /\ signalled = {}
    /\ faults = {}

\* What the goroutine does once it has been called.
RunStep(r) ==
    \/ CreateCgroup(r) \/ CreateCgroupFails(r)
    \/ AllocateWorkloadNetwork(r)
    \/ LinkAdd(r) \/ LinkAddFails(r)
    \/ LinkUp(r) \/ LinkUpFails(r) \/ LinkUpAndCleanupFail(r)
    \/ StartChild(r) \/ StartChildFails(r)
    \/ MoveNetworkToProcess(r) \/ MoveNetworkFails(r)
    \/ SignalReady(r) \/ SignalReadyFails(r)
    \/ CloseWriter(r)
    \/ WaitChild(r)
    \/ FindGuestLink(r) \/ GuestLinkNotFound(r)
    \/ DeleteGuestLink(r) \/ DeleteGuestLinkFails(r)
    \/ RemoveCgroup(r)

\* What the child does when nothing goes wrong, a one-shot workload included.
ChildStep(r) ==
    \/ CheckArguments(r)
    \/ WaitForNetwork(r)
    \/ ConfigureWorkloadNetwork(r)
    \/ ExecWorkload(r)
    \/ WorkloadExits(r)

\* Every call has returned and the kernel has cleaned up behind it.
AllReturned ==
    /\ \A r \in Runs : pc[r] = "returned"
    /\ netns = {}
    /\ UNCHANGED vars

Next ==
    \/ \E r \in Runs :
          \/ Call(r)
          \/ RejectConfig(r)
          \/ RunStep(r)
          \/ ChildStep(r)
          \/ ChildFails(r)
          \/ DestroyNamespace(r)
    \/ AllReturned

Spec == Init /\ [][Next]_vars

\* A goroutine that can run is scheduled, a process that can run is scheduled
\* and a workload ends; nothing forces a caller, a failure or the kernel.
Fairness ==
    \A r \in Runs : WF_vars(RunStep(r)) /\ WF_vars(ChildStep(r))

FairSpec == Spec /\ Fairness

-----------------------------------------------------------------------------
(* Properties.                                                             *)

\* Every variable has its type; a fault is a call of some run.
TypeOK ==
    /\ pc \in [Runs -> Locations]
    /\ failures \in [Runs -> SUBSET Errors]
    /\ networkSequence \in 0 .. SeqModulus - 1
    /\ wrapped \in BOOLEAN
    /\ slot \in [Runs -> {NoSlot} \cup 0 .. MaxNetworks - 1]
    /\ cgroups \subseteq Runs
    /\ links \subseteq Runs
    /\ peerNs \in [Runs -> Runs \cup {Guest}]
    /\ configured \subseteq Runs
    /\ found \in [Runs -> SUBSET Runs]
    /\ child \in [Runs -> {"none"} \cup Live \cup Dead]
    /\ netns \subseteq Runs
    /\ writerOpen \subseteq Runs
    /\ signalled \subseteq Runs
    /\ faults \subseteq Runs \X Calls

\* The pairs whose workload end is in the namespace of run r.
PairsInside(r) == {o \in links : peerNs[o] = r}

\* While a workload runs, its namespace holds the veth pair of its own run,
\* addressed and routed, and no other run's: the readiness pipe orders the
\* parent's move (run_linux.go:173-185) before the child's configuration, and
\* nobody takes the pair away.  Only after 2^32 allocations may a slot be
\* drawn a second time while its first owner is still alive.
WorkloadHasNetwork ==
    wrapped \/ \A r \in Runs :
        child[r] = "running" => PairsInside(r) = {r} /\ r \in configured

\* Two pairs that exist at one time never lie in one /30 block, whatever the
\* order of the calls and even when networkSequence has wrapped, because the
\* kernel refuses a name in use and name and block come from one slot
\* (network_linux.go:32-49).
LiveSubnetsDisjoint ==
    \A r, q \in links :
        r # q => Subnet(GuestAddress(slot[r])) # Subnet(GuestAddress(slot[q]))

\* A run that has drawn a slot has well-formed addresses, in a block and under a name
\* that no other of the plan's slots has (network_linux.go:32-49).
DrawnSlotsAreSound ==
    \A r \in Runs : slot[r] # NoSlot => slot[r] \in WellFormedSlots /\ PlanSound

\* Once Run has returned, by whatever path, no process of that run is left and its
\* cgroup is gone, unless rmdir fails on an empty directory: every path that starts
\* the child waits for it before the deferred rmdir, which would fail on a live
\* process (run_linux.go:102-106, 200-205, 347-349).
NothingSurvivesReturn ==
    \A r \in Runs :
        /\ pc[r] = "returned" => child[r] \notin Live
        /\ pc[r] = "returned" /\ r \in cgroups => << r, "rmdir" >> \in faults
        /\ "cgroupCleanup" \in failures[r] =>
              {<< r, "closeCgroup" >>, << r, "rmdir" >>} \cap faults # {}

\* A run that has returned leaves its veth pair behind only if a netlink call
\* of the cleanup itself failed; no other failure, of any step, leaks a pair
\* (network_linux.go:51-92 and 157-170, run_linux.go:117-121).
LeakNeedsCleanupFault ==
    \A r \in links :
        pc[r] = "returned" => \E c \in RemovalCalls : << r, c >> \in faults

\* Whatever fails on the way, nothing of a run outlives it except what a failed
\* call of the cleanup itself has left.
CleanupComplete == NothingSurvivesReturn /\ LeakNeedsCleanupFault

\* Once Run has given its child up, because the pair could not be moved or the
\* byte not be written, that child never becomes a workload: the end of the
\* pipe is not taken for the signal (run_linux.go:173-185, waitForNetwork).
NoRunAfterGiveUp ==
    \A r \in Runs :
        failures[r] \cap {"move", "signal"} # {} => child[r] \notin {"running", "exited"}

\* allocateWorkloadNetwork refuses a run only when MaxNetworks other calls have
\* drawn a slot; a failed or rejected call uses up at most its own slot.
NoEarlyExhaustion ==
    \A r \in Runs :
        "network" \in failures[r] /\ slot[r] = NoSlot =>
            Cardinality({q \in Runs : slot[q] # NoSlot}) >= MaxNetworks

\* A pair disappears only by a step of the call that created it or with the
\* namespace its workload end is in: removal by name (network_linux.go:62-67,
\* 157-170) never hits another run's pair before networkSequence wraps.
OnlyOwnerDeletes ==
    [][\A r \in links \ links' :
           wrapped \/ pc'[r] # pc[r] \/ peerNs[r] \in netns \ netns']_vars

\* Every call of Run returns if its workload ends, whatever fails on the way
\* and however the child dies: the parent closes the pipe on every path, so
\* child and parent never wait for each other (run_linux.go:169-195).
EveryRunReturns ==
    \A r \in Runs : pc[r] # "idle" ~> pc[r] = "returned"

\* What a caller sees of a run.
Phase(r) ==
    CASE pc[r] = "idle" -> "idle"
      [] pc[r] = "returned" -> IF failures[r] = {} THEN "succeeded" ELSE "failed"
      [] OTHER -> CASE child[r] = "none" -> "preparing"
                    [] child[r] = "running" -> "executing"
                    [] child[r] = "exited" -> "completed"
                    [] child[r] = "failed" -> "aborted"
                    [] OTHER -> "launched"

Contract == INSTANCE RunContract WITH phase <- [r \in Runs |-> Phase(r)]

\* How far the cgroup of a run has come.
CgroupStatus(r) ==
    CASE pc[r] \in {"idle", "createCgroup"} -> "asked"
      [] pc[r] = "returned" ->
            IF failures[r] \cap {"config", "cgroup"} # {} THEN "refused" ELSE "released"
      [] OTHER -> "held"

CgroupContract == INSTANCE DirectoryContract WITH
    Directories <- Runs,
    status <- [r \in Runs |-> CgroupStatus(r)],
    existing <- cgroups,
    stuck <- {r \in Runs : << r, "rmdir" >> \in faults}

\* Run keeps its contract: it reports success only for a workload that ran and
\* ended with status 0 and whose cleanup succeeded, and it never answers while
\* its child is alive (run_linux.go:62-198).  It has a cgroup from the one that
\* createCgroup returns until it returns itself, on every path.
KeepsContract == Contract!Spec /\ CgroupContract!Spec

\* What the comment in removeGuestNetwork (network_linux.go:160-161) aims at: that the
\* kernel has removed the pair fails no run.  A run whose workload has ended by itself
\* with success, and which fails by the removal of its pair alone, has a failed
\* LinkDel to blame.
KernelRemovalIsNoFailure ==
    \A r \in Runs :
        child[r] = "exited" /\ failures[r] = {"networkCleanup"} => << r, "LinkDel" >> \in faults
=============================================================================
