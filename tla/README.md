# Kernlet: specifications, model checking and proofs

This directory holds TLA+ specifications of kernlet, the TLC configurations that
check them, and theorems about them that TLAPS proves. Line numbers refer to the
source files of the repository.

## The system

Kernlet runs one-shot container workloads in a Linux virtual machine on macOS.
A host program starts the machine and sends requests over a vsock connection;
`kernlet-agent`, the first process of the guest, prepares an OCI image and runs
its command in namespaces and a cgroup of its own.

```
host program                 pkg/applevm      Linux guest
 smoke client --> VM (mutex) --> dispatch --> kernlet-agent (PID 1)
                                  queue         main goroutine: boot, accept
                                                goroutine per connection
                                                   | oci.Prepare / Close
                                                   | runtime.Run
                                                   |    | cgroup, veth pair, pipe
                                                   |    v
                                                   |  child: InitProcess -> workload
                                                goroutine per network check
```

### Inventory

**Run** (`internal/runtime/run_linux.go`, `network_linux.go`). State: the package
variable `networkSequence`; in the kernel, cgroups, veth pairs, network
namespaces, processes; per call, the readiness pipe and the errors collected.
Operations: `Run`, its deferred cleanup, and in the child `InitProcess`. Calls are
concurrent (one per connection); parent and child interact through the pipe, the
veth pair and the process status; the kernel acts on its own when a namespace
loses its last process. Hard: every step may fail, the child may die at any
moment, interfaces are named and removed by name, cleanup runs in the reverse
order of creation. Correct when: a workload has exactly its own network; nothing
of a run is left behind except after a fault of the cleanup itself; success is
reported only for a success; every call returns.

**Address plan** (`network_linux.go:32-49`). A pure function from a slot to names
and addresses. Correct when injective and within `10.200.0.0/16`.

**InitProcess after the network** (`run_linux.go:260-336`, `497-529`). State:
credentials of each thread, the mount namespace, the working directory. Hard:
some calls act on a thread and some on the process, each call needs what later
ones give up, and mounts may propagate into the guest. Correct when the workload
starts without privileges in a root of its own and the guest sees no mount of it.

**Cgroup limits** (`run_linux.go:46-60`, `338-437`). State: the files of a cgroup.
Hard: a controller must be enabled level by level, a limit is written, read back
and compared as text after the kernel may have rounded it, in the order in which
Go iterates over a map. Correct when a run starts only with exactly the limits it
asked for, and an error leaves no directory.

**Guest agent** (`cmd/kernlet-agent`). State: the start of PID 1, the backlog of
the listener, per connection the unread input, the request at hand, the bundle.
Operations: `main`, `serveVsock`, `handleConnection`, `handleRequest`. Hard:
pipelined requests, concurrent connections, a host that leaves, independent
failures of `Run` and of the bundle's removal, panics of PID 1. Correct when
answers match requests, OK means that everything worked, and a bundle lives as
long as its workload and no longer.

**Network check server** (`cmd/kernlet-agent/network_linux.go`). State: a TCP
listener and a goroutine per check, with a deadline of two seconds. Correct when a
stalled client cannot hold a goroutine or another's check and only a complete
request is answered. The other side is `kernlet-agent --identity` inside a workload.

**OCI image** (`internal/oci/image.go`). `Prepare` validates a layout, its blobs'
digests and sizes, its configuration, and unpacks one layer; `Close` removes the
result. State: a directory tree. Hard: entries of an archive act on each other,
paths and symbolic links must stay inside the root, failure halfway must leave
nothing. Correct when an accepted image is what its digests say, no entry touches
anything outside the root, and a failed preparation leaves no tree.

**Apple VM bridge** (`pkg/applevm`). State: a mutex, the native handle, the
machine's serial dispatch queue, a waiter on the caller's stack. Operations:
`New`, `Start`, `Stop`, `Close`, `DialVsock`. Hard: a completion handler on
another thread finishes the waiter; `Close` competes with calls that wait.
Correct when no operation uses a released handle, no handler writes to a waiter
that is gone, and an error is never taken for success.

**Smoke client** (`cmd/applevm-smoke`). Flags, create, start, sleep, dial, one request,
wait for an interrupt, stop. State: a root disk that outlives each execution. Hard:
`log.Fatal` skips the deferred calls, an interrupt ends the process at most places,
the machine is switched off without telling the guest. Correct when a workload never
sees what an earlier session left, and output is shown only of a success.

**Stubs and build files**: no state.

`PROJECT.json` lists under "hazards" what is hard to test in this code, with the
property that covers it or the reason why none does.

## Modules

| Module | Models | Contents |
| --- | --- | --- |
| `AddressPlan` | `network_linux.go:16-49` | operators from a slot to octets, blocks and name digits; what the plan promises |
| `RunContract` | | abstract specification: what `Run` promises its caller |
| `DirectoryContract` | | abstract specification: what is promised of a directory made for a run |
| `MachineContract` | | abstract specification: what a VM promises the goroutines that call it |
| `WorkloadRun` | `run_linux.go`, `network_linux.go` | concurrent calls of `Run`, their children, the kernel's objects |
| `MCWorkloadRun` | | symmetry for TLC |
| `InitSandbox` | `run_linux.go:207-336`, `497-529` | the call sequence of `InitProcess` on a process with several threads |
| `GuestAgent` | `cmd/kernlet-agent`, bundle life of `internal/oci` | PID 1, connections and requests; uses `RunContract` for `Run` |
| `AppleVM` | `pkg/applevm` | methods of one VM, blocks and completion handlers, waiter, native handle |
| `CgroupLimits` | `run_linux.go:46-100`, `338-437` | `SetupCgroups`, `createCgroup` and the kernel's rules for three files |
| `MCCgroupLimits` | | limits around every bound |
| `OciPrepare` | `image.go:83-322`, `568-606`; checks of `Run` and `InitProcess` | a run request from the image layout to the workload |
| `MCOciPrepare` | | layouts with one flaw or one feature |
| `LayerExtract` | `image.go:324-566` | entries of an archive applied to a tree with links, owners and modes |
| `MCLayerExtract` | | entries of every type over two names |
| `NetworkCheck` | `cmd/kernlet-agent/network_linux.go` | probes, other connections, accept loop, goroutines and the clock |
| `HostSession` | `cmd/applevm-smoke`, `config.go`, `vm.go:16-29`, `applevm_create` | executions of the client on one disk, with the guest as far as the disk sees it |
| `MCHostSession` | | command lines that differ in one option |
| `WorkloadRunProofs`, `CgroupLimitsProofs`, `InitSandboxProofs`, `GuestAgentProofs`, `OciImageProofs`, `NetworkCheckProofs`, `HostSessionProofs`, `AppleVMProofs` | | theorems and proofs |

`InitSandbox`, `GuestAgent`, `AppleVM` and `NetworkCheck` are checked as they are: their
configurations only name model values, and those of the last three check liveness, under
which symmetry would not be sound.

Composition goes through three abstract specifications, each refinement both checked by a run
and proved for every instance.

- `RunContract`: a run is called, may have its workload run, and returns, with success only after
  the workload has succeeded. `WorkloadRun` implements it (`ContractKept`); `GuestAgent` is
  built on its actions and takes no other step of a run (`RunIsUsedAsPromised`), so
  what it shows holds with `Run` as it is.
- `DirectoryContract`: whoever asks for a directory gets a finished one or an error and
  none, and nothing is left after the release, unless a removal has failed. It is what the
  coarse and the detailed modules have in common: `WorkloadRun` keeps it for the
  cgroups of all its runs in the steps `CreateCgroup` and `RemoveCgroup`, `CgroupLimits` for one cgroup
  in every call of `createCgroup`; `GuestAgent` keeps it for the bundles of all its
  requests, `OciPrepare` for one bundle from `MkdirTemp` to `Close`.
- `MachineContract`: the calls of all goroutines take effect one at a time, each from its
  turn to its result, and return what the framework has decided. `AppleVM` implements it
  with a mutex, a queue, handlers and waiters.

Four modules are related to others by their roles only. `InitSandbox` stands for the one step
`ExecWorkload` of `WorkloadRun`, from `sethostname` to `exec`: either the workload
runs or the child fails. `OciPrepare` goes on from `Prepare` into the checks of
`Run` and `InitProcess`, which `GuestAgent` does not distinguish; `LayerExtract` stands for its
steps `Unpack` and `UnpackFails`. `HostSession` composes the client, the machine
(whose calls are `AppleVM`'s) and the guest (whose requests are `GuestAgent`'s), each in
the steps that matter to a disk that outlives them.

### State and actions

`WorkloadRun`. `pc[r]` is the place of the goroutine in `Run`, in the order of the
code, with the deferred functions at its end (`findLink`, `deleteLink`,
`removeCgroup`); `child[r]` is the state of its child, `failures[r]` the errors
joined into the result. `links` is the set of veth pairs, each identified by the
run that created it, as the kernel identifies an interface by its index; its name
is `slot[r]`, so that a name can be looked up and found to belong to another run.
`peerNs` is the namespace of the workload end, `netns` the namespaces that exist.
`writerOpen` and `signalled` are the readiness pipe. Every call that can fail has
an action for failing: with a cause in the state (the name is in use, the child
is dead, the interface is gone) at any time, without a cause only `MaxFaults`
times; `faults` records the latter, with the run, so that properties can tell the two
apart. The removal of the cgroup may fail as well, which leaves it, and so may closing its
descriptor, which is an error of the cleanup but leaves nothing.
`DestroyNamespace` is the kernel's asynchronous teardown.

`InitSandbox`. `place` is the next call. Credential variables are functions or sets
of threads, because `prctl` and `capset` act on the calling thread while
`Setgroups`, `Setresgid` and `Setresuid` of Go's `syscall` act on all. `Migrate` is
the Go scheduler. `Allowed` is what the kernel demands of each call; a call that
it refuses, or any other, may fail and ends the process.

`GuestAgent`. `agent` is the main goroutine from the first mount to the accept loop,
`handler[c]` the goroutine of a connection, `inbox[c]` what it has not decoded,
`job[c]` the request at hand. A request is its identity; the method is the set it
belongs to. `phase` is the state of `RunContract`. `faults` are pairs of a request, or of the
agent, and the call that failed; `RemoveAll` fails once for the request whose bundle stays.

`AppleVM`. `pc[c]` is the place of a goroutine in a method: `lock` and `enter` in Go, then
the bridge (`submit` to `leave`), then `unlock`. `handler[c]` is whoever finishes the
waiter of `c`: the dispatched block, the framework's operation, then the calls of
`applevm_waiter_finish` one by one, because the caller may run between any two of
them. `frames` says whose waiter still exists. `verdict` is what the framework
decided, so that the result can be compared with it. The framework is external:
it completes each operation once, with either outcome.

`CgroupLimits`. `step` is the next call of `SetupCgroups` or of a run's
`createCgroup`; `enabled` is `cgroup.subtree_control` of the two upper levels and
`dir` the files of the workload's directory with what the kernel keeps in them. A
value is the tuple of its fields; `Takes` says which values the kernel accepts,
`Kept` what it makes of them (memory in whole pages, and no limit at all from
`MaxMemory` on). `WriteLimit(file)` for any pending file is Go's map iteration.

`OciPrepare`. A layout is a function from digests to blobs and an index; a blob has
the digest of its content, which may differ from its name. `place` is the next stage
of `Prepare`: each stage reads one blob and makes every check on it that the code
makes before the next blob is read, then `run`, `init` and `exec` are the checks that
follow. `Images` says which images a layout denotes without regard to the order of
reading.

`LayerExtract`. `tree` maps paths to nodes; nodes with the same `ino` are one file. `Follow` is
what `os.Root` does with one component of a name, symbolic links included, and is repeated
until none is left; `Find`, `Place` and `MkdirAll` say where that leads to. `Lchown`
clears the set-user-ID bit as the kernel does and `Chmod` follows symbolic links.
`NextEntry` applies one entry of any type. The properties compare the tree with a
reference that is a function of the sequence of entries alone (`Present`, `Origin`,
`KindAt`), without a tree and without the resolution of names; it applies to
archives in which no name leads through a symbolic link (`PlainBefore`). The other
properties have no such restriction. The definitions that every module has are called `LayerInit`,
`LayerSpec` and so on here, because the proofs about the package extend both modules.

`NetworkCheck`. A request is a sequence of pieces that arrive one by one; `clock` and `age` are
the times since the deadlines of a probe and of a goroutine were set. `Tick` is the
clock, which passes at any speed; `hurried` records that it has passed while a probe or
the agent could act, so that a property can say what holds as long as two seconds are
long enough for what the program has to do.

`HostSession`. `place` is the next step of the client's `main`, `held` the native objects, `guest`
and `own` what the guest is doing and with which bundle. `files` is the disk as the
guest sees it and `disk` as it is, so that whatever has not been flushed is lost with
the machine. `ProcessEnds` is every end of the client: `log.Fatal`, a signal, the
return of `main`. Numbers have the widths that `applevm_config_t` gives them. The
objects that `applevm_create` makes and releases by hand come and go one by one; at
`raised` the framework has left it by an exception.

## Runs

| Run | Bounds | Shows |
| --- | --- | --- |
| `workload_run` | 3 runs, 2 slots, sequence modulo 4, 2 faults; all 16384 slots for the plan | all safety properties, `RunContract`, `DirectoryContract` for the cgroups, the address plan |
| `workload_run_liveness` | 2 runs, 2 slots, 2 faults, fairness | every call returns |
| `network_removal` | 2 runs, no faults | finding: `LinkDel` races with the kernel and fails a run without any other failure |
| `init_sandbox` | 3 threads, capabilities 0 to 5 | unprivileged and confined workload, workable order |
| `init_identity` | as `init_sandbox` | finding: identity 2^32 - 1 stays root |
| `guest_agent` | 2 connections, 2 runs, 1 ping, 1 undecodable, backlog 1, 1 fault, fairness | answers, OK, `DirectoryContract` for the bundles; every request is settled |
| `apple_vm` | 2 callers, any number of calls, memory may run out, fairness | handle and waiter lifetimes, results, `MachineContract`; every call returns |
| `cgroup_limits` | 240 requests around the bounds, any controllers, 2 faults | limits in force, exact refusals, `DirectoryContract` |
| `layer_extract` | archives of up to 3 of 49 entries | the tree the archive denotes, exact verdicts |
| `network_check` | 1 probe, 1 other, request in 2 pieces, deadline 2, any speed, fairness | answers are earned, nobody's probe fails because of others, goroutines end |
| `oci_prepare` | layouts with one flaw or feature, each with 12 requests | a bundle is the image, exact refusals, later checks agree, `DirectoryContract` |
| `host_session` | 3 sessions, 4 names, one odd option each, fairness | fresh roots, genuine output, leftovers, native objects, size of the machine; every session settles |

Some properties are conjunctions of two that belong together, each with a theorem of its own:
`CleanupComplete` (`NothingSurvivesReturn`, `LeakNeedsCleanupFault`), `MountsSeparate`
(`WorkloadConfined`, `GuestMountsUntouched`), `AnswersAreTrue` (`RepliesMatchRequests`,
`OkMeansRunAndRemoved`) and `NoUseAfterFree` (`WaiterOutlivesHandler`, `HandleOutlivesUse`).
The property that refines an abstract specification is called `KeepsContract` everywhere.
What it implies is not listed in a run besides: `OneOperationAtATime` of `AppleVM` (two operations
of the machine would be two calls whose turn it is), `BundleLifetime` of `GuestAgent`,
`NoDirectoryLeft` of `CgroupLimits` and `NothingLeftBehind` of `OciPrepare`; each is
still proved by itself.

Why the bounds suffice. Runs interact only through names and the sequence: two
runs can collide, a third is needed for a slot to be refused. Two faults let a second
failure hit the cleanup of a first one; the code has no place where three have to
coincide. `SeqModulus` is larger than the number of slots, as in the code. Three runs
do not make the sequence wrap: that subnets stay disjoint and that only faults of the
cleanup leak after a wrap as well is proved for every number of runs
(`SubnetsStayDisjoint`, `CleanupIsComplete`); that a removal by name may then hit another
run's pair is excepted in `OnlyOwnerDeletes` and `WorkloadHasNetwork`. `PlanSound` has no state; TLC evaluates
it over every slot as part of `DrawnSlotsAreSound`. In `init_sandbox`
one capability beyond the four that calls demand stands for the other
capabilities; a goroutine can be on one thread, have been on another, and leave a
third untouched. In `guest_agent` a request can stand in front of, behind and beside
another of each other kind; an unknown method differs from a ping in the answer only,
and the safety properties are proved for any requests. `Backlog` 1 makes the queue full.

In `apple_vm` one caller waits in the bridge and one
behind it for the mutex; a third, who could be overtaken, is covered by the proofs for any
number of callers. In `layer_extract` no target is
longer than three components (`LongestTarget`), and three
entries are one that makes a thing, one that replaces or links it, and one that uses
the result; three levels of directories let an entry act on something beneath
another's parent. In `cgroup_limits` every number of the code and of the kernel has a
limit below, at and above it, scaled down, and two faults let the cleanup fail as
well. In `network_check` the other connection may send right and wrong pieces, too
many of them, stall and hang up, and two pieces are enough for a request to be
incomplete; time runs to both deadlines in either order. In `host_session` three sessions
let a third meet what the first left and the second did not touch; four names leave one
unused whatever the three sessions have left. `CpuLimit`,
`MemoryLimit` and `IdLimit` are powers of two scaled down, with values below, at and
above them.

The runs say `CHECK_DEADLOCK FALSE` where the system may stop: after the panic of the
agent or when the host has left (`guest_agent`), when a limit, a layer or a
request is decided (`cgroup_limits`, `layer_extract`, `oci_prepare`), when every
connection is closed (`network_check`), and after the last session. `WorkloadRun` and
`InitSandbox` have an explicit step for "everything has ended", so that any other
end would be reported.

### Fairness

`EveryRunReturns` assumes weak fairness of the goroutine and of the child of each
run: the Go scheduler and the kernel run what can run. It includes that a workload
ends (`WorkloadExits`), which the code needs too: `Run` waits without a timeout. It
does not assume that callers call, that anything fails, or that the kernel tears a
namespace down. `RequestsSettled` says that again and again everything sent on a connection has been
answered or the connection is gone; as each request is sent once, each is settled. It
assumes weak fairness of the main goroutine and
of each handler, whose steps include the progress of `Run`, justified by
`EveryRunReturns`; nothing is assumed of the host. `CallsReturn` assumes weak fairness of
callers and handlers, that the framework calls every completion handler (the code
has no timeout), and strong fairness of taking a mutex: `sync.Mutex` hands itself to
a goroutine that has waited long, and the waiter's mutex is contended only while
wake-ups without a signal go on. `ChecksEnd` assumes weak fairness of the accept loop, of each
goroutine and of the clock, and nothing of those who connect. `SessionSettles` assumes
weak fairness of the client and of the guest's progress; it exempts a guest whose PID
1 has panicked, because the client waits for its answer without a deadline and would
then wait for ever.

### Findings

Two disagreements between the code and what it says of itself have a run that shows them:

- `network_removal`: `removeGuestNetwork` (network_linux.go:157-170) takes a pair that
  is gone for removed, as its comment says, but only if it is gone at `LinkByName`.
  If the kernel destroys it before `LinkDel`, `Run` reports a failure for a
  workload that ended by itself with success, although no call failed before.
- `init_identity`: the identity 4294967295 passes every check (image.go:575,
  run_linux.go:476-495) and means "no change" to `setresgid` and `setresuid`
  (run_linux.go:319, 323), so that the workload keeps the group or the user of root, without
  capabilities; the README (line 231) promises a
  non-root identity.

Others were met while modelling; the models contain the behaviour, and the properties
name it as an exception where it would break them:

- The README (line 238) says that networking is still shared with the guest agent; `Run`
  creates a network namespace (run_linux.go:155), as `WorkloadHasNetwork` says.
- The bridge recognises a failure by its message, so that a start that fails when
  `strdup` fails too returns 0 (applevm_bridge_darwin.m:57, 285), against
  applevm_bridge.h:32-33. `ResultIsVerdict` excepts a caller whose memory ran out.
- After a hard link to a symbolic link, `applyMetadata` (image.go:561) changes the mode of
  the file that the symbolic link leads to, which belongs to another entry; the README
  (line 186) says that file metadata is preserved. `LastEntryWins` speaks of archives
  in which this cannot happen (`PlainBefore`).
- `-memory` wraps at 2^64 bytes (main.go:41) and the number of CPUs is cut to 32 bits
  (bridge_darwin.go:44), so that a machine of another size than the flags ask for
  (main.go:23-25) is created without an error. `MachineAsAsked` excepts these numbers.
- An exception of the framework while it initialises a machine leaves the queue and the
  allocated object behind, where the error path next to it releases both
  (applevm_bridge_darwin.m:231-232, 243-247). `HandleOwnsObjects` excepts it.

## Proofs

`WorkloadRunProofs` proves every safety property of `workload_run`, for every set of runs,
every number of slots up to 16384, every modulus greater than it, and every number of faults. The assumptions are those of
the module: `GuestAssumption` (the guest's namespace is no run's),
`NetworkAssumption`, `FaultAssumption`. None of the properties is inductive; the
inductive invariant is

- `CgroupInv`: a run has its cgroup from its creation to its return, and one that is left
  has a failed `rmdir` to blame.
- `ChildInv`: where the child may be while the goroutine stands at a place. Needed
  because the cgroup is removed without looking at the child: that it is dead then
  follows only from the path taken.
- `PipeInv`: the byte has been written only by a run that did not give up, and a child
  beyond the wait has seen it. Gives `NoRunAfterGiveUp`.
- `LinkInv`: pairs that exist have distinct names, and a pair that has outlived its
  removal has a fault to blame. Holds across a wrap, because the kernel refuses a
  name in use; with the plan's injectivity it gives `LiveSubnetsDisjoint`.
- `OwnInv`: until the sequence wraps, slots are below the sequence and unique, what a
  run looked up is its own, and a live child that was signalled has its pair inside
  its namespace. Gives `WorkloadHasNetwork` and `OnlyOwnerDeletes`. It is false after
  a wrap, when a removal by name can hit another run's pair; hence `wrapped`.

- `DrawInv`, beside the others: the sequence is at most the number of runs that have
  drawn a slot until all slots have been drawn. Gives `NoEarlyExhaustion`, by an
  argument about cardinalities that the other parts do not need.

Each part is proved preserved action by action, each using only the parts it needs.
`ContractKept` proves that `Phase` maps the initial states to the initial state of
`RunContract` and every step to a step of it or a stutter, and `CgroupStatus` likewise for
`DirectoryContract`.

The address plan is proved in the same module for all 16384 slots, which TLC evaluates
(`PlanIsSound`). The argument inverts the arithmetic: a slot is recovered from its octets and
from its four hexadecimal digits, and the block of a slot is the slot itself; the sets of
names and blocks then have as many elements as there are slots.

`AppleVMProofs` proves every safety property of `apple_vm`, for any number of
goroutines, from `MemoryAssumption` alone. Its invariant: the holder of the mutex
is the only one between `lock` and `unlock` (`MutexInv`), the handle lives until the
holder closes it (`NativeInv`), caller and handler exclude each other on the waiter
and the caller leaves only after the handler has unlocked (`WaiterInv`), a
finished waiter carries the verdict (`VerdictInv`), and the machine is on its way to
where the call whose turn it is brings it (`TurnInv`).

`ContractKept` maps this to `MachineContract`: a call is `called` until a handler has taken
it up, `acting` while the framework works, and decided from the verdict to the return (`Stage`). A step
that begins an operation, refuses it or closes the VM needs that it is nobody else's turn:
who takes it holds the mutex, and whoever else had the turn would hold it too
(`HolderFindsFree`). All other steps, of the waiter's mutex and condition above all, are
stutters or the one return that they lead to.

`CgroupLimitsProofs` proves every safety property of `cgroup_limits` for any limits,
page size, bounds and faults, from `RequestsAssumption` and `KernelAssumption`. The latter says that
a page and the least time are not zero and the other bounds are numbers. `LimitsInForce`
speaks of the last step only; its invariant says that a directory can only be made
where every controller is enabled (`SetupInv`), that it then has every file
(`DirectoryInv`), and that every file that is not pending holds what was asked for
(`WrittenInv`), which no order of writing disturbs. That a refusal has a cause needs,
besides, that what is read back is what the kernel has made of the limit asked for
(`CauseInv`): a difference is then a limit that the kernel cannot keep as it is. `ContractKept` follows
the directory through the steps: it is in nobody's hands until `ready`, and `cleanup` ends in a refusal
with no directory or with a failed `Remove`.

`OciImageProofs` proves every property of `oci_prepare` for any layouts, requests and width of an
identity, from `LayoutAssumption`: an index is finite, and a configuration has the shape that its
decoding gives it. What `Prepare` finds by reading one blob after
the other is compared with `Images`, which speaks of the layout at once. A descriptor names
at most one blob (`NamedOnce`) and the index leads to at most one manifest (`IndexedOnce`), so
that a layout has at most one image; the invariant says at each place which of its blobs
have been found (`ReadInv`). A bundle is then made of nothing else, and a blob that a step
does not find is missing from every image of the layout. That what `Prepare` accepts is accepted
later follows from the shape of a bundle, and `ContractKept` from where the directory exists (`PlaceInv`).

The same module proves, for archives of any length and entries with any names, targets and
owners, that `LayerExtract` always has a tree (`LayerTypeCorrect`) and that an entry removes only
its own (`EntriesRemoveOnlyTheirOwn`), from `EntriesAssumption`, which gives the
fields of an entry their types and bounds the length of a link's target. The
resolution of a name is iterated by a recursive function on the numbers; that it exists
(`ResolutionSteps`) and induction over its steps are proved from the theorem on cardinalities of
finite sets (`SetInduction`). A step never leaves the tree and makes nothing but directories in it
(`FollowStaysInTree`), so that every operation on a tree fails or leaves a tree
(`TreeOrRefused`). A name that leads somewhere leads to the same place in every tree that
holds more (`FindAgrees`): the place from which an entry has removed something is the
place where the entry then is. Each step takes a component off the name, or one of the eight
links that may be followed (`FollowLeavesLess`); hence `EveryResolutionEnds`, which
says that the bound `EnoughSteps` of the model cuts no resolution short.

On this rest `LastEntriesWin` and `VerdictsAreExact`, which compare the tree with a reference
that speaks of the archive and of no tree. A name that leads through no symbolic link leads to
the place of that name (`FindPlain`, `MkdirAllPlain`, by induction over the steps), so that what an
entry makes of the tree can be written down without resolving anything (`MadeOf`,
`HasMetadata`), and when it is refused (`Blocked`; `ExtractEntryPlain`). The
invariant (`ExtractionInv`) is that, as long as nothing has been refused, every entry could be
applied after those before it and the tree is what the archive says (`Match`). `Match` is
stronger than `LastEntryWins`: it adds that a hard link originates from a file and that some
entry is the last to name it (`Sourced`), without which the next entry could not be placed. What
the reference says of the entries before does not change when one is added (`SaidBefore`,
`OriginsKept`, `KindsKept`); what it says with the new one (`StandingOfNext`, `OriginOfNext`,
`LastNamingOfNext`) is compared with what the entry makes (`NextMatches`). That
an archive leads through no symbolic link (`PlainBefore`) enters once: none of the links in
the tree is then in the way of the next entry (`NoneInTheWay`). `Origin` is a recursive
function over the archive; that it exists is proved as well (`ChainExists`).

`InitSandboxProofs` proves every property of `init_sandbox` for any number of threads and
capabilities, from `CapsAssumption`. Its invariant says for each place of the sequence what
the calls before it have achieved and what the thread still has: the goroutine stays
on its thread (`ThreadInv`, without which the rest is false, as each thread has
credentials of its own), the credentials (`CredInv`), the mounts (`MountInv`) and the
directories (`DirectoryInv`).

`NetworkCheckProofs` proves every safety property of `network_check` for any number of probes
and other connections, any length of the request and any deadline, from `PeersAssumption`
and `TimeAssumption`. That others do no harm rests on `CalmInv`: as long as nobody has been
hurried, no clock of a connected probe has begun to run, because the probe, its goroutine or
the accept loop could have acted (`TickHurries`), and its goroutine ends with the answer
(`CalmChecksAnswer`).

`GuestAgentProofs` proves every safety property of `guest_agent` for any number of connections,
requests and faults and any backlog, from `RequestsAssumption` and `BoundsAssumption`.
`RepliesMatchRequests` needs the position of each connection in its stream: what was
sent is what was answered, what is in hand and what is not yet decoded, in this order
(`StreamInv`). That two goroutines never work on one request follows from every
request being sent once (`OnceInv`), and a call of `Run` is under way only while a
goroutine waits for it and its bundle is there (`WorkInv`). With both, a bundle is
removed by the one goroutine that made it and after its run.
That this implements `DirectoryContract` needs one thing more: a bundle is never made for
a request that had one. A request that has been run, or whose bundle has stayed, has been
passed in the stream of its connection (`FreshInv`), streams only grow, and one that is about to be
prepared has not been passed.

`HostSessionProofs` proves every safety property of `host_session` for any number of sessions, names
and command lines and any widths, from the three assumptions of the module. Its
invariant: what can be on without the machine (`PowerInv`), that on both sides of the
cache nothing of an earlier session is left that is not excused (`DiskInv`, because a
flush may come at any time), that an answer of OK was earned in this session
(`AnswerInv`), which native objects there are at each place (`HeldInv`), and that a
machine has the size that was checked (`SizeInv`). With `PowerInv`, which says where a
machine can be on, the last two give `HandleOwnsObjects` and `MachineAsAsked`.

Out of the prover's reach, and left to TLC: liveness under fairness (`EveryRunReturns`,
`RequestsSettled`, `CallsReturn`, `ChecksEnd`, `SessionSettles`). All other properties of the
passing runs are proved. Where
`TypeOK` is proved it is not listed in the run as well, except for `oci_prepare`, where it says
which values of an image get past the decoding.

## Not modelled

- Contents: the bytes of files, output, commands and environments, group identities of
  archive entries, JSON text and hexadecimal digests beyond what a check compares.
- What `--identity` and `--version` print: no state changes. That the facts must be
  readable is `GatherFacts`.
- The build script, the asset preparation and the stubs for other platforms, which
  have no state that changes.
- Signals to PID 1 and its memory: the output of a workload is buffered without a bound,
  which is a hazard without a property. `EncodeResponse` does not block: a host that
  never reads its answers is left out.
- Errors of the guest's file system inside an entry (image.go:418-561); those of the archive's
  stream and of the removal of a bundle are modelled.
- Exhaustion of descriptors by connections that are held open.
- The console: the client does not read it.
- Restarts of the agent inside a machine: there are none; a panic of PID 1 halts the
  guest. Restarts of the machine on the same disk are `HostSession`'s.

## What is left

- What `LayerExtract` makes of archives that lead through symbolic links (those that are not
  `PlainBefore`), of which only `LayerTypeOK` and `RemovesOnlyItsOwn` are stated.
- A checked relation between `HostSession` and `MachineContract`, whose calls it makes, and
  between `InitSandbox` and the step `ExecWorkload`, in place of the correspondence by roles.
