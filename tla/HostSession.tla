------------------------------ MODULE HostSession ------------------------------
(***************************************************************************)
(* Successive executions of the smoke-test client (cmd/applevm-smoke) on   *)
(* one root disk: how a machine is configured and created, what the client *)
(* does with it, and what each execution leaves to the next on the disk    *)
(* when the machine is switched off, which the guest is never told before. *)
(*                                                                         *)
(* Calls of the machine's handle are module AppleVM's, the requests of a   *)
(* connection GuestAgent's and the run of a workload WorkloadRun's.        *)
(***************************************************************************)
EXTENDS Integers

CONSTANTS
    Sessions,    \* how often the client is executed
    Names,       \* names that MkdirTemp can choose for a bundle
    NoName,      \* the guest has no bundle
    CpuLimit,    \* 2^32, the width of cpu_count, scaled down
    MemoryLimit, \* 2^64, the width of MemorySize, scaled down
    MiB,         \* bytes of a MiB, scaled down
    Options      \* the command lines of the client

ASSUME SessionAssumption == Sessions \in Nat \ {0} /\ NoName \notin Names

ASSUME WidthAssumption == {CpuLimit, MemoryLimit, MiB} \subseteq Nat \ {0}

ASSUME OptionsAssumption ==
    \A option \in Options : option.cpus \in Nat /\ option.memoryMiB \in Nat

VARIABLES
    session,  \* the number of the execution
    options,  \* its command line
    place,    \* the next step of the client
    held,     \* native objects that exist
    machine,  \* the machine's [cpus, memory], its configuration
    guest,    \* where the guest stands
    wire,     \* what is on the connection
    files,    \* whose files each bundle has, as the guest sees the disk
    disk,     \* the same as the disk has it
    own,      \* the name of the bundle in use
    ran,      \* history: sessions whose workload succeeded and left nothing
    excused   \* history: sessions switched off early or whose removal failed

client == << session, options, place >>
native == << held, machine >>
system == << guest, wire, files, disk, own >>
history == << ran, excused >>
vars == << client, native, system, history >>

Goto(p, q) == place = p /\ place' = q

\* A step of the client that the guest does not notice.
Quietly == UNCHANGED << session, options, system, history >>

\* The client's process ends, and with it the machine: what the guest has not
\* written to the disk is lost.
ProcessEnds ==
    /\ place' = "exited"
    /\ held' = {}
    /\ guest' = "off" /\ wire' = "none" /\ own' = NoName
    /\ files' = disk
    /\ excused' = IF own # NoName \/ files # disk THEN excused \cup {session} ELSE excused
    /\ UNCHANGED << session, options, machine, disk, ran >>

-----------------------------------------------------------------------------
(* The client.                                                             *)

ParseFlags ==
    /\ place = "flags"
    /\ \/ (options.kernel = "" \/ options.disk = "") /\ ProcessEnds
       \/ /\ options.kernel # "" /\ options.disk # ""
          /\ place' = "config"
          /\ UNCHANGED native /\ Quietly

MemorySize == (options.memoryMiB * MiB) % MemoryLimit

\* Config.validate; a path is "" or leads to a file or to nothing.
ValidConfig ==
    /\ options.kernel = "file"
    /\ options.initramfs # "missing"
    /\ options.disk = "file"
    /\ options.cpus # 0
    /\ MemorySize # 0

\* Mutant: the memory is cut to the width of the number of processors.
ConfigurationNarrow ==
    [cpus |-> options.cpus % CpuLimit, memory |-> MemorySize % CpuLimit]

\* newNativeVM converts the numbers to the widths of applevm_config_t.
Configuration == [cpus |-> options.cpus % CpuLimit, memory |-> MemorySize]

Validate ==
    /\ place = "config"
    /\ \/ ~ValidConfig /\ ProcessEnds
       \/ /\ ValidConfig
          /\ place' = "create"
          /\ UNCHANGED native /\ Quietly

\* applevm_build_configuration and validateWithError: the framework refuses a
\* machine without CPU, and any other that it does not like.
BuildFails == place = "create" /\ ProcessEnds

\* The machine's own serial queue, the first object that is not autoreleased.
CreateQueue ==
    /\ Configuration.cpus # 0
    /\ Goto("create", "queue")
    /\ held' = held \cup {"queue"}
    /\ UNCHANGED machine /\ Quietly

CreateMachine ==
    /\ Goto("queue", "allocate")
    /\ held' = held \cup {"machine"}
    /\ machine' = Configuration
    /\ Quietly

\* The framework raises an exception while it initialises the object allocated for
\* the machine.  Objects are counted by hand, and the handler of the exception
\* releases neither this object nor the queue.
CreateRaises ==
    /\ Goto("queue", "raised")
    /\ held' = held \cup {"machine"}
    /\ UNCHANGED machine /\ Quietly

Allocate ==
    /\ Goto("allocate", "start")
    /\ held' = held \cup {"handle"}
    /\ UNCHANGED machine /\ Quietly

\* There is no memory for the handle.
AllocateFails == Goto("allocate", "release") /\ UNCHANGED native /\ Quietly

ReleaseMachine ==
    /\ Goto("release", "releaseQueue")
    /\ held' = held \ {"machine"}
    /\ UNCHANGED machine /\ Quietly

\* Mutant: dispatch_release is forgotten.
ReleaseQueueForgotten == Goto("releaseQueue", "failed") /\ UNCHANGED native /\ Quietly

ReleaseQueue ==
    /\ Goto("releaseQueue", "failed")
    /\ held' = held \ {"queue"}
    /\ UNCHANGED machine /\ Quietly

Start ==
    /\ Goto("start", "sleep")
    /\ guest' = "boot"
    /\ UNCHANGED << session, options, native, wire, files, disk, own, history >>

\* Half a second passes, however far the guest has come.
Sleep == Goto("sleep", "dial") /\ UNCHANGED native /\ Quietly

Dial ==
    /\ guest = "listen"
    /\ Goto("dial", "encode")
    /\ UNCHANGED native /\ Quietly

Encode ==
    /\ Goto("encode", "decode")
    /\ wire' = "request"
    /\ UNCHANGED << session, options, native, guest, files, disk, own, history >>

\* Mutant: the client does not look at response.OK.
DecodeAnything ==
    /\ wire \in {"ok", "error"}
    /\ Goto("decode", "interrupt")
    /\ UNCHANGED native /\ Quietly

DecodeOK ==
    /\ wire = "ok"
    /\ Goto("decode", "interrupt")
    /\ UNCHANGED native /\ Quietly

\* log.Fatal after a step that failed: no deferred call is made.
Fatal ==
    /\ \/ place \in {"failed", "raised", "start", "dial", "encode"}
       \/ place = "decode" /\ (wire = "error" \/ guest \in {"off", "panic"})
    /\ ProcessEnds

\* An interrupt ends the process until signal.Notify has been called, and from
\* then on the client stops the machine.
Interrupt ==
    \/ place \notin {"flags", "interrupt", "stop", "close", "exited"} /\ ProcessEnds
    \/ Goto("interrupt", "stop") /\ UNCHANGED native /\ Quietly

SwitchOff ==
    /\ guest' = "off" /\ wire' = "none" /\ own' = NoName
    /\ files' = disk
    /\ excused' = IF own # NoName \/ files # disk THEN excused \cup {session} ELSE excused

\* vm.Stop switches the machine off.  Its failure is only logged.
Stop ==
    /\ Goto("stop", "close")
    /\ \/ SwitchOff /\ UNCHANGED << disk, ran >>
       \/ UNCHANGED << system, history >>
    /\ UNCHANGED << session, options, native >>

\* The deferred conn.Close and vm.Close, and the end of main.
Close == place = "close" /\ ProcessEnds

NextSession ==
    /\ session < Sessions
    /\ Goto("exited", "flags")
    /\ session' = session + 1
    /\ options' \in Options
    /\ UNCHANGED << native, system, history >>

ClientStep ==
    \/ ParseFlags \/ Validate
    \/ BuildFails \/ CreateQueue \/ CreateMachine \/ CreateRaises
    \/ Allocate \/ AllocateFails \/ ReleaseMachine \/ ReleaseQueue
    \/ Start \/ Sleep \/ Dial \/ Encode \/ DecodeOK \/ Fatal \/ Stop \/ Close

-----------------------------------------------------------------------------
(* The guest, as far as the client and the disk can tell.                  *)

GuestGoes(p, q) ==
    /\ guest = p /\ guest' = q
    /\ UNCHANGED << client, native, disk >>

Boot ==
    /\ GuestGoes("boot", "listen")
    /\ UNCHANGED << wire, files, own, history >>

\* Mutant: the bundle has the same name every time.
SameName == {CHOOSE name \in Names : TRUE}

\* MkdirTemp tries names until one does not exist.
UnusedNames == {name \in Names : files[name] = {}}

MakeBundle ==
    /\ wire = "request"
    /\ GuestGoes("listen", "run")
    /\ \E name \in UnusedNames :
          /\ own' = name
          /\ files' = [files EXCEPT ![name] = @ \cup {session}]
    /\ UNCHANGED << wire, history >>

\* Mutant: a request that failed is not answered.
PrepareFailsSilently ==
    /\ wire = "request"
    /\ GuestGoes("listen", "listen")
    /\ wire' = "none"
    /\ UNCHANGED << files, own, history >>

PrepareFails ==
    /\ wire = "request"
    /\ GuestGoes("listen", "listen")
    /\ wire' = "error"
    /\ UNCHANGED << files, own, history >>

\* Mutant: the bundle of a workload that has failed stays.
AnswerRunLeaking ==
    /\ GuestGoes("run", "listen")
    /\ own' = NoName
    /\ \E success \in BOOLEAN :
          /\ files' = IF success THEN [files EXCEPT ![own] = {}] ELSE files
          /\ wire' = IF success THEN "ok" ELSE "error"
          /\ ran' = IF success THEN ran \cup {session} ELSE ran
    /\ UNCHANGED excused

\* The workload ends or fails, the bundle is removed or not, and the answer says
\* OK if both went well.
AnswerRun ==
    /\ GuestGoes("run", "listen")
    /\ own' = NoName
    /\ \E success, removed \in BOOLEAN :
          /\ files' = IF removed THEN [files EXCEPT ![own] = {}] ELSE files
          /\ wire' = IF success /\ removed THEN "ok" ELSE "error"
          /\ ran' = IF success /\ removed THEN ran \cup {session} ELSE ran
          /\ excused' = IF removed THEN excused ELSE excused \cup {session}

\* PID 1 panics, in its boot or in an accept loop; the kernel halts.
Panic ==
    /\ guest \in {"boot", "listen", "run"}
    /\ guest' = "panic"
    /\ UNCHANGED << client, native, wire, files, disk, own, history >>

\* The guest's kernel writes its cache back.
Flush ==
    /\ guest \in {"boot", "listen", "run"}
    /\ disk # files
    /\ disk' = files
    /\ UNCHANGED << client, native, guest, wire, files, own, history >>

GuestStep == Boot \/ MakeBundle \/ PrepareFails \/ AnswerRun

-----------------------------------------------------------------------------
Init ==
    /\ session = 1
    /\ options \in Options
    /\ place = "flags"
    /\ held = {}
    /\ machine = [cpus |-> 0, memory |-> 0]
    /\ guest = "off" /\ wire = "none"
    /\ files = [name \in Names |-> {}]
    /\ disk = files
    /\ own = NoName
    /\ ran = {} /\ excused = {}

Next == ClientStep \/ Interrupt \/ NextSession \/ GuestStep \/ Panic \/ Flush

Spec == Init /\ [][Next]_vars

\* The client and the guest go on; nobody has to interrupt them.
FairSpec == Spec /\ WF_vars(ClientStep) /\ WF_vars(GuestStep)

-----------------------------------------------------------------------------
\* Where applevm_create is at work.
Creating == {"queue", "allocate", "release", "releaseQueue"}

\* Where the handle exists.
Created == {"start", "sleep", "dial", "encode", "decode", "interrupt", "stop", "close"}

\* Every variable has its type.
TypeOK ==
    /\ session \in 1 .. Sessions
    /\ options \in Options
    /\ place \in Creating \cup Created
                \cup {"flags", "config", "create", "raised", "failed", "exited"}
    /\ held \subseteq {"queue", "machine", "handle"}
    /\ machine.cpus \in 0 .. CpuLimit - 1 /\ machine.memory \in 0 .. MemoryLimit - 1
    /\ guest \in {"off", "boot", "listen", "run", "panic"}
    /\ wire \in {"none", "request", "ok", "error"}
    /\ {files, disk} \subseteq [Names -> SUBSET (1 .. Sessions)]
    /\ own \in Names \cup {NoName}
    /\ ran \cup excused \subseteq 1 .. Sessions

\* A workload's root has the files of its own image and of nothing else,
\* whatever earlier sessions have left on the disk (image.go:206-213).
RootfsIsFresh == guest = "run" => files[own] = {session}

\* The client shows output only of a workload that has succeeded in this very
\* session and whose bundle is gone (main.go:95-105).
OutputIsGenuine == place \in {"interrupt", "stop", "close"} => session \in ran

\* Bundles stay behind only where a removal failed, or where the machine went off
\* while a bundle was in use or its removal not yet on the disk: no session that
\* the client gave up at another time leaves one (image.go:216, 244).
LeftoverHasCause ==
    \A name \in Names \ {own} : files[name] \subseteq excused

\* Outside applevm_create native objects exist all three or not at all, and all three
\* wherever a machine is on; the one exception is a creation that the framework has
\* left by an exception (applevm_bridge_darwin.m:223-247).
HandleOwnsObjects ==
    /\ place \notin Creating \cup {"raised"} => held \in {{}, {"queue", "machine", "handle"}}
    /\ guest # "off" => "handle" \in held

\* A machine that is on has a processor and memory, and as much of both as its command
\* line asks for, or else there was an error; the one exception are numbers beyond
\* the widths of the product (main.go:41) and of cpu_count (bridge_darwin.go:44).
\* The memory is checked after it may have wrapped and the number of processors before
\* it is cut (config.go:56-62), so that the last resort is the framework.
MachineAsAsked ==
    guest # "off" =>
        /\ machine.cpus # 0 /\ machine.memory # 0
        /\ options.cpus < CpuLimit => machine.cpus = options.cpus
        /\ options.memoryMiB * MiB < MemoryLimit => machine.memory = options.memoryMiB * MiB

\* The client comes to its prompt or ends, unless the guest's PID 1 has panicked:
\* it waits for its answer without a deadline.
SessionSettles ==
    place = "flags" ~> place \in {"interrupt", "exited"} \/ guest = "panic"
=============================================================================
