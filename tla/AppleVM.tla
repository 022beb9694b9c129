-------------------------------- MODULE AppleVM --------------------------------
(***************************************************************************)
(* pkg/applevm: calls of the methods of one VM by several goroutines, the  *)
(* bridge that turns Apple's asynchronous operations into blocking calls,  *)
(* and the life of the native handle.                                      *)
(*                                                                         *)
(* Start, Stop and DialVsock dispatch a block to the machine's queue and   *)
(* block on a waiter, a mutex and a condition variable on their own stack, *)
(* until the block or the framework's completion handler has finished it.  *)
(* Whoever finishes the waiter of caller c is called the handler of c.     *)
(***************************************************************************)
EXTENDS Integers, FiniteSets

CONSTANTS
    Callers,         \* goroutines that use the VM
    MemoryMayRunOut  \* whether strdup may fail

ASSUME MemoryAssumption == MemoryMayRunOut \in BOOLEAN

VARIABLES
    pc,           \* where a caller stands
    op,           \* the method it calls, or has called last
    result,       \* what that call has returned
    mutex,        \* the callers that hold vm.mu
    native,       \* vm.native is not nil
    handle,       \* the native handle: "live" or "freed"
    machine,      \* the state of the virtual machine
    handler,      \* where the handler of a caller stands
    verdict,      \* what the framework has decided
    frames,       \* callers whose waiter exists
    waiterLock,   \* who holds the mutex of a waiter
    finished,     \* callers whose waiter is finished
    message,      \* callers whose waiter holds an error message
    descriptors,  \* callers whose waiter holds a file descriptor
    asleep,       \* callers that sleep on their condition variable
    oom           \* history: strdup has failed

callVars == << pc, op, result >>
vmVars == << mutex, native, handle >>
handlerVars == << handler, verdict >>
slotVars == << finished, message, descriptors >>
waiterVars == << frames, waiterLock, slotVars, asleep >>
vars == << callVars, vmVars, machine, handlerVars, waiterVars, oom >>

Methods == {"start", "stop", "dial", "close"}

\* The places of a caller inside the bridge, where it uses the handle.
Bridge == {"submit", "waitLock", "test", "asleep", "leave"}

Places == {"idle", "lock", "enter", "destroy", "unlock"} \cup Bridge

HandlerPlaces == {"none", "queued", "framework", "lock", "store", "signal", "unlock"}

Goto(c, place) == pc' = [pc EXCEPT ![c] = place]

Return(c, value) == result' = [result EXCEPT ![c] = value]

-----------------------------------------------------------------------------
(* The methods of VM.                                                      *)

Invoke(c, m) ==
    /\ pc[c] = "idle"
    /\ op' = [op EXCEPT ![c] = m]
    /\ Return(c, "none")
    /\ Goto(c, "lock")
    /\ UNCHANGED << vmVars, machine, handlerVars, waiterVars, oom >>

\* Mutants: the mutex is a read-write lock that only Close takes for itself; Close
\* does not wait for it.
LockMutexShared(c) ==
    /\ pc[c] = "lock"
    /\ \A d \in mutex : op[c] # "close" /\ op[d] # "close"
    /\ mutex' = mutex \cup {c}
    /\ Goto(c, "enter")
    /\ UNCHANGED << op, result, native, handle, machine, handlerVars, waiterVars, oom >>

LockMutexExceptClose(c) ==
    /\ pc[c] = "lock"
    /\ mutex = {} \/ op[c] = "close"
    /\ mutex' = mutex \cup {c}
    /\ Goto(c, "enter")
    /\ UNCHANGED << op, result, native, handle, machine, handlerVars, waiterVars, oom >>

LockMutex(c) ==
    /\ pc[c] = "lock"
    /\ mutex = {}
    /\ mutex' = {c}
    /\ Goto(c, "enter")
    /\ UNCHANGED << op, result, native, handle, machine, handlerVars, waiterVars, oom >>

\* A method of a closed VM returns ErrClosed, Close itself nil.
EnterClosed(c) ==
    /\ pc[c] = "enter"
    /\ ~native
    /\ Return(c, IF op[c] = "close" THEN "ok" ELSE "closed")
    /\ Goto(c, "unlock")
    /\ UNCHANGED << op, vmVars, machine, handlerVars, waiterVars, oom >>

EnterOpen(c) ==
    /\ pc[c] = "enter"
    /\ native
    /\ Goto(c, IF op[c] = "close" THEN "destroy" ELSE "submit")
    /\ UNCHANGED << op, result, vmVars, machine, handlerVars, waiterVars, oom >>

\* Close releases the machine in whatever state it is.
Destroy(c) ==
    /\ pc[c] = "destroy"
    /\ handle' = "freed"
    /\ machine' = "released"
    /\ native' = FALSE
    /\ Return(c, "ok")
    /\ Goto(c, "unlock")
    /\ UNCHANGED << op, mutex, handlerVars, waiterVars, oom >>

UnlockMutex(c) ==
    /\ pc[c] = "unlock"
    /\ mutex' = mutex \ {c}
    /\ Goto(c, "idle")
    /\ UNCHANGED << op, result, native, handle, machine, handlerVars, waiterVars, oom >>

-----------------------------------------------------------------------------
(* applevm_start, applevm_stop, applevm_vsock_connect: the caller.         *)

\* applevm_waiter_init and dispatch_async.
Submit(c) ==
    /\ pc[c] = "submit"
    /\ frames' = frames \cup {c}
    /\ finished' = finished \ {c}
    /\ message' = message \ {c}
    /\ descriptors' = descriptors \ {c}
    /\ handler' = [handler EXCEPT ![c] = "queued"]
    /\ verdict' = [verdict EXCEPT ![c] = "none"]
    /\ Goto(c, "waitLock")
    /\ UNCHANGED << op, result, vmVars, machine, waiterLock, asleep, oom >>

AcquireWaiter(c) ==
    /\ pc[c] = "waitLock"
    /\ waiterLock[c] = "free"
    /\ waiterLock' = [waiterLock EXCEPT ![c] = "caller"]
    /\ Goto(c, "test")
    /\ UNCHANGED << op, result, vmVars, machine, handlerVars, frames, slotVars,
                    asleep, oom >>

\* pthread_cond_wait gives the waiter's mutex back and sleeps in one step.
Sleep(c) ==
    /\ asleep' = asleep \cup {c}
    /\ Goto(c, "asleep")

\* Mutant: the caller sleeps before it has looked.
TestFinishedLate(c) ==
    /\ pc[c] = "test"
    /\ Sleep(c)
    /\ waiterLock' = [waiterLock EXCEPT ![c] = "free"]
    /\ UNCHANGED << op, result, vmVars, machine, handlerVars, frames, slotVars, oom >>

TestFinished(c) ==
    /\ pc[c] = "test"
    /\ \/ c \in finished /\ Goto(c, "leave") /\ UNCHANGED asleep
       \/ c \notin finished /\ Sleep(c)
    /\ waiterLock' = [waiterLock EXCEPT ![c] = "free"]
    /\ UNCHANGED << op, result, vmVars, machine, handlerVars, frames, slotVars, oom >>

\* Mutant: who wakes up does not look again.
WakeUpConvinced(c) ==
    /\ pc[c] = "asleep"
    /\ c \notin asleep
    /\ waiterLock[c] = "free"
    /\ Goto(c, "leave")
    /\ UNCHANGED << op, result, vmVars, machine, handlerVars, waiterVars, oom >>

WakeUp(c) ==
    /\ pc[c] = "asleep"
    /\ c \notin asleep
    /\ Goto(c, "waitLock")
    /\ UNCHANGED << op, result, vmVars, machine, handlerVars, waiterVars, oom >>

\* pthread_cond_wait may return without a signal.
SpuriousWakeUp(c) ==
    /\ c \in asleep
    /\ asleep' = asleep \ {c}
    /\ UNCHANGED << callVars, vmVars, machine, handlerVars, frames, waiterLock,
                    slotVars, oom >>

\* No message means success; but os.NewFile rejects a descriptor that is
\* still -1.
Outcome(c) ==
    IF c \in message \/ (op[c] = "dial" /\ c \notin descriptors) THEN "error" ELSE "ok"

\* The waiter is destroyed and the function of the bridge returns.
Leave(c) ==
    /\ pc[c] = "leave"
    /\ frames' = frames \ {c}
    /\ Return(c, Outcome(c))
    /\ Goto(c, "unlock")
    /\ UNCHANGED << op, vmVars, machine, handlerVars, waiterLock, slotVars, asleep, oom >>

-----------------------------------------------------------------------------
(* The machine's queue, the framework, and the handler.                    *)

MoveHandler(c, place) == handler' = [handler EXCEPT ![c] = place]

Decide(c, value) == verdict' = [verdict EXCEPT ![c] = value]

CanStart == machine = "stopped"

CanStop == machine = "running"

\* The block runs: it hands the operation to the framework.
BeginOperation(c) ==
    /\ handler[c] = "queued"
    /\ \/ op[c] = "start" /\ CanStart /\ machine' = "starting"
       \/ op[c] = "stop" /\ CanStop /\ machine' = "stopping"
       \/ op[c] = "dial" /\ UNCHANGED machine
    /\ MoveHandler(c, "framework")
    /\ UNCHANGED << callVars, vmVars, verdict, waiterVars, oom >>

\* The block runs: the machine is in no state to start or to stop.
RefuseOperation(c) ==
    /\ handler[c] = "queued"
    /\ \/ op[c] = "start" /\ ~CanStart
       \/ op[c] = "stop" /\ ~CanStop
    /\ Decide(c, "error")
    /\ MoveHandler(c, "lock")
    /\ UNCHANGED << callVars, vmVars, machine, waiterVars, oom >>

\* The framework calls the completion handler, once.
Complete(c) ==
    /\ handler[c] = "framework"
    /\ \/ /\ op[c] = "start" /\ machine' = "running" /\ Decide(c, "ok")
       \/ /\ op[c] = "start" /\ machine' = "stopped" /\ Decide(c, "error")
       \/ /\ op[c] = "stop" /\ machine' = "stopped" /\ Decide(c, "ok")
       \/ /\ op[c] = "stop" /\ machine' = "running" /\ Decide(c, "error")
       \/ /\ op[c] = "dial" /\ machine = "running" /\ Decide(c, "ok")
          /\ UNCHANGED machine
       \/ /\ op[c] = "dial" /\ Decide(c, "error")
          /\ UNCHANGED machine
    /\ MoveHandler(c, "lock")
    /\ UNCHANGED << callVars, vmVars, waiterVars, oom >>

\* The guest powers off or crashes.
GuestStops ==
    /\ machine = "running"
    /\ machine' = "stopped"
    /\ UNCHANGED << callVars, vmVars, handlerVars, waiterVars, oom >>

\* The order of the calls in the three functions that finish a waiter.
Afterwards(place) ==
    CASE place = "store" -> "signal" [] place = "signal" -> "unlock" [] OTHER -> "none"

HandlerLocks(c) ==
    /\ handler[c] = "lock"
    /\ waiterLock[c] = "free"
    /\ waiterLock' = [waiterLock EXCEPT ![c] = "handler"]
    /\ MoveHandler(c, "store")
    /\ UNCHANGED << callVars, vmVars, machine, verdict, frames, slotVars, asleep, oom >>

\* The descriptor, or a copy of the error's message, for which there may be no
\* memory.
HandlerStores(c) ==
    /\ handler[c] = "store"
    /\ finished' = finished \cup {c}
    /\ \/ /\ verdict[c] = "ok"
          /\ descriptors' = IF op[c] = "dial" THEN descriptors \cup {c} ELSE descriptors
          /\ UNCHANGED << message, oom >>
       \/ /\ verdict[c] = "error"
          /\ message' = message \cup {c}
          /\ UNCHANGED << descriptors, oom >>
       \/ /\ verdict[c] = "error" /\ MemoryMayRunOut
          /\ oom' = TRUE
          /\ UNCHANGED << message, descriptors >>
    /\ MoveHandler(c, Afterwards("store"))
    /\ UNCHANGED << callVars, vmVars, machine, verdict, frames, waiterLock, asleep >>

HandlerSignals(c) ==
    /\ handler[c] = "signal"
    /\ asleep' = asleep \ {c}
    /\ MoveHandler(c, Afterwards("signal"))
    /\ UNCHANGED << callVars, vmVars, machine, verdict, frames, waiterLock,
                    slotVars, oom >>

HandlerUnlocks(c) ==
    /\ handler[c] = "unlock"
    /\ waiterLock' = [waiterLock EXCEPT ![c] = "free"]
    /\ MoveHandler(c, Afterwards("unlock"))
    /\ UNCHANGED << callVars, vmVars, machine, verdict, frames, slotVars, asleep, oom >>

-----------------------------------------------------------------------------
\* New has returned a VM.
Init ==
    /\ pc = [c \in Callers |-> "idle"]
    /\ op = [c \in Callers |-> "close"]
    /\ result = [c \in Callers |-> "none"]
    /\ mutex = {}
    /\ native = TRUE
    /\ handle = "live"
    /\ machine = "stopped"
    /\ handler = [c \in Callers |-> "none"]
    /\ verdict = [c \in Callers |-> "none"]
    /\ frames = {}
    /\ waiterLock = [c \in Callers |-> "free"]
    /\ finished = {}
    /\ message = {}
    /\ descriptors = {}
    /\ asleep = {}
    /\ oom = FALSE

CallerStep(c) ==
    \/ EnterClosed(c) \/ EnterOpen(c) \/ Destroy(c) \/ UnlockMutex(c)
    \/ Submit(c) \/ AcquireWaiter(c) \/ TestFinished(c) \/ WakeUp(c) \/ Leave(c)

HandlerStep(c) ==
    \/ BeginOperation(c) \/ RefuseOperation(c) \/ Complete(c)
    \/ HandlerStores(c) \/ HandlerSignals(c) \/ HandlerUnlocks(c)

Next ==
    \/ \E c \in Callers :
          \/ \E m \in Methods : Invoke(c, m)
          \/ LockMutex(c) \/ CallerStep(c) \/ SpuriousWakeUp(c)
          \/ HandlerLocks(c) \/ HandlerStep(c)
    \/ GuestStops

Spec == Init /\ [][Next]_vars

\* Threads that can run are run, and the framework calls every completion
\* handler.  sync.Mutex hands itself over to a goroutine that has waited long,
\* so that no caller starves; the waiter's mutex is contended only while its
\* caller is woken without a signal, which does not go on forever.
Fairness ==
    \A c \in Callers :
        /\ WF_vars(CallerStep(c)) /\ SF_vars(LockMutex(c))
        /\ WF_vars(HandlerStep(c)) /\ SF_vars(HandlerLocks(c))

FairSpec == Spec /\ Fairness

-----------------------------------------------------------------------------
(* The contract.                                                           *)

\* A call has its turn once its block has run, and until its result is returned.
Stage(c) ==
    IF pc[c] \in {"idle", "unlock"} THEN "idle"
    ELSE IF pc[c] \in {"lock", "enter", "destroy", "submit"} THEN "called"
    ELSE IF handler[c] = "queued" THEN "called"
    ELSE IF handler[c] = "framework" THEN "acting"
    ELSE verdict[c]

Contract ==
    INSTANCE MachineContract
        WITH method <- op, stage <- [c \in Callers |-> Stage(c)], answer <- result

\* What the callers and the machine see is what a VM shows whose methods are
\* carried out one at a time: no operation begins while another is under way, so
\* canStart and canStop speak about the operation that follows them; Close waits
\* for both; and each call returns its own verdict (vm_darwin.go:31-89,
\* applevm_bridge_darwin.m:245-448).
KeepsContract == Contract!Spec

\* Every variable has its type.
TypeOK ==
    /\ pc \in [Callers -> Places]
    /\ op \in [Callers -> Methods]
    /\ result \in [Callers -> {"none", "ok", "error", "closed"}]
    /\ mutex \subseteq Callers
    /\ native \in BOOLEAN
    /\ handle \in {"live", "freed"}
    /\ machine \in {"stopped", "starting", "running", "stopping", "released"}
    /\ handler \in [Callers -> HandlerPlaces]
    /\ verdict \in [Callers -> {"none", "ok", "error"}]
    /\ waiterLock \in [Callers -> {"free", "caller", "handler"}]
    /\ {frames, finished, message, descriptors, asleep} \subseteq SUBSET Callers
    /\ oom \in BOOLEAN

\* A handler that still has a step to make has a waiter to make it on: the
\* caller, whose stack the waiter is on, cannot leave before the handler has
\* unlocked, although it is signalled earlier (applevm_bridge_darwin.m:69-116).
WaiterOutlivesHandler ==
    \A c \in Callers : handler[c] # "none" => c \in frames

\* Nobody uses the native handle after Close has freed it, neither a caller in
\* the bridge nor a block or an operation that it started
\* (vm_darwin.go:61-73 against the other methods).
HandleOutlivesUse ==
    handle = "freed" =>
        \A c \in Callers : pc[c] \notin Bridge \cup {"destroy"} /\ handler[c] = "none"

\* Whoever is late, a handler, a block or a caller, finds what it works on alive:
\* neither the waiter on a caller's stack nor the native handle is used when gone.
NoUseAfterFree == WaiterOutlivesHandler /\ HandleOutlivesUse

\* The machine is asked for one thing at a time: no operation begins while
\* another is under way, so canStart and canStop speak about the operation that
\* follows them (vm_darwin.go:31-58, applevm_bridge_darwin.m:268-283).
OneOperationAtATime ==
    Cardinality({c \in Callers : handler[c] # "none"}) <= 1

\* A call that has returned
Settled(c) == pc[c] \in {"unlock", "idle"} /\ result[c] \in {"ok", "error"}

\* reports what the framework decided, with one exception: when there is no
\* memory for the message, a failed Start or Stop looks like a success.  A dial
\* never does, and never loses a connection (applevm_bridge_darwin.m:434-448,
\* bridge_darwin.go:104-121).
ResultIsVerdict ==
    \A c \in Callers :
        Settled(c) /\ op[c] # "close" =>
            result[c] = verdict[c] \/ (oom /\ op[c] # "dial" /\ verdict[c] = "error")

\* Every call returns if the framework completes what it has begun: no wake-up
\* is lost between the test and the sleep (applevm_bridge_darwin.m:101-116), and
\* a Close or Stop behind a slow dial gets its turn.
CallsReturn ==
    \A c \in Callers : pc[c] = "lock" ~> pc[c] = "idle"
=============================================================================
