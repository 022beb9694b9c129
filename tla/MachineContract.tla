---------------------------- MODULE MachineContract ----------------------------
(***************************************************************************)
(* What pkg/applevm promises whoever uses one VM: the calls of any number  *)
(* of goroutines take turns, and the machine sees them as if one goroutine *)
(* had made them, each complete before the next begins.  A call returns    *)
(* what the framework has decided about it, with one exception: a failed   *)
(* Start or Stop may be reported as a success if there is no memory for    *)
(* the message.                                                            *)
(***************************************************************************)
CONSTANTS
    Callers,         \* goroutines that use the VM
    MemoryMayRunOut  \* whether a message may get lost

VARIABLES
    method,  \* what a caller calls, or has called last
    stage,   \* how far that call has come
    answer,  \* what it has returned
    machine  \* the state of the virtual machine

contractVars == << method, stage, answer, machine >>

\* The stages of a call whose turn it is: the framework is at work, or has decided.
Turn == {"acting", "ok", "error"}

Move(c, from, to) ==
    /\ stage[c] = from
    /\ stage' = [stage EXCEPT ![c] = to]

\* The turn is c's when it is nobody's.
Free == \A d \in Callers : stage[d] \notin Turn

Call(c, m) ==
    /\ Move(c, "idle", "called")
    /\ method' = [method EXCEPT ![c] = m]
    /\ answer' = [answer EXCEPT ![c] = "none"]
    /\ UNCHANGED machine

\* Start and Stop find the machine in the state that they need.
Begin(c) ==
    /\ Free
    /\ Move(c, "called", "acting")
    /\ \/ method[c] = "start" /\ machine = "stopped" /\ machine' = "starting"
       \/ method[c] = "stop" /\ machine = "running" /\ machine' = "stopping"
       \/ method[c] = "dial" /\ machine # "released" /\ UNCHANGED machine
    /\ UNCHANGED << method, answer >>

Refuse(c) ==
    /\ Free
    /\ Move(c, "called", "error")
    /\ \/ method[c] = "start" /\ machine \notin {"stopped", "released"}
       \/ method[c] = "stop" /\ machine \notin {"running", "released"}
    /\ UNCHANGED << method, answer, machine >>

\* The framework leaves the machine where the method has brought it, or puts it
\* back; a connection needs a machine that runs.
Finish(c) ==
    /\ \/ /\ Move(c, "acting", "ok")
          /\ \/ method[c] = "start" /\ machine = "starting" /\ machine' = "running"
             \/ method[c] = "stop" /\ machine = "stopping" /\ machine' = "stopped"
             \/ method[c] = "dial" /\ machine = "running" /\ UNCHANGED machine
       \/ /\ Move(c, "acting", "error")
          /\ \/ method[c] = "start" /\ machine = "starting" /\ machine' = "stopped"
             \/ method[c] = "stop" /\ machine = "stopping" /\ machine' = "running"
             \/ method[c] = "dial" /\ machine # "released" /\ UNCHANGED machine
    /\ UNCHANGED << method, answer >>

Answer(c, value) ==
    /\ answer' = [answer EXCEPT ![c] = value]
    /\ UNCHANGED method

Return(c) ==
    /\ UNCHANGED machine
    /\ \/ Move(c, "ok", "idle") /\ Answer(c, "ok")
       \/ Move(c, "error", "idle") /\ Answer(c, "error")
       \/ /\ MemoryMayRunOut /\ method[c] # "dial"
          /\ Move(c, "error", "idle") /\ Answer(c, "ok")

\* Close waits for its turn, and may be called again.
Close(c) ==
    /\ Free
    /\ Move(c, "called", "idle")
    /\ method[c] = "close"
    /\ machine' = "released"
    /\ Answer(c, "ok")

AnswerClosed(c) ==
    /\ Move(c, "called", "idle")
    /\ method[c] # "close"
    /\ machine = "released" /\ UNCHANGED machine
    /\ Answer(c, "closed")

GuestStops ==
    /\ machine = "running"
    /\ machine' = "stopped"
    /\ UNCHANGED << method, stage, answer >>

Init ==
    /\ method = [c \in Callers |-> "close"]
    /\ stage = [c \in Callers |-> "idle"]
    /\ answer = [c \in Callers |-> "none"]
    /\ machine = "stopped"

Next ==
    \/ \E c \in Callers :
          \/ \E m \in {"start", "stop", "dial", "close"} : Call(c, m)
          \/ Begin(c) \/ Refuse(c) \/ Finish(c) \/ Return(c)
          \/ Close(c) \/ AnswerClosed(c)
    \/ GuestStops

Spec == Init /\ [][Next]_contractVars
=============================================================================
