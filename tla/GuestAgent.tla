------------------------------- MODULE GuestAgent -------------------------------
(***************************************************************************)
(* kernlet-agent as the guest's first process (cmd/kernlet-agent): its     *)
(* start, the vsock listener, one goroutine per connection, and for every  *)
(* run request the image bundle (internal/oci) and the call of runtime.Run,*)
(* of which only its contract matters here.  The host is the environment:  *)
(* it connects, sends requests and leaves whenever it likes.               *)
(***************************************************************************)
EXTENDS Integers, Sequences, FiniteSets

CONSTANTS
    Connections,  \* the connections that the host may open
    Pings,        \* requests with method "ping"
    Runs,         \* requests with method "run"
    Unknown,      \* requests with another method
    Garbled,      \* what does not decode as a request
    Backlog,      \* the argument of listen, 16 in the code
    MaxFaults     \* bound on the calls that fail without a cause

Requests == Pings \cup Runs \cup Unknown \cup Garbled

ASSUME RequestsAssumption ==
    /\ Pings \cap (Runs \cup Unknown \cup Garbled) = {}
    /\ Runs \cap (Unknown \cup Garbled) = {}
    /\ Unknown \cap Garbled = {}

ASSUME BoundsAssumption == Backlog \in Nat \ {0} /\ MaxFaults \in Nat

VARIABLES
    agent,     \* where the main goroutine stands
    backlog,   \* connections that wait to be accepted
    hostEnd,   \* the host's end of each connection
    sent,      \* history: what the host has sent on a connection
    inbox,     \* what the connection's goroutine has not decoded yet
    handler,   \* where the connection's goroutine stands
    job,       \* the request that the goroutine handles, as a set
    answer,    \* whether the response to it will be OK
    replies,   \* the responses written on a connection
    bundles,   \* run requests whose extracted image exists
    phase,     \* what has become of the call of Run for a request
    faults     \* history: the calls that failed without a cause

hostVars == << hostEnd, sent >>
connVars == << inbox, handler, job, answer, replies >>
workVars == << bundles, phase >>
vars == << agent, backlog, hostVars, connVars, workVars, faults >>

Run == INSTANCE RunContract

AgentPlaces ==
    {"mountProc", "mountSys", "mountCgroup", "setupCgroups", "checkServer",
     "listen", "accept", "panicked"}

HandlerPlaces ==
    {"none", "decode", "prepare", "run", "removeBundle", "encode", "done"}

Returned == {"succeeded", "failed"}

\* A call fails although the state of the system gives no cause; whose is the
\* request that it is made for, or "agent".
Fault(whose, call) ==
    /\ Cardinality(faults) < MaxFaults
    /\ faults' = faults \cup {<< whose, call >>}

\* RemoveAll fails for the bundle of the request that goroutine c handles.
RemoveAllFails(c) == \E q \in job[c] : Fault(q, "RemoveAll")

Goto(c, place) == handler' = [handler EXCEPT ![c] = place]

Alive == agent # "panicked"

-----------------------------------------------------------------------------
(* The main goroutine.  Every error of it is a panic of the first process  *)
(* of the guest, which ends the guest.                                     *)

Boot(p, q) ==
    /\ agent = p
    /\ agent' = q
    /\ UNCHANGED << backlog, hostVars, connVars, workVars, faults >>

MountFilesystems ==
    \/ Boot("mountProc", "mountSys")
    \/ Boot("mountSys", "mountCgroup")
    \/ Boot("mountCgroup", "setupCgroups")

SetupCgroups == Boot("setupCgroups", "checkServer")

StartNetworkCheckServer == Boot("checkServer", "listen")

\* socket, bind and listen.
Listen == Boot("listen", "accept")

\* A step of the start fails, or Accept of the vsock listener or of the network
\* check listener does.
AgentPanics ==
    /\ Alive
    /\ Fault("agent", agent)
    /\ agent' = "panicked"
    /\ UNCHANGED << backlog, hostVars, connVars, workVars >>

AcceptConnection ==
    /\ agent = "accept"
    /\ backlog # << >>
    /\ backlog' = Tail(backlog)
    /\ Goto(Head(backlog), "decode")
    /\ UNCHANGED << agent, hostVars, inbox, job, answer, replies, workVars, faults >>

-----------------------------------------------------------------------------
(* The host.                                                               *)

\* The kernel keeps at most Backlog connections until they are accepted.
HasRoom == Len(backlog) < Backlog

Connect(c) ==
    /\ agent = "accept"
    /\ hostEnd[c] = "unused"
    /\ HasRoom
    /\ hostEnd' = [hostEnd EXCEPT ![c] = "open"]
    /\ backlog' = Append(backlog, c)
    /\ UNCHANGED << agent, sent, connVars, workVars, faults >>

\* Each request is sent once; nothing else limits what the host sends when.
Send(c, q) ==
    /\ Alive
    /\ hostEnd[c] = "open"
    /\ \A d \in Connections : \A i \in DOMAIN sent[d] : sent[d][i] # q
    /\ sent' = [sent EXCEPT ![c] = Append(@, q)]
    /\ inbox' = [inbox EXCEPT ![c] = IF handler[c] = "done" THEN @ ELSE Append(@, q)]
    /\ UNCHANGED << agent, backlog, hostEnd, handler, job, answer, replies, workVars, faults >>

\* The host closes its end; what it has sent can still be read.
Disconnect(c) ==
    /\ Alive
    /\ hostEnd[c] = "open"
    /\ hostEnd' = [hostEnd EXCEPT ![c] = "closed"]
    /\ UNCHANGED << agent, backlog, sent, connVars, workVars, faults >>

-----------------------------------------------------------------------------
(* handleConnection and handleRequest.                                     *)

At(c, place) == Alive /\ handler[c] = place

\* Decode returns a request and handleRequest looks at its method.
DecodeRequest(c) ==
    /\ At(c, "decode")
    /\ inbox[c] # << >>
    /\ Head(inbox[c]) \notin Garbled
    /\ inbox' = [inbox EXCEPT ![c] = Tail(@)]
    /\ job' = [job EXCEPT ![c] = {Head(inbox[c])}]
    /\ answer' = [answer EXCEPT ![c] = Head(inbox[c]) \in Pings]
    /\ Goto(c, IF Head(inbox[c]) \in Runs THEN "prepare" ELSE "encode")
    /\ UNCHANGED << agent, backlog, hostVars, replies, workVars, faults >>

\* Mutant: a decoder that has failed is asked again, and again returns its error.
DecodeRetries(c) ==
    /\ At(c, "decode")
    /\ inbox[c] = << >> /\ hostEnd[c] = "closed"
    /\ Goto(c, "done")
    /\ UNCHANGED << agent, backlog, hostVars, inbox, job, answer, replies, workVars, faults >>

\* Decode fails or meets the end of the stream: the goroutine returns without
\* an answer, and what follows on the connection is lost.
DecodeFails(c) ==
    /\ At(c, "decode")
    /\ \/ inbox[c] # << >> /\ Head(inbox[c]) \in Garbled
       \/ inbox[c] = << >> /\ hostEnd[c] = "closed"
    /\ Goto(c, "done")
    /\ inbox' = [inbox EXCEPT ![c] = << >>]
    /\ UNCHANGED << agent, backlog, hostVars, job, answer, replies, workVars, faults >>

PrepareImage(c) ==
    /\ At(c, "prepare")
    /\ bundles' = bundles \cup job[c]
    /\ Goto(c, "run")
    /\ UNCHANGED << agent, backlog, hostVars, inbox, job, answer, replies, phase, faults >>

\* The image is rejected or cannot be unpacked; Prepare has removed what it has
\* unpacked, unless that fails too.
PrepareFails(c) ==
    /\ At(c, "prepare")
    /\ \/ UNCHANGED << bundles, faults >>
       \/ bundles' = bundles \cup job[c] /\ RemoveAllFails(c)
    /\ Goto(c, "encode")
    /\ UNCHANGED << agent, backlog, hostVars, inbox, job, answer, replies, phase >>

\* The call of Run makes progress, concurrently with the other goroutines.
RunProgress(c) ==
    /\ At(c, "run")
    /\ \E q \in job[c] :
          \/ Run!Call(q) \/ Run!Launch(q) \/ Run!Execute(q)
          \/ Run!Complete(q) \/ Run!Abort(q)
          \/ Run!ReturnSuccess(q) \/ Run!ReturnFailure(q)
    /\ UNCHANGED << agent, backlog, hostVars, connVars, bundles, faults >>

\* Mutant: the bundle is closed while Run is under way.
RunReturnsEarly(c) ==
    /\ At(c, "run")
    /\ \A q \in job[c] : phase[q] # "idle"
    /\ Goto(c, "removeBundle")
    /\ UNCHANGED << agent, backlog, hostVars, inbox, job, answer, replies, workVars, faults >>

RunReturns(c) ==
    /\ At(c, "run")
    /\ \A q \in job[c] : phase[q] \in Returned
    /\ Goto(c, "removeBundle")
    /\ UNCHANGED << agent, backlog, hostVars, inbox, job, answer, replies, workVars, faults >>

\* Mutant: the error of bundle.Close is dropped.
RemoveBundleUnchecked(c) ==
    /\ At(c, "removeBundle")
    /\ answer' = [answer EXCEPT ![c] = \A q \in job[c] : phase[q] = "succeeded"]
    /\ \/ bundles' = bundles \ job[c] /\ UNCHANGED faults
       \/ UNCHANGED bundles /\ RemoveAllFails(c)
    /\ Goto(c, "encode")
    /\ UNCHANGED << agent, backlog, hostVars, inbox, job, replies, phase >>

\* bundle.Close; its error turns a success into a failure.
RemoveBundle(c) ==
    /\ At(c, "removeBundle")
    /\ \/ /\ bundles' = bundles \ job[c]
          /\ answer' = [answer EXCEPT ![c] = \A q \in job[c] : phase[q] = "succeeded"]
          /\ UNCHANGED faults
       \/ /\ RemoveAllFails(c)
          /\ UNCHANGED << bundles, answer >>
    /\ Goto(c, "encode")
    /\ UNCHANGED << agent, backlog, hostVars, inbox, job, replies, phase >>

\* A write may succeed although the host has just left.
EncodeResponse(c) ==
    /\ At(c, "encode")
    /\ \E q \in job[c] :
          replies' = [replies EXCEPT ![c] = Append(@, [id |-> q, ok |-> answer[c]])]
    /\ job' = [job EXCEPT ![c] = {}]
    /\ Goto(c, "decode")
    /\ UNCHANGED << agent, backlog, hostVars, inbox, answer, workVars, faults >>

EncodeFails(c) ==
    /\ At(c, "encode")
    /\ hostEnd[c] = "closed"
    /\ Goto(c, "done")
    /\ job' = [job EXCEPT ![c] = {}]
    /\ inbox' = [inbox EXCEPT ![c] = << >>]
    /\ UNCHANGED << agent, backlog, hostVars, answer, replies, workVars, faults >>

-----------------------------------------------------------------------------
Init ==
    /\ agent = "mountProc"
    /\ backlog = << >>
    /\ hostEnd = [c \in Connections |-> "unused"]
    /\ sent = [c \in Connections |-> << >>]
    /\ inbox = [c \in Connections |-> << >>]
    /\ handler = [c \in Connections |-> "none"]
    /\ job = [c \in Connections |-> {}]
    /\ answer = [c \in Connections |-> FALSE]
    /\ replies = [c \in Connections |-> << >>]
    /\ bundles = {}
    /\ Run!Init
    /\ faults = {}

MainStep ==
    \/ MountFilesystems \/ SetupCgroups \/ StartNetworkCheckServer \/ Listen
    \/ AcceptConnection

HandlerStep(c) ==
    \/ DecodeRequest(c) \/ DecodeFails(c)
    \/ PrepareImage(c) \/ PrepareFails(c)
    \/ RunProgress(c) \/ RunReturns(c)
    \/ RemoveBundle(c)
    \/ EncodeResponse(c) \/ EncodeFails(c)

HostStep(c) == Connect(c) \/ Disconnect(c) \/ \E q \in Requests : Send(c, q)

Next ==
    \/ MainStep
    \/ AgentPanics
    \/ \E c \in Connections : HandlerStep(c) \/ HostStep(c)

Spec == Init /\ [][Next]_vars

\* The Go scheduler runs every goroutine that can run, and a call of Run makes
\* progress and returns as WorkloadRun shows, provided its workload ends.
\* Nothing is assumed of the host, and no call has to fail.
Fairness ==
    /\ WF_vars(MainStep)
    /\ \A c \in Connections : WF_vars(HandlerStep(c))

FairSpec == Spec /\ Fairness

-----------------------------------------------------------------------------
\* Every variable has its type, and the backlog its bound.
TypeOK ==
    /\ agent \in AgentPlaces
    /\ backlog \in Seq(Connections) /\ Len(backlog) <= Backlog
    /\ hostEnd \in [Connections -> {"unused", "open", "closed"}]
    /\ sent \in [Connections -> Seq(Requests)]
    /\ inbox \in [Connections -> Seq(Requests)]
    /\ handler \in [Connections -> HandlerPlaces]
    /\ job \in [Connections -> SUBSET Requests]
    /\ answer \in [Connections -> BOOLEAN]
    /\ replies \in [Connections -> Seq([id : Requests, ok : BOOLEAN])]
    /\ bundles \subseteq Runs
    /\ Run!TypeOK

\* The answers on a connection are the answers to the requests sent on it, one
\* each and in their order, however the host pipelines them and whatever other
\* connections do; nothing that follows a request that does not decode is
\* answered (main_linux.go:251-285).
RepliesMatchRequests ==
    \A c \in Connections :
        /\ Len(replies[c]) <= Len(sent[c])
        /\ \A i \in DOMAIN replies[c] :
              /\ replies[c][i].id = sent[c][i]
              /\ sent[c][i] \notin Garbled

\* The host is told OK for a run only if Run succeeded and the image's bundle is
\* gone: no partial failure of the two is hidden (main_linux.go:329-363).
OkMeansRunAndRemoved ==
    \A c \in Connections :
        \A i \in DOMAIN replies[c] :
            replies[c][i].ok =>
                \/ replies[c][i].id \in Pings
                \/ replies[c][i].id \in Runs /\ phase[replies[c][i].id] = "succeeded"
                                             /\ replies[c][i].id \notin bundles

\* What the host is told is true: the answer belongs to the request, and OK hides
\* no failure.
AnswersAreTrue == RepliesMatchRequests /\ OkMeansRunAndRemoved

\* The image's root exists for as long as a process of its run may use it
\* (main_linux.go:301-327).
BundleOutlivesWorkload ==
    \A q \in Runs :
        phase[q] \in {"preparing", "launched", "executing"} => q \in bundles

\* A bundle exists only while its request is being handled, or because RemoveAll
\* failed for this very bundle; neither the host's leaving, nor a failing run or
\* image, nor the failure of another request leaves one (main_linux.go:301-327).
NoOrphanBundle ==
    \A q \in bundles :
        \/ \E c \in Connections : q \in job[c] /\ handler[c] \in {"run", "removeBundle"}
        \/ << q, "RemoveAll" >> \in faults

\* A bundle is there while its workload may use it, and no longer than its request
\* is being handled: neither removed too early nor forgotten.
BundleLifetime == BundleOutlivesWorkload /\ NoOrphanBundle

\* How far the bundle of q has come: it is held while Run uses it and until it has
\* been closed.  A refusal that leaves nothing looks like a request that nobody has
\* handled yet.
BundleStatus(q) ==
    IF \/ phase[q] \notin Returned \cup {"idle"}
       \/ \E c \in Connections : q \in job[c] /\ handler[c] \in {"run", "removeBundle"}
    THEN "held"
    ELSE IF phase[q] \in Returned THEN "released"
    ELSE IF << q, "RemoveAll" >> \in faults THEN "refused"
    ELSE "asked"

BundleContract == INSTANCE DirectoryContract WITH
    Directories <- Runs,
    status <- [q \in Runs |-> BundleStatus(q)],
    existing <- bundles,
    stuck <- {q \in Runs : << q, "RemoveAll" >> \in faults}

\* Every bundle keeps the contract of a directory: whatever connections, hosts and
\* failing calls do, it is made once, is there for as long as Run or its workload
\* uses it, and is removed by the request that has made it (main_linux.go:301-363).
KeepsContract == BundleContract!Spec

Answered(c, q) == \E i \in DOMAIN replies[c] : replies[c][i].id = q

\* Again and again everything sent on a connection has been answered, or the
\* connection has been given up or the guest is lost: no goroutine waits forever
\* on another, on the listener or on a decoder that has failed.  As requests run
\* out, this settles each of them.
RequestsSettled ==
    \A c \in Connections :
        []<>(\/ \A i \in DOMAIN sent[c] : Answered(c, sent[c][i])
             \/ handler[c] = "done"
             \/ ~Alive)
=============================================================================
