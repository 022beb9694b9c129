------------------------------ MODULE NetworkCheck ------------------------------
(***************************************************************************)
(* The network check: a workload that probes its network (kernlet-agent    *)
(* --identity) connects to the agent through its gateway, sends a request  *)
(* and waits for the answer.  The agent serves every connection in a       *)
(* goroutine of its own, and both sides give up after two seconds.  Other  *)
(* workloads may connect to the same port and send what they like.         *)
(***************************************************************************)
EXTENDS Integers, Sequences

CONSTANTS
    Probes,         \* workloads that execute verifyGuestNetwork
    Others,         \* other connections to the port
    RequestLength,  \* the request in pieces that may arrive one by one
    Deadline        \* two seconds, in ticks of the clock

Peers == Probes \cup Others

ASSUME PeersAssumption == Probes \cap Others = {}

ASSUME TimeAssumption ==
    RequestLength \in Nat \ {0} /\ Deadline \in Nat \ {0}

VARIABLES
    peer,      \* where a workload stands
    clock,     \* the time since it has set its deadline
    arrived,   \* the pieces that have reached the agent, whether right or wrong
    backlog,   \* connections that wait to be accepted
    handler,   \* where the goroutine of a connection stands
    age,       \* the time since that goroutine has set its deadline
    answered,  \* connections on which the response has been written
    broken,    \* history: probes whose environment or network is broken
    hurried    \* history: time has passed while somebody could act

vars == << peer, clock, arrived, backlog, handler, age, answered, broken, hurried >>

GotoPeer(p, place) == peer' = [peer EXCEPT ![p] = place]

GotoHandler(p, place) == handler' = [handler EXCEPT ![p] = place]

Connected == {"sending", "waiting"}

-----------------------------------------------------------------------------
(* The probe: main with --identity, and verifyGuestNetwork.                *)

\* The facts about the process can be read, and the gateway is named.
GatherFacts(p) ==
    /\ p \in Probes /\ peer[p] = "start"
    /\ \/ GotoPeer(p, "dial") /\ UNCHANGED broken
       \/ GotoPeer(p, "failed") /\ broken' = broken \cup {p}
    /\ UNCHANGED << clock, arrived, backlog, handler, age, answered, hurried >>

\* The kernel completes the connection before the agent accepts it.
Dial(p) ==
    /\ peer[p] = IF p \in Probes THEN "dial" ELSE "start"
    /\ GotoPeer(p, "sending")
    /\ backlog' = Append(backlog, p)
    /\ clock' = [clock EXCEPT ![p] = 0]
    /\ UNCHANGED << arrived, handler, age, answered, broken, hurried >>

\* Dialling, setting the deadline or writing fails: there is no network.
ProbeBreaks(p) ==
    /\ p \in Probes /\ peer[p] \in {"dial", "sending"}
    /\ GotoPeer(p, "failed")
    /\ broken' = broken \cup {p}
    /\ UNCHANGED << clock, arrived, backlog, handler, age, answered, hurried >>

\* A piece of the request arrives.
Deliver(p) ==
    /\ p \in Probes /\ peer[p] = "sending"
    /\ arrived' = [arrived EXCEPT ![p] = Append(@, "right")]
    /\ GotoPeer(p, IF Len(arrived'[p]) = RequestLength THEN "waiting" ELSE "sending")
    /\ UNCHANGED << clock, backlog, handler, age, answered, broken, hurried >>

\* The response is there, and network=ready is printed.
ReadResponse(p) ==
    /\ p \in Probes /\ peer[p] = "waiting"
    /\ p \in answered
    /\ GotoPeer(p, "ready")
    /\ UNCHANGED << clock, arrived, backlog, handler, age, answered, broken, hurried >>

\* The agent has closed the connection without it, or time is up.
ProbeGivesUp(p) ==
    /\ p \in Probes /\ peer[p] \in Connected
    /\ (handler[p] = "closed" /\ p \notin answered) \/ clock[p] >= Deadline
    /\ GotoPeer(p, "failed")
    /\ UNCHANGED << clock, arrived, backlog, handler, age, answered, broken, hurried >>

\* Another workload sends a piece of anything, or hangs up.
OtherSends(p) ==
    /\ p \in Others /\ peer[p] = "sending"
    /\ Len(arrived[p]) <= RequestLength
    /\ \E piece \in {"right", "wrong"} : arrived' = [arrived EXCEPT ![p] = Append(@, piece)]
    /\ UNCHANGED << peer, clock, backlog, handler, age, answered, broken, hurried >>

OtherHangsUp(p) ==
    /\ p \in Others /\ peer[p] = "sending"
    /\ GotoPeer(p, "gone")
    /\ UNCHANGED << clock, arrived, backlog, handler, age, answered, broken, hurried >>

-----------------------------------------------------------------------------
(* The agent: serveNetworkChecks and handleNetworkCheck.                   *)

\* Mutant: the loop handles the connection itself.
MayAcceptAlone == \A p \in Peers : handler[p] # "reading"

\* The loop starts a goroutine for each connection.
MayAccept == TRUE

Accept ==
    /\ backlog # << >>
    /\ MayAccept
    /\ backlog' = Tail(backlog)
    /\ GotoHandler(Head(backlog), "reading")
    /\ age' = [age EXCEPT ![Head(backlog)] = 0]
    /\ UNCHANGED << peer, clock, arrived, answered, broken, hurried >>

\* Mutant: what has arrived is compared before it is complete.
RightSoFar(p) == \A i \in DOMAIN arrived[p] : arrived[p][i] = "right"

RightRequest(p) ==
    /\ Len(arrived[p]) >= RequestLength
    /\ \A i \in 1 .. RequestLength : arrived[p][i] = "right"

Respond(p) ==
    /\ handler[p] = "reading"
    /\ RightRequest(p)
    /\ answered' = answered \cup {p}
    /\ GotoHandler(p, "closed")
    /\ UNCHANGED << peer, clock, arrived, backlog, age, broken, hurried >>

\* Mutant: no deadline is set.
NeverExpires(p) == FALSE

Expired(p) == age[p] >= Deadline

\* ReadFull meets the end of the stream or the deadline, or has read something
\* else than the request.
DropCheck(p) ==
    /\ handler[p] = "reading"
    /\ \/ Len(arrived[p]) >= RequestLength /\ ~RightRequest(p)
       \/ Len(arrived[p]) < RequestLength /\ peer[p] \in {"gone", "failed"}
       \/ Expired(p)
    /\ GotoHandler(p, "closed")
    /\ UNCHANGED << peer, clock, arrived, backlog, age, answered, broken, hurried >>

-----------------------------------------------------------------------------
ProbeStep(p) ==
    \/ GatherFacts(p) \/ Dial(p) \/ ProbeBreaks(p)
    \/ Deliver(p) \/ ReadResponse(p) \/ ProbeGivesUp(p)

HandlerStep(p) == Respond(p) \/ DropCheck(p)

\* A probe or the agent can act.
SomebodyCanAct ==
    \/ backlog # << >> /\ MayAccept
    \/ \E p \in Probes :
          peer[p] \in {"start", "dial", "sending"} \/ (peer[p] = "waiting" /\ p \in answered)
    \/ \E p \in Peers : handler[p] = "reading" /\ Len(arrived[p]) >= RequestLength

\* Time passes for everyone who has set a deadline.
Tick ==
    /\ \/ \E p \in Probes : peer[p] \in Connected /\ clock[p] < Deadline
       \/ \E p \in Peers : handler[p] = "reading" /\ age[p] < Deadline
    /\ clock' = [p \in Peers |->
                    IF p \in Probes /\ peer[p] \in Connected /\ clock[p] < Deadline
                    THEN clock[p] + 1 ELSE clock[p]]
    /\ age' = [p \in Peers |->
                    IF handler[p] = "reading" /\ age[p] < Deadline THEN age[p] + 1 ELSE age[p]]
    /\ hurried' = (hurried \/ SomebodyCanAct)
    /\ UNCHANGED << peer, arrived, backlog, handler, answered, broken >>

Init ==
    /\ peer = [p \in Peers |-> "start"]
    /\ clock = [p \in Peers |-> 0]
    /\ arrived = [p \in Peers |-> << >>]
    /\ backlog = << >>
    /\ handler = [p \in Peers |-> "none"]
    /\ age = [p \in Peers |-> 0]
    /\ answered = {}
    /\ broken = {}
    /\ hurried = FALSE

Next ==
    \/ Accept \/ Tick
    \/ \E p \in Peers : ProbeStep(p) \/ OtherSends(p) \/ OtherHangsUp(p) \/ HandlerStep(p)

Spec == Init /\ [][Next]_vars

\* The accept loop, the goroutines and the clock go on; nothing is assumed of
\* those who connect.
FairSpec ==
    /\ Spec
    /\ WF_vars(Accept) /\ WF_vars(Tick)
    /\ \A p \in Peers : WF_vars(HandlerStep(p))

-----------------------------------------------------------------------------
\* Every variable has its type; no clock runs beyond its deadline, and the agent
\* is done with a connection that it has answered.
TypeOK ==
    /\ peer \in [Peers -> Connected \cup {"start", "dial", "ready", "failed", "gone"}]
    /\ clock \in [Peers -> 0 .. Deadline]
    /\ \A p \in Peers :
          arrived[p] \in Seq({"right", "wrong"}) /\ Len(arrived[p]) <= RequestLength + 1
    /\ backlog \in Seq(Peers)
    /\ handler \in [Peers -> {"none", "reading", "closed"}]
    /\ age \in [Peers -> 0 .. Deadline]
    /\ answered \subseteq {p \in Peers : handler[p] = "closed"}
    /\ broken \subseteq Probes
    /\ hurried \in BOOLEAN

\* A workload reports its network ready only if its own request has reached the
\* agent entirely and the agent has answered it on the same connection; and the
\* agent answers nothing else (network_linux.go:50-60, 82-90).
ReadyMeansAnswered ==
    /\ \A p \in Probes : peer[p] = "ready" => p \in answered
    /\ \A p \in answered :
          /\ Len(arrived[p]) >= RequestLength
          /\ \A i \in 1 .. RequestLength : arrived[p][i] = "right"

\* A stalled or hostile connection costs nobody else anything: where two seconds
\* are enough for those who can act, a probe fails only because its own network
\* is broken, never because of what other connections send, keep back or hold
\* open (network_linux.go:34-47).
OnlyBrokenProbesFail ==
    ~hurried => \A p \in Probes : peer[p] = "failed" => p \in broken

\* Every connection is accepted and its goroutine ends, whatever the other end
\* does or fails to do.
ChecksEnd == \A p \in Peers : peer[p] \in Connected ~> handler[p] = "closed"
=============================================================================
