--------------------------- MODULE NetworkCheckProofs ---------------------------
(***************************************************************************)
(* Proofs about NetworkCheck, for any number of probes and of other        *)
(* connections, any length of the request and any deadline.                *)
(*                                                                         *)
(* A probe fails for want of time only if its clock or the one of its      *)
(* goroutine has run; as long as time waits for those who can act, neither *)
(* clock runs while the probe is connected (CalmInv).                      *)
(***************************************************************************)
EXTENDS NetworkCheck, TLAPS

\* A connection waits once and before it has a goroutine, and it has one or
\* waits from its dialling on.
QueueInv ==
    /\ \A i \in 1 .. Len(backlog) :
          handler[backlog[i]] = "none" /\ peer[backlog[i]] \notin {"start", "dial"}
    /\ \A i, j \in 1 .. Len(backlog) : backlog[i] = backlog[j] => i = j
    /\ \A p \in Peers : peer[p] \in {"start", "dial"} => handler[p] = "none"
    /\ \A p \in Peers :
          peer[p] \in Connected /\ handler[p] = "none" =>
              \E i \in 1 .. Len(backlog) : backlog[i] = p

\* A probe sends the request, and waits when it has sent all of it.
PieceInv ==
    /\ arrived \in [Peers -> Seq({"right", "wrong"})]
    /\ \A p \in Probes :
          /\ Len(arrived[p]) <= RequestLength
          /\ \A i \in 1 .. Len(arrived[p]) : arrived[p][i] = "right"
          /\ peer[p] \in {"start", "dial"} => Len(arrived[p]) = 0
          /\ peer[p] = "sending" => Len(arrived[p]) < RequestLength
          /\ peer[p] = "waiting" => Len(arrived[p]) = RequestLength

\* As long as time waits for those who can act, it has not begun to run for a
\* connected probe, and its goroutine has not ended without the answer.
CalmInv ==
    ~hurried => \A p \in Probes :
        /\ peer[p] = "failed" => p \in broken
        /\ peer[p] \in Connected =>
              /\ clock[p] = 0
              /\ handler[p] = "reading" => age[p] = 0
              /\ handler[p] = "closed" => p \in answered

IInv == TypeOK /\ QueueInv /\ PieceInv /\ ReadyMeansAnswered /\ CalmInv

-----------------------------------------------------------------------------
\* What Append returns.
LEMMA AppendFacts ==
    ASSUME NEW S, NEW s \in Seq(S), NEW e \in S
    PROVE  /\ Append(s, e) \in Seq(S)
           /\ Len(Append(s, e)) = Len(s) + 1 /\ Append(s, e)[Len(s) + 1] = e
           /\ \A i \in 1 .. Len(s) : Append(s, e)[i] = s[i]
OBVIOUS

\* What Head and Tail return.
LEMMA TailFacts ==
    ASSUME NEW S, NEW s \in Seq(S), s # << >>
    PROVE  /\ Head(s) = s[1] /\ Head(s) \in S /\ 1 \in 1 .. Len(s)
           /\ Tail(s) \in Seq(S) /\ Len(Tail(s)) = Len(s) - 1
           /\ \A i \in 1 .. Len(s) - 1 : Tail(s)[i] = s[i + 1] /\ i + 1 \in 1 .. Len(s)
OBVIOUS

\* Accepting a connection keeps the types.
LEMMA AcceptKeepsTypes == TypeOK /\ QueueInv /\ Accept => TypeOK'
<1> SUFFICES ASSUME TypeOK, QueueInv, Accept PROVE TypeOK'
  OBVIOUS
<1>1. /\ Head(backlog) = backlog[1] /\ Head(backlog) \in Peers /\ 1 \in 1 .. Len(backlog)
      /\ Tail(backlog) \in Seq(Peers)
  BY TailFacts DEF TypeOK, Accept
<1>2. handler[Head(backlog)] = "none"
  BY <1>1 DEF QueueInv
<1>3. 0 \in 0 .. Deadline
  BY TimeAssumption
<1> QED
  BY <1>1, <1>2, <1>3 DEF TypeOK, Accept, GotoHandler

\* Whatever arrives, the types are kept.
LEMMA ArrivalsKeepTypes ==
    ASSUME TypeOK, PieceInv, NEW p \in Peers, Deliver(p) \/ OtherSends(p)
    PROVE  TypeOK'
<1>1. PICK piece \in {"right", "wrong"} : arrived' = [arrived EXCEPT ![p] = Append(@, piece)]
  BY DEF Deliver, OtherSends
<1>2. Len(arrived[p]) <= RequestLength /\ arrived[p] \in Seq({"right", "wrong"})
  BY DEF Deliver, OtherSends, PieceInv
<1>3. /\ Append(arrived[p], piece) \in Seq({"right", "wrong"})
      /\ Len(Append(arrived[p], piece)) = Len(arrived[p]) + 1
  BY <1>2, AppendFacts
<1>4. arrived'[p] = Append(arrived[p], piece) /\ \A q \in Peers \ {p} : arrived'[q] = arrived[q]
  BY <1>1 DEF PieceInv
<1>5. Len(arrived'[p]) <= RequestLength + 1
  BY <1>2, <1>3, <1>4, TimeAssumption
<1>6. \A q \in Peers :
          arrived'[q] \in Seq({"right", "wrong"}) /\ Len(arrived'[q]) <= RequestLength + 1
  BY <1>3, <1>4, <1>5 DEF TypeOK
<1>7. /\ peer' \in [Peers -> Connected \cup {"start", "dial", "ready", "failed", "gone"}]
      /\ UNCHANGED << clock, backlog, handler, age, answered, broken, hurried >>
  BY DEF TypeOK, Deliver, OtherSends, GotoPeer, Connected
<1> QED
  BY <1>6, <1>7 DEF TypeOK

\* The clock stops at the deadline.
LEMMA TickKeepsTypes == TypeOK /\ Tick => TypeOK'
<1> SUFFICES ASSUME TypeOK, Tick PROVE TypeOK'
  OBVIOUS
<1>1. /\ clock' \in [Peers -> 0 .. Deadline] /\ age' \in [Peers -> 0 .. Deadline]
  BY TimeAssumption DEF TypeOK, Tick
<1>2. hurried' \in BOOLEAN
  BY DEF TypeOK, Tick, SomebodyCanAct, MayAccept
<1> QED
  BY <1>1, <1>2 DEF TypeOK, Tick

\* The types are preserved.
LEMMA TypePreserved == TypeOK /\ QueueInv /\ PieceInv /\ [Next]_vars => TypeOK'
<1> SUFFICES ASSUME TypeOK, QueueInv, PieceInv, [Next]_vars PROVE TypeOK'
  OBVIOUS
<1> USE DEF TypeOK, GotoPeer, GotoHandler, Connected
<1>1. CASE Accept
  BY <1>1, AcceptKeepsTypes
<1>2. CASE Tick
  BY <1>2, TickKeepsTypes
<1>3. ASSUME NEW p \in Peers, ProbeStep(p) PROVE TypeOK'
  <2>1. CASE GatherFacts(p)
    BY <2>1 DEF GatherFacts
  <2>2. CASE Dial(p)
    <3>1. Append(backlog, p) \in Seq(Peers)
      BY AppendFacts
    <3>2. 0 \in 0 .. Deadline
      BY TimeAssumption
    <3> QED
      BY <2>2, <3>1, <3>2 DEF Dial
  <2>3. CASE ProbeBreaks(p)
    BY <2>3 DEF ProbeBreaks
  <2>4. CASE Deliver(p)
    BY <2>4, ArrivalsKeepTypes
  <2>5. CASE ReadResponse(p)
    BY <2>5 DEF ReadResponse
  <2>6. CASE ProbeGivesUp(p)
    BY <2>6 DEF ProbeGivesUp
  <2> QED
    BY <1>3, <2>1, <2>2, <2>3, <2>4, <2>5, <2>6 DEF ProbeStep
<1>4. ASSUME NEW p \in Peers, OtherSends(p) PROVE TypeOK'
  BY <1>4, ArrivalsKeepTypes
<1>5. ASSUME NEW p \in Peers, OtherHangsUp(p) PROVE TypeOK'
  BY <1>5 DEF OtherHangsUp
<1>6. ASSUME NEW p \in Peers, Respond(p) PROVE TypeOK'
  BY <1>6 DEF Respond
<1>7. ASSUME NEW p \in Peers, DropCheck(p) PROVE TypeOK'
  BY <1>7 DEF DropCheck
<1>8. CASE UNCHANGED vars
  BY <1>8 DEF vars
<1> QED
  BY <1>1, <1>2, <1>3, <1>4, <1>5, <1>6, <1>7, <1>8 DEF Next, HandlerStep

-----------------------------------------------------------------------------
\* A step after which the same connections wait, and a probe that has dialled does
\* not go back, keeps the queue.
LEMMA QueueKept ==
    ASSUME QueueInv, backlog' = backlog,
           \A p \in Peers : handler[p] = "none" <=> handler'[p] = "none",
           \A p \in Peers :
               /\ peer'[p] \in {"start", "dial"} => peer[p] \in {"start", "dial"}
               /\ peer'[p] \in Connected => peer[p] \in Connected,
           backlog \in Seq(Peers)
    PROVE  QueueInv'
BY DEF QueueInv

\* The queue is preserved.
LEMMA QueuePreserved == TypeOK /\ QueueInv /\ [Next]_vars => QueueInv'
<1> SUFFICES ASSUME TypeOK, QueueInv, [Next]_vars PROVE QueueInv'
  OBVIOUS
<1>1. CASE Accept
  <2>1. /\ Head(backlog) = backlog[1] /\ Head(backlog) \in Peers /\ 1 \in 1 .. Len(backlog)
        /\ Tail(backlog) \in Seq(Peers) /\ Len(Tail(backlog)) = Len(backlog) - 1
        /\ \A i \in 1 .. Len(backlog) - 1 :
              Tail(backlog)[i] = backlog[i + 1] /\ i + 1 \in 1 .. Len(backlog)
    BY <1>1, TailFacts DEF TypeOK, Accept
  <2>2. /\ backlog' = Tail(backlog) /\ peer' = peer
        /\ handler' = [handler EXCEPT ![backlog[1]] = "reading"]
    BY <1>1, <2>1 DEF Accept, GotoHandler
  <2>3. \A i \in 1 .. Len(backlog') :
            /\ backlog'[i] = backlog[i + 1] /\ i + 1 \in 1 .. Len(backlog) /\ i + 1 # 1
            /\ backlog[i + 1] # backlog[1]
    BY <2>1, <2>2 DEF QueueInv, TypeOK
  <2>4. \A p \in Peers : handler'[p] = IF p = backlog[1] THEN "reading" ELSE handler[p]
    BY <2>1, <2>2 DEF TypeOK
  <2>5. \A i \in 1 .. Len(backlog') : backlog'[i] \in Peers
    BY <2>1, <2>2
  <2>6. \A i \in 1 .. Len(backlog') :
            handler'[backlog'[i]] = "none" /\ peer'[backlog'[i]] \notin {"start", "dial"}
    BY <2>2, <2>3, <2>4, <2>5 DEF QueueInv
  <2>7. \A i, j \in 1 .. Len(backlog') : backlog'[i] = backlog'[j] => i = j
    <3> SUFFICES ASSUME NEW i \in 1 .. Len(backlog'), NEW j \in 1 .. Len(backlog'),
                        backlog'[i] = backlog'[j]
                 PROVE  i = j
      OBVIOUS
    <3>1. i + 1 = j + 1
      BY <2>3 DEF QueueInv
    <3> QED
      BY <3>1
  <2>8. \A p \in Peers : peer'[p] \in {"start", "dial"} => handler'[p] = "none"
    BY <2>1, <2>2, <2>4 DEF QueueInv
  <2>9. ASSUME NEW p \in Peers, peer'[p] \in Connected, handler'[p] = "none"
        PROVE  \E i \in 1 .. Len(backlog') : backlog'[i] = p
    <3>1. PICK k \in 1 .. Len(backlog) : backlog[k] = p
      BY <2>2, <2>4, <2>9 DEF QueueInv
    <3>2. k # 1
      BY <2>4, <2>9, <3>1
    <3>3. k - 1 \in 1 .. Len(backlog) - 1 /\ (k - 1) + 1 = k
      BY <3>2, <2>1
    <3> QED
      BY <2>1, <2>2, <3>1, <3>3
  <2> QED
    BY <2>6, <2>7, <2>8, <2>9 DEF QueueInv
<1>2. ASSUME NEW p \in Peers, Dial(p) PROVE QueueInv'
  <2>1. /\ backlog' = Append(backlog, p) /\ handler' = handler
        /\ peer[p] \in {"start", "dial"} /\ peer' = [peer EXCEPT ![p] = "sending"]
    BY <1>2 DEF Dial, GotoPeer
  <2>2. /\ Len(backlog') = Len(backlog) + 1 /\ backlog'[Len(backlog) + 1] = p
        /\ \A i \in 1 .. Len(backlog) : backlog'[i] = backlog[i]
    BY <2>1, AppendFacts DEF TypeOK
  <2>3. \A q \in Peers : peer'[q] = IF q = p THEN "sending" ELSE peer[q]
    BY <2>1 DEF TypeOK
  <2>4. Len(backlog) \in Nat /\ \A i \in 1 .. Len(backlog) : backlog[i] \in Peers /\ backlog[i] # p
    BY <2>1 DEF QueueInv, TypeOK
  <2>5. \A i \in 1 .. Len(backlog') : i \in 1 .. Len(backlog) \/ i = Len(backlog) + 1
    BY <2>2, <2>4
  <2>6. \A i \in 1 .. Len(backlog') :
            handler'[backlog'[i]] = "none" /\ peer'[backlog'[i]] \notin {"start", "dial"}
    BY <2>1, <2>2, <2>3, <2>4, <2>5 DEF QueueInv
  <2>7. \A i, j \in 1 .. Len(backlog') : backlog'[i] = backlog'[j] => i = j
    BY <2>2, <2>4, <2>5 DEF QueueInv
  <2>8. \A q \in Peers : peer'[q] \in {"start", "dial"} => handler'[q] = "none"
    BY <2>1, <2>3 DEF QueueInv
  <2>9. ASSUME NEW q \in Peers, peer'[q] \in Connected, handler'[q] = "none"
        PROVE  \E i \in 1 .. Len(backlog') : backlog'[i] = q
    <3>1. Len(backlog) + 1 \in 1 .. Len(backlog') /\ 1 .. Len(backlog) \subseteq 1 .. Len(backlog')
      BY <2>2, <2>4
    <3>2. CASE q = p
      BY <2>2, <3>1, <3>2
    <3>3. CASE q # p
      BY <2>1, <2>2, <2>3, <2>9, <3>1, <3>3 DEF QueueInv
    <3> QED
      BY <3>2, <3>3
  <2> QED
    BY <2>6, <2>7, <2>8, <2>9 DEF QueueInv
<1>3. ASSUME NEW p \in Peers,
             \/ GatherFacts(p) \/ ProbeBreaks(p) \/ Deliver(p) \/ ReadResponse(p)
             \/ ProbeGivesUp(p) \/ OtherSends(p) \/ OtherHangsUp(p)
      PROVE  QueueInv'
  <2>1. backlog' = backlog /\ handler' = handler
    BY <1>3 DEF GatherFacts, ProbeBreaks, Deliver, ReadResponse, ProbeGivesUp, OtherSends,
                OtherHangsUp
  <2>2. \A q \in Peers :
            /\ peer'[q] \in {"start", "dial"} => peer[q] \in {"start", "dial"}
            /\ peer'[q] \in Connected => peer[q] \in Connected
    BY <1>3 DEF GatherFacts, ProbeBreaks, Deliver, ReadResponse, ProbeGivesUp, OtherSends,
                OtherHangsUp, GotoPeer, TypeOK, Connected
  <2> QED
    BY <2>1, <2>2, QueueKept DEF TypeOK
<1>4. ASSUME NEW p \in Peers, Respond(p) \/ DropCheck(p) PROVE QueueInv'
  <2>1. /\ backlog' = backlog /\ peer' = peer
        /\ handler[p] = "reading" /\ handler' = [handler EXCEPT ![p] = "closed"]
    BY <1>4 DEF Respond, DropCheck, GotoHandler
  <2>2. \A q \in Peers : handler[q] = "none" <=> handler'[q] = "none"
    BY <2>1 DEF TypeOK
  <2> QED
    BY <2>1, <2>2, QueueKept DEF TypeOK
<1>5. CASE Tick \/ UNCHANGED vars
  BY <1>5, QueueKept DEF Tick, vars, TypeOK
<1> QED
  BY <1>1, <1>2, <1>3, <1>4, <1>5 DEF Next, ProbeStep, HandlerStep

-----------------------------------------------------------------------------
\* What a probe has sent is preserved.
LEMMA PiecesPreserved == TypeOK /\ PieceInv /\ [Next]_vars => PieceInv'
<1> SUFFICES ASSUME TypeOK, PieceInv, [Next]_vars PROVE PieceInv'
  OBVIOUS
<1>1. ASSUME NEW p \in Peers, Deliver(p) PROVE PieceInv'
  <2>1. /\ p \in Probes /\ peer[p] = "sending" /\ Len(arrived[p]) < RequestLength
        /\ arrived[p] \in Seq({"right", "wrong"})
        /\ arrived' = [arrived EXCEPT ![p] = Append(arrived[p], "right")]
    BY <1>1 DEF Deliver, PieceInv
  <2>2. /\ arrived' \in [Peers -> Seq({"right", "wrong"})]
        /\ arrived'[p] = Append(arrived[p], "right")
        /\ \A q \in Peers \ {p} : arrived'[q] = arrived[q]
    BY <2>1, AppendFacts DEF PieceInv
  <2>3. /\ Len(arrived[p]) \in Nat /\ Len(arrived'[p]) = Len(arrived[p]) + 1
        /\ arrived'[p][Len(arrived[p]) + 1] = "right"
        /\ \A i \in 1 .. Len(arrived[p]) : arrived'[p][i] = arrived[p][i]
    BY <2>1, <2>2, AppendFacts
  <2>4. \A i \in 1 .. Len(arrived'[p]) : arrived'[p][i] = "right"
    <3>1. \A i \in 1 .. Len(arrived'[p]) : i \in 1 .. Len(arrived[p]) \/ i = Len(arrived[p]) + 1
      BY <2>3
    <3> QED
      BY <2>1, <2>3, <3>1 DEF PieceInv
  <2>5. Len(arrived'[p]) <= RequestLength
    BY <2>1, <2>3, TimeAssumption
  <2>6. /\ peer'[p] = IF Len(arrived'[p]) = RequestLength THEN "waiting" ELSE "sending"
        /\ \A q \in Peers \ {p} : peer'[q] = peer[q]
    BY <1>1 DEF Deliver, GotoPeer, TypeOK
  <2>7. /\ peer'[p] \notin {"start", "dial"}
        /\ peer'[p] = "sending" => Len(arrived'[p]) < RequestLength
        /\ peer'[p] = "waiting" => Len(arrived'[p]) = RequestLength
    BY <2>3, <2>5, <2>6, TimeAssumption
  <2> DEFINE Fits(q) ==
               /\ Len(arrived'[q]) <= RequestLength
               /\ \A i \in 1 .. Len(arrived'[q]) : arrived'[q][i] = "right"
               /\ peer'[q] \in {"start", "dial"} => Len(arrived'[q]) = 0
               /\ peer'[q] = "sending" => Len(arrived'[q]) < RequestLength
               /\ peer'[q] = "waiting" => Len(arrived'[q]) = RequestLength
  <2>8. Fits(p)
    BY <2>4, <2>5, <2>7
  <2>9. ASSUME NEW q \in Probes, q # p PROVE Fits(q)
    <3>1. q \in Peers /\ arrived'[q] = arrived[q] /\ peer'[q] = peer[q]
      BY <2>2, <2>6, <2>9 DEF Peers
    <3> QED
      BY <3>1 DEF PieceInv
  <2>10. \A q \in Probes : Fits(q)
    BY <2>8, <2>9
  <2> QED
    BY <2>2, <2>10 DEF PieceInv
<1>2. ASSUME NEW p \in Peers, OtherSends(p) PROVE PieceInv'
  <2>1. PICK piece \in {"right", "wrong"} : arrived' = [arrived EXCEPT ![p] = Append(@, piece)]
    BY <1>2 DEF OtherSends
  <2>2. p \in Others /\ peer' = peer
    BY <1>2 DEF OtherSends
  <2>3. arrived[p] \in Seq({"right", "wrong"})
    BY DEF PieceInv
  <2>4. Append(arrived[p], piece) \in Seq({"right", "wrong"})
    BY <2>3, AppendFacts
  <2>5. arrived' \in [Peers -> Seq({"right", "wrong"})]
    BY <2>1, <2>4 DEF PieceInv
  <2>6. \A q \in Probes : arrived'[q] = arrived[q]
    BY <2>1, <2>2, PeersAssumption DEF PieceInv, Peers
  <2> QED
    BY <2>2, <2>5, <2>6 DEF PieceInv
<1>3. ASSUME NEW p \in Peers,
             \/ GatherFacts(p) \/ Dial(p) \/ ProbeBreaks(p) \/ ReadResponse(p)
             \/ ProbeGivesUp(p) \/ OtherHangsUp(p)
      PROVE  PieceInv'
  <2>1. arrived' = arrived
    BY <1>3 DEF GatherFacts, Dial, ProbeBreaks, ReadResponse, ProbeGivesUp, OtherHangsUp
  <2>2. \A q \in Probes :
            /\ peer'[q] \in {"start", "dial"} => peer[q] \in {"start", "dial"}
            /\ peer'[q] = "sending" => peer[q] \in {"sending", "dial"}
            /\ peer'[q] = "waiting" => peer[q] = "waiting"
    BY <1>3, PeersAssumption
       DEF GatherFacts, Dial, ProbeBreaks, ReadResponse, ProbeGivesUp, OtherHangsUp, GotoPeer,
           TypeOK, Connected, Peers
  <2>3. 0 < RequestLength
    BY TimeAssumption
  <2> QED
    BY <2>1, <2>2, <2>3 DEF PieceInv
<1>4. ASSUME arrived' = arrived, peer' = peer PROVE PieceInv'
  BY <1>4 DEF PieceInv
<1> QED
  BY <1>1, <1>2, <1>3, <1>4
     DEF Next, ProbeStep, HandlerStep, Accept, Tick, Respond, DropCheck, vars

\* An answer has been earned, and nobody takes it back.
LEMMA AnswersPreserved ==
    TypeOK /\ PieceInv /\ ReadyMeansAnswered /\ [Next]_vars => ReadyMeansAnswered'
<1> SUFFICES ASSUME TypeOK, PieceInv, ReadyMeansAnswered, [Next]_vars PROVE ReadyMeansAnswered'
  OBVIOUS
<1> DEFINE Earned(pieces) ==
             Len(pieces) >= RequestLength /\ \A i \in 1 .. RequestLength : pieces[i] = "right"
<1>1. \A p \in Peers : Earned(arrived[p]) => Earned(arrived'[p])
  <2>1. ASSUME NEW p \in Peers, NEW piece \in {"right", "wrong"},
               arrived' = [arrived EXCEPT ![p] = Append(@, piece)]
        PROVE  \A q \in Peers : Earned(arrived[q]) => Earned(arrived'[q])
    <3>1. arrived[p] \in Seq({"right", "wrong"}) /\ Len(arrived[p]) \in Nat
      BY DEF PieceInv
    <3>2. arrived'[p] = Append(arrived[p], piece) /\ \A q \in Peers \ {p} : arrived'[q] = arrived[q]
      BY <2>1 DEF PieceInv
    <3>3. /\ Len(arrived'[p]) = Len(arrived[p]) + 1
          /\ \A i \in 1 .. Len(arrived[p]) : arrived'[p][i] = arrived[p][i]
      BY <3>1, <3>2, AppendFacts
    <3>4. Earned(arrived[p]) => Earned(arrived'[p])
      BY <3>1, <3>3, TimeAssumption
    <3> QED
      BY <3>2, <3>4
  <2>2. ASSUME NEW p \in Peers, Deliver(p) \/ OtherSends(p)
        PROVE  \E piece \in {"right", "wrong"} : arrived' = [arrived EXCEPT ![p] = Append(@, piece)]
    BY <2>2 DEF Deliver, OtherSends
  <2>3. CASE arrived' = arrived
    BY <2>3
  <2> QED
    BY <2>1, <2>2, <2>3
       DEF Next, ProbeStep, HandlerStep, GatherFacts, Dial, ProbeBreaks, ReadResponse, ProbeGivesUp,
           OtherHangsUp, Accept, Tick, Respond, DropCheck, vars
<1>2. \A p \in answered' : p \in answered \/ (p \in Peers /\ Earned(arrived[p]))
  BY DEF Next, ProbeStep, HandlerStep, GatherFacts, Dial, ProbeBreaks, Deliver, ReadResponse,
         ProbeGivesUp, OtherSends, OtherHangsUp, Accept, Tick, Respond, RightRequest, DropCheck,
         vars
<1>3. answered \subseteq answered'
  BY DEF Next, ProbeStep, HandlerStep, GatherFacts, Dial, ProbeBreaks, Deliver, ReadResponse,
         ProbeGivesUp, OtherSends, OtherHangsUp, Accept, Tick, Respond, DropCheck, vars
<1>4. \A p \in Probes : peer'[p] = "ready" => peer[p] = "ready" \/ p \in answered
  BY DEF Next, ProbeStep, HandlerStep, GatherFacts, Dial, ProbeBreaks, Deliver, ReadResponse,
         ProbeGivesUp, OtherSends, OtherHangsUp, Accept, Tick, Respond, DropCheck, vars, GotoPeer,
         TypeOK, Peers
<1>5. answered \subseteq Peers
  BY DEF TypeOK
<1> QED
  BY <1>1, <1>2, <1>3, <1>4, <1>5 DEF ReadyMeansAnswered

-----------------------------------------------------------------------------
\* While a probe is connected, the clock moves only when somebody could have acted:
\* the probe itself, its goroutine, or the accept loop that it waits for.
LEMMA TickHurries ==
    ASSUME TypeOK, QueueInv, PieceInv, CalmInv, ~hurried, Tick, ~hurried',
           NEW p \in Probes
    PROVE  peer[p] \notin Connected
<1> SUFFICES ASSUME peer[p] \in Connected PROVE FALSE
  OBVIOUS
<1>1. ~SomebodyCanAct
  BY DEF Tick
<1>2. peer[p] = "waiting" /\ p \notin answered
  BY <1>1 DEF SomebodyCanAct, Connected
<1>3. p \in Peers /\ Len(arrived[p]) = RequestLength
  BY <1>2 DEF Peers, PieceInv
<1>4. backlog = << >>
  BY <1>1 DEF SomebodyCanAct, MayAccept
<1>5. handler[p] # "none"
  BY <1>3, <1>4 DEF QueueInv
<1>6. handler[p] # "reading"
  BY <1>1, <1>3, TimeAssumption DEF SomebodyCanAct
<1>7. handler[p] = "closed"
  BY <1>3, <1>5, <1>6 DEF TypeOK
<1> QED
  BY <1>2, <1>7 DEF CalmInv

\* The goroutine of a calm probe ends with the answer.
LEMMA CalmChecksAnswer ==
    ASSUME TypeOK, PieceInv, CalmInv, ~hurried, NEW p \in Probes, DropCheck(p)
    PROVE  peer[p] \notin Connected
<1> SUFFICES ASSUME peer[p] \in Connected PROVE FALSE
  OBVIOUS
<1>1. p \in Peers /\ handler[p] = "reading" /\ age[p] = 0
  BY DEF DropCheck, Peers, CalmInv
<1>2. ~Expired(p)
  BY <1>1, TimeAssumption DEF Expired
<1>3. peer[p] \notin {"gone", "failed"}
  BY DEF Connected
<1>4. Len(arrived[p]) >= RequestLength /\ ~RightRequest(p)
  BY <1>2, <1>3 DEF DropCheck
<1>5. Len(arrived[p]) = RequestLength /\ \A i \in 1 .. RequestLength : arrived[p][i] = "right"
  <2>1. Len(arrived[p]) \in Nat /\ Len(arrived[p]) <= RequestLength
    BY <1>1 DEF PieceInv
  <2>2. Len(arrived[p]) = RequestLength
    BY <1>4, <2>1, TimeAssumption
  <2> QED
    BY <2>2 DEF PieceInv
<1> QED
  BY <1>4, <1>5 DEF RightRequest

\* Calm lasts as long as nobody is hurried.
LEMMA CalmPreserved == TypeOK /\ QueueInv /\ PieceInv /\ CalmInv /\ [Next]_vars => CalmInv'
<1> SUFFICES ASSUME TypeOK, QueueInv, PieceInv, CalmInv, [Next]_vars, ~hurried'
             PROVE  CalmInv'
  BY DEF CalmInv
<1> DEFINE Calm(p) ==
             /\ peer'[p] = "failed" => p \in broken'
             /\ peer'[p] \in Connected =>
                   /\ clock'[p] = 0
                   /\ handler'[p] = "reading" => age'[p] = 0
                   /\ handler'[p] = "closed" => p \in answered'
<1>1. ~hurried
  BY DEF Next, ProbeStep, HandlerStep, GatherFacts, Dial, ProbeBreaks, Deliver, ReadResponse,
         ProbeGivesUp, OtherSends, OtherHangsUp, Accept, Tick, Respond, DropCheck, vars
<1> SUFFICES ASSUME NEW p \in Probes PROVE Calm(p)
  BY DEF CalmInv
<1>2. /\ p \in Peers /\ p \notin Others
      /\ peer[p] = "failed" => p \in broken
      /\ peer[p] \in Connected =>
            /\ clock[p] = 0
            /\ handler[p] = "reading" => age[p] = 0
            /\ handler[p] = "closed" => p \in answered
  BY <1>1, PeersAssumption DEF Peers, CalmInv
<1>3. CASE Accept
  <2>1. Head(backlog) \in Peers
    BY <1>3, TailFacts DEF Accept, TypeOK
  <2> QED
    BY <1>2, <1>3, <2>1 DEF Accept, GotoHandler, TypeOK
<1>4. CASE Tick
  <2>1. peer[p] \notin Connected
    BY <1>1, <1>4, TickHurries
  <2> QED
    BY <1>2, <1>4, <2>1 DEF Tick
<1>5. ASSUME NEW q \in Peers, Dial(q) PROVE Calm(p)
  <2>1. peer[q] \in {"start", "dial"} /\ handler[q] = "none"
    BY <1>5 DEF Dial, QueueInv
  <2> QED
    BY <1>2, <1>5, <2>1 DEF Dial, GotoPeer, TypeOK
<1>6. ASSUME NEW q \in Peers, ProbeGivesUp(q) PROVE Calm(p)
  <2>1. CASE q = p
    <3>1. clock[p] = 0 /\ (handler[p] = "closed" => p \in answered)
      BY <1>2, <1>6, <2>1 DEF ProbeGivesUp
    <3>2. ~(clock[p] >= Deadline)
      BY <3>1, TimeAssumption
    <3> QED
      BY <1>6, <2>1, <3>1, <3>2 DEF ProbeGivesUp
  <2>2. CASE q # p
    BY <1>2, <1>6, <2>2 DEF ProbeGivesUp, GotoPeer, TypeOK
  <2> QED
    BY <2>1, <2>2
<1>7. ASSUME NEW q \in Peers,
             \/ GatherFacts(q) \/ ProbeBreaks(q) \/ Deliver(q) \/ ReadResponse(q)
             \/ OtherSends(q) \/ OtherHangsUp(q)
      PROVE  Calm(p)
  <2>1. UNCHANGED << clock, handler, age, answered >> /\ broken \subseteq broken'
    BY <1>7 DEF GatherFacts, ProbeBreaks, Deliver, ReadResponse, OtherSends, OtherHangsUp
  <2>2. /\ peer'[p] \in Connected => peer[p] \in Connected
        /\ peer'[p] = "failed" => peer[p] = "failed" \/ p \in broken'
    BY <1>2, <1>7 DEF GatherFacts, ProbeBreaks, Deliver, ReadResponse, OtherSends, OtherHangsUp,
                      GotoPeer, TypeOK, Connected
  <2> QED
    BY <1>2, <2>1, <2>2
<1>8. ASSUME NEW q \in Peers, Respond(q) PROVE Calm(p)
  BY <1>2, <1>8 DEF Respond, GotoHandler, TypeOK
<1>9. ASSUME NEW q \in Peers, DropCheck(q) PROVE Calm(p)
  <2>1. q = p => peer[p] \notin Connected
    BY <1>1, <1>9, CalmChecksAnswer
  <2> QED
    BY <1>2, <1>9, <2>1 DEF DropCheck, GotoHandler, TypeOK
<1>10. CASE UNCHANGED vars
  BY <1>2, <1>10 DEF vars
<1> QED
  BY <1>3, <1>4, <1>5, <1>6, <1>7, <1>8, <1>9, <1>10 DEF Next, ProbeStep, HandlerStep

-----------------------------------------------------------------------------
\* The inductive invariant holds in every state of NetworkCheck.
THEOREM Invariance == Spec => []IInv
<1>1. Init => IInv
  <2> SUFFICES ASSUME Init PROVE IInv
    OBVIOUS
  <2>1. 0 \in 0 .. Deadline /\ 0 < RequestLength
    BY TimeAssumption
  <2>2. TypeOK
    <3>1. \A p \in Peers : arrived[p] = << >>
      BY DEF Init
    <3>2. << >> \in Seq({"right", "wrong"}) /\ << >> \in Seq(Peers) /\ Len(<< >>) = 0
      OBVIOUS
    <3>3. \A p \in Peers :
              arrived[p] \in Seq({"right", "wrong"}) /\ Len(arrived[p]) <= RequestLength + 1
      <4> SUFFICES ASSUME NEW p \in Peers
                   PROVE  /\ arrived[p] \in Seq({"right", "wrong"})
                          /\ Len(arrived[p]) <= RequestLength + 1
        OBVIOUS
      <4>1. arrived[p] = << >>
        BY <3>1
      <4>2. arrived[p] \in Seq({"right", "wrong"}) /\ Len(arrived[p]) = 0
        BY ONLY <3>2, <4>1
      <4> QED
        BY <4>2, TimeAssumption
    <3> QED
      BY <2>1, <3>2, <3>3 DEF Init, TypeOK, Connected
  <2>3. QueueInv
    BY DEF Init, QueueInv, Connected
  <2>4. Probes \subseteq Peers
    BY DEF Peers
  <2>5. PieceInv
    <3>1. << >> \in Seq({"right", "wrong"}) /\ Len(<< >>) = 0
      OBVIOUS
    <3>2. arrived \in [Peers -> Seq({"right", "wrong"})]
      BY <3>1 DEF Init
    <3>3. \A p \in Probes : peer[p] = "start" /\ Len(arrived[p]) = 0 /\ 1 .. Len(arrived[p]) = {}
      BY <2>4, <3>1 DEF Init
    <3>4. ASSUME NEW p \in Probes
          PROVE  /\ Len(arrived[p]) <= RequestLength
                 /\ \A i \in 1 .. Len(arrived[p]) : arrived[p][i] = "right"
                 /\ peer[p] # "sending" /\ peer[p] # "waiting"
      BY <2>1, <3>3, TimeAssumption
    <3> QED
      BY <3>2, <3>3, <3>4 DEF PieceInv
  <2>6. ReadyMeansAnswered /\ CalmInv
    BY <2>1, <2>4 DEF Init, ReadyMeansAnswered, CalmInv, Connected
  <2> QED
    BY <2>2, <2>3, <2>5, <2>6 DEF IInv
<1>2. IInv /\ [Next]_vars => IInv'
  BY TypePreserved, QueuePreserved, PiecesPreserved, AnswersPreserved, CalmPreserved DEF IInv
<1> QED
  BY <1>1, <1>2, PTL DEF Spec

\* Every variable keeps its type, and no clock runs beyond its deadline.
THEOREM TypeCorrect == Spec => []TypeOK
<1>1. IInv => TypeOK
  BY DEF IInv
<1> QED
  BY <1>1, Invariance, PTL

\* A probe is ready only when its whole request has arrived and been answered
\* (network_linux.go:50-60, 82-90).
THEOREM AnswersAreEarned == Spec => []ReadyMeansAnswered
<1>1. IInv => ReadyMeansAnswered
  BY DEF IInv
<1> QED
  BY <1>1, Invariance, PTL

\* Where time waits for those who can act, a probe fails only because its own
\* network is broken, whatever any number of other connections do
\* (network_linux.go:34-47).
THEOREM OthersDoNoHarm == Spec => []OnlyBrokenProbesFail
<1>1. IInv => OnlyBrokenProbesFail
  BY DEF IInv, CalmInv, OnlyBrokenProbesFail
<1> QED
  BY <1>1, Invariance, PTL
=============================================================================
