---------------------------- MODULE GuestAgentProofs ----------------------------
(***************************************************************************)
(* Proofs about GuestAgent, for any number of connections, requests,       *)
(* waiting connections and failing calls.                                  *)
(*                                                                         *)
(* The properties of answers and bundles rest on the position of each      *)
(* connection in its stream (StreamInv), on every request being sent once  *)
(* (OnceInv), and on a call of Run being under way only where a goroutine  *)
(* waits for it (WorkInv).  That a bundle is made once follows from a      *)
(* request that has been used being behind in its stream (FreshInv).       *)
(***************************************************************************)
EXTENDS GuestAgent, TLAPS

\* A goroutine with a request in hand.
Busy == {"prepare", "run", "removeBundle", "encode"}

\* The types, without the sequences.
FlatTypes ==
    /\ agent \in AgentPlaces
    /\ hostEnd \in [Connections -> {"unused", "open", "closed"}]
    /\ handler \in [Connections -> HandlerPlaces]
    /\ answer \in [Connections -> BOOLEAN]
    /\ job \in [Connections -> SUBSET Requests]

\* The types of the sequences.
SequenceTypes ==
    /\ sent \in [Connections -> Seq(Requests)]
    /\ inbox \in [Connections -> Seq(Requests)]
    /\ replies \in [Connections -> Seq([id : Requests, ok : BOOLEAN])]

\* Bundles and calls of Run belong to run requests.
WorkTypes ==
    /\ bundles \subseteq Runs
    /\ phase \in [Runs -> Run!Phases]
    /\ \A c \in Connections :
          handler[c] \in {"prepare", "run", "removeBundle"} => job[c] \subseteq Runs

\* A connection waits once, and before it has a goroutine.
BacklogInv ==
    /\ backlog \in Seq(Connections) /\ Len(backlog) <= Backlog
    /\ \A i \in 1 .. Len(backlog) :
          handler[backlog[i]] = "none" /\ hostEnd[backlog[i]] # "unused"
    /\ \A i, j \in 1 .. Len(backlog) : backlog[i] = backlog[j] => i = j
    /\ \A c \in Connections : hostEnd[c] = "unused" => handler[c] = "none"

\* Every request is sent once.
OnceInv ==
    \A c, d \in Connections :
        \A i \in 1 .. Len(sent[c]), j \in 1 .. Len(sent[d]) :
            sent[c][i] = sent[d][j] => c = d /\ i = j

\* What was sent has been answered, or is in hand, or has yet to be decoded, in
\* this order.
StreamOK(c) ==
    /\ Len(replies[c]) <= Len(sent[c])
    /\ \A i \in 1 .. Len(replies[c]) :
          replies[c][i].id = sent[c][i] /\ sent[c][i] \notin Garbled
    /\ handler[c] \in Busy =>
          /\ Len(sent[c]) = Len(replies[c]) + 1 + Len(inbox[c])
          /\ job[c] = {sent[c][Len(replies[c]) + 1]}
          /\ sent[c][Len(replies[c]) + 1] \notin Garbled
          /\ \A i \in 1 .. Len(inbox[c]) : inbox[c][i] = sent[c][Len(replies[c]) + 1 + i]
    /\ handler[c] \in {"none", "decode"} =>
          /\ Len(sent[c]) = Len(replies[c]) + Len(inbox[c])
          /\ \A i \in 1 .. Len(inbox[c]) : inbox[c][i] = sent[c][Len(replies[c]) + i]
    /\ handler[c] \notin Busy => job[c] = {}

StreamInv == \A c \in Connections : StreamOK(c)

\* A call of Run is under way only while a goroutine waits for it, and the bundle
\* of that goroutine's request is there.
WorkInv ==
    /\ \A c \in Connections :
          /\ handler[c] \in {"run", "removeBundle"} => job[c] \subseteq bundles
          /\ handler[c] = "removeBundle" => \A q \in job[c] : phase[q] \in Returned
    /\ \A q \in Runs :
          phase[q] \notin Returned \cup {"idle"} =>
              \E c \in Connections : q \in job[c] /\ handler[c] = "run"

\* A run that may be reported as OK.
Clean(q) == q \in Pings \/ (q \in Runs /\ phase[q] = "succeeded" /\ q \notin bundles)

\* An answer of OK, written or about to be.
AnswerInv ==
    \A c \in Connections :
        /\ handler[c] = "encode" /\ answer[c] => \A q \in job[c] : Clean(q)
        /\ handler[c] \in {"prepare", "run", "removeBundle"} => ~answer[c]
        /\ \A i \in 1 .. Len(replies[c]) : replies[c][i].ok => Clean(sent[c][i])

IInv ==
    /\ FlatTypes /\ SequenceTypes /\ WorkTypes
    /\ BacklogInv /\ OnceInv /\ StreamInv /\ WorkInv /\ AnswerInv /\ NoOrphanBundle

-----------------------------------------------------------------------------
\* Whoever is accepted is new.
LEMMA AcceptedIsNew ==
    ASSUME BacklogInv, AcceptConnection
    PROVE  Head(backlog) \in Connections /\ handler[Head(backlog)] = "none"
<1>1. backlog # << >> /\ backlog \in Seq(Connections)
  BY DEF BacklogInv, AcceptConnection
<1>2. Head(backlog) = backlog[1] /\ 1 \in 1 .. Len(backlog) /\ backlog[1] \in Connections
  BY <1>1
<1> QED
  BY <1>2 DEF BacklogInv

\* Run makes progress on one call, which has not returned.
LEMMA ProgressIsOneCall ==
    ASSUME WorkTypes, NEW c \in Connections, RunProgress(c)
    PROVE  \E q \in job[c] \cap Runs, p \in Run!Phases :
              /\ phase' = [phase EXCEPT ![q] = p]
              /\ phase[q] \notin Returned /\ handler[c] = "run"
<1>1. handler[c] = "run" /\ job[c] \subseteq Runs
  BY DEF RunProgress, At, WorkTypes
<1>2. PICK q \in job[c] :
         \/ Run!Call(q) \/ Run!Launch(q) \/ Run!Execute(q)
         \/ Run!Complete(q) \/ Run!Abort(q)
         \/ Run!ReturnSuccess(q) \/ Run!ReturnFailure(q)
  BY DEF RunProgress
<1>3. phase[q] \notin Returned
  BY <1>2 DEF Returned, Run!Call, Run!Launch, Run!Execute, Run!Complete, Run!Abort,
     Run!ReturnSuccess, Run!ReturnFailure
<1>4. \E p \in Run!Phases : phase' = [phase EXCEPT ![q] = p]
  BY <1>2 DEF Run!Phases, Run!Become, Run!Call, Run!Launch, Run!Execute, Run!Complete,
     Run!Abort, Run!ReturnSuccess, Run!ReturnFailure
<1> QED
  BY <1>1, <1>3, <1>4

\* Lengths are numbers.
LEMMA Lengths ==
    ASSUME SequenceTypes, NEW c \in Connections
    PROVE  Len(sent[c]) \in Nat /\ Len(inbox[c]) \in Nat /\ Len(replies[c]) \in Nat
  BY DEF SequenceTypes

\* Positions in a stream: r requests are answered, one is in hand, n wait, and s
\* is their number.
LEMMA InHandIndex ==
    ASSUME NEW r \in Nat, NEW n \in Nat, NEW s, s = r + 1 + n
    PROVE  /\ r + 1 \in 1 .. s /\ s \in Nat
           /\ \A i \in 1 .. n : r + 1 + i \in 1 .. s
  OBVIOUS

\* The same with nothing in hand.
LEMMA WaitingIndex ==
    ASSUME NEW r \in Nat, NEW n \in Nat, NEW s, s = r + n
    PROVE  /\ s \in Nat
           /\ \A i \in 1 .. n : r + i \in 1 .. s
  OBVIOUS

\* One request more is sent and waits.
LEMMA SentInHand ==
    ASSUME NEW r \in Nat, NEW n \in Nat
    PROVE  (r + 1 + n) + 1 = r + 1 + (n + 1)
  OBVIOUS

\* The same with nothing in hand.
LEMMA SentWaiting ==
    ASSUME NEW r \in Nat, NEW n \in Nat
    PROVE  (r + n) + 1 = r + (n + 1)
  OBVIOUS

\* A waiting request is taken in hand.
LEMMA MoveOne ==
    ASSUME NEW r \in Nat, NEW n \in Nat
    PROVE  r + n = r + 1 + (n - 1)
  OBVIOUS

\* The request in hand is answered.
LEMMA AnswerOne ==
    ASSUME NEW r \in Nat, NEW n \in Nat, NEW s, s = r + 1 + n, NEW m, m = r + 1
    PROVE  s = m + n /\ m <= s
  OBVIOUS

\* Sums of three.
LEMMA Regroup ==
    ASSUME NEW r \in Nat, NEW i \in Nat
    PROVE  r + (i + 1) = r + 1 + i
  OBVIOUS

\* The index after the i-th of all but one.
LEMMA NextIndex ==
    ASSUME NEW n \in Nat, NEW m, m = n - 1, NEW i \in 1 .. m
    PROVE  i \in Nat /\ i + 1 \in 1 .. n /\ i + 1 # 1 /\ i \in 1 .. n - 1
  OBVIOUS

\* What Append returns.
LEMMA AppendType ==
    ASSUME NEW S, NEW s \in Seq(S), NEW e \in S
    PROVE  Append(s, e) \in Seq(S)
  OBVIOUS

\* How an appended sequence reads.
LEMMA AppendFacts ==
    ASSUME NEW S, NEW s \in Seq(S), NEW e \in S
    PROVE  /\ Len(Append(s, e)) = Len(s) + 1 /\ Append(s, e)[Len(s) + 1] = e
           /\ \A i \in 1 .. Len(s) : Append(s, e)[i] = s[i]
  OBVIOUS

\* Where a Boolean function is changed it has the new value.
LEMMA BooleanUpdate ==
    ASSUME NEW D, NEW f \in [D -> BOOLEAN], NEW x \in D, NEW b \in BOOLEAN
    PROVE  [f EXCEPT ![x] = b][x] <=> b
  OBVIOUS

\* No request is in two hands.
LEMMA JobsDisjoint ==
    ASSUME SequenceTypes, OnceInv, StreamInv,
           NEW c \in Connections, NEW d \in Connections, c # d
    PROVE  job[c] \cap job[d] = {}
<1>1. \A e \in Connections :
         job[e] = {} \/ \E i \in 1 .. Len(sent[e]) : job[e] = {sent[e][i]}
  <2> SUFFICES ASSUME NEW e \in Connections, handler[e] \in Busy
               PROVE  \E i \in 1 .. Len(sent[e]) : job[e] = {sent[e][i]}
    BY DEF StreamInv, StreamOK
  <2>1. /\ Len(sent[e]) = Len(replies[e]) + 1 + Len(inbox[e])
        /\ job[e] = {sent[e][Len(replies[e]) + 1]}
    BY DEF StreamInv, StreamOK
  <2>2. Len(replies[e]) + 1 \in 1 .. Len(sent[e])
    BY <2>1, Lengths, InHandIndex
  <2> QED
    BY <2>1, <2>2
<1> QED
  BY <1>1 DEF OnceInv

\* What has been answered is in nobody's hand.
LEMMA AnsweredNotInHand ==
    ASSUME SequenceTypes, OnceInv, StreamInv,
           NEW c \in Connections, NEW d \in Connections, NEW i \in 1 .. Len(replies[d])
    PROVE  sent[d][i] \notin job[c]
<1>1. job[c] = {} \/ /\ job[c] = {sent[c][Len(replies[c]) + 1]}
                     /\ Len(replies[c]) + 1 \in 1 .. Len(sent[c])
  <2>1. handler[c] \in Busy =>
           /\ Len(sent[c]) = Len(replies[c]) + 1 + Len(inbox[c])
           /\ job[c] = {sent[c][Len(replies[c]) + 1]}
    BY DEF StreamInv, StreamOK
  <2>2. handler[c] \notin Busy => job[c] = {}
    BY DEF StreamInv, StreamOK
  <2> QED
    BY <2>1, <2>2, Lengths, InHandIndex
<1>2. i \in 1 .. Len(sent[d]) /\ (c = d => i # Len(replies[c]) + 1)
  BY DEF SequenceTypes, StreamInv, StreamOK
<1> QED
  BY <1>1, <1>2 DEF OnceInv

\* A step that does not touch the stream of a connection.
SameStream(d) ==
    /\ sent'[d] = sent[d] /\ inbox'[d] = inbox[d] /\ replies'[d] = replies[d]
    /\ job'[d] = job[d]
    /\ handler'[d] \in Busy <=> handler[d] \in Busy
    /\ handler'[d] \in {"none", "decode"} <=> handler[d] \in {"none", "decode"}

\* It keeps its place.
LEMMA FrameStream ==
    ASSUME NEW d \in Connections, StreamOK(d), SameStream(d)
    PROVE  StreamOK(d)'
  BY DEF StreamOK, SameStream

\* Every step keeps the types.
LEMMA FlatPreserved ==
    ASSUME FlatTypes, SequenceTypes, [Next]_vars
    PROVE  FlatTypes'
<1> USE DEF FlatTypes, AgentPlaces, HandlerPlaces, vars, hostVars, connVars, workVars
<1>1. ASSUME MountFilesystems PROVE FlatTypes'
  BY <1>1 DEF MountFilesystems, Boot
<1>2. ASSUME SetupCgroups PROVE FlatTypes'
  BY <1>2 DEF SetupCgroups, Boot
<1>3. ASSUME StartNetworkCheckServer PROVE FlatTypes'
  BY <1>3 DEF StartNetworkCheckServer, Boot
<1>4. ASSUME Listen PROVE FlatTypes'
  BY <1>4 DEF Listen, Boot
<1>5. ASSUME AcceptConnection PROVE FlatTypes'
  BY <1>5 DEF AcceptConnection, Goto
<1>6. ASSUME AgentPanics PROVE FlatTypes'
  BY <1>6 DEF AgentPanics, Alive, Fault
<1>7. ASSUME NEW c \in Connections, DecodeRequest(c) PROVE FlatTypes'
  <2>1. Head(inbox[c]) \in Requests
    BY <1>7 DEF DecodeRequest, SequenceTypes
  <2>2. job' \in [Connections -> SUBSET Requests] /\ handler' \in [Connections -> HandlerPlaces]
    BY <1>7, <2>1 DEF DecodeRequest, Goto
  <2>3. (Head(inbox[c]) \in Pings) \in BOOLEAN
    OBVIOUS
  <2>4. answer' \in [Connections -> BOOLEAN]
    BY <1>7, <2>3 DEF DecodeRequest
  <2> QED
    BY <1>7, <2>2, <2>4 DEF DecodeRequest
<1>8. ASSUME NEW c \in Connections, DecodeFails(c) PROVE FlatTypes'
  BY <1>8 DEF DecodeFails, At, Alive, Goto
<1>9. ASSUME NEW c \in Connections, PrepareImage(c) PROVE FlatTypes'
  BY <1>9 DEF PrepareImage, At, Alive, Goto
<1>10. ASSUME NEW c \in Connections, PrepareFails(c) PROVE FlatTypes'
  BY <1>10 DEF PrepareFails, At, Alive, Goto, RemoveAllFails, Fault
<1>11. ASSUME NEW c \in Connections, RunProgress(c) PROVE FlatTypes'
  BY <1>11 DEF RunProgress, At, Alive
<1>12. ASSUME NEW c \in Connections, RunReturns(c) PROVE FlatTypes'
  BY <1>12 DEF RunReturns, At, Alive, Goto
<1>13. ASSUME NEW c \in Connections, RemoveBundle(c) PROVE FlatTypes'
  BY <1>13 DEF RemoveBundle, At, Alive, Goto, RemoveAllFails, Fault
<1>14. ASSUME NEW c \in Connections, EncodeResponse(c) PROVE FlatTypes'
  BY <1>14 DEF EncodeResponse, At, Alive, Goto
<1>15. ASSUME NEW c \in Connections, EncodeFails(c) PROVE FlatTypes'
  BY <1>15 DEF EncodeFails, At, Alive, Goto
<1>16. ASSUME NEW c \in Connections, Connect(c) PROVE FlatTypes'
  BY <1>16 DEF Connect, HasRoom
<1>17. ASSUME NEW c \in Connections, Disconnect(c) PROVE FlatTypes'
  BY <1>17 DEF Disconnect, Alive
<1>18. ASSUME NEW c \in Connections, NEW r \in Requests, Send(c, r) PROVE FlatTypes'
  BY <1>18 DEF Send, Alive
<1>19. CASE UNCHANGED vars
  BY <1>19
<1> QED
  BY <1>1, <1>2, <1>3, <1>4, <1>5, <1>6, <1>7, <1>8, <1>9, <1>10,
     <1>11, <1>12, <1>13, <1>14, <1>15, <1>16, <1>17, <1>18, <1>19
  DEF Next, MainStep, HandlerStep, HostStep

\* Every step keeps the types of the sequences.
LEMMA SequencesPreserved ==
    ASSUME FlatTypes, SequenceTypes, [Next]_vars
    PROVE  SequenceTypes'
<1> USE DEF SequenceTypes, FlatTypes, vars, hostVars, connVars, workVars
<1>1. ASSUME MountFilesystems PROVE SequenceTypes'
  BY <1>1 DEF MountFilesystems, Boot
<1>2. ASSUME SetupCgroups PROVE SequenceTypes'
  BY <1>2 DEF SetupCgroups, Boot
<1>3. ASSUME StartNetworkCheckServer PROVE SequenceTypes'
  BY <1>3 DEF StartNetworkCheckServer, Boot
<1>4. ASSUME Listen PROVE SequenceTypes'
  BY <1>4 DEF Listen, Boot
<1>5. ASSUME AcceptConnection PROVE SequenceTypes'
  BY <1>5 DEF AcceptConnection, Goto
<1>6. ASSUME AgentPanics PROVE SequenceTypes'
  BY <1>6 DEF AgentPanics, Alive, Fault
<1>7. ASSUME NEW c \in Connections, DecodeRequest(c) PROVE SequenceTypes'
  <2>1. Tail(inbox[c]) \in Seq(Requests)
    BY <1>7 DEF DecodeRequest
  <2>2. inbox' \in [Connections -> Seq(Requests)]
    BY <1>7, <2>1 DEF DecodeRequest
  <2> QED
    BY <1>7, <2>2 DEF DecodeRequest
<1>8. ASSUME NEW c \in Connections, DecodeFails(c) PROVE SequenceTypes'
  <2>1. << >> \in Seq(Requests)
    OBVIOUS
  <2>2. inbox' \in [Connections -> Seq(Requests)]
    BY <1>8, <2>1 DEF DecodeFails
  <2> QED
    BY <1>8, <2>2 DEF DecodeFails
<1>9. ASSUME NEW c \in Connections, PrepareImage(c) PROVE SequenceTypes'
  BY <1>9 DEF PrepareImage, At, Alive, Goto
<1>10. ASSUME NEW c \in Connections, PrepareFails(c) PROVE SequenceTypes'
  BY <1>10 DEF PrepareFails, At, Alive, Goto, RemoveAllFails, Fault
<1>11. ASSUME NEW c \in Connections, RunProgress(c) PROVE SequenceTypes'
  BY <1>11 DEF RunProgress, At, Alive
<1>12. ASSUME NEW c \in Connections, RunReturns(c) PROVE SequenceTypes'
  BY <1>12 DEF RunReturns, At, Alive, Goto
<1>13. ASSUME NEW c \in Connections, RemoveBundle(c) PROVE SequenceTypes'
  BY <1>13 DEF RemoveBundle, At, Alive, Goto, RemoveAllFails, Fault
<1>14. ASSUME NEW c \in Connections, EncodeResponse(c) PROVE SequenceTypes'
  <2>1. PICK q \in job[c] :
           replies' = [replies EXCEPT ![c] = Append(replies[c], [id |-> q, ok |-> answer[c]])]
    BY <1>14 DEF EncodeResponse
  <2>2. q \in Requests /\ answer[c] \in BOOLEAN
    OBVIOUS
  <2>3. [id |-> q, ok |-> answer[c]] \in [id : Requests, ok : BOOLEAN]
    BY <2>2
  <2>5. Append(replies[c], [id |-> q, ok |-> answer[c]]) \in Seq([id : Requests, ok : BOOLEAN])
    BY <2>3, AppendType
  <2>4. replies' \in [Connections -> Seq([id : Requests, ok : BOOLEAN])]
    BY <2>1, <2>5
  <2> QED
    BY <1>14, <2>4 DEF EncodeResponse
<1>15. ASSUME NEW c \in Connections, EncodeFails(c) PROVE SequenceTypes'
  <2>1. << >> \in Seq(Requests)
    OBVIOUS
  <2>2. inbox' \in [Connections -> Seq(Requests)]
    BY <1>15, <2>1 DEF EncodeFails
  <2> QED
    BY <1>15, <2>2 DEF EncodeFails
<1>16. ASSUME NEW c \in Connections, Connect(c) PROVE SequenceTypes'
  BY <1>16 DEF Connect, HasRoom
<1>17. ASSUME NEW c \in Connections, Disconnect(c) PROVE SequenceTypes'
  BY <1>17 DEF Disconnect, Alive
<1>18. ASSUME NEW c \in Connections, NEW r \in Requests, Send(c, r) PROVE SequenceTypes'
  <2>1. Append(sent[c], r) \in Seq(Requests) /\ Append(inbox[c], r) \in Seq(Requests)
    OBVIOUS
  <2>2. sent' \in [Connections -> Seq(Requests)]
    BY <1>18, <2>1 DEF Send
  <2>3. inbox' \in [Connections -> Seq(Requests)]
    BY <1>18, <2>1 DEF Send
  <2> QED
    BY <1>18, <2>2, <2>3 DEF Send
<1>19. CASE UNCHANGED vars
  BY <1>19
<1> QED
  BY <1>1, <1>2, <1>3, <1>4, <1>5, <1>6, <1>7, <1>8, <1>9, <1>10,
     <1>11, <1>12, <1>13, <1>14, <1>15, <1>16, <1>17, <1>18, <1>19
  DEF Next, MainStep, HandlerStep, HostStep

\* Bundles and calls of Run stay those of run requests.
LEMMA WorkTypesPreserved ==
    ASSUME FlatTypes, SequenceTypes, WorkTypes, [Next]_vars
    PROVE  WorkTypes'
<1> USE DEF FlatTypes, WorkTypes, Run!Phases, vars, hostVars, connVars, workVars
<1>1. ASSUME MountFilesystems PROVE WorkTypes'
  BY <1>1 DEF MountFilesystems, Boot
<1>2. ASSUME SetupCgroups PROVE WorkTypes'
  BY <1>2 DEF SetupCgroups, Boot
<1>3. ASSUME StartNetworkCheckServer PROVE WorkTypes'
  BY <1>3 DEF StartNetworkCheckServer, Boot
<1>4. ASSUME Listen PROVE WorkTypes'
  BY <1>4 DEF Listen, Boot
<1>5. ASSUME AcceptConnection PROVE WorkTypes'
  BY <1>5 DEF AcceptConnection, Goto
<1>6. ASSUME AgentPanics PROVE WorkTypes'
  BY <1>6 DEF AgentPanics, Alive, Fault
<1>7. ASSUME NEW c \in Connections, DecodeRequest(c) PROVE WorkTypes'
  BY <1>7 DEF DecodeRequest, At, Alive, Goto
<1>8. ASSUME NEW c \in Connections, DecodeFails(c) PROVE WorkTypes'
  BY <1>8 DEF DecodeFails, At, Alive, Goto
<1>9. ASSUME NEW c \in Connections, PrepareImage(c) PROVE WorkTypes'
  BY <1>9 DEF PrepareImage, At, Alive, Goto
<1>10. ASSUME NEW c \in Connections, PrepareFails(c) PROVE WorkTypes'
  BY <1>10 DEF PrepareFails, At, Alive, Goto, RemoveAllFails, Fault
<1>11. ASSUME NEW c \in Connections, RunProgress(c) PROVE WorkTypes'
  <2>1. PICK q \in Runs, p \in Run!Phases : phase' = [phase EXCEPT ![q] = p]
    BY <1>11, ProgressIsOneCall DEF Run!Phases
  <2> QED
    BY <1>11, <2>1 DEF RunProgress
<1>12. ASSUME NEW c \in Connections, RunReturns(c) PROVE WorkTypes'
  BY <1>12 DEF RunReturns, At, Alive, Goto
<1>13. ASSUME NEW c \in Connections, RemoveBundle(c) PROVE WorkTypes'
  BY <1>13 DEF RemoveBundle, At, Alive, Goto, RemoveAllFails, Fault
<1>14. ASSUME NEW c \in Connections, EncodeResponse(c) PROVE WorkTypes'
  BY <1>14 DEF EncodeResponse, At, Alive, Goto
<1>15. ASSUME NEW c \in Connections, EncodeFails(c) PROVE WorkTypes'
  BY <1>15 DEF EncodeFails, At, Alive, Goto
<1>16. ASSUME NEW c \in Connections, Connect(c) PROVE WorkTypes'
  BY <1>16 DEF Connect, HasRoom
<1>17. ASSUME NEW c \in Connections, Disconnect(c) PROVE WorkTypes'
  BY <1>17 DEF Disconnect, Alive
<1>18. ASSUME NEW c \in Connections, NEW r \in Requests, Send(c, r) PROVE WorkTypes'
  BY <1>18 DEF Send, Alive
<1>19. CASE UNCHANGED vars
  BY <1>19
<1> QED
  BY <1>1, <1>2, <1>3, <1>4, <1>5, <1>6, <1>7, <1>8, <1>9, <1>10,
     <1>11, <1>12, <1>13, <1>14, <1>15, <1>16, <1>17, <1>18, <1>19
  DEF Next, MainStep, HandlerStep, HostStep

\* Connections are accepted once.
LEMMA BacklogPreserved ==
    ASSUME FlatTypes, BacklogInv, [Next]_vars
    PROVE  BacklogInv'
<1> USE DEF FlatTypes, BacklogInv, vars, hostVars, connVars, workVars
<1>1. ASSUME MountFilesystems PROVE BacklogInv'
  BY <1>1 DEF MountFilesystems, Boot
<1>2. ASSUME SetupCgroups PROVE BacklogInv'
  BY <1>2 DEF SetupCgroups, Boot
<1>3. ASSUME StartNetworkCheckServer PROVE BacklogInv'
  BY <1>3 DEF StartNetworkCheckServer, Boot
<1>4. ASSUME Listen PROVE BacklogInv'
  BY <1>4 DEF Listen, Boot
<1>5. ASSUME AcceptConnection PROVE BacklogInv'
  <2>1. /\ backlog # << >> /\ backlog' = Tail(backlog)
        /\ handler' = [handler EXCEPT ![backlog[1]] = "decode"]
        /\ UNCHANGED << agent, hostEnd >>
    BY <1>5 DEF AcceptConnection, Goto
  <2>2. /\ Tail(backlog) \in Seq(Connections) /\ Len(Tail(backlog)) = Len(backlog) - 1
        /\ \A i \in 1 .. Len(backlog) - 1 : Tail(backlog)[i] = backlog[i + 1]
        /\ 1 \in 1 .. Len(backlog) /\ backlog[1] \in Connections
        /\ Len(backlog) \in Nat
    BY <2>1
  <2>8. backlog' \in Seq(Connections) /\ Len(backlog') = Len(backlog) - 1
    BY <2>1, <2>2
  <2>3. Len(backlog') <= Backlog
    BY <2>2, <2>8, BoundsAssumption
  <2>9. \A i \in 1 .. Len(backlog') :
           /\ i \in Nat /\ i + 1 \in 1 .. Len(backlog) /\ i + 1 # 1
           /\ backlog'[i] = backlog[i + 1]
    <3> SUFFICES ASSUME NEW i \in 1 .. Len(backlog')
                 PROVE  /\ i \in Nat /\ i + 1 \in 1 .. Len(backlog) /\ i + 1 # 1
                        /\ backlog'[i] = backlog[i + 1]
      OBVIOUS
    <3>1. i \in Nat /\ i + 1 \in 1 .. Len(backlog) /\ i + 1 # 1 /\ i \in 1 .. Len(backlog) - 1
      BY <2>2, <2>8, NextIndex
    <3> QED
      BY <2>1, <2>2, <3>1
  <2>4. \A i \in 1 .. Len(backlog') : backlog[i + 1] # backlog[1]
    BY <2>2, <2>9
  <2>5. ASSUME NEW i \in 1 .. Len(backlog')
        PROVE  handler'[backlog'[i]] = "none" /\ hostEnd'[backlog'[i]] # "unused"
    <3>1. i + 1 \in 1 .. Len(backlog) /\ backlog'[i] = backlog[i + 1]
      BY <2>9
    <3>2. handler[backlog[i + 1]] = "none" /\ hostEnd[backlog[i + 1]] # "unused"
      BY <3>1
    <3>3. backlog[i + 1] \in Connections /\ backlog[i + 1] # backlog[1]
      BY <2>4, <3>1
    <3> QED
      BY <2>1, <3>1, <3>2, <3>3
  <2>6. ASSUME NEW i \in 1 .. Len(backlog'), NEW j \in 1 .. Len(backlog'),
               backlog'[i] = backlog'[j]
        PROVE  i = j
    <3>1. i + 1 = j + 1 /\ i \in Nat /\ j \in Nat
      BY <2>6, <2>9
    <3> QED
      BY <3>1
  <2>7. \A d \in Connections : hostEnd'[d] = "unused" => handler'[d] = "none"
    BY <2>1, <2>2
  <2> QED
    BY <2>3, <2>5, <2>6, <2>7, <2>8
<1>6. ASSUME AgentPanics PROVE BacklogInv'
  BY <1>6 DEF AgentPanics, Alive, Fault
<1>7. ASSUME NEW c \in Connections, DecodeRequest(c) PROVE BacklogInv'
  BY <1>7 DEF DecodeRequest, At, Alive, Goto
<1>8. ASSUME NEW c \in Connections, DecodeFails(c) PROVE BacklogInv'
  BY <1>8 DEF DecodeFails, At, Alive, Goto
<1>9. ASSUME NEW c \in Connections, PrepareImage(c) PROVE BacklogInv'
  BY <1>9 DEF PrepareImage, At, Alive, Goto
<1>10. ASSUME NEW c \in Connections, PrepareFails(c) PROVE BacklogInv'
  BY <1>10 DEF PrepareFails, At, Alive, Goto, RemoveAllFails, Fault
<1>11. ASSUME NEW c \in Connections, RunProgress(c) PROVE BacklogInv'
  BY <1>11 DEF RunProgress, At, Alive
<1>12. ASSUME NEW c \in Connections, RunReturns(c) PROVE BacklogInv'
  BY <1>12 DEF RunReturns, At, Alive, Goto
<1>13. ASSUME NEW c \in Connections, RemoveBundle(c) PROVE BacklogInv'
  BY <1>13 DEF RemoveBundle, At, Alive, Goto, RemoveAllFails, Fault
<1>14. ASSUME NEW c \in Connections, EncodeResponse(c) PROVE BacklogInv'
  BY <1>14 DEF EncodeResponse, At, Alive, Goto
<1>15. ASSUME NEW c \in Connections, EncodeFails(c) PROVE BacklogInv'
  BY <1>15 DEF EncodeFails, At, Alive, Goto
<1>16. ASSUME NEW c \in Connections, Connect(c) PROVE BacklogInv'
  <2>1. /\ backlog' = Append(backlog, c) /\ Len(backlog) < Backlog
        /\ hostEnd[c] = "unused" /\ hostEnd' = [hostEnd EXCEPT ![c] = "open"]
        /\ handler' = handler
    BY <1>16 DEF Connect, HasRoom
  <2>2. /\ Append(backlog, c) \in Seq(Connections) /\ Len(Append(backlog, c)) = Len(backlog) + 1
        /\ \A i \in 1 .. Len(backlog) : Append(backlog, c)[i] = backlog[i]
        /\ Append(backlog, c)[Len(backlog) + 1] = c
        /\ Len(backlog) \in Nat
    OBVIOUS
  <2>3. backlog' \in Seq(Connections) /\ Len(backlog') <= Backlog
    BY <2>1, <2>2, BoundsAssumption
  <2>4. \A i \in 1 .. Len(backlog) : backlog[i] # c
    BY <2>1
  <2>5. \A i \in 1 .. Len(backlog') :
           handler'[backlog'[i]] = "none" /\ hostEnd'[backlog'[i]] # "unused"
    BY <2>1, <2>2, <2>4
  <2>6. \A i, j \in 1 .. Len(backlog') : backlog'[i] = backlog'[j] => i = j
    BY <2>1, <2>2, <2>4
  <2>7. \A d \in Connections : hostEnd'[d] = "unused" => handler'[d] = "none"
    BY <2>1
  <2> QED
    BY <2>3, <2>5, <2>6, <2>7
<1>17. ASSUME NEW c \in Connections, Disconnect(c) PROVE BacklogInv'
  BY <1>17 DEF Disconnect, Alive
<1>18. ASSUME NEW c \in Connections, NEW r \in Requests, Send(c, r) PROVE BacklogInv'
  BY <1>18 DEF Send, Alive
<1>19. CASE UNCHANGED vars
  BY <1>19
<1> QED
  BY <1>1, <1>2, <1>3, <1>4, <1>5, <1>6, <1>7, <1>8, <1>9, <1>10,
     <1>11, <1>12, <1>13, <1>14, <1>15, <1>16, <1>17, <1>18, <1>19
  DEF Next, MainStep, HandlerStep, HostStep

\* Nothing is sent twice.
LEMMA OncePreserved ==
    ASSUME SequenceTypes, OnceInv, [Next]_vars
    PROVE  OnceInv'
<1> USE DEF SequenceTypes, OnceInv, vars, hostVars, connVars, workVars
<1>1. ASSUME MountFilesystems PROVE OnceInv'
  BY <1>1 DEF MountFilesystems, Boot
<1>2. ASSUME SetupCgroups PROVE OnceInv'
  BY <1>2 DEF SetupCgroups, Boot
<1>3. ASSUME StartNetworkCheckServer PROVE OnceInv'
  BY <1>3 DEF StartNetworkCheckServer, Boot
<1>4. ASSUME Listen PROVE OnceInv'
  BY <1>4 DEF Listen, Boot
<1>5. ASSUME AcceptConnection PROVE OnceInv'
  BY <1>5 DEF AcceptConnection, Goto
<1>6. ASSUME AgentPanics PROVE OnceInv'
  BY <1>6 DEF AgentPanics, Alive, Fault
<1>7. ASSUME NEW c \in Connections, DecodeRequest(c) PROVE OnceInv'
  BY <1>7 DEF DecodeRequest, At, Alive, Goto
<1>8. ASSUME NEW c \in Connections, DecodeFails(c) PROVE OnceInv'
  BY <1>8 DEF DecodeFails, At, Alive, Goto
<1>9. ASSUME NEW c \in Connections, PrepareImage(c) PROVE OnceInv'
  BY <1>9 DEF PrepareImage, At, Alive, Goto
<1>10. ASSUME NEW c \in Connections, PrepareFails(c) PROVE OnceInv'
  BY <1>10 DEF PrepareFails, At, Alive, Goto, RemoveAllFails, Fault
<1>11. ASSUME NEW c \in Connections, RunProgress(c) PROVE OnceInv'
  BY <1>11 DEF RunProgress, At, Alive
<1>12. ASSUME NEW c \in Connections, RunReturns(c) PROVE OnceInv'
  BY <1>12 DEF RunReturns, At, Alive, Goto
<1>13. ASSUME NEW c \in Connections, RemoveBundle(c) PROVE OnceInv'
  BY <1>13 DEF RemoveBundle, At, Alive, Goto, RemoveAllFails, Fault
<1>14. ASSUME NEW c \in Connections, EncodeResponse(c) PROVE OnceInv'
  BY <1>14 DEF EncodeResponse, At, Alive, Goto
<1>15. ASSUME NEW c \in Connections, EncodeFails(c) PROVE OnceInv'
  BY <1>15 DEF EncodeFails, At, Alive, Goto
<1>16. ASSUME NEW c \in Connections, Connect(c) PROVE OnceInv'
  BY <1>16 DEF Connect, HasRoom
<1>17. ASSUME NEW c \in Connections, Disconnect(c) PROVE OnceInv'
  BY <1>17 DEF Disconnect, Alive
<1>18. ASSUME NEW c \in Connections, NEW r \in Requests, Send(c, r) PROVE OnceInv'
  BY <1>18 DEF Send, Alive
<1>19. CASE UNCHANGED vars
  BY <1>19
<1> QED
  BY <1>1, <1>2, <1>3, <1>4, <1>5, <1>6, <1>7, <1>8, <1>9, <1>10,
     <1>11, <1>12, <1>13, <1>14, <1>15, <1>16, <1>17, <1>18, <1>19
  DEF Next, MainStep, HandlerStep, HostStep

\* A connection answers in the order of its stream.
LEMMA StreamPreserved ==
    ASSUME FlatTypes, SequenceTypes, BacklogInv, StreamInv, [Next]_vars
    PROVE  StreamInv'
<1> USE DEF vars, hostVars, connVars, workVars
<1>1. ASSUME MountFilesystems PROVE StreamInv'
  <2>1. \A d \in Connections : SameStream(d)
    BY <1>1 DEF MountFilesystems, Boot, SameStream, FlatTypes, Busy
  <2> QED
    BY <2>1, FrameStream DEF StreamInv
<1>2. ASSUME SetupCgroups PROVE StreamInv'
  <2>1. \A d \in Connections : SameStream(d)
    BY <1>2 DEF SetupCgroups, Boot, SameStream, FlatTypes, Busy
  <2> QED
    BY <2>1, FrameStream DEF StreamInv
<1>3. ASSUME StartNetworkCheckServer PROVE StreamInv'
  <2>1. \A d \in Connections : SameStream(d)
    BY <1>3 DEF StartNetworkCheckServer, Boot, SameStream, FlatTypes, Busy
  <2> QED
    BY <2>1, FrameStream DEF StreamInv
<1>4. ASSUME Listen PROVE StreamInv'
  <2>1. \A d \in Connections : SameStream(d)
    BY <1>4 DEF Listen, Boot, SameStream, FlatTypes, Busy
  <2> QED
    BY <2>1, FrameStream DEF StreamInv
<1>5. ASSUME AcceptConnection PROVE StreamInv'
  <2>1. \A d \in Connections : SameStream(d)
    BY <1>5, AcceptedIsNew DEF AcceptConnection, Goto, SameStream, FlatTypes, Busy
  <2> QED
    BY <2>1, FrameStream DEF StreamInv
<1>6. ASSUME AgentPanics PROVE StreamInv'
  <2>1. \A d \in Connections : SameStream(d)
    BY <1>6 DEF AgentPanics, Alive, Fault, SameStream, FlatTypes, Busy
  <2> QED
    BY <2>1, FrameStream DEF StreamInv
<1>7. ASSUME NEW c \in Connections, DecodeRequest(c) PROVE StreamInv'
  <2>1. \A d \in Connections \ {c} : SameStream(d)
    BY <1>7 DEF DecodeRequest, Goto, SameStream, FlatTypes
  <2> SUFFICES StreamOK(c)'
    BY <2>1, FrameStream DEF StreamInv
  <2>2. StreamOK(c)
    BY DEF StreamInv
  <2>3. /\ handler[c] = "decode" /\ handler'[c] \in {"prepare", "encode"}
        /\ job'[c] = {inbox[c][1]} /\ inbox[c][1] \notin Garbled
        /\ inbox'[c] = Tail(inbox[c]) /\ inbox[c] # << >>
        /\ sent' = sent /\ replies' = replies
    BY <1>7 DEF DecodeRequest, At, Goto, FlatTypes, SequenceTypes
  <2>4. /\ inbox[c] \in Seq(Requests) /\ sent[c] \in Seq(Requests)
        /\ Len(replies[c]) \in Nat /\ Len(inbox[c]) \in Nat
    BY Lengths DEF SequenceTypes
  <2>5. /\ Len(Tail(inbox[c])) = Len(inbox[c]) - 1 /\ 1 \in 1 .. Len(inbox[c])
        /\ \A i \in 1 .. Len(inbox[c]) - 1 :
              Tail(inbox[c])[i] = inbox[c][i + 1] /\ i + 1 \in 1 .. Len(inbox[c])
    BY <2>3, <2>4
  <2>6. /\ Len(sent[c]) = Len(replies[c]) + Len(inbox[c])
        /\ \A i \in 1 .. Len(inbox[c]) : inbox[c][i] = sent[c][Len(replies[c]) + i]
    BY <2>2, <2>3 DEF StreamOK
  <2>10. Len(inbox'[c]) = Len(inbox[c]) - 1
    BY <2>3, <2>5
  <2>7. Len(sent[c]) = Len(replies[c]) + 1 + Len(inbox'[c])
    BY <2>4, <2>6, <2>10, MoveOne
  <2>8. inbox[c][1] = sent[c][Len(replies[c]) + 1]
    BY <2>5, <2>6
  <2>9. ASSUME NEW i \in 1 .. Len(inbox'[c])
        PROVE  inbox'[c][i] = sent[c][Len(replies[c]) + 1 + i]
    <3>1. i \in 1 .. Len(inbox[c]) - 1
      BY <2>3, <2>5
    <3>2. inbox[c][i + 1] = sent[c][Len(replies[c]) + (i + 1)]
      BY <3>1, <2>5, <2>6
    <3>4. i \in Nat
      BY <3>1
    <3>3. Len(replies[c]) + (i + 1) = Len(replies[c]) + 1 + i
      BY <3>4, <2>4, Regroup
    <3> QED
      BY <2>3, <2>5, <3>1, <3>2, <3>3
  <2> QED
    BY <2>2, <2>3, <2>7, <2>8, <2>9 DEF StreamOK, Busy
<1>8. ASSUME NEW c \in Connections, DecodeFails(c) PROVE StreamInv'
  <2>1. \A d \in Connections \ {c} : SameStream(d)
    BY <1>8 DEF DecodeFails, Goto, SameStream, FlatTypes
  <2> SUFFICES StreamOK(c)'
    BY <2>1, FrameStream DEF StreamInv
  <2>2. StreamOK(c)
    BY DEF StreamInv
  <2>3. /\ handler[c] = "decode" /\ handler'[c] = "done" /\ job' = job
        /\ sent' = sent /\ replies' = replies
    BY <1>8 DEF DecodeFails, At, Goto, FlatTypes
  <2> QED
    BY <2>2, <2>3 DEF StreamOK, Busy
<1>9. ASSUME NEW c \in Connections, PrepareImage(c) PROVE StreamInv'
  <2>1. \A d \in Connections : SameStream(d)
    BY <1>9 DEF PrepareImage, At, Alive, Goto, SameStream, FlatTypes, Busy
  <2> QED
    BY <2>1, FrameStream DEF StreamInv
<1>10. ASSUME NEW c \in Connections, PrepareFails(c) PROVE StreamInv'
  <2>1. \A d \in Connections : SameStream(d)
    BY <1>10 DEF PrepareFails, At, Alive, Goto, RemoveAllFails, Fault, SameStream, FlatTypes, Busy
  <2> QED
    BY <2>1, FrameStream DEF StreamInv
<1>11. ASSUME NEW c \in Connections, RunProgress(c) PROVE StreamInv'
  <2>1. \A d \in Connections : SameStream(d)
    BY <1>11 DEF RunProgress, At, Alive, SameStream, FlatTypes, Busy
  <2> QED
    BY <2>1, FrameStream DEF StreamInv
<1>12. ASSUME NEW c \in Connections, RunReturns(c) PROVE StreamInv'
  <2>1. \A d \in Connections : SameStream(d)
    BY <1>12 DEF RunReturns, At, Alive, Goto, SameStream, FlatTypes, Busy
  <2> QED
    BY <2>1, FrameStream DEF StreamInv
<1>13. ASSUME NEW c \in Connections, RemoveBundle(c) PROVE StreamInv'
  <2>1. \A d \in Connections : SameStream(d)
    BY <1>13 DEF RemoveBundle, At, Alive, Goto, RemoveAllFails, Fault, SameStream, FlatTypes, Busy
  <2> QED
    BY <2>1, FrameStream DEF StreamInv
<1>14. ASSUME NEW c \in Connections, EncodeResponse(c) PROVE StreamInv'
  <2>1. \A d \in Connections \ {c} : SameStream(d)
    BY <1>14 DEF EncodeResponse, Goto, SameStream, FlatTypes
  <2> SUFFICES StreamOK(c)'
    BY <2>1, FrameStream DEF StreamInv
  <2>2. StreamOK(c)
    BY DEF StreamInv
  <2>3. /\ handler[c] = "encode" /\ handler'[c] = "decode" /\ job'[c] = {}
        /\ sent' = sent /\ inbox' = inbox
    BY <1>14 DEF EncodeResponse, At, Goto, FlatTypes
  <2>4. PICK q \in job[c] : replies'[c] = Append(replies[c], [id |-> q, ok |-> answer[c]])
    BY <1>14 DEF EncodeResponse, SequenceTypes
  <2>5. /\ Len(sent[c]) = Len(replies[c]) + 1 + Len(inbox[c])
        /\ q = sent[c][Len(replies[c]) + 1] /\ q \notin Garbled
        /\ \A i \in 1 .. Len(inbox[c]) : inbox[c][i] = sent[c][Len(replies[c]) + 1 + i]
        /\ \A i \in 1 .. Len(replies[c]) :
              replies[c][i].id = sent[c][i] /\ sent[c][i] \notin Garbled
    BY <2>2, <2>3, <2>4 DEF StreamOK, Busy
  <2>6. /\ replies[c] \in Seq([id : Requests, ok : BOOLEAN])
        /\ Len(replies[c]) \in Nat /\ Len(inbox[c]) \in Nat
    BY Lengths DEF SequenceTypes
  <2>12. [id |-> q, ok |-> answer[c]] \in [id : Requests, ok : BOOLEAN]
    <3>1. q \in Requests /\ answer[c] \in BOOLEAN
      BY <2>4 DEF FlatTypes
    <3> QED
      BY <3>1
  <2>7. /\ Len(replies'[c]) = Len(replies[c]) + 1
        /\ \A i \in 1 .. Len(replies[c]) : replies'[c][i] = replies[c][i]
        /\ replies'[c][Len(replies[c]) + 1].id = q
    BY <2>4, <2>6, <2>12
  <2>8. \A i \in 1 .. Len(replies'[c]) : i \in 1 .. Len(replies[c]) \/ i = Len(replies[c]) + 1
    BY <2>6, <2>7
  <2>9. \A i \in 1 .. Len(replies'[c]) :
           replies'[c][i].id = sent[c][i] /\ sent[c][i] \notin Garbled
    BY <2>5, <2>7, <2>8
  <2>10. Len(sent[c]) = Len(replies'[c]) + Len(inbox[c]) /\ Len(replies'[c]) <= Len(sent[c])
    BY <2>5, <2>6, <2>7, AnswerOne
  <2>11. \A i \in 1 .. Len(inbox[c]) : inbox[c][i] = sent[c][Len(replies'[c]) + i]
    BY <2>5, <2>7
  <2> QED
    BY <2>3, <2>9, <2>10, <2>11 DEF StreamOK, Busy
<1>15. ASSUME NEW c \in Connections, EncodeFails(c) PROVE StreamInv'
  <2>1. \A d \in Connections \ {c} : SameStream(d)
    BY <1>15 DEF EncodeFails, Goto, SameStream, FlatTypes
  <2> SUFFICES StreamOK(c)'
    BY <2>1, FrameStream DEF StreamInv
  <2>2. StreamOK(c)
    BY DEF StreamInv
  <2>3. /\ handler'[c] = "done" /\ job'[c] = {}
        /\ sent' = sent /\ replies' = replies
    BY <1>15 DEF EncodeFails, At, Goto, FlatTypes
  <2> QED
    BY <2>2, <2>3 DEF StreamOK, Busy
<1>16. ASSUME NEW c \in Connections, Connect(c) PROVE StreamInv'
  <2>1. \A d \in Connections : SameStream(d)
    BY <1>16 DEF Connect, HasRoom, SameStream, FlatTypes, Busy
  <2> QED
    BY <2>1, FrameStream DEF StreamInv
<1>17. ASSUME NEW c \in Connections, Disconnect(c) PROVE StreamInv'
  <2>1. \A d \in Connections : SameStream(d)
    BY <1>17 DEF Disconnect, Alive, SameStream, FlatTypes, Busy
  <2> QED
    BY <2>1, FrameStream DEF StreamInv
<1>18. ASSUME NEW c \in Connections, NEW r \in Requests, Send(c, r) PROVE StreamInv'
  <2>1. \A d \in Connections \ {c} : SameStream(d)
    BY <1>18 DEF Send, SameStream, FlatTypes
  <2> SUFFICES StreamOK(c)'
    BY <2>1, FrameStream DEF StreamInv
  <2>2. StreamOK(c)
    BY DEF StreamInv
  <2>3. /\ handler' = handler /\ job' = job /\ replies' = replies
        /\ sent'[c] = Append(sent[c], r)
        /\ handler[c] # "done" => inbox'[c] = Append(inbox[c], r)
    BY <1>18 DEF Send, SequenceTypes
  <2>4. /\ sent[c] \in Seq(Requests) /\ inbox[c] \in Seq(Requests)
        /\ Len(sent[c]) \in Nat /\ Len(inbox[c]) \in Nat /\ Len(replies[c]) \in Nat
    BY Lengths DEF SequenceTypes
  <2>5. /\ Len(sent'[c]) = Len(sent[c]) + 1 /\ sent'[c][Len(sent[c]) + 1] = r
        /\ \A i \in 1 .. Len(sent[c]) : sent'[c][i] = sent[c][i]
    BY <2>3, <2>4
  <2>6. ASSUME handler[c] # "done"
        PROVE  /\ Len(inbox'[c]) = Len(inbox[c]) + 1 /\ inbox'[c][Len(inbox[c]) + 1] = r
               /\ \A i \in 1 .. Len(inbox[c]) : inbox'[c][i] = inbox[c][i]
    BY <2>3, <2>4, <2>6, AppendFacts
  <2>11. ASSUME handler[c] # "done"
         PROVE  \A i \in 1 .. Len(inbox'[c]) :
                   i \in 1 .. Len(inbox[c]) \/ i = Len(inbox[c]) + 1
    BY <2>4, <2>6, <2>11
  <2>7. /\ Len(replies[c]) <= Len(sent'[c])
        /\ \A i \in 1 .. Len(replies[c]) :
              replies[c][i].id = sent'[c][i] /\ sent'[c][i] \notin Garbled
    BY <2>2, <2>4, <2>5 DEF StreamOK
  <2>8. CASE handler[c] \in Busy
    <3>1. /\ Len(sent[c]) = Len(replies[c]) + 1 + Len(inbox[c])
          /\ job[c] = {sent[c][Len(replies[c]) + 1]}
          /\ sent[c][Len(replies[c]) + 1] \notin Garbled
          /\ \A i \in 1 .. Len(inbox[c]) : inbox[c][i] = sent[c][Len(replies[c]) + 1 + i]
      BY <2>2, <2>8 DEF StreamOK
    <3>4. handler[c] # "done"
      BY <2>8 DEF Busy
    <3>6. Len(inbox'[c]) = Len(inbox[c]) + 1 /\ Len(sent'[c]) = Len(sent[c]) + 1
      BY <3>4, <2>5, <2>6
    <3>7. Len(sent'[c]) = Len(replies[c]) + 1 + Len(inbox'[c])
      BY <3>1, <3>6, <2>4, SentInHand
    <3>2. Len(replies[c]) + 1 \in 1 .. Len(sent[c])
      BY <3>1, <2>4, InHandIndex
    <3>5. sent'[c][Len(replies[c]) + 1] = sent[c][Len(replies[c]) + 1]
      BY <3>2, <2>5
    <3>3. ASSUME NEW i \in 1 .. Len(inbox'[c])
          PROVE  inbox'[c][i] = sent'[c][Len(replies[c]) + 1 + i]
      <4>1. CASE i \in 1 .. Len(inbox[c])
        <5>1. Len(replies[c]) + 1 + i \in 1 .. Len(sent[c])
          BY <4>1, <3>1, <2>4, InHandIndex
        <5> QED
          BY <4>1, <5>1, <3>1, <3>4, <2>5, <2>6
      <4>2. CASE i = Len(inbox[c]) + 1
        <5>1. Len(replies[c]) + 1 + i = Len(sent[c]) + 1
          BY <4>2, <3>1, <2>4, SentInHand
        <5> QED
          BY <4>2, <5>1, <3>4, <2>5, <2>6
      <4> QED
        BY <3>4, <4>1, <4>2, <2>11
    <3> QED
      BY <2>3, <2>7, <2>8, <3>1, <3>2, <3>3, <3>5, <3>7 DEF StreamOK, Busy
  <2>9. CASE handler[c] \in {"none", "decode"}
    <3>1. /\ Len(sent[c]) = Len(replies[c]) + Len(inbox[c])
          /\ \A i \in 1 .. Len(inbox[c]) : inbox[c][i] = sent[c][Len(replies[c]) + i]
      BY <2>2, <2>9 DEF StreamOK
    <3>4. handler[c] # "done"
      BY <2>9
    <3>5. Len(inbox'[c]) = Len(inbox[c]) + 1 /\ Len(sent'[c]) = Len(sent[c]) + 1
      BY <3>4, <2>5, <2>6
    <3>2. Len(sent'[c]) = Len(replies[c]) + Len(inbox'[c])
      BY <3>1, <3>5, <2>4, SentWaiting
    <3>3. ASSUME NEW i \in 1 .. Len(inbox'[c])
          PROVE  inbox'[c][i] = sent'[c][Len(replies[c]) + i]
      <4>1. CASE i \in 1 .. Len(inbox[c])
        <5>1. Len(replies[c]) + i \in 1 .. Len(sent[c])
          BY <4>1, <3>1, <2>4, WaitingIndex
        <5> QED
          BY <4>1, <5>1, <3>1, <3>4, <2>5, <2>6
      <4>2. CASE i = Len(inbox[c]) + 1
        <5>1. Len(replies[c]) + i = Len(sent[c]) + 1
          BY <4>2, <3>1, <2>4, SentWaiting
        <5> QED
          BY <4>2, <5>1, <3>4, <2>5, <2>6
      <4> QED
        BY <3>4, <4>1, <4>2, <2>11
    <3> QED
      BY <2>2, <2>3, <2>7, <2>9, <3>2, <3>3 DEF StreamOK, Busy
  <2>10. CASE handler[c] \notin Busy \cup {"none", "decode"}
    BY <2>2, <2>3, <2>7, <2>10 DEF StreamOK
  <2> QED
    BY <2>8, <2>9, <2>10
<1>19. CASE UNCHANGED vars
  BY <1>19 DEF StreamInv, StreamOK
<1> QED
  BY <1>1, <1>2, <1>3, <1>4, <1>5, <1>6, <1>7, <1>8, <1>9, <1>10,
     <1>11, <1>12, <1>13, <1>14, <1>15, <1>16, <1>17, <1>18, <1>19
  DEF Next, MainStep, HandlerStep, HostStep

\* Nobody removes a bundle in use.
LEMMA WorkPreserved ==
    ASSUME FlatTypes, WorkTypes, BacklogInv, SequenceTypes, OnceInv, StreamInv, WorkInv,
           [Next]_vars
    PROVE  WorkInv'
<1> USE DEF FlatTypes, WorkTypes, WorkInv, Returned, vars, hostVars, connVars, workVars
<1>1. ASSUME MountFilesystems PROVE WorkInv'
  BY <1>1 DEF MountFilesystems, Boot
<1>2. ASSUME SetupCgroups PROVE WorkInv'
  BY <1>2 DEF SetupCgroups, Boot
<1>3. ASSUME StartNetworkCheckServer PROVE WorkInv'
  BY <1>3 DEF StartNetworkCheckServer, Boot
<1>4. ASSUME Listen PROVE WorkInv'
  BY <1>4 DEF Listen, Boot
<1>5. ASSUME AcceptConnection PROVE WorkInv'
  BY <1>5, AcceptedIsNew DEF AcceptConnection, Goto
<1>6. ASSUME AgentPanics PROVE WorkInv'
  BY <1>6 DEF AgentPanics, Alive, Fault
<1>7. ASSUME NEW c \in Connections, DecodeRequest(c) PROVE WorkInv'
  BY <1>7 DEF DecodeRequest, At, Alive, Goto
<1>8. ASSUME NEW c \in Connections, DecodeFails(c) PROVE WorkInv'
  BY <1>8 DEF DecodeFails, At, Alive, Goto
<1>9. ASSUME NEW c \in Connections, PrepareImage(c) PROVE WorkInv'
  BY <1>9 DEF PrepareImage, At, Alive, Goto
<1>10. ASSUME NEW c \in Connections, PrepareFails(c) PROVE WorkInv'
  BY <1>10 DEF PrepareFails, At, Alive, Goto, RemoveAllFails, Fault
<1>11. ASSUME NEW c \in Connections, RunProgress(c) PROVE WorkInv'
  <2>1. PICK q \in job[c] \cap Runs, p \in Run!Phases :
           phase' = [phase EXCEPT ![q] = p] /\ phase[q] \notin Returned /\ handler[c] = "run"
    BY <1>11, ProgressIsOneCall
  <2>2. UNCHANGED << handler, job, bundles >>
    BY <1>11 DEF RunProgress, connVars
  <2> QED
    BY <2>1, <2>2
<1>12. ASSUME NEW c \in Connections, RunReturns(c) PROVE WorkInv'
  BY <1>12 DEF RunReturns, At, Alive, Goto
<1>13. ASSUME NEW c \in Connections, RemoveBundle(c) PROVE WorkInv'
  <2>1. \A d \in Connections \ {c} : job[d] \cap job[c] = {}
    BY JobsDisjoint
  <2> QED
    BY <1>13, <2>1 DEF RemoveBundle, At, Goto, RemoveAllFails, Fault
<1>14. ASSUME NEW c \in Connections, EncodeResponse(c) PROVE WorkInv'
  BY <1>14 DEF EncodeResponse, At, Alive, Goto
<1>15. ASSUME NEW c \in Connections, EncodeFails(c) PROVE WorkInv'
  BY <1>15 DEF EncodeFails, At, Alive, Goto
<1>16. ASSUME NEW c \in Connections, Connect(c) PROVE WorkInv'
  BY <1>16 DEF Connect, HasRoom
<1>17. ASSUME NEW c \in Connections, Disconnect(c) PROVE WorkInv'
  BY <1>17 DEF Disconnect, Alive
<1>18. ASSUME NEW c \in Connections, NEW r \in Requests, Send(c, r) PROVE WorkInv'
  BY <1>18 DEF Send, Alive
<1>19. CASE UNCHANGED vars
  BY <1>19
<1> QED
  BY <1>1, <1>2, <1>3, <1>4, <1>5, <1>6, <1>7, <1>8, <1>9, <1>10,
     <1>11, <1>12, <1>13, <1>14, <1>15, <1>16, <1>17, <1>18, <1>19
  DEF Next, MainStep, HandlerStep, HostStep

\* What is reported as OK remains true.
LEMMA AnswerPreserved ==
    ASSUME FlatTypes, SequenceTypes, WorkTypes, BacklogInv, OnceInv, StreamInv,
           WorkInv, AnswerInv, [Next]_vars
    PROVE  AnswerInv'
<1> USE RequestsAssumption
    DEF FlatTypes, AnswerInv, Clean, Returned, vars, hostVars, connVars, workVars
<1>1. ASSUME MountFilesystems PROVE AnswerInv'
  BY <1>1 DEF MountFilesystems, Boot
<1>2. ASSUME SetupCgroups PROVE AnswerInv'
  BY <1>2 DEF SetupCgroups, Boot
<1>3. ASSUME StartNetworkCheckServer PROVE AnswerInv'
  BY <1>3 DEF StartNetworkCheckServer, Boot
<1>4. ASSUME Listen PROVE AnswerInv'
  BY <1>4 DEF Listen, Boot
<1>5. ASSUME AcceptConnection PROVE AnswerInv'
  BY <1>5 DEF AcceptConnection, Goto
<1>6. ASSUME AgentPanics PROVE AnswerInv'
  BY <1>6 DEF AgentPanics, Alive, Fault
<1>7. ASSUME NEW c \in Connections, DecodeRequest(c) PROVE AnswerInv'
  <2>1. /\ UNCHANGED << sent, replies, bundles, phase >>
        /\ \A d \in Connections \ {c} : handler'[d] = handler[d] /\ job'[d] = job[d]
    BY <1>7 DEF DecodeRequest, Goto
  <2>6. answer' = [answer EXCEPT ![c] = Head(inbox[c]) \in Pings]
    BY <1>7 DEF DecodeRequest
  <2>7. \A d \in Connections \ {c} : answer'[d] = answer[d]
    BY <2>6
  <2>8. answer'[c] => Head(inbox[c]) \in Pings
    <3> DEFINE known == Head(inbox[c]) \in Pings
    <3>1. answer' = [answer EXCEPT ![c] = known] /\ answer \in [Connections -> BOOLEAN]
      BY <2>6
    <3>2. known \in BOOLEAN
      OBVIOUS
    <3> HIDE DEF known
    <3>3. [answer EXCEPT ![c] = known][c] <=> known
      BY <3>1, <3>2, BooleanUpdate
    <3>4. answer'[c] <=> known
      BY <3>1, <3>3, Zenon
    <3> QED
      BY <3>4 DEF known
  <2>2. /\ job'[c] = {Head(inbox[c])}
        /\ handler'[c] = IF Head(inbox[c]) \in Runs THEN "prepare" ELSE "encode"
    BY <1>7 DEF DecodeRequest, Goto
  <2>3. \A x : Clean(x)' <=> Clean(x)
    BY <2>1
  <2>4. answer'[c] => \A q \in job'[c] : Clean(q)'
    BY <2>2, <2>8
  <2>5. handler'[c] # "encode" => ~answer'[c]
    BY <2>2, <2>8, RequestsAssumption
  <2> QED
    BY <2>1, <2>2, <2>3, <2>4, <2>5, <2>7
<1>8. ASSUME NEW c \in Connections, DecodeFails(c) PROVE AnswerInv'
  BY <1>8 DEF DecodeFails, At, Alive, Goto
<1>9. ASSUME NEW c \in Connections, PrepareImage(c) PROVE AnswerInv'
  <2>1. \A d \in Connections : \A i \in 1 .. Len(replies[d]) : sent[d][i] \notin job[c]
    BY AnsweredNotInHand
  <2>2. \A d \in Connections \ {c} : job[d] \cap job[c] = {}
    BY JobsDisjoint
  <2>3. /\ UNCHANGED << sent, replies, job, answer, phase >>
        /\ bundles' \subseteq bundles \cup job[c]
    BY <1>9 DEF PrepareImage
  <2>4. /\ handler[c] = "prepare" /\ handler'[c] \in {"run", "encode"}
        /\ \A d \in Connections \ {c} : handler'[d] = handler[d]
    BY <1>9 DEF PrepareImage, At, Goto
  <2>5. \A d \in Connections : \A i \in 1 .. Len(replies[d]) :
            replies[d][i].ok => Clean(sent[d][i])'
    BY <2>1, <2>3
  <2>6. \A d \in Connections \ {c} :
           handler[d] = "encode" /\ answer[d] => \A q \in job[d] : Clean(q)'
    BY <2>2, <2>3
  <2> QED
    BY <2>3, <2>4, <2>5, <2>6
<1>10. ASSUME NEW c \in Connections, PrepareFails(c) PROVE AnswerInv'
  <2>1. \A d \in Connections : \A i \in 1 .. Len(replies[d]) : sent[d][i] \notin job[c]
    BY AnsweredNotInHand
  <2>2. \A d \in Connections \ {c} : job[d] \cap job[c] = {}
    BY JobsDisjoint
  <2>3. /\ UNCHANGED << sent, replies, job, answer, phase >>
        /\ bundles' \subseteq bundles \cup job[c]
    BY <1>10 DEF PrepareFails
  <2>4. /\ handler[c] = "prepare" /\ handler'[c] \in {"run", "encode"}
        /\ \A d \in Connections \ {c} : handler'[d] = handler[d]
    BY <1>10 DEF PrepareFails, At, Goto
  <2>5. \A d \in Connections : \A i \in 1 .. Len(replies[d]) :
            replies[d][i].ok => Clean(sent[d][i])'
    BY <2>1, <2>3
  <2>6. \A d \in Connections \ {c} :
           handler[d] = "encode" /\ answer[d] => \A q \in job[d] : Clean(q)'
    BY <2>2, <2>3
  <2> QED
    BY <2>3, <2>4, <2>5, <2>6
<1>11. ASSUME NEW c \in Connections, RunProgress(c) PROVE AnswerInv'
  <2>1. PICK q \in job[c] \cap Runs, p \in Run!Phases :
           phase' = [phase EXCEPT ![q] = p] /\ phase[q] \notin Returned
    BY <1>11, ProgressIsOneCall
  <2>2. UNCHANGED << handler, job, bundles, answer, replies, sent >>
    BY <1>11 DEF RunProgress
  <2>3. \A x \in Requests : Clean(x) => Clean(x)'
    BY <2>1, <2>2
  <2>4. \A d \in Connections : \A i \in 1 .. Len(replies[d]) : sent[d][i] \in Requests
    BY DEF StreamInv, StreamOK, SequenceTypes
  <2> QED
    BY <2>2, <2>3, <2>4
<1>12. ASSUME NEW c \in Connections, RunReturns(c) PROVE AnswerInv'
  BY <1>12 DEF RunReturns, At, Alive, Goto
<1>13. ASSUME NEW c \in Connections, RemoveBundle(c) PROVE AnswerInv'
  <2>1. /\ UNCHANGED << sent, replies, job, phase >> /\ bundles' \subseteq bundles
        /\ handler[c] = "removeBundle" /\ handler'[c] = "encode"
        /\ \A d \in Connections \ {c} : handler'[d] = handler[d] /\ answer'[d] = answer[d]
    BY <1>13 DEF RemoveBundle, At, Goto, RemoveAllFails, Fault
  <2>2. \A x : Clean(x) => Clean(x)'
    BY <2>1
  <2>3. answer'[c] => \A q \in job[c] : phase[q] = "succeeded" /\ q \notin bundles'
    BY <1>13, <2>1 DEF RemoveBundle
  <2>4. answer'[c] => \A q \in job[c] : Clean(q)'
    BY <2>1, <2>3 DEF WorkTypes
  <2> QED
    BY <2>1, <2>2, <2>4
<1>14. ASSUME NEW c \in Connections, EncodeResponse(c) PROVE AnswerInv'
  <2>1. PICK q \in job[c] :
           replies' = [replies EXCEPT ![c] = Append(replies[c], [id |-> q, ok |-> answer[c]])]
    BY <1>14 DEF EncodeResponse
  <2>2. /\ UNCHANGED << sent, bundles, phase, answer >>
        /\ handler[c] = "encode" /\ handler'[c] = "decode"
        /\ \A d \in Connections \ {c} : handler'[d] = handler[d] /\ job'[d] = job[d]
    BY <1>14 DEF EncodeResponse, At, Goto
  <2>3. \A x : Clean(x)' <=> Clean(x)
    BY <2>2
  <2>4. replies[c] \in Seq([id : Requests, ok : BOOLEAN]) /\ Len(replies[c]) \in Nat
    BY Lengths DEF SequenceTypes
  <2>11. [id |-> q, ok |-> answer[c]] \in [id : Requests, ok : BOOLEAN]
    <3>1. q \in Requests /\ answer[c] \in BOOLEAN
      OBVIOUS
    <3> QED
      BY <3>1
  <2>12. replies'[c] = Append(replies[c], [id |-> q, ok |-> answer[c]])
    BY <2>1 DEF SequenceTypes
  <2>5. /\ Len(replies'[c]) = Len(replies[c]) + 1
        /\ \A i \in 1 .. Len(replies[c]) : replies'[c][i] = replies[c][i]
        /\ replies'[c][Len(replies[c]) + 1] = [id |-> q, ok |-> answer[c]]
    BY <2>4, <2>11, <2>12
  <2>6. \A i \in 1 .. Len(replies'[c]) : i \in 1 .. Len(replies[c]) \/ i = Len(replies[c]) + 1
    BY <2>4, <2>5
  <2>7. q = sent[c][Len(replies[c]) + 1]
    <3>1. StreamOK(c)
      BY DEF StreamInv
    <3> QED
      BY <2>2, <3>1 DEF StreamOK, Busy
  <2>8. answer[c] => Clean(q)
    BY <2>2
  <2>9. \A i \in 1 .. Len(replies'[c]) : replies'[c][i].ok => Clean(sent[c][i])
    BY <2>5, <2>6, <2>7, <2>8
  <2>10. \A d \in Connections \ {c} : replies'[d] = replies[d]
    BY <2>1 DEF SequenceTypes
  <2> QED
    BY <2>2, <2>3, <2>9, <2>10
<1>15. ASSUME NEW c \in Connections, EncodeFails(c) PROVE AnswerInv'
  BY <1>15 DEF EncodeFails, At, Alive, Goto
<1>16. ASSUME NEW c \in Connections, Connect(c) PROVE AnswerInv'
  BY <1>16 DEF Connect, HasRoom
<1>17. ASSUME NEW c \in Connections, Disconnect(c) PROVE AnswerInv'
  BY <1>17 DEF Disconnect, Alive
<1>18. ASSUME NEW c \in Connections, NEW r \in Requests, Send(c, r) PROVE AnswerInv'
  <2>1. UNCHANGED << handler, job, bundles, answer, replies, phase >>
    BY <1>18 DEF Send
  <2>2. \A d \in Connections : \A i \in 1 .. Len(sent[d]) : sent'[d][i] = sent[d][i]
    BY <1>18 DEF Send, SequenceTypes
  <2>3. \A d \in Connections : \A i \in 1 .. Len(replies[d]) : sent'[d][i] = sent[d][i]
    BY <2>2 DEF StreamInv, StreamOK, SequenceTypes
  <2> QED
    BY <2>1, <2>3
<1>19. CASE UNCHANGED vars
  BY <1>19
<1> QED
  BY <1>1, <1>2, <1>3, <1>4, <1>5, <1>6, <1>7, <1>8, <1>9, <1>10,
     <1>11, <1>12, <1>13, <1>14, <1>15, <1>16, <1>17, <1>18, <1>19
  DEF Next, MainStep, HandlerStep, HostStep

\* A goroutine keeps its bundle until it has removed it.
LEMMA OrphansPreserved ==
    ASSUME FlatTypes, WorkTypes, BacklogInv, StreamInv, NoOrphanBundle, [Next]_vars
    PROVE  NoOrphanBundle'
<1> USE DEF FlatTypes, WorkTypes, NoOrphanBundle, vars, hostVars, connVars, workVars
<1>1. ASSUME MountFilesystems PROVE NoOrphanBundle'
  BY <1>1 DEF MountFilesystems, Boot
<1>2. ASSUME SetupCgroups PROVE NoOrphanBundle'
  BY <1>2 DEF SetupCgroups, Boot
<1>3. ASSUME StartNetworkCheckServer PROVE NoOrphanBundle'
  BY <1>3 DEF StartNetworkCheckServer, Boot
<1>4. ASSUME Listen PROVE NoOrphanBundle'
  BY <1>4 DEF Listen, Boot
<1>5. ASSUME AcceptConnection PROVE NoOrphanBundle'
  BY <1>5, AcceptedIsNew DEF AcceptConnection, Goto
<1>6. ASSUME AgentPanics PROVE NoOrphanBundle'
  BY <1>6 DEF AgentPanics, Alive, Fault
<1>7. ASSUME NEW c \in Connections, DecodeRequest(c) PROVE NoOrphanBundle'
  BY <1>7 DEF DecodeRequest, At, Alive, Goto
<1>8. ASSUME NEW c \in Connections, DecodeFails(c) PROVE NoOrphanBundle'
  BY <1>8 DEF DecodeFails, At, Alive, Goto
<1>9. ASSUME NEW c \in Connections, PrepareImage(c) PROVE NoOrphanBundle'
  BY <1>9 DEF PrepareImage, At, Alive, Goto
<1>10. ASSUME NEW c \in Connections, PrepareFails(c) PROVE NoOrphanBundle'
  <2>1. \E q : job[c] = {q}
    BY <1>10 DEF PrepareFails, At, StreamInv, StreamOK, Busy
  <2>2. \/ bundles' = bundles
        \/ bundles' = bundles \cup job[c] /\ \A q \in job[c] : << q, "RemoveAll" >> \in faults'
    BY <1>10, <2>1 DEF PrepareFails, RemoveAllFails, Fault
  <2>3. /\ handler[c] = "prepare" /\ handler' = [handler EXCEPT ![c] = "encode"]
        /\ job' = job /\ faults \subseteq faults'
    BY <1>10 DEF PrepareFails, At, Goto, RemoveAllFails, Fault
  <2> QED
    BY <2>2, <2>3
<1>11. ASSUME NEW c \in Connections, RunProgress(c) PROVE NoOrphanBundle'
  BY <1>11 DEF RunProgress, At, Alive
<1>12. ASSUME NEW c \in Connections, RunReturns(c) PROVE NoOrphanBundle'
  BY <1>12 DEF RunReturns, At, Alive, Goto
<1>13. ASSUME NEW c \in Connections, RemoveBundle(c) PROVE NoOrphanBundle'
  <2>1. \E q : job[c] = {q}
    BY <1>13 DEF RemoveBundle, At, StreamInv, StreamOK, Busy
  <2>2. \/ bundles' = bundles \ job[c]
        \/ bundles' = bundles /\ \A q \in job[c] : << q, "RemoveAll" >> \in faults'
    BY <1>13, <2>1 DEF RemoveBundle, RemoveAllFails, Fault
  <2>3. /\ handler' = [handler EXCEPT ![c] = "encode"]
        /\ job' = job /\ faults \subseteq faults'
    BY <1>13 DEF RemoveBundle, Goto, RemoveAllFails, Fault
  <2> QED
    BY <2>2, <2>3
<1>14. ASSUME NEW c \in Connections, EncodeResponse(c) PROVE NoOrphanBundle'
  BY <1>14 DEF EncodeResponse, At, Alive, Goto
<1>15. ASSUME NEW c \in Connections, EncodeFails(c) PROVE NoOrphanBundle'
  BY <1>15 DEF EncodeFails, At, Alive, Goto
<1>16. ASSUME NEW c \in Connections, Connect(c) PROVE NoOrphanBundle'
  BY <1>16 DEF Connect, HasRoom
<1>17. ASSUME NEW c \in Connections, Disconnect(c) PROVE NoOrphanBundle'
  BY <1>17 DEF Disconnect, Alive
<1>18. ASSUME NEW c \in Connections, NEW r \in Requests, Send(c, r) PROVE NoOrphanBundle'
  BY <1>18 DEF Send, Alive
<1>19. CASE UNCHANGED vars
  BY <1>19
<1> QED
  BY <1>1, <1>2, <1>3, <1>4, <1>5, <1>6, <1>7, <1>8, <1>9, <1>10,
     <1>11, <1>12, <1>13, <1>14, <1>15, <1>16, <1>17, <1>18, <1>19
  DEF Next, MainStep, HandlerStep, HostStep

-----------------------------------------------------------------------------
\* The invariant holds at the beginning.
LEMMA Initially == Init => IInv
<1> SUFFICES ASSUME Init PROVE IInv
  OBVIOUS
<1>1. FlatTypes /\ SequenceTypes
  BY DEF Init, FlatTypes, SequenceTypes, AgentPlaces, HandlerPlaces
<1>2. WorkTypes /\ NoOrphanBundle
  BY DEF Init, WorkTypes, NoOrphanBundle, Run!Init, Run!Phases
<1>3. BacklogInv /\ OnceInv
  BY BoundsAssumption DEF Init, BacklogInv, OnceInv
<1>4. StreamInv
  BY DEF Init, StreamInv, StreamOK, Busy
<1>5. WorkInv /\ AnswerInv
  BY DEF Init, WorkInv, AnswerInv, Run!Init
<1> QED
  BY <1>1, <1>2, <1>3, <1>4, <1>5 DEF IInv

\* It is inductive.
LEMMA Invariance == Spec => []IInv
<1>1. IInv /\ [Next]_vars => IInv'
  BY FlatPreserved, SequencesPreserved, WorkTypesPreserved, BacklogPreserved,
     OncePreserved, StreamPreserved, WorkPreserved, AnswerPreserved, OrphansPreserved
  DEF IInv
<1> QED
  BY Initially, <1>1, PTL DEF Spec

\* Every variable has its type, and the backlog its bound.
THEOREM TypeCorrect == Spec => []TypeOK
<1>1. IInv => TypeOK
  BY DEF IInv, FlatTypes, SequenceTypes, WorkTypes, BacklogInv, TypeOK, Run!TypeOK
<1> QED
  BY <1>1, Invariance, PTL

\* The answers on a connection are those to the requests sent on it, one each and in
\* their order, for any number of connections and requests (main_linux.go:251-285).
THEOREM AnswersInOrder == Spec => []RepliesMatchRequests
<1>1. IInv => RepliesMatchRequests
  BY DEF IInv, SequenceTypes, StreamInv, StreamOK, RepliesMatchRequests
<1> QED
  BY <1>1, Invariance, PTL

\* OK for a run means that Run succeeded and the bundle is gone
\* (main_linux.go:329-363).
THEOREM OkIsTrue == Spec => []OkMeansRunAndRemoved
<1>1. IInv => OkMeansRunAndRemoved
  <2> SUFFICES ASSUME IInv, NEW c \in Connections, NEW i \in DOMAIN replies[c], replies[c][i].ok
                PROVE  replies[c][i].id \in Pings
                       \/ /\ replies[c][i].id \in Runs
                          /\ phase[replies[c][i].id] = "succeeded"
                          /\ replies[c][i].id \notin bundles
    BY DEF OkMeansRunAndRemoved
  <2>1. i \in 1 .. Len(replies[c])
    BY DEF IInv, SequenceTypes
  <2> QED
    <3>1. replies[c][i].id = sent[c][i]
      BY <2>1 DEF IInv, StreamInv, StreamOK
    <3>2. Clean(sent[c][i])
      BY <2>1 DEF IInv, AnswerInv
    <3> QED
      BY <3>1, <3>2 DEF Clean
<1> QED
  BY <1>1, Invariance, PTL

\* An image's root exists for as long as a process of its run may use it
\* (main_linux.go:301-327).
THEOREM BundleStays == Spec => []BundleOutlivesWorkload
<1>1. IInv => BundleOutlivesWorkload
  BY DEF IInv, WorkTypes, WorkInv, Returned, BundleOutlivesWorkload
<1> QED
  BY <1>1, Invariance, PTL

\* A bundle exists only while its request is handled, unless its own removal failed.
THEOREM NoOrphans == Spec => []NoOrphanBundle
<1>1. IInv => NoOrphanBundle
  BY DEF IInv
<1> QED
  BY <1>1, Invariance, PTL

\* Answers belong to their requests, and OK hides no failure, for any number of
\* connections, requests and faults.
THEOREM AnswersStayTrue == Spec => []AnswersAreTrue
<1>1. RepliesMatchRequests /\ OkMeansRunAndRemoved => AnswersAreTrue
  BY DEF AnswersAreTrue
<1> QED
  BY <1>1, AnswersInOrder, OkIsTrue, PTL

\* A bundle lives as long as its workload and no longer than its request.
THEOREM BundlesLiveAsLongAsNeeded == Spec => []BundleLifetime
<1>1. BundleOutlivesWorkload /\ NoOrphanBundle => BundleLifetime
  BY DEF BundleLifetime
<1> QED
  BY <1>1, BundleStays, NoOrphans, PTL

\* The agent asks of Run only what its contract allows, however requests, connections and
\* failures interleave: the steps that a handler makes with Run are those of a call
\* (main_linux.go:301-327).  WorkloadRunProofs shows that Run keeps that contract.
THEOREM RunIsUsedAsPromised == Spec => Run!Spec
<1>1. Init => Run!Init
  BY DEF Init
<1>2. IInv /\ [Next]_vars => [Run!Next]_phase
  <2> SUFFICES ASSUME IInv, [Next]_vars, phase' # phase
               PROVE  Run!Next
    OBVIOUS
  <2>1. \E c \in Connections : RunProgress(c)
    BY DEF Next, MainStep, MountFilesystems, Boot, SetupCgroups, StartNetworkCheckServer,
       Listen, AgentPanics, AcceptConnection, HandlerStep, HostStep, Connect, Disconnect,
       Send, DecodeRequest, DecodeFails, PrepareImage, PrepareFails, RunReturns,
       RemoveBundle, EncodeResponse, EncodeFails, workVars, vars
  <2>2. PICK c \in Connections : RunProgress(c)
    BY <2>1
  <2>3. job[c] \subseteq Runs
    BY <2>2 DEF RunProgress, At, IInv, WorkTypes
  <2> QED
    BY <2>2, <2>3 DEF RunProgress, Run!Next
<1> QED
  BY <1>1, <1>2, Invariance, PTL DEF Spec, Run!Spec
-----------------------------------------------------------------------------
(* Bundles implement DirectoryContract.                                    *)

\* The places of a goroutine after Prepare.
Late == {"run", "removeBundle", "encode"}

\* Request i of connection d has passed Prepare, or the connection is given up.
Passed(d, i) ==
    \/ handler[d] = "done"
    \/ i \in 1 .. Len(replies[d])
    \/ handler[d] \in Late /\ i = Len(replies[d]) + 1

Used(q) == \E d \in Connections : \E i \in 1 .. Len(sent[d]) : sent[d][i] = q /\ Passed(d, i)

\* A request for which Run has been called or a removal has failed has been used.
FreshInv ==
    \A q \in Runs : phase[q] # "idle" \/ << q, "RemoveAll" >> \in faults => Used(q)

\* What is sent, answered or given up remains so.
Grows(d) ==
    /\ \A i \in 1 .. Len(sent[d]) : i \in 1 .. Len(sent'[d]) /\ sent'[d][i] = sent[d][i]
    /\ \A i \in 1 .. Len(replies[d]) : i \in 1 .. Len(replies'[d])
    /\ handler[d] = "done" => handler'[d] = "done"
    /\ handler[d] \in Late =>
          \/ handler'[d] \in Late /\ replies'[d] = replies[d]
          \/ handler'[d] = "done"
          \/ Len(replies[d]) + 1 \in 1 .. Len(replies'[d])

\* In every step.
LEMMA StreamsGrow ==
    ASSUME FlatTypes, SequenceTypes, BacklogInv, [Next]_vars, NEW d \in Connections
    PROVE  Grows(d)
<1> USE DEF FlatTypes, Grows, Late, vars, hostVars, connVars, workVars
<1>0. Len(sent[d]) \in Nat /\ Len(replies[d]) \in Nat
  BY Lengths
<1>1. ASSUME MountFilesystems PROVE Grows(d)
  BY <1>1 DEF MountFilesystems, Boot
<1>2. ASSUME SetupCgroups PROVE Grows(d)
  BY <1>2 DEF SetupCgroups, Boot
<1>3. ASSUME StartNetworkCheckServer PROVE Grows(d)
  BY <1>3 DEF StartNetworkCheckServer, Boot
<1>4. ASSUME Listen PROVE Grows(d)
  BY <1>4 DEF Listen, Boot
<1>5. ASSUME AcceptConnection PROVE Grows(d)
  BY <1>5, AcceptedIsNew DEF AcceptConnection, Goto
<1>6. ASSUME AgentPanics PROVE Grows(d)
  BY <1>6 DEF AgentPanics, Alive, Fault
<1>7. ASSUME NEW c \in Connections, DecodeRequest(c) PROVE Grows(d)
  BY <1>7 DEF DecodeRequest, At, Alive, Goto
<1>8. ASSUME NEW c \in Connections, DecodeFails(c) PROVE Grows(d)
  BY <1>8 DEF DecodeFails, At, Alive, Goto
<1>9. ASSUME NEW c \in Connections, PrepareImage(c) PROVE Grows(d)
  BY <1>9 DEF PrepareImage, At, Alive, Goto
<1>10. ASSUME NEW c \in Connections, PrepareFails(c) PROVE Grows(d)
  BY <1>10 DEF PrepareFails, At, Alive, Goto
<1>11. ASSUME NEW c \in Connections, RunProgress(c) PROVE Grows(d)
  BY <1>11 DEF RunProgress, At, Alive
<1>12. ASSUME NEW c \in Connections, RunReturns(c) PROVE Grows(d)
  BY <1>12 DEF RunReturns, At, Alive, Goto
<1>13. ASSUME NEW c \in Connections, RemoveBundle(c) PROVE Grows(d)
  BY <1>13 DEF RemoveBundle, At, Alive, Goto
<1>14. ASSUME NEW c \in Connections, EncodeResponse(c) PROVE Grows(d)
  <2>1. sent' = sent
    BY <1>14 DEF EncodeResponse
  <2>2. CASE d = c
    <3>1. PICK q \in job[c] :
             replies' = [replies EXCEPT ![c] = Append(@, [id |-> q, ok |-> answer[c]])]
      BY <1>14 DEF EncodeResponse
    <3>2. replies'[d] = Append(replies[d], [id |-> q, ok |-> answer[c]])
      BY <2>2, <3>1 DEF SequenceTypes
    <3>3. replies[d] \in Seq([id : Requests, ok : BOOLEAN])
          /\ [id |-> q, ok |-> answer[c]] \in [id : Requests, ok : BOOLEAN]
      BY <3>1 DEF SequenceTypes
    <3>4. Len(replies'[d]) = Len(replies[d]) + 1
      BY <3>2, <3>3, AppendFacts
    <3>5. Len(replies[d]) + 1 \in 1 .. Len(replies'[d])
          /\ \A i \in 1 .. Len(replies[d]) : i \in 1 .. Len(replies'[d])
      BY <1>0, <3>4
    <3>6. handler[d] = "encode"
      BY <1>14, <2>2 DEF EncodeResponse, At
    <3> QED
      BY <2>1, <3>5, <3>6
  <2>3. CASE d # c
    BY <1>14, <2>1, <2>3 DEF EncodeResponse, SequenceTypes, Goto
  <2> QED
    BY <2>2, <2>3
<1>15. ASSUME NEW c \in Connections, EncodeFails(c) PROVE Grows(d)
  BY <1>15 DEF EncodeFails, At, Alive, Goto
<1>16. ASSUME NEW c \in Connections, Connect(c) PROVE Grows(d)
  BY <1>16 DEF Connect, HasRoom
<1>17. ASSUME NEW c \in Connections, Disconnect(c) PROVE Grows(d)
  BY <1>17 DEF Disconnect, Alive
<1>18. ASSUME NEW c \in Connections, NEW r \in Requests, Send(c, r) PROVE Grows(d)
  <2>1. handler' = handler /\ replies' = replies
    BY <1>18 DEF Send
  <2>2. sent'[d] = sent[d] \/ sent'[d] = Append(sent[d], r)
    BY <1>18 DEF Send, SequenceTypes
  <2>3. \A i \in 1 .. Len(sent[d]) : i \in 1 .. Len(sent'[d]) /\ sent'[d][i] = sent[d][i]
    <3>1. sent[d] \in Seq(Requests)
      BY DEF SequenceTypes
    <3>2. CASE sent'[d] = Append(sent[d], r)
      <4>1. Len(sent'[d]) = Len(sent[d]) + 1
            /\ \A i \in 1 .. Len(sent[d]) : sent'[d][i] = sent[d][i]
        BY <3>1, <3>2, AppendFacts
      <4> QED
        BY <1>0, <4>1
    <3> QED
      BY <2>2, <3>2
  <2> QED
    BY <2>1, <2>3
<1>19. CASE UNCHANGED vars
  BY <1>19
<1> QED
  BY <1>1, <1>2, <1>3, <1>4, <1>5, <1>6, <1>7, <1>8, <1>9, <1>10,
     <1>11, <1>12, <1>13, <1>14, <1>15, <1>16, <1>17, <1>18, <1>19
  DEF Next, MainStep, HandlerStep, HostStep

\* Hence a request that has been used stays so.
LEMMA UsedStays ==
    ASSUME FlatTypes, SequenceTypes, BacklogInv, [Next]_vars, NEW q, Used(q)
    PROVE  Used(q)'
<1>0. PICK d \in Connections : \E i \in 1 .. Len(sent[d]) : sent[d][i] = q /\ Passed(d, i)
  BY DEF Used
<1>1. PICK i \in 1 .. Len(sent[d]) : sent[d][i] = q /\ Passed(d, i)
  BY <1>0
<1>2. Grows(d)
  BY StreamsGrow
<1>3. i \in 1 .. Len(sent'[d]) /\ sent'[d][i] = q
  BY <1>1, <1>2 DEF Grows
<1>4. Passed(d, i)'
  BY <1>1, <1>2 DEF Grows, Passed
<1> QED
  BY <1>3, <1>4 DEF Used

\* The request in hand of a goroutine is the one that its stream says.
LEMMA JobInStream ==
    ASSUME SequenceTypes, StreamInv, NEW c \in Connections, handler[c] \in Busy
    PROVE  /\ job[c] = {sent[c][Len(replies[c]) + 1]}
           /\ Len(replies[c]) + 1 \in 1 .. Len(sent[c])
<1>1. /\ Len(sent[c]) = Len(replies[c]) + 1 + Len(inbox[c])
      /\ job[c] = {sent[c][Len(replies[c]) + 1]}
  BY DEF StreamInv, StreamOK
<1> QED
  BY <1>1, Lengths, InHandIndex

\* A request that is about to be prepared has not been used.
LEMMA PreparedIsUnused ==
    ASSUME FlatTypes, SequenceTypes, OnceInv, StreamInv, NEW c \in Connections,
           handler[c] = "prepare", NEW q \in job[c]
    PROVE  ~Used(q)
<1>1. /\ q = sent[c][Len(replies[c]) + 1]
      /\ Len(replies[c]) + 1 \in 1 .. Len(sent[c])
  BY JobInStream DEF Busy
<1> SUFFICES ASSUME NEW d \in Connections, NEW i \in 1 .. Len(sent[d]), sent[d][i] = q,
                    Passed(d, i)
             PROVE  FALSE
  BY DEF Used
<1>2. d = c /\ i = Len(replies[c]) + 1
  BY <1>1 DEF OnceInv
<1>3. i \notin 1 .. Len(replies[c])
  BY <1>2, Lengths
<1> QED
  BY <1>2, <1>3 DEF Passed, Late

\* A step that uses a request lets its goroutine stand behind Prepare.
LEMMA FreshPreserved ==
    ASSUME IInv, IInv', FreshInv, [Next]_vars
    PROVE  FreshInv'
<1> SUFFICES ASSUME NEW q \in Runs, phase'[q] # "idle" \/ << q, "RemoveAll" >> \in faults'
             PROVE  Used(q)'
  BY DEF FreshInv
<1>1. CASE phase[q] # "idle" \/ << q, "RemoveAll" >> \in faults
  BY <1>1, UsedStays DEF FreshInv, IInv
<1>2. CASE phase[q] = "idle" /\ << q, "RemoveAll" >> \notin faults
  <2>1. \E c \in Connections : q \in job'[c] /\ handler'[c] \in Late
    <3> USE DEF IInv, FlatTypes, Late, vars, hostVars, connVars, workVars
    <3>1. ~UNCHANGED << phase, faults >>
      BY <1>2
    <3>2. CASE AgentPanics
      <4>1. phase' = phase /\ faults' = faults \cup {<< "agent", agent >>}
        BY <3>2 DEF AgentPanics, Fault
      <4>2. agent # "RemoveAll"
        BY DEF AgentPlaces
      <4> QED
        BY <1>2, <4>1, <4>2
    <3>3. ASSUME NEW c \in Connections, PrepareFails(c) \/ RemoveBundle(c)
          PROVE  q \in job'[c] /\ handler'[c] \in Late
      <4>1. phase' = phase /\ job' = job /\ handler'[c] = "encode"
        BY <3>3 DEF PrepareFails, RemoveBundle, Goto
      <4>2. PICK p \in job[c] : faults' = faults \cup {<< p, "RemoveAll" >>}
        BY <3>1, <3>3, <4>1 DEF PrepareFails, RemoveBundle, RemoveAllFails, Fault
      <4>3. p = q
        BY <1>2, <4>1, <4>2
      <4> QED
        BY <4>1, <4>2, <4>3
    <3>4. ASSUME NEW c \in Connections, RunProgress(c)
          PROVE  q \in job'[c] /\ handler'[c] \in Late
      <4>1. PICK r \in job[c] \cap Runs, p \in Run!Phases :
               phase' = [phase EXCEPT ![r] = p] /\ handler[c] = "run"
        BY <3>4, ProgressIsOneCall
      <4>2. UNCHANGED << handler, job, faults >>
        BY <3>4 DEF RunProgress
      <4>3. r = q
        BY <1>2, <4>1, <4>2 DEF WorkTypes
      <4> QED
        BY <4>1, <4>2, <4>3
    <3>5. \/ AgentPanics
          \/ \E c \in Connections : PrepareFails(c) \/ RemoveBundle(c) \/ RunProgress(c)
      BY <3>1 DEF Next, MainStep, MountFilesystems, Boot, SetupCgroups,
         StartNetworkCheckServer, Listen, AcceptConnection, HandlerStep, HostStep, Connect,
         Disconnect, Send, DecodeRequest, DecodeFails, PrepareImage, RunReturns,
         EncodeResponse, EncodeFails
    <3> QED
      BY <3>2, <3>3, <3>4, <3>5
  <2>2. PICK c \in Connections : q \in job'[c] /\ handler'[c] \in Late
    BY <2>1
  <2>3. /\ Len(sent'[c]) = Len(replies'[c]) + 1 + Len(inbox'[c])
        /\ q = sent'[c][Len(replies'[c]) + 1]
    <3>1. StreamOK(c)'
      BY DEF IInv, StreamInv
    <3>2. handler'[c] \in Busy
      BY <2>2 DEF Late, Busy
    <3> QED
      BY <2>2, <3>1, <3>2 DEF StreamOK
  <2>4. Len(replies'[c]) \in Nat /\ Len(inbox'[c]) \in Nat
    BY DEF IInv, SequenceTypes
  <2>5. Len(replies'[c]) + 1 \in 1 .. Len(sent'[c])
    BY <2>3, <2>4, InHandIndex
  <2> QED
    BY <2>2, <2>3, <2>5 DEF Used, Passed
<1> QED
  BY <1>1, <1>2

\* A goroutine uses the bundle of q.
InUse(q) == \E c \in Connections : q \in job[c] /\ handler[c] \in {"run", "removeBundle"}

\* The bundles whose removal has failed, as the contract sees them.
StuckBundles == {q \in Runs : << q, "RemoveAll" >> \in faults}

\* Nothing that the contract speaks of changes for q.
Kept(q) ==
    /\ BundleStatus(q)' = BundleStatus(q)
    /\ << q, "RemoveAll" >> \in faults' <=> << q, "RemoveAll" >> \in faults

\* A step that changes nothing for any request is none of the contract.
LEMMA NoBundleMoves ==
    ASSUME bundles' = bundles, \A q \in Runs : Kept(q)
    PROVE  UNCHANGED BundleContract!contractVars
<1>1. [q \in Runs |-> BundleStatus(q)]' = [q \in Runs |-> BundleStatus(q)]
  BY DEF Kept
<1>2. StuckBundles' = StuckBundles
  BY DEF Kept, StuckBundles
<1> QED
  BY <1>1, <1>2 DEF BundleContract!contractVars, StuckBundles

\* A bundle that is given up or closed, alone.
LEMMA OneBundleEnds ==
    ASSUME NEW q \in Runs, NEW from, NEW to, \A p \in Runs \ {q} : Kept(p),
           BundleStatus(q) = from, BundleStatus(q)' = to,
           \/ /\ bundles' = bundles \ {q}
              /\ << q, "RemoveAll" >> \in faults' <=> << q, "RemoveAll" >> \in faults
           \/ bundles' = bundles \cup {q} /\ << q, "RemoveAll" >> \in faults'
    PROVE  BundleContract!End(q, from, to)
<1>1. [p \in Runs |-> BundleStatus(p)]' = [[p \in Runs |-> BundleStatus(p)] EXCEPT ![q] = to]
  BY DEF Kept
<1>2. StuckBundles' = IF << q, "RemoveAll" >> \in faults' THEN StuckBundles \cup {q}
                      ELSE StuckBundles \ {q}
  BY DEF Kept, StuckBundles
<1>3. << q, "RemoveAll" >> \in faults <=> q \in StuckBundles
  BY DEF StuckBundles
<1> QED
  BY <1>1, <1>2, <1>3 DEF BundleContract!End, StuckBundles

\* A step of the agent moves at most the bundle of the request in hand.
LEMMA StepKeepsBundles ==
    ASSUME IInv, FreshInv, [Next]_vars
    PROVE  [BundleContract!Next]_(BundleContract!contractVars)
<1> DEFINE Moves == BundleContract!Next \/ UNCHANGED BundleContract!contractVars
<1>0. /\ FlatTypes /\ SequenceTypes /\ WorkTypes /\ BacklogInv
      /\ OnceInv /\ StreamInv /\ WorkInv
  BY DEF IInv
<1>1. ASSUME UNCHANGED << phase, bundles >>, \A q \in Runs : InUse(q)' <=> InUse(q),
             \A q \in Runs :
                << q, "RemoveAll" >> \in faults' <=> << q, "RemoveAll" >> \in faults
      PROVE  Moves
  <2>1. \A q \in Runs : Kept(q)
    BY <1>1 DEF Kept, BundleStatus, InUse
  <2> QED
    BY <1>1, <2>1, NoBundleMoves
<1>2. CASE MainStep
  BY <1>0, <1>1, <1>2, AcceptedIsNew
     DEF MainStep, MountFilesystems, Boot, SetupCgroups, StartNetworkCheckServer, Listen,
         AcceptConnection, Goto, FlatTypes, InUse, workVars, connVars
<1>3. CASE AgentPanics
  <2>1. faults' = faults \cup {<< "agent", agent >>} /\ agent # "RemoveAll"
    BY <1>0, <1>3 DEF AgentPanics, Fault, FlatTypes, AgentPlaces
  <2>2. UNCHANGED << phase, bundles, job, handler >>
    BY <1>3 DEF AgentPanics, workVars, connVars
  <2> QED
    BY <1>1, <2>1, <2>2 DEF InUse
<1>4. ASSUME NEW c \in Connections, HostStep(c) PROVE Moves
  BY <1>1, <1>4 DEF HostStep, Connect, Disconnect, Send, InUse, workVars, connVars
<1>5. ASSUME NEW c \in Connections,
             \/ DecodeRequest(c) \/ DecodeFails(c) \/ RunReturns(c)
             \/ EncodeResponse(c) \/ EncodeFails(c)
      PROVE  Moves
  <2>1. UNCHANGED << phase, bundles, faults >>
    BY <1>5 DEF DecodeRequest, DecodeFails, RunReturns, EncodeResponse, EncodeFails,
            workVars
  <2>2. /\ handler[c] \in {"run", "removeBundle"} <=> handler'[c] \in {"run", "removeBundle"}
        /\ handler[c] \in {"run", "removeBundle"} => job'[c] = job[c]
    BY <1>0, <1>5 DEF FlatTypes, DecodeRequest, DecodeFails, RunReturns, EncodeResponse,
                  EncodeFails, At, Goto
  <2>3. \A d \in Connections \ {c} : handler'[d] = handler[d] /\ job'[d] = job[d]
    BY <1>0, <1>5 DEF FlatTypes, DecodeRequest, DecodeFails, RunReturns, EncodeResponse,
                  EncodeFails, At, Goto
  <2>4. \A q \in Runs : InUse(q)' <=> InUse(q)
    BY <2>2, <2>3 DEF InUse
  <2> QED
    BY <1>1, <2>1, <2>4
<1>6. ASSUME NEW c \in Connections, RunProgress(c) PROVE Moves
  <2>1. PICK q \in job[c] \cap Runs, p \in Run!Phases :
           phase' = [phase EXCEPT ![q] = p] /\ phase[q] \notin Returned /\ handler[c] = "run"
    BY <1>0, <1>6, ProgressIsOneCall
  <2>2. UNCHANGED << handler, job, bundles, faults >>
    BY <1>6 DEF RunProgress, connVars
  <2>3. InUse(q) /\ \A r \in Runs : InUse(r)' <=> InUse(r)
    BY <2>1, <2>2 DEF InUse
  <2>4. \A r \in Runs \ {q} : phase'[r] = phase[r]
    BY <1>0, <2>1 DEF WorkTypes
  <2>5. \A r \in Runs : Kept(r)
    BY <2>2, <2>3, <2>4 DEF Kept, BundleStatus, InUse
  <2> QED
    BY <2>2, <2>5, NoBundleMoves
<1>7. ASSUME NEW c \in Connections, PrepareImage(c) \/ PrepareFails(c) \/ RemoveBundle(c)
      PROVE  Moves
  <2>1. handler[c] \in {"prepare", "removeBundle"} /\ handler[c] \in Busy
    BY <1>7 DEF PrepareImage, PrepareFails, RemoveBundle, At, Busy
  <2>2. PICK q \in Runs : job[c] = {q}
    BY <1>0, <2>1, JobInStream DEF WorkTypes
  <2>3. UNCHANGED << phase, job >>
    BY <1>7 DEF PrepareImage, PrepareFails, RemoveBundle
  <2>4. \A d \in Connections \ {c} : handler'[d] = handler[d] /\ q \notin job[d]
    BY <1>0, <1>7, <2>2, JobsDisjoint
       DEF FlatTypes, PrepareImage, PrepareFails, RemoveBundle, Goto
  <2>5. /\ InUse(q) <=> handler[c] = "removeBundle"
        /\ InUse(q)' <=> handler'[c] \in {"run", "removeBundle"}
    BY <2>1, <2>2, <2>3, <2>4 DEF InUse
  <2>6. \/ faults' = faults
        \/ faults' = faults \cup {<< q, "RemoveAll" >>}
    BY <1>7, <2>2 DEF PrepareImage, PrepareFails, RemoveBundle, RemoveAllFails, Fault
  <2>7. \A p \in Runs \ {q} : Kept(p)
    <3>1. \A p \in Runs \ {q} : InUse(p)' <=> InUse(p)
      BY <2>2, <2>3, <2>4 DEF InUse
    <3> QED
      BY <2>3, <2>6, <3>1 DEF Kept, BundleStatus, InUse
  <2>8. CASE handler[c] = "prepare"
    <3>1. phase[q] = "idle" /\ << q, "RemoveAll" >> \notin faults
      BY <1>0, <2>2, <2>8, PreparedIsUnused DEF FreshInv
    <3>2. BundleStatus(q) = "asked"
      BY <2>5, <2>8, <3>1 DEF BundleStatus, InUse, Returned
    <3>3. CASE PrepareImage(c)
      <4>1. handler'[c] = "run" /\ bundles' = bundles \cup {q} /\ faults' = faults
        BY <1>0, <2>2, <3>3 DEF FlatTypes, PrepareImage, Goto
      <4>2. BundleStatus(q)' = "held"
        BY <2>5, <4>1 DEF BundleStatus, InUse
      <4>3. [p \in Runs |-> BundleStatus(p)]' =
               [[p \in Runs |-> BundleStatus(p)] EXCEPT ![q] = "held"]
        BY <2>7, <4>2 DEF Kept
      <4>4. BundleContract!Make(q)
        BY <3>2, <4>1, <4>3 DEF BundleContract!Make
      <4> QED
        BY <4>4 DEF BundleContract!Next
    <3>4. CASE PrepareFails(c)
      <4>1. handler'[c] = "encode"
        BY <1>0, <3>4 DEF FlatTypes, PrepareFails, Goto
      <4>2. CASE UNCHANGED << bundles, faults >>
        <5>1. Kept(q)
          BY <2>3, <2>5, <2>8, <4>1, <4>2 DEF Kept, BundleStatus, InUse
        <5> QED
          BY <2>7, <4>2, <5>1, NoBundleMoves
      <4>3. CASE bundles' = bundles \cup job[c] /\ RemoveAllFails(c)
        <5>1. << q, "RemoveAll" >> \in faults'
          BY <2>2, <4>3 DEF RemoveAllFails, Fault
        <5>2. BundleStatus(q)' = "refused"
          BY <2>3, <2>5, <3>1, <4>1, <5>1 DEF BundleStatus, InUse, Returned
        <5>3. BundleContract!End(q, "asked", "refused")
          BY <2>2, <2>7, <3>2, <4>3, <5>1, <5>2, OneBundleEnds
        <5> QED
          BY <5>3 DEF BundleContract!Next, BundleContract!Refuse
      <4> QED
        BY <3>4, <4>2, <4>3 DEF PrepareFails
    <3> QED
      BY <1>7, <2>8, <3>3, <3>4 DEF RemoveBundle, At
  <2>9. CASE handler[c] = "removeBundle"
    <3>1. RemoveBundle(c)
      BY <1>7, <2>9 DEF PrepareImage, PrepareFails, At
    <3>2. handler'[c] = "encode"
      BY <1>0, <3>1 DEF FlatTypes, RemoveBundle, Goto
    <3>3. q \in bundles /\ phase[q] \in Returned
      BY <1>0, <2>2, <2>9 DEF WorkInv
    <3>4. BundleStatus(q) = "held"
      BY <2>5, <2>9 DEF BundleStatus, InUse
    <3>5. BundleStatus(q)' = "released"
      BY <2>3, <2>5, <3>2, <3>3 DEF BundleStatus, InUse
    <3>6. \/ bundles' = bundles \ {q} /\ faults' = faults
          \/ bundles' = bundles \cup {q} /\ << q, "RemoveAll" >> \in faults'
      BY <2>2, <3>1, <3>3 DEF RemoveBundle, RemoveAllFails, Fault
    <3>7. BundleContract!End(q, "held", "released")
      BY <2>7, <3>4, <3>5, <3>6, OneBundleEnds
    <3> QED
      BY <3>7 DEF BundleContract!Next, BundleContract!Release
  <2> QED
    BY <2>1, <2>8, <2>9
<1>8. CASE UNCHANGED vars
  BY <1>1, <1>8 DEF vars, workVars, connVars, InUse
<1> QED
  BY <1>2, <1>3, <1>4, <1>5, <1>6, <1>7, <1>8 DEF Next, HandlerStep

\* However requests, connections, hosts and failing calls interleave, the bundle of a run
\* is made once, exists for as long as Run or the workload may use it, and is removed by
\* the goroutine that has made it (main_linux.go:301-363).
THEOREM BundlesKeepContract == Spec => KeepsContract
<1>1. Init => FreshInv /\ BundleContract!Init
  BY DEF Init, FreshInv, Run!Init, BundleContract!Init, BundleStatus, Returned
<1>2. IInv /\ IInv' /\ FreshInv /\ [Next]_vars => FreshInv'
  BY FreshPreserved
<1>3. IInv /\ FreshInv /\ [Next]_vars => [BundleContract!Next]_(BundleContract!contractVars)
  BY StepKeepsBundles
<1> QED
  BY <1>1, <1>2, <1>3, Invariance, PTL DEF Spec, KeepsContract, BundleContract!Spec
=============================================================================
