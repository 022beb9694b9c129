--------------------------- MODULE WorkloadRunProofs ---------------------------
(***************************************************************************)
(* Proofs about WorkloadRun, for any set of runs, any size of the address  *)
(* space, any modulus of the sequence and any number of faults, and about  *)
(* the address plan that it uses, for all 16384 slots.                     *)
(*                                                                         *)
(* The inductive invariant IInv has six parts: the types, where the child  *)
(* of a run may be while its goroutine stands at a place, what a cgroup    *)
(* that is left has to blame, what the readiness pipe has carried, how     *)
(* names and pairs correspond, and, until the sequence wraps, that         *)
(* everything a run touches is its own.                                    *)
(***************************************************************************)
EXTENDS WorkloadRun, FiniteSetTheorems, TLAPS

-----------------------------------------------------------------------------
(* The address plan is right for every slot: a slot is recovered from its  *)
(* octets and from its digits.                                             *)

\* A slot is recovered from its octets.
LEMMA SlotFromOctets ==
    ASSUME NEW s \in Slot
    PROVE  /\ ThirdOctet(s) \in 0 .. 255
           /\ \E k \in 0 .. 63 : FourthOctet(s) = 4 * k /\ s = 64 * ThirdOctet(s) + k
  <1>1. s \in 0 .. 16383
    BY DEF Slot, MaxWorkloadNetworks
  <1>2. s \div 64 \in 0 .. 255
    BY <1>1
  <1>3. s % 64 \in 0 .. 63
    BY <1>1
  <1>4. s = 64 * (s \div 64) + (s % 64)
    BY <1>1
  <1>5. FourthOctet(s) = 4 * (s % 64)
    BY <1>3 DEF FourthOctet
  <1>6. QED
    BY <1>2, <1>3, <1>4, <1>5 DEF ThirdOctet

\* The block of a slot is the slot itself: the addresses are dense in
\* 10.200.0.0/16.
LEMMA SubnetOfSlot ==
    ASSUME NEW s \in Slot
    PROVE  /\ Subnet(GuestAddress(s)) = s
           /\ Subnet(WorkloadAddress(s)) = s
           /\ HostPart(GuestAddress(s)) = 1
           /\ HostPart(WorkloadAddress(s)) = 2
  <1>1. PICK k \in 0 .. 63 : FourthOctet(s) = 4 * k /\ s = 64 * ThirdOctet(s) + k
    BY SlotFromOctets
  <1>2. ThirdOctet(s) \in 0 .. 255
    BY SlotFromOctets
  <1>3. s \in Int
    BY DEF Slot, MaxWorkloadNetworks
  <1>4. GuestAddress(s) = 256 * ThirdOctet(s) + (4 * k + 1)
    BY <1>1 DEF GuestAddress, Address
  <1>5. WorkloadAddress(s) = 256 * ThirdOctet(s) + (4 * k + 2)
    BY <1>1 DEF WorkloadAddress, Address
  <1>6. GuestAddress(s) = 4 * s + 1 /\ WorkloadAddress(s) = 4 * s + 2
    BY <1>1, <1>2, <1>4, <1>5
  <1>7. QED
    BY <1>3, <1>6 DEF Subnet, HostPart

\* The number that four hexadecimal digits denote.
ReadDigits(d) == 4096 * d[1] + 256 * d[2] + 16 * d[3] + d[4]

\* A slot is recovered from the hexadecimal digits of its interface names.
LEMMA SlotFromDigits ==
    ASSUME NEW s \in Slot
    PROVE  ReadDigits(InterfaceDigits(s)) = s
  <1>1. s \in 0 .. 16383
    BY DEF Slot, MaxWorkloadNetworks
  <1> DEFINE a == s \div 16
             b == s \div 256
  <1>2. s = 16 * a + (s % 16)
    BY <1>1
  <1>3. a \in Int /\ a = 16 * (a \div 16) + (a % 16)
    BY <1>1
  <1>4. a \div 16 = b
    BY <1>1
  <1>5. b \in Int /\ b = 16 * (b \div 16) + (b % 16)
    BY <1>1
  <1>6. b \div 16 = s \div 4096
    BY <1>1
  <1>7. s \div 4096 \in Int /\ a % 16 \in Int /\ b % 16 \in Int /\ s % 16 \in Int
    BY <1>1, <1>3, <1>5
  <1> HIDE DEF a, b
  <1>8. s = 4096 * (s \div 4096) + 256 * (b % 16) + 16 * (a % 16) + (s % 16)
    BY <1>2, <1>3, <1>4, <1>5, <1>6, <1>7
  <1>9. InterfaceDigits(s) = << s \div 4096, b % 16, a % 16, s % 16 >>
    BY DEF InterfaceDigits, a, b
  <1>10. QED
    BY <1>8, <1>9 DEF ReadDigits

\* Every address of the plan is well formed.
THEOREM PlanWellFormedForAllSlots ==
    \A s \in Slot : OctetsInRange(s) /\ EndsShareBlock(s)
  <1> TAKE s \in Slot
  <1>1. OctetsInRange(s)
    BY SlotFromOctets DEF OctetsInRange
  <1>2. EndsShareBlock(s)
    BY SubnetOfSlot DEF EndsShareBlock
  <1>3. QED
    BY <1>1, <1>2

\* Two slots never collide, in addresses or in interface names.
THEOREM PlanInjectiveForAllSlots ==
    \A s, t \in Slot : BlocksDisjoint(s, t) /\ NamesDiffer(s, t)
  <1> TAKE s, t \in Slot
  <1>1. BlocksDisjoint(s, t)
    BY SubnetOfSlot DEF BlocksDisjoint
  <1>2. NamesDiffer(s, t)
    BY SlotFromDigits DEF NamesDiffer
  <1>3. QED
    BY <1>1, <1>2

\* The number of slots is the number of the slots.
LEMMA SlotsAreCounted == IsFiniteSet(Slot) /\ Cardinality(Slot) = MaxWorkloadNetworks
  <1>1. MaxWorkloadNetworks \in Nat /\ MaxWorkloadNetworks # 0
    BY DEF MaxWorkloadNetworks
  <1>2. /\ IsFiniteSet(0 .. MaxWorkloadNetworks - 1)
        /\ Cardinality(0 .. MaxWorkloadNetworks - 1) = MaxWorkloadNetworks
    BY <1>1, FS_Interval
  <1>3. QED
    BY <1>2 DEF Slot

\* Every slot is well-formed, and there are as many blocks and names as slots.
THEOREM PlanIsSound == PlanSound
  <1> DEFINE block == [s \in Slot |-> Subnet(GuestAddress(s))]
             name == [s \in Slot |-> InterfaceDigits(s)]
             Blocks == {Subnet(GuestAddress(s)) : s \in Slot}
             Digits == {InterfaceDigits(s) : s \in Slot}
  <1>1. block \in Bijection(Slot, Blocks)
    <2>1. block \in [Slot -> Blocks] /\ \A t \in Blocks : \E s \in Slot : block[s] = t
      OBVIOUS
    <2>2. \A s, t \in Slot : block[s] = block[t] => s = t
      BY PlanInjectiveForAllSlots DEF BlocksDisjoint
    <2>3. QED
      BY <2>1, <2>2, Zenon DEF Bijection, Injection, IsInjective, Surjection
  <1>2. name \in Bijection(Slot, Digits)
    <2>1. name \in [Slot -> Digits] /\ \A t \in Digits : \E s \in Slot : name[s] = t
      OBVIOUS
    <2>2. \A s, t \in Slot : name[s] = name[t] => s = t
      BY PlanInjectiveForAllSlots DEF NamesDiffer
    <2>3. QED
      BY <2>1, <2>2, Zenon DEF Bijection, Injection, IsInjective, Surjection
  <1>3. Cardinality(Blocks) = MaxWorkloadNetworks
    BY <1>1, SlotsAreCounted, FS_Bijection DEF ExistsBijection
  <1>4. Cardinality(Digits) = MaxWorkloadNetworks
    BY <1>2, SlotsAreCounted, FS_Bijection DEF ExistsBijection
  <1>5. WellFormedSlots = Slot
    BY PlanWellFormedForAllSlots DEF WellFormedSlots
  <1>6. WellFormedBlocks = Blocks /\ WellFormedNames = Digits
    BY <1>5 DEF WellFormedBlocks, WellFormedNames
  <1>7. QED
    BY <1>3, <1>4, <1>6 DEF PlanSound

-----------------------------------------------------------------------------
(* The invariant.                                                          *)

BeforeStart == {"idle", "createCgroup", "allocate", "linkAdd", "linkUp", "start"}

BeforeLink == {"idle", "createCgroup", "allocate", "linkAdd"}

Cleaning == {"findLink", "deleteLink", "removeCgroup", "returned"}

\* The places where a run has drawn its slot and may use it.
HoldsSlot ==
    {"linkAdd", "linkUp", "start", "move", "signal", "closeWriter", "wait",
     "findLink", "deleteLink"}

ChildInv ==
    \A r \in Runs :
        /\ pc[r] \in BeforeStart <=> child[r] = "none" /\ pc[r] \notin Cleaning
        /\ pc[r] \in Cleaning => child[r] \notin Live
        /\ pc[r] \in Cleaning /\ failures[r] = {} => child[r] = "exited"

\* A run that got no cgroup is over, any other has it until it returns, and the cgroup
\* outlives the run only if rmdir has failed.
CgroupInv ==
    \A r \in Runs :
        /\ pc[r] \notin {"idle", "createCgroup", "returned"} => r \in cgroups
        /\ failures[r] \cap {"config", "cgroup"} # {} => pc[r] = "returned"
        /\ r \in cgroups => pc[r] \notin {"idle", "createCgroup"}
        /\ pc[r] = "returned" /\ r \in cgroups => << r, "rmdir" >> \in faults
        /\ "cgroupCleanup" \in failures[r] =>
              {<< r, "closeCgroup" >>, << r, "rmdir" >>} \cap faults # {}

GivenUp(r) == failures[r] \cap {"move", "signal"} # {}

PipeInv ==
    \A r \in Runs :
        /\ GivenUp(r) => pc[r] \in {"wait"} \cup Cleaning /\ r \notin signalled
        /\ r \in signalled => pc[r] \in {"closeWriter", "wait"} \cup Cleaning
        /\ pc[r] = "closeWriter" => r \in signalled
        /\ child[r] \in {"networking", "isolating", "running", "exited"} =>
               r \in signalled

LinkInv ==
    /\ \A r \in Runs :
           /\ pc[r] \in HoldsSlot => slot[r] # NoSlot
           /\ r \in links => pc[r] \notin BeforeLink /\ slot[r] # NoSlot
           /\ pc[r] = "deleteLink" /\ r \in links => found[r] = {r}
           /\ r \in links /\ pc[r] \in {"removeCgroup", "returned"} =>
                  \E c \in RemovalCalls : << r, c >> \in faults
    /\ \A r, q \in links : slot[r] = slot[q] => r = q

\* What run r knows to be its own.
Owns(r) ==
    /\ slot[r] < networkSequence
    /\ \A q \in Runs : slot[q] = slot[r] /\ slot[r] # NoSlot => q = r
    /\ found[r] \subseteq {r}
    /\ peerNs[r] \in {Guest, r}
    /\ (pc[r] = "signal" \/ r \in signalled) /\ child[r] \in Live =>
           r \in links /\ peerNs[r] = r
    /\ child[r] \in {"isolating", "running"} => r \in configured

OwnInv == wrapped \/ \A r \in Runs : Owns(r)

IInv == TypeOK /\ ChildInv /\ CgroupInv /\ PipeInv /\ LinkInv /\ OwnInv

-----------------------------------------------------------------------------
\* The successor of the sequence, for any modulus.
LEMMA NextSequenceValue ==
    ASSUME NEW n \in 0 .. SeqModulus - 1
    PROVE  NextSequence(n) = IF n = SeqModulus - 1 THEN 0 ELSE n + 1
<1> USE NetworkAssumption DEF NextSequence
<1>1. CASE n = SeqModulus - 1
  BY <1>1, Z3
<1>2. CASE n # SeqModulus - 1
  BY <1>2, Z3
<1> QED
  BY <1>1, <1>2

\* Every action keeps the types.
LEMMA TypePreserved ==
    ASSUME TypeOK, [Next]_vars
    PROVE  TypeOK'
<1> USE GuestAssumption, NetworkAssumption
<1> USE DEF TypeOK, Locations, Errors, Calls, RemovalCalls, Live, Dead, NoSlot,
        vars, hostVars, netVars, linkVars, procVars, pipeVars, Goto, Fail,
        Become, Fault
<1>1. ASSUME NEW r \in Runs, Call(r) PROVE TypeOK'
  BY <1>1 DEF Call
<1>2. ASSUME NEW r \in Runs, RejectConfig(r) PROVE TypeOK'
  BY <1>2 DEF RejectConfig
<1>3. ASSUME NEW r \in Runs, CreateCgroup(r) PROVE TypeOK'
  BY <1>3 DEF CreateCgroup
<1>4. ASSUME NEW r \in Runs, CreateCgroupFails(r) PROVE TypeOK'
  BY <1>4 DEF CreateCgroupFails
<1>5. ASSUME NEW r \in Runs, AllocateWorkloadNetwork(r) PROVE TypeOK'
  BY <1>5, NextSequenceValue DEF IsSlot, AllocateWorkloadNetwork
<1>6. ASSUME NEW r \in Runs, LinkAdd(r) PROVE TypeOK'
  BY <1>6 DEF LinksNamed, LinkAdd
<1>7. ASSUME NEW r \in Runs, LinkAddFails(r) PROVE TypeOK'
  BY <1>7 DEF LinksNamed, LinkAddFails
<1>8. ASSUME NEW r \in Runs, LinkUp(r) PROVE TypeOK'
  BY <1>8 DEF LinksNamed, LinkUp
<1>9. ASSUME NEW r \in Runs, LinkUpFails(r) PROVE TypeOK'
  BY <1>9 DEF DestroyLinks, LinksNamed, LinkUpFails
<1>10. ASSUME NEW r \in Runs, LinkUpAndCleanupFail(r) PROVE TypeOK'
  BY <1>10 DEF LinkUpAndCleanupFail
<1>11. ASSUME NEW r \in Runs, StartChild(r) PROVE TypeOK'
  BY <1>11 DEF StartChild
<1>12. ASSUME NEW r \in Runs, StartChildFails(r) PROVE TypeOK'
  BY <1>12 DEF StartChildFails
<1>13. ASSUME NEW r \in Runs, MoveNetworkToProcess(r) PROVE TypeOK'
  BY <1>13 DEF CanMove, PeersNamed, LinksNamed, MoveNetworkToProcess
<1>14. ASSUME NEW r \in Runs, MoveNetworkFails(r) PROVE TypeOK'
  BY <1>14 DEF CloseUnsignalled, MoveNetworkFails
<1>15. ASSUME NEW r \in Runs, SignalReady(r) PROVE TypeOK'
  BY <1>15 DEF SignalReady
<1>16. ASSUME NEW r \in Runs, SignalReadyFails(r) PROVE TypeOK'
  BY <1>16 DEF CloseUnsignalled, SignalReadyFails
<1>17. ASSUME NEW r \in Runs, CloseWriter(r) PROVE TypeOK'
  BY <1>17 DEF CloseWriter
<1>18. ASSUME NEW r \in Runs, WaitChild(r) PROVE TypeOK'
  BY <1>18 DEF WaitChild
<1>19. ASSUME NEW r \in Runs, FindGuestLink(r) PROVE TypeOK'
  BY <1>19 DEF LinksNamed, FindGuestLink
<1>20. ASSUME NEW r \in Runs, GuestLinkNotFound(r) PROVE TypeOK'
  BY <1>20 DEF LinksNamed, GuestLinkNotFound
<1>21. ASSUME NEW r \in Runs, DeleteGuestLink(r) PROVE TypeOK'
  BY <1>21 DEF DestroyLinks, DeleteGuestLink
<1>22. ASSUME NEW r \in Runs, DeleteGuestLinkFails(r) PROVE TypeOK'
  BY <1>22 DEF DeleteGuestLinkFails
<1>23. ASSUME NEW r \in Runs, RemoveCgroup(r) PROVE TypeOK'
  BY <1>23 DEF RemoveCgroup
<1>24. ASSUME NEW r \in Runs, CheckArguments(r) PROVE TypeOK'
  BY <1>24 DEF CheckArguments
<1>25. ASSUME NEW r \in Runs, WaitForNetwork(r) PROVE TypeOK'
  BY <1>25 DEF WaitForNetwork
<1>26. ASSUME NEW r \in Runs, ConfigureWorkloadNetwork(r) PROVE TypeOK'
  BY <1>26 DEF PeersNamed, LinksNamed, ConfigureWorkloadNetwork
<1>27. ASSUME NEW r \in Runs, ExecWorkload(r) PROVE TypeOK'
  BY <1>27 DEF ExecWorkload
<1>28. ASSUME NEW r \in Runs, WorkloadExits(r) PROVE TypeOK'
  BY <1>28 DEF WorkloadExits
<1>29. ASSUME NEW r \in Runs, ChildFails(r) PROVE TypeOK'
  BY <1>29 DEF ChildFails
<1>30. ASSUME NEW r \in Runs, DestroyNamespace(r) PROVE TypeOK'
  BY <1>30 DEF DestroyLinks, DestroyNamespace
<1>31. CASE UNCHANGED vars
  BY <1>31
<1> QED
  BY <1>1, <1>2, <1>3, <1>4, <1>5, <1>6, <1>7, <1>8, <1>9, <1>10, <1>11,
     <1>12, <1>13, <1>14, <1>15, <1>16, <1>17, <1>18, <1>19, <1>20, <1>21, <1>22,
     <1>23, <1>24, <1>25, <1>26, <1>27, <1>28, <1>29, <1>30, <1>31
     DEF Next, RunStep, ChildStep, AllReturned

\* Every action keeps goroutine and child in step.
LEMMA ChildPreserved ==
    ASSUME TypeOK, ChildInv, [Next]_vars
    PROVE  ChildInv'
<1> USE GuestAssumption, NetworkAssumption
<1> USE DEF TypeOK, Locations, Errors, Calls, RemovalCalls, Live, Dead, NoSlot,
        ChildInv, BeforeStart, Cleaning, vars, hostVars, netVars, linkVars,
        procVars, pipeVars, Goto, Fail, Become, Fault
<1>1. ASSUME NEW r \in Runs, Call(r) PROVE ChildInv'
  BY <1>1 DEF Call
<1>2. ASSUME NEW r \in Runs, RejectConfig(r) PROVE ChildInv'
  BY <1>2 DEF RejectConfig
<1>3. ASSUME NEW r \in Runs, CreateCgroup(r) PROVE ChildInv'
  BY <1>3 DEF CreateCgroup
<1>4. ASSUME NEW r \in Runs, CreateCgroupFails(r) PROVE ChildInv'
  BY <1>4 DEF CreateCgroupFails
<1>5. ASSUME NEW r \in Runs, AllocateWorkloadNetwork(r) PROVE ChildInv'
  BY <1>5 DEF IsSlot, AllocateWorkloadNetwork
<1>6. ASSUME NEW r \in Runs, LinkAdd(r) PROVE ChildInv'
  BY <1>6 DEF LinksNamed, LinkAdd
<1>7. ASSUME NEW r \in Runs, LinkAddFails(r) PROVE ChildInv'
  BY <1>7 DEF LinksNamed, LinkAddFails
<1>8. ASSUME NEW r \in Runs, LinkUp(r) PROVE ChildInv'
  BY <1>8 DEF LinksNamed, LinkUp
<1>9. ASSUME NEW r \in Runs, LinkUpFails(r) PROVE ChildInv'
  BY <1>9 DEF DestroyLinks, LinksNamed, LinkUpFails
<1>10. ASSUME NEW r \in Runs, LinkUpAndCleanupFail(r) PROVE ChildInv'
  BY <1>10 DEF LinkUpAndCleanupFail
<1>11. ASSUME NEW r \in Runs, StartChild(r) PROVE ChildInv'
  BY <1>11 DEF StartChild
<1>12. ASSUME NEW r \in Runs, StartChildFails(r) PROVE ChildInv'
  BY <1>12 DEF StartChildFails
<1>13. ASSUME NEW r \in Runs, MoveNetworkToProcess(r) PROVE ChildInv'
  BY <1>13 DEF CanMove, PeersNamed, LinksNamed, MoveNetworkToProcess
<1>14. ASSUME NEW r \in Runs, MoveNetworkFails(r) PROVE ChildInv'
  BY <1>14 DEF CloseUnsignalled, MoveNetworkFails
<1>15. ASSUME NEW r \in Runs, SignalReady(r) PROVE ChildInv'
  BY <1>15 DEF SignalReady
<1>16. ASSUME NEW r \in Runs, SignalReadyFails(r) PROVE ChildInv'
  BY <1>16 DEF CloseUnsignalled, SignalReadyFails
<1>17. ASSUME NEW r \in Runs, CloseWriter(r) PROVE ChildInv'
  BY <1>17 DEF CloseWriter
<1>18. ASSUME NEW r \in Runs, WaitChild(r) PROVE ChildInv'
  BY <1>18 DEF WaitChild
<1>19. ASSUME NEW r \in Runs, FindGuestLink(r) PROVE ChildInv'
  BY <1>19 DEF LinksNamed, FindGuestLink
<1>20. ASSUME NEW r \in Runs, GuestLinkNotFound(r) PROVE ChildInv'
  BY <1>20 DEF LinksNamed, GuestLinkNotFound
<1>21. ASSUME NEW r \in Runs, DeleteGuestLink(r) PROVE ChildInv'
  BY <1>21 DEF DestroyLinks, DeleteGuestLink
<1>22. ASSUME NEW r \in Runs, DeleteGuestLinkFails(r) PROVE ChildInv'
  BY <1>22 DEF DeleteGuestLinkFails
<1>23. ASSUME NEW r \in Runs, RemoveCgroup(r) PROVE ChildInv'
  BY <1>23 DEF RemoveCgroup
<1>24. ASSUME NEW r \in Runs, CheckArguments(r) PROVE ChildInv'
  BY <1>24 DEF CheckArguments
<1>25. ASSUME NEW r \in Runs, WaitForNetwork(r) PROVE ChildInv'
  BY <1>25 DEF WaitForNetwork
<1>26. ASSUME NEW r \in Runs, ConfigureWorkloadNetwork(r) PROVE ChildInv'
  BY <1>26 DEF PeersNamed, LinksNamed, ConfigureWorkloadNetwork
<1>27. ASSUME NEW r \in Runs, ExecWorkload(r) PROVE ChildInv'
  BY <1>27 DEF ExecWorkload
<1>28. ASSUME NEW r \in Runs, WorkloadExits(r) PROVE ChildInv'
  BY <1>28 DEF WorkloadExits
<1>29. ASSUME NEW r \in Runs, ChildFails(r) PROVE ChildInv'
  BY <1>29 DEF ChildFails
<1>30. ASSUME NEW r \in Runs, DestroyNamespace(r) PROVE ChildInv'
  BY <1>30 DEF DestroyLinks, DestroyNamespace
<1>31. CASE UNCHANGED vars
  BY <1>31
<1> QED
  BY <1>1, <1>2, <1>3, <1>4, <1>5, <1>6, <1>7, <1>8, <1>9, <1>10, <1>11,
     <1>12, <1>13, <1>14, <1>15, <1>16, <1>17, <1>18, <1>19, <1>20, <1>21, <1>22,
     <1>23, <1>24, <1>25, <1>26, <1>27, <1>28, <1>29, <1>30, <1>31
     DEF Next, RunStep, ChildStep, AllReturned

\* Every action keeps the meaning of the readiness pipe: a child that goes on has
\* Every action leaves a cgroup behind only with a fault to blame.
LEMMA CgroupPreserved ==
    ASSUME TypeOK, ChildInv, CgroupInv, [Next]_vars
    PROVE  CgroupInv'
<1> USE GuestAssumption, NetworkAssumption
<1> USE DEF TypeOK, Locations, Errors, Calls, RemovalCalls, Live, Dead, NoSlot,
        ChildInv, CgroupInv, BeforeStart, Cleaning, vars, hostVars, netVars, linkVars,
        procVars, pipeVars, Goto, Fail, Become, Fault
<1>1. ASSUME NEW r \in Runs, Call(r) PROVE CgroupInv'
  BY <1>1 DEF Call
<1>2. ASSUME NEW r \in Runs, RejectConfig(r) PROVE CgroupInv'
  BY <1>2 DEF RejectConfig
<1>3. ASSUME NEW r \in Runs, CreateCgroup(r) PROVE CgroupInv'
  BY <1>3 DEF CreateCgroup
<1>4. ASSUME NEW r \in Runs, CreateCgroupFails(r) PROVE CgroupInv'
  BY <1>4 DEF CreateCgroupFails
<1>5. ASSUME NEW r \in Runs, AllocateWorkloadNetwork(r) PROVE CgroupInv'
  <2>1. \A q \in Runs : "cgroupCleanup" \in failures'[q] => "cgroupCleanup" \in failures[q]
    BY <1>5 DEF AllocateWorkloadNetwork
  <2>2. \A q \in Runs :
            \/ pc'[q] = pc[q]
            \/ {pc[q], pc'[q]} \cap {"idle", "createCgroup", "returned"} = {}
    BY <1>5 DEF AllocateWorkloadNetwork
  <2>3. cgroups' = cgroups /\ faults \subseteq faults'
    BY <1>5 DEF AllocateWorkloadNetwork
  <2>4. \A q \in Runs :
            failures'[q] \cap {"config", "cgroup"} = failures[q] \cap {"config", "cgroup"}
    BY <1>5 DEF AllocateWorkloadNetwork
  <2> QED
    BY <2>1, <2>2, <2>3, <2>4
<1>6. ASSUME NEW r \in Runs, LinkAdd(r) PROVE CgroupInv'
  BY <1>6 DEF LinksNamed, LinkAdd
<1>7. ASSUME NEW r \in Runs, LinkAddFails(r) PROVE CgroupInv'
  BY <1>7 DEF LinksNamed, LinkAddFails
<1>8. ASSUME NEW r \in Runs, LinkUp(r) PROVE CgroupInv'
  BY <1>8 DEF LinksNamed, LinkUp
<1>9. ASSUME NEW r \in Runs, LinkUpFails(r) PROVE CgroupInv'
  BY <1>9 DEF DestroyLinks, LinksNamed, LinkUpFails
<1>10. ASSUME NEW r \in Runs, LinkUpAndCleanupFail(r) PROVE CgroupInv'
  BY <1>10 DEF LinkUpAndCleanupFail
<1>11. ASSUME NEW r \in Runs, StartChild(r) PROVE CgroupInv'
  BY <1>11 DEF StartChild
<1>12. ASSUME NEW r \in Runs, StartChildFails(r) PROVE CgroupInv'
  BY <1>12 DEF StartChildFails
<1>13. ASSUME NEW r \in Runs, MoveNetworkToProcess(r) PROVE CgroupInv'
  BY <1>13 DEF CanMove, PeersNamed, LinksNamed, MoveNetworkToProcess
<1>14. ASSUME NEW r \in Runs, MoveNetworkFails(r) PROVE CgroupInv'
  BY <1>14 DEF CloseUnsignalled, MoveNetworkFails
<1>15. ASSUME NEW r \in Runs, SignalReady(r) PROVE CgroupInv'
  BY <1>15 DEF SignalReady
<1>16. ASSUME NEW r \in Runs, SignalReadyFails(r) PROVE CgroupInv'
  BY <1>16 DEF CloseUnsignalled, SignalReadyFails
<1>17. ASSUME NEW r \in Runs, CloseWriter(r) PROVE CgroupInv'
  <2>1. \A q \in Runs : "cgroupCleanup" \in failures'[q] => "cgroupCleanup" \in failures[q]
    BY <1>17 DEF CloseWriter
  <2>2. \A q \in Runs :
            \/ pc'[q] = pc[q]
            \/ {pc[q], pc'[q]} \cap {"idle", "createCgroup", "returned"} = {}
    BY <1>17 DEF CloseWriter
  <2>3. cgroups' = cgroups /\ faults \subseteq faults'
    BY <1>17 DEF CloseWriter
  <2>4. \A q \in Runs :
            failures'[q] \cap {"config", "cgroup"} = failures[q] \cap {"config", "cgroup"}
    BY <1>17 DEF CloseWriter
  <2> QED
    BY <2>1, <2>2, <2>3, <2>4
<1>18. ASSUME NEW r \in Runs, WaitChild(r) PROVE CgroupInv'
  BY <1>18 DEF WaitChild
<1>19. ASSUME NEW r \in Runs, FindGuestLink(r) PROVE CgroupInv'
  BY <1>19 DEF LinksNamed, FindGuestLink
<1>20. ASSUME NEW r \in Runs, GuestLinkNotFound(r) PROVE CgroupInv'
  BY <1>20 DEF LinksNamed, GuestLinkNotFound
<1>21. ASSUME NEW r \in Runs, DeleteGuestLink(r) PROVE CgroupInv'
  BY <1>21 DEF DestroyLinks, DeleteGuestLink
<1>22. ASSUME NEW r \in Runs, DeleteGuestLinkFails(r) PROVE CgroupInv'
  BY <1>22 DEF DeleteGuestLinkFails
<1>23. ASSUME NEW r \in Runs, RemoveCgroup(r) PROVE CgroupInv'
  BY <1>23 DEF RemoveCgroup
<1>24. ASSUME NEW r \in Runs, CheckArguments(r) PROVE CgroupInv'
  BY <1>24 DEF CheckArguments
<1>25. ASSUME NEW r \in Runs, WaitForNetwork(r) PROVE CgroupInv'
  BY <1>25 DEF WaitForNetwork
<1>26. ASSUME NEW r \in Runs, ConfigureWorkloadNetwork(r) PROVE CgroupInv'
  BY <1>26 DEF PeersNamed, LinksNamed, ConfigureWorkloadNetwork
<1>27. ASSUME NEW r \in Runs, ExecWorkload(r) PROVE CgroupInv'
  BY <1>27 DEF ExecWorkload
<1>28. ASSUME NEW r \in Runs, WorkloadExits(r) PROVE CgroupInv'
  BY <1>28 DEF WorkloadExits
<1>29. ASSUME NEW r \in Runs, ChildFails(r) PROVE CgroupInv'
  BY <1>29 DEF ChildFails
<1>30. ASSUME NEW r \in Runs, DestroyNamespace(r) PROVE CgroupInv'
  BY <1>30 DEF DestroyLinks, DestroyNamespace
<1>31. CASE UNCHANGED vars
  BY <1>31
<1> QED
  BY <1>1, <1>2, <1>3, <1>4, <1>5, <1>6, <1>7, <1>8, <1>9, <1>10, <1>11,
     <1>12, <1>13, <1>14, <1>15, <1>16, <1>17, <1>18, <1>19, <1>20, <1>21, <1>22,
     <1>23, <1>24, <1>25, <1>26, <1>27, <1>28, <1>29, <1>30, <1>31
     DEF Next, RunStep, ChildStep, AllReturned

\* Every action keeps the meaning of the readiness pipe: a child that goes on has
\* been signalled, and a child that is given up never is.
LEMMA PipePreserved ==
    ASSUME TypeOK, ChildInv, PipeInv, [Next]_vars
    PROVE  PipeInv'
<1> USE GuestAssumption, NetworkAssumption
<1> USE DEF TypeOK, Locations, Errors, Calls, RemovalCalls, Live, Dead, NoSlot,
        ChildInv, PipeInv, GivenUp, BeforeStart, Cleaning, vars, hostVars,
        netVars, linkVars, procVars, pipeVars, Goto, Fail, Become, Fault
<1>1. ASSUME NEW r \in Runs, Call(r) PROVE PipeInv'
  BY <1>1 DEF Call
<1>2. ASSUME NEW r \in Runs, RejectConfig(r) PROVE PipeInv'
  BY <1>2 DEF RejectConfig
<1>3. ASSUME NEW r \in Runs, CreateCgroup(r) PROVE PipeInv'
  BY <1>3 DEF CreateCgroup
<1>4. ASSUME NEW r \in Runs, CreateCgroupFails(r) PROVE PipeInv'
  BY <1>4 DEF CreateCgroupFails
<1>5. ASSUME NEW r \in Runs, AllocateWorkloadNetwork(r) PROVE PipeInv'
  BY <1>5 DEF IsSlot, AllocateWorkloadNetwork
<1>6. ASSUME NEW r \in Runs, LinkAdd(r) PROVE PipeInv'
  BY <1>6 DEF LinksNamed, LinkAdd
<1>7. ASSUME NEW r \in Runs, LinkAddFails(r) PROVE PipeInv'
  BY <1>7 DEF LinksNamed, LinkAddFails
<1>8. ASSUME NEW r \in Runs, LinkUp(r) PROVE PipeInv'
  BY <1>8 DEF LinksNamed, LinkUp
<1>9. ASSUME NEW r \in Runs, LinkUpFails(r) PROVE PipeInv'
  BY <1>9 DEF DestroyLinks, LinksNamed, LinkUpFails
<1>10. ASSUME NEW r \in Runs, LinkUpAndCleanupFail(r) PROVE PipeInv'
  BY <1>10 DEF LinkUpAndCleanupFail
<1>11. ASSUME NEW r \in Runs, StartChild(r) PROVE PipeInv'
  BY <1>11 DEF StartChild
<1>12. ASSUME NEW r \in Runs, StartChildFails(r) PROVE PipeInv'
  BY <1>12 DEF StartChildFails
<1>13. ASSUME NEW r \in Runs, MoveNetworkToProcess(r) PROVE PipeInv'
  BY <1>13 DEF CanMove, PeersNamed, LinksNamed, MoveNetworkToProcess
<1>14. ASSUME NEW r \in Runs, MoveNetworkFails(r) PROVE PipeInv'
  BY <1>14 DEF CloseUnsignalled, MoveNetworkFails
<1>15. ASSUME NEW r \in Runs, SignalReady(r) PROVE PipeInv'
  BY <1>15 DEF SignalReady
<1>16. ASSUME NEW r \in Runs, SignalReadyFails(r) PROVE PipeInv'
  BY <1>16 DEF CloseUnsignalled, SignalReadyFails
<1>17. ASSUME NEW r \in Runs, CloseWriter(r) PROVE PipeInv'
  BY <1>17 DEF CloseWriter
<1>18. ASSUME NEW r \in Runs, WaitChild(r) PROVE PipeInv'
  BY <1>18 DEF WaitChild
<1>19. ASSUME NEW r \in Runs, FindGuestLink(r) PROVE PipeInv'
  BY <1>19 DEF LinksNamed, FindGuestLink
<1>20. ASSUME NEW r \in Runs, GuestLinkNotFound(r) PROVE PipeInv'
  BY <1>20 DEF LinksNamed, GuestLinkNotFound
<1>21. ASSUME NEW r \in Runs, DeleteGuestLink(r) PROVE PipeInv'
  BY <1>21 DEF DestroyLinks, DeleteGuestLink
<1>22. ASSUME NEW r \in Runs, DeleteGuestLinkFails(r) PROVE PipeInv'
  BY <1>22 DEF DeleteGuestLinkFails
<1>23. ASSUME NEW r \in Runs, RemoveCgroup(r) PROVE PipeInv'
  BY <1>23 DEF RemoveCgroup
<1>24. ASSUME NEW r \in Runs, CheckArguments(r) PROVE PipeInv'
  BY <1>24 DEF CheckArguments
<1>25. ASSUME NEW r \in Runs, WaitForNetwork(r) PROVE PipeInv'
  BY <1>25 DEF WaitForNetwork
<1>26. ASSUME NEW r \in Runs, ConfigureWorkloadNetwork(r) PROVE PipeInv'
  BY <1>26 DEF PeersNamed, LinksNamed, ConfigureWorkloadNetwork
<1>27. ASSUME NEW r \in Runs, ExecWorkload(r) PROVE PipeInv'
  BY <1>27 DEF ExecWorkload
<1>28. ASSUME NEW r \in Runs, WorkloadExits(r) PROVE PipeInv'
  BY <1>28 DEF WorkloadExits
<1>29. ASSUME NEW r \in Runs, ChildFails(r) PROVE PipeInv'
  BY <1>29 DEF ChildFails
<1>30. ASSUME NEW r \in Runs, DestroyNamespace(r) PROVE PipeInv'
  BY <1>30 DEF DestroyLinks, DestroyNamespace
<1>31. CASE UNCHANGED vars
  BY <1>31
<1> QED
  BY <1>1, <1>2, <1>3, <1>4, <1>5, <1>6, <1>7, <1>8, <1>9, <1>10, <1>11,
     <1>12, <1>13, <1>14, <1>15, <1>16, <1>17, <1>18, <1>19, <1>20, <1>21, <1>22,
     <1>23, <1>24, <1>25, <1>26, <1>27, <1>28, <1>29, <1>30, <1>31
     DEF Next, RunStep, ChildStep, AllReturned

\* Every action keeps the names of the existing pairs distinct and accounts for
\* each pair that a finished run leaves.
LEMMA LinkPreserved ==
    ASSUME TypeOK, LinkInv, [Next]_vars
    PROVE  LinkInv'
<1> USE GuestAssumption, NetworkAssumption
<1> USE DEF TypeOK, Locations, Errors, Calls, RemovalCalls, Live, Dead, NoSlot,
        LinkInv, BeforeLink, HoldsSlot, vars, hostVars, netVars, linkVars,
        procVars, pipeVars, Goto, Fail, Become, Fault
<1>1. ASSUME NEW r \in Runs, Call(r) PROVE LinkInv'
  BY <1>1 DEF Call
<1>2. ASSUME NEW r \in Runs, RejectConfig(r) PROVE LinkInv'
  BY <1>2 DEF RejectConfig
<1>3. ASSUME NEW r \in Runs, CreateCgroup(r) PROVE LinkInv'
  BY <1>3 DEF CreateCgroup
<1>4. ASSUME NEW r \in Runs, CreateCgroupFails(r) PROVE LinkInv'
  BY <1>4 DEF CreateCgroupFails
<1>5. ASSUME NEW r \in Runs, AllocateWorkloadNetwork(r) PROVE LinkInv'
  <2>1. r \notin links /\ pc[r] = "allocate"
    BY <1>5 DEF AllocateWorkloadNetwork
  <2>2. CASE IsSlot(networkSequence)
    <3>1. /\ pc' = [pc EXCEPT ![r] = "linkAdd"]
          /\ slot' = [slot EXCEPT ![r] = networkSequence]
          /\ UNCHANGED << links, found, faults >>
      BY <1>5, <2>2 DEF AllocateWorkloadNetwork
    <3> QED
      BY <2>1, <3>1
  <2>3. CASE ~IsSlot(networkSequence)
    <3>1. /\ pc' = [pc EXCEPT ![r] = "removeCgroup"]
          /\ UNCHANGED << slot, links, found, faults >>
      BY <1>5, <2>3 DEF AllocateWorkloadNetwork
    <3> QED
      BY <2>1, <3>1
  <2> QED
    BY <2>2, <2>3
<1>6. ASSUME NEW r \in Runs, LinkAdd(r) PROVE LinkInv'
  BY <1>6 DEF LinksNamed, LinkAdd
<1>7. ASSUME NEW r \in Runs, LinkAddFails(r) PROVE LinkInv'
  BY <1>7 DEF LinksNamed, LinkAddFails
<1>8. ASSUME NEW r \in Runs, LinkUp(r) PROVE LinkInv'
  BY <1>8 DEF LinksNamed, LinkUp
<1>9. ASSUME NEW r \in Runs, LinkUpFails(r) PROVE LinkInv'
  BY <1>9 DEF DestroyLinks, LinksNamed, LinkUpFails
<1>10. ASSUME NEW r \in Runs, LinkUpAndCleanupFail(r) PROVE LinkInv'
  BY <1>10 DEF LinkUpAndCleanupFail
<1>11. ASSUME NEW r \in Runs, StartChild(r) PROVE LinkInv'
  BY <1>11 DEF StartChild
<1>12. ASSUME NEW r \in Runs, StartChildFails(r) PROVE LinkInv'
  BY <1>12 DEF StartChildFails
<1>13. ASSUME NEW r \in Runs, MoveNetworkToProcess(r) PROVE LinkInv'
  BY <1>13 DEF CanMove, PeersNamed, LinksNamed, MoveNetworkToProcess
<1>14. ASSUME NEW r \in Runs, MoveNetworkFails(r) PROVE LinkInv'
  BY <1>14 DEF CloseUnsignalled, MoveNetworkFails
<1>15. ASSUME NEW r \in Runs, SignalReady(r) PROVE LinkInv'
  BY <1>15 DEF SignalReady
<1>16. ASSUME NEW r \in Runs, SignalReadyFails(r) PROVE LinkInv'
  BY <1>16 DEF CloseUnsignalled, SignalReadyFails
<1>17. ASSUME NEW r \in Runs, CloseWriter(r) PROVE LinkInv'
  BY <1>17 DEF CloseWriter
<1>18. ASSUME NEW r \in Runs, WaitChild(r) PROVE LinkInv'
  BY <1>18 DEF WaitChild
<1>19. ASSUME NEW r \in Runs, FindGuestLink(r) PROVE LinkInv'
  BY <1>19 DEF LinksNamed, FindGuestLink
<1>20. ASSUME NEW r \in Runs, GuestLinkNotFound(r) PROVE LinkInv'
  BY <1>20 DEF LinksNamed, GuestLinkNotFound
<1>21. ASSUME NEW r \in Runs, DeleteGuestLink(r) PROVE LinkInv'
  BY <1>21 DEF DestroyLinks, DeleteGuestLink
<1>22. ASSUME NEW r \in Runs, DeleteGuestLinkFails(r) PROVE LinkInv'
  BY <1>22 DEF DeleteGuestLinkFails
<1>23. ASSUME NEW r \in Runs, RemoveCgroup(r) PROVE LinkInv'
  BY <1>23 DEF RemoveCgroup
<1>24. ASSUME NEW r \in Runs, CheckArguments(r) PROVE LinkInv'
  BY <1>24 DEF CheckArguments
<1>25. ASSUME NEW r \in Runs, WaitForNetwork(r) PROVE LinkInv'
  BY <1>25 DEF WaitForNetwork
<1>26. ASSUME NEW r \in Runs, ConfigureWorkloadNetwork(r) PROVE LinkInv'
  BY <1>26 DEF PeersNamed, LinksNamed, ConfigureWorkloadNetwork
<1>27. ASSUME NEW r \in Runs, ExecWorkload(r) PROVE LinkInv'
  BY <1>27 DEF ExecWorkload
<1>28. ASSUME NEW r \in Runs, WorkloadExits(r) PROVE LinkInv'
  BY <1>28 DEF WorkloadExits
<1>29. ASSUME NEW r \in Runs, ChildFails(r) PROVE LinkInv'
  BY <1>29 DEF ChildFails
<1>30. ASSUME NEW r \in Runs, DestroyNamespace(r) PROVE LinkInv'
  BY <1>30 DEF DestroyLinks, DestroyNamespace
<1>31. CASE UNCHANGED vars
  BY <1>31
<1> QED
  BY <1>1, <1>2, <1>3, <1>4, <1>5, <1>6, <1>7, <1>8, <1>9, <1>10, <1>11,
     <1>12, <1>13, <1>14, <1>15, <1>16, <1>17, <1>18, <1>19, <1>20, <1>21, <1>22,
     <1>23, <1>24, <1>25, <1>26, <1>27, <1>28, <1>29, <1>30, <1>31
     DEF Next, RunStep, ChildStep, AllReturned

\* Before the sequence wraps, every action touches only what belongs to its run.
LEMMA OwnPreserved ==
    ASSUME IInv, [Next]_vars
    PROVE  OwnInv'
<1> USE GuestAssumption, NetworkAssumption
<1> USE DEF IInv, TypeOK, Locations, Errors, Calls, RemovalCalls, Live, Dead,
        NoSlot, ChildInv, PipeInv, LinkInv, OwnInv, Owns, BeforeStart,
        BeforeLink, HoldsSlot, Cleaning, vars, hostVars, netVars, linkVars,
        procVars, pipeVars, Goto, Fail, Become, Fault
<1>1. ASSUME NEW r \in Runs, Call(r) PROVE OwnInv'
  BY <1>1 DEF Call
<1>2. ASSUME NEW r \in Runs, RejectConfig(r) PROVE OwnInv'
  BY <1>2 DEF RejectConfig
<1>3. ASSUME NEW r \in Runs, CreateCgroup(r) PROVE OwnInv'
  BY <1>3 DEF CreateCgroup
<1>4. ASSUME NEW r \in Runs, CreateCgroupFails(r) PROVE OwnInv'
  BY <1>4 DEF CreateCgroupFails
<1>5. ASSUME NEW r \in Runs, AllocateWorkloadNetwork(r) PROVE OwnInv'
  <2> SUFFICES ASSUME ~wrapped', NEW p \in Runs
                PROVE  Owns(p)'
    OBVIOUS
  <2>1. ~wrapped /\ networkSequence' = networkSequence + 1
    BY <1>5, NextSequenceValue DEF AllocateWorkloadNetwork
  <2>2. \A q \in Runs : Owns(q)
    BY <2>1
  <2>3. CASE IsSlot(networkSequence)
    <3>1. /\ pc' = [pc EXCEPT ![r] = "linkAdd"]
          /\ slot' = [slot EXCEPT ![r] = networkSequence]
          /\ UNCHANGED << links, peerNs, configured, found, child, signalled >>
      BY <1>5, <2>3 DEF AllocateWorkloadNetwork
    <3>2. \A q \in Runs : slot[q] < networkSequence
      BY <2>2
    <3>3. /\ slot'[p] < networkSequence'
          /\ \A q \in Runs : slot'[q] = slot'[p] /\ slot'[p] # NoSlot => q = p
      BY <2>1, <2>2, <3>1, <3>2
    <3> QED
      BY <2>2, <3>1, <3>3
  <2>4. CASE ~IsSlot(networkSequence)
    <3>1. /\ pc' = [pc EXCEPT ![r] = "removeCgroup"]
          /\ UNCHANGED << slot, links, peerNs, configured, found, child, signalled >>
      BY <1>5, <2>4 DEF AllocateWorkloadNetwork
    <3> QED
      BY <2>1, <2>2, <3>1
  <2> QED
    BY <2>3, <2>4
<1>6. ASSUME NEW r \in Runs, LinkAdd(r) PROVE OwnInv'
  <2> SUFFICES ASSUME ~wrapped', NEW p \in Runs
                PROVE  Owns(p)'
    OBVIOUS
  <2>1. Owns(p)
    BY <1>6 DEF LinkAdd
  <2>2. /\ pc' = [pc EXCEPT ![r] = "linkUp"]
        /\ links' = links \cup {r}
        /\ UNCHANGED << networkSequence, slot, peerNs, configured, found, child, signalled >>
    BY <1>6 DEF LinkAdd
  <2> QED
    BY <2>1, <2>2
<1>7. ASSUME NEW r \in Runs, LinkAddFails(r) PROVE OwnInv'
  BY <1>7 DEF LinksNamed, LinkAddFails
<1>8. ASSUME NEW r \in Runs, LinkUp(r) PROVE OwnInv'
  BY <1>8 DEF LinksNamed, LinkUp
<1>9. ASSUME NEW r \in Runs, LinkUpFails(r) PROVE OwnInv'
  <2> SUFFICES ASSUME ~wrapped', NEW p \in Runs
                PROVE  Owns(p)'
    OBVIOUS
  <2>1. Owns(p) /\ pc[r] = "linkUp"
    BY <1>9 DEF LinkUpFails
  <2>2. /\ pc' = [pc EXCEPT ![r] = "removeCgroup"]
        /\ links' = links \ LinksNamed(slot[r])
        /\ configured' = configured \ LinksNamed(slot[r])
        /\ peerNs'[p] = IF p \in LinksNamed(slot[r]) THEN Guest ELSE peerNs[p]
        /\ UNCHANGED << networkSequence, slot, found, child, signalled >>
    BY <1>9 DEF LinkUpFails, DestroyLinks
  <2>3. p \in LinksNamed(slot[r]) => p = r
    BY <2>1 DEF LinksNamed
  <2>4. child[r] = "none"
    BY <2>1
  <2> QED
    BY <2>1, <2>2, <2>3, <2>4
<1>10. ASSUME NEW r \in Runs, LinkUpAndCleanupFail(r) PROVE OwnInv'
  BY <1>10 DEF LinkUpAndCleanupFail
<1>11. ASSUME NEW r \in Runs, StartChild(r) PROVE OwnInv'
  BY <1>11 DEF StartChild
<1>12. ASSUME NEW r \in Runs, StartChildFails(r) PROVE OwnInv'
  BY <1>12 DEF StartChildFails
<1>13. ASSUME NEW r \in Runs, MoveNetworkToProcess(r) PROVE OwnInv'
  <2> SUFFICES ASSUME ~wrapped', NEW p \in Runs
                PROVE  Owns(p)'
    OBVIOUS
  <2>1. \A q \in Runs : Owns(q)
    BY <1>13 DEF MoveNetworkToProcess
  <2>2. pc[r] = "move" /\ slot[r] # NoSlot
    BY <1>13 DEF MoveNetworkToProcess
  <2>3. \A o \in PeersNamed(slot[r], Guest) : o = r
    BY <2>1, <2>2 DEF PeersNamed, LinksNamed
  <2>4. r \in links /\ r \in PeersNamed(slot[r], Guest)
    BY <1>13, <2>3 DEF MoveNetworkToProcess, CanMove, PeersNamed, LinksNamed
  <2>5. /\ pc' = [pc EXCEPT ![r] = "signal"]
        /\ peerNs'[p] = IF p = r THEN r ELSE peerNs[p]
        /\ UNCHANGED << networkSequence, slot, links, configured, found, child, signalled >>
    BY <1>13, <2>3, <2>4 DEF MoveNetworkToProcess
  <2> QED
    BY <2>1, <2>4, <2>5
<1>14. ASSUME NEW r \in Runs, MoveNetworkFails(r) PROVE OwnInv'
  BY <1>14 DEF CloseUnsignalled, MoveNetworkFails
<1>15. ASSUME NEW r \in Runs, SignalReady(r) PROVE OwnInv'
  BY <1>15 DEF SignalReady
<1>16. ASSUME NEW r \in Runs, SignalReadyFails(r) PROVE OwnInv'
  BY <1>16 DEF CloseUnsignalled, SignalReadyFails
<1>17. ASSUME NEW r \in Runs, CloseWriter(r) PROVE OwnInv'
  BY <1>17 DEF CloseWriter
<1>18. ASSUME NEW r \in Runs, WaitChild(r) PROVE OwnInv'
  BY <1>18 DEF WaitChild
<1>19. ASSUME NEW r \in Runs, FindGuestLink(r) PROVE OwnInv'
  <2> SUFFICES ASSUME ~wrapped', NEW p \in Runs
                PROVE  Owns(p)'
    OBVIOUS
  <2>1. \A q \in Runs : Owns(q)
    BY <1>19 DEF FindGuestLink
  <2>2. pc[r] = "findLink" /\ slot[r] # NoSlot
    BY <1>19 DEF FindGuestLink
  <2>3. found' = [found EXCEPT ![r] = {r}]
    BY <1>19, <2>1, <2>2 DEF FindGuestLink, LinksNamed
  <2>4. /\ pc' = [pc EXCEPT ![r] = "deleteLink"]
        /\ UNCHANGED << networkSequence, slot, links, peerNs, configured, child, signalled >>
    BY <1>19 DEF FindGuestLink
  <2> QED
    BY <2>1, <2>3, <2>4
<1>20. ASSUME NEW r \in Runs, GuestLinkNotFound(r) PROVE OwnInv'
  BY <1>20 DEF LinksNamed, GuestLinkNotFound
<1>21. ASSUME NEW r \in Runs, DeleteGuestLink(r) PROVE OwnInv'
  BY <1>21 DEF DestroyLinks, DeleteGuestLink
<1>22. ASSUME NEW r \in Runs, DeleteGuestLinkFails(r) PROVE OwnInv'
  BY <1>22 DEF DeleteGuestLinkFails
<1>23. ASSUME NEW r \in Runs, RemoveCgroup(r) PROVE OwnInv'
  BY <1>23 DEF RemoveCgroup
<1>24. ASSUME NEW r \in Runs, CheckArguments(r) PROVE OwnInv'
  BY <1>24 DEF CheckArguments
<1>25. ASSUME NEW r \in Runs, WaitForNetwork(r) PROVE OwnInv'
  BY <1>25 DEF WaitForNetwork
<1>26. ASSUME NEW r \in Runs, ConfigureWorkloadNetwork(r) PROVE OwnInv'
  BY <1>26 DEF PeersNamed, LinksNamed, ConfigureWorkloadNetwork
<1>27. ASSUME NEW r \in Runs, ExecWorkload(r) PROVE OwnInv'
  BY <1>27 DEF ExecWorkload
<1>28. ASSUME NEW r \in Runs, WorkloadExits(r) PROVE OwnInv'
  BY <1>28 DEF WorkloadExits
<1>29. ASSUME NEW r \in Runs, ChildFails(r) PROVE OwnInv'
  BY <1>29 DEF ChildFails
<1>30. ASSUME NEW r \in Runs, DestroyNamespace(r) PROVE OwnInv'
  BY <1>30 DEF DestroyLinks, DestroyNamespace
<1>31. CASE UNCHANGED vars
  BY <1>31
<1> QED
  BY <1>1, <1>2, <1>3, <1>4, <1>5, <1>6, <1>7, <1>8, <1>9, <1>10, <1>11,
     <1>12, <1>13, <1>14, <1>15, <1>16, <1>17, <1>18, <1>19, <1>20, <1>21, <1>22,
     <1>23, <1>24, <1>25, <1>26, <1>27, <1>28, <1>29, <1>30, <1>31
     DEF Next, RunStep, ChildStep, AllReturned

\* The initial state satisfies every part of the invariant.
LEMMA Initially == Init => IInv
<1> SUFFICES ASSUME Init PROVE IInv
  OBVIOUS
<1> USE DEF Init
<1>1. TypeOK
  <2>1. 0 \in 0 .. SeqModulus - 1
    BY NetworkAssumption DEF MaxWorkloadNetworks
  <2>2. slot \in [Runs -> {NoSlot} \cup 0 .. MaxNetworks - 1]
    OBVIOUS
  <2>3. /\ pc \in [Runs -> Locations]
        /\ failures \in [Runs -> SUBSET Errors]
        /\ found \in [Runs -> SUBSET Runs]
        /\ peerNs \in [Runs -> Runs \cup {Guest}]
        /\ child \in [Runs -> {"none"} \cup Live \cup Dead]
    BY DEF Locations
  <2> QED
    BY <2>1, <2>2, <2>3 DEF TypeOK
<1>2. ChildInv
  BY DEF ChildInv, BeforeStart, Cleaning
<1>3. CgroupInv
  BY DEF CgroupInv
<1>4. PipeInv
  BY DEF PipeInv, GivenUp
<1>5. LinkInv
  BY DEF LinkInv, HoldsSlot
<1>6. OwnInv
  BY DEF OwnInv, Owns, NoSlot
<1> QED
  BY <1>1, <1>2, <1>3, <1>4, <1>5, <1>6 DEF IInv

\* Every step preserves it.
LEMMA IInvPreserved == IInv /\ [Next]_vars => IInv'
BY TypePreserved, ChildPreserved, CgroupPreserved, PipePreserved, LinkPreserved,
   OwnPreserved DEF IInv

\* IInv holds in every reachable state.
THEOREM Invariance == Spec => []IInv
BY Initially, IInvPreserved, PTL DEF Spec

-----------------------------------------------------------------------------
\* Every variable of WorkloadRun keeps its type.
THEOREM TypeCorrect == Spec => []TypeOK
BY Invariance, PTL DEF IInv

\* No run leaves a process or a cgroup behind: on every path that started the
\* child, Run has waited for it.
THEOREM NothingSurvives == Spec => []NothingSurvivesReturn
<1>1. IInv => NothingSurvivesReturn
  BY DEF IInv, ChildInv, CgroupInv, NothingSurvivesReturn, Cleaning
<1> QED
  BY <1>1, Invariance, PTL

\* A child that Run has given up never becomes a workload.
THEOREM GivenUpNeverRuns == Spec => []NoRunAfterGiveUp
<1>1. IInv => NoRunAfterGiveUp
  BY DEF IInv, PipeInv, GivenUp, NoRunAfterGiveUp
<1> QED
  BY <1>1, Invariance, PTL

\* Only a failing removal call leaks a veth pair.
THEOREM OnlyCleanupFaultsLeak == Spec => []LeakNeedsCleanupFault
<1>1. IInv => LeakNeedsCleanupFault
  BY DEF IInv, TypeOK, LinkInv, LeakNeedsCleanupFault
<1> QED
  BY <1>1, Invariance, PTL

\* A running workload has its own configured pair, and nothing else, in its
\* namespace, as long as the sequence has not wrapped.
THEOREM WorkloadsAreConnected == Spec => []WorkloadHasNetwork
<1>1. IInv => WorkloadHasNetwork
  <2> SUFFICES ASSUME IInv, ~wrapped, NEW r \in Runs, child[r] = "running"
               PROVE  PairsInside(r) = {r} /\ r \in configured
    BY DEF WorkloadHasNetwork
  <2>1. /\ r \in signalled
        /\ \A q \in Runs : Owns(q)
    BY DEF IInv, PipeInv, OwnInv
  <2>2. r \in links /\ peerNs[r] = r /\ r \in configured
    BY <2>1 DEF Owns, Live
  <2>3. \A o \in links : peerNs[o] = r => o = r
    BY <2>1, GuestAssumption DEF Owns, IInv, TypeOK
  <2> QED
    BY <2>2, <2>3 DEF PairsInside
<1> QED
  BY <1>1, Invariance, PTL

\* Every slot the sequence yields belongs to the address plan.
LEMMA SlotsFit == 0 .. MaxNetworks - 1 \subseteq Slot
<1>1. MaxWorkloadNetworks \in Nat
  BY DEF MaxWorkloadNetworks
<1>2. MaxNetworks \in Nat /\ MaxNetworks <= MaxWorkloadNetworks
  BY NetworkAssumption
<1> QED
  BY <1>1, <1>2 DEF Slot

\* Pairs that exist together lie in different blocks of the address plan; this
\* rests on PlanInjectiveForAllSlots and holds even after the sequence wraps.
THEOREM SubnetsStayDisjoint == Spec => []LiveSubnetsDisjoint
<1>1. IInv => LiveSubnetsDisjoint
  <2> SUFFICES ASSUME IInv, NEW r \in links, NEW q \in links, r # q
               PROVE  Subnet(GuestAddress(slot[r])) # Subnet(GuestAddress(slot[q]))
    BY DEF LiveSubnetsDisjoint
  <2>1. slot[r] \in 0 .. MaxNetworks - 1 /\ slot[q] \in 0 .. MaxNetworks - 1
    BY DEF IInv, TypeOK, LinkInv
  <2>2. slot[r] # slot[q]
    BY DEF IInv, LinkInv
  <2>3. BlocksDisjoint(slot[r], slot[q])
    BY <2>1, SlotsFit, PlanInjectiveForAllSlots
  <2> QED
    BY <2>2, <2>3 DEF BlocksDisjoint
<1> QED
  BY <1>1, Invariance, PTL

-----------------------------------------------------------------------------
\* A pair goes only with its own run's step or its own namespace.
LEMMA StepsDeleteOwn ==
    ASSUME IInv, [Next]_vars, ~wrapped, NEW r \in links \ links'
    PROVE  pc'[r] # pc[r] \/ peerNs[r] \in netns \ netns'
<1> USE DEF vars, hostVars, netVars, linkVars, procVars, pipeVars
<1>1. r \in Runs /\ slot[r] # NoSlot /\ \A q \in Runs : Owns(q)
  BY DEF IInv, TypeOK, LinkInv, OwnInv
<1>2. ASSUME NEW q \in Runs, LinkUpFails(q)
      PROVE  pc'[r] # pc[r]
  <2>1. r = q
    BY <1>1, <1>2 DEF LinkUpFails, DestroyLinks, LinksNamed, Owns
  <2> QED
    BY <1>2, <2>1 DEF LinkUpFails, Goto, IInv, TypeOK
<1>3. ASSUME NEW q \in Runs, DeleteGuestLink(q)
      PROVE  pc'[r] # pc[r]
  <2>1. r = q
    BY <1>1, <1>3 DEF DeleteGuestLink, DestroyLinks, Owns
  <2> QED
    BY <1>3, <2>1 DEF DeleteGuestLink, Goto, IInv, TypeOK
<1>4. ASSUME NEW q \in Runs, DestroyNamespace(q)
      PROVE  peerNs[r] \in netns \ netns'
  BY <1>1, <1>4 DEF DestroyNamespace, DestroyLinks
<1>5. ASSUME NEW q \in Runs, LinkAdd(q)
      PROVE  FALSE
  BY <1>5 DEF LinkAdd
<1>6. links' # links
  OBVIOUS
<1> QED
  BY <1>2, <1>3, <1>4, <1>5, <1>6
     DEF Next, RunStep, ChildStep, AllReturned, Call, RejectConfig, CreateCgroup,
         CreateCgroupFails, AllocateWorkloadNetwork, LinkAddFails, LinkUp,
         LinkUpAndCleanupFail, StartChild, StartChildFails, MoveNetworkToProcess,
         MoveNetworkFails, SignalReady, SignalReadyFails, CloseWriter, WaitChild,
         FindGuestLink, GuestLinkNotFound, DeleteGuestLinkFails, RemoveCgroup,
         CheckArguments, WaitForNetwork, ConfigureWorkloadNetwork, ExecWorkload,
         WorkloadExits, ChildFails

\* Until the sequence wraps, nobody deletes another run's pair.
THEOREM OwnersDelete == Spec => OnlyOwnerDeletes
<1>1. IInv /\ [Next]_vars =>
          [\A r \in links \ links' :
               wrapped \/ pc'[r] # pc[r] \/ peerNs[r] \in netns \ netns']_vars
  BY StepsDeleteOwn
<1> QED
  BY <1>1, Invariance, PTL DEF Spec, OnlyOwnerDeletes

-----------------------------------------------------------------------------
(* The contract.  A step of WorkloadRun changes the phase of at most one   *)
(* run, and changes it as RunContract allows.                              *)

Phases == [r \in Runs |-> Phase(r)]

\* The changes of one phase that RunContract allows.
MayBecome(p, q) ==
    \/ p = q
    \/ p = "idle" /\ q = "preparing"
    \/ p = "preparing" /\ q = "launched"
    \/ p = "launched" /\ q = "executing"
    \/ p = "executing" /\ q = "completed"
    \/ p \in {"launched", "executing"} /\ q = "aborted"
    \/ p = "completed" /\ q = "succeeded"
    \/ p \in {"idle", "preparing", "completed", "aborted"} /\ q = "failed"

\* Only run r moves.
OnlyMoves(r) ==
    \A q \in Runs \ {r} :
        pc'[q] = pc[q] /\ failures'[q] = failures[q] /\ child'[q] = child[q]

Moves(r) == OnlyMoves(r) /\ MayBecome(Phase(r), Phase(r)')

\* A step that moves run r only is a step, or a stuttering step, of the contract.
LEMMA MovesKeepContract ==
    ASSUME NEW r \in Runs, Moves(r)
    PROVE  [Contract!Next]_Phases
<1>1. \A q \in Runs \ {r} : Phase(q)' = Phase(q)
  BY DEF Moves, OnlyMoves, Phase
<1>2. Phases' = [Phases EXCEPT ![r] = Phase(r)']
  BY <1>1 DEF Phases
<1>3. Phases[r] = Phase(r)
  BY DEF Phases
<1>4. CASE Phase(r)' = Phase(r)
  <2>1. Phases' = Phases
    BY <1>1, <1>4 DEF Phases
  <2> QED
    BY <2>1
<1>5. CASE Phase(r)' # Phase(r)
  <2>1. MayBecome(Phases[r], Phase(r)')
    BY <1>3 DEF Moves
  <2>2. Contract!Next
    BY <1>2, <1>3, <1>5, <2>1
       DEF MayBecome, Contract!Next, Contract!Call, Contract!Launch,
               Contract!Execute,
           Contract!Complete, Contract!Abort, Contract!ReturnSuccess,
           Contract!ReturnFailure, Contract!Become, Phases
  <2> QED
    BY <2>2
<1> QED
  BY <1>4, <1>5

\* Every step of WorkloadRun moves one run, or none.
LEMMA StepsKeepContract ==
    ASSUME IInv, [Next]_vars
    PROVE  [Contract!Next]_Phases
<1> USE DEF vars, hostVars, netVars, linkVars, procVars, pipeVars, Goto, Fail,
        Become,
            IInv, TypeOK, ChildInv, BeforeStart, Cleaning, Live, Dead, Moves, OnlyMoves,
            MayBecome, Phase, Locations, Errors
<1>1. ASSUME NEW r \in Runs, Call(r) PROVE Moves(r)
  BY <1>1 DEF Call
<1>2. ASSUME NEW r \in Runs, RejectConfig(r) PROVE Moves(r)
  BY <1>2 DEF RejectConfig
<1>3. ASSUME NEW r \in Runs, CreateCgroup(r) PROVE Moves(r)
  BY <1>3 DEF CreateCgroup
<1>4. ASSUME NEW r \in Runs, CreateCgroupFails(r) PROVE Moves(r)
  BY <1>4 DEF CreateCgroupFails
<1>5. ASSUME NEW r \in Runs, AllocateWorkloadNetwork(r) PROVE Moves(r)
  BY <1>5 DEF AllocateWorkloadNetwork
<1>6. ASSUME NEW r \in Runs, LinkAdd(r) PROVE Moves(r)
  BY <1>6 DEF LinkAdd
<1>7. ASSUME NEW r \in Runs, LinkAddFails(r) PROVE Moves(r)
  BY <1>7 DEF LinkAddFails
<1>8. ASSUME NEW r \in Runs, LinkUp(r) PROVE Moves(r)
  BY <1>8 DEF LinkUp
<1>9. ASSUME NEW r \in Runs, LinkUpFails(r) PROVE Moves(r)
  BY <1>9 DEF LinkUpFails
<1>10. ASSUME NEW r \in Runs, LinkUpAndCleanupFail(r) PROVE Moves(r)
  BY <1>10 DEF LinkUpAndCleanupFail
<1>11. ASSUME NEW r \in Runs, StartChild(r) PROVE Moves(r)
  BY <1>11 DEF StartChild
<1>12. ASSUME NEW r \in Runs, StartChildFails(r) PROVE Moves(r)
  BY <1>12 DEF StartChildFails
<1>13. ASSUME NEW r \in Runs, MoveNetworkToProcess(r) PROVE Moves(r)
  BY <1>13 DEF MoveNetworkToProcess
<1>14. ASSUME NEW r \in Runs, MoveNetworkFails(r) PROVE Moves(r)
  BY <1>14 DEF MoveNetworkFails
<1>15. ASSUME NEW r \in Runs, SignalReady(r) PROVE Moves(r)
  BY <1>15 DEF SignalReady
<1>16. ASSUME NEW r \in Runs, SignalReadyFails(r) PROVE Moves(r)
  BY <1>16 DEF SignalReadyFails
<1>17. ASSUME NEW r \in Runs, CloseWriter(r) PROVE Moves(r)
  BY <1>17 DEF CloseWriter
<1>18. ASSUME NEW r \in Runs, WaitChild(r) PROVE Moves(r)
  BY <1>18 DEF WaitChild
<1>19. ASSUME NEW r \in Runs, FindGuestLink(r) PROVE Moves(r)
  BY <1>19 DEF FindGuestLink
<1>20. ASSUME NEW r \in Runs, GuestLinkNotFound(r) PROVE Moves(r)
  BY <1>20 DEF GuestLinkNotFound
<1>21. ASSUME NEW r \in Runs, DeleteGuestLink(r) PROVE Moves(r)
  BY <1>21 DEF DeleteGuestLink
<1>22. ASSUME NEW r \in Runs, DeleteGuestLinkFails(r) PROVE Moves(r)
  BY <1>22 DEF DeleteGuestLinkFails
<1>23. ASSUME NEW r \in Runs, RemoveCgroup(r) PROVE Moves(r)
  BY <1>23 DEF RemoveCgroup
<1>24. ASSUME NEW r \in Runs, CheckArguments(r) PROVE Moves(r)
  BY <1>24 DEF CheckArguments
<1>25. ASSUME NEW r \in Runs, WaitForNetwork(r) PROVE Moves(r)
  BY <1>25 DEF WaitForNetwork
<1>26. ASSUME NEW r \in Runs, ConfigureWorkloadNetwork(r) PROVE Moves(r)
  BY <1>26 DEF ConfigureWorkloadNetwork
<1>27. ASSUME NEW r \in Runs, ExecWorkload(r) PROVE Moves(r)
  BY <1>27 DEF ExecWorkload
<1>28. ASSUME NEW r \in Runs, WorkloadExits(r) PROVE Moves(r)
  BY <1>28 DEF WorkloadExits
<1>29. ASSUME NEW r \in Runs, ChildFails(r) PROVE Moves(r)
  BY <1>29 DEF ChildFails
<1>30. ASSUME NEW r \in Runs, DestroyNamespace(r) PROVE Moves(r)
  BY <1>30 DEF DestroyNamespace
<1>31. CASE UNCHANGED vars
  <2>1. Phases' = Phases
    BY <1>31 DEF Phases
  <2> QED
    BY <2>1
<1> HIDE DEF vars, hostVars, netVars, linkVars, procVars, pipeVars, Goto, Fail, Become,
             IInv, TypeOK, ChildInv, BeforeStart, Cleaning, Live, Dead, Moves, OnlyMoves,
             MayBecome, Phase, Locations, Errors
<1>32. CASE \E r \in Runs : Moves(r)
  BY <1>32, MovesKeepContract
<1> QED
  BY <1>1, <1>2, <1>3, <1>4, <1>5, <1>6, <1>7, <1>8, <1>9, <1>10,
     <1>11, <1>12, <1>13, <1>14, <1>15, <1>16, <1>17, <1>18, <1>19, <1>20,
     <1>21, <1>22, <1>23, <1>24, <1>25, <1>26, <1>27, <1>28, <1>29, <1>30,
     <1>31, <1>32
     DEF Next, RunStep, ChildStep, AllReturned

-----------------------------------------------------------------------------
(* The contract of the cgroups.  A step makes, refuses or releases at most *)
(* one cgroup.                                                             *)

CgroupStatuses == [r \in Runs |-> CgroupStatus(r)]

StuckCgroups == {r \in Runs : << r, "rmdir" >> \in faults}

\* The cgroup of run r is as it was.
CgroupKept(r) ==
    /\ CgroupStatus(r)' = CgroupStatus(r)
    /\ r \in cgroups' <=> r \in cgroups
    /\ << r, "rmdir" >> \in faults' <=> << r, "rmdir" >> \in faults

\* What a step does to the cgroup of its own run.
CgroupMoves(r) ==
    \/ CgroupKept(r)
    \/ /\ CgroupStatus(r) = "asked" /\ CgroupStatus(r)' = "held"
       /\ r \in cgroups'
       /\ << r, "rmdir" >> \in faults' <=> << r, "rmdir" >> \in faults
    \/ /\ \/ CgroupStatus(r) = "asked" /\ CgroupStatus(r)' = "refused"
          \/ CgroupStatus(r) = "held" /\ CgroupStatus(r)' = "released"
       /\ IF r \in cgroups' THEN << r, "rmdir" >> \in faults'
          ELSE << r, "rmdir" >> \in faults' <=> << r, "rmdir" >> \in faults

\* A step of run r.
CgroupStep(r) == CgroupMoves(r) /\ \A q \in Runs \ {r} : CgroupKept(q)

\* A step that moves one cgroup is a step, or a stuttering step, of the contract.
LEMMA CgroupStepKeepsContract ==
    ASSUME TypeOK, TypeOK', NEW r \in Runs, CgroupStep(r)
    PROVE  CgroupContract!Next \/ UNCHANGED CgroupContract!contractVars
<1>1. cgroups \subseteq Runs /\ cgroups' \subseteq Runs
  BY DEF TypeOK
<1>2. CASE CgroupKept(r)
  <2>1. \A q \in Runs : CgroupKept(q)
    BY <1>2 DEF CgroupStep
  <2>2. CgroupStatuses' = CgroupStatuses /\ StuckCgroups' = StuckCgroups
    BY <2>1 DEF CgroupKept, CgroupStatuses, StuckCgroups
  <2>3. cgroups' = cgroups
    BY <1>1, <2>1 DEF CgroupKept
  <2> QED
    BY <2>2, <2>3 DEF CgroupContract!contractVars, CgroupStatuses, StuckCgroups
<1>3. \A q \in Runs \ {r} : CgroupKept(q)
  BY DEF CgroupStep
<1>4. CgroupStatuses' = [CgroupStatuses EXCEPT ![r] = CgroupStatus(r)']
  BY <1>3 DEF CgroupKept, CgroupStatuses
<1>5. CgroupStatuses[r] = CgroupStatus(r)
  BY DEF CgroupStatuses
<1>6. /\ r \in cgroups' => cgroups' = cgroups \cup {r}
      /\ r \notin cgroups' => cgroups' = cgroups \ {r}
  BY <1>1, <1>3 DEF CgroupKept
<1>7. /\ << r, "rmdir" >> \in faults' => StuckCgroups' = StuckCgroups \cup {r}
      /\ (<< r, "rmdir" >> \in faults' <=> << r, "rmdir" >> \in faults) =>
            StuckCgroups' = StuckCgroups
  BY <1>3 DEF CgroupKept, StuckCgroups
<1>8. CASE /\ CgroupStatus(r) = "asked" /\ CgroupStatus(r)' = "held"
           /\ r \in cgroups'
           /\ << r, "rmdir" >> \in faults' <=> << r, "rmdir" >> \in faults
  <2>1. CgroupContract!Make(r)
    BY <1>4, <1>5, <1>6, <1>7, <1>8
       DEF CgroupContract!Make, CgroupStatuses, StuckCgroups
  <2> QED
    BY <2>1 DEF CgroupContract!Next
<1>9. ASSUME NEW from, NEW to, CgroupStatus(r) = from, CgroupStatus(r)' = to,
             IF r \in cgroups' THEN << r, "rmdir" >> \in faults'
             ELSE << r, "rmdir" >> \in faults' <=> << r, "rmdir" >> \in faults
      PROVE  CgroupContract!End(r, from, to)
  BY <1>4, <1>5, <1>6, <1>7, <1>9 DEF CgroupContract!End, CgroupStatuses, StuckCgroups
<1>10. CASE /\ CgroupStatus(r) = "asked" /\ CgroupStatus(r)' = "refused"
            /\ IF r \in cgroups' THEN << r, "rmdir" >> \in faults'
               ELSE << r, "rmdir" >> \in faults' <=> << r, "rmdir" >> \in faults
  BY <1>9, <1>10 DEF CgroupContract!Next, CgroupContract!Refuse
<1>11. CASE /\ CgroupStatus(r) = "held" /\ CgroupStatus(r)' = "released"
            /\ IF r \in cgroups' THEN << r, "rmdir" >> \in faults'
               ELSE << r, "rmdir" >> \in faults' <=> << r, "rmdir" >> \in faults
  BY <1>9, <1>11 DEF CgroupContract!Next, CgroupContract!Release
<1> QED
  BY <1>2, <1>8, <1>10, <1>11 DEF CgroupStep, CgroupMoves

\* Every step of WorkloadRun moves at most the cgroup of its own run.
LEMMA StepsKeepCgroupContract ==
    ASSUME IInv, IInv', [Next]_vars
    PROVE  CgroupContract!Next \/ UNCHANGED CgroupContract!contractVars
<1> USE DEF IInv, TypeOK, ChildInv, CgroupInv, BeforeStart, Cleaning, Live, Dead, vars,
        hostVars, netVars, linkVars, procVars, pipeVars, Goto, Fail, Become, Fault,
        Locations, Errors, Calls, RemovalCalls, CgroupStep, CgroupMoves, CgroupKept,
        CgroupStatus
<1>1. ASSUME NEW r \in Runs, Call(r) PROVE CgroupStep(r)
  BY <1>1 DEF Call
<1>2. ASSUME NEW r \in Runs, RejectConfig(r) PROVE CgroupStep(r)
  BY <1>2 DEF RejectConfig
<1>3. ASSUME NEW r \in Runs, CreateCgroup(r) PROVE CgroupStep(r)
  BY <1>3 DEF CreateCgroup
<1>4. ASSUME NEW r \in Runs, CreateCgroupFails(r) PROVE CgroupStep(r)
  BY <1>4 DEF CreateCgroupFails
<1>5. ASSUME NEW r \in Runs, AllocateWorkloadNetwork(r) PROVE CgroupStep(r)
  BY <1>5 DEF AllocateWorkloadNetwork
<1>6. ASSUME NEW r \in Runs, LinkAdd(r) PROVE CgroupStep(r)
  BY <1>6 DEF LinkAdd
<1>7. ASSUME NEW r \in Runs, LinkAddFails(r) PROVE CgroupStep(r)
  BY <1>7 DEF LinkAddFails
<1>8. ASSUME NEW r \in Runs, LinkUp(r) PROVE CgroupStep(r)
  BY <1>8 DEF LinkUp
<1>9. ASSUME NEW r \in Runs, LinkUpFails(r) PROVE CgroupStep(r)
  BY <1>9 DEF LinkUpFails
<1>10. ASSUME NEW r \in Runs, LinkUpAndCleanupFail(r) PROVE CgroupStep(r)
  BY <1>10 DEF LinkUpAndCleanupFail
<1>11. ASSUME NEW r \in Runs, StartChild(r) PROVE CgroupStep(r)
  BY <1>11 DEF StartChild
<1>12. ASSUME NEW r \in Runs, StartChildFails(r) PROVE CgroupStep(r)
  BY <1>12 DEF StartChildFails
<1>13. ASSUME NEW r \in Runs, MoveNetworkToProcess(r) PROVE CgroupStep(r)
  BY <1>13 DEF MoveNetworkToProcess
<1>14. ASSUME NEW r \in Runs, MoveNetworkFails(r) PROVE CgroupStep(r)
  BY <1>14 DEF MoveNetworkFails
<1>15. ASSUME NEW r \in Runs, SignalReady(r) PROVE CgroupStep(r)
  BY <1>15 DEF SignalReady
<1>16. ASSUME NEW r \in Runs, SignalReadyFails(r) PROVE CgroupStep(r)
  BY <1>16 DEF SignalReadyFails
<1>17. ASSUME NEW r \in Runs, CloseWriter(r) PROVE CgroupStep(r)
  BY <1>17 DEF CloseWriter
<1>18. ASSUME NEW r \in Runs, WaitChild(r) PROVE CgroupStep(r)
  BY <1>18 DEF WaitChild
<1>19. ASSUME NEW r \in Runs, FindGuestLink(r) PROVE CgroupStep(r)
  BY <1>19 DEF FindGuestLink
<1>20. ASSUME NEW r \in Runs, GuestLinkNotFound(r) PROVE CgroupStep(r)
  BY <1>20 DEF GuestLinkNotFound
<1>21. ASSUME NEW r \in Runs, DeleteGuestLink(r) PROVE CgroupStep(r)
  BY <1>21 DEF DeleteGuestLink
<1>22. ASSUME NEW r \in Runs, DeleteGuestLinkFails(r) PROVE CgroupStep(r)
  BY <1>22 DEF DeleteGuestLinkFails
<1>23. ASSUME NEW r \in Runs, RemoveCgroup(r) PROVE CgroupStep(r)
  <2>1. /\ pc[r] = "removeCgroup" /\ pc' = [pc EXCEPT ![r] = "returned"]
        /\ failures' \in {failures, [failures EXCEPT ![r] = @ \cup {"cgroupCleanup"}]}
        /\ cgroups' \in {cgroups, cgroups \ {r}}
        /\ faults' \in {faults, faults \cup {<< r, "rmdir" >>},
                       faults \cup {<< r, "closeCgroup" >>}}
    BY <1>23 DEF RemoveCgroup
  <2>2. ASSUME NEW q \in Runs \ {r} PROVE CgroupKept(q)
    <3>1. pc'[q] = pc[q] /\ failures'[q] = failures[q]
      BY <2>1
    <3>2. /\ q \in cgroups' <=> q \in cgroups
          /\ << q, "rmdir" >> \in faults' <=> << q, "rmdir" >> \in faults
      BY <2>1
    <3> QED
      BY <3>1, <3>2
  <2>3. /\ pc[r] = "removeCgroup" /\ pc'[r] = "returned" /\ r \in cgroups
        /\ child[r] \notin Live /\ failures[r] \cap {"config", "cgroup"} = {}
    <3>1. pc[r] = "removeCgroup" /\ pc'[r] = "returned"
      BY <2>1
    <3> QED
      BY <3>1
  <2>4. failures'[r] \subseteq failures[r] \cup {"cgroupCleanup"}
    BY <1>23 DEF RemoveCgroup
  <2>5. CgroupStatus(r) = "held" /\ CgroupStatus(r)' = "released"
    BY <2>3, <2>4
  <2>6. \/ /\ cgroups' = cgroups \ {r}
           /\ faults' \in {faults, faults \cup {<< r, "closeCgroup" >>}}
        \/ cgroups' = cgroups /\ faults' = faults \cup {<< r, "rmdir" >>}
    BY <1>23, <2>3 DEF RemoveCgroup
  <2>7. IF r \in cgroups' THEN << r, "rmdir" >> \in faults'
        ELSE << r, "rmdir" >> \in faults' <=> << r, "rmdir" >> \in faults
    BY <2>3, <2>6
  <2> QED
    BY <2>2, <2>5, <2>7
<1>24. ASSUME NEW r \in Runs, CheckArguments(r) PROVE CgroupStep(r)
  BY <1>24 DEF CheckArguments
<1>25. ASSUME NEW r \in Runs, WaitForNetwork(r) PROVE CgroupStep(r)
  BY <1>25 DEF WaitForNetwork
<1>26. ASSUME NEW r \in Runs, ConfigureWorkloadNetwork(r) PROVE CgroupStep(r)
  BY <1>26 DEF ConfigureWorkloadNetwork
<1>27. ASSUME NEW r \in Runs, ExecWorkload(r) PROVE CgroupStep(r)
  BY <1>27 DEF ExecWorkload
<1>28. ASSUME NEW r \in Runs, WorkloadExits(r) PROVE CgroupStep(r)
  BY <1>28 DEF WorkloadExits
<1>29. ASSUME NEW r \in Runs, ChildFails(r) PROVE CgroupStep(r)
  BY <1>29 DEF ChildFails
<1>30. ASSUME NEW r \in Runs, DestroyNamespace(r) PROVE CgroupStep(r)
  BY <1>30 DEF DestroyNamespace
<1>31. CASE UNCHANGED vars
  BY <1>31 DEF CgroupContract!contractVars
<1> HIDE DEF IInv, ChildInv, CgroupInv, BeforeStart, Cleaning, Live, Dead, vars,
         hostVars, netVars, linkVars, procVars, pipeVars, Goto, Fail, Become, Fault,
         Locations, Errors, Calls, RemovalCalls, CgroupStep, CgroupMoves, CgroupKept,
         CgroupStatus, TypeOK
<1>32. CASE \E r \in Runs : CgroupStep(r)
  BY <1>32, CgroupStepKeepsContract DEF IInv
<1> QED
  BY <1>1, <1>2, <1>3, <1>4, <1>5, <1>6, <1>7, <1>8, <1>9, <1>10,
     <1>11, <1>12, <1>13, <1>14, <1>15, <1>16, <1>17, <1>18, <1>19, <1>20,
     <1>21, <1>22, <1>23, <1>24, <1>25, <1>26, <1>27, <1>28, <1>29, <1>30,
     <1>31, <1>32
     DEF Next, RunStep, ChildStep, AllReturned

\* WorkloadRun implements RunContract and, with its cgroups, DirectoryContract: an answer
\* of Run says what became of the workload, Run never answers while its child is alive,
\* and its cgroup is there from createCgroup to the answer.
THEOREM ContractKept == Spec => KeepsContract
<1>1. Init => Contract!Init
  BY DEF Init, Contract!Init, Phase
<1>2. IInv /\ [Next]_vars => [Contract!Next]_Phases
  BY StepsKeepContract
<1>3. Init => CgroupContract!Init
  BY DEF Init, CgroupContract!Init, CgroupStatus
<1>4. IInv /\ IInv' /\ [Next]_vars => [CgroupContract!Next]_CgroupContract!contractVars
  BY StepsKeepCgroupContract
<1>5. Spec => Contract!Spec
  BY <1>1, <1>2, Invariance, PTL DEF Spec, Contract!Spec, Phases
<1>6. Spec => CgroupContract!Spec
  BY <1>3, <1>4, Invariance, PTL DEF Spec, CgroupContract!Spec
<1> QED
  BY <1>5, <1>6 DEF KeepsContract

-----------------------------------------------------------------------------
\* Runs that have drawn a slot.
Drawn == {r \in Runs : slot[r] # NoSlot}

\* Where a run has drawn its slot, and where it has not.
DrawPlaces ==
    \A r \in Runs :
        /\ pc[r] \in {"idle", "createCgroup", "allocate"} => slot[r] = NoSlot
        /\ pc[r] \in {"linkAdd", "linkUp"} => slot[r] # NoSlot

\* Unless all slots have been drawn, the sequence counts those that have.
DrawInv ==
    /\ DrawPlaces
    /\ IsFiniteSet(Drawn)
    /\ networkSequence <= Cardinality(Drawn) \/ Cardinality(Drawn) >= MaxNetworks
    /\ NoEarlyExhaustion

\* A step that draws nothing and blames nothing on the network of a run without
\* a slot.
DrawsNothing ==
    /\ slot' = slot /\ networkSequence' = networkSequence
    /\ DrawPlaces'
    /\ \A r \in Runs :
          "network" \in failures'[r] /\ slot[r] = NoSlot => "network" \in failures[r]

\* Such a step keeps DrawInv.
LEMMA DrawsNothingKeeps ==
    ASSUME DrawInv, DrawsNothing
    PROVE  DrawInv'
<1>1. Drawn' = Drawn
  BY DEF Drawn, DrawsNothing
<1>2. NoEarlyExhaustion'
  BY <1>1 DEF DrawInv, DrawsNothing, NoEarlyExhaustion, Drawn
<1> QED
  BY <1>1, <1>2 DEF DrawInv, DrawsNothing

\* A call of Run draws a slot, or finds that all have been drawn.
LEMMA AllocateDraws ==
    ASSUME TypeOK, DrawInv, NEW r \in Runs, AllocateWorkloadNetwork(r)
    PROVE  DrawInv'
<1> USE NetworkAssumption
<1> DEFINE n == Cardinality(Drawn)
<1>1. pc[r] = "allocate" /\ slot[r] = NoSlot /\ r \notin Drawn
  BY DEF AllocateWorkloadNetwork, DrawInv, DrawPlaces, Drawn
<1>2. IsFiniteSet(Drawn) /\ n \in Nat
  BY FS_CardinalityType DEF DrawInv
<1>3. networkSequence \in Nat /\ networkSequence' \in 0 .. networkSequence + 1
  BY NextSequenceValue DEF TypeOK, AllocateWorkloadNetwork
<1>4. CASE IsSlot(networkSequence)
  <2>1. /\ slot' = [slot EXCEPT ![r] = networkSequence] /\ networkSequence # NoSlot
        /\ pc' = [pc EXCEPT ![r] = "linkAdd"] /\ UNCHANGED failures
    BY <1>3, <1>4 DEF AllocateWorkloadNetwork, Goto, NoSlot
  <2>2. Drawn' = Drawn \cup {r}
    BY <2>1 DEF Drawn, TypeOK
  <2>3. IsFiniteSet(Drawn') /\ Cardinality(Drawn') = n + 1
    BY <1>1, <1>2, <2>2, FS_AddElement
  <2>4. networkSequence <= n \/ n >= MaxNetworks
    BY DEF DrawInv
  <2>5. networkSequence' <= Cardinality(Drawn') \/ Cardinality(Drawn') >= MaxNetworks
    BY <1>2, <1>3, <2>3, <2>4
  <2>6. DrawPlaces'
    BY <2>1 DEF DrawInv, DrawPlaces, TypeOK
  <2>7. ASSUME NEW q \in Runs, "network" \in failures'[q], slot'[q] = NoSlot
        PROVE  Cardinality(Drawn') >= MaxNetworks
    <3>1. "network" \in failures[q] /\ slot[q] = NoSlot
      BY <2>1, <2>7 DEF TypeOK
    <3>2. n >= MaxNetworks
      BY <3>1 DEF DrawInv, NoEarlyExhaustion, Drawn
    <3> QED
      BY <1>2, <2>3, <3>2
  <2> QED
    BY <2>3, <2>5, <2>6, <2>7 DEF DrawInv, NoEarlyExhaustion, Drawn
<1>5. CASE ~IsSlot(networkSequence)
  <2>1. UNCHANGED slot /\ pc' = [pc EXCEPT ![r] = "removeCgroup"]
    BY <1>5 DEF AllocateWorkloadNetwork, Goto
  <2>2. Drawn' = Drawn
    BY <2>1 DEF Drawn
  <2>3. networkSequence <= n \/ n >= MaxNetworks
    BY DEF DrawInv
  <2>4. n >= MaxNetworks
    BY <1>2, <1>3, <1>5, <2>3 DEF IsSlot
  <2>5. DrawPlaces'
    BY <2>1 DEF DrawInv, DrawPlaces, TypeOK
  <2> QED
    BY <1>2, <2>2, <2>4, <2>5 DEF DrawInv, NoEarlyExhaustion, Drawn
<1> QED
  BY <1>4, <1>5

\* Every step keeps DrawInv.
LEMMA DrawPreserved ==
    ASSUME TypeOK, DrawInv, [Next]_vars
    PROVE  DrawInv'
<1>0. DrawPlaces
  BY DEF DrawInv
<1> USE <1>0 DEF TypeOK, DrawPlaces, DrawsNothing, vars, hostVars, netVars, linkVars,
        procVars, pipeVars, Goto, Fail
<1>1. ASSUME NEW r \in Runs, Call(r) PROVE DrawsNothing
  BY <1>1 DEF Call
<1>2. ASSUME NEW r \in Runs, RejectConfig(r) PROVE DrawsNothing
  BY <1>2 DEF RejectConfig
<1>3. ASSUME NEW r \in Runs, CreateCgroup(r) PROVE DrawsNothing
  BY <1>3 DEF CreateCgroup
<1>4. ASSUME NEW r \in Runs, CreateCgroupFails(r) PROVE DrawsNothing
  BY <1>4 DEF CreateCgroupFails
<1>5. ASSUME NEW r \in Runs, AllocateWorkloadNetwork(r) PROVE DrawInv'
  BY <1>5, AllocateDraws
<1>6. ASSUME NEW r \in Runs, LinkAdd(r) PROVE DrawsNothing
  BY <1>6 DEF LinkAdd
<1>7. ASSUME NEW r \in Runs, LinkAddFails(r) PROVE DrawsNothing
  BY <1>7 DEF LinkAddFails
<1>8. ASSUME NEW r \in Runs, LinkUp(r) PROVE DrawsNothing
  BY <1>8 DEF LinkUp
<1>9. ASSUME NEW r \in Runs, LinkUpFails(r) PROVE DrawsNothing
  BY <1>9 DEF LinkUpFails
<1>10. ASSUME NEW r \in Runs, LinkUpAndCleanupFail(r) PROVE DrawsNothing
  BY <1>10 DEF LinkUpAndCleanupFail
<1>11. ASSUME NEW r \in Runs, StartChild(r) PROVE DrawsNothing
  BY <1>11 DEF StartChild
<1>12. ASSUME NEW r \in Runs, StartChildFails(r) PROVE DrawsNothing
  BY <1>12 DEF StartChildFails
<1>13. ASSUME NEW r \in Runs, MoveNetworkToProcess(r) PROVE DrawsNothing
  BY <1>13 DEF CanMove, MoveNetworkToProcess
<1>14. ASSUME NEW r \in Runs, MoveNetworkFails(r) PROVE DrawsNothing
  BY <1>14 DEF CloseUnsignalled, MoveNetworkFails
<1>15. ASSUME NEW r \in Runs, SignalReady(r) PROVE DrawsNothing
  BY <1>15 DEF SignalReady
<1>16. ASSUME NEW r \in Runs, SignalReadyFails(r) PROVE DrawsNothing
  BY <1>16 DEF CloseUnsignalled, SignalReadyFails
<1>17. ASSUME NEW r \in Runs, CloseWriter(r) PROVE DrawsNothing
  BY <1>17 DEF CloseWriter
<1>18. ASSUME NEW r \in Runs, WaitChild(r) PROVE DrawsNothing
  BY <1>18 DEF WaitChild
<1>19. ASSUME NEW r \in Runs, FindGuestLink(r) PROVE DrawsNothing
  BY <1>19 DEF FindGuestLink
<1>20. ASSUME NEW r \in Runs, GuestLinkNotFound(r) PROVE DrawsNothing
  BY <1>20 DEF GuestLinkNotFound
<1>21. ASSUME NEW r \in Runs, DeleteGuestLink(r) PROVE DrawsNothing
  BY <1>21 DEF DeleteGuestLink
<1>22. ASSUME NEW r \in Runs, DeleteGuestLinkFails(r) PROVE DrawsNothing
  BY <1>22 DEF DeleteGuestLinkFails
<1>23. ASSUME NEW r \in Runs, RemoveCgroup(r) PROVE DrawsNothing
  BY <1>23 DEF RemoveCgroup
<1>24. ASSUME NEW r \in Runs, CheckArguments(r) PROVE DrawsNothing
  BY <1>24 DEF CheckArguments
<1>25. ASSUME NEW r \in Runs, WaitForNetwork(r) PROVE DrawsNothing
  BY <1>25 DEF WaitForNetwork
<1>26. ASSUME NEW r \in Runs, ConfigureWorkloadNetwork(r) PROVE DrawsNothing
  BY <1>26 DEF ConfigureWorkloadNetwork
<1>27. ASSUME NEW r \in Runs, ExecWorkload(r) PROVE DrawsNothing
  BY <1>27 DEF ExecWorkload
<1>28. ASSUME NEW r \in Runs, WorkloadExits(r) PROVE DrawsNothing
  BY <1>28 DEF WorkloadExits
<1>29. ASSUME NEW r \in Runs, ChildFails(r) PROVE DrawsNothing
  BY <1>29 DEF ChildFails
<1>30. ASSUME NEW r \in Runs, DestroyNamespace(r) PROVE DrawsNothing
  BY <1>30 DEF DestroyNamespace
<1>31. ASSUME UNCHANGED vars PROVE DrawsNothing
  BY <1>31
<1> QED
  BY <1>1, <1>2, <1>3, <1>4, <1>5, <1>6, <1>7, <1>8, <1>9, <1>10, <1>11,
     <1>12, <1>13, <1>14, <1>15, <1>16, <1>17, <1>18, <1>19, <1>20, <1>21, <1>22,
     <1>23, <1>24, <1>25, <1>26, <1>27, <1>28, <1>29, <1>30, <1>31, DrawsNothingKeeps
     DEF Next, RunStep, ChildStep, AllReturned

\* Run is refused for want of a slot only when all slots have been drawn: whatever
\* else fails, a call uses up one slot at most, also when the sequence wraps.
THEOREM SlotsLast == Spec => []NoEarlyExhaustion
<1>1. Init => DrawInv
  <2> SUFFICES ASSUME Init PROVE DrawInv
    OBVIOUS
  <2>1. Drawn = {}
    BY DEF Init, Drawn
  <2>2. IsFiniteSet(Drawn) /\ Cardinality(Drawn) = 0
    BY <2>1, FS_EmptySet
  <2>3. networkSequence = 0
    BY DEF Init
  <2>4. DrawPlaces /\ NoEarlyExhaustion
    BY DEF Init, DrawPlaces, NoEarlyExhaustion
  <2> QED
    BY <2>2, <2>3, <2>4 DEF DrawInv
<1>2. TypeOK /\ DrawInv /\ [Next]_vars => DrawInv'
  BY DrawPreserved
<1>3. DrawInv => NoEarlyExhaustion
  BY DEF DrawInv
<1> QED
  BY <1>1, <1>2, <1>3, TypeCorrect, PTL DEF Spec

\* Whatever slot a run draws, its addresses are well-formed, and no other slot has its
\* block or its name.
THEOREM SlotsAreSound == Spec => []DrawnSlotsAreSound
<1>1. TypeOK => DrawnSlotsAreSound
  <2> SUFFICES ASSUME TypeOK, NEW r \in Runs, slot[r] # NoSlot
               PROVE  slot[r] \in WellFormedSlots
    BY PlanIsSound DEF DrawnSlotsAreSound
  <2>1. slot[r] \in 0 .. MaxNetworks - 1
    BY DEF TypeOK
  <2>2. MaxWorkloadNetworks \in Nat
    BY DEF MaxWorkloadNetworks
  <2>3. slot[r] \in Slot
    BY <2>1, <2>2, NetworkAssumption DEF Slot
  <2> QED
    BY <2>3, PlanWellFormedForAllSlots DEF WellFormedSlots
<1> QED
  BY <1>1, TypeCorrect, PTL

\* Nothing of a run outlives it but what a failed call of the cleanup has left, for
\* any number of runs, slots and faults, also when the sequence wraps.
THEOREM CleanupIsComplete == Spec => []CleanupComplete
<1>1. NothingSurvivesReturn /\ LeakNeedsCleanupFault => CleanupComplete
  BY DEF CleanupComplete
<1> QED
  BY <1>1, NothingSurvives, OnlyCleanupFaultsLeak, PTL
=============================================================================
