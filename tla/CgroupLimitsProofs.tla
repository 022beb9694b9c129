--------------------------- MODULE CgroupLimitsProofs ---------------------------
(***************************************************************************)
(* Proofs about CgroupLimits, for any limits, page size, bounds and number *)
(* of failing calls.                                                       *)
(*                                                                         *)
(* LimitsInForce is not inductive: the invariant adds that a directory can *)
(* only be made where every controller is enabled (SetupInv), and that     *)
(* every file but the pending ones has the value asked for (WrittenInv).   *)
(* RefusalHasCause needs what stands in a file that is being read back     *)
(* (CauseInv), and that the kernel keeps whole pages as they are.          *)
(***************************************************************************)
EXTENDS CgroupLimits, TLAPS

\* The agent has enabled every controller before it runs anything.
SetupInv ==
    /\ step \in Steps
    /\ enabled \in [{"root", "kernlet"} -> {{}, Controllers}]
    /\ step \notin {"enableRoot", "mkdirKernlet", "enableKernlet", "panicked"} =>
          enabled["kernlet"] = Controllers

\* When the directory exists, and that it has every file.
DirectoryInv ==
    /\ step \notin {"write", "verify", "cleanup", "ready", "refused"} => dir = Absent
    /\ step \in {"write", "verify", "cleanup", "ready"} => DOMAIN dir = Controllers
    /\ dir # Absent => DOMAIN dir = Controllers

\* What has been written and verified.
WrittenInv ==
    /\ pending \subseteq Controllers
    /\ step = "verify" => current \in pending
    /\ step = "ready" => pending = {}
    /\ step \in {"write", "verify", "ready"} =>
          \A file \in Controllers \ pending : dir[file] = Wanted(request)[file]

\* The rest of the types.
ValueInv ==
    /\ offered \subseteq Controllers \cup {"io"}
    /\ request \in Requests
    /\ current \in Controllers \cup {"none"}
    /\ \A file \in DOMAIN dir : dir[file] \in {Unlimited[file], Kept(request, file)}

\* What the kernel can keep as it is asked for and the code does not reject.
Acceptable(l) == Representable(l) /\ l.memory > 0 /\ l.pids > 0

\* What is true on the way to a refusal: the controllers that kernlet can be given,
\* the file that is read back, and that nothing so far has been refused for nothing.
CauseInv ==
    /\ step \in {"mkdirKernlet", "enableKernlet"} => enabled["root"] = Controllers
    /\ step = "verify" => dir[current] = Kept(request, current)
    /\ RefusalHasCause

IInv == SetupInv /\ DirectoryInv /\ WrittenInv /\ ValueInv /\ NoDirectoryLeft /\ CauseInv

-----------------------------------------------------------------------------
\* The directory of nothing has no files.
LEMMA AbsentIsEmpty == DOMAIN Absent = {}
  BY DEF Absent

\* Every step keeps the order of the set-up.
LEMMA SetupPreserved ==
    ASSUME SetupInv, [Next]_vars
    PROVE  SetupInv'
<1> USE RequestsAssumption DEF SetupInv, Steps, vars
<1>1. ASSUME EnableControllers("root", "enableRoot", "mkdirKernlet") PROVE SetupInv'
  BY <1>1 DEF EnableControllers, Offers, Fails, Fault
<1>2. ASSUME MkdirKernlet PROVE SetupInv'
  BY <1>2 DEF MkdirKernlet, Fault
<1>3. ASSUME EnableControllers("kernlet", "enableKernlet", "idle") PROVE SetupInv'
  BY <1>3 DEF EnableControllers, Offers, Fails, Fault
<1>4. ASSUME ValidateLimits PROVE SetupInv'
  BY <1>4 DEF ValidateLimits
<1>5. ASSUME MakeDirectory PROVE SetupInv'
  BY <1>5 DEF MakeDirectory, Fault
<1>6. ASSUME NEW file \in Controllers, WriteLimit(file) PROVE SetupInv'
  BY <1>6 DEF WriteLimit, Fails, Fault
<1>7. ASSUME VerifyLimit PROVE SetupInv'
  BY <1>7 DEF VerifyLimit, Verified, Fails, Fault
<1>8. ASSUME OpenDirectory PROVE SetupInv'
  BY <1>8 DEF OpenDirectory, Fault
<1>9. ASSUME Cleanup PROVE SetupInv'
  BY <1>9 DEF Cleanup, Fault
<1>10. CASE UNCHANGED vars
  BY <1>10
<1> QED
  BY <1>1, <1>2, <1>3, <1>4, <1>5, <1>6, <1>7, <1>8, <1>9, <1>10
  DEF Next, SetupCgroups, CreateCgroup

\* A directory is made with every file, and kept until the clean-up.
LEMMA DirectoryPreserved ==
    ASSUME SetupInv, DirectoryInv, [Next]_vars
    PROVE  DirectoryInv'
<1> USE RequestsAssumption, AbsentIsEmpty DEF SetupInv, DirectoryInv, Steps, vars
<1>1. ASSUME EnableControllers("root", "enableRoot", "mkdirKernlet") PROVE DirectoryInv'
  BY <1>1 DEF EnableControllers, Offers, Fails, Fault
<1>2. ASSUME MkdirKernlet PROVE DirectoryInv'
  BY <1>2 DEF MkdirKernlet, Fault
<1>3. ASSUME EnableControllers("kernlet", "enableKernlet", "idle") PROVE DirectoryInv'
  BY <1>3 DEF EnableControllers, Offers, Fails, Fault
<1>4. ASSUME ValidateLimits PROVE DirectoryInv'
  BY <1>4 DEF ValidateLimits
<1>5. ASSUME MakeDirectory PROVE DirectoryInv'
  BY <1>5 DEF MakeDirectory, Fault
<1>6. ASSUME NEW file \in Controllers, WriteLimit(file) PROVE DirectoryInv'
  BY <1>6 DEF WriteLimit, Fails, Fault
<1>7. ASSUME VerifyLimit PROVE DirectoryInv'
  BY <1>7 DEF VerifyLimit, Verified, Fails, Fault
<1>8. ASSUME OpenDirectory PROVE DirectoryInv'
  BY <1>8 DEF OpenDirectory, Fault
<1>9. ASSUME Cleanup PROVE DirectoryInv'
  BY <1>9 DEF Cleanup, Fault
<1>10. CASE UNCHANGED vars
  BY <1>10
<1> QED
  BY <1>1, <1>2, <1>3, <1>4, <1>5, <1>6, <1>7, <1>8, <1>9, <1>10
  DEF Next, SetupCgroups, CreateCgroup

\* A file leaves the pending ones with the value asked for, and keeps it.
LEMMA WrittenPreserved ==
    ASSUME SetupInv, DirectoryInv, WrittenInv, [Next]_vars
    PROVE  WrittenInv'
<1> USE RequestsAssumption DEF SetupInv, DirectoryInv, WrittenInv, Steps, vars
<1>1. ASSUME EnableControllers("root", "enableRoot", "mkdirKernlet") PROVE WrittenInv'
  BY <1>1 DEF EnableControllers, Offers, Fails, Fault
<1>2. ASSUME MkdirKernlet PROVE WrittenInv'
  BY <1>2 DEF MkdirKernlet, Fault
<1>3. ASSUME EnableControllers("kernlet", "enableKernlet", "idle") PROVE WrittenInv'
  BY <1>3 DEF EnableControllers, Offers, Fails, Fault
<1>4. ASSUME ValidateLimits PROVE WrittenInv'
  BY <1>4 DEF ValidateLimits
<1>5. ASSUME MakeDirectory PROVE WrittenInv'
  BY <1>5 DEF MakeDirectory, Fault
<1>6. ASSUME NEW file \in Controllers, WriteLimit(file) PROVE WrittenInv'
  BY <1>6 DEF WriteLimit, Fails, Fault
<1>7. ASSUME VerifyLimit PROVE WrittenInv'
  BY <1>7 DEF VerifyLimit, Verified, Fails, Fault
<1>8. ASSUME OpenDirectory PROVE WrittenInv'
  BY <1>8 DEF OpenDirectory, Fault
<1>9. ASSUME Cleanup PROVE WrittenInv'
  BY <1>9 DEF Cleanup, Fault
<1>10. CASE UNCHANGED vars
  BY <1>10
<1> QED
  BY <1>1, <1>2, <1>3, <1>4, <1>5, <1>6, <1>7, <1>8, <1>9, <1>10
  DEF Next, SetupCgroups, CreateCgroup

\* A file holds no limit or what the kernel makes of the one asked for.
LEMMA ValuePreserved ==
    ASSUME ValueInv, [Next]_vars
    PROVE  ValueInv'
<1> USE RequestsAssumption DEF ValueInv, vars
<1>1. ASSUME EnableControllers("root", "enableRoot", "mkdirKernlet") PROVE ValueInv'
  BY <1>1 DEF EnableControllers, Offers, Fails, Fault
<1>2. ASSUME MkdirKernlet PROVE ValueInv'
  BY <1>2 DEF MkdirKernlet, Fault
<1>3. ASSUME EnableControllers("kernlet", "enableKernlet", "idle") PROVE ValueInv'
  BY <1>3 DEF EnableControllers, Offers, Fails, Fault
<1>4. ASSUME ValidateLimits PROVE ValueInv'
  BY <1>4 DEF ValidateLimits
<1>5. ASSUME MakeDirectory PROVE ValueInv'
  <2>1. dir' = dir \/ dir' = [file \in enabled["kernlet"] |-> Unlimited[file]]
    BY <1>5 DEF MakeDirectory, Fault
  <2>2. \A file \in DOMAIN dir' : dir'[file] \in {Unlimited[file], Kept(request, file)}
    BY <2>1
  <2>3. request' = request /\ offered' = offered /\ current' = current
    BY <1>5 DEF MakeDirectory
  <2> QED
    BY <2>2, <2>3
<1>6. ASSUME NEW file \in Controllers, WriteLimit(file) PROVE ValueInv'
  BY <1>6 DEF WriteLimit, Fails, Fault
<1>7. ASSUME VerifyLimit PROVE ValueInv'
  BY <1>7 DEF VerifyLimit, Verified, Fails, Fault
<1>8. ASSUME OpenDirectory PROVE ValueInv'
  BY <1>8 DEF OpenDirectory, Fault
<1>9. ASSUME Cleanup PROVE ValueInv'
  <2>1. dir' = dir \/ dir' = Absent
    BY <1>9 DEF Cleanup
  <2>2. request' = request /\ offered' = offered /\ current' = current
    BY <1>9 DEF Cleanup
  <2> QED
    BY <2>1, <2>2, AbsentIsEmpty
<1>10. CASE UNCHANGED vars
  BY <1>10
<1> QED
  BY <1>1, <1>2, <1>3, <1>4, <1>5, <1>6, <1>7, <1>8, <1>9, <1>10
  DEF Next, SetupCgroups, CreateCgroup

\* Only a failing removal leaves a directory.
LEMMA NothingLeftPreserved ==
    ASSUME DirectoryInv, NoDirectoryLeft, [Next]_vars
    PROVE  NoDirectoryLeft'
<1> USE RequestsAssumption DEF DirectoryInv, NoDirectoryLeft, vars
<1>1. ASSUME EnableControllers("root", "enableRoot", "mkdirKernlet") PROVE NoDirectoryLeft'
  BY <1>1 DEF EnableControllers, Offers, Fails, Fault
<1>2. ASSUME MkdirKernlet PROVE NoDirectoryLeft'
  BY <1>2 DEF MkdirKernlet, Fault
<1>3. ASSUME EnableControllers("kernlet", "enableKernlet", "idle") PROVE NoDirectoryLeft'
  BY <1>3 DEF EnableControllers, Offers, Fails, Fault
<1>4. ASSUME ValidateLimits PROVE NoDirectoryLeft'
  BY <1>4 DEF ValidateLimits
<1>5. ASSUME MakeDirectory PROVE NoDirectoryLeft'
  BY <1>5 DEF MakeDirectory, Fault
<1>6. ASSUME NEW file \in Controllers, WriteLimit(file) PROVE NoDirectoryLeft'
  BY <1>6 DEF WriteLimit, Fails, Fault
<1>7. ASSUME VerifyLimit PROVE NoDirectoryLeft'
  BY <1>7 DEF VerifyLimit, Verified, Fails, Fault
<1>8. ASSUME OpenDirectory PROVE NoDirectoryLeft'
  BY <1>8 DEF OpenDirectory, Fault
<1>9. ASSUME Cleanup PROVE NoDirectoryLeft'
  BY <1>9 DEF Cleanup, Fault
<1>10. CASE UNCHANGED vars
  BY <1>10
<1> QED
  BY <1>1, <1>2, <1>3, <1>4, <1>5, <1>6, <1>7, <1>8, <1>9, <1>10
  DEF Next, SetupCgroups, CreateCgroup

\* A value that the kernel can keep comes back as it was written.
LEMMA KeptAsWritten ==
    ASSUME NEW l \in Requests, Representable(l), NEW file \in Controllers
    PROVE  Kept(l, file) = Wanted(l)[file]
<1>1. PageSize \in Nat \ {0} /\ l.memory \in Nat /\ MaxMemory \in Nat
  BY RequestsAssumption, KernelAssumption
<1>2. l.memory % PageSize = 0 /\ l.memory < MaxMemory
  BY DEF Representable
<1>3. (l.memory \div PageSize) * PageSize = l.memory
  BY <1>1, <1>2
<1>4. Kept(l, "memory") = << l.memory >>
  BY <1>1, <1>2, <1>3 DEF Kept
<1> QED
  BY <1>4 DEF Kept, Wanted, Controllers

\* The code rejects nothing that is acceptable.
LEMMA AcceptableIsValid ==
    ASSUME NEW l \in Requests, Acceptable(l)
    PROVE  ValidLimits(l)
<1>1. Takes(l, "cpu")
  BY DEF Acceptable, Representable, Controllers
<1>2. l.quota >= MinTime /\ l.period \in MinTime .. MaxTime
  BY <1>1 DEF Takes
<1> QED
  BY <1>2, RequestsAssumption, KernelAssumption DEF ValidLimits, Acceptable

\* Without a fault a call fails only because it cannot work.
LEMMA FailureHasCause ==
    ASSUME NEW works, NEW call, Fails(works, call), faults' = {}
    PROVE  ~works /\ faults = {}
  BY DEF Fails, Fault

\* Whatever fails without a fault cannot work.
LEMMA CausePreserved ==
    ASSUME SetupInv, DirectoryInv, WrittenInv, ValueInv, CauseInv, [Next]_vars
    PROVE  CauseInv'
<1> USE DEF CauseInv, RefusalHasCause
<1>1. request' = request /\ offered' = offered /\ request \in Requests
  BY DEF ValueInv, Next, SetupCgroups, EnableControllers, MkdirKernlet, ValidateLimits,
         CreateCgroup, MakeDirectory, WriteLimit, VerifyLimit, OpenDirectory, Cleanup, vars
<1>2. ASSUME EnableControllers("root", "enableRoot", "mkdirKernlet") PROVE CauseInv'
  <2>1. step' = "panicked" /\ faults' = {} => ~(Controllers \subseteq offered)
    BY <1>2, FailureHasCause DEF EnableControllers, Offers
  <2>2. step' = "mkdirKernlet" => enabled'["root"] = Controllers
    BY <1>2 DEF EnableControllers, SetupInv
  <2> QED
    BY <1>1, <1>2, <2>1, <2>2 DEF EnableControllers
<1>3. ASSUME MkdirKernlet PROVE CauseInv'
  BY <1>1, <1>3 DEF MkdirKernlet, Fault
<1>4. ASSUME EnableControllers("kernlet", "enableKernlet", "idle") PROVE CauseInv'
  <2>1. step' = "panicked" => faults' # {}
    BY <1>4, FailureHasCause DEF EnableControllers, Offers
  <2> QED
    BY <1>1, <1>4, <2>1 DEF EnableControllers
<1>5. ASSUME ValidateLimits PROVE CauseInv'
  BY <1>1, <1>5, AcceptableIsValid DEF ValidateLimits, Acceptable
<1>6. ASSUME MakeDirectory PROVE CauseInv'
  BY <1>1, <1>6 DEF MakeDirectory, Fault
<1>7. ASSUME NEW file \in Controllers, WriteLimit(file) PROVE CauseInv'
  <2>1. step' = "verify" => dir'[current'] = Kept(request', current')
    BY <1>1, <1>7 DEF WriteLimit, DirectoryInv
  <2>2. step' = "cleanup" /\ faults' = {} => ~Representable(request)
    BY <1>7, FailureHasCause DEF WriteLimit, DirectoryInv, Representable
  <2> QED
    BY <1>1, <1>7, <2>1, <2>2 DEF WriteLimit, Representable
<1>8. ASSUME VerifyLimit PROVE CauseInv'
  <2>1. step = "verify" /\ current \in Controllers
    BY <1>8 DEF VerifyLimit, WrittenInv
  <2>2. Representable(request) => Verified
    BY <1>1, <2>1, KeptAsWritten DEF Verified
  <2>3. step' = "cleanup" /\ faults' = {} => ~Representable(request)
    BY <1>8, <2>2, FailureHasCause DEF VerifyLimit
  <2> QED
    BY <1>1, <1>8, <2>3 DEF VerifyLimit, Representable
<1>9. ASSUME OpenDirectory PROVE CauseInv'
  BY <1>1, <1>9 DEF OpenDirectory, Fault
<1>10. ASSUME Cleanup PROVE CauseInv'
  BY <1>1, <1>10 DEF Cleanup, Fault, Representable
<1>11. CASE UNCHANGED vars
  BY <1>11 DEF vars, Kept, Representable
<1> QED
  BY <1>2, <1>3, <1>4, <1>5, <1>6, <1>7, <1>8, <1>9, <1>10, <1>11
  DEF Next, SetupCgroups, CreateCgroup

-----------------------------------------------------------------------------
\* The invariant holds at the beginning.
LEMMA Initially == Init => IInv
<1> SUFFICES ASSUME Init PROVE IInv
  OBVIOUS
<1>1. SetupInv
  BY DEF Init, SetupInv, Steps
<1>2. DirectoryInv /\ WrittenInv /\ NoDirectoryLeft
  BY DEF Init, DirectoryInv, WrittenInv, NoDirectoryLeft
<1>3. ValueInv
  BY AbsentIsEmpty DEF Init, ValueInv
<1>4. CauseInv
  BY DEF Init, CauseInv, RefusalHasCause
<1> QED
  BY <1>1, <1>2, <1>3, <1>4 DEF IInv

\* It is inductive.
LEMMA Invariance == Spec => []IInv
<1>1. IInv /\ [Next]_vars => IInv'
  BY SetupPreserved, DirectoryPreserved, WrittenPreserved, ValuePreserved,
     NothingLeftPreserved, CausePreserved DEF IInv
<1> QED
  BY Initially, <1>1, PTL DEF Spec

\* Every variable has its type, and a file of the directory holds no limit or what
\* the kernel makes of the limit asked for.
THEOREM TypeCorrect == Spec => []TypeOK
<1>1. IInv => TypeOK
  BY DEF IInv, SetupInv, DirectoryInv, WrittenInv, ValueInv, TypeOK
<1> QED
  BY <1>1, Invariance, PTL

\* A directory handed to the child has every limit exactly as it was asked for,
\* whatever the kernel rounds, refuses or does not offer, in every order of the
\* files (run_linux.go:365-417).
THEOREM ReadyIsLimited == Spec => []LimitsInForce
<1>1. IInv => LimitsInForce
  BY DEF IInv, DirectoryInv, WrittenInv, LimitsInForce
<1> QED
  BY <1>1, Invariance, PTL

\* A refused run leaves no directory unless the removal failed.
THEOREM RefusalCleansUp == Spec => []NoDirectoryLeft
<1>1. IInv => NoDirectoryLeft
  BY DEF IInv
<1> QED
  BY <1>1, Invariance, PTL

\* Nothing is refused without a reason: without a fault the agent panics only for
\* controllers that the kernel does not offer, and a run is refused only for a limit of
\* zero or one that the kernel cannot keep as it is (run_linux.go:340-364, 419-437).
THEOREM RefusalsHaveCause == Spec => []RefusalHasCause
<1>1. IInv => RefusalHasCause
  BY DEF IInv, CauseInv
<1> QED
  BY <1>1, Invariance, PTL

-----------------------------------------------------------------------------
(* The workload's directory keeps the contract of a directory.             *)

\* The removal has failed.
Stuck == "Remove" \in faults

\* The directory is finished, or given up, or nothing that the contract sees happens.
LEMMA DirectoryMoves ==
    ASSUME IInv, Next
    PROVE  \/ DirStatus = "asked" /\ DirStatus' = "asked" /\ Stuck' = Stuck
           \/ /\ DirStatus = "asked" /\ DirStatus' = "held" /\ dir' # Absent /\ Stuck' = Stuck
           \/ /\ DirStatus = "asked" /\ DirStatus' = "refused"
              /\ IF dir' # Absent THEN Stuck' ELSE Stuck' = Stuck
<1> USE DEF IInv, DirectoryInv, DirStatus, Stuck
<1>1. CASE SetupCgroups
  BY <1>1 DEF SetupCgroups, EnableControllers, MkdirKernlet, Fails, Fault
<1>2. CASE ValidateLimits
  BY <1>2 DEF ValidateLimits
<1>3. CASE MakeDirectory
  BY <1>3 DEF MakeDirectory, Fault
<1>4. ASSUME NEW file \in Controllers, WriteLimit(file)
      PROVE  DirStatus = "asked" /\ DirStatus' = "asked" /\ Stuck' = Stuck
  BY <1>4 DEF WriteLimit, Fails, Fault
<1>5. CASE VerifyLimit
  BY <1>5 DEF VerifyLimit, Fails, Fault
<1>6. CASE OpenDirectory
  <2>1. dir' = dir /\ dir # Absent
    BY <1>6, AbsentIsEmpty DEF OpenDirectory, Controllers
  <2>2. \/ step' = "ready" /\ faults' = faults
        \/ step' = "cleanup" /\ faults' = faults \cup {"Open"}
    BY <1>6 DEF OpenDirectory, Fault
  <2> QED
    BY <1>6, <2>1, <2>2 DEF OpenDirectory
<1>7. CASE Cleanup
  <2>1. dir # Absent
    BY <1>7, AbsentIsEmpty DEF Cleanup, Controllers
  <2> QED
    BY <1>7, <2>1 DEF Cleanup, Fault
<1> QED
  BY <1>1, <1>2, <1>3, <1>4, <1>5, <1>6, <1>7 DEF Next, CreateCgroup

\* What DirectoryMoves allows is a step of the contract or none.
LEMMA StepKeepsContract ==
    ASSUME IInv, Next
    PROVE  Contract!Next \/ UNCHANGED Contract!contractVars
<1> DEFINE status == [d \in {"workload"} |-> DirStatus]
           existing == {d \in {"workload"} : dir # Absent /\ DirStatus # "asked"}
           stuck == {d \in {"workload"} : "Remove" \in faults}
<1>1. CASE DirStatus = "asked" /\ DirStatus' = "asked" /\ Stuck' = Stuck
  <2>1. status' = status /\ existing' = existing /\ stuck' = stuck
    BY <1>1 DEF Stuck
  <2> QED
    BY <2>1 DEF Contract!contractVars
<1>2. CASE DirStatus = "asked" /\ DirStatus' = "held" /\ dir' # Absent /\ Stuck' = Stuck
  <2>1. status["workload"] = "asked" /\ status' = [status EXCEPT !["workload"] = "held"]
    BY <1>2
  <2>2. existing' = existing \cup {"workload"} /\ stuck' = stuck
    BY <1>2 DEF Stuck
  <2>3. Contract!Make("workload")
    BY <2>1, <2>2 DEF Contract!Make
  <2> QED
    BY <2>3 DEF Contract!Next
<1>3. CASE /\ DirStatus = "asked" /\ DirStatus' = "refused"
           /\ IF dir' # Absent THEN Stuck' ELSE Stuck' = Stuck
  <2>1. status["workload"] = "asked" /\ status' = [status EXCEPT !["workload"] = "refused"]
    BY <1>3
  <2>2. \/ existing' = existing \ {"workload"} /\ stuck' = stuck
        \/ existing' = existing \cup {"workload"} /\ stuck' = stuck \cup {"workload"}
    <3>1. CASE dir' # Absent
      BY <1>3, <3>1 DEF Stuck
    <3>2. CASE dir' = Absent
      BY <1>3, <3>2 DEF Stuck
    <3> QED
      BY <3>1, <3>2
  <2>3. Contract!Refuse("workload")
    BY <2>1, <2>2 DEF Contract!Refuse, Contract!End
  <2> QED
    BY <2>3 DEF Contract!Next
<1> QED
  BY <1>1, <1>2, <1>3, DirectoryMoves

\* createCgroup keeps the contract of a directory: one that is complete, or an error and
\* none, unless the removal failed.
THEOREM ContractKept == Spec => KeepsContract
<1>1. Init => Contract!Init
  BY DEF Init, Contract!Init, DirStatus
<1>2. IInv /\ [Next]_vars => [Contract!Next]_Contract!contractVars
  <2> SUFFICES ASSUME IInv, [Next]_vars
               PROVE  Contract!Next \/ UNCHANGED Contract!contractVars
    OBVIOUS
  <2>1. CASE Next
    BY <2>1, StepKeepsContract
  <2>2. CASE UNCHANGED vars
    BY <2>2 DEF vars, Contract!contractVars, DirStatus
  <2> QED
    BY <2>1, <2>2
<1> QED
  BY <1>1, <1>2, Invariance, PTL DEF Spec, KeepsContract, Contract!Spec
=============================================================================
