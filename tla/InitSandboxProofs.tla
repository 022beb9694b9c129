---------------------------- MODULE InitSandboxProofs ----------------------------
(***************************************************************************)
(* Proofs about InitSandbox, for any number of threads and capabilities.   *)
(*                                                                         *)
(* The inductive invariant says for each place of the sequence what the    *)
(* calls before it have achieved: IInv is TypeOK with the goroutine's tie  *)
(* to its thread, the credentials of that thread, and the mounts.          *)
(***************************************************************************)
EXTENDS InitSandbox, TLAPS

\* The places from one call to the workload.
FromExec == {"exec", "workload"}
FromCapset == FromExec \cup {"capset"}
FromSetresuid == FromCapset \cup {"setresuid"}
FromSetresgid == FromSetresuid \cup {"setresgid"}
FromSetgroups == FromSetresgid \cup {"setgroups"}
FromReadLastCap == FromSetgroups \cup {"readLastCap", "dropBounding"}
FromNoNewPrivs == FromReadLastCap \cup {"noNewPrivs"}
FromChdirWork == FromNoNewPrivs \cup {"chdirWork"}
FromMountProc == FromChdirWork \cup {"mountProc"}

\* The goroutine stays on its thread once it has begun.
ThreadInv == place \notin {"lock", "failed"} => locked

\* What the thread has given up so far, and what it still has.
CredInv ==
    /\ place \in FromReadLastCap => thread \in noNewPrivs
    /\ place = "dropBounding" => \A cap \in bounding[thread] : cap >= nextCap
    /\ place \in FromSetgroups => bounding[thread] = {}
    /\ place \in FromSetresgid => groups = {}
    /\ place \in FromSetresuid => agentGid = {} \/ "gid" \in noChange
    /\ place \in FromCapset => agentUid = {} \/ "uid" \in noChange
    /\ place \in FromExec => permitted[thread] = {} /\ thread \notin inheriting
    /\ place \notin FromCapset \cup {"failed"} => permitted[thread] = Caps
    /\ place = "lock" => \A t \in Threads : permitted[t] = Caps

\* The mounts at each place.
MountInv ==
    /\ guestMounts = {}
    /\ place \in {"lock", "sethostname", "private"} => mounts \subseteq {"shared"}
    /\ place = "bind" => mounts = {}
    /\ place \in {"mkdirOldRoot", "pivotRoot"} => mounts = {"bind"}
    /\ place \in {"chdirRoot", "detachOldRoot"} => mounts = {"bind", "pivoted", "oldRoot"}
    /\ place \in {"removeOldRoot", "mountProc"} => mounts = {"bind", "pivoted"}
    /\ place \in FromChdirWork => mounts = {"bind", "pivoted", "proc"}

\* The directories at each place.
DirectoryInv ==
    /\ place \in {"lock", "sethostname", "private", "bind", "mkdirOldRoot"} =>
           oldRootDir # "init"
    /\ place \in FromMountProc => oldRootDir = "absent"
    /\ place \in FromNoNewPrivs => cwd = "workingDirectory"

IInv == TypeOK /\ ThreadInv /\ CredInv /\ MountInv /\ DirectoryInv /\ OrderWorks

-----------------------------------------------------------------------------
\* Every step keeps the types.
LEMMA TypePreserved ==
    ASSUME TypeOK, [Next]_vars
    PROVE  TypeOK'
<1> USE CapsAssumption DEF TypeOK, Places, MountFacts, Caps, vars, credVars, fsVars
<1>1. ASSUME LockOSThread PROVE TypeOK'
  BY <1>1 DEF LockOSThread, Step, Allowed, Has
<1>2. ASSUME Migrate PROVE TypeOK'
  BY <1>2 DEF Migrate, NoEffect
<1>3. ASSUME Sethostname PROVE TypeOK'
  BY <1>3 DEF Sethostname, Step, Allowed, Has, NoEffect
<1>4. ASSUME MakePrivate PROVE TypeOK'
  BY <1>4 DEF MakePrivate, Step, Allowed, Has, FsOnly
<1>5. ASSUME BindRootfs PROVE TypeOK'
  BY <1>5 DEF BindRootfs, Step, Allowed, Has, FsOnly, Attach
<1>6. ASSUME MkdirOldRoot PROVE TypeOK'
  BY <1>6 DEF MkdirOldRoot, Step, Allowed, Has, FsOnly
<1>7. ASSUME PivotRoot PROVE TypeOK'
  BY <1>7 DEF PivotRoot, Step, Allowed, Has, FsOnly
<1>8. ASSUME ChdirRoot PROVE TypeOK'
  BY <1>8 DEF ChdirRoot, Step, Allowed, Has, FsOnly
<1>9. ASSUME DetachOldRoot PROVE TypeOK'
  BY <1>9 DEF DetachOldRoot, Step, Allowed, Has, FsOnly
<1>10. ASSUME RemoveOldRoot PROVE TypeOK'
  BY <1>10 DEF RemoveOldRoot, Step, Allowed, Has, FsOnly
<1>11. ASSUME MountProc PROVE TypeOK'
  BY <1>11 DEF MountProc, Step, Allowed, Has, FsOnly, Attach
<1>12. ASSUME ChdirWork PROVE TypeOK'
  BY <1>12 DEF ChdirWork, Step, Allowed, Has, FsOnly
<1>13. ASSUME SetNoNewPrivs PROVE TypeOK'
  BY <1>13 DEF SetNoNewPrivs, Step, Allowed, Has, CredOnly
<1>14. ASSUME ReadLastCap PROVE TypeOK'
  BY <1>14 DEF ReadLastCap, Step, Allowed, Has
<1>15. ASSUME DropBounding PROVE TypeOK'
  <2>1. nextCap' \in 0 .. LastCap + 1
    BY <1>15 DEF DropBounding, LoopEnds, Step
  <2>2. bounding' \in [Threads -> SUBSET Caps]
    BY <1>15 DEF DropBounding, LoopEnds, Step
  <2>3. place' \in Places /\ UNCHANGED << thread, blameless, noChange >>
    BY <1>15 DEF DropBounding, LoopEnds, Step
  <2> QED
    BY <1>15, <2>1, <2>2, <2>3 DEF DropBounding
<1>16. ASSUME Setgroups PROVE TypeOK'
  BY <1>16 DEF Setgroups, Step, Allowed, Has, CredOnly
<1>17. ASSUME Setresgid PROVE TypeOK'
  BY <1>17 DEF Setresgid, Step, Allowed, Has, CredOnly
<1>18. ASSUME Setresuid PROVE TypeOK'
  BY <1>18 DEF Setresuid, Step, Allowed, Has, CredOnly
<1>19. ASSUME ClearCapabilities PROVE TypeOK'
  BY <1>19 DEF ClearCapabilities, Step, Allowed, Has, CredOnly
<1>20. ASSUME Exec PROVE TypeOK'
  BY <1>20 DEF Exec, Step, Allowed, Has, NoEffect
<1>21. ASSUME CallFails PROVE TypeOK'
  BY <1>21 DEF CallFails, NoEffect, Allowed, Has
<1>22. ASSUME Ended PROVE TypeOK'
  BY <1>22 DEF Ended
<1>23. CASE UNCHANGED vars
  BY <1>23
<1> QED
  BY <1>1, <1>2, <1>3, <1>4, <1>5, <1>6, <1>7, <1>8, <1>9, <1>10, <1>11, <1>12,
     <1>13, <1>14, <1>15, <1>16, <1>17, <1>18, <1>19, <1>20, <1>21, <1>22, <1>23 DEF Next

\* Nothing unlocks the goroutine.
LEMMA ThreadPreserved ==
    ASSUME TypeOK, ThreadInv, [Next]_vars
    PROVE  ThreadInv'
<1> USE CapsAssumption DEF ThreadInv, vars, credVars, fsVars
<1>1. ASSUME LockOSThread PROVE ThreadInv'
  BY <1>1 DEF LockOSThread, Step, Allowed, Has
<1>2. ASSUME Migrate PROVE ThreadInv'
  BY <1>2 DEF Migrate, NoEffect
<1>3. ASSUME Sethostname PROVE ThreadInv'
  BY <1>3 DEF Sethostname, Step, Allowed, Has, NoEffect
<1>4. ASSUME MakePrivate PROVE ThreadInv'
  BY <1>4 DEF MakePrivate, Step, Allowed, Has, FsOnly
<1>5. ASSUME BindRootfs PROVE ThreadInv'
  BY <1>5 DEF BindRootfs, Step, Allowed, Has, FsOnly, Attach
<1>6. ASSUME MkdirOldRoot PROVE ThreadInv'
  BY <1>6 DEF MkdirOldRoot, Step, Allowed, Has, FsOnly
<1>7. ASSUME PivotRoot PROVE ThreadInv'
  BY <1>7 DEF PivotRoot, Step, Allowed, Has, FsOnly
<1>8. ASSUME ChdirRoot PROVE ThreadInv'
  BY <1>8 DEF ChdirRoot, Step, Allowed, Has, FsOnly
<1>9. ASSUME DetachOldRoot PROVE ThreadInv'
  BY <1>9 DEF DetachOldRoot, Step, Allowed, Has, FsOnly
<1>10. ASSUME RemoveOldRoot PROVE ThreadInv'
  BY <1>10 DEF RemoveOldRoot, Step, Allowed, Has, FsOnly
<1>11. ASSUME MountProc PROVE ThreadInv'
  BY <1>11 DEF MountProc, Step, Allowed, Has, FsOnly, Attach
<1>12. ASSUME ChdirWork PROVE ThreadInv'
  BY <1>12 DEF ChdirWork, Step, Allowed, Has, FsOnly
<1>13. ASSUME SetNoNewPrivs PROVE ThreadInv'
  BY <1>13 DEF SetNoNewPrivs, Step, Allowed, Has, CredOnly
<1>14. ASSUME ReadLastCap PROVE ThreadInv'
  BY <1>14 DEF ReadLastCap, Step, Allowed, Has
<1>15. ASSUME DropBounding PROVE ThreadInv'
  BY <1>15 DEF DropBounding, Step, Allowed, Has, LoopEnds
<1>16. ASSUME Setgroups PROVE ThreadInv'
  BY <1>16 DEF Setgroups, Step, Allowed, Has, CredOnly
<1>17. ASSUME Setresgid PROVE ThreadInv'
  BY <1>17 DEF Setresgid, Step, Allowed, Has, CredOnly
<1>18. ASSUME Setresuid PROVE ThreadInv'
  BY <1>18 DEF Setresuid, Step, Allowed, Has, CredOnly
<1>19. ASSUME ClearCapabilities PROVE ThreadInv'
  BY <1>19 DEF ClearCapabilities, Step, Allowed, Has, CredOnly
<1>20. ASSUME Exec PROVE ThreadInv'
  BY <1>20 DEF Exec, Step, Allowed, Has, NoEffect
<1>21. ASSUME CallFails PROVE ThreadInv'
  BY <1>21 DEF CallFails, NoEffect, Allowed, Has
<1>22. ASSUME Ended PROVE ThreadInv'
  BY <1>22 DEF Ended
<1>23. CASE UNCHANGED vars
  BY <1>23
<1> QED
  BY <1>1, <1>2, <1>3, <1>4, <1>5, <1>6, <1>7, <1>8, <1>9, <1>10, <1>11, <1>12,
     <1>13, <1>14, <1>15, <1>16, <1>17, <1>18, <1>19, <1>20, <1>21, <1>22, <1>23 DEF Next

\* Each call gives up what it should and nothing that a later one needs.
LEMMA CredPreserved ==
    ASSUME TypeOK, ThreadInv, CredInv, [Next]_vars
    PROVE  CredInv'
<1> USE CapsAssumption DEF TypeOK, ThreadInv, CredInv, Caps,
        FromExec, FromCapset, FromSetresuid, FromSetresgid, FromSetgroups,
        FromReadLastCap, vars, credVars, fsVars
<1>1. ASSUME LockOSThread PROVE CredInv'
  BY <1>1 DEF LockOSThread, Step, Allowed, Has
<1>2. ASSUME Migrate PROVE CredInv'
  BY <1>2 DEF Migrate, NoEffect
<1>3. ASSUME Sethostname PROVE CredInv'
  BY <1>3 DEF Sethostname, Step, Allowed, Has, NoEffect
<1>4. ASSUME MakePrivate PROVE CredInv'
  BY <1>4 DEF MakePrivate, Step, Allowed, Has, FsOnly
<1>5. ASSUME BindRootfs PROVE CredInv'
  BY <1>5 DEF BindRootfs, Step, Allowed, Has, FsOnly, Attach
<1>6. ASSUME MkdirOldRoot PROVE CredInv'
  BY <1>6 DEF MkdirOldRoot, Step, Allowed, Has, FsOnly
<1>7. ASSUME PivotRoot PROVE CredInv'
  BY <1>7 DEF PivotRoot, Step, Allowed, Has, FsOnly
<1>8. ASSUME ChdirRoot PROVE CredInv'
  BY <1>8 DEF ChdirRoot, Step, Allowed, Has, FsOnly
<1>9. ASSUME DetachOldRoot PROVE CredInv'
  BY <1>9 DEF DetachOldRoot, Step, Allowed, Has, FsOnly
<1>10. ASSUME RemoveOldRoot PROVE CredInv'
  BY <1>10 DEF RemoveOldRoot, Step, Allowed, Has, FsOnly
<1>11. ASSUME MountProc PROVE CredInv'
  BY <1>11 DEF MountProc, Step, Allowed, Has, FsOnly, Attach
<1>12. ASSUME ChdirWork PROVE CredInv'
  BY <1>12 DEF ChdirWork, Step, Allowed, Has, FsOnly
<1>13. ASSUME SetNoNewPrivs PROVE CredInv'
  BY <1>13 DEF SetNoNewPrivs, Step, Allowed, Has, CredOnly
<1>14. ASSUME ReadLastCap PROVE CredInv'
  BY <1>14 DEF ReadLastCap, Step, Allowed, Has
<1>15. ASSUME DropBounding PROVE CredInv'
  BY <1>15 DEF DropBounding, Step, Allowed, Has, LoopEnds
<1>16. ASSUME Setgroups PROVE CredInv'
  BY <1>16 DEF Setgroups, Step, Allowed, Has, CredOnly
<1>17. ASSUME Setresgid PROVE CredInv'
  BY <1>17 DEF Setresgid, Step, Allowed, Has, CredOnly
<1>18. ASSUME Setresuid PROVE CredInv'
  BY <1>18 DEF Setresuid, Step, Allowed, Has, CredOnly
<1>19. ASSUME ClearCapabilities PROVE CredInv'
  BY <1>19 DEF ClearCapabilities, Step, Allowed, Has, CredOnly
<1>20. ASSUME Exec PROVE CredInv'
  BY <1>20 DEF Exec, Step, Allowed, Has, NoEffect
<1>21. ASSUME CallFails PROVE CredInv'
  BY <1>21 DEF CallFails, NoEffect, Allowed, Has
<1>22. ASSUME Ended PROVE CredInv'
  BY <1>22 DEF Ended
<1>23. CASE UNCHANGED vars
  BY <1>23
<1> QED
  BY <1>1, <1>2, <1>3, <1>4, <1>5, <1>6, <1>7, <1>8, <1>9, <1>10, <1>11, <1>12,
     <1>13, <1>14, <1>15, <1>16, <1>17, <1>18, <1>19, <1>20, <1>21, <1>22, <1>23 DEF Next

\* Each call finds and leaves the mounts of its place.
LEMMA MountPreserved ==
    ASSUME TypeOK, MountInv, [Next]_vars
    PROVE  MountInv'
<1> USE CapsAssumption DEF MountInv,
        FromExec, FromCapset, FromSetresuid, FromSetresgid, FromSetgroups,
        FromReadLastCap, FromNoNewPrivs, FromChdirWork, FromMountProc, vars, credVars, fsVars
<1>1. ASSUME LockOSThread PROVE MountInv'
  BY <1>1 DEF LockOSThread, Step, Allowed, Has
<1>2. ASSUME Migrate PROVE MountInv'
  BY <1>2 DEF Migrate, NoEffect
<1>3. ASSUME Sethostname PROVE MountInv'
  BY <1>3 DEF Sethostname, Step, Allowed, Has, NoEffect
<1>4. ASSUME MakePrivate PROVE MountInv'
  BY <1>4 DEF MakePrivate, Step, Allowed, Has, FsOnly
<1>5. ASSUME BindRootfs PROVE MountInv'
  BY <1>5 DEF BindRootfs, Step, Allowed, Has, FsOnly, Attach
<1>6. ASSUME MkdirOldRoot PROVE MountInv'
  BY <1>6 DEF MkdirOldRoot, Step, Allowed, Has, FsOnly
<1>7. ASSUME PivotRoot PROVE MountInv'
  BY <1>7 DEF PivotRoot, Step, Allowed, Has, FsOnly
<1>8. ASSUME ChdirRoot PROVE MountInv'
  BY <1>8 DEF ChdirRoot, Step, Allowed, Has, FsOnly
<1>9. ASSUME DetachOldRoot PROVE MountInv'
  BY <1>9 DEF DetachOldRoot, Step, Allowed, Has, FsOnly
<1>10. ASSUME RemoveOldRoot PROVE MountInv'
  BY <1>10 DEF RemoveOldRoot, Step, Allowed, Has, FsOnly
<1>11. ASSUME MountProc PROVE MountInv'
  BY <1>11 DEF MountProc, Step, Allowed, Has, FsOnly, Attach
<1>12. ASSUME ChdirWork PROVE MountInv'
  BY <1>12 DEF ChdirWork, Step, Allowed, Has, FsOnly
<1>13. ASSUME SetNoNewPrivs PROVE MountInv'
  BY <1>13 DEF SetNoNewPrivs, Step, Allowed, Has, CredOnly
<1>14. ASSUME ReadLastCap PROVE MountInv'
  BY <1>14 DEF ReadLastCap, Step, Allowed, Has
<1>15. ASSUME DropBounding PROVE MountInv'
  BY <1>15 DEF DropBounding, Step, Allowed, Has, LoopEnds
<1>16. ASSUME Setgroups PROVE MountInv'
  BY <1>16 DEF Setgroups, Step, Allowed, Has, CredOnly
<1>17. ASSUME Setresgid PROVE MountInv'
  BY <1>17 DEF Setresgid, Step, Allowed, Has, CredOnly
<1>18. ASSUME Setresuid PROVE MountInv'
  BY <1>18 DEF Setresuid, Step, Allowed, Has, CredOnly
<1>19. ASSUME ClearCapabilities PROVE MountInv'
  BY <1>19 DEF ClearCapabilities, Step, Allowed, Has, CredOnly
<1>20. ASSUME Exec PROVE MountInv'
  BY <1>20 DEF Exec, Step, Allowed, Has, NoEffect
<1>21. ASSUME CallFails PROVE MountInv'
  BY <1>21 DEF CallFails, NoEffect, Allowed, Has
<1>22. ASSUME Ended PROVE MountInv'
  BY <1>22 DEF Ended
<1>23. CASE UNCHANGED vars
  BY <1>23
<1> QED
  BY <1>1, <1>2, <1>3, <1>4, <1>5, <1>6, <1>7, <1>8, <1>9, <1>10, <1>11, <1>12,
     <1>13, <1>14, <1>15, <1>16, <1>17, <1>18, <1>19, <1>20, <1>21, <1>22, <1>23 DEF Next

\* The directory made for the old root is removed again.
LEMMA DirectoryPreserved ==
    ASSUME TypeOK, DirectoryInv, [Next]_vars
    PROVE  DirectoryInv'
<1> USE CapsAssumption DEF DirectoryInv,
        FromExec, FromCapset, FromSetresuid, FromSetresgid, FromSetgroups,
        FromReadLastCap, FromNoNewPrivs, FromChdirWork, FromMountProc, vars, credVars, fsVars
<1>1. ASSUME LockOSThread PROVE DirectoryInv'
  BY <1>1 DEF LockOSThread, Step, Allowed, Has
<1>2. ASSUME Migrate PROVE DirectoryInv'
  BY <1>2 DEF Migrate, NoEffect
<1>3. ASSUME Sethostname PROVE DirectoryInv'
  BY <1>3 DEF Sethostname, Step, Allowed, Has, NoEffect
<1>4. ASSUME MakePrivate PROVE DirectoryInv'
  BY <1>4 DEF MakePrivate, Step, Allowed, Has, FsOnly
<1>5. ASSUME BindRootfs PROVE DirectoryInv'
  BY <1>5 DEF BindRootfs, Step, Allowed, Has, FsOnly, Attach
<1>6. ASSUME MkdirOldRoot PROVE DirectoryInv'
  BY <1>6 DEF MkdirOldRoot, Step, Allowed, Has, FsOnly
<1>7. ASSUME PivotRoot PROVE DirectoryInv'
  BY <1>7 DEF PivotRoot, Step, Allowed, Has, FsOnly
<1>8. ASSUME ChdirRoot PROVE DirectoryInv'
  BY <1>8 DEF ChdirRoot, Step, Allowed, Has, FsOnly
<1>9. ASSUME DetachOldRoot PROVE DirectoryInv'
  BY <1>9 DEF DetachOldRoot, Step, Allowed, Has, FsOnly
<1>10. ASSUME RemoveOldRoot PROVE DirectoryInv'
  BY <1>10 DEF RemoveOldRoot, Step, Allowed, Has, FsOnly
<1>11. ASSUME MountProc PROVE DirectoryInv'
  BY <1>11 DEF MountProc, Step, Allowed, Has, FsOnly, Attach
<1>12. ASSUME ChdirWork PROVE DirectoryInv'
  BY <1>12 DEF ChdirWork, Step, Allowed, Has, FsOnly
<1>13. ASSUME SetNoNewPrivs PROVE DirectoryInv'
  BY <1>13 DEF SetNoNewPrivs, Step, Allowed, Has, CredOnly
<1>14. ASSUME ReadLastCap PROVE DirectoryInv'
  BY <1>14 DEF ReadLastCap, Step, Allowed, Has
<1>15. ASSUME DropBounding PROVE DirectoryInv'
  BY <1>15 DEF DropBounding, Step, Allowed, Has, LoopEnds
<1>16. ASSUME Setgroups PROVE DirectoryInv'
  BY <1>16 DEF Setgroups, Step, Allowed, Has, CredOnly
<1>17. ASSUME Setresgid PROVE DirectoryInv'
  BY <1>17 DEF Setresgid, Step, Allowed, Has, CredOnly
<1>18. ASSUME Setresuid PROVE DirectoryInv'
  BY <1>18 DEF Setresuid, Step, Allowed, Has, CredOnly
<1>19. ASSUME ClearCapabilities PROVE DirectoryInv'
  BY <1>19 DEF ClearCapabilities, Step, Allowed, Has, CredOnly
<1>20. ASSUME Exec PROVE DirectoryInv'
  BY <1>20 DEF Exec, Step, Allowed, Has, NoEffect
<1>21. ASSUME CallFails PROVE DirectoryInv'
  BY <1>21 DEF CallFails, NoEffect, Allowed, Has
<1>22. ASSUME Ended PROVE DirectoryInv'
  BY <1>22 DEF Ended
<1>23. CASE UNCHANGED vars
  BY <1>23
<1> QED
  BY <1>1, <1>2, <1>3, <1>4, <1>5, <1>6, <1>7, <1>8, <1>9, <1>10, <1>11, <1>12,
     <1>13, <1>14, <1>15, <1>16, <1>17, <1>18, <1>19, <1>20, <1>21, <1>22, <1>23 DEF Next

\* A call that is not allowed is Mkdir, and the image has the directory.
LEMMA OrderPreserved ==
    ASSUME TypeOK, CredInv, MountInv, DirectoryInv, OrderWorks, [Next]_vars
    PROVE  OrderWorks'
<1> USE CapsAssumption DEF OrderWorks, vars, credVars, fsVars
<1>1. ASSUME LockOSThread PROVE OrderWorks'
  BY <1>1 DEF LockOSThread, Step, Allowed, Has
<1>2. ASSUME Migrate PROVE OrderWorks'
  BY <1>2 DEF Migrate, NoEffect
<1>3. ASSUME Sethostname PROVE OrderWorks'
  BY <1>3 DEF Sethostname, Step, Allowed, Has, NoEffect
<1>4. ASSUME MakePrivate PROVE OrderWorks'
  BY <1>4 DEF MakePrivate, Step, Allowed, Has, FsOnly
<1>5. ASSUME BindRootfs PROVE OrderWorks'
  BY <1>5 DEF BindRootfs, Step, Allowed, Has, FsOnly, Attach
<1>6. ASSUME MkdirOldRoot PROVE OrderWorks'
  BY <1>6 DEF MkdirOldRoot, Step, Allowed, Has, FsOnly
<1>7. ASSUME PivotRoot PROVE OrderWorks'
  BY <1>7 DEF PivotRoot, Step, Allowed, Has, FsOnly
<1>8. ASSUME ChdirRoot PROVE OrderWorks'
  BY <1>8 DEF ChdirRoot, Step, Allowed, Has, FsOnly
<1>9. ASSUME DetachOldRoot PROVE OrderWorks'
  BY <1>9 DEF DetachOldRoot, Step, Allowed, Has, FsOnly
<1>10. ASSUME RemoveOldRoot PROVE OrderWorks'
  BY <1>10 DEF RemoveOldRoot, Step, Allowed, Has, FsOnly
<1>11. ASSUME MountProc PROVE OrderWorks'
  BY <1>11 DEF MountProc, Step, Allowed, Has, FsOnly, Attach
<1>12. ASSUME ChdirWork PROVE OrderWorks'
  BY <1>12 DEF ChdirWork, Step, Allowed, Has, FsOnly
<1>13. ASSUME SetNoNewPrivs PROVE OrderWorks'
  BY <1>13 DEF SetNoNewPrivs, Step, Allowed, Has, CredOnly
<1>14. ASSUME ReadLastCap PROVE OrderWorks'
  BY <1>14 DEF ReadLastCap, Step, Allowed, Has
<1>15. ASSUME DropBounding PROVE OrderWorks'
  BY <1>15 DEF DropBounding, Step, Allowed, Has, LoopEnds
<1>16. ASSUME Setgroups PROVE OrderWorks'
  BY <1>16 DEF Setgroups, Step, Allowed, Has, CredOnly
<1>17. ASSUME Setresgid PROVE OrderWorks'
  BY <1>17 DEF Setresgid, Step, Allowed, Has, CredOnly
<1>18. ASSUME Setresuid PROVE OrderWorks'
  BY <1>18 DEF Setresuid, Step, Allowed, Has, CredOnly
<1>19. ASSUME ClearCapabilities PROVE OrderWorks'
  BY <1>19 DEF ClearCapabilities, Step, Allowed, Has, CredOnly
<1>20. ASSUME Exec PROVE OrderWorks'
  BY <1>20 DEF Exec, Step, Allowed, Has, NoEffect
<1>21. ASSUME CallFails PROVE OrderWorks'
  <2>1. place \notin {"lock", "workload", "failed"} /\ oldRootDir' = oldRootDir
    BY <1>21 DEF CallFails, NoEffect, fsVars
  <2>2. blameless' => ~Allowed
    BY <1>21 DEF CallFails
  <2>3. place \notin FromCapset => Has(SysAdmin) /\ Has(SetPcap) /\ Has(SetGid) /\ Has(SetUid)
    BY <2>1, CapsAssumption DEF CredInv, Has
  <2>4. place = "pivotRoot" => "bind" \in mounts /\ "shared" \notin mounts
    BY DEF MountInv
  <2>5. place = "removeOldRoot" => "oldRoot" \notin mounts
    BY DEF MountInv
  <2>6. place = "readLastCap" => "proc" \in mounts
    BY DEF MountInv, FromExec, FromCapset, FromSetresuid, FromSetresgid, FromSetgroups,
           FromReadLastCap, FromNoNewPrivs, FromChdirWork
  <2>7. place = "mkdirOldRoot" => oldRootDir \in {"absent", "image"}
    BY DEF DirectoryInv, TypeOK
  <2>8. ~Allowed => oldRootDir = "image"
    BY <2>1, <2>3, <2>4, <2>5, <2>6, <2>7 DEF Allowed, FromCapset, FromExec
  <2> QED
    BY <2>1, <2>2, <2>8 DEF OrderWorks
<1>22. ASSUME Ended PROVE OrderWorks'
  BY <1>22 DEF Ended
<1>23. CASE UNCHANGED vars
  BY <1>23
<1> QED
  BY <1>1, <1>2, <1>3, <1>4, <1>5, <1>6, <1>7, <1>8, <1>9, <1>10, <1>11, <1>12,
     <1>13, <1>14, <1>15, <1>16, <1>17, <1>18, <1>19, <1>20, <1>21, <1>22, <1>23 DEF Next

-----------------------------------------------------------------------------
\* The invariant holds at the beginning.
LEMMA Initially == Init => IInv
<1>1. Init => TypeOK
  <2> SUFFICES ASSUME Init PROVE TypeOK
    OBVIOUS
  <2>1. {noNewPrivs, inheriting, groups, agentGid, agentUid} \subseteq SUBSET Threads
    BY DEF Init
  <2>2. /\ bounding \in [Threads -> SUBSET Caps]
        /\ permitted \in [Threads -> SUBSET Caps]
        /\ nextCap \in 0 .. LastCap + 1
    BY CapsAssumption DEF Init, Caps
  <2>3. /\ place \in Places /\ thread \in Threads
        /\ mounts \subseteq MountFacts /\ guestMounts \subseteq MountFacts
    BY DEF Init, Places, MountFacts
  <2>4. /\ oldRootDir \in {"absent", "image", "init"}
        /\ cwd \in {"agent", "newRoot", "workingDirectory"}
        /\ noChange \subseteq {"uid", "gid"}
    BY DEF Init
  <2>5. locked \in BOOLEAN /\ blameless \in BOOLEAN
    BY DEF Init
  <2> QED
    BY <2>1, <2>2, <2>3, <2>4, <2>5 DEF TypeOK
<1>2. Init => ThreadInv /\ CredInv
  <2> SUFFICES ASSUME Init PROVE ThreadInv /\ CredInv
    OBVIOUS
  <2>1. place = "lock" /\ thread \in Threads
    BY DEF Init
  <2>2. \A t \in Threads : permitted[t] = Caps
    BY DEF Init
  <2> QED
    BY <2>1, <2>2 DEF ThreadInv, CredInv, FromExec, FromCapset, FromSetresuid, FromSetresgid,
         FromSetgroups, FromReadLastCap
<1>3. Init => MountInv /\ DirectoryInv /\ OrderWorks
  BY DEF Init, MountInv, DirectoryInv, OrderWorks, FromExec, FromCapset, FromSetresuid,
         FromSetresgid, FromSetgroups, FromReadLastCap, FromNoNewPrivs, FromChdirWork,
         FromMountProc
<1> QED
  BY <1>1, <1>2, <1>3 DEF IInv

\* It is inductive.
LEMMA Invariance == Spec => []IInv
<1>1. IInv /\ [Next]_vars => IInv'
  BY TypePreserved, ThreadPreserved, CredPreserved, MountPreserved, DirectoryPreserved,
     OrderPreserved DEF IInv
<1> QED
  BY Initially, <1>1, PTL DEF Spec

\* Every variable has its type.
THEOREM TypeCorrect == Spec => []TypeOK
<1>1. IInv => TypeOK
  BY DEF IInv
<1> QED
  BY <1>1, Invariance, PTL

\* The thread that executes the workload has none of the agent's privileges, for
\* any number of threads and capabilities (run_linux.go:307-329).
THEOREM Unprivileged == Spec => []WorkloadUnprivileged
<1>1. IInv => WorkloadUnprivileged
  BY DEF IInv, CredInv, WorkloadUnprivileged, FromExec, FromCapset, FromSetresuid,
         FromSetresgid, FromSetgroups, FromReadLastCap
<1> QED
  BY <1>1, Invariance, PTL

\* The workload starts in the image and the guest's root is out of reach
\* (run_linux.go:264-300).
THEOREM Confined == Spec => []WorkloadConfined
<1>1. IInv => WorkloadConfined
  BY DEF IInv, MountInv, DirectoryInv, WorkloadConfined, FromExec, FromCapset, FromSetresuid,
         FromSetresgid, FromSetgroups, FromReadLastCap, FromNoNewPrivs, FromChdirWork,
         FromMountProc
<1> QED
  BY <1>1, Invariance, PTL

\* The guest sees no mount of the sandbox.
THEOREM GuestUntouched == Spec => []GuestMountsUntouched
<1>1. IInv => GuestMountsUntouched
  BY DEF IInv, MountInv, GuestMountsUntouched
<1> QED
  BY <1>1, Invariance, PTL

\* No call fails because an earlier one has taken away what it needs.
THEOREM OrderIsRight == Spec => []OrderWorks
<1>1. IInv => OrderWorks
  BY DEF IInv
<1> QED
  BY <1>1, Invariance, PTL

\* Neither the workload nor the guest reaches the other's mounts, for any number of
\* threads and capabilities.
THEOREM MountsStaySeparate == Spec => []MountsSeparate
<1>1. WorkloadConfined /\ GuestMountsUntouched => MountsSeparate
  BY DEF MountsSeparate
<1> QED
  BY <1>1, Confined, GuestUntouched, PTL
=============================================================================
