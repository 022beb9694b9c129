--------------------------- MODULE HostSessionProofs ---------------------------
(***************************************************************************)
(* Proofs about HostSession, for any number of sessions, bundle names and  *)
(* command lines, and any widths of the numbers.                           *)
(*                                                                         *)
(* What is on the disk can only be told together with what the guest sees  *)
(* and with whether the machine is on (PowerInv, DiskInv); that an answer  *)
(* is this session's needs that nothing is on the wire of a machine that   *)
(* is off (AnswerInv).                                                     *)
(***************************************************************************)
EXTENDS HostSession, TLAPS

\* What is on when.  The guest has a bundle only while it runs a workload, or
\* because it has panicked then.
PowerInv ==
    /\ place \in Creating \cup {"flags", "config", "create", "start", "raised", "failed", "exited"}
          => guest = "off"
    /\ place \in {"sleep", "dial", "encode", "decode", "interrupt", "stop"} => guest # "off"
    /\ guest = "off" => wire = "none" /\ files = disk
    /\ guest \in {"off", "boot", "listen"} => own = NoName
    /\ guest = "run" => own # NoName
    /\ own # NoName => files[own] = {session}

\* Nothing of an earlier session is on either side that is not excused.
DiskInv ==
    /\ LeftoverHasCause
    /\ \A name \in Names : disk[name] \subseteq excused \cup {session}

\* The client goes on only after an answer of OK, which a workload has earned.
AnswerInv ==
    /\ wire = "ok" => session \in ran
    /\ OutputIsGenuine

AllObjects == {"queue", "machine", "handle"}

\* Which objects there are at each place; after an exception there may be any.
HeldInv ==
    /\ place \in {"flags", "config", "create", "failed", "exited"} => held = {}
    /\ place \in {"queue", "releaseQueue"} => held = {"queue"}
    /\ place \in {"allocate", "release"} => held = {"queue", "machine"}
    /\ place \in Created => held = AllObjects

\* The sizes have been checked before the machine exists.
SizeInv ==
    /\ place \in {"create", "queue"} => MemorySize # 0
    /\ place = "queue" => Configuration.cpus # 0
    /\ place \in {"allocate"} \cup Created =>
          machine = Configuration /\ machine.cpus # 0 /\ machine.memory # 0

IInv == TypeOK /\ PowerInv /\ DiskInv /\ AnswerInv /\ HeldInv /\ SizeInv

-----------------------------------------------------------------------------
\* What the native configuration can hold.
LEMMA ConfigurationFits ==
    ASSUME options \in Options
    PROVE  /\ Configuration.cpus \in 0 .. CpuLimit - 1
           /\ Configuration.memory \in 0 .. MemoryLimit - 1
<1>1. /\ CpuLimit \in Nat \ {0} /\ MemoryLimit \in Nat \ {0} /\ MiB \in Nat
      /\ options.cpus \in Nat /\ options.memoryMiB \in Nat
  BY WidthAssumption, OptionsAssumption
<1>2. options.memoryMiB * MiB \in Nat
  BY <1>1
<1>3. options.cpus % CpuLimit \in 0 .. CpuLimit - 1
  BY <1>1
<1>4. (options.memoryMiB * MiB) % MemoryLimit \in 0 .. MemoryLimit - 1
  BY <1>1, <1>2
<1> QED
  BY <1>3, <1>4 DEF Configuration, MemorySize

\* Every step keeps the types.
LEMMA TypePreserved ==
    ASSUME TypeOK, PowerInv, [Next]_vars
    PROVE  TypeOK'
<1> USE SessionAssumption
<1> USE DEF TypeOK, PowerInv, Creating, Created,
        vars, client, native, system, history
<1>1. ASSUME ParseFlags PROVE TypeOK'
  BY <1>1 DEF ParseFlags, ProcessEnds, Quietly
<1>2. ASSUME Validate PROVE TypeOK'
  BY <1>2 DEF Validate, ProcessEnds, Quietly
<1>3. ASSUME BuildFails PROVE TypeOK'
  BY <1>3 DEF BuildFails, ProcessEnds
<1>4. ASSUME CreateQueue PROVE TypeOK'
  BY <1>4 DEF CreateQueue, Goto, Quietly
<1>5. ASSUME CreateMachine PROVE TypeOK'
  BY <1>5, ConfigurationFits DEF CreateMachine, Goto, Quietly
<1>6. ASSUME CreateRaises PROVE TypeOK'
  BY <1>6 DEF CreateRaises, Goto, Quietly
<1>7. ASSUME Allocate PROVE TypeOK'
  BY <1>7 DEF Allocate, Goto, Quietly
<1>8. ASSUME AllocateFails PROVE TypeOK'
  BY <1>8 DEF AllocateFails, Goto, Quietly
<1>9. ASSUME ReleaseMachine PROVE TypeOK'
  BY <1>9 DEF ReleaseMachine, Goto, Quietly
<1>10. ASSUME ReleaseQueue PROVE TypeOK'
  BY <1>10 DEF ReleaseQueue, Goto, Quietly
<1>11. ASSUME Start PROVE TypeOK'
  BY <1>11 DEF Start, Goto
<1>12. ASSUME Sleep PROVE TypeOK'
  BY <1>12 DEF Sleep, Goto, Quietly
<1>13. ASSUME Dial PROVE TypeOK'
  BY <1>13 DEF Dial, Goto, Quietly
<1>14. ASSUME Encode PROVE TypeOK'
  BY <1>14 DEF Encode, Goto
<1>15. ASSUME DecodeOK PROVE TypeOK'
  BY <1>15 DEF DecodeOK, Goto, Quietly
<1>16. ASSUME Fatal PROVE TypeOK'
  BY <1>16 DEF Fatal, ProcessEnds
<1>17. ASSUME Stop PROVE TypeOK'
  BY <1>17 DEF Stop, Goto, SwitchOff
<1>18. ASSUME Close PROVE TypeOK'
  BY <1>18 DEF Close, ProcessEnds
<1>19. ASSUME Interrupt PROVE TypeOK'
  BY <1>19 DEF Interrupt, ProcessEnds, Goto, Quietly
<1>20. ASSUME NextSession PROVE TypeOK'
  BY <1>20 DEF NextSession, Goto
<1>21. ASSUME Boot PROVE TypeOK'
  BY <1>21 DEF Boot, GuestGoes
<1>22. ASSUME MakeBundle PROVE TypeOK'
  BY <1>22 DEF MakeBundle, GuestGoes, UnusedNames
<1>23. ASSUME PrepareFails PROVE TypeOK'
  BY <1>23 DEF PrepareFails, GuestGoes
<1>24. ASSUME AnswerRun PROVE TypeOK'
  BY <1>24 DEF AnswerRun, GuestGoes
<1>25. ASSUME Panic PROVE TypeOK'
  BY <1>25 DEF Panic
<1>26. ASSUME Flush PROVE TypeOK'
  BY <1>26 DEF Flush
<1>27. CASE UNCHANGED vars
  BY <1>27
<1> QED
  BY <1>1, <1>2, <1>3, <1>4, <1>5, <1>6, <1>7, <1>8, <1>9, <1>10, <1>11, <1>12,
     <1>13, <1>14, <1>15, <1>16, <1>17, <1>18, <1>19, <1>20, <1>21, <1>22, <1>23, <1>24,
     <1>25, <1>26, <1>27
  DEF Next, ClientStep, GuestStep

\* Every step keeps the relation of power, wire and bundle.
LEMMA PowerPreserved ==
    ASSUME TypeOK, PowerInv, [Next]_vars
    PROVE  PowerInv'
<1> USE SessionAssumption
<1> USE DEF TypeOK, PowerInv, Creating, Created,
        vars, client, native, system, history
<1>1. ASSUME ParseFlags PROVE PowerInv'
  BY <1>1 DEF ParseFlags, ProcessEnds, Quietly
<1>2. ASSUME Validate PROVE PowerInv'
  BY <1>2 DEF Validate, ProcessEnds, Quietly
<1>3. ASSUME BuildFails PROVE PowerInv'
  BY <1>3 DEF BuildFails, ProcessEnds
<1>4. ASSUME CreateQueue PROVE PowerInv'
  BY <1>4 DEF CreateQueue, Goto, Quietly
<1>5. ASSUME CreateMachine PROVE PowerInv'
  BY <1>5 DEF CreateMachine, Goto, Quietly
<1>6. ASSUME CreateRaises PROVE PowerInv'
  BY <1>6 DEF CreateRaises, Goto, Quietly
<1>7. ASSUME Allocate PROVE PowerInv'
  BY <1>7 DEF Allocate, Goto, Quietly
<1>8. ASSUME AllocateFails PROVE PowerInv'
  BY <1>8 DEF AllocateFails, Goto, Quietly
<1>9. ASSUME ReleaseMachine PROVE PowerInv'
  BY <1>9 DEF ReleaseMachine, Goto, Quietly
<1>10. ASSUME ReleaseQueue PROVE PowerInv'
  BY <1>10 DEF ReleaseQueue, Goto, Quietly
<1>11. ASSUME Start PROVE PowerInv'
  BY <1>11 DEF Start, Goto
<1>12. ASSUME Sleep PROVE PowerInv'
  BY <1>12 DEF Sleep, Goto, Quietly
<1>13. ASSUME Dial PROVE PowerInv'
  BY <1>13 DEF Dial, Goto, Quietly
<1>14. ASSUME Encode PROVE PowerInv'
  BY <1>14 DEF Encode, Goto
<1>15. ASSUME DecodeOK PROVE PowerInv'
  BY <1>15 DEF DecodeOK, Goto, Quietly
<1>16. ASSUME Fatal PROVE PowerInv'
  BY <1>16 DEF Fatal, ProcessEnds
<1>17. ASSUME Stop PROVE PowerInv'
  BY <1>17 DEF Stop, Goto, SwitchOff
<1>18. ASSUME Close PROVE PowerInv'
  BY <1>18 DEF Close, ProcessEnds
<1>19. ASSUME Interrupt PROVE PowerInv'
  BY <1>19 DEF Interrupt, ProcessEnds, Goto, Quietly
<1>20. ASSUME NextSession PROVE PowerInv'
  BY <1>20 DEF NextSession, Goto
<1>21. ASSUME Boot PROVE PowerInv'
  BY <1>21 DEF Boot, GuestGoes
<1>22. ASSUME MakeBundle PROVE PowerInv'
  BY <1>22 DEF MakeBundle, GuestGoes, UnusedNames
<1>23. ASSUME PrepareFails PROVE PowerInv'
  BY <1>23 DEF PrepareFails, GuestGoes
<1>24. ASSUME AnswerRun PROVE PowerInv'
  BY <1>24 DEF AnswerRun, GuestGoes
<1>25. ASSUME Panic PROVE PowerInv'
  BY <1>25 DEF Panic
<1>26. ASSUME Flush PROVE PowerInv'
  BY <1>26 DEF Flush
<1>27. CASE UNCHANGED vars
  BY <1>27
<1> QED
  BY <1>1, <1>2, <1>3, <1>4, <1>5, <1>6, <1>7, <1>8, <1>9, <1>10, <1>11, <1>12,
     <1>13, <1>14, <1>15, <1>16, <1>17, <1>18, <1>19, <1>20, <1>21, <1>22, <1>23, <1>24,
     <1>25, <1>26, <1>27
  DEF Next, ClientStep, GuestStep

\* No step leaves an unexcused bundle.
LEMMA DiskPreserved ==
    ASSUME TypeOK, PowerInv, DiskInv, [Next]_vars
    PROVE  DiskInv'
<1> USE SessionAssumption
<1> USE DEF TypeOK, PowerInv, Creating, Created, DiskInv, LeftoverHasCause,
        vars, client, native, system, history
<1>1. ASSUME ParseFlags PROVE DiskInv'
  BY <1>1 DEF ParseFlags, ProcessEnds, Quietly
<1>2. ASSUME Validate PROVE DiskInv'
  BY <1>2 DEF Validate, ProcessEnds, Quietly
<1>3. ASSUME BuildFails PROVE DiskInv'
  BY <1>3 DEF BuildFails, ProcessEnds
<1>4. ASSUME CreateQueue PROVE DiskInv'
  BY <1>4 DEF CreateQueue, Goto, Quietly
<1>5. ASSUME CreateMachine PROVE DiskInv'
  BY <1>5 DEF CreateMachine, Goto, Quietly
<1>6. ASSUME CreateRaises PROVE DiskInv'
  BY <1>6 DEF CreateRaises, Goto, Quietly
<1>7. ASSUME Allocate PROVE DiskInv'
  BY <1>7 DEF Allocate, Goto, Quietly
<1>8. ASSUME AllocateFails PROVE DiskInv'
  BY <1>8 DEF AllocateFails, Goto, Quietly
<1>9. ASSUME ReleaseMachine PROVE DiskInv'
  BY <1>9 DEF ReleaseMachine, Goto, Quietly
<1>10. ASSUME ReleaseQueue PROVE DiskInv'
  BY <1>10 DEF ReleaseQueue, Goto, Quietly
<1>11. ASSUME Start PROVE DiskInv'
  BY <1>11 DEF Start, Goto
<1>12. ASSUME Sleep PROVE DiskInv'
  BY <1>12 DEF Sleep, Goto, Quietly
<1>13. ASSUME Dial PROVE DiskInv'
  BY <1>13 DEF Dial, Goto, Quietly
<1>14. ASSUME Encode PROVE DiskInv'
  BY <1>14 DEF Encode, Goto
<1>15. ASSUME DecodeOK PROVE DiskInv'
  BY <1>15 DEF DecodeOK, Goto, Quietly
<1>16. ASSUME Fatal PROVE DiskInv'
  BY <1>16 DEF Fatal, ProcessEnds
<1>17. ASSUME Stop PROVE DiskInv'
  BY <1>17 DEF Stop, Goto, SwitchOff
<1>18. ASSUME Close PROVE DiskInv'
  BY <1>18 DEF Close, ProcessEnds
<1>19. ASSUME Interrupt PROVE DiskInv'
  BY <1>19 DEF Interrupt, ProcessEnds, Goto, Quietly
<1>20. ASSUME NextSession PROVE DiskInv'
  BY <1>20 DEF NextSession, Goto
<1>21. ASSUME Boot PROVE DiskInv'
  BY <1>21 DEF Boot, GuestGoes
<1>22. ASSUME MakeBundle PROVE DiskInv'
  BY <1>22 DEF MakeBundle, GuestGoes, UnusedNames
<1>23. ASSUME PrepareFails PROVE DiskInv'
  BY <1>23 DEF PrepareFails, GuestGoes
<1>24. ASSUME AnswerRun PROVE DiskInv'
  BY <1>24 DEF AnswerRun, GuestGoes
<1>25. ASSUME Panic PROVE DiskInv'
  BY <1>25 DEF Panic
<1>26. ASSUME Flush PROVE DiskInv'
  BY <1>26 DEF Flush
<1>27. CASE UNCHANGED vars
  BY <1>27
<1> QED
  BY <1>1, <1>2, <1>3, <1>4, <1>5, <1>6, <1>7, <1>8, <1>9, <1>10, <1>11, <1>12,
     <1>13, <1>14, <1>15, <1>16, <1>17, <1>18, <1>19, <1>20, <1>21, <1>22, <1>23, <1>24,
     <1>25, <1>26, <1>27
  DEF Next, ClientStep, GuestStep

\* No step makes an answer up.
LEMMA AnswerPreserved ==
    ASSUME TypeOK, PowerInv, AnswerInv, [Next]_vars
    PROVE  AnswerInv'
<1> USE SessionAssumption
<1> USE DEF TypeOK, PowerInv, Creating, Created, AnswerInv, OutputIsGenuine,
        vars, client, native, system, history
<1>1. ASSUME ParseFlags PROVE AnswerInv'
  BY <1>1 DEF ParseFlags, ProcessEnds, Quietly
<1>2. ASSUME Validate PROVE AnswerInv'
  BY <1>2 DEF Validate, ProcessEnds, Quietly
<1>3. ASSUME BuildFails PROVE AnswerInv'
  BY <1>3 DEF BuildFails, ProcessEnds
<1>4. ASSUME CreateQueue PROVE AnswerInv'
  BY <1>4 DEF CreateQueue, Goto, Quietly
<1>5. ASSUME CreateMachine PROVE AnswerInv'
  BY <1>5 DEF CreateMachine, Goto, Quietly
<1>6. ASSUME CreateRaises PROVE AnswerInv'
  BY <1>6 DEF CreateRaises, Goto, Quietly
<1>7. ASSUME Allocate PROVE AnswerInv'
  BY <1>7 DEF Allocate, Goto, Quietly
<1>8. ASSUME AllocateFails PROVE AnswerInv'
  BY <1>8 DEF AllocateFails, Goto, Quietly
<1>9. ASSUME ReleaseMachine PROVE AnswerInv'
  BY <1>9 DEF ReleaseMachine, Goto, Quietly
<1>10. ASSUME ReleaseQueue PROVE AnswerInv'
  BY <1>10 DEF ReleaseQueue, Goto, Quietly
<1>11. ASSUME Start PROVE AnswerInv'
  BY <1>11 DEF Start, Goto
<1>12. ASSUME Sleep PROVE AnswerInv'
  BY <1>12 DEF Sleep, Goto, Quietly
<1>13. ASSUME Dial PROVE AnswerInv'
  BY <1>13 DEF Dial, Goto, Quietly
<1>14. ASSUME Encode PROVE AnswerInv'
  BY <1>14 DEF Encode, Goto
<1>15. ASSUME DecodeOK PROVE AnswerInv'
  BY <1>15 DEF DecodeOK, Goto, Quietly
<1>16. ASSUME Fatal PROVE AnswerInv'
  BY <1>16 DEF Fatal, ProcessEnds
<1>17. ASSUME Stop PROVE AnswerInv'
  BY <1>17 DEF Stop, Goto, SwitchOff
<1>18. ASSUME Close PROVE AnswerInv'
  BY <1>18 DEF Close, ProcessEnds
<1>19. ASSUME Interrupt PROVE AnswerInv'
  BY <1>19 DEF Interrupt, ProcessEnds, Goto, Quietly
<1>20. ASSUME NextSession PROVE AnswerInv'
  BY <1>20 DEF NextSession, Goto
<1>21. ASSUME Boot PROVE AnswerInv'
  BY <1>21 DEF Boot, GuestGoes
<1>22. ASSUME MakeBundle PROVE AnswerInv'
  BY <1>22 DEF MakeBundle, GuestGoes, UnusedNames
<1>23. ASSUME PrepareFails PROVE AnswerInv'
  BY <1>23 DEF PrepareFails, GuestGoes
<1>24. ASSUME AnswerRun PROVE AnswerInv'
  BY <1>24 DEF AnswerRun, GuestGoes
<1>25. ASSUME Panic PROVE AnswerInv'
  BY <1>25 DEF Panic
<1>26. ASSUME Flush PROVE AnswerInv'
  BY <1>26 DEF Flush
<1>27. CASE UNCHANGED vars
  BY <1>27
<1> QED
  BY <1>1, <1>2, <1>3, <1>4, <1>5, <1>6, <1>7, <1>8, <1>9, <1>10, <1>11, <1>12,
     <1>13, <1>14, <1>15, <1>16, <1>17, <1>18, <1>19, <1>20, <1>21, <1>22, <1>23, <1>24,
     <1>25, <1>26, <1>27
  DEF Next, ClientStep, GuestStep

\* Every step keeps the relation of the objects and of how far the client has come.
LEMMA HeldPreserved ==
    ASSUME TypeOK, HeldInv, [Next]_vars
    PROVE  HeldInv'
<1> USE DEF HeldInv, AllObjects, Created,
        vars, client, native, system, history
<1>1. ASSUME ParseFlags PROVE HeldInv'
  BY <1>1 DEF ParseFlags, ProcessEnds, Quietly
<1>2. ASSUME Validate PROVE HeldInv'
  BY <1>2 DEF Validate, ProcessEnds, Quietly
<1>3. ASSUME BuildFails PROVE HeldInv'
  BY <1>3 DEF BuildFails, ProcessEnds
<1>4. ASSUME CreateQueue PROVE HeldInv'
  BY <1>4 DEF CreateQueue, Goto, Quietly
<1>5. ASSUME CreateMachine PROVE HeldInv'
  BY <1>5 DEF CreateMachine, Goto, Quietly
<1>6. ASSUME CreateRaises PROVE HeldInv'
  BY <1>6 DEF CreateRaises, Goto, Quietly
<1>7. ASSUME Allocate PROVE HeldInv'
  BY <1>7 DEF Allocate, Goto, Quietly
<1>8. ASSUME AllocateFails PROVE HeldInv'
  BY <1>8 DEF AllocateFails, Goto, Quietly
<1>9. ASSUME ReleaseMachine PROVE HeldInv'
  BY <1>9 DEF ReleaseMachine, Goto, Quietly
<1>10. ASSUME ReleaseQueue PROVE HeldInv'
  BY <1>10 DEF ReleaseQueue, Goto, Quietly
<1>11. ASSUME Start PROVE HeldInv'
  BY <1>11 DEF Start, Goto
<1>12. ASSUME Sleep PROVE HeldInv'
  BY <1>12 DEF Sleep, Goto, Quietly
<1>13. ASSUME Dial PROVE HeldInv'
  BY <1>13 DEF Dial, Goto, Quietly
<1>14. ASSUME Encode PROVE HeldInv'
  BY <1>14 DEF Encode, Goto
<1>15. ASSUME DecodeOK PROVE HeldInv'
  BY <1>15 DEF DecodeOK, Goto, Quietly
<1>16. ASSUME Fatal PROVE HeldInv'
  BY <1>16 DEF Fatal, ProcessEnds
<1>17. ASSUME Stop PROVE HeldInv'
  BY <1>17 DEF Stop, Goto, SwitchOff
<1>18. ASSUME Close PROVE HeldInv'
  BY <1>18 DEF Close, ProcessEnds
<1>19. ASSUME Interrupt PROVE HeldInv'
  BY <1>19 DEF Interrupt, ProcessEnds, Goto, Quietly
<1>20. ASSUME NextSession PROVE HeldInv'
  BY <1>20 DEF NextSession, Goto
<1>21. ASSUME Boot PROVE HeldInv'
  BY <1>21 DEF Boot, GuestGoes
<1>22. ASSUME MakeBundle PROVE HeldInv'
  BY <1>22 DEF MakeBundle, GuestGoes, UnusedNames
<1>23. ASSUME PrepareFails PROVE HeldInv'
  BY <1>23 DEF PrepareFails, GuestGoes
<1>24. ASSUME AnswerRun PROVE HeldInv'
  BY <1>24 DEF AnswerRun, GuestGoes
<1>25. ASSUME Panic PROVE HeldInv'
  BY <1>25 DEF Panic
<1>26. ASSUME Flush PROVE HeldInv'
  BY <1>26 DEF Flush
<1>27. CASE UNCHANGED vars
  BY <1>27
<1> QED
  BY <1>1, <1>2, <1>3, <1>4, <1>5, <1>6, <1>7, <1>8, <1>9, <1>10, <1>11, <1>12,
     <1>13, <1>14, <1>15, <1>16, <1>17, <1>18, <1>19, <1>20, <1>21, <1>22, <1>23, <1>24,
     <1>25, <1>26, <1>27
  DEF Next, ClientStep, GuestStep

\* No step changes the size of a machine that has been checked.
LEMMA SizePreserved ==
    ASSUME TypeOK, SizeInv, [Next]_vars
    PROVE  SizeInv'
<1> USE DEF SizeInv, Created, Configuration, MemorySize,
        vars, client, native, system, history
<1>1. ASSUME ParseFlags PROVE SizeInv'
  BY <1>1 DEF ParseFlags, ProcessEnds, Quietly
<1>2. ASSUME Validate PROVE SizeInv'
  BY <1>2 DEF Validate, ValidConfig, ProcessEnds, Quietly
<1>3. ASSUME BuildFails PROVE SizeInv'
  BY <1>3 DEF BuildFails, ProcessEnds
<1>4. ASSUME CreateQueue PROVE SizeInv'
  BY <1>4 DEF CreateQueue, Goto, Quietly
<1>5. ASSUME CreateMachine PROVE SizeInv'
  BY <1>5 DEF CreateMachine, Goto, Quietly
<1>6. ASSUME CreateRaises PROVE SizeInv'
  BY <1>6 DEF CreateRaises, Goto, Quietly
<1>7. ASSUME Allocate PROVE SizeInv'
  BY <1>7 DEF Allocate, Goto, Quietly
<1>8. ASSUME AllocateFails PROVE SizeInv'
  BY <1>8 DEF AllocateFails, Goto, Quietly
<1>9. ASSUME ReleaseMachine PROVE SizeInv'
  BY <1>9 DEF ReleaseMachine, Goto, Quietly
<1>10. ASSUME ReleaseQueue PROVE SizeInv'
  BY <1>10 DEF ReleaseQueue, Goto, Quietly
<1>11. ASSUME Start PROVE SizeInv'
  BY <1>11 DEF Start, Goto
<1>12. ASSUME Sleep PROVE SizeInv'
  BY <1>12 DEF Sleep, Goto, Quietly
<1>13. ASSUME Dial PROVE SizeInv'
  BY <1>13 DEF Dial, Goto, Quietly
<1>14. ASSUME Encode PROVE SizeInv'
  BY <1>14 DEF Encode, Goto
<1>15. ASSUME DecodeOK PROVE SizeInv'
  BY <1>15 DEF DecodeOK, Goto, Quietly
<1>16. ASSUME Fatal PROVE SizeInv'
  BY <1>16 DEF Fatal, ProcessEnds
<1>17. ASSUME Stop PROVE SizeInv'
  BY <1>17 DEF Stop, Goto, SwitchOff
<1>18. ASSUME Close PROVE SizeInv'
  BY <1>18 DEF Close, ProcessEnds
<1>19. ASSUME Interrupt PROVE SizeInv'
  BY <1>19 DEF Interrupt, ProcessEnds, Goto, Quietly
<1>20. ASSUME NextSession PROVE SizeInv'
  BY <1>20 DEF NextSession, Goto
<1>21. ASSUME Boot PROVE SizeInv'
  BY <1>21 DEF Boot, GuestGoes
<1>22. ASSUME MakeBundle PROVE SizeInv'
  BY <1>22 DEF MakeBundle, GuestGoes, UnusedNames
<1>23. ASSUME PrepareFails PROVE SizeInv'
  BY <1>23 DEF PrepareFails, GuestGoes
<1>24. ASSUME AnswerRun PROVE SizeInv'
  BY <1>24 DEF AnswerRun, GuestGoes
<1>25. ASSUME Panic PROVE SizeInv'
  BY <1>25 DEF Panic
<1>26. ASSUME Flush PROVE SizeInv'
  BY <1>26 DEF Flush
<1>27. CASE UNCHANGED vars
  BY <1>27
<1> QED
  BY <1>1, <1>2, <1>3, <1>4, <1>5, <1>6, <1>7, <1>8, <1>9, <1>10, <1>11, <1>12,
     <1>13, <1>14, <1>15, <1>16, <1>17, <1>18, <1>19, <1>20, <1>21, <1>22, <1>23, <1>24,
     <1>25, <1>26, <1>27
  DEF Next, ClientStep, GuestStep

\* IInv holds in every reachable state.
LEMMA Invariance == Spec => []IInv
<1>1. Init => IInv
  <2> SUFFICES ASSUME Init PROVE IInv
    OBVIOUS
  <2>1. TypeOK
    BY SessionAssumption, WidthAssumption DEF Init, TypeOK
  <2>2. PowerInv /\ DiskInv /\ AnswerInv
    BY DEF Init, PowerInv, DiskInv, LeftoverHasCause, AnswerInv, OutputIsGenuine
  <2>3. HeldInv /\ SizeInv
    BY DEF Init, HeldInv, SizeInv, Created
  <2> QED
    BY <2>1, <2>2, <2>3 DEF IInv
<1>2. IInv /\ [Next]_vars => IInv'
  BY TypePreserved, PowerPreserved, DiskPreserved, AnswerPreserved, HeldPreserved,
     SizePreserved
  DEF IInv
<1> QED
  BY <1>1, <1>2, PTL DEF Spec

-----------------------------------------------------------------------------
\* Every variable has its type; a machine never has more than the native
\* configuration can hold.
THEOREM TypeCorrect == Spec => []TypeOK
  BY Invariance, PTL DEF IInv

\* A workload's root has the files of its own image and of nothing else, however
\* earlier sessions have ended (image.go:206-213).
THEOREM RootfsStaysFresh == Spec => []RootfsIsFresh
<1>1. IInv => RootfsIsFresh
  BY DEF IInv, PowerInv, RootfsIsFresh
<1> QED
  BY <1>1, Invariance, PTL

\* The client shows output only of a workload of this session that has succeeded
\* (main.go:95-105).
THEOREM OutputStaysGenuine == Spec => []OutputIsGenuine
  BY Invariance, PTL DEF IInv, AnswerInv

\* A bundle stays on the disk only of a session that was switched off while it
\* was in use, or whose removal failed (image.go:216, 244).
THEOREM LeftoversHaveCause == Spec => []LeftoverHasCause
  BY Invariance, PTL DEF IInv, DiskInv

\* Native objects exist all three or not at all outside of a creation, and all three
\* wherever a machine is on, unless a creation has ended by an exception
\* (applevm_bridge_darwin.m:223-247).
THEOREM HandleKeepsObjects == Spec => []HandleOwnsObjects
<1>1. IInv => HandleOwnsObjects
  BY DEF IInv, TypeOK, PowerInv, HeldInv, HandleOwnsObjects, AllObjects, Creating, Created
<1> QED
  BY <1>1, Invariance, PTL

\* A number below its width is not changed by the conversion to it.
LEMMA Fits ==
    ASSUME NEW n \in Nat, NEW width \in Nat \ {0}, n < width
    PROVE  n % width = n
  OBVIOUS

\* A machine that is on has a processor and memory, and as much of both as its command
\* line asks for, except for numbers beyond the widths (main.go:41, bridge_darwin.go:44).
THEOREM MachineStaysAsAsked == Spec => []MachineAsAsked
<1>1. IInv => MachineAsAsked
  <2> SUFFICES ASSUME IInv, guest # "off"
               PROVE  /\ machine.cpus # 0 /\ machine.memory # 0
                      /\ options.cpus < CpuLimit => machine.cpus = options.cpus
                      /\ options.memoryMiB * MiB < MemoryLimit =>
                            machine.memory = options.memoryMiB * MiB
    BY DEF MachineAsAsked
  <2>1. place \in Created
    BY DEF IInv, TypeOK, PowerInv, Creating, Created
  <2>2. machine = Configuration /\ machine.cpus # 0 /\ machine.memory # 0
    BY <2>1 DEF IInv, SizeInv
  <2>3. /\ CpuLimit \in Nat \ {0} /\ MemoryLimit \in Nat \ {0} /\ MiB \in Nat
        /\ options.cpus \in Nat /\ options.memoryMiB \in Nat
    BY WidthAssumption, OptionsAssumption DEF IInv, TypeOK
  <2>4. options.memoryMiB * MiB \in Nat
    BY <2>3
  <2>5. options.cpus < CpuLimit => options.cpus % CpuLimit = options.cpus
    BY <2>3, Fits
  <2>6. options.memoryMiB * MiB < MemoryLimit =>
            (options.memoryMiB * MiB) % MemoryLimit = options.memoryMiB * MiB
    BY <2>3, <2>4, Fits
  <2> QED
    BY <2>2, <2>5, <2>6 DEF Configuration, MemorySize
<1> QED
  BY <1>1, Invariance, PTL
=============================================================================
