----------------------------- MODULE AppleVMProofs -----------------------------
(***************************************************************************)
(* Proofs about AppleVM, for any number of goroutines.                     *)
(*                                                                         *)
(* The inductive invariant IInv has five parts besides the types: who      *)
(* holds the mutex of the VM, what the native handle is worth, how the     *)
(* waiter's mutex is shared between a caller and its handler, what a       *)
(* finished waiter contains, and what the machine does for whom.           *)
(***************************************************************************)
EXTENDS AppleVM, FiniteSetTheorems, TLAPS

Waiting == {"waitLock", "test", "asleep", "leave"}

MutexInv ==
    /\ \A c \in Callers : c \in mutex <=> pc[c] \notin {"idle", "lock"}
    /\ \A c, d \in mutex : c = d

NativeInv ==
    /\ handle = "live" <=> native
    /\ \A c \in Callers :
           /\ pc[c] \in Bridge \cup {"destroy"} => native
           /\ pc[c] \in Bridge => op[c] # "close"
           /\ pc[c] = "destroy" => op[c] = "close"

WaiterInv ==
    \A c \in Callers :
        /\ c \in frames <=> pc[c] \in Waiting
        /\ handler[c] # "none" => pc[c] \in Waiting \ {"leave"}
        /\ waiterLock[c] = "handler" <=> handler[c] \in {"store", "signal", "unlock"}
        /\ waiterLock[c] = "caller" <=> pc[c] = "test"
        /\ handler[c] \in {"queued", "framework", "lock", "store"} => c \notin finished
        /\ pc[c] = "leave" => c \in finished

\* What the waiter of c contains once it is finished.
Faithful(c) ==
    /\ verdict[c] \in {"ok", "error"}
    /\ verdict[c] = "ok" => c \notin message
    /\ verdict[c] = "ok" /\ op[c] = "dial" => c \in descriptors
    /\ verdict[c] = "error" => c \notin descriptors /\ (c \in message \/ oom)

VerdictInv ==
    \A c \in Callers :
        /\ handler[c] \in {"lock", "store"} => verdict[c] \in {"ok", "error"}
        /\ c \in frames /\ c \notin finished => c \notin message /\ c \notin descriptors
        /\ c \in frames /\ c \in finished => Faithful(c)
        /\ Settled(c) /\ op[c] # "close" =>
               result[c] = verdict[c] \/ (oom /\ op[c] # "dial" /\ verdict[c] = "error")
        /\ pc[c] \in {"lock", "enter", "destroy"} \cup Bridge => result[c] = "none"

\* What the machine does is what the call whose turn it is has asked for.
TurnInv ==
    /\ native <=> machine # "released"
    /\ oom => MemoryMayRunOut
    /\ \A c \in Callers :
           /\ handler[c] = "framework" /\ op[c] = "start" => machine = "starting"
           /\ handler[c] = "framework" /\ op[c] = "stop" => machine = "stopping"
           /\ c \in frames \ finished => handler[c] \notin {"none", "signal", "unlock"}

IInv == TypeOK /\ MutexInv /\ NativeInv /\ WaiterInv /\ VerdictInv /\ TurnInv

-----------------------------------------------------------------------------
\* Every step keeps the types.
LEMMA TypePreserved ==
    ASSUME TypeOK, [Next]_vars
    PROVE  TypeOK'
<1> USE DEF TypeOK, Methods, Bridge, Places, HandlerPlaces, vars, callVars,
        vmVars, handlerVars, slotVars, waiterVars
<1>1. ASSUME NEW c \in Callers, NEW m \in Methods, Invoke(c, m) PROVE TypeOK'
  BY <1>1 DEF Invoke, Return, Goto
<1>2. ASSUME NEW c \in Callers, LockMutex(c) PROVE TypeOK'
  BY <1>2 DEF LockMutex, Goto
<1>3. ASSUME NEW c \in Callers, EnterClosed(c) PROVE TypeOK'
  BY <1>3 DEF EnterClosed, Return, Goto
<1>4. ASSUME NEW c \in Callers, EnterOpen(c) PROVE TypeOK'
  BY <1>4 DEF EnterOpen, Goto
<1>5. ASSUME NEW c \in Callers, Destroy(c) PROVE TypeOK'
  BY <1>5 DEF Destroy, Return, Goto
<1>6. ASSUME NEW c \in Callers, UnlockMutex(c) PROVE TypeOK'
  BY <1>6 DEF UnlockMutex, Goto
<1>7. ASSUME NEW c \in Callers, Submit(c) PROVE TypeOK'
  BY <1>7 DEF Submit, Goto
<1>8. ASSUME NEW c \in Callers, AcquireWaiter(c) PROVE TypeOK'
  BY <1>8 DEF AcquireWaiter, Goto
<1>9. ASSUME NEW c \in Callers, TestFinished(c) PROVE TypeOK'
  BY <1>9 DEF TestFinished, Sleep, Goto
<1>10. ASSUME NEW c \in Callers, WakeUp(c) PROVE TypeOK'
  BY <1>10 DEF WakeUp, Goto
<1>11. ASSUME NEW c \in Callers, SpuriousWakeUp(c) PROVE TypeOK'
  BY <1>11 DEF SpuriousWakeUp
<1>12. ASSUME NEW c \in Callers, Leave(c) PROVE TypeOK'
  BY <1>12 DEF Leave, Return, Outcome, Goto
<1>13. ASSUME NEW c \in Callers, BeginOperation(c) PROVE TypeOK'
  BY <1>13 DEF BeginOperation, MoveHandler, CanStart, CanStop
<1>14. ASSUME NEW c \in Callers, RefuseOperation(c) PROVE TypeOK'
  BY <1>14 DEF RefuseOperation, MoveHandler, Decide, CanStart, CanStop
<1>15. ASSUME NEW c \in Callers, Complete(c) PROVE TypeOK'
  BY <1>15 DEF Complete, MoveHandler, Decide
<1>16. ASSUME NEW c \in Callers, HandlerLocks(c) PROVE TypeOK'
  BY <1>16 DEF HandlerLocks, MoveHandler
<1>17. ASSUME NEW c \in Callers, HandlerStores(c) PROVE TypeOK'
  <2>1. handler' \in [Callers -> HandlerPlaces]
    BY <1>17 DEF HandlerStores, MoveHandler, Afterwards
  <2>2. {frames, finished, message, descriptors, asleep}' \subseteq SUBSET Callers
    BY <1>17 DEF HandlerStores
  <2>3. oom' \in BOOLEAN
    BY <1>17 DEF HandlerStores
  <2> QED
    BY <1>17, <2>1, <2>2, <2>3 DEF HandlerStores
<1>18. ASSUME NEW c \in Callers, HandlerSignals(c) PROVE TypeOK'
  BY <1>18 DEF HandlerSignals, MoveHandler, Afterwards
<1>19. ASSUME NEW c \in Callers, HandlerUnlocks(c) PROVE TypeOK'
  BY <1>19 DEF HandlerUnlocks, MoveHandler, Afterwards
<1>20. ASSUME GuestStops PROVE TypeOK'
  BY <1>20 DEF GuestStops
<1>21. CASE UNCHANGED vars
  BY <1>21
<1> QED
  BY <1>1, <1>2, <1>3, <1>4, <1>5, <1>6, <1>7, <1>8, <1>9, <1>10, <1>11,
          <1>12, <1>13, <1>14, <1>15, <1>16, <1>17, <1>18, <1>19, <1>20, <1>21
          DEF Next, CallerStep, HandlerStep

\* The mutex has one holder, who is between lock and unlock.
LEMMA MutexPreserved ==
    ASSUME TypeOK, MutexInv, [Next]_vars
    PROVE  MutexInv'
<1> USE DEF TypeOK, Methods, Bridge, Places, HandlerPlaces, MutexInv, vars,
        callVars, vmVars, handlerVars, slotVars, waiterVars
<1>1. ASSUME NEW c \in Callers, NEW m \in Methods, Invoke(c, m) PROVE MutexInv'
  BY <1>1 DEF Invoke, Return, Goto
<1>2. ASSUME NEW c \in Callers, LockMutex(c) PROVE MutexInv'
  BY <1>2 DEF LockMutex, Goto
<1>3. ASSUME NEW c \in Callers, EnterClosed(c) PROVE MutexInv'
  BY <1>3 DEF EnterClosed, Return, Goto
<1>4. ASSUME NEW c \in Callers, EnterOpen(c) PROVE MutexInv'
  BY <1>4 DEF EnterOpen, Goto
<1>5. ASSUME NEW c \in Callers, Destroy(c) PROVE MutexInv'
  BY <1>5 DEF Destroy, Return, Goto
<1>6. ASSUME NEW c \in Callers, UnlockMutex(c) PROVE MutexInv'
  BY <1>6 DEF UnlockMutex, Goto
<1>7. ASSUME NEW c \in Callers, Submit(c) PROVE MutexInv'
  BY <1>7 DEF Submit, Goto
<1>8. ASSUME NEW c \in Callers, AcquireWaiter(c) PROVE MutexInv'
  BY <1>8 DEF AcquireWaiter, Goto
<1>9. ASSUME NEW c \in Callers, TestFinished(c) PROVE MutexInv'
  BY <1>9 DEF TestFinished, Sleep, Goto
<1>10. ASSUME NEW c \in Callers, WakeUp(c) PROVE MutexInv'
  BY <1>10 DEF WakeUp, Goto
<1>11. ASSUME NEW c \in Callers, SpuriousWakeUp(c) PROVE MutexInv'
  BY <1>11 DEF SpuriousWakeUp
<1>12. ASSUME NEW c \in Callers, Leave(c) PROVE MutexInv'
  BY <1>12 DEF Leave, Return, Outcome, Goto
<1>13. ASSUME NEW c \in Callers, BeginOperation(c) PROVE MutexInv'
  BY <1>13 DEF BeginOperation, MoveHandler, CanStart, CanStop
<1>14. ASSUME NEW c \in Callers, RefuseOperation(c) PROVE MutexInv'
  BY <1>14 DEF RefuseOperation, MoveHandler, Decide, CanStart, CanStop
<1>15. ASSUME NEW c \in Callers, Complete(c) PROVE MutexInv'
  BY <1>15 DEF Complete, MoveHandler, Decide
<1>16. ASSUME NEW c \in Callers, HandlerLocks(c) PROVE MutexInv'
  BY <1>16 DEF HandlerLocks, MoveHandler
<1>17. ASSUME NEW c \in Callers, HandlerStores(c) PROVE MutexInv'
  BY <1>17 DEF HandlerStores, MoveHandler, Afterwards
<1>18. ASSUME NEW c \in Callers, HandlerSignals(c) PROVE MutexInv'
  BY <1>18 DEF HandlerSignals, MoveHandler, Afterwards
<1>19. ASSUME NEW c \in Callers, HandlerUnlocks(c) PROVE MutexInv'
  BY <1>19 DEF HandlerUnlocks, MoveHandler, Afterwards
<1>20. ASSUME GuestStops PROVE MutexInv'
  BY <1>20 DEF GuestStops
<1>21. CASE UNCHANGED vars
  BY <1>21
<1> QED
  BY <1>1, <1>2, <1>3, <1>4, <1>5, <1>6, <1>7, <1>8, <1>9, <1>10, <1>11,
          <1>12, <1>13, <1>14, <1>15, <1>16, <1>17, <1>18, <1>19, <1>20, <1>21
          DEF Next, CallerStep, HandlerStep

\* The handle lives as long as the VM is not closed, and only the holder of the mutex
\* closes it.
LEMMA NativePreserved ==
    ASSUME TypeOK, MutexInv, NativeInv, [Next]_vars
    PROVE  NativeInv'
<1> USE DEF TypeOK, Methods, Bridge, Places, HandlerPlaces, MutexInv, NativeInv,
        vars, callVars, vmVars, handlerVars, slotVars, waiterVars
<1>1. ASSUME NEW c \in Callers, NEW m \in Methods, Invoke(c, m) PROVE NativeInv'
  BY <1>1 DEF Invoke, Return, Goto
<1>2. ASSUME NEW c \in Callers, LockMutex(c) PROVE NativeInv'
  BY <1>2 DEF LockMutex, Goto
<1>3. ASSUME NEW c \in Callers, EnterClosed(c) PROVE NativeInv'
  BY <1>3 DEF EnterClosed, Return, Goto
<1>4. ASSUME NEW c \in Callers, EnterOpen(c) PROVE NativeInv'
  BY <1>4 DEF EnterOpen, Goto
<1>5. ASSUME NEW c \in Callers, Destroy(c) PROVE NativeInv'
  BY <1>5 DEF Destroy, Return, Goto
<1>6. ASSUME NEW c \in Callers, UnlockMutex(c) PROVE NativeInv'
  BY <1>6 DEF UnlockMutex, Goto
<1>7. ASSUME NEW c \in Callers, Submit(c) PROVE NativeInv'
  BY <1>7 DEF Submit, Goto
<1>8. ASSUME NEW c \in Callers, AcquireWaiter(c) PROVE NativeInv'
  BY <1>8 DEF AcquireWaiter, Goto
<1>9. ASSUME NEW c \in Callers, TestFinished(c) PROVE NativeInv'
  BY <1>9 DEF TestFinished, Sleep, Goto
<1>10. ASSUME NEW c \in Callers, WakeUp(c) PROVE NativeInv'
  BY <1>10 DEF WakeUp, Goto
<1>11. ASSUME NEW c \in Callers, SpuriousWakeUp(c) PROVE NativeInv'
  BY <1>11 DEF SpuriousWakeUp
<1>12. ASSUME NEW c \in Callers, Leave(c) PROVE NativeInv'
  BY <1>12 DEF Leave, Return, Outcome, Goto
<1>13. ASSUME NEW c \in Callers, BeginOperation(c) PROVE NativeInv'
  BY <1>13 DEF BeginOperation, MoveHandler, CanStart, CanStop
<1>14. ASSUME NEW c \in Callers, RefuseOperation(c) PROVE NativeInv'
  BY <1>14 DEF RefuseOperation, MoveHandler, Decide, CanStart, CanStop
<1>15. ASSUME NEW c \in Callers, Complete(c) PROVE NativeInv'
  BY <1>15 DEF Complete, MoveHandler, Decide
<1>16. ASSUME NEW c \in Callers, HandlerLocks(c) PROVE NativeInv'
  BY <1>16 DEF HandlerLocks, MoveHandler
<1>17. ASSUME NEW c \in Callers, HandlerStores(c) PROVE NativeInv'
  BY <1>17 DEF HandlerStores, MoveHandler, Afterwards
<1>18. ASSUME NEW c \in Callers, HandlerSignals(c) PROVE NativeInv'
  BY <1>18 DEF HandlerSignals, MoveHandler, Afterwards
<1>19. ASSUME NEW c \in Callers, HandlerUnlocks(c) PROVE NativeInv'
  BY <1>19 DEF HandlerUnlocks, MoveHandler, Afterwards
<1>20. ASSUME GuestStops PROVE NativeInv'
  BY <1>20 DEF GuestStops
<1>21. CASE UNCHANGED vars
  BY <1>21
<1> QED
  BY <1>1, <1>2, <1>3, <1>4, <1>5, <1>6, <1>7, <1>8, <1>9, <1>10, <1>11,
          <1>12, <1>13, <1>14, <1>15, <1>16, <1>17, <1>18, <1>19, <1>20, <1>21
          DEF Next, CallerStep, HandlerStep

\* A caller and its handler exclude each other on the waiter.
LEMMA WaiterPreserved ==
    ASSUME TypeOK, WaiterInv, [Next]_vars
    PROVE  WaiterInv'
<1> USE DEF TypeOK, Methods, Bridge, Places, HandlerPlaces, Waiting, WaiterInv,
        vars, callVars, vmVars, handlerVars, slotVars, waiterVars
<1>1. ASSUME NEW c \in Callers, NEW m \in Methods, Invoke(c, m) PROVE WaiterInv'
  BY <1>1 DEF Invoke, Return, Goto
<1>2. ASSUME NEW c \in Callers, LockMutex(c) PROVE WaiterInv'
  BY <1>2 DEF LockMutex, Goto
<1>3. ASSUME NEW c \in Callers, EnterClosed(c) PROVE WaiterInv'
  BY <1>3 DEF EnterClosed, Return, Goto
<1>4. ASSUME NEW c \in Callers, EnterOpen(c) PROVE WaiterInv'
  BY <1>4 DEF EnterOpen, Goto
<1>5. ASSUME NEW c \in Callers, Destroy(c) PROVE WaiterInv'
  BY <1>5 DEF Destroy, Return, Goto
<1>6. ASSUME NEW c \in Callers, UnlockMutex(c) PROVE WaiterInv'
  BY <1>6 DEF UnlockMutex, Goto
<1>7. ASSUME NEW c \in Callers, Submit(c) PROVE WaiterInv'
  BY <1>7 DEF Submit, Goto
<1>8. ASSUME NEW c \in Callers, AcquireWaiter(c) PROVE WaiterInv'
  BY <1>8 DEF AcquireWaiter, Goto
<1>9. ASSUME NEW c \in Callers, TestFinished(c) PROVE WaiterInv'
  BY <1>9 DEF TestFinished, Sleep, Goto
<1>10. ASSUME NEW c \in Callers, WakeUp(c) PROVE WaiterInv'
  BY <1>10 DEF WakeUp, Goto
<1>11. ASSUME NEW c \in Callers, SpuriousWakeUp(c) PROVE WaiterInv'
  BY <1>11 DEF SpuriousWakeUp
<1>12. ASSUME NEW c \in Callers, Leave(c) PROVE WaiterInv'
  BY <1>12 DEF Leave, Return, Outcome, Goto
<1>13. ASSUME NEW c \in Callers, BeginOperation(c) PROVE WaiterInv'
  BY <1>13 DEF BeginOperation, MoveHandler, CanStart, CanStop
<1>14. ASSUME NEW c \in Callers, RefuseOperation(c) PROVE WaiterInv'
  BY <1>14 DEF RefuseOperation, MoveHandler, Decide, CanStart, CanStop
<1>15. ASSUME NEW c \in Callers, Complete(c) PROVE WaiterInv'
  BY <1>15 DEF Complete, MoveHandler, Decide
<1>16. ASSUME NEW c \in Callers, HandlerLocks(c) PROVE WaiterInv'
  BY <1>16 DEF HandlerLocks, MoveHandler
<1>17. ASSUME NEW c \in Callers, HandlerStores(c) PROVE WaiterInv'
  BY <1>17 DEF HandlerStores, MoveHandler, Afterwards
<1>18. ASSUME NEW c \in Callers, HandlerSignals(c) PROVE WaiterInv'
  BY <1>18 DEF HandlerSignals, MoveHandler, Afterwards
<1>19. ASSUME NEW c \in Callers, HandlerUnlocks(c) PROVE WaiterInv'
  BY <1>19 DEF HandlerUnlocks, MoveHandler, Afterwards
<1>20. ASSUME GuestStops PROVE WaiterInv'
  BY <1>20 DEF GuestStops
<1>21. CASE UNCHANGED vars
  BY <1>21
<1> QED
  BY <1>1, <1>2, <1>3, <1>4, <1>5, <1>6, <1>7, <1>8, <1>9, <1>10, <1>11,
          <1>12, <1>13, <1>14, <1>15, <1>16, <1>17, <1>18, <1>19, <1>20, <1>21
          DEF Next, CallerStep, HandlerStep

\* A finished waiter carries the verdict to the result.
LEMMA VerdictPreserved ==
    ASSUME TypeOK, NativeInv, WaiterInv, VerdictInv, [Next]_vars
    PROVE  VerdictInv'
<1> USE DEF TypeOK, Methods, Bridge, Places, HandlerPlaces, Waiting, NativeInv,
        WaiterInv, VerdictInv, Faithful, Settled, vars, callVars, vmVars,
        handlerVars, slotVars, waiterVars
<1>1. ASSUME NEW c \in Callers, NEW m \in Methods, Invoke(c, m) PROVE VerdictInv'
  BY <1>1 DEF Invoke, Return, Goto
<1>2. ASSUME NEW c \in Callers, LockMutex(c) PROVE VerdictInv'
  BY <1>2 DEF LockMutex, Goto
<1>3. ASSUME NEW c \in Callers, EnterClosed(c) PROVE VerdictInv'
  BY <1>3 DEF EnterClosed, Return, Goto
<1>4. ASSUME NEW c \in Callers, EnterOpen(c) PROVE VerdictInv'
  BY <1>4 DEF EnterOpen, Goto
<1>5. ASSUME NEW c \in Callers, Destroy(c) PROVE VerdictInv'
  BY <1>5 DEF Destroy, Return, Goto
<1>6. ASSUME NEW c \in Callers, UnlockMutex(c) PROVE VerdictInv'
  BY <1>6 DEF UnlockMutex, Goto
<1>7. ASSUME NEW c \in Callers, Submit(c) PROVE VerdictInv'
  BY <1>7 DEF Submit, Goto
<1>8. ASSUME NEW c \in Callers, AcquireWaiter(c) PROVE VerdictInv'
  BY <1>8 DEF AcquireWaiter, Goto
<1>9. ASSUME NEW c \in Callers, TestFinished(c) PROVE VerdictInv'
  BY <1>9 DEF TestFinished, Sleep, Goto
<1>10. ASSUME NEW c \in Callers, WakeUp(c) PROVE VerdictInv'
  BY <1>10 DEF WakeUp, Goto
<1>11. ASSUME NEW c \in Callers, SpuriousWakeUp(c) PROVE VerdictInv'
  BY <1>11 DEF SpuriousWakeUp
<1>12. ASSUME NEW c \in Callers, Leave(c) PROVE VerdictInv'
  BY <1>12 DEF Leave, Return, Outcome, Goto
<1>13. ASSUME NEW c \in Callers, BeginOperation(c) PROVE VerdictInv'
  BY <1>13 DEF BeginOperation, MoveHandler, CanStart, CanStop
<1>14. ASSUME NEW c \in Callers, RefuseOperation(c) PROVE VerdictInv'
  BY <1>14 DEF RefuseOperation, MoveHandler, Decide, CanStart, CanStop
<1>15. ASSUME NEW c \in Callers, Complete(c) PROVE VerdictInv'
  BY <1>15 DEF Complete, MoveHandler, Decide
<1>16. ASSUME NEW c \in Callers, HandlerLocks(c) PROVE VerdictInv'
  BY <1>16 DEF HandlerLocks, MoveHandler
<1>17. ASSUME NEW c \in Callers, HandlerStores(c) PROVE VerdictInv'
  BY <1>17 DEF HandlerStores, MoveHandler, Afterwards
<1>18. ASSUME NEW c \in Callers, HandlerSignals(c) PROVE VerdictInv'
  BY <1>18 DEF HandlerSignals, MoveHandler, Afterwards
<1>19. ASSUME NEW c \in Callers, HandlerUnlocks(c) PROVE VerdictInv'
  BY <1>19 DEF HandlerUnlocks, MoveHandler, Afterwards
<1>20. ASSUME GuestStops PROVE VerdictInv'
  BY <1>20 DEF GuestStops
<1>21. CASE UNCHANGED vars
  BY <1>21
<1> QED
  BY <1>1, <1>2, <1>3, <1>4, <1>5, <1>6, <1>7, <1>8, <1>9, <1>10, <1>11,
          <1>12, <1>13, <1>14, <1>15, <1>16, <1>17, <1>18, <1>19, <1>20, <1>21
          DEF Next, CallerStep, HandlerStep

\* Only the call whose turn it is moves the machine, and every waiter in use gets finished.
LEMMA TurnPreserved ==
    ASSUME TypeOK, MutexInv, NativeInv, WaiterInv, TurnInv, [Next]_vars
    PROVE  TurnInv'
<1> USE DEF TypeOK, Methods, Bridge, Places, HandlerPlaces, MutexInv, NativeInv,
        Waiting, WaiterInv, TurnInv, vars, callVars, vmVars, handlerVars, slotVars, waiterVars
<1>1. ASSUME NEW c \in Callers, NEW m \in Methods, Invoke(c, m) PROVE TurnInv'
  BY <1>1 DEF Invoke, Return, Goto
<1>2. ASSUME NEW c \in Callers, LockMutex(c) PROVE TurnInv'
  BY <1>2 DEF LockMutex, Goto
<1>3. ASSUME NEW c \in Callers, EnterClosed(c) PROVE TurnInv'
  BY <1>3 DEF EnterClosed, Return, Goto
<1>4. ASSUME NEW c \in Callers, EnterOpen(c) PROVE TurnInv'
  BY <1>4 DEF EnterOpen, Goto
<1>5. ASSUME NEW c \in Callers, Destroy(c) PROVE TurnInv'
  BY <1>5 DEF Destroy, Return, Goto
<1>6. ASSUME NEW c \in Callers, UnlockMutex(c) PROVE TurnInv'
  BY <1>6 DEF UnlockMutex, Goto
<1>7. ASSUME NEW c \in Callers, Submit(c) PROVE TurnInv'
  BY <1>7 DEF Submit, Goto
<1>8. ASSUME NEW c \in Callers, AcquireWaiter(c) PROVE TurnInv'
  BY <1>8 DEF AcquireWaiter, Goto
<1>9. ASSUME NEW c \in Callers, TestFinished(c) PROVE TurnInv'
  BY <1>9 DEF TestFinished, Sleep, Goto
<1>10. ASSUME NEW c \in Callers, WakeUp(c) PROVE TurnInv'
  BY <1>10 DEF WakeUp, Goto
<1>11. ASSUME NEW c \in Callers, SpuriousWakeUp(c) PROVE TurnInv'
  BY <1>11 DEF SpuriousWakeUp
<1>12. ASSUME NEW c \in Callers, Leave(c) PROVE TurnInv'
  BY <1>12 DEF Leave, Return, Outcome, Goto
<1>13. ASSUME NEW c \in Callers, BeginOperation(c) PROVE TurnInv'
  BY <1>13 DEF BeginOperation, MoveHandler, CanStart, CanStop
<1>14. ASSUME NEW c \in Callers, RefuseOperation(c) PROVE TurnInv'
  BY <1>14 DEF RefuseOperation, MoveHandler, Decide, CanStart, CanStop
<1>15. ASSUME NEW c \in Callers, Complete(c) PROVE TurnInv'
  BY <1>15 DEF Complete, MoveHandler, Decide
<1>16. ASSUME NEW c \in Callers, HandlerLocks(c) PROVE TurnInv'
  BY <1>16 DEF HandlerLocks, MoveHandler
<1>17. ASSUME NEW c \in Callers, HandlerStores(c) PROVE TurnInv'
  BY <1>17 DEF HandlerStores, MoveHandler, Afterwards
<1>18. ASSUME NEW c \in Callers, HandlerSignals(c) PROVE TurnInv'
  BY <1>18 DEF HandlerSignals, MoveHandler, Afterwards
<1>19. ASSUME NEW c \in Callers, HandlerUnlocks(c) PROVE TurnInv'
  BY <1>19 DEF HandlerUnlocks, MoveHandler, Afterwards
<1>20. ASSUME GuestStops PROVE TurnInv'
  BY <1>20 DEF GuestStops
<1>21. CASE UNCHANGED vars
  BY <1>21
<1> QED
  BY <1>1, <1>2, <1>3, <1>4, <1>5, <1>6, <1>7, <1>8, <1>9, <1>10, <1>11,
          <1>12, <1>13, <1>14, <1>15, <1>16, <1>17, <1>18, <1>19, <1>20, <1>21
          DEF Next, CallerStep, HandlerStep

\* The initial states satisfy the invariant.
LEMMA Initially == Init => IInv
<1> SUFFICES ASSUME Init PROVE IInv
  OBVIOUS
<1> USE DEF Init
<1>1. TypeOK
  BY DEF TypeOK, Methods, Bridge, Places, HandlerPlaces
<1>2. MutexInv
  BY DEF MutexInv
<1>3. NativeInv
  BY DEF NativeInv, Bridge
<1>4. WaiterInv
  BY DEF WaiterInv, Waiting
<1>5. VerdictInv
  BY DEF VerdictInv, Settled, Bridge
<1>6. TurnInv
  BY DEF TurnInv
<1> QED
  BY <1>1, <1>2, <1>3, <1>4, <1>5, <1>6 DEF IInv

\* Every step preserves the invariant.
LEMMA IInvPreserved == IInv /\ [Next]_vars => IInv'
BY TypePreserved, MutexPreserved, NativePreserved, WaiterPreserved,
   VerdictPreserved, TurnPreserved DEF IInv

\* The inductive invariant holds in every state of AppleVM.
THEOREM Invariance == Spec => []IInv
BY Initially, IInvPreserved, PTL DEF Spec

\* Every variable has its type (pkg/applevm).
THEOREM TypeCorrect == Spec => []TypeOK
<1>1. IInv => TypeOK
  BY DEF IInv
<1> QED
  BY <1>1, Invariance, PTL

\* No handler touches a waiter that its caller has left
\* (applevm_bridge_darwin.m:69-116).
THEOREM HandlersHaveWaiters == Spec => []WaiterOutlivesHandler
<1>1. IInv => WaiterOutlivesHandler
  BY DEF IInv, WaiterInv, Waiting, WaiterOutlivesHandler
<1> QED
  BY <1>1, Invariance, PTL

\* No call and no operation uses a handle that Close has freed
\* (vm_darwin.go:61-73).
THEOREM HandlesAreLive == Spec => []HandleOutlivesUse
<1>1. IInv => HandleOutlivesUse
  BY DEF IInv, TypeOK, NativeInv, WaiterInv, Waiting, Bridge, HandleOutlivesUse
<1> QED
  BY <1>1, Invariance, PTL

\* A result is the framework's verdict, unless there was no memory for the
\* message of a failed Start or Stop (bridge_darwin.go:61-121).
THEOREM VerdictsAreReported == Spec => []ResultIsVerdict
<1>1. IInv => ResultIsVerdict
  BY DEF IInv, VerdictInv, ResultIsVerdict
<1> QED
  BY <1>1, Invariance, PTL

\* The machine is never asked for two things at once (vm_darwin.go:31-89).
THEOREM OperationsExclude == Spec => []OneOperationAtATime
<1>1. IInv => OneOperationAtATime
  <2> DEFINE Active == {c \in Callers : handler[c] # "none"}
  <2> SUFFICES ASSUME IInv PROVE Cardinality(Active) <= 1
    BY DEF OneOperationAtATime
  <2>1. \A c, d \in Active : c = d
    <3>1. \A c \in Active : c \in mutex
      BY DEF IInv, WaiterInv, Waiting, MutexInv
    <3> QED
      BY <3>1 DEF IInv, MutexInv
  <2>2. CASE Active = {}
    BY <2>2, FS_EmptySet
  <2>3. CASE Active # {}
    <3>1. PICK c : c \in Active
      BY <2>3
    <3>2. Active = {c}
      BY <2>1, <3>1
    <3>3. Cardinality({c}) = 1
      BY FS_Singleton
    <3> QED
      BY <3>2, <3>3
  <2> QED
    BY <2>2, <2>3
<1> QED
  BY <1>1, Invariance, PTL

\* Neither a waiter nor the native handle is used when it is gone, for any number of
\* goroutines (applevm_bridge_darwin.m:69-116, vm_darwin.go:61-73).
THEOREM NothingIsUsedAfterFree == Spec => []NoUseAfterFree
<1>1. WaiterOutlivesHandler /\ HandleOutlivesUse => NoUseAfterFree
  BY DEF NoUseAfterFree
<1> QED
  BY <1>1, HandlersHaveWaiters, HandlesAreLive, PTL
-----------------------------------------------------------------------------
(* The bridge implements MachineContract.                                  *)

\* A call on whose waiter no block and no framework is at work has a verdict.
LEMMA DecidedHasVerdict ==
    ASSUME IInv, NEW c \in Callers, pc[c] \in Waiting,
           handler[c] \notin {"queued", "framework"}
    PROVE  Stage(c) = verdict[c] /\ verdict[c] \in {"ok", "error"}
<1>1. c \in frames /\ handler[c] \in HandlerPlaces
  BY DEF IInv, TypeOK, WaiterInv
<1>2. CASE handler[c] \in {"lock", "store"}
  BY <1>2 DEF IInv, VerdictInv, Stage, Waiting
<1>3. CASE handler[c] \in {"none", "signal", "unlock"}
  <2>1. c \in finished
    BY <1>1, <1>3 DEF IInv, TurnInv
  <2> QED
    BY <1>1, <1>3, <2>1 DEF IInv, VerdictInv, Faithful, Stage, Waiting
<1> QED
  BY <1>1, <1>2, <1>3 DEF HandlerPlaces

\* While the holder of the mutex has not begun its turn, nobody has one.
LEMMA HolderFindsFree ==
    ASSUME IInv, NEW c \in Callers, c \in mutex, Stage(c) = "called"
    PROVE  Contract!Free
<1> SUFFICES ASSUME NEW d \in Callers, Stage(d) \in Contract!Turn PROVE FALSE
  BY DEF Contract!Free
<1>1. d # c
  BY DEF Contract!Turn
<1>2. pc[d] \notin {"idle", "lock"}
  BY DEF Contract!Turn, Stage
<1>3. d \in mutex
  BY <1>2 DEF IInv, MutexInv
<1> QED
  BY <1>1, <1>3 DEF IInv, MutexInv

\* A call moves when its stage changes and no other does.
LEMMA OneMoves ==
    ASSUME NEW c \in Callers, NEW from, NEW to, Stage(c) = from, Stage(c)' = to,
           \A d \in Callers \ {c} : Stage(d)' = Stage(d)
    PROVE  Contract!Move(c, from, to)
BY DEF Contract!Move

\* Nothing that the contract speaks of changes.
LEMMA SameStages ==
    ASSUME \A d \in Callers : Stage(d)' = Stage(d), UNCHANGED << op, result, machine >>
    PROVE  UNCHANGED Contract!contractVars
BY DEF Contract!contractVars

\* Every step of the bridge is a step of the contract, or changes nothing of it.
LEMMA StepKeepsContract ==
    ASSUME IInv, [Next]_vars
    PROVE  [Contract!Next]_(Contract!contractVars)
<1> DEFINE Kept == Contract!Next \/ UNCHANGED Contract!contractVars
<1> USE DEF Contract!Next
<1>0. TypeOK
  BY DEF IInv
<1>1. ASSUME NEW c \in Callers, NEW m \in Methods, Invoke(c, m) PROVE Kept
  <2>1. Contract!Move(c, "idle", "called")
    <3>1. Stage(c) = "idle" /\ Stage(c)' = "called"
      BY <1>0, <1>1 DEF TypeOK, Invoke, Goto, Stage
    <3>2. \A d \in Callers \ {c} : Stage(d)' = Stage(d)
      BY <1>0, <1>1 DEF TypeOK, Invoke, Goto, Stage, handlerVars
    <3> QED
      BY <3>1, <3>2, OneMoves
  <2>2. Contract!Call(c, m)
    BY <1>1, <2>1 DEF Contract!Call, Invoke, Return
  <2> QED
    BY <2>2 DEF Methods
<1>2. ASSUME NEW c \in Callers, LockMutex(c) \/ EnterOpen(c) PROVE Kept
  <2>1. \A d \in Callers : Stage(d)' = Stage(d)
    BY <1>0, <1>2 DEF TypeOK, LockMutex, EnterOpen, Goto, Stage, handlerVars
  <2> QED
    BY <1>2, <2>1, SameStages DEF LockMutex, EnterOpen
<1>3. ASSUME NEW c \in Callers, EnterClosed(c) \/ Destroy(c) PROVE Kept
  <2>1. Contract!Move(c, "called", "idle")
    <3>1. Stage(c) = "called" /\ Stage(c)' = "idle"
      BY <1>0, <1>3 DEF TypeOK, EnterClosed, Destroy, Goto, Stage
    <3>2. \A d \in Callers \ {c} : Stage(d)' = Stage(d)
      BY <1>0, <1>3 DEF TypeOK, EnterClosed, Destroy, Goto, Stage, handlerVars
    <3> QED
      BY <3>1, <3>2, OneMoves
  <2>2. Contract!Free
    <3>1. c \in mutex /\ Stage(c) = "called"
      BY <1>3 DEF IInv, MutexInv, EnterClosed, Destroy, Stage
    <3> QED
      BY <3>1, HolderFindsFree
  <2>3. CASE EnterClosed(c)
    <3>1. machine = "released" /\ UNCHANGED << op, machine >>
      BY <2>3 DEF IInv, TurnInv, EnterClosed
    <3>2. CASE op[c] = "close"
      <4>1. Contract!Close(c)
        BY <2>1, <2>2, <2>3, <3>1, <3>2
           DEF Contract!Close, Contract!Answer, EnterClosed, Return
      <4> QED
        BY <4>1
    <3>3. CASE op[c] # "close"
      <4>1. Contract!AnswerClosed(c)
        BY <2>1, <2>3, <3>1, <3>3
           DEF Contract!AnswerClosed, Contract!Answer, EnterClosed, Return
      <4> QED
        BY <4>1
    <3> QED
      BY <3>2, <3>3
  <2>4. CASE Destroy(c)
    <3>1. op[c] = "close"
      BY <2>4 DEF IInv, NativeInv, Destroy
    <3>2. Contract!Close(c)
      BY <2>1, <2>2, <2>4, <3>1 DEF Contract!Close, Contract!Answer, Destroy, Return
    <3> QED
      BY <3>2
  <2> QED
    BY <1>3, <2>3, <2>4
<1>4. ASSUME NEW c \in Callers, UnlockMutex(c) PROVE Kept
  <2>1. \A d \in Callers : Stage(d)' = Stage(d)
    BY <1>0, <1>4 DEF TypeOK, UnlockMutex, Goto, Stage, handlerVars
  <2> QED
    BY <1>4, <2>1, SameStages DEF UnlockMutex
<1>5. ASSUME NEW c \in Callers, Submit(c) PROVE Kept
  <2>1. \A d \in Callers : Stage(d)' = Stage(d)
    BY <1>0, <1>5 DEF TypeOK, Submit, Goto, Stage
  <2> QED
    BY <1>5, <2>1, SameStages DEF Submit
<1>6. ASSUME NEW c \in Callers, AcquireWaiter(c) \/ TestFinished(c) \/ WakeUp(c)
      PROVE Kept
  <2>1. {pc[c], pc'[c]} \subseteq {"waitLock", "test", "asleep", "leave"}
    BY <1>0, <1>6 DEF TypeOK, AcquireWaiter, TestFinished, WakeUp, Sleep, Goto
  <2>2. UNCHANGED << op, result, machine, handler, verdict >>
    BY <1>6 DEF AcquireWaiter, TestFinished, WakeUp, handlerVars
  <2>3. Stage(c)' = Stage(c)
    BY <2>1, <2>2 DEF Stage
  <2>4. \A d \in Callers \ {c} : pc'[d] = pc[d]
    BY <1>0, <1>6 DEF TypeOK, AcquireWaiter, TestFinished, WakeUp, Sleep, Goto
  <2>5. \A d \in Callers : Stage(d)' = Stage(d)
    BY <2>2, <2>3, <2>4 DEF Stage
  <2> QED
    BY <2>2, <2>5, SameStages
<1>7. ASSUME NEW c \in Callers, SpuriousWakeUp(c) PROVE Kept
  <2>1. UNCHANGED << pc, op, result, machine, handler, verdict >>
    BY <1>7 DEF SpuriousWakeUp, callVars, handlerVars
  <2>2. \A d \in Callers : Stage(d)' = Stage(d)
    BY <2>1 DEF Stage
  <2> QED
    BY <2>1, <2>2, SameStages
<1>8. ASSUME NEW c \in Callers, Leave(c) PROVE Kept
  <2>1. pc[c] = "leave" /\ handler[c] = "none" /\ c \in finished /\ c \in frames
    BY <1>0, <1>8 DEF IInv, TypeOK, WaiterInv, Waiting, HandlerPlaces, Leave
  <2>2. Stage(c) = verdict[c] /\ verdict[c] \in {"ok", "error"}
    BY <2>1, DecidedHasVerdict DEF Waiting
  <2>3. Contract!Move(c, verdict[c], "idle")
    <3>1. Stage(c)' = "idle"
      BY <1>0, <1>8 DEF TypeOK, Leave, Goto, Stage
    <3>2. \A d \in Callers \ {c} : Stage(d)' = Stage(d)
      BY <1>0, <1>8 DEF TypeOK, Leave, Goto, Stage, handlerVars
    <3> QED
      BY <2>2, <3>1, <3>2, OneMoves
  <2>4. /\ Contract!Answer(c, Outcome(c))
        /\ UNCHANGED machine
    BY <1>8 DEF Contract!Answer, Leave, Return
  <2>5. Faithful(c)
    BY <2>1 DEF IInv, VerdictInv
  <2>6. CASE verdict[c] = "ok"
    <3>1. Outcome(c) = "ok"
      BY <2>5, <2>6 DEF Faithful, Outcome
    <3> QED
      BY <2>3, <2>4, <2>6, <3>1 DEF Contract!Return
  <2>7. CASE verdict[c] = "error"
    <3>1. \/ Outcome(c) = "error"
          \/ Outcome(c) = "ok" /\ op[c] # "dial" /\ oom
      BY <2>5, <2>7 DEF Faithful, Outcome
    <3>2. oom => MemoryMayRunOut
      BY DEF IInv, TurnInv
    <3> QED
      BY <2>3, <2>4, <2>7, <3>1, <3>2 DEF Contract!Return
  <2> QED
    BY <2>2, <2>6, <2>7
<1>9. ASSUME NEW c \in Callers, BeginOperation(c) \/ RefuseOperation(c) PROVE Kept
  <2>1. pc[c] \in {"waitLock", "test", "asleep"} /\ handler[c] = "queued"
    BY <1>9 DEF IInv, WaiterInv, Waiting, BeginOperation, RefuseOperation
  <2>2. c \in mutex /\ machine # "released"
    BY <2>1 DEF IInv, MutexInv, NativeInv, TurnInv, Bridge
  <2>3. Stage(c) = "called"
    BY <2>1 DEF Stage
  <2>4. Contract!Free
    BY <2>2, <2>3, HolderFindsFree
  <2>5. \A d \in Callers \ {c} : Stage(d)' = Stage(d)
    BY <1>0, <1>9 DEF TypeOK, BeginOperation, RefuseOperation, MoveHandler, Decide,
                      Stage, callVars
  <2>6. UNCHANGED << pc, op, result >>
    BY <1>9 DEF BeginOperation, RefuseOperation, callVars
  <2>7. CASE BeginOperation(c)
    <3>1. Stage(c)' = "acting"
      BY <1>0, <2>1, <2>6, <2>7 DEF TypeOK, BeginOperation, MoveHandler, Stage
    <3>2. Contract!Move(c, "called", "acting")
      BY <2>3, <2>5, <3>1, OneMoves
    <3>3. Contract!Begin(c)
      BY <2>2, <2>4, <2>6, <2>7, <3>2
         DEF Contract!Begin, BeginOperation, CanStart, CanStop
    <3> QED
      BY <3>3
  <2>8. CASE RefuseOperation(c)
    <3>1. Stage(c)' = "error"
      BY <1>0, <2>1, <2>6, <2>8 DEF TypeOK, RefuseOperation, MoveHandler, Decide, Stage
    <3>2. Contract!Move(c, "called", "error")
      BY <2>3, <2>5, <3>1, OneMoves
    <3>3. Contract!Refuse(c)
      BY <2>2, <2>4, <2>6, <2>8, <3>2
         DEF Contract!Refuse, RefuseOperation, CanStart, CanStop
    <3> QED
      BY <3>3
  <2> QED
    BY <1>9, <2>7, <2>8
<1>10. ASSUME NEW c \in Callers, Complete(c) PROVE Kept
  <2>1. pc[c] \in {"waitLock", "test", "asleep"} /\ handler[c] = "framework"
    BY <1>10 DEF IInv, WaiterInv, Waiting, Complete
  <2>2. /\ machine # "released"
        /\ op[c] = "start" => machine = "starting"
        /\ op[c] = "stop" => machine = "stopping"
    BY <2>1 DEF IInv, NativeInv, TurnInv, Bridge
  <2>3. Stage(c) = "acting"
    BY <2>1 DEF Stage
  <2>4. UNCHANGED << pc, op, result >>
    BY <1>10 DEF Complete, callVars
  <2>5. \A d \in Callers \ {c} : Stage(d)' = Stage(d)
    BY <1>0, <1>10, <2>4 DEF TypeOK, Complete, MoveHandler, Decide, Stage
  <2>6. handler'[c] = "lock"
    BY <1>0, <1>10 DEF TypeOK, Complete, MoveHandler
  <2>7. Stage(c)' = verdict'[c]
    BY <2>1, <2>4, <2>6 DEF Stage
  <2>8. Contract!Move(c, "acting", verdict'[c])
    BY <2>3, <2>5, <2>7, OneMoves
  <2>9. ASSUME NEW v, Decide(c, v) PROVE verdict'[c] = v
    BY <1>0, <2>9 DEF TypeOK, Decide
  <2>10. Contract!Finish(c)
    BY <1>10, <2>2, <2>4, <2>8, <2>9 DEF Contract!Finish, Complete
  <2> QED
    BY <2>10
<1>11. ASSUME NEW c \in Callers,
              HandlerLocks(c) \/ HandlerStores(c) \/ HandlerSignals(c) \/ HandlerUnlocks(c)
       PROVE Kept
  <2>1. /\ pc[c] \in {"waitLock", "test", "asleep"}
        /\ handler[c] \notin {"queued", "framework"}
    BY <1>11 DEF IInv, WaiterInv, Waiting, HandlerLocks, HandlerStores,
                 HandlerSignals, HandlerUnlocks
  <2>2. UNCHANGED << pc, op, result, machine, verdict >>
    BY <1>11 DEF HandlerLocks, HandlerStores, HandlerSignals, HandlerUnlocks,
                 callVars
  <2>3. /\ handler'[c] \notin {"queued", "framework"}
        /\ \A d \in Callers \ {c} : handler'[d] = handler[d]
    BY <1>0, <1>11 DEF TypeOK, HandlerLocks, HandlerStores, HandlerSignals,
                       HandlerUnlocks, MoveHandler, Afterwards
  <2>4. \A d \in Callers : Stage(d)' = Stage(d)
    BY <2>1, <2>2, <2>3 DEF Stage
  <2> QED
    BY <2>2, <2>4, SameStages
<1>12. ASSUME GuestStops PROVE Kept
  <2>1. UNCHANGED << pc, op, result, handler, verdict >>
    BY <1>12 DEF GuestStops, callVars, handlerVars
  <2>2. \A d \in Callers : Stage(d)' = Stage(d)
    BY <2>1 DEF Stage
  <2>3. Contract!GuestStops
    BY <1>12, <2>1, <2>2 DEF GuestStops, Contract!GuestStops
  <2> QED
    BY <2>3
<1>13. ASSUME UNCHANGED vars PROVE Kept
  <2>1. UNCHANGED << pc, op, result, machine, handler, verdict >>
    BY <1>13 DEF vars, callVars, handlerVars
  <2>2. \A d \in Callers : Stage(d)' = Stage(d)
    BY <2>1 DEF Stage
  <2> QED
    BY <2>1, <2>2, SameStages
<1> HIDE DEF Kept, Contract!Next
<1>14. ASSUME NEW c \in Callers, CallerStep(c) PROVE Kept
  BY <1>14, <1>2, <1>3, <1>4, <1>5, <1>6, <1>8 DEF CallerStep
<1>15. ASSUME NEW c \in Callers, HandlerStep(c) PROVE Kept
  BY <1>15, <1>9, <1>10, <1>11 DEF HandlerStep
<1>16. ASSUME Next PROVE Kept
  BY <1>16, <1>1, <1>2, <1>7, <1>11, <1>12, <1>14, <1>15 DEF Next
<1>17. Kept
  BY <1>13, <1>16
<1> QED
  BY <1>17 DEF Kept

\* A VM that has just been made is the contract's.
LEMMA InitKeepsContract == Init => Contract!Init
BY DEF Init, Contract!Init, Stage

\* The methods of a VM take effect one at a time, however many goroutines call them,
\* and each returns the verdict on its own operation: the mutex, the dispatched
\* blocks, the handlers and the waiters implement MachineContract
\* (vm_darwin.go:31-89, applevm_bridge_darwin.m:245-448).
THEOREM ContractKept == Spec => KeepsContract
<1>1. IInv /\ [Next]_vars => [Contract!Next]_(Contract!contractVars)
  BY StepKeepsContract
<1> QED
  BY <1>1, InitKeepsContract, Invariance, PTL DEF Spec, KeepsContract, Contract!Spec
=============================================================================
