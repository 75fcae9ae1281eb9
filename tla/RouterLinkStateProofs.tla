---------------------- MODULE RouterLinkStateProofs ----------------------
(***************************************************************************)
(* Proofs about RouterLinkState for any number of threads: the lock bits   *)
(* are exclusive and truthful, no waiting bit is forgotten, a wakeup is    *)
(* lost only to a bridge that gives its lock back, and the loops implement *)
(* the atomic operations of AtomicLinkState.                               *)
(***************************************************************************)
EXTENDS RouterLinkState, TLAPS

\* The types of the status word, of the loops' local variables and of the history.
TypeOK ==
    /\ status \in Status
    /\ pc \in [Threads -> PCs]
    /\ expected \in [Threads -> Status]
    /\ bit \in [Threads -> Bits]
    /\ job \in [Threads -> Jobs]
    /\ forced \in [Threads -> BOOLEAN]
    /\ owner \in SUBSET Threads
    /\ notified \in SUBSET Sides
    /\ stranded \in SUBSET Sides

\* A thread past a successful TryLock() still owns the lock.
HolderOwns == \A t \in Threads : pc[t] \in {"held", "unlock"} => t \in owner

\* What a loop knows of the word it is about to exchange.
LoopKnows ==
    \A t \in Threads :
        /\ pc[t] = "lock" => IF bit[t] = "locked"
                               THEN CanLock(expected[t], SideOf[t])
                               ELSE MustWait(expected[t], SideOf[t])
        /\ pc[t] = "reset" => CanReset(expected[t], Opposite(SideOf[t]))

\* Thread t will either take the lock or wake side s.
Owes(t, s) ==
    \/ pc[t] = "lock"
    \/ pc[t] = "reset" /\ SideOf[t] = Opposite(s)

\* As long as a waiting side could lock the link, some thread owes it a wakeup,
\* or a bridge has stranded it.
WakeupOwed ==
    \A s \in Sides : CanReset(status, s) => s \in stranded \/ \E t \in Threads : Owes(t, s)

\* A side waits only after it has become stable itself.
WaitersAreStable == status.waiting \subseteq status.stable

IInv == TypeOK /\ LockOwnership /\ HolderOwns /\ LoopKnows /\ WaitersAreStable /\ WakeupOwed

----------------------------------------------------------------------------
\* Both sides of a link, and what the word operators keep of its type.
LEMMA SideFacts ==
    /\ \A s \in Sides : Opposite(s) \in Sides /\ Opposite(s) # s
    /\ \A s \in Sides : Opposite(Opposite(s)) = s
    /\ \A s, u \in Sides : u # s => u = Opposite(s)
    /\ \A t \in Threads : SideOf[t] \in Sides
BY SideAssumption DEF Sides, Opposite

\* Setting or clearing a bit of the status word yields a status word.
LEMMA StatusFacts ==
    /\ kUnstable \in Status /\ kStable \in Status
    /\ \A st \in Status, s \in Sides :
          /\ SetStable(st, s) \in Status
          /\ SetWaiting(st, s) \in Status
          /\ SetLocked(st, s) \in Status
          /\ ClearWaiting(st, s) \in Status
          /\ ClearLocked(st, s) \in Status
BY DEF Status, kUnstable, kStable, SetStable, SetWaiting, SetLocked,
       ClearWaiting, ClearLocked

\* Set extensionality, in the form in which the provers can use it.
LEMMA SetsEqual == \A S, T : S \subseteq T /\ T \subseteq S => S = T
OBVIOUS

\* What the initial values of `expected` satisfy.
LEMMA EntryFacts ==
    /\ \A s \in Sides : CanLock(kStable, s)
    /\ \A s \in Sides : CanReset(SetWaiting(kStable, s), s)
BY DEF CanLock, CanReset, kStable, SetWaiting, IsStable, IsLocked

----------------------------------------------------------------------------
\* The types of a thread's local variables, and that entering a loop, entering
\* TryLock() and returning keep them.
LocalsOK ==
    /\ pc \in [Threads -> PCs]
    /\ expected \in [Threads -> Status]
    /\ bit \in [Threads -> Bits]
    /\ job \in [Threads -> Jobs]
    /\ forced \in [Threads -> BOOLEAN]

\* Entering any of the four loops keeps the local variables in their types.
LEMMA EnterType ==
    ASSUME LocalsOK, NEW t \in Threads, NEW op \in PCs, NEW e \in Status,
           Enter(t, op, e), UNCHANGED <<bit, job, forced>>
    PROVE  LocalsOK'
BY DEF LocalsOK, Enter

\* So does entering TryLock() for any of the jobs that need the lock,
LEMMA EnterTryLockType ==
    ASSUME LocalsOK, NEW t \in Threads, NEW j \in Jobs, NEW f \in BOOLEAN, EnterTryLock(t, j, f)
    PROVE  LocalsOK'
BY StatusFacts DEF LocalsOK, EnterTryLock, Enter, PCs, Bits

\* returning from a call,
LEMMA ReturnType ==
    ASSUME LocalsOK, NEW t \in Threads, Return(t)
    PROVE  LocalsOK'
BY StatusFacts DEF LocalsOK, Return, Enter, PCs, Bits, Jobs

\* entering ResetWaitingBit() in FlushOtherSideIfWaiting(),
LEMMA EnterResetType ==
    ASSUME LocalsOK, NEW t \in Threads, EnterReset(t)
    PROVE  LocalsOK'
<1>1. SetWaiting(kStable, Opposite(SideOf[t])) \in Status
  BY SideFacts, StatusFacts
<1>2. QED BY <1>1 DEF EnterReset, LocalsOK, Enter, PCs, Bits, Jobs

\* the end of Flush(), which wakes the other side or not,
LEMMA EndFlushType ==
    ASSUME LocalsOK, NEW t \in Threads, NEW f \in BOOLEAN, EndFlush(t, f)
    PROVE  LocalsOK'
BY ReturnType, EnterResetType DEF EndFlush

\* the rest of Flush() with the router's mutex released,
LEMMA FlushUnlockedType ==
    ASSUME LocalsOK, NEW t \in Threads, NEW f \in BOOLEAN, FlushUnlocked(t, f)
    PROVE  LocalsOK'
<1>1. {"bridge", "bypass"} \subseteq Jobs
  BY DEF Jobs
<1>2. QED BY <1>1, EnterTryLockType, EndFlushType DEF FlushUnlocked

\* and with it held,
LEMMA FlushType ==
    ASSUME LocalsOK, NEW t \in Threads, NEW f \in BOOLEAN, Flush(t, f)
    PROVE  LocalsOK'
<1>1. "close" \in Jobs
  BY DEF Jobs
<1>2. QED BY <1>1, EnterTryLockType, FlushUnlockedType DEF Flush

\* what each caller does when TryLock() has failed,
LEMMA TryLockFailedType ==
    ASSUME LocalsOK, NEW t \in Threads, TryLockFailed(t)
    PROVE  LocalsOK'
<1>1. "bypass" \in Jobs /\ forced[t] \in BOOLEAN
  BY DEF Jobs, LocalsOK
<1>3. CASE job[t] = "serialize"
  BY <1>1, <1>3, EnterTryLockType DEF TryLockFailed
<1>4. CASE job[t] = "close"
  BY <1>1, <1>4, FlushUnlockedType DEF TryLockFailed
<1>5. CASE job[t] \notin {"serialize", "close"}
  BY <1>1, <1>5, EndFlushType DEF TryLockFailed
<1>6. QED BY <1>3, <1>4, <1>5

\* and what the two callers of Unlock() do after it.
LEMMA UnlockedType ==
    ASSUME LocalsOK, NEW t \in Threads, Unlocked(t)
    PROVE  LocalsOK'
<1>1. "bypass" \in Jobs /\ forced[t] \in BOOLEAN
  BY DEF Jobs, LocalsOK
<1>2. QED BY <1>1, EnterTryLockType, EndFlushType DEF Unlocked

\* Every call and every iteration of the four loops keeps all variables in
\* their types.
LEMMA TypeStep == TypeOK /\ [Next]_vars => TypeOK'
<1> SUFFICES ASSUME TypeOK, [Next]_vars PROVE TypeOK'
  OBVIOUS
<1>0. LocalsOK
  BY DEF TypeOK, LocalsOK
<1>1. LocalsOK'
  <2>1. {"close", "bridge", "bypass", "serialize"} = Jobs
        /\ {"stable", "lock", "held", "unlock", "reset"} \subseteq PCs
    BY DEF Jobs, PCs
  <2>2. ASSUME NEW t \in Threads, Begin(t) \/ OnFlushRouter(t) PROVE LocalsOK'
    BY <1>0, <2>1, <2>2, EnterType, EnterTryLockType, FlushType, StatusFacts
       DEF Begin, BeginMarkSideStable, BeginFlush, BeginSerialize, OnFlushRouter
  <2>3. ASSUME NEW t \in Threads, Run(t) PROVE LocalsOK'
    <3>1. CASE SetSideStable(t) \/ Unlock(t)
      BY <1>0, <2>1, <3>1, FlushType, UnlockedType DEF SetSideStable, Unlock
    <3>2. CASE TryLock(t)
      BY <1>0, <2>1, <3>2, EnterType, TryLockFailedType, StatusFacts DEF TryLock
    <3>3. CASE KeepLock(t) \/ ResetWaitingBit(t)
      <4>1. forced[t] \in BOOLEAN
        BY <1>0 DEF LocalsOK
      <4>2. QED BY <1>0, <3>3, <4>1, ReturnType, EndFlushType DEF KeepLock, ResetWaitingBit
    <3>4. CASE BeginUnlock(t)
      <4>1. SetLocked(kStable, SideOf[t]) \in Status
        BY SideFacts, StatusFacts
      <4>2. QED BY <1>0, <2>1, <3>4, <4>1, EnterType DEF BeginUnlock
    <3>5. QED BY <2>3, <3>1, <3>2, <3>3, <3>4 DEF Run
  <2>4. ASSUME NEW t \in Threads, Retry(t) PROVE LocalsOK'
    <3>0. status \in Status
      BY DEF TypeOK
    <3>1. CASE SetSideStableRetry(t)
      BY <1>0, <2>1, <3>0, <3>1, EnterType, FlushType DEF SetSideStableRetry, Again
    <3>2. CASE TryLockRetry(t)
      <4>1. CASE IsLocked(status) \/ SideOf[t] \notin status.stable
        BY <1>0, <3>2, <4>1, TryLockFailedType DEF TryLockRetry
      <4>2. CASE ~(IsLocked(status) \/ SideOf[t] \notin status.stable)
        BY <1>0, <3>0, <3>2, <4>2
           DEF TryLockRetry, Enter, NextBit, LocalsOK, Bits, PCs
      <4>3. QED BY <4>1, <4>2
    <3>3. CASE UnlockRetry(t)
      BY <1>0, <2>1, <3>0, <3>3, EnterType, UnlockedType DEF UnlockRetry, Again
    <3>4. CASE ResetWaitingBitRetry(t)
      BY <1>0, <2>1, <3>0, <3>4, EnterType, ReturnType DEF ResetWaitingBitRetry, Again
    <3>5. QED BY <2>4, <3>1, <3>2, <3>3, <3>4 DEF Retry
  <2>5. CASE UNCHANGED vars
    BY <1>0, <2>5 DEF LocalsOK, vars, locals
  <2>6. QED BY <2>2, <2>3, <2>4, <2>5 DEF Next
<1>2. /\ status' \in Status
      /\ owner' \in SUBSET Threads
      /\ notified' \in SUBSET Sides
      /\ stranded' \in SUBSET Sides
  <2> USE DEF TypeOK
  <2>1. ASSUME NEW t \in Threads, Begin(t) \/ OnFlushRouter(t) \/ Retry(t)
        PROVE  /\ status' = status /\ owner' \subseteq owner
               /\ notified' \subseteq notified /\ stranded' = stranded
    BY <2>1 DEF Begin, BeginMarkSideStable, BeginFlush, BeginSerialize,
                OnFlushRouter, Retry, SetSideStableRetry, TryLockRetry,
                UnlockRetry, ResetWaitingBitRetry, Reload
  <2>2. ASSUME NEW t \in Threads, Run(t)
        PROVE  /\ \/ status' = status
                  \/ status' = SetStable(status, SideOf[t])
                  \/ status' = SetLocked(status, SideOf[t])
                  \/ status' = SetWaiting(status, SideOf[t])
                  \/ status' = ClearLocked(status, SideOf[t])
                  \/ status' = ClearWaiting(status, Opposite(SideOf[t]))
               /\ owner' \subseteq owner \cup {t}
               /\ notified' \subseteq notified \cup {Opposite(SideOf[t])}
               /\ stranded' \subseteq stranded \cup status.waiting
    <3>1. LeftWaiting(t) \subseteq status.waiting
      BY DEF LeftWaiting
    <3>2. QED BY <2>2, <3>1 DEF Run, SetSideStable, TryLock, KeepLock, BeginUnlock, Unlock,
                                ResetWaitingBit, Swap
  <2>3. CASE UNCHANGED vars
    BY <2>3 DEF vars
  <2>4. ASSUME NEW t \in Threads, Run(t)
        PROVE  /\ status' \in Status /\ owner' \in SUBSET Threads
               /\ notified' \in SUBSET Sides /\ stranded' \in SUBSET Sides
    <3>1. SideOf[t] \in Sides /\ Opposite(SideOf[t]) \in Sides
      BY SideFacts
    <3>2. status' \in Status
      <4>1. /\ status \in Status
            /\ SetStable(status, SideOf[t]) \in Status
            /\ SetLocked(status, SideOf[t]) \in Status
            /\ SetWaiting(status, SideOf[t]) \in Status
            /\ ClearLocked(status, SideOf[t]) \in Status
            /\ ClearWaiting(status, Opposite(SideOf[t])) \in Status
        BY <3>1, StatusFacts, Zenon
      <4>2. QED BY <2>2, <2>4, <4>1, Zenon
    <3>3. status.waiting \subseteq Sides
      BY DEF Status
    <3>4. QED BY <2>2, <2>4, <3>1, <3>2, <3>3
  <2>5. QED BY <2>1, <2>3, <2>4 DEF Next
<1>3. QED BY <1>1, <1>2 DEF TypeOK, LocalsOK

----------------------------------------------------------------------------
\* A step of thread t leaves the local variables of every other thread alone.
LEMMA OthersKeep ==
    ASSUME TypeOK, NEW t \in Threads,
           Begin(t) \/ OnFlushRouter(t) \/ Run(t) \/ Retry(t),
           NEW u \in Threads, u # t
    PROVE  pc'[u] = pc[u] /\ expected'[u] = expected[u] /\ bit'[u] = bit[u]
<1> USE DEF TypeOK
<1>0. ASSUME NEW f, FlushUnlocked(t, f) \/ Flush(t, f) \/ EndFlush(t, f) \/ Return(t)
                    \/ TryLockFailed(t) \/ Unlocked(t)
      PROVE  pc'[u] = pc[u] /\ expected'[u] = expected[u] /\ bit'[u] = bit[u]
  <2>1. ASSUME NEW j, NEW g, EnterTryLock(t, j, g)
        PROVE  pc'[u] = pc[u] /\ expected'[u] = expected[u] /\ bit'[u] = bit[u]
    BY <2>1 DEF EnterTryLock, Enter
  <2>2. ASSUME NEW g, EndFlush(t, g) \/ Return(t)
        PROVE  pc'[u] = pc[u] /\ expected'[u] = expected[u] /\ bit'[u] = bit[u]
    BY <2>2 DEF EndFlush, EnterReset, Return, Enter
  <2>3. QED BY <1>0, <2>1, <2>2 DEF FlushUnlocked, Flush, TryLockFailed, Unlocked
<1>1. CASE Begin(t) \/ OnFlushRouter(t)
  BY <1>0, <1>1 DEF Begin, BeginMarkSideStable, BeginFlush, BeginSerialize,
     OnFlushRouter, EnterTryLock, Enter
<1>2. CASE Run(t)
  BY <1>0, <1>2 DEF Run, SetSideStable, TryLock, KeepLock, BeginUnlock, Unlock, ResetWaitingBit,
     Enter
<1>3. CASE Retry(t)
  BY <1>0, <1>3 DEF Retry, SetSideStableRetry, TryLockRetry, UnlockRetry, ResetWaitingBitRetry,
     Again, Enter
<1>4. QED BY <1>1, <1>2, <1>3

\* A Flush() is at an operation that does not need the lock.
LEMMA FlushOp ==
    ASSUME TypeOK, NEW t \in Threads,
           \/ \E f \in BOOLEAN : FlushUnlocked(t, f) \/ Flush(t, f) \/ EndFlush(t, f)
           \/ TryLockFailed(t) \/ Unlocked(t)
    PROVE  pc'[t] \in {"lock", "reset", "idle"}
<1> USE DEF TypeOK
<1>1. ASSUME NEW j, NEW g, EnterTryLock(t, j, g)
      PROVE  pc'[t] \in {"lock", "reset", "idle"}
  BY <1>1 DEF EnterTryLock, Enter
<1>2. ASSUME NEW g, EndFlush(t, g)
      PROVE  pc'[t] \in {"lock", "reset", "idle"}
  BY <1>2 DEF EndFlush, EnterReset, Return, Enter
<1>3. QED BY <1>1, <1>2 DEF FlushUnlocked, Flush, TryLockFailed, Unlocked

\* The side of a thread past a successful TryLock() has its lock bit set.
LEMMA HolderLocks ==
    ASSUME LockOwnership, HolderOwns, NEW t \in Threads, pc[t] \in {"held", "unlock"}
    PROVE  t \in owner /\ SideOf[t] \in status.locked
<1>1. t \in owner
  BY DEF HolderOwns
<1>2. status.locked = {SideOf[u] : u \in owner}
  BY DEF LockOwnership
<1>3. QED BY <1>1, <1>2

\* Clearing the lock bit of the only owner leaves the word unlocked.
LEMMA OwnershipStep == IInv /\ [Next]_vars => LockOwnership' /\ HolderOwns'
<1> SUFFICES ASSUME IInv, [Next]_vars PROVE LockOwnership' /\ HolderOwns'
  OBVIOUS
<1> USE SideFacts DEF IInv
<1>0. ASSUME NEW t \in Threads, Begin(t) \/ OnFlushRouter(t) \/ Run(t) \/ Retry(t),
             pc'[t] \in {"held", "unlock"} => t \in owner', owner \ {t} \subseteq owner'
      PROVE  HolderOwns'
  <2>1. SUFFICES ASSUME NEW u \in Threads, u # t, pc'[u] \in {"held", "unlock"}
                 PROVE  u \in owner'
    BY <1>0 DEF HolderOwns
  <2>2. pc'[u] = pc[u]
    BY <1>0, <2>1, OthersKeep
  <2>3. QED BY <1>0, <2>1, <2>2 DEF HolderOwns
<1>1. ASSUME NEW t \in Threads, Begin(t) \/ OnFlushRouter(t)
      PROVE  LockOwnership' /\ HolderOwns'
  <2>1. status' = status /\ owner' = owner
    BY <1>1 DEF Begin, BeginMarkSideStable, BeginFlush, BeginSerialize, OnFlushRouter
  <2>2. pc'[t] \notin {"held", "unlock"}
    <3>1. CASE BeginFlush(t) \/ OnFlushRouter(t)
      <4>1. pc'[t] \in {"lock", "reset", "idle"}
        BY <3>1, FlushOp DEF BeginFlush, OnFlushRouter
      <4>2. QED BY <4>1
    <3>2. CASE BeginMarkSideStable(t) \/ BeginSerialize(t)
      BY <3>2 DEF BeginMarkSideStable, BeginSerialize, EnterTryLock, Enter, TypeOK
    <3>3. QED BY <1>1, <3>1, <3>2 DEF Begin
  <2>3. QED BY <1>0, <1>1, <2>1, <2>2 DEF LockOwnership
<1>2. ASSUME NEW t \in Threads, TryLock(t)
      PROVE  LockOwnership' /\ HolderOwns'
  <2>1. CASE bit[t] = "locked"
    <3>1. status.locked = {} /\ IsStable(status) /\ status' = SetLocked(status, SideOf[t])
      BY <1>2, <2>1 DEF TryLock, Swap, LoopKnows, CanLock, IsLocked
    <3>2. owner = {} /\ owner' = {t}
      <4>1. \A u \in owner : SideOf[u] \in status.locked
        BY DEF LockOwnership
      <4>2. owner = {}
        BY <3>1, <4>1
      <4>3. QED BY <1>2, <2>1, <4>2 DEF TryLock
    <3>3. status'.locked = {SideOf[t]} /\ IsStable(status')
      BY <3>1 DEF SetLocked, IsStable, Status, TypeOK
    <3>4. HolderOwns'
      BY <1>0, <1>2, <3>2 DEF Run
    <3>5. QED BY <3>2, <3>3, <3>4 DEF LockOwnership
  <2>2. CASE bit[t] # "locked"
    <3>1. status' = SetWaiting(status, SideOf[t]) /\ owner' = owner /\ TryLockFailed(t)
      BY <1>2, <2>2 DEF TryLock, Swap
    <3>2. status'.locked = status.locked /\ status'.stable = status.stable
      BY <3>1 DEF SetWaiting, Status, TypeOK
    <3>3. HolderOwns'
      <4>1. pc'[t] \in {"lock", "reset", "idle"}
        BY <3>1, FlushOp
      <4>2. QED BY <1>0, <1>2, <3>1, <4>1 DEF Run
    <3>4. QED BY <3>1, <3>2, <3>3 DEF LockOwnership, IsLocked, IsStable
  <2>3. QED BY <2>1, <2>2
<1>3. ASSUME NEW t \in Threads, SetSideStable(t) \/ ResetWaitingBit(t)
      PROVE  LockOwnership' /\ HolderOwns'
  <2>1. status'.locked = status.locked /\ status.stable \subseteq status'.stable
        /\ status' \in Status /\ owner' = owner
    <3>1. status' \in Status
      BY TypeStep DEF TypeOK
    <3>2. /\ owner' = owner
          /\ \/ status' = SetStable(status, SideOf[t])
             \/ status' = ClearWaiting(status, Opposite(SideOf[t]))
      BY <1>3 DEF SetSideStable, ResetWaitingBit, Swap
    <3>3. status'.locked = status.locked /\ status.stable \subseteq status'.stable
      BY <3>2 DEF SetStable, ClearWaiting, Status, TypeOK
    <3>4. QED BY <3>1, <3>2, <3>3
  <2>2. LockOwnership'
    <3>1. IsLocked(status') => IsStable(status')
      <4>1. status'.stable \subseteq Sides
        BY <2>1 DEF Status
      <4>2. status.locked # {} => status.stable = Sides
        BY DEF LockOwnership, IsLocked, IsStable
      <4>3. status'.locked # {} => status'.stable = Sides
        <5>1. SUFFICES ASSUME status'.locked # {} PROVE status'.stable = Sides
          OBVIOUS
        <5>2. status.locked # {}
          BY <2>1, <5>1
        <5>3. Sides \subseteq status'.stable
          BY <2>1, <4>2, <5>2
        <5>4. QED BY <4>1, <5>3, SetsEqual, Zenon
      <4>4. QED BY <4>3 DEF IsLocked, IsStable
    <3>2. QED BY <2>1, <3>1 DEF LockOwnership
  <2>3. HolderOwns'
    <3>1. pc'[t] \in {"lock", "reset", "idle"}
      <4>1. CASE SetSideStable(t)
        BY <4>1, FlushOp DEF SetSideStable
      <4>2. CASE ResetWaitingBit(t)
        BY <4>2 DEF ResetWaitingBit, Return, Enter, TypeOK
      <4>3. QED BY <1>3, <4>1, <4>2
    <3>2. QED BY <1>0, <1>3, <2>1, <3>1 DEF Run
  <2>4. QED BY <2>2, <2>3
<1>4. ASSUME NEW t \in Threads, KeepLock(t) \/ BeginUnlock(t)
      PROVE  LockOwnership' /\ HolderOwns'
  <2>1. status' = status /\ owner' = owner /\ pc[t] = "held"
    BY <1>4 DEF KeepLock, BeginUnlock
  <2>2. t \in owner'
    BY <2>1 DEF HolderOwns
  <2>3. QED BY <1>0, <1>4, <2>1, <2>2 DEF Run, LockOwnership
<1>5. ASSUME NEW t \in Threads, Unlock(t)
      PROVE  LockOwnership' /\ HolderOwns'
  <2>1. owner = {t} /\ status.locked = {SideOf[t]}
    <3>1. pc[t] = "unlock"
      BY <1>5 DEF Unlock
    <3>2. t \in owner
      BY <3>1, HolderLocks
    <3>3. owner = {t}
      BY <3>2 DEF LockOwnership
    <3>4. QED BY <3>3 DEF LockOwnership
  <2>2. owner' = {} /\ status' = ClearLocked(status, SideOf[t])
    BY <1>5, <2>1 DEF Unlock, Swap
  <2>3. status'.locked = {}
    BY <2>1, <2>2 DEF ClearLocked, Status, TypeOK
  <2>4. HolderOwns'
    <3>1. pc'[t] \in {"lock", "reset", "idle"}
      BY <1>5, FlushOp DEF Unlock
    <3>2. QED BY <1>0, <1>5, <2>1, <2>2, <3>1 DEF Run
  <2>5. QED BY <2>2, <2>3, <2>4 DEF LockOwnership, IsLocked
<1>6. ASSUME NEW t \in Threads, Retry(t)
      PROVE  LockOwnership' /\ HolderOwns'
  <2>1. status' = status
    BY <1>6 DEF Retry, SetSideStableRetry, TryLockRetry, UnlockRetry, ResetWaitingBitRetry, Reload
  <2>2. owner' = owner /\ (pc'[t] \in {"held", "unlock"} => t \in owner)
    <3>1. CASE SetSideStableRetry(t) \/ ResetWaitingBitRetry(t)
      <4>1. owner' = owner
        BY <3>1 DEF SetSideStableRetry, ResetWaitingBitRetry
      <4>2. CASE Again(t, "stable") \/ Again(t, "reset") \/ Return(t)
        BY <4>1, <4>2 DEF Again, Return, Enter, TypeOK
      <4>3. CASE Flush(t, TRUE)
        <5>1. pc'[t] \in {"lock", "reset", "idle"}
          BY <4>3, FlushOp
        <5>2. QED BY <4>1, <5>1
      <4>4. QED BY <3>1, <4>2, <4>3 DEF SetSideStableRetry, ResetWaitingBitRetry
    <3>2. CASE TryLockRetry(t)
      BY <3>2, FlushOp DEF TryLockRetry, Enter, TypeOK
    <3>3. CASE UnlockRetry(t)
      <4>1. pc[t] = "unlock"
        BY <3>3 DEF UnlockRetry
      <4>2. t \in owner /\ SideOf[t] \in status.locked
        BY <4>1, HolderLocks
      <4>3. QED BY <3>3, <4>2 DEF UnlockRetry
    <3>4. QED BY <1>6, <3>1, <3>2, <3>3 DEF Retry
  <2>3. QED BY <1>0, <1>6, <2>1, <2>2 DEF LockOwnership
<1>7. CASE UNCHANGED vars
  BY <1>7 DEF vars, locals, LockOwnership, HolderOwns
<1>8. QED BY <1>1, <1>2, <1>3, <1>4, <1>5, <1>6, <1>7 DEF Next, Run

\* Each iteration re-establishes what the next one assumes of `expected`.
LEMMA LoopStep == IInv /\ [Next]_vars => LoopKnows'
<1> SUFFICES ASSUME IInv, [Next]_vars PROVE LoopKnows'
  OBVIOUS
<1> DEFINE Knows(t) ==
      /\ pc[t] = "lock" => IF bit[t] = "locked"
                             THEN CanLock(expected[t], SideOf[t])
                             ELSE MustWait(expected[t], SideOf[t])
      /\ pc[t] = "reset" => CanReset(expected[t], Opposite(SideOf[t]))
<1> USE DEF IInv, TypeOK
<1>1. ASSUME NEW t \in Threads, NEW j, NEW f, EnterTryLock(t, j, f)
      PROVE  Knows(t)'
  BY <1>1, SideFacts, EntryFacts DEF EnterTryLock, Enter
<1>2. ASSUME NEW t \in Threads, NEW op \in {"stable", "held", "unlock"}, NEW e,
             Enter(t, op, e)
      PROVE  Knows(t)'
  BY <1>2 DEF Enter
<1>3. ASSUME NEW t \in Threads, Return(t)
      PROVE  Knows(t)'
  BY <1>3 DEF Return, Enter
<1>10. ASSUME NEW t \in Threads, EnterReset(t)
      PROVE  Knows(t)'
  <2>1. pc'[t] = "reset" /\ expected'[t] = SetWaiting(kStable, Opposite(SideOf[t]))
    BY <1>10 DEF EnterReset, Enter
  <2>2. QED BY <2>1, SideFacts, EntryFacts
<1>11. ASSUME NEW t \in Threads, NEW f, EndFlush(t, f) \/ FlushUnlocked(t, f) \/ Flush(t, f)
      PROVE  Knows(t)'
  BY <1>1, <1>3, <1>10, <1>11 DEF EndFlush, FlushUnlocked, Flush
<1>4. ASSUME NEW t \in Threads, TryLockFailed(t) \/ Unlocked(t)
      PROVE  Knows(t)'
  BY <1>1, <1>4, <1>11 DEF TryLockFailed, Unlocked
<1>5. ASSUME NEW t \in Threads, Begin(t) \/ OnFlushRouter(t) \/ Run(t)
      PROVE  Knows(t)'
  <2>1. CASE Begin(t) \/ OnFlushRouter(t)
    BY <1>1, <1>2, <1>11, <2>1
       DEF Begin, BeginMarkSideStable, BeginFlush, BeginSerialize, OnFlushRouter
  <2>2. CASE Run(t)
    BY <1>2, <1>3, <1>4, <1>11, <2>2
       DEF Run, SetSideStable, TryLock, KeepLock, BeginUnlock, Unlock, ResetWaitingBit
  <2>3. QED BY <1>5, <2>1, <2>2
<1>6. ASSUME NEW t \in Threads, Retry(t)
      PROVE  Knows(t)'
  <2>1. CASE SetSideStableRetry(t) \/ UnlockRetry(t)
    BY <1>2, <1>4, <1>11, <2>1 DEF SetSideStableRetry, UnlockRetry, Again
  <2>2. CASE TryLockRetry(t)
    <3>1. CASE IsLocked(status) \/ SideOf[t] \notin status.stable
      BY <1>4, <2>2, <3>1 DEF TryLockRetry
    <3>2. CASE ~(IsLocked(status) \/ SideOf[t] \notin status.stable)
      <4>1. pc'[t] = "lock" /\ expected'[t] = status /\ bit'[t] = NextBit(status)
        BY <2>2, <3>2 DEF TryLockRetry, Enter
      <4>2. CASE IsStable(status)
        BY <3>2, <4>1, <4>2 DEF NextBit, CanLock
      <4>3. CASE ~IsStable(status)
        BY <3>2, <4>1, <4>3 DEF NextBit, MustWait
      <4>4. QED BY <4>2, <4>3
    <3>3. QED BY <3>1, <3>2
  <2>3. CASE ResetWaitingBitRetry(t)
    <3>1. CASE CanReset(status, Opposite(SideOf[t]))
      <4>1. pc'[t] = "reset" /\ expected'[t] = status
        BY <2>3, <3>1 DEF ResetWaitingBitRetry, Again, Enter
      <4>2. QED BY <3>1, <4>1
    <3>2. CASE ~CanReset(status, Opposite(SideOf[t]))
      BY <1>3, <2>3, <3>2 DEF ResetWaitingBitRetry
    <3>3. QED BY <3>1, <3>2
  <2>4. QED BY <1>6, <2>1, <2>2, <2>3 DEF Retry
<1>7. ASSUME NEW t \in Threads, Begin(t) \/ OnFlushRouter(t) \/ Run(t) \/ Retry(t),
             NEW u \in Threads, u # t
      PROVE  Knows(u)'
  <2>1. pc'[u] = pc[u] /\ expected'[u] = expected[u] /\ bit'[u] = bit[u]
    BY <1>7, OthersKeep
  <2>2. QED BY <2>1 DEF LoopKnows
<1>8. CASE UNCHANGED vars
  BY <1>8 DEF vars, locals, LoopKnows
<1>9. QED BY <1>5, <1>6, <1>7, <1>8 DEF Next, LoopKnows

\* TryLock() sets a waiting bit only for a side it has seen to be stable, and no
\* operation makes a side unstable again.
LEMMA WaitersStep == IInv /\ [Next]_vars => WaitersAreStable'
<1> SUFFICES ASSUME IInv, [Next]_vars PROVE WaitersAreStable'
  OBVIOUS
<1> USE SideFacts DEF IInv, TypeOK, Status, WaitersAreStable
<1>1. ASSUME NEW t \in Threads, Begin(t) \/ OnFlushRouter(t) \/ Retry(t)
      PROVE  WaitersAreStable'
  BY <1>1 DEF Begin, BeginMarkSideStable, BeginFlush, BeginSerialize, OnFlushRouter, Retry,
     SetSideStableRetry, TryLockRetry, UnlockRetry, ResetWaitingBitRetry, Reload
<1>2. ASSUME NEW t \in Threads, TryLock(t)
      PROVE  WaitersAreStable'
  <2>1. CASE bit[t] = "locked"
    BY <1>2, <2>1 DEF TryLock, Swap, SetLocked
  <2>2. CASE bit[t] # "locked"
    BY <1>2, <2>2 DEF TryLock, Swap, SetWaiting, LoopKnows, MustWait
  <2>3. QED BY <2>1, <2>2
<1>3. ASSUME NEW t \in Threads, Run(t), ~TryLock(t)
      PROVE  WaitersAreStable'
  BY <1>3 DEF Run, SetSideStable, KeepLock, BeginUnlock, Unlock, ResetWaitingBit, Swap,
     SetStable, ClearLocked, ClearWaiting
<1>4. CASE UNCHANGED vars
  BY <1>4 DEF vars
<1>5. QED BY <1>1, <1>2, <1>3, <1>4 DEF Next

\* The thread which makes a waiting side's link stable, or unlocks it, goes on
\* to lock it or to wake that side; it stops owing this only when the link is
\* locked or the waiting bit has been cleared, or it is a bridge's.
LEMMA WakeupStep == IInv /\ [Next]_vars => WakeupOwed'
<1> SUFFICES ASSUME IInv, [Next]_vars, NEW s \in Sides, CanReset(status', s), s \notin stranded'
             PROVE  \E t \in Threads : Owes(t, s)'
  BY DEF WakeupOwed
<1> USE DEF IInv
<1>1. ASSUME NEW t \in Threads, NEW j, NEW f, EnterTryLock(t, j, f)
      PROVE  Owes(t, s)'
  BY <1>1 DEF EnterTryLock, Enter, Owes, TypeOK
<1>0. ASSUME NEW t \in Threads, EnterReset(t), s # SideOf[t]
      PROVE  Owes(t, s)'
  <2>1. SideOf[t] = Opposite(s)
    BY <1>0, SideFacts
  <2>2. pc'[t] = "reset"
    BY <1>0 DEF EnterReset, Enter, TypeOK
  <2>3. QED BY <2>1, <2>2 DEF Owes
<1>2. ASSUME NEW t \in Threads,
             Begin(t) \/ OnFlushRouter(t) \/ Run(t) \/ Retry(t),
             CanReset(status, s), s \notin stranded, ~Owes(t, s)
      PROVE  \E u \in Threads : Owes(u, s)'
  <2>1. PICK u \in Threads : Owes(u, s)
    BY <1>2 DEF WakeupOwed
  <2>2. pc'[u] = pc[u]
    BY <1>2, <2>1, OthersKeep
  <2>3. QED BY <2>1, <2>2 DEF Owes
<1>3. ASSUME NEW t \in Threads, Begin(t) \/ OnFlushRouter(t)
      PROVE  \E u \in Threads : Owes(u, s)'
  <2>1. status' = status /\ stranded' = stranded /\ pc[t] = "idle"
    BY <1>3 DEF Begin, BeginMarkSideStable, BeginFlush, BeginSerialize, OnFlushRouter
  <2>2. QED BY <1>2, <1>3, <2>1 DEF Owes
<1>4. ASSUME NEW t \in Threads, SetSideStable(t)
      PROVE  \E u \in Threads : Owes(u, s)'
  <2>1. CASE s # SideOf[t]
    BY <1>0, <1>1, <1>4, <2>1 DEF SetSideStable, Flush, FlushUnlocked, EndFlush
  <2>2. CASE s = SideOf[t]
    <3>1. status' = SetStable(status, s) /\ stranded' = stranded
      BY <1>4, <2>2 DEF SetSideStable, Swap
    <3>2. status'.waiting = status.waiting /\ status'.locked = status.locked
          /\ status'.stable = status.stable \cup {s}
      BY <3>1 DEF SetStable, TypeOK, Status
    <3>3. s \in status.stable
      BY <3>2 DEF CanReset, WaitersAreStable
    <3>4. CanReset(status, s)
      BY <3>2, <3>3 DEF CanReset, IsStable, IsLocked
    <3>5. ~Owes(t, s)
      BY <1>4 DEF SetSideStable, Owes
    <3>6. QED BY <1>2, <1>4, <3>1, <3>4, <3>5 DEF Run
  <2>3. QED BY <2>1, <2>2
<1>11. ASSUME NEW t \in Threads, Unlock(t)
      PROVE  \E u \in Threads : Owes(u, s)'
  <2>1. CASE job[t] = "serialize"
    BY <1>1, <1>11, <2>1 DEF Unlock, Unlocked
  <2>2. CASE job[t] # "serialize"
    <3>1. s \in status.waiting
      BY <1>11 DEF Unlock, Swap, ClearLocked, CanReset, TypeOK, Status
    <3>2. s \notin LeftWaiting(t)
      BY <1>11 DEF Unlock
    <3>3. forced[t] /\ s = Opposite(SideOf[t])
      BY <2>2, <3>1, <3>2 DEF LeftWaiting
    <3>4. EnterReset(t)
      BY <1>11, <2>2, <3>3 DEF Unlock, Unlocked, EndFlush
    <3>5. QED BY <1>0, <3>3, <3>4, SideFacts
  <2>3. QED BY <2>1, <2>2
<1>5. ASSUME NEW t \in Threads, TryLock(t)
      PROVE  FALSE
  <2>1. CASE bit[t] = "locked"
    <3>1. status' = SetLocked(status, SideOf[t])
      BY <1>5, <2>1 DEF TryLock, Swap
    <3>2. SideOf[t] \in status'.locked
      BY <3>1 DEF SetLocked, TypeOK, Status
    <3>3. QED BY <3>2 DEF CanReset, IsLocked
  <2>2. CASE bit[t] # "locked"
    <3>1. ~IsStable(status) /\ status' = SetWaiting(status, SideOf[t])
      BY <1>5, <2>2 DEF TryLock, Swap, LoopKnows, MustWait
    <3>2. ~IsStable(status')
      BY <3>1 DEF SetWaiting, IsStable, TypeOK, Status
    <3>3. QED BY <3>2 DEF CanReset
  <2>3. QED BY <2>1, <2>2
<1>6. ASSUME NEW t \in Threads, KeepLock(t) \/ BeginUnlock(t)
      PROVE  \E u \in Threads : Owes(u, s)'
  BY <1>2, <1>6 DEF Run, KeepLock, BeginUnlock, Owes
<1>7. ASSUME NEW t \in Threads, ResetWaitingBit(t)
      PROVE  \E u \in Threads : Owes(u, s)'
  <2>1. status' = ClearWaiting(status, Opposite(SideOf[t]))
    BY <1>7 DEF ResetWaitingBit, Swap
  <2>2. CanReset(status, s) /\ s # Opposite(SideOf[t]) /\ s \notin stranded
    BY <1>7, <2>1 DEF ResetWaitingBit, CanReset, ClearWaiting, IsStable, IsLocked, TypeOK, Status
  <2>3. SideOf[t] # Opposite(s)
    BY <2>2, SideFacts
  <2>4. ~Owes(t, s)
    BY <1>7, <2>3 DEF ResetWaitingBit, Owes
  <2>5. QED BY <1>2, <1>7, <2>2, <2>4 DEF Run
<1>8. ASSUME NEW t \in Threads, Retry(t)
      PROVE  \E u \in Threads : Owes(u, s)'
  <2>0. status' = status /\ stranded' = stranded
    BY <1>8 DEF Retry, SetSideStableRetry, TryLockRetry, UnlockRetry,
                ResetWaitingBitRetry, Reload
  <2>1. CASE SetSideStableRetry(t) \/ UnlockRetry(t)
    BY <1>2, <1>8, <2>0, <2>1 DEF SetSideStableRetry, UnlockRetry, Owes
  <2>2. CASE TryLockRetry(t)
    <3>1. ~IsLocked(status) /\ SideOf[t] \in status.stable
      BY <2>0, SideFacts DEF CanReset, IsStable
    <3>2. pc'[t] = "lock"
      BY <2>2, <3>1 DEF TryLockRetry, Enter, TypeOK
    <3>3. QED BY <3>2 DEF Owes
  <2>3. CASE ResetWaitingBitRetry(t)
    <3>1. CASE SideOf[t] = Opposite(s)
      <4>1. Opposite(SideOf[t]) = s
        BY <3>1, SideFacts
      <4>2. pc'[t] = "reset"
        BY <2>0, <2>3, <4>1 DEF ResetWaitingBitRetry, Again, Enter, TypeOK
      <4>3. QED BY <3>1, <4>2 DEF Owes
    <3>2. CASE SideOf[t] # Opposite(s)
      BY <1>2, <1>8, <2>0, <2>3, <3>2 DEF ResetWaitingBitRetry, Owes
    <3>3. QED BY <3>1, <3>2
  <2>4. QED BY <1>8, <2>1, <2>2, <2>3 DEF Retry
<1>9. CASE UNCHANGED vars
  BY <1>9 DEF vars, locals, WakeupOwed, Owes
<1>10. QED BY <1>3, <1>4, <1>11, <1>5, <1>6, <1>7, <1>8, <1>9 DEF Next, Run

\* The inductive invariant holds throughout every behaviour of the loops.
LEMMA Inductive == Spec => []IInv
<1>1. Init => IInv
  <2> SUFFICES ASSUME Init PROVE IInv
    OBVIOUS
  <2>1. TypeOK
    BY StatusFacts DEF Init, TypeOK, PCs, Bits, Jobs
  <2>2. status.locked = {} /\ status.waiting = {}
    BY DEF Init, kUnstable, kStable
  <2>3. LockOwnership /\ HolderOwns /\ LoopKnows /\ WaitersAreStable
    BY <2>2 DEF Init, LockOwnership, HolderOwns, LoopKnows, WaitersAreStable, IsLocked
  <2>4. WakeupOwed
    BY <2>2 DEF WakeupOwed, CanReset
  <2>5. QED BY <2>1, <2>3, <2>4 DEF IInv
<1>2. IInv /\ [Next]_vars => IInv'
  BY TypeStep, OwnershipStep, LoopStep, WaitersStep, WakeupStep DEF IInv
<1>3. QED BY <1>1, <1>2, PTL DEF Spec

\* Whatever the interleaving of the compare-exchange loops of any number of
\* threads, TryLock() has at most one successful caller at a time, the locked
\* bits name its side, and a locked link is stable.
THEOREM LockIsExclusive == Spec => []LockOwnership
BY Inductive, PTL DEF IInv

\* Whatever the interleaving of any number of threads, a waiting bit is cleared
\* only by ResetWaitingBit() in a Flush() of the other side, which sends the
\* FlushRouter message that the bit asks for.
THEOREM NoWaiterIsForgotten == Spec => WaitersAreNotForgotten
<1>1. IInv /\ [Next]_vars => [\A s \in status.waiting \ status'.waiting : s \in notified']_vars
  <2> SUFFICES ASSUME IInv, Next, NEW s \in status.waiting, s \notin status'.waiting
               PROVE  s \in notified'
    OBVIOUS
  <2> USE DEF IInv, TypeOK, Status
  <2>1. ASSUME NEW t \in Threads, Begin(t) \/ OnFlushRouter(t) \/ Retry(t)
        PROVE  FALSE
    BY <2>1 DEF Begin, BeginMarkSideStable, BeginFlush, BeginSerialize, OnFlushRouter, Retry,
       SetSideStableRetry, TryLockRetry, UnlockRetry, ResetWaitingBitRetry, Reload
  <2>2. ASSUME NEW t \in Threads, Run(t), ~ResetWaitingBit(t)
        PROVE  FALSE
    BY <2>2 DEF Run, SetSideStable, TryLock, KeepLock, BeginUnlock, Unlock, Swap,
       SetStable, SetLocked, SetWaiting, ClearLocked
  <2>3. ASSUME NEW t \in Threads, ResetWaitingBit(t)
        PROVE  s \in notified'
    BY <2>3 DEF ResetWaitingBit, Swap, ClearWaiting
  <2>4. QED BY <2>1, <2>2, <2>3 DEF Next
<1>2. QED BY <1>1, Inductive, PTL DEF Spec, WaitersAreNotForgotten

\* No thread returns from Flush() leaving behind a stable, unlocked link whose
\* other side waits, but for the one case of the code: once all calls have
\* returned, every waiting side has been notified, or the link is locked, or a
\* bridge that could not lock its second link gave this one back with Unlock()
\* while the side was waiting, in a Flush() that was not to wake it.
THEOREM WakeupIsLostOnlyToABridge == Spec => []NoLostWakeup
<1>1. IInv => NoLostWakeup
  <2> SUFFICES ASSUME IInv, \A t \in Threads : pc[t] = "idle",
                      IsStable(status), ~IsLocked(status),
                      NEW s \in status.waiting, s \notin stranded
               PROVE  FALSE
    BY DEF NoLostWakeup
  <2>1. s \in Sides
    BY DEF IInv, TypeOK, Status
  <2>2. PICK t \in Threads : Owes(t, s)
    BY <2>1 DEF IInv, WakeupOwed, CanReset
  <2>3. QED BY <2>2 DEF Owes
<1>2. QED BY <1>1, Inductive, PTL

----------------------------------------------------------------------------
\* The instance's copies of the operators on the status word are the module's.
LEMMA SameOperators ==
    /\ Atomic!Sides = Sides
    /\ Atomic!kUnstable = kUnstable /\ Atomic!kStable = kStable
    /\ \A st, s : Atomic!SetStable(st, s) = SetStable(st, s)
    /\ \A st, s : Atomic!ClearLocked(st, s) = ClearLocked(st, s)
    /\ \A st, s : Atomic!AfterTryLock(st, s) = AfterTryLock(st, s)
    /\ \A st, s : Atomic!AfterReset(st, s) = AfterReset(st, s)
BY Zenon DEF Atomic!Sides, Sides, Atomic!kUnstable, kUnstable, Atomic!kStable, kStable,
       Atomic!SetStable, SetStable, Atomic!ClearLocked, ClearLocked,
       Atomic!AfterTryLock, AfterTryLock, Atomic!AfterReset, AfterReset,
       Atomic!CanLock, CanLock, Atomic!MustWait, MustWait, Atomic!CanReset,
       CanReset, Atomic!IsStable, IsStable, Atomic!IsLocked, IsLocked,
       Atomic!SetLocked, SetLocked, Atomic!SetWaiting, SetWaiting,
       Atomic!ClearWaiting, ClearWaiting

\* One step of a loop is one atomic operation on the status word, or leaves
\* it alone.
LEMMA StepRefines == IInv /\ [Next]_vars => [Atomic!Next]_status
<1> SUFFICES ASSUME IInv, [Next]_vars PROVE Atomic!Next \/ status' = status
  OBVIOUS
<1> USE SameOperators DEF IInv
<1>1. ASSUME NEW t \in Threads, Begin(t) \/ OnFlushRouter(t) \/ Retry(t)
      PROVE  status' = status
  BY <1>1 DEF Begin, BeginMarkSideStable, BeginFlush, BeginSerialize,
     OnFlushRouter, Retry, SetSideStableRetry, TryLockRetry, UnlockRetry,
     ResetWaitingBitRetry, Reload
<1>2. ASSUME NEW t \in Threads, Run(t)
      PROVE  Atomic!Next \/ status' = status
  <2>0. SideOf[t] \in Sides /\ Opposite(SideOf[t]) \in Sides
    BY SideFacts
  <2>1. CASE SetSideStable(t)
    BY <2>0, <2>1 DEF SetSideStable, Swap, Atomic!Next, Atomic!SetSideStable
  <2>2. CASE TryLock(t)
    <3>1. status' = AfterTryLock(status, SideOf[t])
      <4>1. CASE bit[t] = "locked"
        <5>1. CanLock(status, SideOf[t]) /\ status' = SetLocked(status, SideOf[t])
          BY <2>2, <4>1 DEF TryLock, Swap, LoopKnows
        <5>2. ~MustWait(status, SideOf[t])
          BY <5>1 DEF MustWait, CanLock
        <5>3. QED BY <5>1, <5>2 DEF AfterTryLock
      <4>2. CASE bit[t] # "locked"
        <5>1. MustWait(status, SideOf[t]) /\ status' = SetWaiting(status, SideOf[t])
          BY <2>2, <4>2 DEF TryLock, Swap, LoopKnows
        <5>2. ~CanLock(status, SideOf[t])
          BY <5>1 DEF MustWait, CanLock
        <5>3. QED BY <5>1, <5>2 DEF AfterTryLock
      <4>3. QED BY <4>1, <4>2
    <3>2. QED BY <2>0, <3>1 DEF Atomic!Next, Atomic!TryLock
  <2>3. CASE KeepLock(t) \/ BeginUnlock(t)
    BY <2>3 DEF KeepLock, BeginUnlock
  <2>4. CASE Unlock(t)
    <3>1. SideOf[t] \in status.locked
      <4>1. pc[t] = "unlock"
        BY <2>4 DEF Unlock
      <4>2. QED BY <4>1, HolderLocks
    <3>2. QED BY <2>0, <2>4, <3>1 DEF Unlock, Swap, Atomic!Next, Atomic!Unlock
  <2>5. CASE ResetWaitingBit(t)
    <3>1. status' = AfterReset(status, Opposite(SideOf[t]))
      BY <2>5 DEF ResetWaitingBit, Swap, LoopKnows, AfterReset
    <3>2. QED BY <2>0, <3>1 DEF Atomic!Next, Atomic!ResetWaitingBit
  <2>6. QED BY <1>2, <2>1, <2>2, <2>3, <2>4, <2>5 DEF Run
<1>3. QED BY <1>1, <1>2 DEF Next, vars

\* SetSideStable(), TryLock(), Unlock() and ResetWaitingBit() are linearizable:
\* the loops implement the atomic specification, each operation taking effect
\* at its successful compare-exchange.
THEOREM LoopsAreAtomic == Spec => ImplementsAtomicLinkState
<1>1. Init => Atomic!Init
  BY SameOperators DEF Init, Atomic!Init
<1>2. QED BY <1>1, StepRefines, Inductive, PTL
          DEF Spec, Atomic!Spec, ImplementsAtomicLinkState
============================================================================
