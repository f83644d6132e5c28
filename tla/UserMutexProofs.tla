--------------------------- MODULE UserMutexProofs ---------------------------
(* Theorems about UserMutex, for every set of threads and frames and any      *)
(* bounds: the owner on record holds the mutex, whatever the programs do; and *)
(* the record of a mutex whose locks are paired is right, when nobody unlocks *)
(* what he does not hold and nobody releases all his mutexes hastily; and,    *)
(* when one thread creates the mutexes, a thread that exits keeps none.       *)
EXTENDS UserMutex, SequenceTheorems, TLAPS

Labels == {"idle", "gone", "create", "lock", "locked", "try", "unlock", "destroy",
           "all", "all-unlock", "all-count", "exit", "exit-unlock", "exit-count"}

-----------------------------------------------------------------------------
(* The owner on record.                                                       *)
RecordsTyped ==
  /\ pc \in [Threads -> Labels] /\ DOMAIN at = Threads
  /\ at = [t \in Threads |-> at[t]]
  /\ holder \in [Frames -> Threads \cup {Nobody}] /\ held \in [Frames -> Int]
  /\ owner \in [Frames -> Threads \cup {Nobody}] /\ numLocks \in [Frames -> Int]

(* A thread that has the mutex, and has not yet set the fields of the frame.  *)
Enters(t, m) == pc[t] = "locked" /\ at[t] = m
LockedHeld == \A t \in Threads, m \in Frames : Enters(t, m) => holder[m] = t

(* A mutex that one thread takes, or gives back, keeps its record true.       *)
LEMMA AcquireKeepsOwner ==
  ASSUME NEW t \in Threads, NEW m, RecordsTyped, OwnerHolds,
         Available(t, m), Acquire(t, m), owner' = owner
  PROVE  OwnerHolds'
BY ThreadsAssumption DEF RecordsTyped, OwnerHolds, Available, Acquire

LEMMA UnlockKeepsOwner ==
  ASSUME NEW t \in Threads, NEW m, RecordsTyped, OwnerHolds,
         Disown(t, m), PthreadUnlock(t, m)
  PROVE  OwnerHolds'
BY ThreadsAssumption DEF RecordsTyped, OwnerHolds, Disown, PthreadUnlock

LEMMA GotoTyped ==
  ASSUME NEW t \in Threads, NEW l \in Labels, NEW m, RecordsTyped, Goto(t, l, m)
  PROVE  /\ pc' \in [Threads -> Labels] /\ DOMAIN at' = Threads
         /\ at' = [u \in Threads |-> at'[u]]
BY DEF RecordsTyped, Goto

LEMMA DecrementTyped ==
  ASSUME NEW f \in [Frames -> Int], NEW m
  PROVE  [f EXCEPT ![m] = f[m] - 1] \in [Frames -> Int]
<1> DEFINE g == [f EXCEPT ![m] = f[m] - 1]
<1>1. g = [x \in Frames |-> IF x = m THEN f[m] - 1 ELSE f[x]]
  OBVIOUS
<1>2. \A x \in Frames : (IF x = m THEN f[m] - 1 ELSE f[x]) \in Int
  OBVIOUS
<1> QED BY <1>1, <1>2

LEMMA UnlockTyped ==
  ASSUME NEW t \in Threads, NEW m, RecordsTyped, Disown(t, m), PthreadUnlock(t, m)
  PROVE  /\ holder' \in [Frames -> Threads \cup {Nobody}] /\ held' \in [Frames -> Int]
         /\ owner' \in [Frames -> Threads \cup {Nobody}]
<1>1. owner' \in [Frames -> Threads \cup {Nobody}]
  BY DEF RecordsTyped, Disown
<1>2. CASE holder[m] = t
  <2>1. holder' \in [Frames -> Threads \cup {Nobody}]
    BY <1>2 DEF RecordsTyped, PthreadUnlock
  <2>2. held' = [held EXCEPT ![m] = held[m] - 1]
    BY <1>2 DEF PthreadUnlock
  <2>3. held' \in [Frames -> Int]
    BY <2>2, DecrementTyped DEF RecordsTyped
  <2> QED BY <1>1, <2>1, <2>3
<1>3. CASE holder[m] # t
  BY <1>1, <1>3 DEF RecordsTyped, PthreadUnlock
<1> QED BY <1>2, <1>3

(* Types first: what a step writes to a record.                               *)
LEMMA RecordsStayTyped ==
  ASSUME RecordsTyped, [Next]_vars PROVE RecordsTyped'
<1> USE DEF Labels
<1> SUFFICES ASSUME Next PROVE RecordsTyped'
  BY DEF RecordsTyped, vars, threadVars, frameVars
<1>1. PICK t \in Threads :
        \/ \E m \in Frames : CreateRead(t, m) \/ CallLock(t, m) \/ CallTry(t, m)
                             \/ CallUnlock(t, m) \/ CallDestroy(t, m)
        \/ CallUnlockAll(t) \/ CallExit(t) \/ Continue(t)
  BY DEF Next
<1>2. CASE \/ \E m \in Frames : CreateRead(t, m) \/ CallLock(t, m) \/ CallTry(t, m)
                                \/ CallUnlock(t, m) \/ CallDestroy(t, m)
           \/ CallUnlockAll(t) \/ CallExit(t)
  BY <1>2, GotoTyped DEF CreateRead, CallLock, CallTry, CallUnlock, CallDestroy, CallUnlockAll,
     CallExit, Call, frameVars, RecordsTyped
<1>3. CASE CreateLink(t) \/ Destroy(t) \/ UseFreed(t) \/ EndOfChain(t) \/ SkipFrame(t)
  BY <1>3, GotoTyped DEF CreateLink, Destroy, UseFreed, EndOfChain, SkipFrame, Done, frameVars,
     RecordsTyped
<1>4. CASE FoundFrame(t)
  BY <1>4, GotoTyped DEF FoundFrame, ToUnlock, frameVars, RecordsTyped
<1>5. CASE Lock(t) \/ TryLock(t) \/ SetFields(t)
  BY <1>5, GotoTyped DEF Lock, TryLock, SetFields, Done, Acquire, Owned, RecordsTyped
<1>6. CASE Unlock(t)
  <2>1. Goto(t, "idle", Nobody)
    BY <1>6 DEF Unlock, Done
  <2> QED BY <1>6, <2>1, GotoTyped, UnlockTyped, DecrementTyped DEF Unlock, RecordsTyped
<1>7. CASE UnlockFound(t)
  <2>1. /\ holder' \in [Frames -> Threads \cup {Nobody}] /\ held' \in [Frames -> Int]
        /\ owner' \in [Frames -> Threads \cup {Nobody}] /\ numLocks' \in [Frames -> Int]
    BY <1>7, UnlockTyped DEF UnlockFound, RecordsTyped
  <2>2. \/ Goto(t, "idle", Nobody) \/ Goto(t, "exit", First)
        \/ Goto(t, "all-count", at[t]) \/ Goto(t, "exit-count", at[t])
    BY <1>7 DEF UnlockFound, Done, ToCount
  <2> QED BY <2>1, <2>2, GotoTyped DEF RecordsTyped
<1>8. CASE CountFound(t)
  <2>1. /\ numLocks' \in [Frames -> Int] /\ UNCHANGED <<holder, held, owner>>
    BY <1>8, DecrementTyped DEF CountFound, RecordsTyped
  <2>2. \/ Goto(t, "all-unlock", at[t]) \/ Goto(t, "exit-unlock", at[t])
        \/ Goto(t, "all", After(at[t])) \/ Goto(t, "exit", After(at[t]))
    BY <1>8 DEF CountFound, ToUnlock, Test
  <2> QED BY <2>1, <2>2, GotoTyped DEF RecordsTyped
<1> QED BY <1>1, <1>2, <1>3, <1>4, <1>5, <1>6, <1>7, <1>8 DEF Continue

(* Nobody else takes the mutex between pthread_mutex_lock and the writes.     *)
LEMMA LockedStaysHeld ==
  ASSUME RecordsTyped, LockedHeld, [Next]_vars PROVE LockedHeld'
<1> SUFFICES ASSUME Next PROVE LockedHeld'
  BY DEF LockedHeld, Enters, vars, threadVars, frameVars
<1>1. PICK t \in Threads :
        \/ \E m \in Frames : CreateRead(t, m) \/ CallLock(t, m) \/ CallTry(t, m)
                             \/ CallUnlock(t, m) \/ CallDestroy(t, m)
        \/ CallUnlockAll(t) \/ CallExit(t) \/ Continue(t)
  BY DEF Next
<1>2. ASSUME NEW l, NEW x, Goto(t, l, x), l = "locked" /\ x \in Frames => holder'[x] = t,
             \A m \in Frames : holder'[m] = holder[m] \/ holder[m] \in {Nobody, t}
      PROVE  LockedHeld'
  <2>1. /\ pc'[t] = l /\ at'[t] = x
        /\ \A u \in Threads : u # t => pc'[u] = pc[u] /\ at'[u] = at[u]
    BY <1>2 DEF Goto, RecordsTyped
  <2> QED BY <1>2, <2>1, ThreadsAssumption DEF LockedHeld, Enters
<1>3. CASE \/ \E m \in Frames : CreateRead(t, m) \/ CallLock(t, m) \/ CallTry(t, m)
                                \/ CallUnlock(t, m) \/ CallDestroy(t, m)
           \/ CallUnlockAll(t) \/ CallExit(t)
  BY <1>2, <1>3 DEF CreateRead, CallLock, CallTry, CallUnlock, CallDestroy, CallUnlockAll,
     CallExit, Call, frameVars
<1>4. CASE CreateLink(t) \/ Destroy(t) \/ UseFreed(t) \/ EndOfChain(t) \/ SetFields(t)
  BY <1>2, <1>4 DEF CreateLink, Destroy, UseFreed, EndOfChain, SetFields, Done, frameVars
<1>5. CASE Lock(t)
  <2>1. /\ Goto(t, "locked", at[t]) /\ holder[at[t]] \in {Nobody, t}
        /\ holder' = [holder EXCEPT ![at[t]] = t]
    BY <1>5 DEF Lock, Available, Acquire
  <2> QED BY <1>2, <2>1 DEF RecordsTyped
<1>6. CASE TryLock(t)
  <2>1. Goto(t, "idle", Nobody)
    BY <1>6 DEF TryLock, Done
  <2>2. \A m \in Frames : holder'[m] = holder[m] \/ holder[m] \in {Nobody, t}
    BY <1>6 DEF TryLock, Available, Acquire, RecordsTyped
  <2> QED BY <1>2, <2>1, <2>2
<1>7. CASE Unlock(t) \/ UnlockFound(t)
  <2>1. PICK l \in {"idle", "exit", "all-count", "exit-count"} : \E x : Goto(t, l, x)
    BY <1>7 DEF Unlock, UnlockFound, ToCount, Done
  <2>2. \A m \in Frames : holder'[m] = holder[m] \/ holder[m] \in {Nobody, t}
    BY <1>7 DEF Unlock, UnlockFound, PthreadUnlock, RecordsTyped
  <2> QED BY <1>2, <2>1, <2>2
<1>8. CASE SkipFrame(t) \/ FoundFrame(t) \/ CountFound(t)
  <2>1. PICK l \in {"all", "exit", "all-unlock", "exit-unlock"} : \E x : Goto(t, l, x)
    BY <1>8 DEF SkipFrame, FoundFrame, CountFound, ToUnlock, Test
  <2>2. holder' = holder
    BY <1>8 DEF SkipFrame, FoundFrame, CountFound, frameVars
  <2> QED BY <1>2, <2>1, <2>2
<1> QED BY <1>1, <1>3, <1>4, <1>5, <1>6, <1>7, <1>8 DEF Continue
-----------------------------------------------------------------------------
(* A thread that the engine takes for the owner of a mutex holds it: no       *)
(* unlock for an owner is refused by POSIX (unlock_mutex, mutex_unlock_all),  *)
(* with nested locks, trials, foreign unlocks and releases in any order.      *)
THEOREM OwnerIsHolder == Spec => []OwnerHolds
<1>1. Init => RecordsTyped /\ OwnerHolds /\ LockedHeld
  BY DEF Init, RecordsTyped, OwnerHolds, LockedHeld, Enters, Labels
<1>2. RecordsTyped /\ OwnerHolds /\ LockedHeld /\ [Next]_vars => OwnerHolds'
  <2> SUFFICES ASSUME RecordsTyped, OwnerHolds, LockedHeld, Next PROVE OwnerHolds'
    BY DEF vars, frameVars, OwnerHolds
  <2>1. PICK t \in Threads :
          \/ \E m \in Frames : CreateRead(t, m) \/ CallLock(t, m) \/ CallTry(t, m)
                               \/ CallUnlock(t, m) \/ CallDestroy(t, m)
          \/ CallUnlockAll(t) \/ CallExit(t) \/ Continue(t)
    BY DEF Next
  <2>2. CASE Lock(t) \/ TryLock(t)
    BY <2>2, AcquireKeepsOwner DEF Lock, TryLock, OwnerHolds
  <2>3. CASE SetFields(t)
    BY <2>3 DEF SetFields, Owned, LockedHeld, Enters, RecordsTyped, OwnerHolds
  <2>4. CASE Unlock(t) \/ UnlockFound(t)
    BY <2>4, UnlockKeepsOwner DEF Unlock, UnlockFound
  <2>5. ASSUME UNCHANGED <<holder, owner>> PROVE OwnerHolds'
    BY <2>5 DEF OwnerHolds
  <2> QED
    BY <2>1, <2>2, <2>3, <2>4, <2>5 DEF Continue, CreateRead, CallLock, CallTry, CallUnlock,
       CallDestroy, CallUnlockAll, CallExit, Call, CreateLink, Destroy, UseFreed, SkipFrame,
       FoundFrame, CountFound, EndOfChain, frameVars
<1> QED BY <1>1, <1>2, RecordsStayTyped, LockedStaysHeld, PTL DEF Spec
-----------------------------------------------------------------------------
(* The record of a mutex whose locks are paired.  HolderIsRecorded looks at   *)
(* threads outside a request; what makes it inductive is where the others     *)
(* are.  Between the unlock in mutex_unlock_all and the decrement that        *)
(* follows it, a mutex nobody holds is still counted as locked once; between  *)
(* pthread_mutex_lock and the writes of the fields, a mutex that is held is   *)
(* counted as free.                                                           *)
Counts(t, m) == pc[t] \in {"all-count", "exit-count"} /\ at[t] = m
Unlocks(t, m) == pc[t] \in {"unlock", "all-unlock", "exit-unlock"} /\ at[t] = m

PairedRecord(m) ==
  /\ holder[m] # Nobody =>
       /\ held[m] = 1
       /\ IF Enters(holder[m], m) THEN owner[m] = Nobody /\ numLocks[m] = 0
          ELSE owner[m] = holder[m] /\ numLocks[m] = 1
  /\ holder[m] = Nobody => owner[m] = Nobody /\ held[m] = 0
  /\ holder[m] = Nobody /\ (\A t \in Threads : ~Counts(t, m)) => numLocks[m] = 0

PairedCalls(m) ==
  \A t \in Threads :
    /\ Counts(t, m) => /\ holder[m] = Nobody /\ numLocks[m] = 1
                       /\ \A u \in Threads : Counts(u, m) => u = t
    /\ Unlocks(t, m) => holder[m] = t
    /\ pc[t] = "lock" /\ at[t] = m => holder[m] # t
    /\ pc[t] = "try" => at[t] # m

Walks(t) == pc[t] \in {"all", "all-unlock", "all-count", "exit", "exit-unlock", "exit-count"}
WalksAlone ==
  \A t, u \in Threads : Walks(t) => pc[u] \notin {"lock", "destroy"}

Paired == Frames \ Unpaired
PairedInv ==
  /\ RecordsTyped /\ LockedHeld /\ WalksAlone
  /\ \A m \in Paired : PairedRecord(m) /\ PairedCalls(m)

(* A thread that goes elsewhere and leaves mutex m as it is.                  *)
Arrives(t, l, x, m) ==
  x = m => /\ l \notin {"all-count", "exit-count", "try", "locked"}
           /\ l \in {"unlock", "all-unlock", "exit-unlock"} => holder[m] = t
           /\ l = "lock" => holder[m] # t
Same(m) ==
  /\ holder'[m] = holder[m] /\ held'[m] = held[m]
  /\ owner'[m] = owner[m] /\ numLocks'[m] = numLocks[m]

LEMMA Moved ==
  ASSUME NEW t \in Threads, NEW l, NEW x, NEW m \in Paired, PairedInv,
         Goto(t, l, x), Same(m), Arrives(t, l, x, m), ~Counts(t, m), ~Enters(t, m)
  PROVE  PairedRecord(m)' /\ PairedCalls(m)'
<1>1. /\ pc' = [u \in Threads |-> IF u = t THEN l ELSE pc[u]]
      /\ at' = [u \in Threads |-> IF u = t THEN x ELSE at[u]]
  BY DEF Goto, PairedInv, RecordsTyped
<1>2. \A u \in Threads : (Counts(u, m)' <=> Counts(u, m)) /\ (Enters(u, m)' <=> Enters(u, m))
  BY <1>1 DEF Arrives, Counts, Enters
<1>3. PairedRecord(m)'
  <2>1. PICK h : h = holder[m]
    OBVIOUS
  <2>2. h # Nobody => h \in Threads /\ (Enters(h, m)' <=> Enters(h, m))
    BY <1>2, <2>1 DEF PairedInv, RecordsTyped, Paired
  <2>3. holder'[m] = h
    BY <2>1 DEF Same
  <2>4. h # Nobody =>
          /\ held'[m] = 1
          /\ IF Enters(h, m)' THEN owner'[m] = Nobody /\ numLocks'[m] = 0
             ELSE owner'[m] = h /\ numLocks'[m] = 1
    BY <2>1, <2>2 DEF PairedInv, PairedRecord, Same
  <2> QED BY <1>2, <2>1, <2>3, <2>4 DEF PairedInv, PairedRecord, Same, Enters
<1>4. PairedCalls(m)'
  BY <1>1, <1>2 DEF PairedInv, PairedCalls, Same, Arrives, Unlocks
<1> QED BY <1>3, <1>4

(* The steps that change mutex m.                                             *)
LEMMA LockPaired ==
  ASSUME NEW t \in Threads, NEW m \in Paired, PairedInv, Lock(t), at[t] = m
  PROVE  PairedRecord(m)' /\ PairedCalls(m)'
<1>1. /\ pc' = [u \in Threads |-> IF u = t THEN "locked" ELSE pc[u]]
      /\ at' = [u \in Threads |-> IF u = t THEN m ELSE at[u]]
  BY DEF Lock, Goto, PairedInv, RecordsTyped
<1>2. holder[m] = Nobody /\ m \in Frames /\ pc[t] = "lock"
  BY DEF Lock, Available, PairedInv, PairedCalls, Paired
<1>3. \A u \in Threads : ~Counts(u, m)
  BY <1>2 DEF PairedInv, WalksAlone, Walks, Counts
<1>4. owner[m] = Nobody /\ held[m] = 0 /\ numLocks[m] = 0
  BY <1>2, <1>3 DEF PairedInv, PairedRecord
<1>5. holder'[m] = t /\ owner'[m] = Nobody /\ held'[m] = 1 /\ numLocks'[m] = 0
  BY <1>2, <1>4 DEF Lock, Acquire, PairedInv, RecordsTyped
<1>6. PairedRecord(m)'
  BY <1>1, <1>5, ThreadsAssumption DEF PairedRecord, Enters
<1>7. \A u \in Threads : ~Counts(u, m)' /\ ~Unlocks(u, m)'
  BY <1>1, <1>2, <1>3, ThreadsAssumption DEF Counts, Unlocks, PairedInv, PairedCalls
<1>8. \A u \in Threads : pc'[u] = "try" => at'[u] # m
  BY <1>1 DEF PairedInv, PairedCalls
<1>9. \A u \in Threads : pc'[u] = "lock" /\ at'[u] = m => holder'[m] # u
  BY <1>1, <1>5
<1> QED BY <1>6, <1>7, <1>8, <1>9 DEF PairedCalls

LEMMA SetFieldsPaired ==
  ASSUME NEW t \in Threads, NEW m \in Paired, PairedInv, SetFields(t), at[t] = m
  PROVE  PairedRecord(m)' /\ PairedCalls(m)'
<1>1. /\ pc' = [u \in Threads |-> IF u = t THEN "idle" ELSE pc[u]]
      /\ at' = [u \in Threads |-> IF u = t THEN Nobody ELSE at[u]]
  BY DEF SetFields, Done, Goto, PairedInv, RecordsTyped
<1>2. Enters(t, m) /\ holder[m] = t /\ m \in Frames /\ pc[t] = "locked"
  BY DEF SetFields, Enters, PairedInv, LockedHeld, Paired
<1>3. held[m] = 1 /\ numLocks[m] = 0
  BY <1>2, ThreadsAssumption DEF PairedInv, PairedRecord
<1>4. holder'[m] = t /\ owner'[m] = t /\ held'[m] = 1 /\ numLocks'[m] = 1
  BY <1>2, <1>3 DEF SetFields, Owned, PairedInv, RecordsTyped
<1>5. PairedRecord(m)'
  BY <1>1, <1>4, ThreadsAssumption DEF PairedRecord, Enters
<1>6. \A u \in Threads : ~Counts(u, m)' /\ ~Unlocks(u, m)'
  BY <1>1, <1>2, ThreadsAssumption DEF Counts, Unlocks, PairedInv, PairedCalls
<1>7. \A u \in Threads : pc'[u] = "try" => at'[u] # m
  BY <1>1 DEF PairedInv, PairedCalls
<1>8. \A u \in Threads : pc'[u] = "lock" /\ at'[u] = m => holder'[m] # u
  BY <1>1, <1>4
<1> QED BY <1>5, <1>6, <1>7, <1>8 DEF PairedCalls

LEMMA UnlockPaired ==
  ASSUME NEW t \in Threads, NEW m \in Paired, PairedInv, Unlock(t), at[t] = m
  PROVE  PairedRecord(m)' /\ PairedCalls(m)'
<1>1. /\ pc' = [u \in Threads |-> IF u = t THEN "idle" ELSE pc[u]]
      /\ at' = [u \in Threads |-> IF u = t THEN Nobody ELSE at[u]]
  BY DEF Unlock, Done, Goto, PairedInv, RecordsTyped
<1>2. holder[m] = t /\ m \in Frames
  BY DEF Unlock, Unlocks, PairedInv, PairedCalls, Paired
<1>3. owner[m] = t /\ held[m] = 1 /\ numLocks[m] = 1
  BY <1>2, ThreadsAssumption DEF Unlock, Enters, PairedInv, PairedRecord
<1>4. holder'[m] = Nobody /\ owner'[m] = Nobody /\ held'[m] = 0 /\ numLocks'[m] = 0
  BY <1>2, <1>3 DEF Unlock, Disown, PthreadUnlock, PairedInv, RecordsTyped
<1>5. PairedRecord(m)'
  BY <1>4 DEF PairedRecord
<1>6. \A u \in Threads : ~Counts(u, m)' /\ ~Unlocks(u, m)'
  BY <1>1, <1>2, ThreadsAssumption DEF Counts, Unlocks, PairedInv, PairedCalls
<1>7. \A u \in Threads : pc'[u] = "try" => at'[u] # m
  BY <1>1 DEF PairedInv, PairedCalls
<1> QED BY <1>4, <1>5, <1>6, <1>7, ThreadsAssumption DEF PairedCalls

LEMMA UnlockFoundPaired ==
  ASSUME NEW t \in Threads, NEW m \in Paired, PairedInv, UnlockFound(t), at[t] = m
  PROVE  PairedRecord(m)' /\ PairedCalls(m)'
<1>1. holder[m] = t /\ m \in Frames
  BY DEF UnlockFound, Unlocks, PairedInv, PairedCalls, Paired
<1>2. \/ pc' = [u \in Threads |-> IF u = t THEN "all-count" ELSE pc[u]]
      \/ pc' = [u \in Threads |-> IF u = t THEN "exit-count" ELSE pc[u]]
  BY <1>1 DEF UnlockFound, ToCount, Goto, PairedInv, RecordsTyped
<1>3. at' = [u \in Threads |-> IF u = t THEN m ELSE at[u]]
  BY <1>1 DEF UnlockFound, Goto, PairedInv, RecordsTyped
<1>4. owner[m] = t /\ held[m] = 1 /\ numLocks[m] = 1
  BY <1>1, ThreadsAssumption DEF UnlockFound, Enters, PairedInv, PairedRecord
<1>5. holder'[m] = Nobody /\ owner'[m] = Nobody /\ held'[m] = 0 /\ numLocks'[m] = 1
  BY <1>1, <1>4 DEF UnlockFound, Disown, PthreadUnlock, PairedInv, RecordsTyped
<1>6. Counts(t, m)'
  BY <1>2, <1>3 DEF Counts
<1>7. PairedRecord(m)'
  BY <1>5, <1>6 DEF PairedRecord
<1>8. \A u \in Threads : (Counts(u, m)' => u = t) /\ ~Unlocks(u, m)'
  BY <1>1, <1>2, <1>3, ThreadsAssumption DEF Counts, Unlocks, PairedInv, PairedCalls
<1>9. \A u \in Threads : pc'[u] = "try" => at'[u] # m
  BY <1>2, <1>3 DEF PairedInv, PairedCalls
<1> QED BY <1>5, <1>7, <1>8, <1>9, ThreadsAssumption DEF PairedCalls

LEMMA CountFoundPaired ==
  ASSUME NEW t \in Threads, NEW m \in Paired, PairedInv, CountFound(t), at[t] = m
  PROVE  PairedRecord(m)' /\ PairedCalls(m)'
<1>1. Counts(t, m) /\ m \in Frames
  BY DEF CountFound, Counts, Paired
<1>2. /\ holder[m] = Nobody /\ numLocks[m] = 1 /\ owner[m] = Nobody /\ held[m] = 0
      /\ \A u \in Threads : Counts(u, m) => u = t
  BY <1>1 DEF PairedInv, PairedRecord, PairedCalls
<1>3. \/ Goto(t, "all", After(m)) \/ Goto(t, "exit", After(m))
  BY <1>2 DEF CountFound, More, Test
<1>4. /\ \/ pc' = [u \in Threads |-> IF u = t THEN "all" ELSE pc[u]]
         \/ pc' = [u \in Threads |-> IF u = t THEN "exit" ELSE pc[u]]
      /\ at' = [u \in Threads |-> IF u = t THEN After(m) ELSE at[u]]
  BY <1>3 DEF Goto, PairedInv, RecordsTyped
<1>5. holder'[m] = Nobody /\ owner'[m] = Nobody /\ held'[m] = 0 /\ numLocks'[m] = 0
  BY <1>1, <1>2 DEF CountFound, PairedInv, RecordsTyped
<1>6. PairedRecord(m)'
  BY <1>5 DEF PairedRecord
<1>7. \A u \in Threads : ~Counts(u, m)' /\ ~Unlocks(u, m)'
  BY <1>2, <1>4, ThreadsAssumption DEF Counts, Unlocks, PairedInv, PairedCalls
<1>8. \A u \in Threads : pc'[u] = "try" => at'[u] # m
  BY <1>4 DEF PairedInv, PairedCalls
<1> QED BY <1>5, <1>6, <1>7, <1>8, ThreadsAssumption DEF PairedCalls

(* Nobody is about to lock while a thread walks the chain.                    *)
LEMMA StaysAlone ==
  ASSUME PairedInv, Hasty = {}, NEW t \in Threads, NEW l, NEW x, Goto(t, l, x),
         l \in {"lock", "destroy"} => Releasing = {},
         l \in {"all", "all-unlock", "all-count", "exit", "exit-unlock", "exit-count"}
           => Walks(t) \/ Undisturbed(t)
  PROVE  WalksAlone'
<1>1. pc' = [u \in Threads |-> IF u = t THEN l ELSE pc[u]]
  BY DEF Goto, PairedInv, RecordsTyped
<1>2. Releasing = {u \in Threads : Walks(u)}
  BY DEF Releasing, Walks
<1>3. ASSUME NEW u \in Threads, NEW v \in Threads, Walks(u)', pc'[v] \in {"lock", "destroy"}
      PROVE  FALSE
  <2>1. CASE u = t
    BY <1>1, <1>3, <2>1 DEF Walks, Undisturbed, PairedInv, WalksAlone
  <2>2. CASE u # t
    <3>1. Walks(u)
      BY <1>1, <1>3, <2>2 DEF Walks
    <3>2. v # t
      BY <1>1, <1>2, <1>3, <3>1
    <3> QED BY <1>1, <1>3, <3>1, <3>2 DEF PairedInv, WalksAlone
  <2> QED BY <2>1, <2>2
<1> QED BY <1>3 DEF WalksAlone

(* A request that begins, with the mutexes as they are.                       *)
LEMMA CallPaired ==
  ASSUME PairedInv, Hasty = {}, Strangers = {}, NEW t \in Threads,
         \/ \E n \in Frames : CreateRead(t, n) \/ CallLock(t, n) \/ CallTry(t, n)
                              \/ CallUnlock(t, n) \/ CallDestroy(t, n)
         \/ CallUnlockAll(t) \/ CallExit(t)
  PROVE  WalksAlone' /\ \A m \in Paired : PairedRecord(m)' /\ PairedCalls(m)'
<1>1. PICK l, x : /\ Goto(t, l, x)
                  /\ l \in {"create", "lock", "try", "unlock", "destroy", "all", "exit"}
                  /\ l \in {"lock", "destroy"} => Releasing = {}
                  /\ l \in {"all", "exit"} => Undisturbed(t)
                  /\ \A m \in Paired : Arrives(t, l, x, m)
  <2>1. CASE \E n \in Frames : CreateRead(t, n) \/ CallLock(t, n) \/ CallTry(t, n)
                              \/ CallUnlock(t, n) \/ CallDestroy(t, n)
    BY <2>1 DEF CreateRead, CallLock, CallTry, CallUnlock, CallDestroy, Call, Arrives, Paired
  <2>2. CASE CallUnlockAll(t) \/ CallExit(t)
    BY <2>2 DEF CallUnlockAll, CallExit, Call, Arrives
  <2> QED BY <2>1, <2>2
<1>2. pc[t] = "idle" /\ UNCHANGED frameVars
  BY DEF CreateRead, CallLock, CallTry, CallUnlock, CallDestroy, CallUnlockAll, CallExit, Call
<1>3. WalksAlone'
  BY <1>1, StaysAlone
<1>4. ASSUME NEW m \in Paired PROVE PairedRecord(m)' /\ PairedCalls(m)'
  BY <1>1, <1>2, Moved DEF frameVars, Same, Counts, Enters
<1> QED BY <1>3, <1>4

(* A step inside a request that finds the mutex unchanged, or another one.    *)
LEMMA ContinuePaired ==
  ASSUME PairedInv, Hasty = {}, NEW t \in Threads, Continue(t)
  PROVE  WalksAlone' /\ \A m \in Paired : PairedRecord(m)' /\ PairedCalls(m)'
<1>1. CASE CreateLink(t) \/ Destroy(t) \/ UseFreed(t) \/ TryLock(t) \/ EndOfChain(t)
  <2>1. PICK l : l \in {"idle", "gone"} /\ Goto(t, l, Nobody)
    BY <1>1 DEF CreateLink, Destroy, UseFreed, TryLock, EndOfChain, Done
  <2>2. ASSUME NEW m \in Paired PROVE Same(m)
    <3>1. CASE CreateLink(t) \/ Destroy(t) \/ UseFreed(t) \/ EndOfChain(t)
      BY <3>1 DEF CreateLink, Destroy, UseFreed, EndOfChain, frameVars, Same
    <3>2. CASE TryLock(t)
      BY <3>2 DEF TryLock, Acquire, PairedInv, PairedCalls, RecordsTyped, Same, Paired
    <3> QED BY <1>1, <3>1, <3>2
  <2>3. \A m : ~Counts(t, m) /\ ~Enters(t, m)
    BY <1>1 DEF CreateLink, Destroy, UseFreed, TryLock, EndOfChain, Counts, Enters
  <2>4. \A m \in Paired : Arrives(t, l, Nobody, m)
    BY <2>1 DEF Arrives
  <2> QED BY <2>1, <2>2, <2>3, <2>4, Moved, StaysAlone
<1>2. CASE SkipFrame(t) \/ FoundFrame(t)
  <2>1. PICK l, x :
          /\ Goto(t, l, x) /\ l \in {"all", "exit", "all-unlock", "exit-unlock"}
          /\ l \in {"all-unlock", "exit-unlock"} => x = at[t] /\ owner[x] = t
    BY <1>2 DEF SkipFrame, FoundFrame, ToUnlock
  <2>2. Walks(t) /\ (\A m : ~Counts(t, m) /\ ~Enters(t, m)) /\ UNCHANGED frameVars
    BY <1>2 DEF SkipFrame, FoundFrame, Walks, Counts, Enters
  <2>3. ASSUME NEW m \in Paired PROVE Arrives(t, l, x, m)
    BY <2>1, ThreadsAssumption DEF Arrives, PairedInv, PairedRecord
  <2> QED BY <2>1, <2>2, <2>3, Moved, StaysAlone DEF frameVars, Same
<1>3. CASE Lock(t) \/ SetFields(t) \/ Unlock(t)
  <2>1. PICK l, x : /\ Goto(t, l, x) /\ l \in {"idle", "locked"}
                    /\ l = "locked" => x = at[t]
    BY <1>3 DEF Lock, SetFields, Unlock, Done
  <2>2. ASSUME NEW m \in Paired, at[t] # m
        PROVE  Same(m) /\ Arrives(t, l, x, m) /\ ~Counts(t, m) /\ ~Enters(t, m)
    <3>1. Same(m)
      BY <1>3, <2>2 DEF Lock, SetFields, Unlock, Acquire, Owned, Disown, PthreadUnlock,
         PairedInv, RecordsTyped, Same, Paired
    <3> QED BY <2>1, <2>2, <3>1 DEF Arrives, Counts, Enters
  <2>3. \A m \in Paired : PairedRecord(m)' /\ PairedCalls(m)'
    BY <1>3, <2>1, <2>2, Moved, LockPaired, SetFieldsPaired, UnlockPaired
  <2> QED BY <2>1, <2>3, StaysAlone
<1>4. CASE UnlockFound(t)
  <2>1. PICK l, x :
          /\ Goto(t, l, x) /\ l \in {"idle", "exit", "all-count", "exit-count"}
          /\ l \in {"all-count", "exit-count"} => x = at[t]
    BY <1>4 DEF UnlockFound, Done, ToCount
  <2>2. Walks(t) /\ \A m : ~Counts(t, m) /\ ~Enters(t, m)
    BY <1>4 DEF UnlockFound, Walks, Counts, Enters
  <2>3. ASSUME NEW m \in Paired, at[t] # m PROVE Same(m) /\ Arrives(t, l, x, m)
    BY <1>4, <2>1, <2>3 DEF UnlockFound, Disown, PthreadUnlock, PairedInv, RecordsTyped, Same,
       Arrives, Paired
  <2>4. \A m \in Paired : PairedRecord(m)' /\ PairedCalls(m)'
    BY <1>4, <2>1, <2>2, <2>3, Moved, UnlockFoundPaired
  <2> QED BY <2>1, <2>2, <2>4, StaysAlone
<1>5. CASE CountFound(t)
  <2>1. PICK l, x :
          /\ Goto(t, l, x) /\ l \in {"all", "exit", "all-unlock", "exit-unlock"}
          /\ l \in {"all-unlock", "exit-unlock"} => x = at[t]
    BY <1>5 DEF CountFound, ToUnlock, Test
  <2>2. Walks(t)
    BY <1>5 DEF CountFound, Walks
  <2>3. ASSUME NEW m \in Paired, at[t] # m
        PROVE  Same(m) /\ Arrives(t, l, x, m) /\ ~Counts(t, m) /\ ~Enters(t, m)
    BY <1>5, <2>1, <2>3 DEF CountFound, PairedInv, RecordsTyped, Same, Arrives, Paired, Counts,
       Enters
  <2>4. \A m \in Paired : PairedRecord(m)' /\ PairedCalls(m)'
    BY <1>5, <2>1, <2>3, Moved, CountFoundPaired
  <2> QED BY <2>1, <2>2, <2>4, StaysAlone
<1> QED BY <1>1, <1>2, <1>3, <1>4, <1>5 DEF Continue

LEMMA InitPaired == Init => PairedInv
BY ThreadsAssumption DEF Init, PairedInv, RecordsTyped, Labels, LockedHeld, Enters, WalksAlone,
   Walks, Paired, PairedRecord, PairedCalls, Counts, Unlocks

LEMMA PairedStays ==
  ASSUME Strangers = {}, Hasty = {}, PairedInv, [Next]_vars PROVE PairedInv'
<1>1. RecordsTyped' /\ LockedHeld'
  BY RecordsStayTyped, LockedStaysHeld DEF PairedInv
<1>2. CASE Next
  <2>1. PICK t \in Threads :
          \/ \E m \in Frames : CreateRead(t, m) \/ CallLock(t, m) \/ CallTry(t, m)
                               \/ CallUnlock(t, m) \/ CallDestroy(t, m)
          \/ CallUnlockAll(t) \/ CallExit(t) \/ Continue(t)
    BY <1>2 DEF Next
  <2> QED BY <1>1, <2>1, CallPaired, ContinuePaired DEF PairedInv
<1>3. CASE UNCHANGED vars
  BY <1>1, <1>3 DEF vars, threadVars, frameVars, PairedInv, WalksAlone, Walks, PairedRecord,
     PairedCalls, Counts, Unlocks, Enters
<1> QED BY <1>2, <1>3

(* When every thread unlocks only what it holds, and nobody releases all his  *)
(* mutexes while others lock or destroy, mutex_property/2 shows the thread    *)
(* that holds a mutex and how often it has locked it, at any moment at which  *)
(* that thread is in no request.                                              *)
THEOREM HolderRecorded ==
  ASSUME Strangers = {}, Hasty = {} PROVE Spec => []HolderIsRecorded
<1>1. PairedInv => HolderIsRecorded
  BY DEF PairedInv, PairedRecord, HolderIsRecorded, Recorded, Paired, Enters
<1> QED BY <1>1, InitPaired, PairedStays, PTL DEF Spec

-----------------------------------------------------------------------------
(* Types.  The counter of a mutex stays within its bound because the thread   *)
(* that waits to lock it, if it holds it already, does nothing else meanwhile.*)
Using == {"create", "lock", "locked", "try", "unlock", "destroy",
          "all-unlock", "all-count", "exit-unlock", "exit-count"}

PlacesTyped ==
  /\ pc \in [Threads -> Labels] /\ at \in [Threads -> Frames \cup {Nobody}]
  /\ \A t \in Threads : pc[t] \in Using => at[t] \in Frames

ChainTyped ==
  /\ state \in [Frames -> {"fresh", "live", "freed"}] /\ named \subseteq Frames
  /\ chain \in Seq(Frames) /\ head \in [Threads -> Seq(Frames)]
  /\ refused \subseteq Threads

MayLock(t) ==
  pc[t] = "lock" => 0 < MaxLocks /\ (holder[at[t]] = t => held[at[t]] < MaxLocks)
HeldInv ==
  /\ holder \in [Frames -> Threads \cup {Nobody}] /\ held \in [Frames -> 0 .. MaxLocks]
  /\ \A m \in Frames : holder[m] = Nobody <=> held[m] = 0
  /\ \A t \in Threads : MayLock(t)

FramesInv == RecordsTyped /\ PlacesTyped /\ ChainTyped /\ HeldInv

LEMMA PlacedTyped ==
  ASSUME PlacesTyped, NEW t \in Threads, NEW l \in Labels, NEW m \in Frames \cup {Nobody},
         l \in Using => m \in Frames, Goto(t, l, m)
  PROVE  /\ PlacesTyped' /\ pc'[t] = l /\ at'[t] = m
         /\ \A u \in Threads : u # t => pc'[u] = pc[u] /\ at'[u] = at[u]
<1>1. /\ pc' \in [Threads -> Labels] /\ at' \in [Threads -> Frames \cup {Nobody}]
      /\ pc'[t] = l /\ at'[t] = m
      /\ \A u \in Threads : u # t => pc'[u] = pc[u] /\ at'[u] = at[u]
  BY DEF Goto, PlacesTyped
<1> QED BY <1>1 DEF PlacesTyped

LEMMA ChainEnds ==
  ASSUME ChainTyped
  PROVE  /\ First \in Frames \cup {Nobody}
         /\ \A m : After(m) \in Frames \cup {Nobody}
         /\ \A m \in ToSet(chain) : /\ Position(m) \in 1 .. Len(chain)
                                    /\ chain[Position(m)] = m
<1>1. Len(chain) \in Nat /\ \A i \in 1 .. Len(chain) : chain[i] \in Frames
  BY LenProperties, ElementOfSeq DEF ChainTyped
<1>2. First \in Frames \cup {Nobody}
  BY HeadTailProperties DEF First, ChainTyped
<1>3. \A m \in ToSet(chain) : Position(m) \in 1 .. Len(chain) /\ chain[Position(m)] = m
  BY DEF ToSet, Position, ChainTyped
<1>4. ASSUME NEW m, m \in ToSet(chain), m # Last(chain)
      PROVE  chain[Position(m) + 1] \in Frames
  <2>1. Position(m) # Len(chain)
    BY <1>3, <1>4 DEF Last
  <2>2. Position(m) + 1 \in 1 .. Len(chain)
    BY <1>1, <1>3, <1>4, <2>1
  <2> QED BY <1>1, <2>2
<1> QED BY <1>2, <1>3, <1>4 DEF After

LEMMA UnlinkedTyped ==
  ASSUME ChainTyped, NEW m
  PROVE  Unlinked(m) \in Seq(Frames)
<1>1. CASE m \in ToSet(chain)
  <2> DEFINE i == Position(m)
  <2>1. i \in 1 .. Len(chain) /\ chain \in Seq(Frames) /\ Len(chain) \in Nat
    BY <1>1, ChainEnds, LenProperties DEF ChainTyped
  <2> HIDE DEF i
  <2>2. SubSeq(chain, 1, i - 1) \in Seq(Frames) /\ SubSeq(chain, i + 1, Len(chain)) \in Seq(Frames)
    BY <2>1, SubSeqProperties
  <2>3. RemoveAt(chain, i) \in Seq(Frames)
    BY <2>2, ConcatProperties DEF RemoveAt
  <2> QED BY <1>1, <2>3 DEF Unlinked, i
<1>2. CASE m \notin ToSet(chain)
  BY <1>2 DEF Unlinked, ChainTyped
<1> QED BY <1>1, <1>2

(* A step of t never gives a mutex to another thread.                         *)
LEMMA OthersMayLock ==
  ASSUME HeldInv, PlacesTyped, NEW t \in Threads,
         \A u \in Threads : u # t => pc'[u] = pc[u] /\ at'[u] = at[u],
         \A m \in Frames : \/ holder'[m] = holder[m] /\ held'[m] = held[m]
                          \/ holder'[m] \in {t, Nobody}
  PROVE  \A u \in Threads : u # t => MayLock(u)'
BY ThreadsAssumption DEF HeldInv, MayLock, PlacesTyped, Using

LEMMA FramesStayTyped ==
  ASSUME FramesInv, [Next]_vars PROVE FramesInv'
<1> USE DEF FramesInv
<1>1. RecordsTyped'
  BY RecordsStayTyped
<1>2. ASSUME NEW t \in Threads, NEW l \in Labels, NEW x \in Frames \cup {Nobody},
             l \in Using => x \in Frames, Goto(t, l, x), UNCHANGED <<holder, held>>,
             l = "lock" => 0 < MaxLocks /\ (holder[x] = t => held[x] < MaxLocks)
      PROVE  PlacesTyped' /\ HeldInv'
  <2>1. /\ PlacesTyped' /\ pc'[t] = l /\ at'[t] = x
        /\ \A u \in Threads : u # t => pc'[u] = pc[u] /\ at'[u] = at[u]
    BY <1>2, PlacedTyped
  <2>2. \A u \in Threads : MayLock(u)'
    BY <1>2, <2>1 DEF HeldInv, MayLock
  <2> QED BY <1>2, <2>1, <2>2 DEF HeldInv
<1> USE BoundsAssumption DEF Labels
<1>3. ASSUME NEW t \in Threads, NEW m \in Frames, CreateRead(t, m) PROVE FramesInv'
  <2>1. PlacesTyped' /\ HeldInv'
    BY <1>2, <1>3 DEF CreateRead, frameVars
  <2> QED BY <1>1, <1>3, <2>1 DEF CreateRead, ChainTyped
<1>4. ASSUME NEW t \in Threads, NEW m \in Frames,
             CallLock(t, m) \/ CallTry(t, m) \/ CallUnlock(t, m) \/ CallDestroy(t, m)
      PROVE  FramesInv'
  <2>1. CASE CallLock(t, m)
    <3>1. 0 < MaxLocks /\ held[m] < MaxLocks
      BY <2>1 DEF CallLock, HeldInv
    <3> QED BY <1>1, <1>2, <2>1, <3>1 DEF CallLock, Call, frameVars, chainVars, ChainTyped
  <2>2. CASE CallTry(t, m) \/ CallUnlock(t, m) \/ CallDestroy(t, m)
    BY <1>1, <1>2, <2>2 DEF CallTry, CallUnlock, CallDestroy, Call, Unname, frameVars,
       chainVars, ChainTyped
  <2> QED BY <1>4, <2>1, <2>2
<1>5. ASSUME NEW t \in Threads, CallUnlockAll(t) \/ CallExit(t) PROVE FramesInv'
  BY <1>1, <1>2, <1>5, ChainEnds DEF CallUnlockAll, CallExit, Call, frameVars, chainVars,
     ChainTyped, Using
<1>6. ASSUME NEW t \in Threads, CreateLink(t) PROVE FramesInv'
  <2>1. PlacesTyped' /\ HeldInv'
    BY <1>2, <1>6 DEF CreateLink, Done, frameVars, Using
  <2>2. at[t] \in Frames /\ head[t] \in Seq(Frames)
    BY <1>6 DEF CreateLink, PlacesTyped, ChainTyped, Using
  <2>3. Linked(t) \in Seq(Frames)
    BY <2>2, ConcatProperties DEF Linked
  <2> QED BY <1>1, <1>6, <2>1, <2>2, <2>3 DEF CreateLink, ChainTyped
<1>7. ASSUME NEW t \in Threads, Destroy(t) PROVE FramesInv'
  BY <1>1, <1>2, <1>7, UnlinkedTyped DEF Destroy, Done, frameVars, ChainTyped, Using
<1>8. ASSUME NEW t \in Threads, UseFreed(t) PROVE FramesInv'
  BY <1>1, <1>2, <1>8 DEF UseFreed, Done, frameVars, chainVars, ChainTyped, Using
<1>9. ASSUME NEW t \in Threads, Lock(t) \/ TryLock(t) PROVE FramesInv'
  <2>1. /\ PlacesTyped' /\ pc'[t] \in {"idle", "locked"}
        /\ \A u \in Threads : u # t => pc'[u] = pc[u] /\ at'[u] = at[u]
    <3>1. PICK l \in {"idle", "locked"}, x \in Frames \cup {Nobody} :
            Goto(t, l, x) /\ (l \in Using => x \in Frames)
      BY <1>9 DEF Lock, TryLock, Done, PlacesTyped, Using
    <3> QED BY <3>1, PlacedTyped
  <2>2. PICK m \in Frames :
          \/ UNCHANGED <<holder, held>>
          \/ Acquire(t, m) /\ Available(t, m) /\ held[m] < MaxLocks
    <3>1. at[t] \in Frames
      BY <1>9 DEF Lock, TryLock, PlacesTyped, Using
    <3>2. CASE Lock(t)
      BY <3>1, <3>2 DEF Lock, Available, HeldInv, MayLock
    <3>3. CASE TryLock(t)
      BY <3>1, <3>3 DEF TryLock
    <3> QED BY <1>9, <3>2, <3>3
  <2>3. /\ holder' \in [Frames -> Threads \cup {Nobody}] /\ held' \in [Frames -> 0 .. MaxLocks]
        /\ \A x \in Frames : holder'[x] = Nobody <=> held'[x] = 0
    BY <2>2, ThreadsAssumption DEF Acquire, HeldInv
  <2>4. \A u \in Threads : u # t => MayLock(u)'
    <3>1. \A x \in Frames : \/ holder'[x] = holder[x] /\ held'[x] = held[x]
                            \/ holder'[x] \in {t, Nobody}
      BY <2>2 DEF Acquire, HeldInv
    <3> QED BY <2>1, <3>1, OthersMayLock
  <2>5. HeldInv'
    BY <2>1, <2>3, <2>4 DEF HeldInv, MayLock
  <2> QED BY <1>1, <1>9, <2>1, <2>5 DEF Lock, TryLock, Use, chainVars, ChainTyped
<1>10. ASSUME NEW t \in Threads, Unlock(t) \/ UnlockFound(t) PROVE FramesInv'
  <2>1. at[t] \in Frames /\ PthreadUnlock(t, at[t])
    BY <1>10 DEF Unlock, UnlockFound, PlacesTyped, Using
  <2>2. PICK l \in {"idle", "exit", "all-count", "exit-count"}, x \in Frames \cup {Nobody} :
          Goto(t, l, x) /\ (l \in Using => x \in Frames)
    BY <1>10, <2>1, ChainEnds DEF Unlock, UnlockFound, Done, ToCount, Using
  <2>3. /\ PlacesTyped' /\ pc'[t] = l
        /\ \A u \in Threads : u # t => pc'[u] = pc[u] /\ at'[u] = at[u]
    BY <2>2, PlacedTyped
  <2>4. /\ holder' \in [Frames -> Threads \cup {Nobody}] /\ held' \in [Frames -> 0 .. MaxLocks]
        /\ \A f \in Frames : holder'[f] = Nobody <=> held'[f] = 0
    <3>1. CASE holder[at[t]] = t
      <4> DEFINE m == at[t]
      <4>1. held[m] \in 1 .. MaxLocks
        BY <2>1, <3>1, ThreadsAssumption DEF HeldInv
      <4>2. /\ held' = [held EXCEPT ![m] = held[m] - 1]
            /\ holder' = [holder EXCEPT ![m] = IF held[m] = 1 THEN Nobody ELSE holder[m]]
        BY <2>1, <3>1 DEF PthreadUnlock
      <4> HIDE DEF m
      <4> QED BY <2>1, <3>1, <4>1, <4>2, ThreadsAssumption DEF HeldInv, m
    <3>2. CASE holder[at[t]] # t
      BY <2>1, <3>2 DEF PthreadUnlock, HeldInv
    <3> QED BY <3>1, <3>2
  <2>5. \A u \in Threads : u # t => MayLock(u)'
    <3>1. \A m \in Frames : \/ holder'[m] = holder[m] /\ held'[m] = held[m]
                            \/ holder'[m] \in {t, Nobody}
      BY <2>1 DEF PthreadUnlock, HeldInv
    <3> QED BY <2>3, <3>1, OthersMayLock
  <2>6. HeldInv'
    BY <2>2, <2>3, <2>4, <2>5 DEF HeldInv, MayLock
  <2>7. ChainTyped'
    BY <1>10 DEF Unlock, UnlockFound, Use, chainVars, ChainTyped
  <2> QED BY <1>1, <2>3, <2>6, <2>7
<1>11. ASSUME NEW t \in Threads,
              SkipFrame(t) \/ FoundFrame(t) \/ CountFound(t) \/ EndOfChain(t)
       PROVE  FramesInv'
  <2>1. UNCHANGED <<holder, held, head, chainVars, refused>>
    BY <1>11 DEF SkipFrame, FoundFrame, CountFound, EndOfChain, frameVars
  <2>2. PICK l \in Labels \ {"lock"}, x \in Frames \cup {Nobody} :
          Goto(t, l, x) /\ (l \in Using => x \in Frames)
    <3>1. CASE SkipFrame(t)
      BY <3>1, ChainEnds DEF SkipFrame, Using
    <3>2. CASE FoundFrame(t)
      BY <3>2 DEF FoundFrame, ToUnlock, PlacesTyped, Using
    <3>3. CASE CountFound(t)
      BY <3>3, ChainEnds DEF CountFound, ToUnlock, Test, PlacesTyped, Using
    <3>4. CASE EndOfChain(t)
      BY <3>4 DEF EndOfChain, Using
    <3> QED BY <1>11, <3>1, <3>2, <3>3, <3>4
  <2>3. PlacesTyped' /\ HeldInv'
    BY <1>2, <2>1, <2>2
  <2> QED BY <1>1, <2>1, <2>3 DEF chainVars, ChainTyped
<1>12. ASSUME NEW t \in Threads, SetFields(t) PROVE FramesInv'
  BY <1>1, <1>2, <1>12 DEF SetFields, Done, Use, chainVars, ChainTyped, Using
<1>13. CASE UNCHANGED vars
  BY <1>1, <1>13 DEF vars, threadVars, frameVars, chainVars, PlacesTyped, ChainTyped, HeldInv,
     MayLock
<1> QED
  BY <1>3, <1>4, <1>5, <1>6, <1>7, <1>8, <1>9, <1>10, <1>11, <1>12, <1>13 DEF Next, Continue

LEMMA InitFrames == Init => FramesInv
BY BoundsAssumption DEF Init, FramesInv, RecordsTyped, PlacesTyped, ChainTyped, HeldInv,
   MayLock, Labels, Using

(* Every variable stays in its range; in particular a recursive mutex is      *)
(* never held more often than its bound, through waits for it and unlocks.    *)
THEOREM TypeCorrect == Spec => []TypeOK
<1>1. FramesInv => TypeOK
  BY DEF FramesInv, RecordsTyped, PlacesTyped, ChainTyped, HeldInv, TypeOK, Labels
<1> QED BY <1>1, InitFrames, FramesStayTyped, PTL DEF Spec

-----------------------------------------------------------------------------
(* The exit of a thread.  It finds every mutex it holds because the chain     *)
(* behind the frame it stands at, read from the chain's beginning, has them   *)
(* all: frames enter the chain before they can be locked, leave it only when  *)
(* nobody holds them and no thread walks, and stay in their order.            *)
Before(s, x, y) == \E i, j \in 1 .. Len(s) : i < j /\ s[i] = x /\ s[j] = y
NoRepeats(s) == \A i, j \in 1 .. Len(s) : s[i] = s[j] => i = j
Extends(s, r) ==
  ToSet(r) \subseteq ToSet(s) /\ \A x, y : Before(r, x, y) => Before(s, x, y)

LEMMA AfterIsNext ==
  ASSUME ChainTyped, NoRepeats(chain), NEW x, NEW m, Before(chain, x, m)
  PROVE  m = After(x) \/ Before(chain, After(x), m)
<1>1. PICK i, j \in 1 .. Len(chain) : i < j /\ chain[i] = x /\ chain[j] = m
  BY DEF Before
<1>2. Len(chain) \in Nat /\ DOMAIN chain = 1 .. Len(chain)
  BY LenProperties DEF ChainTyped
<1>3. x \in ToSet(chain)
  BY <1>1, <1>2 DEF ToSet
<1>4. Position(x) = i
  BY <1>1, <1>3, ChainEnds DEF NoRepeats
<1>5. x # Last(chain)
  BY <1>1, <1>2 DEF NoRepeats, Last
<1>6. After(x) = chain[i + 1]
  BY <1>3, <1>4, <1>5 DEF After
<1>7. i + 1 \in 1 .. Len(chain) /\ (i + 1 = j \/ i + 1 < j)
  BY <1>1, <1>2
<1> QED BY <1>1, <1>6, <1>7 DEF Before

LEMMA FirstIsFirst ==
  ASSUME ChainTyped, NEW m \in ToSet(chain)
  PROVE  m = First \/ Before(chain, First, m)
<1>1. Len(chain) \in Nat /\ DOMAIN chain = 1 .. Len(chain)
  BY LenProperties DEF ChainTyped
<1>2. PICK j \in 1 .. Len(chain) : chain[j] = m
  BY <1>1 DEF ToSet
<1>3. 1 \in 1 .. Len(chain) /\ chain # <<>> /\ (1 = j \/ 1 < j)
  BY <1>1, <1>2
<1>4. First = chain[1]
  BY <1>3 DEF First
<1> QED BY <1>2, <1>3, <1>4 DEF Before

(* The elements of a sequence without the one at p.                           *)
LEMMA RemoveAtIndex ==
  ASSUME NEW S, NEW s \in Seq(S), NEW n, n = Len(s), NEW p \in 1 .. n,
         NEW r, r = RemoveAt(s, p)
  PROVE  /\ r \in Seq(S) /\ Len(r) = n - 1
         /\ \A k \in 1 .. n - 1 : r[k] = IF k < p THEN s[k] ELSE s[k + 1]
<1> DEFINE a == SubSeq(s, 1, p - 1)
           b == SubSeq(s, p + 1, n)
<1>1. n \in Nat /\ p \in Int /\ \A i \in 1 .. n : s[i] \in S
  BY LenProperties, ElementOfSeq
<1>2. a \in Seq(S) /\ Len(a) = p - 1 /\ \A k \in 1 .. p - 1 : a[k] = s[k]
  <2>1. /\ a \in Seq(S) /\ Len(a) = (IF 1 <= p - 1 THEN (p - 1) - 1 + 1 ELSE 0)
        /\ \A k \in 1 .. (p - 1) - 1 + 1 : a[k] = s[1 + k - 1]
    <3>1. 1 \in Int /\ p - 1 \in Int /\ \A i \in 1 .. p - 1 : s[i] \in S
      BY <1>1
    <3> QED BY <3>1, SubSeqProperties
  <2> HIDE DEF a
  <2>2. Len(a) = p - 1
    BY <1>1, <2>1
  <2>3. \A k \in 1 .. p - 1 : 1 + k - 1 = k /\ k \in 1 .. (p - 1) - 1 + 1
    BY <1>1
  <2> QED BY <2>1, <2>2, <2>3
<1>3. b \in Seq(S) /\ Len(b) = n - p /\ \A k \in 1 .. n - p : b[k] = s[p + k]
  <2>1. /\ b \in Seq(S) /\ Len(b) = (IF p + 1 <= n THEN n - (p + 1) + 1 ELSE 0)
        /\ \A k \in 1 .. n - (p + 1) + 1 : b[k] = s[(p + 1) + k - 1]
    <3>1. p + 1 \in Int /\ n \in Int /\ \A i \in p + 1 .. n : s[i] \in S
      BY <1>1
    <3> QED BY <3>1, SubSeqProperties
  <2> HIDE DEF b
  <2>2. Len(b) = n - p
    BY <1>1, <2>1
  <2>3. \A k \in 1 .. n - p : (p + 1) + k - 1 = p + k /\ k \in 1 .. n - (p + 1) + 1
    BY <1>1
  <2> QED BY <2>1, <2>2, <2>3
<1>4. r = a \o b
  BY DEF RemoveAt
<1> HIDE DEF a, b
<1>5. /\ a \o b \in Seq(S) /\ Len(a \o b) = Len(a) + Len(b)
      /\ \A k \in 1 .. Len(a) + Len(b) :
           (a \o b)[k] = IF k <= Len(a) THEN a[k] ELSE b[k - Len(a)]
  BY <1>2, <1>3, ConcatProperties
<1>6. Len(a) + Len(b) = n - 1
  BY <1>1, <1>2, <1>3
<1>7. ASSUME NEW k \in 1 .. n - 1
      PROVE  (a \o b)[k] = IF k < p THEN s[k] ELSE s[k + 1]
  <2>1. (a \o b)[k] = IF k <= Len(a) THEN a[k] ELSE b[k - Len(a)]
    BY <1>5, <1>6
  <2>2. CASE k < p
    <3>1. k <= Len(a) /\ k \in 1 .. p - 1
      BY <1>1, <1>2, <2>2
    <3> QED BY <1>2, <2>1, <2>2, <3>1
  <2>3. CASE ~(k < p)
    <3>1. ~(k <= Len(a)) /\ k - (p - 1) \in 1 .. n - p /\ p + (k - (p - 1)) = k + 1
      BY <1>1, <1>2, <2>3
    <3>2. b[k - (p - 1)] = s[k + 1]
      BY <1>3, <3>1
    <3> QED BY <1>2, <2>1, <2>3, <3>1, <3>2
  <2> QED BY <2>2, <2>3
<1> QED BY <1>4, <1>5, <1>6, <1>7

LEMMA UnlinkedKeeps ==
  ASSUME ChainTyped, NEW m
  PROVE  /\ NoRepeats(chain) => NoRepeats(Unlinked(m))
         /\ ToSet(chain) \ {m} \subseteq ToSet(Unlinked(m))
         /\ Extends(chain, Unlinked(m))
<1>1. CASE m \in ToSet(chain)
  <2> DEFINE p == Position(m)
             r == RemoveAt(chain, p)
             n == Len(chain)
             At(k) == IF k < p THEN k ELSE k + 1
  <2>1. p \in 1 .. n /\ chain[p] = m /\ n \in Nat /\ DOMAIN chain = 1 .. n
    BY <1>1, ChainEnds, LenProperties DEF ChainTyped
  <2>2. r \in Seq(Frames) /\ Len(r) = n - 1 /\ \A k \in 1 .. n - 1 : r[k] = chain[At(k)]
    <3>1. chain \in Seq(Frames) /\ n = Len(chain) /\ p \in 1 .. n /\ r = RemoveAt(chain, p)
      BY <2>1 DEF ChainTyped
    <3> HIDE DEF n, p, r
    <3>2. /\ r \in Seq(Frames) /\ Len(r) = n - 1
          /\ \A k \in 1 .. n - 1 : r[k] = IF k < p THEN chain[k] ELSE chain[k + 1]
      BY <3>1, RemoveAtIndex
    <3> QED BY <3>2
  <2> HIDE DEF r, p
  <2>3. \A k \in 1 .. n - 1 : At(k) \in 1 .. n
    BY <2>1
  <2>4. \A k, l \in 1 .. n - 1 : k < l => At(k) < At(l)
    BY <2>1
  <2>5. DOMAIN r = 1 .. n - 1
    BY <2>1, <2>2, LenProperties
  <2>6. ASSUME NoRepeats(chain), NEW k \in 1 .. n - 1, NEW l \in 1 .. n - 1, r[k] = r[l]
        PROVE  k = l
    BY <2>1, <2>2, <2>3, <2>4, <2>6 DEF NoRepeats
  <2>7. ASSUME NEW y \in ToSet(chain), y # m PROVE y \in ToSet(r)
    <3>1. PICK j \in 1 .. n : chain[j] = y
      BY <2>1 DEF ToSet
    <3>2. j # p
      BY <2>1, <2>7, <3>1
    <3>3. PICK k \in 1 .. n - 1 : At(k) = j
      <4>1. CASE j < p
        BY <2>1, <4>1
      <4>2. CASE ~(j < p)
        <5>1. j - 1 \in 1 .. n - 1 /\ At(j - 1) = j
          BY <2>1, <3>2, <4>2
        <5> QED BY <5>1
      <4> QED BY <4>1, <4>2
    <3> QED BY <2>2, <2>5, <3>1, <3>3 DEF ToSet
  <2>8. ToSet(r) \subseteq ToSet(chain)
    BY <2>1, <2>2, <2>3, <2>5 DEF ToSet
  <2>9. ASSUME NEW x, NEW y, Before(r, x, y) PROVE Before(chain, x, y)
    <3>1. PICK k, l \in 1 .. n - 1 : k < l /\ r[k] = x /\ r[l] = y
      BY <2>2, <2>9 DEF Before
    <3>2. At(k) \in 1 .. n /\ At(l) \in 1 .. n /\ At(k) < At(l)
      BY <2>3, <2>4, <3>1
    <3>3. chain[At(k)] = x /\ chain[At(l)] = y
      BY <2>2, <3>1
    <3> HIDE DEF At
    <3> QED BY <3>2, <3>3 DEF Before
  <2>10. Unlinked(m) = r
    BY <1>1 DEF Unlinked, r, p
  <2> QED BY <2>2, <2>6, <2>7, <2>8, <2>9, <2>10 DEF NoRepeats, Extends
<1>2. CASE m \notin ToSet(chain)
  BY <1>2 DEF Unlinked, Extends
<1> QED BY <1>1, <1>2

LEMMA LinkedExtends ==
  ASSUME NEW x \in Frames, NEW s \in Seq(Frames), x \notin ToSet(s), NoRepeats(s)
  PROVE  /\ NoRepeats(<<x>> \o s) /\ Extends(<<x>> \o s, s)
         /\ ToSet(<<x>> \o s) = ToSet(s) \cup {x}
<1> DEFINE r == <<x>> \o s
           n == Len(s)
<1>1. n \in Nat /\ DOMAIN s = 1 .. n
  BY LenProperties
<1>2. /\ r \in Seq(Frames) /\ Len(r) = n + 1 /\ r[1] = x
      /\ \A k \in 1 .. n : r[k + 1] = s[k]
  BY <1>1, ConcatProperties
<1>3. DOMAIN r = 1 .. n + 1
  BY <1>2, LenProperties
<1> HIDE DEF r
<1>4. \A k \in 1 .. n + 1 : r[k] = IF k = 1 THEN x ELSE s[k - 1]
  <2> TAKE k \in 1 .. n + 1
  <2>1. CASE k = 1
    BY <1>2, <2>1
  <2>2. CASE k # 1
    <3>1. k - 1 \in 1 .. n /\ (k - 1) + 1 = k
      BY <1>1, <2>2
    <3>2. r[(k - 1) + 1] = s[k - 1]
      BY <1>2, <3>1
    <3> QED BY <2>2, <3>1, <3>2
  <2> QED BY <2>1, <2>2
<1>5. \A k \in 1 .. n : s[k] # x
  BY <1>1 DEF ToSet
<1>6. NoRepeats(r)
  <2> SUFFICES ASSUME NEW i \in 1 .. n + 1, NEW j \in 1 .. n + 1, r[i] = r[j] PROVE i = j
    BY <1>2 DEF NoRepeats
  <2>1. i # 1 => i - 1 \in 1 .. n
    BY <1>1
  <2>2. j # 1 => j - 1 \in 1 .. n
    BY <1>1
  <2>3. CASE i = 1 \/ j = 1
    BY <1>4, <1>5, <2>1, <2>2, <2>3
  <2>4. CASE i # 1 /\ j # 1
    <3>1. s[i - 1] = s[j - 1]
      BY <1>4, <2>4
    <3>2. i - 1 = j - 1
      BY <2>1, <2>2, <2>4, <3>1 DEF NoRepeats
    <3> QED BY <1>1, <3>2
  <2> QED BY <2>3, <2>4
<1>7. ToSet(s) \subseteq ToSet(r)
  <2> SUFFICES ASSUME NEW k \in 1 .. n PROVE s[k] \in ToSet(r)
    BY <1>1 DEF ToSet
  <2>1. k + 1 \in 1 .. n + 1 /\ r[k + 1] = s[k]
    BY <1>1, <1>2
  <2> QED BY <1>3, <2>1 DEF ToSet
<1>8. ToSet(r) \subseteq ToSet(s) \cup {x}
  <2> SUFFICES ASSUME NEW k \in 1 .. n + 1 PROVE r[k] \in ToSet(s) \cup {x}
    BY <1>3 DEF ToSet
  <2>1. k # 1 => k - 1 \in 1 .. n
    BY <1>1
  <2> QED BY <1>1, <1>4, <2>1 DEF ToSet
<1>9. x \in ToSet(r)
  <2>1. 1 \in DOMAIN r
    BY <1>1, <1>3
  <2> QED BY <1>2, <2>1 DEF ToSet
<1>10. ASSUME NEW y, NEW z, Before(s, y, z) PROVE Before(r, y, z)
  <2>1. PICK i, j \in 1 .. n : i < j /\ s[i] = y /\ s[j] = z
    BY <1>10 DEF Before
  <2>2. /\ i + 1 \in 1 .. n + 1 /\ j + 1 \in 1 .. n + 1 /\ i + 1 < j + 1
        /\ r[i + 1] = y /\ r[j + 1] = z
    BY <1>1, <1>2, <2>1
  <2> QED BY <1>2, <2>2 DEF Before
<1> QED BY <1>6, <1>7, <1>8, <1>9, <1>10 DEF Extends, r

-----------------------------------------------------------------------------
(* The invariant.  A frame is made when create_new_dynMutFrame has linked it. *)
OneCreator == \A t, u \in Creators : t = u

Made(m) == state[m] # "fresh" /\ \A t \in Threads : pc[t] = "create" => at[t] # m

Requests == {"lock", "try", "unlock", "destroy"}
MadeInv ==
  /\ \A m \in ToSet(chain) \cup named : Made(m)
  /\ \A t \in Threads : pc[t] \in Requests => Made(at[t])
  /\ \A m \in Frames : holder[m] # Nobody => Made(m) /\ state[m] = "live"
  /\ \A t \in Threads : pc[t] = "create" =>
       /\ t \in Creators /\ state[at[t]] # "fresh"
       /\ \A m \in ToSet(head[t]) : Made(m)

(* The chain a creating thread has read holds what the chain holds now.       *)
ChainInv ==
  /\ NoRepeats(chain)
  /\ \A m \in Frames : Made(m) /\ state[m] = "live" => m \in ToSet(chain)
  /\ \A t \in Threads :
       pc[t] = "create" => NoRepeats(head[t]) /\ Extends(head[t], chain)

Exits(t) == pc[t] \in {"exit", "exit-unlock", "exit-count"}
Ahead(t, m) == m = at[t] \/ Before(chain, at[t], m)
ExitInv ==
  \A t \in Threads : \A m \in Paired :
    holder[m] = t => pc[t] # "gone" /\ (Exits(t) => Ahead(t, m))

MutexInv == PairedInv /\ FramesInv /\ MadeInv /\ ChainInv /\ ExitInv

(* A step that neither makes a frame nor changes the chain.                   *)
TakesOnly(t) ==
  \A m \in Frames :
    \/ holder'[m] \in {holder[m], Nobody}
    \/ holder'[m] = t /\ at[t] = m /\ pc[t] \in Requests /\ state[m] = "live"
Ordinary(t, l, x) ==
  /\ Goto(t, l, x) /\ UNCHANGED <<state, chain, head>> /\ named' \subseteq named
  /\ pc[t] # "create" /\ l # "create" /\ (l \in Requests => x \in named)
  /\ TakesOnly(t)

LEMMA OrdinaryStep ==
  ASSUME FramesInv, MadeInv, ChainInv, NEW t \in Threads, NEW l, NEW x, Ordinary(t, l, x)
  PROVE  MadeInv' /\ ChainInv'
<1>1. /\ \A u \in Threads : u # t => pc'[u] = pc[u] /\ at'[u] = at[u]
      /\ pc'[t] = l /\ at'[t] = x /\ state' = state /\ chain' = chain /\ head' = head
      /\ pc[t] # "create" /\ l # "create"
  BY DEF Ordinary, Goto, FramesInv, PlacesTyped
<1>2. \A m : Made(m)' <=> Made(m)
  BY <1>1 DEF Made
<1>3. \A m \in ToSet(chain) \cup named' : Made(m)'
  BY <1>2 DEF Ordinary, MadeInv
<1>4. ASSUME NEW u \in Threads, pc'[u] \in Requests PROVE Made(at[u])'
  <2>1. PICK v : v = at'[u]
    OBVIOUS
  <2>2. Made(v)
    <3>1. CASE u = t
      BY <1>1, <1>4, <2>1, <3>1 DEF Ordinary, MadeInv
    <3>2. CASE u # t
      BY <1>1, <1>4, <2>1, <3>2 DEF MadeInv
    <3> QED BY <3>1, <3>2
  <2>3. Made(v)'
    BY <1>2, <2>2
  <2> QED BY <2>1, <2>3 DEF Made
<1>5. ASSUME NEW m \in Frames, holder'[m] # Nobody PROVE Made(m)' /\ state'[m] = "live"
  <2>1. CASE holder[m] # Nobody
    BY <1>1, <1>2, <2>1 DEF MadeInv
  <2>2. CASE holder[m] = Nobody
    <3>1. at[t] = m /\ pc[t] \in Requests /\ state[m] = "live"
      BY <1>5, <2>2 DEF Ordinary, TakesOnly
    <3> QED BY <1>1, <1>2, <3>1 DEF MadeInv
  <2> QED BY <2>1, <2>2
<1>6. ASSUME NEW u \in Threads, pc'[u] = "create"
      PROVE  /\ u # t /\ pc[u] = "create" /\ at'[u] = at[u]
             /\ u \in Creators /\ state'[at'[u]] # "fresh"
             /\ \A m \in ToSet(head'[u]) : Made(m)'
  BY <1>1, <1>2, <1>6 DEF MadeInv
<1>7. MadeInv'
  BY <1>1, <1>3, <1>4, <1>5, <1>6 DEF MadeInv
<1>8. ChainInv'
  BY <1>1, <1>2, <1>6 DEF ChainInv
<1> QED BY <1>7, <1>8

LEMMA CreateReadStep ==
  ASSUME FramesInv, MadeInv, ChainInv, OneCreator, NEW t \in Threads, NEW n \in Frames,
         CreateRead(t, n)
  PROVE  MadeInv' /\ ChainInv'
<1>1. /\ \A u \in Threads : u # t => pc'[u] = pc[u] /\ at'[u] = at[u] /\ head'[u] = head[u]
      /\ pc'[t] = "create" /\ at'[t] = n /\ head'[t] = chain /\ chain' = chain
      /\ named' = named /\ holder' = holder
      /\ pc[t] = "idle" /\ t \in Creators /\ state[n] = "fresh" /\ state'[n] = "live"
      /\ \A m \in Frames : m # n => state'[m] = state[m]
  BY DEF CreateRead, Goto, frameVars, FramesInv, PlacesTyped, ChainTyped
<1>2. \A m \in Frames : Made(m)' <=> Made(m)
  BY <1>1 DEF Made
<1>3. ToSet(chain) \subseteq Frames /\ named \subseteq Frames
  BY ElementOfSeq, LenProperties DEF ToSet, FramesInv, ChainTyped
<1>4. \A u \in Threads : u # t => pc[u] # "create"
  BY <1>1 DEF MadeInv, OneCreator
<1>5. \A m \in ToSet(chain) \cup named : Made(m)'
  BY <1>2, <1>3 DEF MadeInv
<1>6. ASSUME NEW u \in Threads, pc'[u] \in Requests PROVE Made(at[u])'
  <2>1. u # t /\ at'[u] = at[u] /\ Made(at[u])
    BY <1>1, <1>6 DEF MadeInv, Requests
  <2>2. at[u] \in Frames
    BY <1>1, <1>6, <2>1 DEF FramesInv, PlacesTyped, Requests, Using
  <2>3. Made(at[u]) /\ at'[u] \in Frames
    BY <2>1, <2>2
  <2>4. at[u] # n
    BY <1>1, <2>1 DEF Made
  <2> QED BY <1>1, <2>1, <2>2, <2>4 DEF Made
<1>7. \A m \in Frames : holder[m] # Nobody => Made(m)' /\ state'[m] = "live"
  BY <1>1, <1>2 DEF MadeInv, Made
<1>8. MadeInv'
  BY <1>1, <1>4, <1>5, <1>6, <1>7 DEF MadeInv
<1>9. Extends(chain, chain)
  BY DEF Extends
<1>10. \A m \in Frames : Made(m) => state'[m] = state[m]
  BY <1>1 DEF Made
<1>11. ChainInv'
  BY <1>1, <1>2, <1>4, <1>9, <1>10 DEF ChainInv
<1> QED BY <1>8, <1>11

LEMMA CreateLinkStep ==
  ASSUME FramesInv, MadeInv, ChainInv, OneCreator, NEW t \in Threads, CreateLink(t)
  PROVE  MadeInv' /\ ChainInv' /\ Extends(chain', chain)
<1> DEFINE n == at[t]
           h == head[t]
<1>1. /\ \A u \in Threads : u # t => pc'[u] = pc[u] /\ at'[u] = at[u]
      /\ pc'[t] = "idle" /\ chain' = <<n>> \o h
      /\ named' = named \cup {n} /\ holder' = holder /\ state' = state
      /\ pc[t] = "create" /\ n \in Frames /\ h \in Seq(Frames)
  BY DEF CreateLink, Linked, Done, Goto, frameVars, FramesInv, PlacesTyped, ChainTyped, Using
<1>2. \A u \in Threads : u # t => pc[u] # "create"
  BY <1>1 DEF MadeInv, OneCreator
<1>3. /\ t \in Creators /\ state[n] # "fresh" /\ NoRepeats(h) /\ Extends(h, chain)
      /\ \A m \in ToSet(h) : Made(m)
  BY <1>1 DEF MadeInv, ChainInv
<1>4. n \notin ToSet(h)
  BY <1>1, <1>3 DEF Made
<1> HIDE DEF h
<1>5. NoRepeats(chain') /\ Extends(chain', h) /\ ToSet(chain') = ToSet(h) \cup {n}
  BY <1>1, <1>3, <1>4, LinkedExtends
<1>6. Extends(chain', chain)
  BY <1>3, <1>5 DEF Extends
<1>7. \A m : (Made(m) \/ m = n) => Made(m)'
  BY <1>1, <1>2, <1>3 DEF Made
<1>8. \A m : Made(m)' => Made(m) \/ m = n
  BY <1>1, <1>2 DEF Made
<1>9. \A u \in Threads : pc'[u] # "create" /\ (pc'[u] \in Requests => Made(at[u])')
  <2> SUFFICES ASSUME NEW u \in Threads
               PROVE  pc'[u] # "create" /\ (pc'[u] \in Requests => Made(at[u])')
    OBVIOUS
  <2>1. CASE u = t
    BY <1>1, <2>1 DEF Requests
  <2>2. CASE u # t
    <3>1. PICK v : v = at[u]
      OBVIOUS
    <3>2. pc'[u] \in Requests => Made(v)'
      BY <1>1, <1>7, <2>2, <3>1 DEF MadeInv
    <3> QED BY <1>1, <1>2, <2>2, <3>1, <3>2 DEF Made
  <2> QED BY <2>1, <2>2
<1>10. MadeInv'
  <2>1. \A m \in ToSet(chain') \cup named' : Made(m)'
    BY <1>1, <1>3, <1>5, <1>7 DEF MadeInv
  <2>2. \A m \in Frames : holder'[m] # Nobody => Made(m)' /\ state'[m] = "live"
    BY <1>1, <1>7 DEF MadeInv
  <2> QED BY <1>9, <2>1, <2>2 DEF MadeInv
<1>11. ChainInv'
  <2>1. \A m \in Frames : Made(m)' /\ state'[m] = "live" => m \in ToSet(chain')
    BY <1>1, <1>5, <1>6, <1>8 DEF ChainInv, Extends
  <2> QED BY <1>5, <1>9, <2>1 DEF ChainInv
<1> QED BY <1>6, <1>10, <1>11

LEMMA DestroyStep ==
  ASSUME FramesInv, MadeInv, ChainInv, NEW t \in Threads, Destroy(t)
  PROVE  MadeInv' /\ ChainInv'
<1> DEFINE n == at[t]
<1>1. /\ \A u \in Threads : u # t => pc'[u] = pc[u] /\ at'[u] = at[u]
      /\ pc'[t] = "idle" /\ at'[t] = Nobody /\ head' = head
      /\ named' = named /\ holder' = holder /\ state[n] = "live"
      /\ pc[t] = "destroy" /\ n \in Frames
  BY DEF Destroy, Done, Goto, frameVars, FramesInv, PlacesTyped, ChainTyped, Using
<1>2. /\ ToSet(chain') \subseteq ToSet(chain) /\ NoRepeats(chain')
      /\ Extends(chain, chain')
      /\ \A m \in Frames : state'[m] = state[m] \/ (m = n /\ state'[m] = "freed")
      /\ \A m \in Frames : holder[m] # Nobody => state'[m] = state[m]
      /\ \A m \in ToSet(chain) : m \in ToSet(chain') \/ state'[m] = "freed"
  <2>1. CASE Destroyable(t, n)
    <3>1. chain' = Unlinked(n) /\ state' = [state EXCEPT ![n] = "freed"] /\ holder[n] = Nobody
      BY <2>1 DEF Destroy, Destroyable
    <3>2. \A m \in Frames : state'[m] = IF m = n THEN "freed" ELSE state[m]
      BY <1>1, <3>1 DEF FramesInv, ChainTyped
    <3>3. /\ NoRepeats(Unlinked(n)) /\ ToSet(chain) \ {n} \subseteq ToSet(Unlinked(n))
          /\ Extends(chain, Unlinked(n))
      BY UnlinkedKeeps DEF FramesInv, ChainInv
    <3> QED BY <1>1, <3>1, <3>2, <3>3 DEF Extends
  <2>2. CASE ~Destroyable(t, n)
    <3>1. chain' = chain /\ state' = state
      BY <2>2 DEF Destroy
    <3> QED BY <3>1 DEF Extends, ChainInv
  <2> QED BY <2>1, <2>2
<1>3. \A m \in Frames : Made(m)' <=> Made(m)
  BY <1>1, <1>2 DEF Made
<1>4. ToSet(chain) \subseteq Frames /\ named \subseteq Frames
      /\ \A u \in Threads : ToSet(head[u]) \subseteq Frames
  BY ElementOfSeq, LenProperties DEF ToSet, FramesInv, ChainTyped
<1>5. ASSUME NEW u \in Threads
      PROVE  /\ pc'[u] \in Requests => Made(at[u])'
             /\ pc'[u] = "create" => u # t /\ state'[at'[u]] # "fresh"
  <2>1. CASE u = t
    BY <1>1, <2>1 DEF Requests
  <2>2. CASE u # t
    <3>1. pc[u] \in Requests \cup {"create"} => at[u] \in Frames
      BY DEF FramesInv, PlacesTyped, Requests, Using
    <3>2. PICK v : v = at[u]
      OBVIOUS
    <3>3. pc'[u] \in Requests => Made(v)'
      BY <1>1, <1>3, <2>2, <3>1, <3>2 DEF MadeInv
    <3>4. pc'[u] = "create" => state'[at[u]] # "fresh"
      BY <1>1, <1>2, <2>2, <3>1 DEF MadeInv
    <3> QED BY <1>1, <2>2, <3>2, <3>3, <3>4 DEF Made
  <2> QED BY <2>1, <2>2
<1>6. MadeInv'
  <2>1. \A m \in ToSet(chain') \cup named' : Made(m)'
    BY <1>1, <1>2, <1>3, <1>4 DEF MadeInv
  <2>2. \A m \in Frames : holder'[m] # Nobody => Made(m)' /\ state'[m] = "live"
    BY <1>1, <1>2, <1>3 DEF MadeInv
  <2>3. \A u \in Threads :
          pc'[u] = "create" => u \in Creators /\ \A m \in ToSet(head'[u]) : Made(m)'
    BY <1>1, <1>3, <1>4, <1>5 DEF MadeInv
  <2> QED BY <1>5, <2>1, <2>2, <2>3 DEF MadeInv
<1>7. ChainInv'
  <2>1. \A m \in Frames : Made(m)' /\ state'[m] = "live" => m \in ToSet(chain')
    BY <1>2, <1>3 DEF ChainInv
  <2>2. \A u \in Threads : pc'[u] = "create" => NoRepeats(head'[u]) /\ Extends(head'[u], chain')
    BY <1>1, <1>2, <1>5 DEF ChainInv, Extends
  <2> QED BY <1>2, <2>1, <2>2 DEF ChainInv
<1> QED BY <1>6, <1>7

(* Another thread's step: what t holds it held before, and it stays ahead.    *)
LEMMA OthersExit ==
  ASSUME MutexInv, NEW t \in Threads, NEW u \in Threads, u # t, NEW m \in Paired,
         pc'[u] = pc[u], at'[u] = at[u], holder'[m] = u,
         holder'[m] \in {holder[m], t, Nobody},
         Exits(u) => chain' = chain \/ Extends(chain', chain)
  PROVE  pc'[u] # "gone" /\ (Exits(u)' => Ahead(u, m)')
<1>1. holder[m] = u
  BY ThreadsAssumption
<1>2. Exits(u)' <=> Exits(u)
  BY DEF Exits
<1>3. pc[u] # "gone" /\ (Exits(u) => Ahead(u, m))
  BY <1>1 DEF MutexInv, ExitInv
<1>4. Exits(u) => Ahead(u, m)'
  BY <1>3 DEF Ahead, Extends
<1> QED BY <1>2, <1>3, <1>4

(* The exiting thread itself.  Those of its mutexes that are behind the frame *)
(* it leaves are behind the next one or are it.                               *)
LEMMA HeldInChain ==
  ASSUME MutexInv, NEW m \in Paired, holder[m] # Nobody
  PROVE  m = First \/ Before(chain, First, m)
<1>1. m \in Frames /\ Made(m) /\ state[m] = "live"
  BY DEF MutexInv, MadeInv, Paired
<1>2. m \in ToSet(chain)
  BY <1>1 DEF MutexInv, ChainInv
<1> QED BY <1>2, FirstIsFirst DEF MutexInv, FramesInv

LEMMA OwnExit ==
  ASSUME MutexInv, NEW t \in Threads, NEW m \in Paired, holder[m] = t, chain' = chain,
         CallExit(t) \/ SkipFrame(t) \/ FoundFrame(t) \/ UnlockFound(t) \/ CountFound(t)
           \/ EndOfChain(t)
  PROVE  pc'[t] # "gone" /\ (Exits(t)' => Ahead(t, m)')
<1>0. m \in Frames /\ holder[m] # Nobody
  BY ThreadsAssumption DEF Paired
<1>1. ASSUME NEW l, NEW x, Goto(t, l, x) PROVE pc'[t] = l /\ at'[t] = x
  BY <1>1 DEF Goto, MutexInv, FramesInv, PlacesTyped
<1>2. /\ pc[t] # "gone"
      /\ Exits(t) => m = at[t] \/ Before(chain, at[t], m)
  BY DEF MutexInv, ExitInv, Ahead
<1>3. m = First \/ Before(chain, First, m)
  BY <1>0, HeldInChain
<1>4. m # at[t] /\ Before(chain, at[t], m)
        => m = After(at[t]) \/ Before(chain, After(at[t]), m)
  BY AfterIsNext DEF MutexInv, FramesInv, ChainInv
<1>5. PairedRecord(m) /\ PairedCalls(m)
  BY DEF MutexInv, PairedInv
<1>6. CASE CallExit(t)
  <2>1. pc'[t] = "exit" /\ at'[t] = First
    BY <1>1, <1>6 DEF CallExit, Call
  <2> QED BY <1>3, <2>1 DEF Ahead
<1>7. CASE SkipFrame(t)
  <2>1. pc'[t] = pc[t] /\ at'[t] = After(at[t]) /\ pc[t] \in {"all", "exit"}
    BY <1>1, <1>7 DEF SkipFrame
  <2>2. m # at[t]
    BY <1>0, <1>5, <1>7 DEF SkipFrame, PairedRecord, Enters
  <2>3. pc[t] = "exit" => m = After(at[t]) \/ Before(chain, After(at[t]), m)
    BY <1>2, <1>4, <2>2 DEF Exits
  <2> QED BY <2>1, <2>3 DEF Ahead, Exits
<1>8. CASE FoundFrame(t)
  <2>1. /\ pc[t] = "exit" /\ pc'[t] = "exit-unlock" /\ at'[t] = at[t]
        \/ pc'[t] = "all-unlock"
    BY <1>1, <1>8 DEF FoundFrame, ToUnlock, IsAll
  <2> QED BY <1>2, <2>1 DEF Ahead, Exits
<1>9. CASE UnlockFound(t)
  <2>1. \/ pc[t] = "exit-unlock" /\ pc'[t] = "exit-count" /\ at'[t] = at[t]
        \/ pc'[t] = "exit" /\ at'[t] = First
        \/ pc'[t] \in {"all-count", "idle"}
    BY <1>1, <1>9 DEF UnlockFound, ToCount, IsAll, Done
  <2> QED BY <1>2, <1>3, <2>1 DEF Ahead, Exits
<1>10. CASE CountFound(t)
  <2>1. \/ pc[t] = "exit-count" /\ pc'[t] = "exit-unlock" /\ at'[t] = at[t]
        \/ pc[t] = "exit-count" /\ pc'[t] = "exit" /\ at'[t] = After(at[t])
        \/ pc'[t] \in {"all-unlock", "all"}
    BY <1>1, <1>10 DEF CountFound, ToUnlock, Test, IsAll
  <2>2. m # at[t]
    BY <1>0, <1>5, <1>10 DEF CountFound, PairedCalls, Counts
  <2> QED BY <1>2, <1>4, <2>1, <2>2 DEF Ahead, Exits
<1>11. CASE EndOfChain(t)
  <2>1. pc[t] = "all" => pc'[t] = "idle"
    BY <1>1, <1>11 DEF EndOfChain
  <2>2. pc[t] # "exit"
    <3>1. ~Before(chain, Nobody, m)
      BY ThreadsAssumption, ElementOfSeq DEF Before, MutexInv, FramesInv, ChainTyped
    <3> QED BY <1>0, <1>2, <1>11, <3>1, ThreadsAssumption DEF EndOfChain, Exits
  <2> QED BY <1>11, <2>1, <2>2 DEF EndOfChain, Exits
<1> QED BY <1>6, <1>7, <1>8, <1>9, <1>10, <1>11

LEMMA MutexInvStays ==
  ASSUME MutexInv, Next, Hasty = {}, Strangers = {}, OneCreator
  PROVE  MadeInv' /\ ChainInv' /\ ExitInv'
<1> USE DEF MutexInv
<1>1. PICK t \in Threads :
        \/ \E m \in Frames : CreateRead(t, m) \/ CallLock(t, m) \/ CallTry(t, m)
                             \/ CallUnlock(t, m) \/ CallDestroy(t, m)
        \/ CallUnlockAll(t) \/ CallExit(t) \/ Continue(t)
  BY DEF Next
<1>2. ASSUME NEW l, NEW x, Goto(t, l, x)
      PROVE  /\ pc'[t] = l
             /\ \A u \in Threads : u # t => pc'[u] = pc[u] /\ at'[u] = at[u]
  BY <1>2 DEF Goto, FramesInv, PlacesTyped
<1>3. ASSUME chain' = chain \/ Extends(chain', chain)
               \/ (\A u \in Threads : ~Exits(u)),
             NEW l \in Labels, NEW x, Goto(t, l, x), TakesOnly(t),
             \/ l \notin {"gone", "exit", "exit-unlock", "exit-count"}
             \/ /\ pc[t] \notin Requests /\ chain' = chain
                /\ CallExit(t) \/ SkipFrame(t) \/ FoundFrame(t) \/ UnlockFound(t)
                     \/ CountFound(t) \/ EndOfChain(t)
      PROVE  ExitInv'
  <2>1. /\ pc'[t] = l
        /\ \A u \in Threads : u # t => pc'[u] = pc[u] /\ at'[u] = at[u]
    BY <1>2, <1>3
  <2> SUFFICES ASSUME NEW u \in Threads, NEW m \in Paired, holder'[m] = u
               PROVE  pc'[u] # "gone" /\ (Exits(u)' => Ahead(u, m)')
    BY DEF ExitInv
  <2>2. holder'[m] \in {holder[m], t, Nobody}
    BY <1>3 DEF TakesOnly, Paired
  <2>3. CASE u # t
    BY <1>3, <2>1, <2>2, <2>3, OthersExit
  <2>4. CASE u = t /\ l \notin {"gone", "exit", "exit-unlock", "exit-count"}
    BY <2>1, <2>4 DEF Exits
  <2>5. CASE u = t /\ l \in {"gone", "exit", "exit-unlock", "exit-count"}
    <3>1. holder[m] = t
      BY <1>3, <2>5, ThreadsAssumption DEF TakesOnly, Paired
    <3> QED BY <1>3, <2>5, <3>1, OwnExit
  <2> QED BY <2>3, <2>4, <2>5
<1>4. CASE \E m \in Frames : CreateRead(t, m)
  <2>1. Goto(t, "create", at'[t]) /\ chain' = chain /\ TakesOnly(t)
    BY <1>4 DEF CreateRead, frameVars, TakesOnly, Goto, FramesInv, PlacesTyped
  <2> QED BY <1>3, <1>4, <2>1, CreateReadStep DEF Labels
<1>5. CASE CreateLink(t)
  <2>1. Goto(t, "idle", Nobody) /\ TakesOnly(t)
    BY <1>5 DEF CreateLink, Done, frameVars, TakesOnly
  <2> QED BY <1>3, <1>5, <2>1, CreateLinkStep DEF Labels
<1>6. CASE Destroy(t)
  <2>1. Goto(t, "idle", Nobody) /\ TakesOnly(t) /\ pc[t] = "destroy"
    BY <1>6 DEF Destroy, Done, frameVars, TakesOnly
  <2>2. \A u \in Threads : ~Exits(u)
    BY <2>1 DEF PairedInv, WalksAlone, Walks, Exits
  <2> QED BY <1>3, <1>6, <2>1, <2>2, DestroyStep DEF Labels
<1>7. ASSUME NEW l \in Labels, NEW x, Ordinary(t, l, x),
             \/ l \notin {"gone", "exit", "exit-unlock", "exit-count"}
             \/ /\ pc[t] \notin Requests
                /\ CallExit(t) \/ SkipFrame(t) \/ FoundFrame(t) \/ UnlockFound(t)
                     \/ CountFound(t) \/ EndOfChain(t)
      PROVE  MadeInv' /\ ChainInv' /\ ExitInv'
  BY <1>3, <1>7, OrdinaryStep DEF Ordinary
<1>8. CASE \E m \in Frames : CallLock(t, m) \/ CallTry(t, m) \/ CallUnlock(t, m)
                             \/ CallDestroy(t, m)
  <2>1. PICK m \in Frames, l \in Requests : Ordinary(t, l, m)
    BY <1>8 DEF CallLock, CallTry, CallUnlock, CallDestroy, Call, Unname, Ordinary, TakesOnly,
       frameVars, chainVars, Requests
  <2> QED BY <1>7, <2>1 DEF Labels, Requests
<1>9. CASE CallUnlockAll(t) \/ CallExit(t)
  <2>1. Ordinary(t, "all", First) \/ (Ordinary(t, "exit", First) /\ CallExit(t))
    BY <1>9 DEF CallUnlockAll, CallExit, Call, Ordinary, TakesOnly, frameVars, chainVars,
       Requests
  <2>2. pc[t] = "idle"
    BY <1>9 DEF CallUnlockAll, CallExit, Call
  <2> QED BY <1>7, <2>1, <2>2 DEF Labels, Requests
<1>10. CASE Lock(t) \/ SetFields(t) \/ TryLock(t) \/ Unlock(t) \/ UseFreed(t)
  <2>1. PICK l, x : /\ Goto(t, l, x) /\ l \in {"idle", "locked"}
                    /\ UNCHANGED <<state, chain, head, named>>
                    /\ pc[t] \in Requests \cup {"locked"}
    BY <1>10 DEF Lock, SetFields, TryLock, Unlock, UseFreed, Done, Use, chainVars, Requests
  <2>2. TakesOnly(t)
    <3>1. CASE SetFields(t)
      BY <3>1 DEF SetFields, TakesOnly
    <3>2. CASE Lock(t) \/ TryLock(t) \/ Unlock(t) \/ UseFreed(t)
      BY <3>2 DEF Lock, TryLock, Unlock, UseFreed, Acquire, PthreadUnlock, frameVars,
         Use, TakesOnly, FramesInv, HeldInv, Requests
    <3> QED BY <1>10, <3>1, <3>2
  <2>3. Ordinary(t, l, x)
    BY <2>1, <2>2 DEF Ordinary, Requests
  <2> QED BY <1>7, <2>1, <2>3 DEF Labels
<1>11. CASE SkipFrame(t) \/ FoundFrame(t) \/ UnlockFound(t) \/ CountFound(t) \/ EndOfChain(t)
  <2>1. /\ UNCHANGED <<state, chain, head, named>> /\ pc[t] \notin Requests \cup {"create"}
        /\ TakesOnly(t)
    BY <1>11 DEF SkipFrame, FoundFrame, UnlockFound, CountFound, EndOfChain, PthreadUnlock,
       frameVars, chainVars, TakesOnly, Requests, FramesInv, HeldInv
  <2>2. PICK l \in Labels : l \notin Requests \cup {"create"} /\ \E x : Goto(t, l, x)
    BY <1>11 DEF SkipFrame, FoundFrame, UnlockFound, CountFound, EndOfChain, ToUnlock,
       ToCount, Test, Done, Labels, Requests
  <2>3. PICK x : Goto(t, l, x)
    BY <2>2
  <2>4. Ordinary(t, l, x)
    BY <2>1, <2>2, <2>3 DEF Ordinary
  <2> QED BY <1>7, <1>11, <2>1, <2>4
<1> QED BY <1>1, <1>4, <1>5, <1>6, <1>8, <1>9, <1>10, <1>11 DEF Continue

(* When every thread unlocks only what it holds, nobody releases all his      *)
(* mutexes while others lock or destroy, and one thread creates the mutexes,  *)
(* a thread that has exited holds no mutex whose locks are paired: its walk   *)
(* along the chain releases all of them, also while the chain grows.          *)
THEOREM ExitReleases ==
  ASSUME Strangers = {}, Hasty = {}, OneCreator PROVE Spec => []GoneHoldsNothing
<1>1. Init => MadeInv /\ ChainInv /\ ExitInv
  BY ThreadsAssumption DEF Init, MadeInv, ChainInv, ExitInv, ToSet, NoRepeats, Requests, Made,
     Exits, Paired
<1>2. PairedInv /\ FramesInv /\ MadeInv /\ ChainInv /\ ExitInv /\ [Next]_vars
        => MadeInv' /\ ChainInv' /\ ExitInv'
  <2> SUFFICES ASSUME MutexInv, [Next]_vars PROVE MadeInv' /\ ChainInv' /\ ExitInv'
    BY DEF MutexInv
  <2>1. CASE UNCHANGED vars
    BY <2>1 DEF vars, threadVars, frameVars, chainVars, MutexInv, MadeInv, ChainInv, ExitInv,
       Made, Exits, Ahead
  <2> QED BY <2>1, MutexInvStays
<1>3. FramesInv /\ ExitInv => GoneHoldsNothing
  BY DEF FramesInv, RecordsTyped, ExitInv, GoneHoldsNothing, Released, Paired
<1> QED BY <1>1, <1>2, <1>3, InitFrames, FramesStayTyped, InitPaired, PairedStays, PTL DEF Spec
=============================================================================
