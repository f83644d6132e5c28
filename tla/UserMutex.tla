------------------------------ MODULE UserMutex ------------------------------
(* The mutexes of mutex_create/1: DynMutexFrame and its chain in              *)
(* emu/thread_xsb.c, the requests XSB_MUTEX_INIT ... XSB_MUTEX_DESTROY and    *)
(* MUTEX_UNLOCK_ALL, and the release of mutexes when a thread exits.          *)
(*                                                                            *)
(* A frame carries a recursive POSIX mutex and, beside it, num_locks and      *)
(* owner, by which the engine knows who holds it.  The Prolog side finds the  *)
(* frame through an alias and then calls C: these are two steps.              *)
EXTENDS Integers, SequencesExt

CONSTANTS
  Threads, Frames,
  Creators, Nesters, Triers, Strangers, Releasers, Destroyers, Exiters,
               \* who may do what; Nesters lock what they hold, Strangers unlock what
               \* they do not hold
  Unpaired,    \* the frames that Nesters nest and Triers try
  Hasty,       \* threads that release all their mutexes while others lock or destroy
  MaxLocks,    \* bound on the locks a thread holds on one mutex
  MaxOps,      \* bound on the requests made
  Nobody       \* owner = -1, an unlocked mutex

ASSUME ThreadsAssumption ==
  /\ Nobody \notin Threads \cup Frames
  /\ Creators \cup Nesters \cup Triers \cup Strangers \cup Releasers \cup Destroyers
       \cup Exiters \cup Hasty \subseteq Threads
  /\ Unpaired \subseteq Frames
ASSUME BoundsAssumption == MaxLocks \in Nat /\ MaxOps \in Nat

VARIABLES
  pc, at,      \* where each thread stands, and the frame it works on
  head,        \* the dynmut_chain_begin a creating thread has read
  holder, held,       \* POSIX: who holds th_mutex, how many times
  owner, numLocks,    \* the fields of the frame
  state,       \* of each frame: "fresh", "live" or "freed"
  named,       \* frames with a '_$alias_dynamic'(_, MUTEX_ALIAS, Frame)
  chain,       \* the frames reached from dynmut_chain_begin
  ops,         \* requests made
  fault,       \* a freed frame was used
  refused      \* threads whose mutex_unlock_all raised an error

threadVars == <<pc, at, head>>
frameVars == <<holder, held, owner, numLocks>>
chainVars == <<state, named, chain>>
vars == <<threadVars, frameVars, chainVars, ops, fault, refused>>

Init ==
  /\ pc = [t \in Threads |-> "idle"] /\ at = [t \in Threads |-> Nobody]
  /\ head = [t \in Threads |-> <<>>]
  /\ holder = [m \in Frames |-> Nobody] /\ held = [m \in Frames |-> 0]
  /\ owner = [m \in Frames |-> Nobody] /\ numLocks = [m \in Frames |-> 0]
  /\ state = [m \in Frames |-> "fresh"] /\ named = {} /\ chain = <<>>
  /\ ops = 0 /\ fault = FALSE /\ refused = {}

-----------------------------------------------------------------------------
Goto(t, l, m) == pc' = [pc EXCEPT ![t] = l] /\ at' = [at EXCEPT ![t] = m]
Done(t) == Goto(t, "idle", Nobody)

(* A request begins: Prolog looks the frame up among the aliases.             *)
Call(t, l, m) ==
  /\ pc[t] = "idle" /\ ops < MaxOps
  /\ ops' = ops + 1 /\ Goto(t, l, m)
  /\ UNCHANGED <<head, frameVars, fault, refused>>

(* Releasing the mutexes goes on in the states after "all" and "exit".        *)
Releasing == {u \in Threads \ Hasty : pc[u] \in {"all", "all-unlock", "all-count",
                                                "exit", "exit-unlock", "exit-count"}}

CallLock(t, m) ==
  /\ m \in named /\ held[m] < MaxLocks /\ Releasing = {}
  /\ holder[m] = t => t \in Nesters /\ m \in Unpaired
  /\ Call(t, "lock", m) /\ UNCHANGED chainVars
CallTry(t, m) ==
  /\ t \in Triers /\ m \in named \cap Unpaired
  /\ Call(t, "try", m) /\ UNCHANGED chainVars
CallUnlock(t, m) ==
  /\ m \in named /\ (holder[m] = t \/ t \in Strangers)
  /\ Call(t, "unlock", m) /\ UNCHANGED chainVars

Unname(m) == named \ {m}

(* mutex_destroy/1 removes the aliases before C tries to destroy the mutex.   *)
CallDestroy(t, m) ==
  /\ t \in Destroyers /\ m \in named /\ Releasing = {}
  /\ Call(t, "destroy", m)
  /\ named' = Unname(m) /\ UNCHANGED <<state, chain>>

(* mutex_unlock_all/0, and the exit of a thread.                              *)
First == IF chain = <<>> THEN Nobody ELSE Head(chain)
Undisturbed(t) == t \in Hasty \/ \A u \in Threads : pc[u] \notin {"lock", "destroy"}
CallUnlockAll(t) ==
  /\ t \in Releasers /\ Undisturbed(t)
  /\ Call(t, "all", First) /\ UNCHANGED chainVars
CallExit(t) ==
  /\ t \in Exiters /\ Undisturbed(t)
  /\ Call(t, "exit", First) /\ UNCHANGED chainVars

-----------------------------------------------------------------------------
(* create_new_dynMutFrame reads the chain and writes it without a mutex.      *)
CreateRead(t, m) ==
  /\ t \in Creators /\ state[m] = "fresh"
  /\ pc[t] = "idle" /\ ops < MaxOps /\ ops' = ops + 1
  /\ state' = [state EXCEPT ![m] = "live"]
  /\ head' = [head EXCEPT ![t] = chain]
  /\ Goto(t, "create", m)
  /\ UNCHANGED <<frameVars, named, chain, fault, refused>>

Linked(t) == <<at[t]>> \o head[t]

CreateLink(t) ==
  /\ pc[t] = "create"
  /\ chain' = Linked(t)
  /\ named' = named \cup {at[t]}
  /\ head' = [head EXCEPT ![t] = <<>>]
  /\ Done(t)
  /\ UNCHANGED <<frameVars, state, ops, fault, refused>>

(* XSB_MUTEX_LOCK: the fields are set by the holder, once it has the mutex.   *)
Acquire(t, m) ==
  /\ holder' = [holder EXCEPT ![m] = t] /\ held' = [held EXCEPT ![m] = @ + 1]
OwnedUncounted(t, m) ==
  UNCHANGED numLocks /\ owner' = [owner EXCEPT ![m] = t]
Owned(t, m) ==
  numLocks' = [numLocks EXCEPT ![m] = @ + 1] /\ owner' = [owner EXCEPT ![m] = t]

AnyHolder(t, m) == TRUE
Available(t, m) == holder[m] \in {Nobody, t}
Use(t) == state[at[t]] = "live" /\ UNCHANGED <<head, chainVars, ops, fault, refused>>

Lock(t) ==
  LET m == at[t]
  IN  /\ pc[t] = "lock" /\ Available(t, m)
      /\ Acquire(t, m) /\ UNCHANGED <<owner, numLocks>>
      /\ Goto(t, "locked", m) /\ Use(t)

SetFields(t) ==
  /\ pc[t] = "locked"
  /\ Owned(t, at[t]) /\ UNCHANGED <<holder, held>>
  /\ Done(t) /\ Use(t)

(* XSB_MUTEX_TRYLOCK sets no field.                                           *)
TryLock(t) ==
  LET m == at[t]
  IN  /\ pc[t] = "try"
      /\ IF Available(t, m) /\ held[m] < MaxLocks THEN Acquire(t, m)
         ELSE UNCHANGED <<holder, held>>
      /\ UNCHANGED <<owner, numLocks>>
      /\ Done(t) /\ Use(t)

(* unlock_mutex: owner is reset by the owner, and POSIX refuses to unlock for *)
(* anybody but the holder.                                                    *)
OwnerKept(t, m) == UNCHANGED owner
Disown(t, m) == owner' = [owner EXCEPT ![m] = IF @ = t THEN Nobody ELSE @]
PthreadUnlock(t, m) ==
  IF holder[m] = t
  THEN /\ held' = [held EXCEPT ![m] = @ - 1]
       /\ holder' = [holder EXCEPT ![m] = IF held[m] = 1 THEN Nobody ELSE @]
  ELSE UNCHANGED <<holder, held>>

Unlock(t) ==
  LET m == at[t]
  IN  /\ pc[t] = "unlock"
      /\ numLocks' = [numLocks EXCEPT ![m] = @ - 1]
      /\ Disown(t, m) /\ PthreadUnlock(t, m)
      /\ Done(t) /\ Use(t)

(* XSB_MUTEX_DESTROY: POSIX refuses to destroy a mutex that is held.          *)
Destroyable(t, m) == holder[m] = Nobody

Position(m) == CHOOSE i \in 1 .. Len(chain) : chain[i] = m
Unlinked(m) == IF m \in ToSet(chain) THEN RemoveAt(chain, Position(m)) ELSE chain

Destroy(t) ==
  LET m == at[t]
  IN  /\ pc[t] = "destroy" /\ state[m] = "live"
      /\ IF Destroyable(t, m)
         THEN state' = [state EXCEPT ![m] = "freed"] /\ chain' = Unlinked(m)
         ELSE UNCHANGED <<state, chain>>
      /\ Done(t)
      /\ UNCHANGED <<head, frameVars, named, ops, fault, refused>>

(* A request whose frame was freed since its alias was looked up.             *)
UseFreed(t) ==
  /\ pc[t] \in {"lock", "try", "unlock", "destroy"} /\ state[at[t]] = "freed"
  /\ fault' = TRUE /\ Done(t)
  /\ UNCHANGED <<head, frameVars, chainVars, ops, refused>>

-----------------------------------------------------------------------------
(* mutex_unlock_all, for mutex_unlock_all/0 (pc "all") and for the exit of a  *)
(* thread ("exit").  The owner is tested once per frame; num_locks is         *)
(* decremented after the mutex is released.                                   *)
AfterNone(m) == Nobody
AfterSame(m) == m
After(m) == IF m \in ToSet(chain) /\ m # Last(chain) THEN chain[Position(m) + 1]
            ELSE Nobody

More(m) == numLocks[m] > 1

IsAll(l) == l \in {"all", "all-unlock", "all-count"}
Test(t) == IF IsAll(pc[t]) THEN "all" ELSE "exit"
ToUnlock(t) == IF IsAll(pc[t]) THEN "all-unlock" ELSE "exit-unlock"
ToCount(t) == IF IsAll(pc[t]) THEN "all-count" ELSE "exit-count"

SkipFrame(t) ==
  /\ pc[t] \in {"all", "exit"} /\ at[t] # Nobody
  /\ owner[at[t]] # t \/ numLocks[at[t]] <= 0
  /\ Goto(t, pc[t], After(at[t]))
  /\ UNCHANGED <<head, frameVars, chainVars, ops, fault, refused>>

FoundFrame(t) ==
  /\ pc[t] \in {"all", "exit"} /\ at[t] # Nobody
  /\ owner[at[t]] = t /\ numLocks[at[t]] > 0
  /\ Goto(t, ToUnlock(t), at[t])
  /\ UNCHANGED <<head, frameVars, chainVars, ops, fault, refused>>

(* An unlock that POSIX refuses is a permission error: mutex_unlock_all/0 is  *)
(* left, and the exit of the thread is begun again by the error handler.      *)
UnlockFound(t) ==
  LET m == at[t]
  IN  /\ pc[t] \in {"all-unlock", "exit-unlock"}
      /\ Disown(t, m) /\ PthreadUnlock(t, m) /\ UNCHANGED numLocks
      /\ IF holder[m] = t
         THEN Goto(t, ToCount(t), m) /\ UNCHANGED refused
         ELSE /\ refused' = refused \cup {t}
              /\ IF IsAll(pc[t]) THEN Done(t) ELSE Goto(t, "exit", First)
      /\ UNCHANGED <<head, chainVars, ops, fault>>

CountFound(t) ==
  LET m == at[t]
  IN  /\ pc[t] \in {"all-count", "exit-count"}
      /\ numLocks' = [numLocks EXCEPT ![m] = @ - 1]
      /\ IF More(m) THEN Goto(t, ToUnlock(t), m)
         ELSE Goto(t, Test(t), After(m))
      /\ UNCHANGED <<head, holder, held, owner, chainVars, ops, fault, refused>>

EndOfChain(t) ==
  /\ pc[t] \in {"all", "exit"} /\ at[t] = Nobody
  /\ Goto(t, IF pc[t] = "all" THEN "idle" ELSE "gone", Nobody)
  /\ UNCHANGED <<head, frameVars, chainVars, ops, fault, refused>>

-----------------------------------------------------------------------------
Continue(t) ==
  \/ CreateLink(t) \/ Lock(t) \/ SetFields(t) \/ TryLock(t) \/ Unlock(t) \/ Destroy(t)
  \/ UseFreed(t)
  \/ SkipFrame(t) \/ FoundFrame(t) \/ UnlockFound(t) \/ CountFound(t) \/ EndOfChain(t)

Next == \E t \in Threads :
  \/ \E m \in Frames : \/ CreateRead(t, m) \/ CallLock(t, m) \/ CallTry(t, m)
                       \/ CallUnlock(t, m) \/ CallDestroy(t, m)
  \/ CallUnlockAll(t) \/ CallExit(t)
  \/ Continue(t)

Spec == Init /\ [][Next]_vars

(* A thread that is in a request is scheduled, and gets a mutex that is free  *)
(* often enough.                                                              *)
FairSpec == Spec /\ \A t \in Threads : SF_vars(Continue(t))

-----------------------------------------------------------------------------
(* Types of the variables.                                                    *)
TypeOK ==
  /\ pc \in [Threads -> {"idle", "gone", "create", "lock", "locked", "try", "unlock",
                         "destroy", "all", "all-unlock", "all-count",
                         "exit", "exit-unlock", "exit-count"}]
  /\ at \in [Threads -> Frames \cup {Nobody}]
  /\ holder \in [Frames -> Threads \cup {Nobody}] /\ held \in [Frames -> 0 .. MaxLocks]
  /\ owner \in [Frames -> Threads \cup {Nobody}] /\ numLocks \in [Frames -> Int]
  /\ state \in [Frames -> {"fresh", "live", "freed"}] /\ named \subseteq Frames
  /\ chain \in Seq(Frames) /\ refused \subseteq Threads

(* threads.tex on mutex_property/2: a locked mutex shows the thread that owns *)
(* it and how many times it has locked it, for a mutex whose locks are paired.*)
Recorded(m) ==
  holder[m] # Nobody /\ pc[holder[m]] = "idle"
    => owner[m] = holder[m] /\ numLocks[m] = held[m]
HolderIsRecorded == \A m \in Frames \ Unpaired : Recorded(m)

(* A mutex counted as another thread's is never unlocked for it: who is on    *)
(* record as the owner does hold the mutex.                                   *)
OwnerHolds == \A m \in Frames : owner[m] # Nobody => holder[m] = owner[m]

(* threads.tex: a thread exits "after releasing any mutexes held by" it, for  *)
(* mutexes whose locks are paired.                                            *)
Released(m) == holder[m] # Nobody => pc[holder[m]] # "gone"
GoneHoldsNothing == \A m \in Frames \ Unpaired : Released(m)

(* A thread that exits gets to the end of the chain, and then its mutexes are *)
(* free for others.                                                           *)
ExitEnds == \A t \in Threads : pc[t] = "exit" ~> pc[t] = "gone"

-----------------------------------------------------------------------------
(* Properties that some program refutes: README.md, 2.9.                     *)

(* The two properties above, of every mutex.                                  *)
HolderAlwaysRecorded == \A m \in Frames : Recorded(m)
ExitReleasesAll == \A m \in Frames : Released(m)

(* threads.tex: mutex_unlock_all/0 "has no error cases".                      *)
UnlockAllSucceeds == refused = {}

(* A mutex that could not be destroyed because it was locked stays usable: it *)
(* keeps the alias by which its owner unlocks it.                             *)
HeldIsNamed ==
  \A m \in Frames : holder[m] # Nobody /\ (\A t \in Threads : at[t] # m) => m \in named

(* Every mutex with an alias is on the chain, where the exit of a thread      *)
(* looks for the mutexes to release.                                          *)
NamedIsChained == named \subseteq ToSet(chain)

(* mutex_lock/1 of a mutex that was destroyed is an existence error.          *)
NoFault == ~ fault
=============================================================================
