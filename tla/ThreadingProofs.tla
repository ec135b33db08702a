-------------------------- MODULE ThreadingProofs --------------------------
(***************************************************************************)
(* What MCThreading checks on three agents holds for any set of them, any  *)
(* largest count, and any interleaving: each synchronization object has an *)
(* inductive invariant of its own, and a step of ThreadingNext is a step   *)
(* of the object that the behaviour is about.                              *)
(***************************************************************************)
EXTENDS MCThreading, TLAPS

-----------------------------------------------------------------------------
(* Mutex *)

\* What an agent's flag says at each of its program points.
OwnsAtPC == \A a \in Agents :
               /\ pc[a] \in {"store", "notify"} => owns[a]
               /\ pc[a] \in {"mark", "wait", "sleep", "take"} => ~owns[a]

\* Whoever can reach the word has seen it initialized.
Initialized == \A a \in Agents : open[a] \/ pc[a] # "idle" => state # 0

IInv == TypeOK /\ OwnsAtPC /\ Initialized /\ MutualExclusion /\ WordMatchesOwner

LEMMA WordValues ==
    /\ MUTEX_STATE_UNLOCKED = 262144
    /\ MUTEX_STATE_LOCKED = 262145
    /\ MUTEX_STATE_INCONTENTION = 262146
  BY DEF MUTEX_STATE_UNLOCKED, MUTEX_STATE_LOCKED, MUTEX_STATE_INCONTENTION, MUTEX_ID

LEMMA InitIInv == Init => IInv
  BY WordValues DEF Init, IInv, TypeOK, OwnsAtPC, Initialized, MutualExclusion, WordMatchesOwner, Held, Holds,
     Words, Timeouts

LEMMA AcquireIInv ==
  ASSUME IInv, NEW a \in Agents, NEW w \in {MUTEX_STATE_LOCKED, MUTEX_STATE_INCONTENTION},
         ~owns[a], state = MUTEX_STATE_UNLOCKED, Acquire(a, w),
         open' \in [Agents -> BOOLEAN], timeout' \in [Agents -> Timeouts]
  PROVE  IInv'
  <1> USE WordValues DEF IInv, TypeOK, Words, Acquire, Goto
  <1>1. state' \in Words /\ owns' \in [Agents -> BOOLEAN]
    OBVIOUS
  <1>2. TypeOK' /\ OwnsAtPC' /\ Initialized'
    BY <1>1 DEF OwnsAtPC, Initialized
  <1>3. \A b \in Agents : ~Holds(b)
    BY DEF WordMatchesOwner, Held
  <1>4. \A b \in Agents : Holds(b)' <=> b = a
    BY <1>3 DEF Holds
  <1>5. MutualExclusion' /\ WordMatchesOwner'
    BY <1>4 DEF MutualExclusion, WordMatchesOwner, Held
  <1> QED
    BY <1>2, <1>5

LEMMA RetryIInv ==
  ASSUME IInv, NEW a \in Agents, NEW c, NEW t, ~owns[a], open[a] \/ pc[a] # "idle",
         Goto(a, Retry(c, t)), UNCHANGED <<state, owns, open>>,
         timeout' \in [Agents -> Timeouts]
  PROVE  IInv'
  <1>1. Retry(c, t) \in {"idle", "wait", "mark"}
    BY DEF Retry, Contended
  <1>2. pc' = [pc EXCEPT ![a] = Retry(c, t)]
    BY DEF Goto
  <1>3. \A b \in Agents : Holds(b)' <=> Holds(b)
    BY <1>1, <1>2 DEF IInv, TypeOK, Holds
  <1>4. TypeOK' /\ OwnsAtPC' /\ Initialized'
    BY <1>1, <1>2 DEF IInv, TypeOK, OwnsAtPC, Initialized
  <1>5. MutualExclusion' /\ WordMatchesOwner'
    BY <1>3 DEF IInv, MutualExclusion, WordMatchesOwner, Held
  <1> QED
    BY <1>4, <1>5 DEF IInv

LEMMA SubIInv ==
  ASSUME IInv, NEW a \in Agents, pc[a] = "idle", owns[a], Sub(a),
         open' \in [Agents -> BOOLEAN], timeout' = timeout
  PROVE  IInv'
  <1> USE WordValues DEF IInv, TypeOK, Words, Goto, Sub
  <1>1. Holds(a) /\ \A b \in Agents : Holds(b) => b = a
    BY DEF Holds, MutualExclusion
  <1>2. state \in {MUTEX_STATE_LOCKED, MUTEX_STATE_INCONTENTION}
    BY <1>1 DEF WordMatchesOwner, Held
  <1>3. CASE state = MUTEX_STATE_LOCKED
    <2>1. state' = MUTEX_STATE_UNLOCKED
      BY <1>3
    <2>2. owns' = [owns EXCEPT ![a] = FALSE] /\ pc' = pc
      BY <1>3
    <2>3. TypeOK' /\ OwnsAtPC' /\ Initialized'
      BY <2>1, <2>2 DEF OwnsAtPC, Initialized
    <2>4. \A b \in Agents : ~Holds(b)'
      BY <1>1, <2>2 DEF Holds
    <2> QED
      BY <2>1, <2>3, <2>4 DEF MutualExclusion, WordMatchesOwner, Held
  <1>4. CASE state = MUTEX_STATE_INCONTENTION
    <2>1. state' = MUTEX_STATE_LOCKED
      BY <1>4
    <2>2. pc' = [pc EXCEPT ![a] = "store"] /\ owns' = owns
      BY <1>4
    <2>3. TypeOK' /\ OwnsAtPC' /\ Initialized'
      BY <2>1, <2>2 DEF OwnsAtPC, Initialized
    <2>4. \A b \in Agents : Holds(b)' <=> Holds(b)
      BY <2>2 DEF Holds
    <2> QED
      BY <1>2, <2>1, <2>3, <2>4 DEF MutualExclusion, WordMatchesOwner, Held
  <1> QED
    BY <1>2, <1>3, <1>4

LEMMA StoreIInv ==
  ASSUME IInv, NEW a \in Agents, Store(a)
  PROVE  IInv'
  <1> USE WordValues DEF IInv, TypeOK, Words, Goto, Store
  <1>1. Holds(a) /\ \A b \in Agents : Holds(b) => b = a
    BY DEF Holds, MutualExclusion, OwnsAtPC
  <1>2. \A b \in Agents : ~Holds(b)'
    BY <1>1 DEF Holds
  <1>3. TypeOK' /\ OwnsAtPC' /\ Initialized'
    BY DEF OwnsAtPC, Initialized
  <1> QED
    BY <1>2, <1>3 DEF MutualExclusion, WordMatchesOwner, Held

LEMMA StepIInv == IInv /\ [Next]_vars => IInv'
  <1> SUFFICES ASSUME IInv, [Next]_vars PROVE IInv'
    OBVIOUS
  <1> USE WordValues DEF IInv, TypeOK, OwnsAtPC, Initialized, MutualExclusion, WordMatchesOwner,
      Held, Holds, Words, Timeouts, Goto
  <1>1. ASSUME NEW a \in Agents, Construct(a) PROVE IInv'
    BY <1>1 DEF Construct
  <1>2. ASSUME NEW a \in Agents, NEW t \in Timeouts, Lock(a, t) PROVE IInv'
    <2>1. /\ open' \in [Agents -> BOOLEAN] /\ timeout' \in [Agents -> Timeouts]
          /\ ~owns[a] /\ (open[a] \/ pc[a] # "idle")
      BY <1>2 DEF Lock
    <2>2. CASE state = MUTEX_STATE_UNLOCKED
      BY <1>2, <2>1, <2>2, AcquireIInv DEF Lock
    <2>3. CASE state # MUTEX_STATE_UNLOCKED
      BY <1>2, <2>1, <2>3, RetryIInv DEF Lock
    <2> QED
      BY <2>2, <2>3
  <1>3. ASSUME NEW a \in Agents, TryLock(a) PROVE IInv'
    BY <1>3 DEF TryLock, Acquire
  <1>4. ASSUME NEW a \in Agents, Mark(a) PROVE IInv'
    BY <1>4 DEF Mark, Contended
  <1>5. ASSUME NEW a \in Agents, Wait(a) PROVE IInv'
    BY <1>5 DEF Wait, Later
  <1>6. ASSUME NEW a \in Agents, Take(a) PROVE IInv'
    <2>1. /\ open' \in [Agents -> BOOLEAN] /\ timeout' \in [Agents -> Timeouts]
          /\ ~owns[a] /\ (open[a] \/ pc[a] # "idle")
      BY <1>6 DEF Take
    <2>2. CASE state = MUTEX_STATE_UNLOCKED
      BY <1>6, <2>1, <2>2, AcquireIInv DEF Take
    <2>3. CASE state # MUTEX_STATE_UNLOCKED
      BY <1>6, <2>1, <2>3, RetryIInv DEF Take
    <2> QED
      BY <2>2, <2>3
  <1>7. ASSUME NEW a \in Agents, Store(a) PROVE IInv'
    BY <1>7, StoreIInv
  <1>8. ASSUME NEW a \in Agents, Notify(a) PROVE IInv'
    BY <1>8 DEF Notify, Sleepers, Later
  <1>9. ASSUME NEW a \in Agents, TimeOut(a) PROVE IInv'
    BY <1>9 DEF TimeOut
  <1>10. ASSUME NEW a \in Agents, Unlock(a) PROVE IInv'
    <2>1. open' \in [Agents -> BOOLEAN] /\ timeout' = timeout /\ pc[a] = "idle" /\ owns[a] /\ Sub(a)
      BY <1>10 DEF Unlock
    <2> QED
      BY <2>1, SubIInv
  <1>11. ASSUME NEW a \in Agents, Close(a) PROVE IInv'
    <2>1. open' = [open EXCEPT ![a] = FALSE] /\ timeout' = timeout /\ pc[a] = "idle"
      BY <1>11 DEF Close
    <2>2. CASE owns[a] /\ Sub(a)
      BY <2>1, <2>2, SubIInv
    <2>3. CASE ~owns[a] /\ UNCHANGED <<state, owns, pc>>
      BY <2>1, <2>3
    <2> QED
      BY <1>11, <2>2, <2>3 DEF Close
  <1>12. CASE UNCHANGED vars
    BY <1>12 DEF vars
  <1> QED
    BY <1>1, <1>2, <1>3, <1>4, <1>5, <1>6, <1>7, <1>8, <1>9, <1>10, <1>11, <1>12
    DEF Next, Call, Step

-----------------------------------------------------------------------------
THEOREM Invariance == Spec => []IInv
  BY InitIInv, StepIInv, PTL DEF Spec

\* The shared word and every object's private state stay within their types.
THEOREM TypeCorrect == Spec => []TypeOK
  BY Invariance, PTL DEF IInv

\* lock/tryLock/unlock/close exclude: at most one Mutex object has the lock.
THEOREM Exclusion == Spec => []MutualExclusion
  BY Invariance, PTL DEF IInv

\* The word reads locked exactly while some Mutex object has the lock.
THEOREM WordAgrees == Spec => []WordMatchesOwner
  BY Invariance, PTL DEF IInv

-----------------------------------------------------------------------------
LEMMA WakeupStep == IInv /\ NoLostWakeup /\ [Next]_vars => NoLostWakeup'
  <1> SUFFICES ASSUME IInv, NoLostWakeup, [Next]_vars PROVE NoLostWakeup'
    OBVIOUS
  <1>0. /\ pc \in [Agents -> {"idle", "mark", "wait", "sleep", "take", "store", "notify"}]
        /\ OwnsAtPC
        /\ state \in Words
        /\ \A a \in Agents : pc[a] # "idle" => state # 0
    BY DEF IInv, TypeOK, Initialized
  <1> USE <1>0, WordValues DEF Words, NoLostWakeup, Sleepers, Alert, Goto, OwnsAtPC
  <1>1. ASSUME NEW a \in Agents, Construct(a) PROVE NoLostWakeup'
    BY <1>1 DEF Construct
  <1>2. ASSUME NEW a \in Agents, NEW t \in Timeouts, Lock(a, t) PROVE NoLostWakeup'
    BY <1>2 DEF Lock, Acquire, Retry, Contended
  <1>3. ASSUME NEW a \in Agents, TryLock(a) PROVE NoLostWakeup'
    BY <1>3 DEF TryLock, Acquire
  <1>4. ASSUME NEW a \in Agents, Mark(a) PROVE NoLostWakeup'
    BY <1>4 DEF Mark, Contended
  <1>5. ASSUME NEW a \in Agents, Wait(a) PROVE NoLostWakeup'
    BY <1>5 DEF Wait
  <1>6. ASSUME NEW a \in Agents, Take(a) PROVE NoLostWakeup'
    <2>1. CASE state = MUTEX_STATE_UNLOCKED
      BY <1>6, <2>1 DEF Take, Acquire
    <2>2. CASE state = MUTEX_STATE_INCONTENTION
      BY <1>6, <2>2 DEF Take, Retry, Contended
    <2>3. CASE state \notin {MUTEX_STATE_UNLOCKED, MUTEX_STATE_INCONTENTION}
      <3>1. pc' = [pc EXCEPT ![a] = "mark"]
        BY <1>6, <2>3 DEF Take, Retry
      <3> QED
        BY <3>1
    <2> QED
      BY <2>1, <2>2, <2>3
  <1>7. ASSUME NEW a \in Agents, Store(a) PROVE NoLostWakeup'
    BY <1>7 DEF Store
  <1>8. ASSUME NEW a \in Agents, Notify(a) PROVE NoLostWakeup'
    BY <1>8 DEF Notify
  <1>9. ASSUME NEW a \in Agents, TimeOut(a) PROVE NoLostWakeup'
    BY <1>9 DEF TimeOut
  <1>10. ASSUME NEW a \in Agents, Unlock(a) PROVE NoLostWakeup'
    BY <1>10 DEF Unlock, Sub
  <1>11. ASSUME NEW a \in Agents, Close(a) PROVE NoLostWakeup'
    BY <1>11 DEF Close, Sub
  <1>12. CASE UNCHANGED vars
    BY <1>12 DEF vars
  <1> QED
    BY <1>1, <1>2, <1>3, <1>4, <1>5, <1>6, <1>7, <1>8, <1>9, <1>10, <1>11, <1>12
    DEF Next, Call, Step

\* No unlock, time-out or barging tryLock strands an agent asleep in Atomics.wait.
THEOREM WakeupsKept == Spec => []NoLostWakeup
  <1>1. Init => NoLostWakeup
    BY DEF Init, NoLostWakeup, Sleepers
  <1> QED
    BY <1>1, Invariance, WakeupStep, PTL DEF Spec

-----------------------------------------------------------------------------
LEMMA RefineInit == Init => Lockable!Init
  BY DEF Init, Lockable!Init, LockPhase, Holds, Asking

\* LockPhase shows in Holds and Asking of each agent.
LEMMA PhaseSame ==
  ASSUME \A b \in Agents : (Holds(b)' <=> Holds(b)) /\ (Asking(b)' <=> Asking(b))
  PROVE  LockPhase' = LockPhase
  BY DEF LockPhase

LEMMA PhaseMoves ==
  ASSUME NEW a \in Agents,
         \A b \in Agents \ {a} : (Holds(b)' <=> Holds(b)) /\ (Asking(b)' <=> Asking(b))
  PROVE  /\ Holds(a)' => LockPhase' = [LockPhase EXCEPT ![a] = "holding"]
         /\ ~Holds(a)' /\ Asking(a)' => LockPhase' = [LockPhase EXCEPT ![a] = "asking"]
         /\ ~Holds(a)' /\ ~Asking(a)' => LockPhase' = [LockPhase EXCEPT ![a] = "out"]
  <1>1. \A b \in Agents \ {a} : LockPhase'[b] = LockPhase[b]
    BY DEF LockPhase
  <1>2. /\ Holds(a)' => LockPhase'[a] = "holding"
        /\ ~Holds(a)' /\ Asking(a)' => LockPhase'[a] = "asking"
        /\ ~Holds(a)' /\ ~Asking(a)' => LockPhase'[a] = "out"
    BY DEF LockPhase
  <1>3. LockPhase' = [LockPhase EXCEPT ![a] = LockPhase'[a]]
    <2>1. LockPhase' = [b \in Agents |-> LockPhase'[b]]
      BY DEF LockPhase
    <2>2. LockPhase = [b \in Agents |-> LockPhase[b]]
      BY DEF LockPhase
    <2> QED
      BY <1>1, <2>1, <2>2
  <1> QED
    BY <1>2, <1>3

LEMMA PhaseGrant ==
  ASSUME IInv, NEW a \in Agents, state = MUTEX_STATE_UNLOCKED, Holds(a)',
         \A b \in Agents \ {a} : (Holds(b)' <=> Holds(b)) /\ (Asking(b)' <=> Asking(b))
  PROVE  Lockable!Next
  <1>1. \A b \in Agents : LockPhase[b] # "holding"
    BY WordValues DEF IInv, WordMatchesOwner, Held, LockPhase
  <1>2. LockPhase' = [LockPhase EXCEPT ![a] = "holding"]
    BY PhaseMoves
  <1>3. Lockable!Grant(a)
    BY <1>1, <1>2 DEF Lockable!Grant, Lockable!Free
  <1> QED
    BY <1>3 DEF Lockable!Next

LEMMA PhaseAsking ==
  ASSUME NEW a \in Agents, ~Holds(a), ~Holds(a)',
         \A b \in Agents \ {a} : (Holds(b)' <=> Holds(b)) /\ (Asking(b)' <=> Asking(b))
  PROVE  [Lockable!Next]_LockPhase
  <1>1. CASE Asking(a)' <=> Asking(a)
    BY <1>1, PhaseSame
  <1>2. CASE Asking(a)' /\ ~Asking(a)
    <2>0. LockPhase[a] = "out"
      BY <1>2 DEF LockPhase
    <2>1. Lockable!Ask(a)
      BY <1>2, <2>0, PhaseMoves DEF Lockable!Ask
    <2> QED
      BY <2>1 DEF Lockable!Next
  <1>3. CASE ~Asking(a)' /\ Asking(a)
    <2>0. LockPhase[a] = "asking"
      BY <1>3 DEF LockPhase
    <2>1. Lockable!GiveUp(a)
      BY <1>3, <2>0, PhaseMoves DEF Lockable!GiveUp
    <2> QED
      BY <2>1 DEF Lockable!Next
  <1> QED
    BY <1>1, <1>2, <1>3

LEMMA PhaseRelease ==
  ASSUME NEW a \in Agents, Holds(a), ~Holds(a)', ~Asking(a)',
         \A b \in Agents \ {a} : (Holds(b)' <=> Holds(b)) /\ (Asking(b)' <=> Asking(b))
  PROVE  Lockable!Next
  <1>0. LockPhase[a] = "holding"
    BY DEF LockPhase
  <1>1. Lockable!Release(a)
    BY <1>0, PhaseMoves DEF Lockable!Release
  <1> QED
    BY <1>1 DEF Lockable!Next

LEMMA PhaseSub ==
  ASSUME IInv, NEW a \in Agents, pc[a] = "idle", owns[a], Sub(a)
  PROVE  [Lockable!Next]_LockPhase
  <1> USE DEF IInv, TypeOK, Sub, Goto
  <1>1. CASE state = MUTEX_STATE_LOCKED
    <2>1. owns' = [owns EXCEPT ![a] = FALSE] /\ pc' = pc
      BY <1>1
    <2> QED
      BY <2>1, PhaseRelease DEF Holds, Asking
  <1>2. CASE state # MUTEX_STATE_LOCKED
    <2>1. owns' = owns /\ pc' = [pc EXCEPT ![a] = "store"]
      BY <1>2
    <2> QED
      BY <2>1, PhaseSame DEF Holds, Asking
  <1> QED
    BY <1>1, <1>2

LEMMA RefineStep == IInv /\ [Next]_vars => [Lockable!Next]_LockPhase
  <1> SUFFICES ASSUME IInv, [Next]_vars PROVE [Lockable!Next]_LockPhase
    OBVIOUS
  <1>0. /\ pc \in [Agents -> {"idle", "mark", "wait", "sleep", "take", "store", "notify"}]
        /\ owns \in [Agents -> BOOLEAN]
        /\ OwnsAtPC
    BY DEF IInv, TypeOK
  <1> USE <1>0 DEF OwnsAtPC, Holds, Asking, Goto
  <1>1. ASSUME NEW a \in Agents, Construct(a) PROVE LockPhase' = LockPhase
    BY <1>1, PhaseSame DEF Construct
  <1>2. ASSUME NEW a \in Agents, NEW t \in Timeouts, Lock(a, t)
        PROVE  [Lockable!Next]_LockPhase
    <2>1. CASE state = MUTEX_STATE_UNLOCKED
      BY <1>2, <2>1, PhaseGrant DEF Lock, Acquire
    <2>2. CASE state # MUTEX_STATE_UNLOCKED
      BY <1>2, <2>2, PhaseAsking DEF Lock
    <2> QED
      BY <2>1, <2>2
  <1>3. ASSUME NEW a \in Agents, TryLock(a) PROVE Lockable!Next
    BY <1>3, PhaseGrant DEF TryLock, Acquire
  <1>4. ASSUME NEW a \in Agents, Mark(a) PROVE [Lockable!Next]_LockPhase
    BY <1>4, PhaseAsking DEF Mark
  <1>5. ASSUME NEW a \in Agents, Wait(a) PROVE [Lockable!Next]_LockPhase
    BY <1>5, PhaseAsking DEF Wait
  <1>6. ASSUME NEW a \in Agents, Take(a) PROVE [Lockable!Next]_LockPhase
    <2>1. CASE state = MUTEX_STATE_UNLOCKED
      BY <1>6, <2>1, PhaseGrant DEF Take, Acquire
    <2>2. CASE state # MUTEX_STATE_UNLOCKED
      BY <1>6, <2>2, PhaseAsking DEF Take
    <2> QED
      BY <2>1, <2>2
  <1>7. ASSUME NEW a \in Agents, Store(a) PROVE Lockable!Next
    BY <1>7, PhaseRelease DEF Store
  <1>8. ASSUME NEW a \in Agents, Notify(a) PROVE LockPhase' = LockPhase
    <2>1. \A b \in Agents \ {a} : Asking(b)' <=> Asking(b)
      BY <1>8 DEF Notify, Sleepers
    <2>2. /\ pc'[a] = "idle" /\ pc[a] = "notify" /\ owns' = [owns EXCEPT ![a] = FALSE]
          /\ \A b \in Agents \ {a} : (pc'[b] # "notify" /\ pc[b] # "notify") \/ pc'[b] = pc[b]
      BY <1>8 DEF Notify, Sleepers
    <2> QED
      BY <2>1, <2>2, PhaseSame
  <1>9. ASSUME NEW a \in Agents, TimeOut(a) PROVE [Lockable!Next]_LockPhase
    BY <1>9, PhaseAsking DEF TimeOut
  <1>10. ASSUME NEW a \in Agents, Unlock(a) PROVE [Lockable!Next]_LockPhase
    BY <1>10, PhaseSub DEF Unlock
  <1>11. ASSUME NEW a \in Agents, Close(a) PROVE [Lockable!Next]_LockPhase
    <2>1. CASE owns[a] /\ Sub(a)
      BY <1>11, <2>1, PhaseSub DEF Close
    <2>2. CASE ~owns[a] /\ UNCHANGED <<state, owns, pc>>
      BY <2>2, PhaseSame
    <2> QED
      BY <1>11, <2>1, <2>2 DEF Close
  <1>12. CASE UNCHANGED vars
    BY <1>12, PhaseSame DEF vars
  <1> QED
    BY <1>1, <1>2, <1>3, <1>4, <1>5, <1>6, <1>7, <1>8, <1>9, <1>10, <1>11, <1>12
    DEF Next, Call, Step

\* The futex mutex is a Lockable: it grants only a free lock, takes back a request
\* only from the agent that made it, and releases only for the holder.
THEOREM Implements == Spec => ImplementsLockable
  BY RefineInit, RefineStep, Invariance, PTL DEF Spec, ImplementsLockable, Lockable!Spec

-----------------------------------------------------------------------------
(* AutoResetEvent: set() is a critical section, every successful set() is   *)
(* accounted for, and nobody sleeps through a signal.                       *)

AutoInitialized == \A a \in Agents : autoPc[a] # "closed" => autoWord # 0

\* Between a notify that found nobody and the store of SIGNALED nobody falls asleep.
NobodySleepsBeforeStore ==
    \A a \in Agents : autoPc[a] = "storeSignaled" => \A b \in Agents : autoPc[b] # "sleep"

\* SignalConserved, without the conditional.
Pending == autoWord = AutoReset!AUTORESET_STATE_SIGNALED
              \/ \E a \in Agents : autoPc[a] \in {"notify", "storeSignaled"}
Conserved == (Pending /\ credit = 1) \/ (~Pending /\ credit = 0)

AutoIInv == /\ AutoReset!TypeOK /\ AutoInitialized
            /\ Conserved /\ AutoReset!OneSetter
            /\ AutoReset!NobodySleepsSignaled /\ NobodySleepsBeforeStore

LEMMA AutoValues ==
    /\ AutoReset!AUTORESET_STATE_NONSIGNALED = 131072
    /\ AutoReset!AUTORESET_STATE_NOTIFYING = 131073
    /\ AutoReset!AUTORESET_STATE_SIGNALED = 131075
  BY DEF AutoReset!AUTORESET_STATE_NONSIGNALED, AutoReset!AUTORESET_STATE_NOTIFYING,
     AutoReset!AUTORESET_STATE_SIGNALED, AutoReset!AUTORESET_ID

LEMMA AutoInit == AutoReset!Init => AutoIInv
  BY AutoValues DEF AutoReset!Init, AutoIInv, AutoReset!TypeOK, AutoReset!States, AutoReset!Timeouts, AutoReset!Labels,
     AutoInitialized, Conserved, Pending, AutoReset!OneSetter, AutoReset!Setting,
     AutoReset!NobodySleepsSignaled, NobodySleepsBeforeStore, AutoReset!Sleepers

LEMMA AutoStep == AutoIInv /\ [AutoReset!Next]_auto => AutoIInv'
  <1> SUFFICES ASSUME AutoIInv, [AutoReset!Next]_auto PROVE AutoIInv'
    OBVIOUS
  <1> USE AutoValues DEF AutoIInv, AutoReset!TypeOK, AutoReset!States, AutoReset!Timeouts, AutoReset!Labels,
     AutoInitialized, Conserved, Pending, AutoReset!OneSetter, AutoReset!Setting,
     AutoReset!NobodySleepsSignaled, NobodySleepsBeforeStore, AutoReset!Sleepers, AutoReset!Goto
  <1>1. ASSUME NEW a \in Agents, AutoReset!Construct(a) PROVE AutoIInv'
    BY <1>1 DEF AutoReset!Construct
  <1>2. ASSUME NEW a \in Agents, AutoReset!Close(a) PROVE AutoIInv'
    BY <1>2 DEF AutoReset!Close
  <1>3. ASSUME NEW a \in Agents, AutoReset!Set(a) PROVE AutoIInv'
    BY <1>3 DEF AutoReset!Set
  <1>4. ASSUME NEW a \in Agents, AutoReset!Notify(a) PROVE AutoIInv'
    BY <1>4 DEF AutoReset!Notify
  <1>5. ASSUME NEW a \in Agents, AutoReset!Store(a) PROVE AutoIInv'
    BY <1>5 DEF AutoReset!Store
  <1>6. ASSUME NEW a \in Agents, AutoReset!Reset(a) PROVE AutoIInv'
    BY <1>6 DEF AutoReset!Reset
  <1>7. ASSUME NEW a \in Agents, NEW t \in AutoReset!Timeouts \ {"negative"}, AutoReset!WaitOne(a, t)
        PROVE  AutoIInv'
    BY <1>7 DEF AutoReset!WaitOne
  <1>8. ASSUME NEW a \in Agents, AutoReset!Wait(a) PROVE AutoIInv'
    BY <1>8 DEF AutoReset!Wait
  <1>9. ASSUME NEW a \in Agents, AutoReset!TimeOut(a) PROVE AutoIInv'
    BY <1>9 DEF AutoReset!TimeOut
  <1>10. ASSUME NEW a \in Agents, AutoReset!Consume(a) PROVE AutoIInv'
    BY <1>10 DEF AutoReset!Consume, AutoReset!Later
  <1>11. CASE UNCHANGED auto
    BY <1>11 DEF auto
  <1> QED
    BY <1>1, <1>2, <1>3, <1>4, <1>5, <1>6, <1>7, <1>8, <1>9, <1>10, <1>11
    DEF AutoReset!Next, AutoReset!WaitCall, AutoReset!Step

-----------------------------------------------------------------------------
(* ManualResetEvent: its invariants are inductive together. *)

ManualIInv == Manual!TypeOK /\ Manual!NobodyStranded

LEMMA ManualValues ==
    /\ Manual!MANUALRESET_STATE_NONSIGNALED = 65536
    /\ Manual!MANUALRESET_STATE_SIGNALED = 65537
  BY DEF Manual!MANUALRESET_STATE_NONSIGNALED, Manual!MANUALRESET_STATE_SIGNALED,
     Manual!MANUALRESET_ID

LEMMA ManualInit == Manual!Init => ManualIInv
  BY ManualValues DEF Manual!Init, ManualIInv, Manual!TypeOK, Manual!States,
     Manual!NobodyStranded, Manual!Sleepers

LEMMA ManualStep == ManualIInv /\ [Manual!Next]_manual => ManualIInv'
  <1> SUFFICES ASSUME ManualIInv, [Manual!Next]_manual PROVE ManualIInv'
    OBVIOUS
  <1> USE ManualValues DEF ManualIInv, Manual!TypeOK, Manual!States, Manual!NobodyStranded,
      Manual!Sleepers, Manual!Goto
  <1>1. ASSUME NEW a \in Agents, Manual!Construct(a) PROVE ManualIInv'
    BY <1>1 DEF Manual!Construct
  <1>2. ASSUME NEW a \in Agents, Manual!Close(a) PROVE ManualIInv'
    BY <1>2 DEF Manual!Close
  <1>3. ASSUME NEW a \in Agents, Manual!Set(a) PROVE ManualIInv'
    BY <1>3 DEF Manual!Set
  <1>4. ASSUME NEW a \in Agents, Manual!Reset(a) PROVE ManualIInv'
    BY <1>4 DEF Manual!Reset
  <1>5. ASSUME NEW a \in Agents, Manual!WaitOne(a) PROVE ManualIInv'
    BY <1>5 DEF Manual!WaitOne
  <1>6. ASSUME NEW a \in Agents, Manual!Notify(a) PROVE ManualIInv'
    BY <1>6 DEF Manual!Notify
  <1>7. ASSUME NEW a \in Agents, Manual!Wait(a) PROVE ManualIInv'
    BY <1>7 DEF Manual!Wait
  <1>8. ASSUME NEW a \in Agents, Manual!TimeOut(a) PROVE ManualIInv'
    BY <1>8 DEF Manual!TimeOut
  <1>9. CASE UNCHANGED manual
    BY <1>9 DEF manual
  <1> QED
    BY <1>1, <1>2, <1>3, <1>4, <1>5, <1>6, <1>7, <1>8, <1>9 DEF Manual!Next, Manual!Step

-----------------------------------------------------------------------------
(* CountdownEvent *)

CountdownInitialized == /\ \A a \in Agents : at[a] \notin {"closed", "threw"} => word # 0
                        /\ word = 0 => remaining = 0

\* The agents between the steps of signal() or reset().
Inside(a) == at[a] \in {"signalState", "notify", "resetInitial", "resetState"}

\* There is one at most: the count stays zero until the last signal() is done, and
\* clients do not reset meanwhile.
OneInside == \A a, b \in Agents : Inside(a) /\ Inside(b) => a = b

\* What the words say to the agent inside.
InsideKnows == \A a \in Agents :
                  /\ at[a] \in {"signalState", "notify"} => remaining = 0
                  /\ at[a] = "notify" => word = Countdown!COUNTDOWN_STATE_SIGNALED
                  /\ at[a] \in {"resetInitial", "resetState"} => remaining = arg[a]

\* SignaledAtZero holds but for the agent that is about to store the state.
Stored == \A a \in Agents : at[a] \notin {"signalState", "resetInitial", "resetState"}
SignaledAtZeroOnceStored ==
    Stored /\ word # 0 => (word = Countdown!COUNTDOWN_STATE_SIGNALED <=> remaining = 0)

CountdownIInv == /\ Countdown!TypeOK /\ CountdownInitialized
                 /\ OneInside /\ InsideKnows
                 /\ SignaledAtZeroOnceStored /\ Countdown!OneSignalWins

LEMMA CountdownValues ==
    /\ Countdown!COUNTDOWN_STATE_NONSIGNALED = 2097152
    /\ Countdown!COUNTDOWN_STATE_SIGNALED = 2097153
  BY DEF Countdown!COUNTDOWN_STATE_NONSIGNALED, Countdown!COUNTDOWN_STATE_SIGNALED,
     Countdown!COUNTDOWN_ID

LEMMA CountdownInit == Countdown!Init => CountdownIInv
  BY MaxCountAssumption, CountdownValues DEF Countdown!Init, CountdownIInv, Countdown!TypeOK,
     CountdownInitialized, OneInside, Inside, InsideKnows, Stored, SignaledAtZeroOnceStored,
     Countdown!OneSignalWins

LEMMA CountdownStep == CountdownIInv /\ [Countdown!Next]_<<manual, countdown>> => CountdownIInv'
  <1> SUFFICES ASSUME CountdownIInv, [Countdown!Next]_<<manual, countdown>> PROVE CountdownIInv'
    OBVIOUS
  <1> USE MaxCountAssumption, CountdownValues DEF CountdownIInv, Countdown!TypeOK,
      CountdownInitialized, OneInside, Inside, InsideKnows, Stored, SignaledAtZeroOnceStored,
      Countdown!OneSignalWins, Countdown!Goto, Countdown!Counts
  <1>1. ASSUME NEW a \in Agents, Countdown!Construct(a) PROVE CountdownIInv'
    BY <1>1 DEF Countdown!Construct
  <1>2. ASSUME NEW a \in Agents, Countdown!ConstructCount(a) PROVE CountdownIInv'
    BY <1>2 DEF Countdown!ConstructCount
  <1>3. ASSUME NEW a \in Agents, Countdown!Close(a) PROVE CountdownIInv'
    BY <1>3 DEF Countdown!Close
  <1>4. ASSUME NEW a \in Agents, NEW n \in Countdown!Counts, ~Countdown!Resetting, Countdown!TryAdd(a, n)
        PROVE  CountdownIInv'
    BY <1>4 DEF Countdown!TryAdd, Countdown!Resetting
  <1>5. ASSUME NEW a \in Agents, NEW n \in Countdown!Counts, ~Countdown!Resetting, Countdown!Signal(a, n)
        PROVE  CountdownIInv'
    BY <1>5 DEF Countdown!Signal, Countdown!Resetting
  <1>6. ASSUME NEW a \in Agents, NEW n \in Countdown!Counts \cup {0}, Countdown!Reset(a, n)
        PROVE  CountdownIInv'
    BY <1>6 DEF Countdown!Reset, Countdown!Quiet
  <1>7. ASSUME NEW a \in Agents, Countdown!WaitCall(a) PROVE CountdownIInv'
    BY <1>7 DEF Countdown!WaitCall
  <1>8. ASSUME NEW a \in Agents, Countdown!SignalState(a) PROVE CountdownIInv'
    BY <1>8 DEF Countdown!SignalState
  <1>9. ASSUME NEW a \in Agents, Countdown!Notify(a) PROVE CountdownIInv'
    BY <1>9 DEF Countdown!Notify, Countdown!Sleepers
  <1>10. ASSUME NEW a \in Agents, Countdown!ResetInitial(a) PROVE CountdownIInv'
    BY <1>10 DEF Countdown!ResetInitial
  <1>11. ASSUME NEW a \in Agents, Countdown!ResetState(a) PROVE CountdownIInv'
    BY <1>11 DEF Countdown!ResetState
  <1>12. ASSUME NEW a \in Agents, Countdown!Wait(a) PROVE CountdownIInv'
    BY <1>12 DEF Countdown!Wait
  <1>13. ASSUME NEW a \in Agents, Countdown!TimeOut(a) PROVE CountdownIInv'
    BY <1>13 DEF Countdown!TimeOut
  <1>14. CASE UNCHANGED <<manual, countdown>>
    BY <1>14 DEF manual, countdown
  <1> QED
    BY <1>1, <1>2, <1>3, <1>4, <1>5, <1>6, <1>7, <1>8, <1>9, <1>10, <1>11, <1>12, <1>13, <1>14
    DEF Countdown!Next, Countdown!Call, Countdown!Step

-----------------------------------------------------------------------------
(* ConditionVariable *)

ConditionIInv == Condition!TypeOK /\ Condition!WaitersLetGo

LEMMA ConditionInit == Condition!Init => ConditionIInv
<1> SUFFICES ASSUME Condition!Init PROVE ConditionIInv
  OBVIOUS
<1>1. phase \in [Agents -> Condition!Lock!Phases]
  BY DEF Condition!Init, Condition!Lock!Init, Condition!Lock!Phases
<1>2. \A a \in Agents : inside[a] = "run"
  BY DEF Condition!Init
<1>3. ready \in BOOLEAN /\ due \in BOOLEAN /\ cond \in [Agents -> BOOLEAN]
  BY DEF Condition!Init
<1>4. /\ inside \in [Agents -> {"run", "check", "unlocked", "sleep", "relock"}]
      /\ limit \in [Agents -> Condition!Timeouts]
      /\ result \in [Agents -> {"none", "ok", "timed-out"}]
  BY DEF Condition!Init, Condition!Timeouts
<1>5. \A a \in Agents : inside[a] = "check" => phase[a] = "holding"
  BY <1>2
<1>6. Condition!TypeOK
  BY <1>1, <1>3, <1>4, <1>5 DEF Condition!TypeOK
<1>7. Condition!WaitersLetGo
  BY <1>2 DEF Condition!WaitersLetGo
<1> QED BY <1>6, <1>7 DEF ConditionIInv

LEMMA WakeStep ==
  ASSUME ConditionIInv, NEW S \in SUBSET Condition!Sleepers, Condition!Wake(S)
  PROVE  ConditionIInv'
  BY DEF ConditionIInv, Condition!TypeOK, Condition!WaitersLetGo, Condition!Wake,
     Condition!Sleepers, Condition!Timeouts

LEMMA ConditionStep == ConditionIInv /\ [Condition!Next]_condition => ConditionIInv'
  <1> SUFFICES ASSUME ConditionIInv, [Condition!Next]_condition PROVE ConditionIInv'
    OBVIOUS
  <1> USE DEF ConditionIInv, Condition!TypeOK, Condition!WaitersLetGo, Condition!Timeouts,
      Condition!Lock!Phases, Condition!Goto, Condition!Lock!Grant, Condition!Lock!Release,
      Condition!Later
  <1>1. ASSUME NEW a \in Agents, Condition!LockMutex(a) PROVE ConditionIInv'
    BY <1>1 DEF Condition!LockMutex
  <1>2. ASSUME NEW a \in Agents, Condition!UnlockMutex(a) PROVE ConditionIInv'
    BY <1>2 DEF Condition!UnlockMutex
  <1>3. ASSUME NEW a \in Agents, Condition!Produce(a) PROVE ConditionIInv'
    BY <1>3 DEF Condition!Produce
  <1>4. ASSUME NEW a \in Agents, NEW c \in BOOLEAN, NEW t \in Condition!Timeouts,
               Condition!WaitFor(a, c, t)
        PROVE  ConditionIInv'
    BY <1>4 DEF Condition!WaitFor
  <1>5. ASSUME NEW a \in Agents, Condition!Check(a) PROVE ConditionIInv'
    BY <1>5 DEF Condition!Check
  <1>6. ASSUME NEW a \in Agents, Condition!Sleep(a) PROVE ConditionIInv'
    BY <1>6 DEF Condition!Sleep
  <1>7. ASSUME NEW a \in Agents, Condition!Relock(a) PROVE ConditionIInv'
    BY <1>7 DEF Condition!Relock
  <1>8. ASSUME NEW a \in Agents, Condition!TimeOut(a) PROVE ConditionIInv'
    BY <1>8 DEF Condition!TimeOut
  <1>9. ASSUME NEW a \in Agents, Condition!NotifyOne(a) PROVE ConditionIInv'
    BY <1>9, WakeStep DEF Condition!NotifyOne
  <1>10. ASSUME NEW a \in Agents, Condition!NotifyAll(a) PROVE ConditionIInv'
    BY <1>10, WakeStep DEF Condition!NotifyAll
  <1>11. CASE UNCHANGED condition
    BY <1>11 DEF condition
  <1> QED
    BY <1>1, <1>2, <1>3, <1>4, <1>5, <1>6, <1>7, <1>8, <1>9, <1>10, <1>11
    DEF Condition!Next, Condition!WaitCall, Condition!Step

\* How a call of waitFor ends: with a condition that holds, under the lock that the
\* loop never gave up, or by taking the lock again.
LEMMA ConditionReturns ==
  ASSUME ConditionIInv, [Condition!Next]_condition, NEW a \in Agents, Condition!Returns(a)
  PROVE  /\ phase'[a] = "holding"
         /\ cond[a] /\ result'[a] # "timed-out" => ready'
  <1> USE DEF ConditionIInv, Condition!TypeOK, Condition!Returns, Condition!Goto
  <1>1. ASSUME NEW b \in Agents, Condition!LockMutex(b) PROVE FALSE
    BY <1>1 DEF Condition!LockMutex
  <1>2. ASSUME NEW b \in Agents, Condition!UnlockMutex(b) PROVE FALSE
    BY <1>2 DEF Condition!UnlockMutex
  <1>3. ASSUME NEW b \in Agents, Condition!Produce(b) PROVE FALSE
    BY <1>3 DEF Condition!Produce
  <1>4. ASSUME NEW b \in Agents, NEW c \in BOOLEAN, NEW t \in Condition!Timeouts,
               Condition!WaitFor(b, c, t)
        PROVE  FALSE
    BY <1>4 DEF Condition!WaitFor
  <1>5. ASSUME NEW b \in Agents, Condition!Check(b)
        PROVE  /\ phase'[a] = "holding"
               /\ cond[a] /\ result'[a] # "timed-out" => ready'
    BY <1>5 DEF Condition!Check
  <1>6. ASSUME NEW b \in Agents, Condition!Sleep(b) PROVE FALSE
    BY <1>6 DEF Condition!Sleep
  <1>7. ASSUME NEW b \in Agents, Condition!Relock(b)
        PROVE  /\ phase'[a] = "holding"
               /\ cond[a] /\ result'[a] # "timed-out" => ready'
    BY <1>7 DEF Condition!Relock, Condition!Lock!Grant
  <1>8. ASSUME NEW b \in Agents, Condition!TimeOut(b) PROVE FALSE
    BY <1>8 DEF Condition!TimeOut
  <1>9. ASSUME NEW b \in Agents, Condition!NotifyOne(b) PROVE FALSE
    BY <1>9 DEF Condition!NotifyOne, Condition!Wake, Condition!Sleepers
  <1>10. ASSUME NEW b \in Agents, Condition!NotifyAll(b) PROVE FALSE
    BY <1>10 DEF Condition!NotifyAll, Condition!Wake, Condition!Sleepers
  <1>11. CASE UNCHANGED condition
    BY <1>11 DEF condition
  <1> QED
    BY <1>1, <1>2, <1>3, <1>4, <1>5, <1>6, <1>7, <1>8, <1>9, <1>10, <1>11
    DEF Condition!Next, Condition!WaitCall, Condition!Step

-----------------------------------------------------------------------------
(* The objects together *)

\* A step of one object leaves the others alone.
LEMMA OneObjectSteps ==
  ASSUME [ThreadingNext]_all
  PROVE  /\ [Next]_vars /\ [AutoReset!Next]_auto /\ [Condition!Next]_condition
         /\ object = "manual" => [Manual!Next]_manual
         /\ object = "countdown" => [Countdown!Next]_<<manual, countdown>>
         /\ object' = object
  BY DEF ThreadingNext, all, Used, MutexUsed, AutoUsed, ManualUsed, CountdownUsed, ConditionUsed

ThreadingIInv == /\ IInv /\ NoLostWakeup /\ AutoIInv /\ ConditionIInv
                 /\ object = "manual" => ManualIInv
                 /\ object = "countdown" => CountdownIInv

LEMMA ThreadingInvariance == ThreadingSpec => []ThreadingIInv
  <1>1. ThreadingInit => ThreadingIInv
    <2>1. Init => NoLostWakeup
      BY DEF Init, NoLostWakeup, Sleepers
    <2> QED
      BY <2>1, InitIInv, AutoInit, ManualInit, CountdownInit, ConditionInit
      DEF ThreadingInit, ThreadingIInv
  <1>2. ThreadingIInv /\ [ThreadingNext]_all => ThreadingIInv'
    BY OneObjectSteps, StepIInv, WakeupStep, AutoStep, ManualStep, CountdownStep, ConditionStep
    DEF ThreadingIInv
  <1> QED
    BY <1>1, <1>2, PTL DEF ThreadingSpec

\* Every word, flag and program point of the five objects stays within its type, the
\* word of a mutex says whether it is taken, and who waits has given up the lock.
THEOREM AllTypesCorrect == ThreadingSpec => []AllTypeOK
  <1>1. ThreadingIInv => AllTypeOK
    BY DEF ThreadingIInv, AllTypeOK, IInv, AutoIInv, ConditionIInv, ManualIInv, CountdownIInv
  <1> QED
    BY <1>1, ThreadingInvariance, PTL

\* Every successful set() is matched by one release or one reset(), or is pending.
THEOREM Conservation == ThreadingSpec => []SignalConserved
  <1>1. AutoIInv => SignalConserved
    BY DEF AutoIInv, Conserved, Pending, SignalConserved, AutoReset!SignalConserved
  <1> QED
    BY <1>1, ThreadingInvariance, PTL DEF ThreadingIInv

\* At most one agent is between the steps of AutoResetEvent.set().
THEOREM SettersExclude == ThreadingSpec => []AutoReset!OneSetter
  BY ThreadingInvariance, PTL DEF ThreadingIInv, AutoIInv

\* No thread sleeps while the auto-reset event is signaled.
THEOREM SleepersSeeSignals == ThreadingSpec => []NobodySleepsSignaled
  BY ThreadingInvariance, PTL DEF ThreadingIInv, AutoIInv, NobodySleepsSignaled

\* A thread that sleeps on a signaled manual-reset event is about to be notified.
THEOREM NobodyIsStranded == ThreadingSpec => []ManualNobodyStranded
  <1>1. ThreadingIInv => ManualNobodyStranded
    BY DEF ThreadingIInv, ManualIInv, ManualNobodyStranded
  <1> QED
    BY <1>1, ThreadingInvariance, PTL

\* Between calls the countdown is signaled exactly at zero, and one signal() at most
\* is told that it was the last.
THEOREM CountdownIsExact == ThreadingSpec => []CountdownExact
  <1>1. CountdownIInv => Countdown!SignaledAtZero /\ Countdown!OneSignalWins
    BY DEF CountdownIInv, Countdown!TypeOK, Countdown!SignaledAtZero, Countdown!Quiet, SignaledAtZeroOnceStored, Stored
  <1>2. ThreadingIInv => CountdownExact
    BY <1>1 DEF ThreadingIInv, CountdownExact
  <1> QED
    BY <1>2, ThreadingInvariance, PTL

\* However waitFor ends, its caller has the lock again.
THEOREM WaitReturnsLocked == ThreadingSpec => ReturnsWithLock
  <1>1. ConditionIInv /\ [Condition!Next]_condition
           => [\A a \in Agents : Condition!Returns(a) => phase'[a] = "holding"]_condition
    BY ConditionReturns
  <1>2. ThreadingIInv /\ [ThreadingNext]_all
           => [\A a \in Agents : Condition!Returns(a) => phase'[a] = "holding"]_condition
    BY <1>1, OneObjectSteps DEF ThreadingIInv
  <1> QED
    BY <1>2, ThreadingInvariance, PTL
    DEF ThreadingSpec, ReturnsWithLock, Condition!ReturnsWithLock, Condition!vars, condition

\* A call with a condition returns true only while the condition holds.
THEOREM WaitTellsTruth == ThreadingSpec => TrueMeansCondition
  <1>1. ConditionIInv /\ [Condition!Next]_condition
           => [\A a \in Agents :
                 Condition!Returns(a) /\ cond[a] /\ result'[a] # "timed-out" => ready']_condition
    BY ConditionReturns
  <1>2. ThreadingIInv /\ [ThreadingNext]_all
           => [\A a \in Agents :
                 Condition!Returns(a) /\ cond[a] /\ result'[a] # "timed-out" => ready']_condition
    BY <1>1, OneObjectSteps DEF ThreadingIInv
  <1> QED
    BY <1>2, ThreadingInvariance, PTL
    DEF ThreadingSpec, TrueMeansCondition, Condition!TrueMeansCondition, Condition!vars, condition
=============================================================================
