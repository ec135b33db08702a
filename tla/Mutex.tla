------------------------------- MODULE Mutex -------------------------------
(***************************************************************************)
(* @esfx/threading-mutex: a futex mutex over one Int32 word of a           *)
(* SharedArrayBuffer.  Every agent (thread) has a Mutex object of its own  *)
(* over the same word.  One action is one Atomics operation together with  *)
(* the agent-local code that follows it up to the next one.                *)
(***************************************************************************)
EXTENDS Integers

CONSTANT Agents

VARIABLES
    state,     \* the shared word array[MUTEX_FIELD_STATE]
    open,      \* open[a]: a's Mutex object has its array (kArray)
    owns,      \* owns[a]: kOwnsLock of a's Mutex object
    pc,        \* pc[a]: the Atomics operation that a executes next
    timeout    \* timeout[a]: what is left of the time given to a's lock call

vars == <<state, open, owns, pc, timeout>>

-----------------------------------------------------------------------------
MUTEX_ID == 262144                       \* 1 << 18
MUTEX_STATE_UNLOCKED == MUTEX_ID
MUTEX_STATE_LOCKED == MUTEX_ID + 1
MUTEX_STATE_INCONTENTION == MUTEX_ID + 2

\* A word of a fresh SharedArrayBuffer is 0.
Words == {0, MUTEX_STATE_UNLOCKED, MUTEX_STATE_LOCKED, MUTEX_STATE_INCONTENTION}

\* The clock is abstracted to whether the call has time left.
Timeouts == {"infinite", "left", "expired"}

\* What `timeout` may be once it is computed again from the clock.
Later(t) == IF t = "infinite" THEN {t} ELSE {t, "expired"}

Init == /\ state = 0
        /\ open = [a \in Agents |-> FALSE]
        /\ owns = [a \in Agents |-> FALSE]
        /\ pc = [a \in Agents |-> "idle"]
        /\ timeout = [a \in Agents |-> "infinite"]

Goto(a, label) == pc' = [pc EXCEPT ![a] = label]

\* Mutant of Construct: a plain store in place of the compareExchange.
ConstructStores(a) ==
    /\ pc[a] = "idle" /\ ~open[a]
    /\ state' = MUTEX_STATE_UNLOCKED
    /\ open' = [open EXCEPT ![a] = TRUE]
    /\ UNCHANGED <<owns, pc, timeout>>

\* new Mutex(buffer): the first object to see the zeroed word initializes it.
Construct(a) ==
    /\ pc[a] = "idle" /\ ~open[a]
    /\ state' = IF state = 0 THEN MUTEX_STATE_UNLOCKED ELSE state
    /\ open' = [open EXCEPT ![a] = TRUE]
    /\ UNCHANGED <<owns, pc, timeout>>

-----------------------------------------------------------------------------
(* lock(ms) *)

Acquire(a, word) ==
    /\ state' = word
    /\ owns' = [owns EXCEPT ![a] = TRUE]
    /\ Goto(a, "idle")

\* The word says INCONTENTION: give up when the time is over, else sleep.
Contended(t) == IF t = "expired" THEN "idle" ELSE "wait"

\* Where the loop goes with c, the word a failed compareExchange returned.
Retry(c, t) == IF c = MUTEX_STATE_INCONTENTION THEN Contended(t) ELSE "mark"

\* The call and its first compareExchange, UNLOCKED -> LOCKED.
Lock(a, t) ==
    /\ pc[a] = "idle" /\ open[a] /\ ~owns[a]
    /\ timeout' = [timeout EXCEPT ![a] = t]
    /\ \/ /\ state = MUTEX_STATE_UNLOCKED
          /\ Acquire(a, MUTEX_STATE_LOCKED)
       \/ /\ state # MUTEX_STATE_UNLOCKED
          /\ Goto(a, Retry(state, t))
          /\ UNCHANGED <<state, owns>>
    /\ UNCHANGED open

\* compareExchange LOCKED -> INCONTENTION: ask the holder for a notification.
Mark(a) ==
    /\ pc[a] = "mark"
    /\ state' = IF state = MUTEX_STATE_LOCKED THEN MUTEX_STATE_INCONTENTION ELSE state
    /\ Goto(a, IF state = MUTEX_STATE_UNLOCKED THEN "take" ELSE Contended(timeout[a]))
    /\ UNCHANGED <<open, owns, timeout>>

\* Mutant of Wait: sleeps without comparing the word.
WaitBlindly(a) ==
    /\ pc[a] = "wait"
    /\ Goto(a, "sleep")
    /\ UNCHANGED <<state, open, owns, timeout>>

\* Atomics.wait: sleeps only if the word still is INCONTENTION ("not-equal").
Wait(a) ==
    /\ pc[a] = "wait"
    /\ \/ /\ state = MUTEX_STATE_INCONTENTION
          /\ Goto(a, "sleep")
          /\ UNCHANGED timeout
       \/ /\ state # MUTEX_STATE_INCONTENTION
          /\ Goto(a, "take")
          /\ \E t \in Later(timeout[a]) : timeout' = [timeout EXCEPT ![a] = t]
    /\ UNCHANGED <<state, open, owns>>

\* Atomics.wait returns "timed-out": lock returns false.
TimeOut(a) ==
    /\ pc[a] = "sleep" /\ timeout[a] # "infinite"
    /\ Goto(a, "idle")
    /\ timeout' = [timeout EXCEPT ![a] = "expired"]
    /\ UNCHANGED <<state, open, owns>>

\* Mutant of Take: whoever was woken believes that the lock was handed to it.
TakeUnchecked(a) ==
    /\ pc[a] = "take"
    /\ Acquire(a, MUTEX_STATE_INCONTENTION)
    /\ UNCHANGED <<open, timeout>>

\* Mutant of Take: takes the lock as LOCKED, as the fast path does.
TakeLocked(a) ==
    /\ pc[a] = "take"
    /\ \/ /\ state = MUTEX_STATE_UNLOCKED
          /\ Acquire(a, MUTEX_STATE_LOCKED)
       \/ /\ state # MUTEX_STATE_UNLOCKED
          /\ Goto(a, Retry(state, timeout[a]))
          /\ UNCHANGED <<state, owns>>
    /\ UNCHANGED <<open, timeout>>

\* The loop's compareExchange, UNLOCKED -> INCONTENTION: whoever slept takes the
\* lock as contended, since others may still be asleep.
Take(a) ==
    /\ pc[a] = "take"
    /\ \/ /\ state = MUTEX_STATE_UNLOCKED
          /\ Acquire(a, MUTEX_STATE_INCONTENTION)
       \/ /\ state # MUTEX_STATE_UNLOCKED
          /\ Goto(a, Retry(state, timeout[a]))
          /\ UNCHANGED <<state, owns>>
    /\ UNCHANGED <<open, timeout>>

-----------------------------------------------------------------------------
(* tryLock(), unlock(), close() *)

\* A failed tryLock changes nothing.
TryLock(a) ==
    /\ pc[a] = "idle" /\ open[a] /\ ~owns[a]
    /\ state = MUTEX_STATE_UNLOCKED
    /\ Acquire(a, MUTEX_STATE_LOCKED)
    /\ UNCHANGED <<open, timeout>>

\* Atomics.sub: from LOCKED it frees the word, from INCONTENTION it leaves LOCKED.
Sub(a) ==
    /\ state' = state - 1
    /\ \/ /\ state = MUTEX_STATE_LOCKED
          /\ owns' = [owns EXCEPT ![a] = FALSE]
          /\ UNCHANGED pc
       \/ /\ state # MUTEX_STATE_LOCKED
          /\ Goto(a, "store")
          /\ UNCHANGED owns

\* Mutant of Unlock: any object may unlock.
UnlockAnyone(a) ==
    /\ pc[a] = "idle" /\ open[a]
    /\ Sub(a)
    /\ UNCHANGED <<open, timeout>>

Unlock(a) ==
    /\ pc[a] = "idle" /\ open[a] /\ owns[a]
    /\ Sub(a)
    /\ UNCHANGED <<open, timeout>>

Store(a) ==
    /\ pc[a] = "store"
    /\ state' = MUTEX_STATE_UNLOCKED
    /\ Goto(a, "notify")
    /\ UNCHANGED <<open, owns, timeout>>

Sleepers == {a \in Agents : pc[a] = "sleep"}

\* Atomics.notify(array, 0, 1).  The language picks the longest sleeper; the
\* model lets it be any of them.
Notify(a) ==
    /\ pc[a] = "notify"
    /\ owns' = [owns EXCEPT ![a] = FALSE]
    /\ \/ /\ Sleepers = {}
          /\ Goto(a, "idle")
          /\ UNCHANGED timeout
       \/ \E b \in Sleepers :
             /\ pc' = [pc EXCEPT ![a] = "idle", ![b] = "take"]
             /\ \E t \in Later(timeout[b]) : timeout' = [timeout EXCEPT ![b] = t]
    /\ UNCHANGED <<state, open>>

\* close() and Symbol.dispose: unlock, if owned, then forget the array.  No other
\* agent sees the array of this object, so it is forgotten with the first step.
Close(a) ==
    /\ pc[a] = "idle" /\ open[a]
    /\ open' = [open EXCEPT ![a] = FALSE]
    /\ \/ owns[a] /\ Sub(a)
       \/ ~owns[a] /\ UNCHANGED <<state, owns, pc>>
    /\ UNCHANGED timeout

-----------------------------------------------------------------------------
\* The steps an agent inside a call has no say about.
Step(a) == Mark(a) \/ Wait(a) \/ Take(a) \/ Store(a) \/ Notify(a)

Call(a) == \/ \E t \in Timeouts : Lock(a, t)
           \/ TryLock(a)

Next == \E a \in Agents :
           Construct(a) \/ Call(a) \/ Step(a) \/ TimeOut(a) \/ Unlock(a) \/ Close(a)

\* Agents keep running, a finite wait ends, and whoever has the lock lets it go.
Fairness == \A a \in Agents : /\ WF_vars(Step(a))
                              /\ WF_vars(TimeOut(a))
                              /\ WF_vars(Unlock(a))

Spec == Init /\ [][Next]_vars

FairSpec == Spec /\ Fairness

-----------------------------------------------------------------------------
\* a has the lock: from the compareExchange that took it to the store (or the
\* sub of an uncontended unlock) that frees the word.
Holds(a) == owns[a] /\ pc[a] # "notify"

Held == \E a \in Agents : Holds(a)

\* Agents that will look at the word again before their call ends: each either
\* takes the lock as contended or marks it as contended.
Alert == {a \in Agents : pc[a] \in {"mark", "take"}}

TypeOK == /\ state \in Words
          /\ open \in [Agents -> BOOLEAN]
          /\ owns \in [Agents -> BOOLEAN]
          /\ pc \in [Agents -> {"idle", "mark", "wait", "sleep", "take", "store", "notify"}]
          /\ timeout \in [Agents -> Timeouts]

\* At most one agent has the lock, whatever the interleaving of fast path, slow
\* path, time-outs, barging tryLocks and the two-step contended unlock.
MutualExclusion == \A a, b \in Agents : Holds(a) /\ Holds(b) => a = b

\* The shared word and the agents' private flags agree: the word is locked exactly
\* while some object owns it, so a lock is never orphaned or free while owned.
WordMatchesOwner == (state \in {MUTEX_STATE_LOCKED, MUTEX_STATE_INCONTENTION}) <=> Held

\* No wakeup is lost: while somebody sleeps, the word asks its holder for a
\* notification, an unlock is under way that will notify, or an agent is awake
\* that takes the lock as contended or marks it.
NoLostWakeup ==
    Sleepers # {} => \/ state = MUTEX_STATE_INCONTENTION
                     \/ \E a \in Agents : pc[a] \in {"store", "notify"}
                     \/ Alert # {}

\* An agent's lock call is under way.
Asking(a) == pc[a] \in {"mark", "wait", "sleep", "take"}

LockPhase == [a \in Agents |-> IF Holds(a) THEN "holding"
                               ELSE IF Asking(a) THEN "asking" ELSE "out"]

Lockable == INSTANCE AbstractLock WITH Clients <- Agents, phase <- LockPhase

\* The mutex keeps the contract of Lockable: only a free lock is granted, and only
\* its holder releases it.
ImplementsLockable == Lockable!Spec

\* Once no new call is made, every lock() without a time limit takes the lock: a
\* finite number of barging callers cannot leave a sleeper behind.
LockWins ==
    <>[][\A a \in Agents : ~Call(a)]_vars =>
        \A a \in Agents : (Asking(a) /\ timeout[a] = "infinite") ~> owns[a]
=============================================================================
