----------------------------- MODULE Semaphore -----------------------------
(***************************************************************************)
(* @esfx/threading-semaphore: a counting semaphore over four shared words, *)
(* the first of which is a futex lock for the other three.  One action is  *)
(* one Atomics operation with the agent-local code up to the next one; the *)
(* body of a locked section is one action, as the lock is meant to make it.*)
(***************************************************************************)
EXTENDS Integers

CONSTANTS Agents, MaxCount

VARIABLES
    state,     \* array[SEM_FIELD_STATE]
    count,     \* array[SEM_FIELD_CURRENTCOUNT]
    waiting,   \* array[SEM_FIELD_WAITCOUNT]
    pc,        \* pc[a]: the Atomics operation that a executes next
    then,      \* then[a]: where a goes on once it has the lock
    after      \* after[a]: where a goes on once it has released the lock

vars == <<state, count, waiting, pc, then, after>>

-----------------------------------------------------------------------------
SEM_ID == 1048576                        \* 1 << 20
SEM_STATE_UNLOCKED == SEM_ID
SEM_STATE_LOCKED == SEM_ID + 1
SEM_STATE_INCONTENTION == SEM_ID + 2

\* A new Semaphore(initialCount, maxCount), constructed over the words of a's buffer.
Init == /\ state = SEM_STATE_INCONTENTION
        /\ count \in 0 .. MaxCount
        /\ waiting = 0
        /\ pc = [a \in Agents |-> "idle"]
        /\ then = [a \in Agents |-> "idle"]
        /\ after = [a \in Agents |-> "idle"]

Goto(a, label) == pc' = [pc EXCEPT ![a] = label]

-----------------------------------------------------------------------------
(* function lock(array) *)

\* The first compareExchange, INCONTENTION -> LOCKED.
LockFast(a) ==
    /\ pc[a] = "lock"
    /\ IF state = SEM_STATE_INCONTENTION
       THEN state' = SEM_STATE_LOCKED /\ Goto(a, then[a])
       ELSE Goto(a, "mark") /\ UNCHANGED state
    /\ UNCHANGED <<count, waiting, then, after>>

\* compareExchange LOCKED -> INCONTENTION
LockMark(a) ==
    /\ pc[a] = "mark"
    /\ state' = IF state = SEM_STATE_LOCKED THEN SEM_STATE_INCONTENTION ELSE state
    /\ Goto(a, IF state = SEM_STATE_INCONTENTION THEN "take" ELSE "waitLock")
    /\ UNCHANGED <<count, waiting, then, after>>

\* Atomics.wait(array, SEM_FIELD_STATE, INCONTENTION)
LockWait(a) ==
    /\ pc[a] = "waitLock"
    /\ Goto(a, IF state = SEM_STATE_INCONTENTION THEN "sleepLock" ELSE "take")
    /\ UNCHANGED <<state, count, waiting, then, after>>

\* The loop's compareExchange, INCONTENTION -> INCONTENTION.
LockTake(a) ==
    /\ pc[a] = "take"
    /\ Goto(a, IF state = SEM_STATE_INCONTENTION THEN then[a] ELSE "mark")
    /\ UNCHANGED <<state, count, waiting, then, after>>

-----------------------------------------------------------------------------
(* function unlock(array) *)

UnlockSub(a) ==
    /\ pc[a] = "unlock"
    /\ state' = state - 1
    /\ Goto(a, IF state = SEM_STATE_LOCKED THEN after[a] ELSE "store")
    /\ UNCHANGED <<count, waiting, then, after>>

UnlockStore(a) ==
    /\ pc[a] = "store"
    /\ state' = SEM_STATE_INCONTENTION
    /\ Goto(a, "notifyLock")
    /\ UNCHANGED <<count, waiting, then, after>>

LockSleepers == {a \in Agents : pc[a] = "sleepLock"}

UnlockNotify(a) ==
    /\ pc[a] = "notifyLock"
    /\ \/ LockSleepers = {} /\ Goto(a, after[a])
       \/ \E b \in LockSleepers : pc' = [pc EXCEPT ![a] = after[a], ![b] = "take"]
    /\ UNCHANGED <<state, count, waiting, then, after>>

-----------------------------------------------------------------------------
(* wait(ms) *)

\* lock(array), with what follows once the lock is taken.
CallLocked(a, label) ==
    /\ pc[a] = "idle"
    /\ then' = [then EXCEPT ![a] = label]
    /\ Goto(a, "lock")
    /\ UNCHANGED <<state, count, waiting, after>>

WaitCall(a) == CallLocked(a, "enter")

\* The first test of the loop, after the waiter has counted itself.
Enter(a) ==
    /\ pc[a] = "enter"
    /\ IF count > 0
       THEN /\ count' = count - 1 /\ UNCHANGED waiting
            /\ after' = [after EXCEPT ![a] = "idle"]
       ELSE /\ waiting' = waiting + 1 /\ UNCHANGED count
            /\ after' = [after EXCEPT ![a] = "waitCount"]
    /\ Goto(a, "unlock")
    /\ UNCHANGED <<state, then>>

\* Atomics.wait(array, SEM_FIELD_CURRENTCOUNT, c) with c = 0, then lock(array).
WaitCount(a) ==
    /\ pc[a] = "waitCount"
    /\ then' = [then EXCEPT ![a] = "retry"]
    /\ Goto(a, IF count = 0 THEN "sleepCount" ELSE "lock")
    /\ UNCHANGED <<state, count, waiting, after>>

\* The wait of a call with a limit is over: it takes the lock to leave.
TimeOut(a) ==
    /\ pc[a] = "sleepCount"
    /\ then' = [then EXCEPT ![a] = "giveUp"]
    /\ Goto(a, "lock")
    /\ UNCHANGED <<state, count, waiting, after>>

GiveUp(a) ==
    /\ pc[a] = "giveUp"
    /\ waiting' = waiting - 1
    /\ after' = [after EXCEPT ![a] = "idle"]
    /\ Goto(a, "unlock")
    /\ UNCHANGED <<state, count, then>>

\* The loop's test again, with the lock.
Retry(a) ==
    /\ pc[a] = "retry"
    /\ IF count > 0
       THEN /\ count' = count - 1 /\ waiting' = waiting - 1
            /\ after' = [after EXCEPT ![a] = "idle"]
       ELSE /\ after' = [after EXCEPT ![a] = "waitCount"]
            /\ UNCHANGED <<count, waiting>>
    /\ Goto(a, "unlock")
    /\ UNCHANGED <<state, then>>

-----------------------------------------------------------------------------
(* release(count) *)

ReleaseCall(a) == CallLocked(a, "release")

\* "Semaphore is full." leaves the count as it is.  The notification names the word
\* WAITCOUNT, on which nobody sleeps, so it wakes nobody.
Release(a) ==
    /\ pc[a] = "release"
    /\ \E n \in 1 .. MaxCount :
          count' = IF MaxCount - count < n THEN count ELSE count + n
    /\ after' = [after EXCEPT ![a] = "idle"]
    /\ Goto(a, "unlock")
    /\ UNCHANGED <<state, waiting, then>>

-----------------------------------------------------------------------------
Step(a) == \/ LockFast(a) \/ LockMark(a) \/ LockWait(a) \/ LockTake(a)
           \/ UnlockSub(a) \/ UnlockStore(a) \/ UnlockNotify(a)
           \/ Enter(a) \/ WaitCount(a) \/ Retry(a) \/ GiveUp(a) \/ Release(a)

Next == \E a \in Agents : WaitCall(a) \/ ReleaseCall(a) \/ Step(a) \/ TimeOut(a)

\* Agents keep running.
Fairness == \A a \in Agents : WF_vars(Step(a))

Spec == Init /\ [][Next]_vars

FairSpec == Spec /\ Fairness

-----------------------------------------------------------------------------

\* release() returns: "Exits the semaphore the provided number of times".
ReleaseReturns == \A a \in Agents : (pc[a] = "lock" /\ then[a] = "release") ~> pc[a] = "idle"
=============================================================================
