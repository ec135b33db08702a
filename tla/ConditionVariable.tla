------------------------- MODULE ConditionVariable -------------------------
(***************************************************************************)
(* @esfx/threading-conditionvariable, with a Lockable that keeps the       *)
(* contract of AbstractLock (module Mutex shows that the futex mutex does) *)
(* and one condition over data guarded by that lock.                       *)
(***************************************************************************)
EXTENDS Naturals

CONSTANT Agents

VARIABLES
    phase,     \* the Lockable, as AbstractLock sees it
    ready,     \* the condition that waiters may pass, over guarded data
    due,       \* the condition became true and nobody has notified since
    pc,        \* where each agent is in waitFor ("run": not in it)
    cond,      \* cond[a]: a's call has a condition
    timeout,   \* timeout[a]: what is left of the time given to a's call
    result     \* result[a]: what the last Atomics.wait of a's call returned

vars == <<phase, ready, due, pc, cond, timeout, result>>

Lock == INSTANCE AbstractLock WITH Clients <- Agents

-----------------------------------------------------------------------------
Timeouts == {"infinite", "left", "expired"}

\* What `timeout` may be once it is computed again from the clock.
Later(t) == IF t = "infinite" THEN {t} ELSE {t, "expired"}

Init == /\ Lock!Init
        /\ ready = FALSE /\ due = FALSE
        /\ pc = [a \in Agents |-> "run"]
        /\ cond = [a \in Agents |-> FALSE]
        /\ timeout = [a \in Agents |-> "infinite"]
        /\ result = [a \in Agents |-> "none"]

Goto(a, label) == pc' = [pc EXCEPT ![a] = label]

-----------------------------------------------------------------------------
(* What the agents do around the condition variable. *)

LockMutex(a) == /\ pc[a] = "run" /\ Lock!Grant(a)
                /\ UNCHANGED <<ready, due, pc, cond, timeout, result>>

UnlockMutex(a) == /\ pc[a] = "run" /\ Lock!Release(a)
                  /\ UNCHANGED <<ready, due, pc, cond, timeout, result>>

\* The guarded data changes under the lock; who makes the condition true owes a
\* notification.
Produce(a) == /\ pc[a] = "run" /\ phase[a] = "holding"
              /\ ready' = ~ready
              /\ due' = ~ready
              /\ UNCHANGED <<phase, pc, cond, timeout, result>>

-----------------------------------------------------------------------------
(* wait(mutex, condition) and waitFor(mutex, ms, condition) *)

WaitFor(a, c, t) ==
    /\ pc[a] = "run" /\ phase[a] = "holding"
    /\ cond' = [cond EXCEPT ![a] = c]
    /\ timeout' = [timeout EXCEPT ![a] = t]
    /\ result' = [result EXCEPT ![a] = "none"]
    /\ Goto(a, "check")
    /\ UNCHANGED <<phase, ready, due>>

\* Mutant of Check: an `if` in place of the `while`, the condition is read once.
CheckOnce(a) ==
    /\ pc[a] = "check"
    /\ \/ /\ cond[a] /\ (ready \/ result[a] = "ok")
          /\ Goto(a, "run")
          /\ UNCHANGED phase
       \/ /\ ~(cond[a] /\ (ready \/ result[a] = "ok"))
          /\ Lock!Release(a)
          /\ Goto(a, "unlocked")
    /\ UNCHANGED <<ready, due, cond, timeout, result>>

\* The loop's head: a condition that holds ends the call, else the lock goes.
Check(a) ==
    /\ pc[a] = "check"
    /\ \/ /\ cond[a] /\ ready
          /\ Goto(a, "run")
          /\ UNCHANGED phase
       \/ /\ ~(cond[a] /\ ready)
          /\ Lock!Release(a)
          /\ Goto(a, "unlocked")
    /\ UNCHANGED <<ready, due, cond, timeout, result>>

\* Atomics.wait on a word that never changes sleeps whatever was notified before.
Sleep(a) ==
    /\ pc[a] = "unlocked"
    /\ \/ /\ timeout[a] # "expired"
          /\ Goto(a, "sleep")
          /\ UNCHANGED result
       \/ /\ timeout[a] = "expired"
          /\ Goto(a, "relock")
          /\ result' = [result EXCEPT ![a] = "timed-out"]
    /\ UNCHANGED <<phase, ready, due, cond, timeout>>

TimeOut(a) ==
    /\ pc[a] = "sleep" /\ timeout[a] # "infinite"
    /\ Goto(a, "relock")
    /\ result' = [result EXCEPT ![a] = "timed-out"]
    /\ UNCHANGED <<phase, ready, due, cond, timeout>>

\* Mutant of Relock: returns from a time-out without the lock.
RelockUnlessTimedOut(a) ==
    /\ pc[a] = "relock"
    /\ \/ result[a] = "timed-out" /\ UNCHANGED phase
       \/ result[a] # "timed-out" /\ Lock!Grant(a)
    /\ \/ /\ result[a] = "timed-out" \/ ~cond[a]
          /\ Goto(a, "run")
          /\ UNCHANGED timeout
       \/ /\ result[a] = "ok" /\ cond[a]
          /\ Goto(a, "check")
          /\ \E t \in Later(timeout[a]) : timeout' = [timeout EXCEPT ![a] = t]
    /\ UNCHANGED <<ready, due, cond, result>>

\* mutex.lock() has no limit: a call that timed out takes the lock too.
Relock(a) ==
    /\ pc[a] = "relock"
    /\ Lock!Grant(a)
    /\ \/ /\ result[a] = "timed-out" \/ ~cond[a]
          /\ Goto(a, "run")
          /\ UNCHANGED timeout
       \/ /\ result[a] = "ok" /\ cond[a]
          /\ Goto(a, "check")
          /\ \E t \in Later(timeout[a]) : timeout' = [timeout EXCEPT ![a] = t]
    /\ UNCHANGED <<ready, due, cond, result>>

-----------------------------------------------------------------------------
(* notifyOne() and notifyAll() *)

Sleepers == {a \in Agents : pc[a] = "sleep"}

Wake(S) == /\ pc' = [b \in Agents |-> IF b \in S THEN "relock" ELSE pc[b]]
           /\ result' = [b \in Agents |-> IF b \in S THEN "ok" ELSE result[b]]
           /\ due' = FALSE
           /\ UNCHANGED <<phase, ready, cond, timeout>>

\* The language wakes the longest sleeper; the model lets it be any of them.
NotifyOne(a) == /\ pc[a] = "run"
                /\ \/ Sleepers = {} /\ Wake({})
                   \/ \E b \in Sleepers : Wake({b})

NotifyAll(a) == pc[a] = "run" /\ Wake(Sleepers)

-----------------------------------------------------------------------------
Step(a) == Check(a) \/ Sleep(a) \/ Relock(a)

WaitCall(a) == \E c \in BOOLEAN, t \in Timeouts : WaitFor(a, c, t)

Next == \E a \in Agents : \/ LockMutex(a) \/ UnlockMutex(a) \/ Produce(a)
                          \/ WaitCall(a) \/ Step(a) \/ TimeOut(a)
                          \/ NotifyOne(a) \/ NotifyAll(a)

\* Agents keep running, release the lock they hold, and notify when they owe it.
Fairness == \A a \in Agents : /\ WF_vars(Step(a))
                              /\ WF_vars(TimeOut(a))
                              /\ WF_vars(UnlockMutex(a))
                              /\ WF_vars(due /\ NotifyAll(a))

Spec == Init /\ [][Next]_vars

FairSpec == Spec /\ Fairness

-----------------------------------------------------------------------------
\* The types, and that a condition is tested under the lock only.
TypeOK == /\ phase \in [Agents -> Lock!Phases]
          /\ ready \in BOOLEAN /\ due \in BOOLEAN
          /\ pc \in [Agents -> {"run", "check", "unlocked", "sleep", "relock"}]
          /\ cond \in [Agents -> BOOLEAN]
          /\ timeout \in [Agents -> Timeouts]
          /\ result \in [Agents -> {"none", "ok", "timed-out"}]
          /\ \A a \in Agents : pc[a] = "check" => phase[a] = "holding"

\* The call of a returns in this step.
Returns(a) == pc[a] # "run" /\ pc'[a] = "run"

\* However it ends, waitFor gives the caller back the lock that it came with.
ReturnsWithLock == [][\A a \in Agents : Returns(a) => phase'[a] = "holding"]_vars

\* waitFor with a condition returns true only while the condition holds: nobody
\* makes it false between the last test and the return.
TrueMeansCondition ==
    [][\A a \in Agents :
          Returns(a) /\ cond[a] /\ result'[a] # "timed-out" => ready']_vars

\* An agent inside waitFor that gave up the lock or sleeps does not hold it, so a
\* notifier can take it: waiting never blocks the notification it waits for.
WaitersLetGo ==
    \A a \in Agents : pc[a] \in {"unlocked", "sleep", "relock"} => phase[a] # "holding"

\* From some time on nobody takes the lock from outside the condition variable.
LockersStop == <>[][\A a \in Agents : ~LockMutex(a) /\ ~WaitCall(a)]_vars

\* The README's use of wait: an agent that waits for a condition that has become
\* true and stays so leaves waitFor, as whoever makes it true then notifies.
WaitEndsOnceReady ==
    LockersStop /\ <>[]ready =>
        \A a \in Agents : (pc[a] # "run" /\ cond[a]) ~> pc[a] = "run"
=============================================================================
