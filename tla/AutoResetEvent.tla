--------------------------- MODULE AutoResetEvent ---------------------------
(***************************************************************************)
(* @esfx/threading-autoresetevent: an event over one shared word that      *)
(* releases one waiting thread for every set().  One action is one Atomics *)
(* operation with the agent-local code up to the next one.                 *)
(***************************************************************************)
EXTENDS Integers

CONSTANT Agents

VARIABLES
    state,     \* the shared word array[AUTORESET_FIELD_STATE]
    pc,        \* pc[a]: the Atomics operation that a executes next
    timeout,   \* timeout[a]: what is left of the time given to a's waitOne
    credit     \* history: sets that succeeded, less the releases and resets

vars == <<state, pc, timeout, credit>>

-----------------------------------------------------------------------------
AUTORESET_ID == 131072                   \* 1 << 17
AUTORESET_STATE_NONSIGNALED == AUTORESET_ID
AUTORESET_STATE_NOTIFYING == AUTORESET_ID + 1
AUTORESET_STATE_SIGNALED == AUTORESET_ID + 3

States == {AUTORESET_STATE_NONSIGNALED, AUTORESET_STATE_NOTIFYING, AUTORESET_STATE_SIGNALED}

\* The sign of the milliseconds left is all the code looks at.
Timeouts == {"infinite", "left", "zero", "negative"}

Later(t) == CASE t = "infinite" -> {"infinite"}
              [] t = "left"     -> {"left", "zero", "negative"}
              [] OTHER          -> {"zero", "negative"}

Labels == {"closed", "idle", "wait", "sleep", "consume", "notify", "storeNonsignaled", "storeSignaled"}

Init == /\ state = 0
        /\ pc = [a \in Agents |-> "closed"]
        /\ timeout = [a \in Agents |-> "infinite"]
        /\ credit = 0

Goto(a, label) == pc' = [pc EXCEPT ![a] = label]

\* new AutoResetEvent(buffer): the first object over the word initializes it.
Construct(a) ==
    /\ pc[a] = "closed"
    /\ state' = IF state = 0 THEN AUTORESET_STATE_NONSIGNALED ELSE state
    /\ Goto(a, "idle")
    /\ UNCHANGED <<timeout, credit>>

Close(a) == /\ pc[a] = "idle"
            /\ Goto(a, "closed")
            /\ UNCHANGED <<state, timeout, credit>>

Sleepers == {a \in Agents : pc[a] = "sleep"}

-----------------------------------------------------------------------------
(* set() *)

\* Mutant of Set: the event is marked signaled at once.
SetSignaled(a) ==
    /\ pc[a] = "idle" /\ state = AUTORESET_STATE_NONSIGNALED
    /\ state' = AUTORESET_STATE_SIGNALED
    /\ credit' = credit + 1
    /\ Goto(a, "notify")
    /\ UNCHANGED timeout

\* compareExchange NONSIGNALED -> NOTIFYING.  If it fails, set() returns false and
\* changes nothing.
Set(a) ==
    /\ pc[a] = "idle" /\ state = AUTORESET_STATE_NONSIGNALED
    /\ state' = AUTORESET_STATE_NOTIFYING
    /\ credit' = credit + 1
    /\ Goto(a, "notify")
    /\ UNCHANGED timeout

\* Atomics.notify(array, 0, 1): whether it woke somebody decides what is stored.
\* The language wakes the longest sleeper; the model lets it be any of them.
Notify(a) ==
    /\ pc[a] = "notify"
    /\ \/ /\ Sleepers = {}
          /\ Goto(a, "storeSignaled")
          /\ UNCHANGED credit
       \/ \E b \in Sleepers :
             /\ pc' = [pc EXCEPT ![a] = "storeNonsignaled", ![b] = "idle"]
             /\ credit' = credit - 1
    /\ UNCHANGED <<state, timeout>>

\* Mutant of Store: the event is left signaled though a thread was released.
StoreAlwaysSignaled(a) ==
    /\ pc[a] \in {"storeNonsignaled", "storeSignaled"}
    /\ state' = AUTORESET_STATE_SIGNALED
    /\ Goto(a, "idle")
    /\ UNCHANGED <<timeout, credit>>

\* Mutant of Store: nothing is stored when no thread was released.
StoreForgotten(a) ==
    /\ pc[a] \in {"storeNonsignaled", "storeSignaled"}
    /\ state' = IF pc[a] = "storeSignaled" THEN state ELSE AUTORESET_STATE_NONSIGNALED
    /\ Goto(a, "idle")
    /\ UNCHANGED <<timeout, credit>>

Store(a) ==
    /\ pc[a] \in {"storeNonsignaled", "storeSignaled"}
    /\ state' = IF pc[a] = "storeSignaled" THEN AUTORESET_STATE_SIGNALED
                                           ELSE AUTORESET_STATE_NONSIGNALED
    /\ Goto(a, "idle")
    /\ UNCHANGED <<timeout, credit>>

\* reset(): compareExchange SIGNALED -> NONSIGNALED; a failed one changes nothing.
Reset(a) ==
    /\ pc[a] = "idle" /\ state = AUTORESET_STATE_SIGNALED
    /\ state' = AUTORESET_STATE_NONSIGNALED
    /\ credit' = credit - 1
    /\ UNCHANGED <<pc, timeout>>

-----------------------------------------------------------------------------
(* waitOne(ms) *)

WaitOne(a, t) == /\ pc[a] = "idle"
                 /\ timeout' = [timeout EXCEPT ![a] = t]
                 /\ Goto(a, "wait")
                 /\ UNCHANGED <<state, credit>>

\* Atomics.wait sleeps while the word is NONSIGNALED, else it is "not-equal".
Wait(a) ==
    /\ pc[a] = "wait"
    /\ Goto(a, IF state # AUTORESET_STATE_NONSIGNALED THEN "consume"
               ELSE IF timeout[a] = "zero" THEN "idle" ELSE "sleep")
    /\ UNCHANGED <<state, timeout, credit>>

TimeOut(a) == /\ pc[a] = "sleep" /\ timeout[a] # "infinite"
              /\ Goto(a, "idle")
              /\ UNCHANGED <<state, timeout, credit>>

\* compareExchange SIGNALED -> NONSIGNALED: one of the racing waiters gets the
\* signal; the others go round while there is time, spinning while a set() is
\* between its steps.
Consume(a) ==
    /\ pc[a] = "consume"
    /\ \/ /\ state = AUTORESET_STATE_SIGNALED
          /\ state' = AUTORESET_STATE_NONSIGNALED
          /\ credit' = credit - 1
          /\ Goto(a, "idle")
          /\ UNCHANGED timeout
       \/ /\ state # AUTORESET_STATE_SIGNALED
          /\ \E t \in Later(timeout[a]) :
                /\ timeout' = [timeout EXCEPT ![a] = t]
                /\ Goto(a, IF t = "negative" THEN "idle" ELSE "wait")
          /\ UNCHANGED <<state, credit>>

-----------------------------------------------------------------------------
Step(a) == Notify(a) \/ Store(a) \/ Wait(a) \/ Consume(a)

WaitCall(a) == \E t \in Timeouts \ {"negative"} : WaitOne(a, t)

Next == \E a \in Agents : \/ Construct(a) \/ Close(a) \/ Set(a) \/ Reset(a)
                          \/ WaitCall(a) \/ Step(a) \/ TimeOut(a)

\* Agents keep running and a finite wait ends.
Fairness == \A a \in Agents : WF_vars(Step(a)) /\ WF_vars(TimeOut(a))

Spec == Init /\ [][Next]_vars

FairSpec == Spec /\ Fairness

-----------------------------------------------------------------------------
Setting(a) == pc[a] \in {"notify", "storeNonsignaled", "storeSignaled"}

TypeOK == /\ state \in States \cup {0}
          /\ pc \in [Agents -> Labels]
          /\ timeout \in [Agents -> Timeouts]
          /\ credit \in {0, 1}

\* A successful set() releases exactly one thread, or is taken back by a reset(), or
\* is still pending: no signal is lost and none releases two threads.
SignalConserved ==
    credit = IF state = AUTORESET_STATE_SIGNALED
                \/ \E a \in Agents : pc[a] \in {"notify", "storeSignaled"}
             THEN 1 ELSE 0

\* set() is a critical section of its own: the word is NOTIFYING exactly while one
\* agent, and only one, is between the compareExchange and the store of set().
OneSetter ==
    /\ state = AUTORESET_STATE_NOTIFYING <=> \E a \in Agents : Setting(a)
    /\ \A a, b \in Agents : Setting(a) /\ Setting(b) => a = b

\* No thread sleeps through a signal: whenever the event is signaled, everybody who
\* waits is awake and will see it.
NobodySleepsSignaled == state = AUTORESET_STATE_SIGNALED => Sleepers = {}

\* While a set() is pending and some thread waits without limit, the signal does
\* not stay: a thread is released, or the signal is taken by somebody else.
SignalReaches ==
    \A a \in Agents :
       (credit = 1 /\ pc[a] \in {"wait", "sleep", "consume"} /\ timeout[a] = "infinite")
          ~> credit = 0
=============================================================================
