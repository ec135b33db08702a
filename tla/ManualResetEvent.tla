-------------------------- MODULE ManualResetEvent --------------------------
(***************************************************************************)
(* @esfx/threading-manualresetevent: an event over one shared word that    *)
(* lets every waiting thread pass until it is reset.  One action is one    *)
(* Atomics operation with the agent-local code up to the next one.         *)
(***************************************************************************)
EXTENDS Integers

CONSTANT Agents

VARIABLES
    state,     \* the shared word array[MANUALRESET_FIELD_STATE]
    pc         \* pc[a]: the Atomics operation that a executes next

vars == <<state, pc>>

-----------------------------------------------------------------------------
MANUALRESET_ID == 65536                  \* 1 << 16
MANUALRESET_STATE_NONSIGNALED == MANUALRESET_ID
MANUALRESET_STATE_SIGNALED == MANUALRESET_ID + 1

States == {MANUALRESET_STATE_NONSIGNALED, MANUALRESET_STATE_SIGNALED}

Init == /\ state = 0
        /\ pc = [a \in Agents |-> "closed"]

Goto(a, label) == pc' = [pc EXCEPT ![a] = label]

\* new ManualResetEvent(buffer): the first object over the word initializes it.
Construct(a) ==
    /\ pc[a] = "closed"
    /\ state' = IF state = 0 THEN MANUALRESET_STATE_NONSIGNALED ELSE state
    /\ Goto(a, "idle")

Close(a) == /\ pc[a] = "idle"
            /\ Goto(a, "closed")
            /\ UNCHANGED state

Sleepers == {a \in Agents : pc[a] = "sleep"}

\* compareExchange NONSIGNALED -> SIGNALED; a set() that fails changes nothing.
Set(a) ==
    /\ pc[a] = "idle" /\ state = MANUALRESET_STATE_NONSIGNALED
    /\ state' = MANUALRESET_STATE_SIGNALED
    /\ Goto(a, "notify")

\* Atomics.notify(array, 0, Infinity): everybody asleep by now is released.
Notify(a) ==
    /\ pc[a] = "notify"
    /\ pc' = [b \in Agents |-> IF b \in Sleepers \cup {a} THEN "idle" ELSE pc[b]]
    /\ UNCHANGED state

\* reset(): compareExchange SIGNALED -> NONSIGNALED; a failed one changes nothing.
Reset(a) ==
    /\ pc[a] = "idle" /\ state = MANUALRESET_STATE_SIGNALED
    /\ state' = MANUALRESET_STATE_NONSIGNALED
    /\ UNCHANGED pc

\* waitOne(ms) is called ...
WaitOne(a) ==
    /\ pc[a] = "idle"
    /\ Goto(a, "wait")
    /\ UNCHANGED state

\* Mutant of Wait: sleeps without comparing the word.
WaitBlindly(a) == /\ pc[a] = "wait"
                  /\ Goto(a, "sleep")
                  /\ UNCHANGED state

\* ... and its Atomics.wait sleeps while the word is NONSIGNALED, else returns.
Wait(a) ==
    /\ pc[a] = "wait"
    /\ Goto(a, IF state = MANUALRESET_STATE_NONSIGNALED THEN "sleep" ELSE "idle")
    /\ UNCHANGED state

TimeOut(a) == /\ pc[a] = "sleep"
              /\ Goto(a, "idle")
              /\ UNCHANGED state

-----------------------------------------------------------------------------
Step(a) == Notify(a) \/ Wait(a)

Next == \E a \in Agents : \/ Construct(a) \/ Close(a) \/ Set(a) \/ Reset(a)
                          \/ WaitOne(a) \/ Step(a) \/ TimeOut(a)

\* Agents keep running; a wait need not have a limit, so none has to end by it.
Fairness == \A a \in Agents : WF_vars(Step(a))

Spec == Init /\ [][Next]_vars

FairSpec == Spec /\ Fairness

-----------------------------------------------------------------------------
\* The types, and that whoever has an object has seen the word initialized.
TypeOK == /\ state \in States \cup {0}
          /\ pc \in [Agents -> {"closed", "idle", "wait", "sleep", "notify"}]
          /\ \A a \in Agents : pc[a] # "closed" => state # 0

\* Nobody is stranded: a thread that sleeps while the event is signaled is about to
\* be woken, however sets, resets and new waiters interleave.
NobodyStranded ==
    state = MANUALRESET_STATE_SIGNALED /\ Sleepers # {} =>
        \E a \in Agents : pc[a] = "notify"
=============================================================================
