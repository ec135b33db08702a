--------------------------- MODULE CountdownEvent ---------------------------
(***************************************************************************)
(* @esfx/threading-countdown: an event over three shared words that is     *)
(* signaled once all its participants have signaled.  One action is one    *)
(* Atomics operation with the agent-local code up to the next one; a       *)
(* load/compareExchange loop is one action, since a compareExchange that   *)
(* fails only starts the loop again.                                       *)
(***************************************************************************)
EXTENDS Integers

CONSTANTS
    Agents,
    MaxCount           \* the largest count (MAX_INT32 in the code)

VARIABLES
    state,       \* array[COUNTDOWN_FIELD_STATE]
    initial,     \* array[COUNTDOWN_FIELD_INITIALCOUNT]
    remaining,   \* array[COUNTDOWN_FIELD_REMAININGCOUNT]
    pc,          \* pc[a]: the Atomics operation that a executes next
    arg,         \* arg[a]: the count given to a's reset
    wins         \* history: signal() calls that will return true since the last reset

vars == <<state, initial, remaining, pc, arg, wins>>

-----------------------------------------------------------------------------
COUNTDOWN_ID == 2097152                  \* 1 << 21
COUNTDOWN_STATE_NONSIGNALED == COUNTDOWN_ID
COUNTDOWN_STATE_SIGNALED == COUNTDOWN_ID + 1

Counts == 1 .. MaxCount

Init == /\ state = 0 /\ initial = 0 /\ remaining = 0
        /\ pc = [a \in Agents |-> "closed"]
        /\ arg = [a \in Agents |-> 0]
        /\ wins = 0

Goto(a, label) == pc' = [pc EXCEPT ![a] = label]

\* new CountdownEvent(buffer): a zeroed buffer becomes a signaled event of count 0.
Construct(a) ==
    /\ pc[a] = "closed"
    /\ state' = IF state = 0 THEN COUNTDOWN_STATE_SIGNALED ELSE state
    /\ Goto(a, "idle")
    /\ UNCHANGED <<initial, remaining, arg, wins>>

\* new CountdownEvent(initialCount) allocates one word; the constructor's second
\* compareExchange is out of its bounds and throws, so that no object comes out.
ConstructCount(a) ==
    /\ pc[a] = "closed"
    /\ Goto(a, "threw")
    /\ UNCHANGED <<state, initial, remaining, arg, wins>>

Close(a) == /\ pc[a] = "idle"
            /\ Goto(a, "closed")
            /\ UNCHANGED <<state, initial, remaining, arg, wins>>

Sleepers == {a \in Agents : pc[a] = "sleep"}

-----------------------------------------------------------------------------
(* tryAdd(count), and add(count), which throws where tryAdd returns false *)

TryAdd(a, n) ==
    /\ pc[a] = "idle" /\ remaining > 0 /\ remaining <= MaxCount - n
    /\ remaining' = remaining + n
    /\ UNCHANGED <<state, initial, pc, arg, wins>>

-----------------------------------------------------------------------------
(* signal(count) *)

\* The caller that takes the count to zero signals the event.
Signal(a, n) ==
    /\ pc[a] = "idle" /\ remaining >= n
    /\ remaining' = remaining - n
    /\ IF remaining = n THEN /\ Goto(a, "signalState")
                             /\ wins' = wins + 1
                        ELSE UNCHANGED <<pc, wins>>
    /\ UNCHANGED <<state, initial, arg>>

\* compareExchange NONSIGNALED -> SIGNALED; who did it notifies.
SignalState(a) ==
    /\ pc[a] = "signalState"
    /\ state' = COUNTDOWN_STATE_SIGNALED
    /\ Goto(a, IF state = COUNTDOWN_STATE_NONSIGNALED THEN "notify" ELSE "idle")
    /\ UNCHANGED <<initial, remaining, arg, wins>>

\* Atomics.notify(array, 0, Infinity)
Notify(a) ==
    /\ pc[a] = "notify"
    /\ pc' = [b \in Agents |-> IF b \in Sleepers \cup {a} THEN "idle" ELSE pc[b]]
    /\ UNCHANGED <<state, initial, remaining, arg, wins>>

-----------------------------------------------------------------------------
(* reset(count) *)

\* Nobody is inside signal or reset.
Quiet == \A b \in Agents : pc[b] \in {"closed", "threw", "idle", "wait", "sleep"}

\* A count that is left out is the initial count.  The three stores of a reset are
\* not one: clients call it only while nobody is inside add, signal or reset.
Reset(a, n) ==
    /\ pc[a] = "idle" /\ Quiet
    /\ arg' = [arg EXCEPT ![a] = n]
    /\ remaining' = n
    /\ wins' = 0
    /\ Goto(a, "resetInitial")
    /\ UNCHANGED <<state, initial>>

ResetInitial(a) ==
    /\ pc[a] = "resetInitial"
    /\ initial' = arg[a]
    /\ Goto(a, "resetState")
    /\ UNCHANGED <<state, remaining, arg, wins>>

\* Mutant of ResetState: resetting to zero does not signal.
ResetStateNever(a) ==
    /\ pc[a] = "resetState"
    /\ state' = COUNTDOWN_STATE_NONSIGNALED
    /\ Goto(a, "idle")
    /\ arg' = [arg EXCEPT ![a] = 0]
    /\ UNCHANGED <<initial, remaining, wins>>

ResetState(a) ==
    /\ pc[a] = "resetState"
    /\ IF arg[a] = 0
       THEN /\ state' = COUNTDOWN_STATE_SIGNALED
            /\ Goto(a, IF state = COUNTDOWN_STATE_NONSIGNALED THEN "notify" ELSE "idle")
       ELSE /\ state' = COUNTDOWN_STATE_NONSIGNALED
            /\ Goto(a, "idle")
    /\ arg' = [arg EXCEPT ![a] = 0]
    /\ UNCHANGED <<initial, remaining, wins>>

-----------------------------------------------------------------------------
(* wait(ms) *)

\* this.isSet: a count of zero ends the call at once.
WaitCall(a) ==
    /\ pc[a] = "idle" /\ remaining > 0
    /\ Goto(a, "wait")
    /\ UNCHANGED <<state, initial, remaining, arg, wins>>

\* Atomics.wait sleeps while the state is NONSIGNALED, else the call returns true.
Wait(a) ==
    /\ pc[a] = "wait"
    /\ Goto(a, IF state = COUNTDOWN_STATE_NONSIGNALED THEN "sleep" ELSE "idle")
    /\ UNCHANGED <<state, initial, remaining, arg, wins>>

TimeOut(a) == /\ pc[a] = "sleep"
              /\ Goto(a, "idle")
              /\ UNCHANGED <<state, initial, remaining, arg, wins>>

-----------------------------------------------------------------------------
Step(a) == SignalState(a) \/ Notify(a) \/ ResetInitial(a) \/ ResetState(a) \/ Wait(a)

Resetting == \E a \in Agents : pc[a] \in {"resetInitial", "resetState"}

Call(a) == \/ /\ ~Resetting
              /\ \E n \in Counts : TryAdd(a, n) \/ Signal(a, n)
           \/ \E n \in Counts \cup {0} : Reset(a, n)
           \/ WaitCall(a)

Next == \E a \in Agents : \/ Construct(a) \/ ConstructCount(a) \/ Close(a)
                          \/ Call(a) \/ Step(a) \/ TimeOut(a)

\* Agents keep running; a wait need not have a limit, so none has to end by it.
Fairness == \A a \in Agents : WF_vars(Step(a))

Spec == Init /\ [][Next]_vars

FairSpec == Spec /\ Fairness

-----------------------------------------------------------------------------
TypeOK == /\ state \in {0, COUNTDOWN_STATE_NONSIGNALED, COUNTDOWN_STATE_SIGNALED}
          /\ initial \in 0 .. MaxCount /\ remaining \in 0 .. MaxCount
          /\ pc \in [Agents -> {"closed", "threw", "idle", "signalState", "notify", "resetInitial",
                                "resetState", "wait", "sleep"}]
          /\ arg \in [Agents -> 0 .. MaxCount]
          /\ wins \in Nat

\* Outside add, signal and reset the two words agree: the event is signaled exactly
\* while no participant remains.
SignaledAtZero ==
    Quiet /\ state # 0 => (state = COUNTDOWN_STATE_SIGNALED <=> remaining = 0)

\* Of all the racing signal() calls one, and only one, is told that it was the last.
OneSignalWins == wins <= 1 /\ (remaining > 0 => wins = 0)

\* Once all participants have signaled, a thread that waits gets through, unless the
\* event is reset in time.
ZeroReleases ==
    \A a \in Agents : (pc[a] \in {"wait", "sleep"} /\ remaining = 0)
                         ~> (pc[a] \notin {"wait", "sleep"} \/ remaining > 0)
=============================================================================
