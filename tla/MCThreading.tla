---------------------------- MODULE MCThreading ----------------------------
(***************************************************************************)
(* Small instances of the synchronization objects of the threading         *)
(* packages.  One behaviour is about one of them; the variables of the     *)
(* others keep their initial values.                                       *)
(***************************************************************************)
EXTENDS Mutex

CONSTANT MaxCount

\* MAX_INT32 in the code.
ASSUME MaxCountAssumption == MaxCount \in Nat

VARIABLES
    object,                                    \* what this behaviour is about
    autoWord, autoPc, autoTime, credit,        \* AutoResetEvent
    word, at,                                  \* ManualResetEvent, CountdownEvent
    initial, remaining, arg, wins,             \* CountdownEvent
    phase, ready, due, inside, cond, limit, result  \* ConditionVariable

auto == <<autoWord, autoPc, autoTime, credit>>
manual == <<word, at>>
countdown == <<initial, remaining, arg, wins>>
condition == <<phase, ready, due, inside, cond, limit, result>>
all == <<object, vars, auto, manual, countdown, condition>>

AutoReset == INSTANCE AutoResetEvent WITH state <- autoWord, pc <- autoPc, timeout <- autoTime
Manual == INSTANCE ManualResetEvent WITH state <- word, pc <- at
Countdown == INSTANCE CountdownEvent WITH state <- word, pc <- at
Condition == INSTANCE ConditionVariable WITH pc <- inside, timeout <- limit

Used(name) == object = name /\ UNCHANGED object
MutexUsed == Used("mutex") /\ UNCHANGED <<auto, manual, countdown, condition>>
AutoUsed == Used("auto") /\ UNCHANGED <<vars, manual, countdown, condition>>
ManualUsed == Used("manual") /\ UNCHANGED <<vars, auto, countdown, condition>>
CountdownUsed == Used("countdown") /\ UNCHANGED <<vars, auto, condition>>
\* One of the agents changes the condition and notifies, and never waits.
Notifier == CHOOSE a \in Agents : TRUE
ConditionUsed == Used("condition") /\ UNCHANGED <<vars, auto, manual, countdown>>

ThreadingInit ==
    /\ object \in {"mutex", "auto", "manual", "countdown", "condition"}
    /\ Init /\ AutoReset!Init /\ Manual!Init /\ Countdown!Init /\ Condition!Init

ThreadingNext == \/ MutexUsed /\ Next
                 \/ AutoUsed /\ AutoReset!Next
                 \/ ManualUsed /\ Manual!Next
                 \/ CountdownUsed /\ Countdown!Next
                 \/ ConditionUsed /\ Condition!Next /\ inside'[Notifier] = "run"

\* The fairness of the object that is used.
ThreadingFairness ==
    \A a \in Agents :
        /\ WF_all(MutexUsed /\ Step(a)) /\ WF_all(MutexUsed /\ TimeOut(a))
        /\ WF_all(MutexUsed /\ Unlock(a))
        /\ WF_all(AutoUsed /\ AutoReset!Step(a)) /\ WF_all(AutoUsed /\ AutoReset!TimeOut(a))
        /\ WF_all(ManualUsed /\ Manual!Step(a))
        /\ WF_all(CountdownUsed /\ Countdown!Step(a))

ThreadingSpec == ThreadingInit /\ [][ThreadingNext]_all /\ ThreadingFairness

-----------------------------------------------------------------------------
\* The types; the word of a mutex says whether it is taken, and who waits on a condition
\* variable has given up the lock.
AllTypeOK == /\ TypeOK /\ WordMatchesOwner
             /\ AutoReset!TypeOK /\ Condition!TypeOK /\ Condition!WaitersLetGo
             /\ object = "manual" => Manual!TypeOK
             /\ object = "countdown" => Countdown!TypeOK

\* A set() releases one thread, no more and no fewer (AutoResetEvent.SignalConserved).
SignalConserved == AutoReset!SignalConserved

\* Nobody sleeps while the event is signaled (AutoResetEvent.NobodySleepsSignaled).
NobodySleepsSignaled == AutoReset!NobodySleepsSignaled

\* A thread that sleeps on a signaled manual-reset event is about to be woken,
\* however sets, resets and new waiters interleave (ManualResetEvent.NobodyStranded).
ManualNobodyStranded == object = "manual" => Manual!NobodyStranded

\* Between calls the countdown is signaled exactly at zero, and one of the racing
\* signal() calls is the last (CountdownEvent.SignaledAtZero, OneSignalWins).
CountdownExact == object = "countdown" => Countdown!SignaledAtZero /\ Countdown!OneSignalWins

\* A pending signal is taken, if somebody waits (AutoResetEvent.SignalReaches), and at zero
\* every waiter of a countdown gets through (CountdownEvent.ZeroReleases).
SignalsRelease == AutoReset!SignalReaches /\ (object = "countdown" => Countdown!ZeroReleases)

\* wait() gives the lock back, however it ends (ConditionVariable.ReturnsWithLock).
ReturnsWithLock == Condition!ReturnsWithLock

\* wait() with a condition tells the truth (ConditionVariable.TrueMeansCondition).
TrueMeansCondition == Condition!TrueMeansCondition
=============================================================================
