---------------------------- MODULE AbstractLock ----------------------------
(***************************************************************************)
(* What the Lockable contract promises (threading-lockable,                *)
(* async-lockable): a client asks for the lock, is granted it while nobody *)
(* else has it or gives up, and only the client that has it lets it go.    *)
(***************************************************************************)
CONSTANT Clients

VARIABLE phase    \* phase[c]: what client c is doing with the lock

Phases == {"out", "asking", "holding"}

Free == \A c \in Clients : phase[c] # "holding"

Init == phase = [c \in Clients |-> "out"]

\* lock(): the request is made, nothing is granted yet.
Ask(c) == /\ phase[c] = "out"
          /\ phase' = [phase EXCEPT ![c] = "asking"]

\* The lock is taken, at once (tryLock, or a lock() that finds it free) or
\* after asking, and only while nobody has it.
Grant(c) == /\ phase[c] # "holding"
            /\ Free
            /\ phase' = [phase EXCEPT ![c] = "holding"]

\* lock() returns without the lock: it timed out or was canceled.
GiveUp(c) == /\ phase[c] = "asking"
             /\ phase' = [phase EXCEPT ![c] = "out"]

\* unlock() by the client that has the lock.
Release(c) == /\ phase[c] = "holding"
              /\ phase' = [phase EXCEPT ![c] = "out"]

Next == \E c \in Clients : Ask(c) \/ Grant(c) \/ GiveUp(c) \/ Release(c)

Spec == Init /\ [][Next]_phase
=============================================================================
