----------------------- MODULE AbstractReadersWriter -----------------------
(***************************************************************************)
(* What a readers-writer lock promises: who holds it to write holds it     *)
(* alone, and one upgradeable reader at most holds it to read.             *)
(***************************************************************************)
CONSTANTS
    Readers,          \* the clients that read
    Upgradeables,     \* those that read and keep the right to write later
    Writers           \* the clients that write

Clients == Readers \cup Upgradeables \cup Writers

VARIABLE phase    \* phase[c]: what client c is doing with the lock

Holding(S) == {c \in S : phase[c] = "holding"}

Init == phase = [c \in Clients |-> "out"]

Become(c, p) == phase' = [phase EXCEPT ![c] = p]

Ask(c) == phase[c] = "out" /\ Become(c, "waiting")

GrantRead(r) == /\ Holding(Writers) = {}
                /\ r \in Upgradeables => Holding(Upgradeables) = {}
                /\ phase[r] # "holding" /\ Become(r, "holding")

GrantWrite(w) == /\ Holding(Clients) = {}
                 /\ Become(w, "holding")

\* A request ends without the lock, or the lock is let go.
Leave(c) == phase[c] # "out" /\ Become(c, "out")

Next == \/ \E c \in Clients : Ask(c) \/ Leave(c)
        \/ \E r \in Readers \cup Upgradeables : GrantRead(r)
        \/ \E w \in Writers : GrantWrite(w)

Spec == Init /\ [][Next]_phase
=============================================================================
