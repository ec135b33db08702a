---------------------------- MODULE Disposables ----------------------------
(***************************************************************************)
(* The disposal protocol of @esfx/disposable (internal/utils.ts): dispose  *)
(* capabilities, to which resources are added, and DisposeResources, which *)
(* disposes of them in reverse order.  Stacks and scopes own capabilities. *)
(* A dispose method is code of the client: while one runs, or while its    *)
(* result is awaited, every other call may come.                           *)
(***************************************************************************)
EXTENDS SequencesExt, Integers

CONSTANTS
    Stacks, Scopes,     \* DisposableStack objects and the contexts of scope()
    Nulls, Plain,       \* resources: null or undefined, objects without a dispose method,
    Disposable,         \* and objects, or callbacks of adopt() and defer(), that have one
    MaxResources        \* bound: resources added to one capability

VARIABLES
    async,          \* the hint is "async-dispose"
    state,          \* state[o]: of a stack "pending" or "disposed", of a scope "initialized" or "done"
    capability,     \* capability[o]: the capability that o owns
    entries,        \* entries[c]: disposableResourceStack, ~empty~ once thrown[c] is known
    runs,           \* the calls of DisposeResources under way, the innermost last
    failure,        \* failure[o]: throwCompletion of a scope; <<>> is none
    order,          \* history: the resources of c whose dispose method was called
    failed,         \* history: those of them whose dispose method failed
    thrown          \* history: what the disposal of c threw; <<>> is nothing

disposableVars == <<async, state, capability, entries, runs, failure, order, failed, thrown>>

Owners == Stacks \cup Scopes
Resources == Nulls \cup Plain \cup Disposable

\* An error is a list: a SuppressedError of `error` and `suppressed` is the latter's
\* list with `error` appended.
Body == "body"
Running == <<"running">>

Init == /\ async \in BOOLEAN
        /\ state = [o \in Owners |-> "none"]
        /\ capability = [o \in Owners |-> o]
        /\ entries = [o \in Owners |-> <<>>]
        /\ runs = <<>>
        /\ failure = [o \in Owners |-> <<>>]
        /\ order = [o \in Owners |-> <<>>]
        /\ failed = [o \in Owners |-> <<>>]
        /\ thrown = [o \in Owners |-> Running]

Mark(o, s) == state' = [state EXCEPT ![o] = s]

\* A capability is as new as its owner.
NewDisposeCapability(o) == state[o] = "none"

-----------------------------------------------------------------------------
\* What GetDisposeMethod finds.  An object of Plain makes it throw; with the async hint
\* it gets a closure instead, which throws when it is called.
HasDisposeMethod(r) == async \/ r \notin Plain

\* null and undefined are skipped, or with the async hint kept, to be awaited.
AddDisposableResource(c, r) ==
    /\ thrown[c] = Running /\ HasDisposeMethod(r)
    /\ Len(entries[c]) < MaxResources
    /\ entries' = [entries EXCEPT ![c] = IF r \in Nulls /\ ~async THEN @ ELSE Append(@, r)]

\* How the dispose method of r may end.
Fails(r) == IF r \in Nulls THEN {FALSE} ELSE IF r \in Plain THEN {TRUE} ELSE BOOLEAN

\* The loop of DisposeResources comes to resource i of c: it calls the method, or it is
\* over at 0 and throws what has been collected.
Visit(c, i) ==
    IF i = 0 THEN UNCHANGED order
    ELSE order' = [order EXCEPT ![c] = Append(@, entries[c][i])]

Run(c, i, completion) == [capability |-> c, index |-> i, completion |-> completion]

\* DisposeResources is called, with the completion that a scope was left with.
DisposeResources(c, completion) ==
    /\ Visit(c, Len(entries[c]))
    /\ IF entries[c] = <<>>
       THEN thrown' = [thrown EXCEPT ![c] = completion] /\ UNCHANGED runs
       ELSE runs' = Append(runs, Run(c, Len(entries[c]), completion)) /\ UNCHANGED thrown

\* Mutant of Completion: the first error stays.
CompletionFirst(run, error) == IF run.completion = <<>> THEN error ELSE run.completion

\* The errors so far and this one, which suppresses them.
Completion(run, error) == run.completion \o error

\* A sync disposal that started inside another one ends before it.
Current(n) == async \/ n = Len(runs)

\* The dispose method that disposal n has called is over, with the async hint the
\* promise it returned too, and the loop goes on to the resource before.
Dispose(n, fails) ==
    LET run == runs[n]
        r == entries[run.capability][run.index]
        completion == Completion(run, IF fails THEN <<r>> ELSE <<>>)
        next == run.index - 1
    IN /\ Current(n)
       /\ Visit(run.capability, next)
       /\ failed' = IF fails THEN [failed EXCEPT ![run.capability] = Append(@, r)] ELSE failed
       /\ IF next = 0
          THEN /\ runs' = RemoveAt(runs, n)
               /\ thrown' = [thrown EXCEPT ![run.capability] = completion]
          ELSE /\ runs' = [runs EXCEPT ![n] = Run(run.capability, next, completion)]
               /\ UNCHANGED thrown
       /\ UNCHANGED <<state, capability, entries, failure>>

DisposeStep ==
    \E n \in DOMAIN runs :
       \E fails \in Fails(entries[runs[n].capability][runs[n].index]) : Dispose(n, fails)

-----------------------------------------------------------------------------
(* CreateScope: the context behind `for (const { using, fail } of scope())`. *)

CreateScope(s) ==
    /\ NewDisposeCapability(s)
    /\ Mark(s, "initialized")
    /\ UNCHANGED <<capability, entries, runs, failure, order, failed, thrown>>

Using(s, r) ==
    /\ state[s] = "initialized"
    /\ AddDisposableResource(capability[s], r)
    /\ UNCHANGED <<state, capability, runs, failure, order, failed, thrown>>

Fail(s) ==
    /\ state[s] = "initialized"
    /\ failure' = [failure EXCEPT ![s] = <<Body>>]
    /\ UNCHANGED <<state, capability, entries, runs, order, failed, thrown>>

-----------------------------------------------------------------------------
(* DisposableStack and Disposable.scope(): clients, among them the dispose  *)
(* methods that a disposal calls.                                          *)

Construct(s) ==
    /\ NewDisposeCapability(s)
    /\ Mark(s, "pending")
    /\ UNCHANGED <<capability, entries, runs, failure, order, failed, thrown>>

\* dispose(): once; the stack is disposed before the first method runs.
DisposeStack(s) ==
    /\ state[s] = "pending"
    /\ Mark(s, "disposed")
    /\ DisposeResources(capability[s], <<>>)
    /\ UNCHANGED <<capability, entries, failure, failed>>

\* use(value); on a disposed stack it throws.
Use(s, r) ==
    /\ state[s] = "pending"
    /\ AddDisposableResource(capability[s], r)
    /\ UNCHANGED <<state, capability, runs, failure, order, failed, thrown>>

\* adopt(value, onDispose): the callback is the resource, whatever the value.
Adopt(s, r) == r \in Disposable /\ Use(s, r)

\* defer(onDispose)
Defer(s, r) == r \in Disposable /\ Use(s, r)

\* Mutant of Move: the old stack keeps its resources as well.
MoveShares(s, t) ==
    /\ state[s] = "pending" /\ NewDisposeCapability(t)
    /\ state' = [state EXCEPT ![t] = "pending"]
    /\ capability' = [capability EXCEPT ![t] = capability[s]]
    /\ UNCHANGED <<entries, runs, failure, order, failed, thrown>>

\* move(): a new stack t gets the capability; s is disposed and left with an empty one.
Move(s, t) ==
    /\ state[s] = "pending" /\ NewDisposeCapability(t)
    /\ state' = [state EXCEPT ![s] = "disposed", ![t] = "pending"]
    /\ capability' = [capability EXCEPT ![s] = t, ![t] = capability[s]]
    /\ UNCHANGED <<entries, runs, failure, order, failed, thrown>>

\* scope(): the body of the for-of statement ends, whatever way, and the generator's
\* finally block disposes of the resources.
EndScope(s) ==
    /\ state[s] = "initialized"
    /\ Mark(s, "done")
    /\ DisposeResources(capability[s], failure[s])
    /\ UNCHANGED <<capability, entries, failure, failed>>

StackNext ==
    \E s \in Stacks : \/ Construct(s) \/ DisposeStack(s)
                      \/ \E r \in Resources : Use(s, r) \/ Adopt(s, r) \/ Defer(s, r)
                      \/ \E t \in Stacks : Move(s, t)

ScopeNext ==
    \E s \in Scopes : \/ CreateScope(s) \/ Fail(s) \/ EndScope(s)
                      \/ \E r \in Resources : Using(s, r)

-----------------------------------------------------------------------------
(* AsyncDisposableStack and AsyncDisposable.scope().  Disposals await what  *)
(* the dispose methods return: any number may be under way, and all other  *)
(* calls come in between.                                                  *)

ConstructAsync(s) == Construct(s)

\* disposeAsync(): a second call returns at once, though the first may still go on.
DisposeAsync(s) == DisposeStack(s)

\* use(value): null and undefined too, and objects that turn out to have no method.
UseAsync(s, r) == Use(s, r)

\* adopt(value, onDisposeAsync) and defer(onDisposeAsync)
AdoptAsync(s, r) == r \in Disposable /\ UseAsync(s, r)
DeferAsync(s, r) == r \in Disposable /\ UseAsync(s, r)

MoveAsync(s, t) == Move(s, t)

\* scope(): the finally block of the generator, after the body of the `for await`.
EndAsyncScope(s) == EndScope(s)

AsyncStackNext ==
    \E s \in Stacks : \/ ConstructAsync(s) \/ DisposeAsync(s)
                      \/ \E r \in Resources : UseAsync(s, r) \/ AdoptAsync(s, r) \/ DeferAsync(s, r)
                      \/ \E t \in Stacks : MoveAsync(s, t)

AsyncScopeNext ==
    \E s \in Scopes : \/ CreateScope(s) \/ Fail(s) \/ EndAsyncScope(s)
                      \/ \E r \in Resources : Using(s, r)

Next == /\ UNCHANGED async
        /\ \/ ~async /\ (StackNext \/ ScopeNext)
           \/ async /\ (AsyncStackNext \/ AsyncScopeNext)
           \/ DisposeStep

Spec == Init /\ [][Next]_disposableVars

-----------------------------------------------------------------------------
Disposing(c) == \E n \in DOMAIN runs : runs[n].capability = c

TypeOK ==
    /\ state \in [Owners -> {"none", "pending", "disposed", "initialized", "done"}]
    /\ capability \in [Owners -> Owners]
    /\ entries \in [Owners -> Seq(Resources)]
    /\ \A n \in DOMAIN runs : runs[n].index \in DOMAIN entries[runs[n].capability]
    /\ failure \in [Owners -> {<<>>, <<Body>>}]

\* Whoever may still be disposed of.
Live(o) == state[o] \in {"pending", "initialized"}

\* Every resource has one owner to answer for it: its capability belongs to one stack or
\* scope that can be disposed of, or its disposal is under way or over.  No sequence of
\* move(), dispose() and calls out of dispose methods leaks a resource or shares it.
OneOwner ==
    /\ \A c \in Owners :
          entries[c] # <<>> /\ thrown[c] = Running /\ ~Disposing(c) =>
             \E o \in Owners : Live(o) /\ capability[o] = c
    /\ \A o \in Owners : Live(o) =>
          /\ ~Disposing(capability[o]) /\ thrown[capability[o]] = Running
          /\ \A p \in Owners : Live(p) /\ capability[p] = capability[o] => p = o

\* The index to which a disposal of c has come.
Reached(c) == IF thrown[c] # Running THEN 1
              ELSE IF Disposing(c)
                   THEN runs[CHOOSE n \in DOMAIN runs : runs[n].capability = c].index
                   ELSE Len(entries[c]) + 1

\* However disposals nest or interleave, the dispose methods of a capability are called
\* from the last added back to the first, each once, those after a failed one too; and
\* what is thrown in the end is made of all their errors, suppressing the body's.
DisposedAsAdded ==
    \A c \in Owners :
       /\ order[c] = Reverse(SubSeq(entries[c], Reached(c), Len(entries[c])))
       /\ thrown[c] # Running => thrown[c] = failure[c] \o failed[c]
=============================================================================
