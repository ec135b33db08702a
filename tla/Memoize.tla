------------------------------ MODULE Memoize -------------------------------
(***************************************************************************)
(* memoize() of @esfx/fn and its DefaultMemoizeCache: a function that      *)
(* remembers its result for each list of arguments.  The factory is code   *)
(* of the client: it may call the function, with the same arguments too,   *)
(* and clear the cache.  The entry of a call is found once, before the     *)
(* factory runs, and holds its node weakly: when the cache was cleared     *)
(* since, the node may be collected or not.                                *)
(***************************************************************************)
EXTENDS Naturals, Sequences

CONSTANTS Arguments,     \* lists of arguments; each has a node of its own
          MaxDepth, MaxClears

VARIABLES
    results,      \* of each list of arguments: what the node of the root keeps
    clears,       \* how often the cache was cleared
    evaluations,  \* the calls whose factory runs, the innermost last
    evaluated,    \* history: the lists the factory ran for since the last clear()
    answers       \* history: what callers got since then, outside the evaluation of the same

memoVars == <<results, clears, evaluations, evaluated, answers>>

None == [status |-> "none", made |-> 0]

\* The reason of circularResult is read once: the entry keeps an error.
Circular == [status |-> "circular", made |-> 0]

Results == {None, Circular} \cup
           [status : {"fulfilled", "rejected"}, made : 0 .. MaxClears]

\* new DefaultMemoizeCache()
Empty == [args \in Arguments |-> None]

Init == /\ results = Empty /\ clears = 0 /\ evaluations = <<>>
        /\ evaluated = <<>> /\ answers = {}

\* The factory runs for these arguments, and its result will be kept.
Evaluates(args) == \E n \in DOMAIN evaluations : evaluations[n] = [args |-> args, made |-> clears]

\* evaluate(): the result is kept, an error of the factory or of recursion too, ...
Answer(args) ==
    /\ results[args] # None
    /\ answers' = IF Evaluates(args) THEN answers ELSE answers \cup {<<args, results[args]>>}
    /\ UNCHANGED <<results, clears, evaluations, evaluated>>

\* ... or the factory runs, ...
Start(args) ==
    /\ results[args] = None
    /\ Len(evaluations) < MaxDepth
    /\ results' = [results EXCEPT ![args] = Circular]
    /\ evaluations' = Append(evaluations, [args |-> args, made |-> clears])
    /\ evaluated' = Append(evaluated, args)
    /\ UNCHANGED <<clears, answers>>

\* ... and what it returned or threw is kept, in the node that the entry was made for.  Of
\* a cache that was cleared since that node may be gone: the caller gets an error instead.
Finish ==
    /\ evaluations # <<>>
    /\ LET last == evaluations[Len(evaluations)]
       IN \E status \in {"fulfilled", "rejected"} :
             LET result == [status |-> status, made |-> last.made]
             IN IF last.made = clears
                THEN /\ results' = [results EXCEPT ![last.args] = result]
                     /\ answers' = answers \cup {<<last.args, result>>}
                ELSE UNCHANGED <<results, answers>>
    /\ evaluations' = SubSeq(evaluations, 1, Len(evaluations) - 1)
    /\ UNCHANGED <<clears, evaluated>>

\* cache.clear(): a new root and a new handle.
Clear ==
    /\ clears < MaxClears
    /\ clears' = clears + 1
    /\ results' = Empty
    /\ evaluated' = <<>> /\ answers' = {}
    /\ UNCHANGED evaluations

Next == (\E args \in Arguments : Answer(args) \/ Start(args)) \/ Finish \/ Clear

Spec == Init /\ [][Next]_memoVars

TypeOK == /\ results \in [Arguments -> Results]
          /\ \A args \in Arguments : results[args] = Circular <=> Evaluates(args)

\* "An invocation for a memoized function will only evaluate once for the same argument
\* list" (fn/src/memoize.ts:72) until the cache is cleared, whatever the factory calls; all
\* callers get the same, and none gets what was made before the cache was cleared.
MemoizedOnce ==
    /\ \A m, n \in DOMAIN evaluated : evaluated[m] = evaluated[n] => m = n
    /\ \A x, y \in answers : x[1] = y[1] => x[2] = y[2]
    /\ \A x \in answers : x[2].status # "circular" /\ x[2].made = clears
=============================================================================
