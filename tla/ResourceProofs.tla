--------------------------- MODULE ResourceProofs ---------------------------
(***************************************************************************)
(* What MCResources checks on small instances holds for any stacks,        *)
(* resources, listeners, readers, delays, arguments and bounds: each of    *)
(* these objects has an inductive invariant of its own, and a step of      *)
(* AllNext is a step of the object that the behaviour is about.            *)
(***************************************************************************)
EXTENDS MCResources, CancelTokenProofs, SequenceTheorems, TLAPS

LEMMA Limits == /\ MaxResources \in Nat /\ MaxAdded \in Nat /\ MaxWraps \in Nat
                /\ MaxEmits \in Nat /\ MaxDepth \in Nat /\ MaxClears \in Nat
  BY LimitsAssumption

-----------------------------------------------------------------------------
(* Lazy and AsyncLazy *)

\* While the factory runs nobody has anything, and afterwards all have what is remembered.
LazyIInv ==
    /\ Lazy!TypeOK
    /\ running \in BOOLEAN /\ evaluations \in {0, 1}
    /\ seen \in [Readers -> {"nothing", "value", "error"}]
    /\ lazy = "factory" => ~running /\ evaluations = 0 /\ promise = "none"
    /\ lazy = "resolving" => running
    /\ running => evaluations = 1 /\ promise = "none" /\ \A r \in Readers : seen[r] = "nothing"
    /\ ~running => \A r \in Readers : seen[r] \in {"nothing", lazy}

LEMMA LazyStarts == Lazy!Init \/ Lazy!InitAsync => LazyIInv
  BY DEF Lazy!Init, Lazy!InitAsync, Lazy!Unread, Lazy!TypeOK, LazyIInv

LEMMA LazyPreserves ==
    LazyIInv /\ (Lazy!Next \/ Lazy!NextAsync \/ UNCHANGED lazies) => LazyIInv'
<1> SUFFICES ASSUME LazyIInv, Lazy!Next \/ Lazy!NextAsync \/ UNCHANGED lazies PROVE LazyIInv'
  OBVIOUS
<1> USE DEF LazyIInv, Lazy!TypeOK
<1>1. CASE Lazy!Start
  BY <1>1 DEF Lazy!Start
<1>2. CASE Lazy!Recurse
  BY <1>2 DEF Lazy!Recurse
<1>3. ASSUME NEW r \in Readers, Lazy!Finish(r)
      PROVE  LazyIInv'
  BY <1>3 DEF Lazy!Finish
<1>4. ASSUME NEW r \in Readers, Lazy!FinishAsync(r)
      PROVE  LazyIInv'
  BY <1>4 DEF Lazy!FinishAsync
<1>5. ASSUME NEW r \in Readers, Lazy!Read(r)
      PROVE  LazyIInv'
  BY <1>5 DEF Lazy!Read
<1>6. CASE Lazy!Settle
  BY <1>6 DEF Lazy!Settle
<1>7. CASE UNCHANGED lazies
  BY <1>7 DEF lazies
<1> QED BY <1>1, <1>2, <1>3, <1>4, <1>5, <1>6, <1>7 DEF Lazy!Next, Lazy!NextAsync, Lazy!StartAsync

-----------------------------------------------------------------------------
(* delay() of @esfx/async-delay *)

\* Only a signaled cancelable has anyone to notify, and it has no subscribers.
DelayIInv ==
    /\ Delay!TypeOK /\ Delay!NothingLeft
    /\ signaled \in BOOLEAN
    /\ delays \subseteq Delays /\ awaiting \subseteq Delays /\ notified \subseteq Delays
    /\ signaled => awaiting = {}
    /\ ~signaled => notified = {}

LEMMA DelayStarts == Delay!Init => DelayIInv
  BY DEF Delay!Init, DelayIInv, Delay!TypeOK, Delay!NothingLeft

LEMMA DelayPreserves == DelayIInv /\ (Delay!Next \/ UNCHANGED delay) => DelayIInv'
<1> SUFFICES ASSUME DelayIInv, Delay!Next \/ UNCHANGED delay PROVE DelayIInv'
  OBVIOUS
<1> USE DEF DelayIInv, Delay!TypeOK, Delay!NothingLeft, Delay!Settle
<1>1. CASE Delay!Signal
  BY <1>1 DEF Delay!Signal
<1>2. ASSUME NEW d \in Delays, Delay!Delay(d)
      PROVE  DelayIInv'
  BY <1>2 DEF Delay!Delay
<1>3. ASSUME NEW d \in Delays, Delay!Fire(d)
      PROVE  DelayIInv'
  BY <1>3 DEF Delay!Fire
<1>4. ASSUME NEW d \in Delays, Delay!Cancel(d)
      PROVE  DelayIInv'
  BY <1>4 DEF Delay!Cancel
<1>5. CASE UNCHANGED delay
  BY <1>5 DEF delay
<1> QED BY <1>1, <1>2, <1>3, <1>4, <1>5 DEF Delay!Next

-----------------------------------------------------------------------------
(* memoize() of @esfx/fn *)

MemoResults == [status : {"none", "circular", "fulfilled", "rejected"}, made : Nat]
MemoCalls == [args : Arguments, made : Nat]

\* A list whose factory runs for the present cache is kept as circular, and only such a
\* list; answers are what is kept, and it was made since the last clear().
MemoIInv ==
    /\ results \in [Arguments -> MemoResults] /\ clears \in Nat
    /\ evaluating \in Seq(MemoCalls)
    /\ evaluated \in Seq(Arguments)
    /\ answers \subseteq Arguments \X MemoResults
    /\ \A n \in DOMAIN evaluating : evaluating[n].made <= clears
    /\ \A m, n \in DOMAIN evaluating :
          evaluating[m] = evaluating[n] /\ evaluating[m].made = clears => m = n
    /\ \A args \in Arguments : results[args] = Memo!Circular <=> Memo!Evaluates(args)
    /\ \A args \in Arguments :
          results[args].status \in {"fulfilled", "rejected"} => results[args].made = clears
    /\ \A args \in Arguments : results[args].status = "none" => results[args] = Memo!None
    /\ \A args \in Arguments : results[args].status = "circular" => results[args] = Memo!Circular
    /\ \A m \in DOMAIN evaluated : results[evaluated[m]] # Memo!None
    /\ \A m, n \in DOMAIN evaluated : evaluated[m] = evaluated[n] => m = n
    /\ \A x \in answers :
          x[2] = results[x[1]] /\ x[2].status \in {"fulfilled", "rejected"}

LEMMA MemoStarts == Memo!Init => MemoIInv
<1> SUFFICES ASSUME Memo!Init PROVE MemoIInv
  OBVIOUS
<1>1. results = [args \in Arguments |-> Memo!None]
  BY DEF Memo!Init, Memo!Empty
<1>2. Memo!None \in MemoResults /\ Memo!None.status = "none" /\ Memo!None # Memo!Circular
  BY DEF Memo!None, Memo!Circular, MemoResults
<1>3. clears = 0 /\ evaluating = <<>> /\ evaluated = <<>> /\ answers = {}
  BY DEF Memo!Init
<1>4. \A args \in Arguments : ~Memo!Evaluates(args)
  BY <1>3 DEF Memo!Evaluates
<1> QED BY <1>1, <1>2, <1>3, <1>4 DEF MemoIInv

LEMMA MemoPreserves == MemoIInv /\ (Memo!Next \/ UNCHANGED memo) => MemoIInv'
<1> SUFFICES ASSUME MemoIInv, Memo!Next \/ UNCHANGED memo PROVE MemoIInv'
  OBVIOUS
<1>0. /\ Memo!None \in MemoResults /\ Memo!Circular \in MemoResults
      /\ Memo!None.status = "none" /\ Memo!Circular.status = "circular"
      /\ Memo!None # Memo!Circular
  BY DEF Memo!None, Memo!Circular, MemoResults
<1>1. ASSUME NEW args \in Arguments, Memo!Answer(args)
      PROVE  MemoIInv'
  <2>1. /\ results[args] # Memo!None
        /\ answers' = IF Memo!Evaluates(args) THEN answers ELSE answers \cup {<<args, results[args]>>}
        /\ UNCHANGED <<results, clears, evaluating, evaluated>>
    BY <1>1 DEF Memo!Answer
  <2>2. \A a \in Arguments : Memo!Evaluates(a)' <=> Memo!Evaluates(a)
    BY <2>1 DEF Memo!Evaluates
  <2>3. ~Memo!Evaluates(args) => results[args].status \in {"fulfilled", "rejected"}
    BY <2>1, <1>0 DEF MemoIInv, MemoResults
  <2>4. \A x \in answers' : x \in Arguments \X MemoResults
                            /\ x[2] = results[x[1]] /\ x[2].status \in {"fulfilled", "rejected"}
    <3>1. \A x \in answers : x \in Arguments \X MemoResults
                            /\ x[2] = results[x[1]] /\ x[2].status \in {"fulfilled", "rejected"}
      BY DEF MemoIInv
    <3>2. <<args, results[args]>> \in Arguments \X MemoResults
      BY DEF MemoIInv
    <3> QED BY <2>1, <2>3, <3>1, <3>2
  <2>5. answers' \subseteq Arguments \X MemoResults
    BY <2>4
  <2> QED BY <2>1, <2>2, <2>4, <2>5 DEF MemoIInv
<1>2. ASSUME NEW args \in Arguments, Memo!Start(args)
      PROVE  MemoIInv'
  <2> DEFINE call == [args |-> args, made |-> clears]
  <2>1. /\ results[args] = Memo!None
        /\ results' = [results EXCEPT ![args] = Memo!Circular]
        /\ evaluating' = Append(evaluating, call)
        /\ evaluated' = Append(evaluated, args)
        /\ UNCHANGED <<clears, answers>>
    BY <1>2 DEF Memo!Start
  <2>2. /\ call \in MemoCalls /\ call.args = args /\ call.made = clears
        /\ \A n \in DOMAIN evaluating : evaluating[n] # call
    <3>1. ~Memo!Evaluates(args)
      BY <2>1, <1>0 DEF MemoIInv
    <3> QED BY <3>1 DEF MemoIInv, MemoCalls, Memo!Evaluates
  <2>3. /\ evaluating' \in Seq(MemoCalls) /\ Len(evaluating') = Len(evaluating) + 1
        /\ Len(evaluating) \in Nat
        /\ DOMAIN evaluating = 1 .. Len(evaluating) /\ DOMAIN evaluating' = 1 .. Len(evaluating) + 1
        /\ \A n \in 1 .. Len(evaluating) : evaluating'[n] = evaluating[n]
        /\ evaluating'[Len(evaluating) + 1] = call
    BY <2>1, <2>2 DEF MemoIInv
  <2>4. /\ evaluated' \in Seq(Arguments) /\ Len(evaluated') = Len(evaluated) + 1
        /\ Len(evaluated) \in Nat
        /\ DOMAIN evaluated = 1 .. Len(evaluated) /\ DOMAIN evaluated' = 1 .. Len(evaluated) + 1
        /\ \A n \in 1 .. Len(evaluated) : evaluated'[n] = evaluated[n]
        /\ evaluated'[Len(evaluated) + 1] = args
    BY <2>1 DEF MemoIInv
  <2> HIDE DEF call
  <2>5. \A n \in DOMAIN evaluating' : evaluating'[n].made <= clears'
    BY <2>1, <2>2, <2>3 DEF MemoIInv
  <2>6. \A m, n \in DOMAIN evaluating' :
           evaluating'[m] = evaluating'[n] /\ evaluating'[m].made = clears' => m = n
    BY <2>1, <2>2, <2>3 DEF MemoIInv
  <2>7. \A a \in Arguments : Memo!Evaluates(a)' <=> Memo!Evaluates(a) \/ a = args
    BY <2>1, <2>3 DEF Memo!Evaluates, call
  <2>8. /\ results' \in [Arguments -> MemoResults] /\ results'[args] = Memo!Circular
        /\ \A a \in Arguments \ {args} : results'[a] = results[a]
    BY <2>1, <1>0 DEF MemoIInv
  <2>9. \A a \in Arguments : results'[a] = Memo!Circular <=> Memo!Evaluates(a)'
    BY <2>7, <2>8 DEF MemoIInv
  <2>10. \A a \in Arguments :
            /\ results'[a].status \in {"fulfilled", "rejected"} => results'[a].made = clears'
            /\ results'[a].status = "none" => results'[a] = Memo!None
            /\ results'[a].status = "circular" => results'[a] = Memo!Circular
    BY <2>1, <2>8, <1>0 DEF MemoIInv
  <2>11. \A m \in DOMAIN evaluated' : results'[evaluated'[m]] # Memo!None
    BY <2>4, <2>8, <1>0 DEF MemoIInv
  <2>12. \A m, n \in DOMAIN evaluated' : evaluated'[m] = evaluated'[n] => m = n
    <3>1. \A m \in DOMAIN evaluated : evaluated[m] # args
      BY <2>1 DEF MemoIInv
    <3> QED BY <2>4, <3>1 DEF MemoIInv
  <2>13. \A x \in answers' : x[2] = results'[x[1]] /\ x[2].status \in {"fulfilled", "rejected"}
    BY <2>1, <2>8, <1>0 DEF MemoIInv
  <2> QED BY <2>1, <2>3, <2>4, <2>5, <2>6, <2>8, <2>9, <2>10, <2>11, <2>12, <2>13 DEF MemoIInv
<1>3. CASE Memo!Finish
  <2> DEFINE last == evaluating[Len(evaluating)]
             n0 == Len(evaluating) - 1
  <2>1. /\ evaluating # <<>> /\ UNCHANGED <<clears, evaluated>>
        /\ evaluating' = SubSeq(evaluating, 1, Len(evaluating) - 1)
    BY <1>3 DEF Memo!Finish
  <2>2. /\ Len(evaluating) \in Nat \ {0} /\ DOMAIN evaluating = 1 .. Len(evaluating)
        /\ last \in MemoCalls /\ n0 \in Nat
        /\ evaluating' \in Seq(MemoCalls) /\ DOMAIN evaluating' = 1 .. n0
        /\ \A n \in 1 .. n0 : evaluating'[n] = evaluating[n]
    BY <2>1 DEF MemoIInv
  <2>3. last.args \in Arguments /\ last.made \in Nat /\ last = [args |-> last.args, made |-> last.made]
    BY <2>2 DEF MemoCalls
  <2>4. \A n \in DOMAIN evaluating' : n \in DOMAIN evaluating /\ evaluating'[n] = evaluating[n]
    BY <2>2
  <2>5. /\ \A n \in DOMAIN evaluating' : evaluating'[n].made <= clears'
        /\ \A m, n \in DOMAIN evaluating' :
              evaluating'[m] = evaluating'[n] /\ evaluating'[m].made = clears' => m = n
    <3>1. /\ \A n \in DOMAIN evaluating : evaluating[n].made <= clears
          /\ \A m, n \in DOMAIN evaluating :
                evaluating[m] = evaluating[n] /\ evaluating[m].made = clears => m = n
      BY DEF MemoIInv
    <3>2. clears' = clears
      BY <2>1
    <3>3. \A n \in DOMAIN evaluating' : evaluating'[n].made <= clears'
      BY <2>4, <3>1, <3>2
    <3>4. \A m, n \in DOMAIN evaluating' :
             evaluating'[m] = evaluating'[n] /\ evaluating'[m].made = clears' => m = n
      BY <2>4, <3>1, <3>2
    <3> QED BY <3>3, <3>4
  <2>6. CASE last.made # clears
    <3>1. UNCHANGED <<results, answers>>
      BY <1>3, <2>6 DEF Memo!Finish
    <3>2. \A a \in Arguments : Memo!Evaluates(a)' <=> Memo!Evaluates(a)
      <4>1. \A n \in DOMAIN evaluating : evaluating[n].made = clears => n \in DOMAIN evaluating'
        BY <2>2, <2>6
      <4> QED BY <2>1, <2>4, <4>1 DEF Memo!Evaluates
    <3> QED BY <2>1, <2>2, <2>5, <3>1, <3>2 DEF MemoIInv
  <2>7. CASE last.made = clears
    <3>1. PICK status \in {"fulfilled", "rejected"} :
             LET result == [status |-> status, made |-> last.made]
             IN /\ results' = [results EXCEPT ![last.args] = result]
                /\ answers' = answers \cup {<<last.args, result>>}
      BY <1>3, <2>7 DEF Memo!Finish
    <3> DEFINE result == [status |-> status, made |-> last.made]
               a0 == last.args
    <3>2. /\ results' = [results EXCEPT ![a0] = result]
          /\ answers' = answers \cup {<<a0, result>>}
          /\ result \in MemoResults /\ result.status \in {"fulfilled", "rejected"}
          /\ result.made = clears /\ a0 \in Arguments
      BY <3>1, <2>3, <2>7 DEF MemoResults
    <3>3. Memo!Evaluates(a0) /\ results[a0] = Memo!Circular
      <4>1. Len(evaluating) \in DOMAIN evaluating /\ last = [args |-> a0, made |-> clears]
        BY <2>2, <2>3, <2>7
      <4> QED BY <4>1, <2>3 DEF Memo!Evaluates, MemoIInv
    <3>4. \A a \in Arguments : Memo!Evaluates(a)' <=> Memo!Evaluates(a) /\ a # a0
      <4>1. \A n \in DOMAIN evaluating : evaluating[n] = last <=> n = Len(evaluating)
        <5>1. Len(evaluating) \in DOMAIN evaluating
          BY <2>2
        <5>2. last = evaluating[Len(evaluating)]
          OBVIOUS
        <5> HIDE DEF last
        <5> QED BY <5>1, <5>2, <2>7 DEF MemoIInv
      <4>2. last = [args |-> a0, made |-> clears]
        BY <2>3, <2>7
      <4>3. DOMAIN evaluating' = DOMAIN evaluating \ {Len(evaluating)}
        BY <2>2
      <4> HIDE DEF a0, last
      <4>4. ASSUME NEW a \in Arguments, Memo!Evaluates(a)' PROVE Memo!Evaluates(a) /\ a # a0
        <5>1. PICK n \in DOMAIN evaluating' : evaluating'[n] = [args |-> a, made |-> clears]
          BY <4>4, <2>1 DEF Memo!Evaluates
        <5>2. n \in DOMAIN evaluating /\ evaluating[n] = [args |-> a, made |-> clears] /\ n # Len(evaluating)
          BY <5>1, <2>4, <4>3
        <5>3. a # a0
          BY <5>2, <4>1, <4>2
        <5> QED BY <5>2, <5>3 DEF Memo!Evaluates
      <4>5. ASSUME NEW a \in Arguments, Memo!Evaluates(a), a # a0 PROVE Memo!Evaluates(a)'
        <5>1. PICK n \in DOMAIN evaluating : evaluating[n] = [args |-> a, made |-> clears]
          BY <4>5 DEF Memo!Evaluates
        <5>2. [args |-> a, made |-> clears].args = a /\ [args |-> a0, made |-> clears].args = a0
          OBVIOUS
        <5>3. evaluating[n] # last
          BY <5>1, <5>2, <4>2, <4>5
        <5>4. n \in DOMAIN evaluating'
          BY <5>3, <4>1, <4>3
        <5> QED BY <5>1, <5>4, <2>4, <2>1 DEF Memo!Evaluates
      <4> QED BY <4>4, <4>5
    <3> HIDE DEF result, a0, last
    <3>5. /\ results' \in [Arguments -> MemoResults] /\ results'[a0] = result
          /\ \A a \in Arguments \ {a0} : results'[a] = results[a]
      BY <3>2 DEF MemoIInv
    <3>6. result # Memo!Circular /\ result # Memo!None
      BY <3>2, <1>0
    <3>7. \A a \in Arguments : results'[a] = Memo!Circular <=> Memo!Evaluates(a)'
      BY <3>4, <3>5, <3>6 DEF MemoIInv
    <3>8. \A a \in Arguments :
            /\ results'[a].status \in {"fulfilled", "rejected"} => results'[a].made = clears'
            /\ results'[a].status = "none" => results'[a] = Memo!None
            /\ results'[a].status = "circular" => results'[a] = Memo!Circular
      BY <2>1, <3>2, <3>5 DEF MemoIInv
    <3>9. \A m \in DOMAIN evaluated' : results'[evaluated'[m]] # Memo!None
      BY <2>1, <3>5, <3>6 DEF MemoIInv
    <3>10. answers' \subseteq Arguments \X MemoResults
      BY <3>2 DEF MemoIInv
    <3>11. \A x \in answers' : x[2] = results'[x[1]] /\ x[2].status \in {"fulfilled", "rejected"}
      <4>1. \A x \in answers : x[1] \in Arguments \ {a0}
        BY <3>3, <1>0 DEF MemoIInv
      <4>2. \A x \in answers : x[2] = results'[x[1]] /\ x[2].status \in {"fulfilled", "rejected"}
        BY <4>1, <3>5 DEF MemoIInv
      <4> QED BY <4>2, <3>2, <3>5
    <3>12. \A m, n \in DOMAIN evaluated' : evaluated'[m] = evaluated'[n] => m = n
      BY <2>1 DEF MemoIInv
    <3> QED BY <2>1, <2>2, <2>5, <3>5, <3>7, <3>8, <3>9, <3>10, <3>11, <3>12 DEF MemoIInv
  <2> QED BY <2>6, <2>7
<1>4. CASE Memo!Clear
  <2>1. /\ clears' = clears + 1 /\ results' = [args \in Arguments |-> Memo!None]
        /\ evaluated' = <<>> /\ answers' = {} /\ evaluating' = evaluating
    BY <1>4 DEF Memo!Clear, Memo!Empty
  <2>2. \A n \in DOMAIN evaluating : evaluating[n].made \in Nat /\ evaluating[n].made < clears'
    <3>1. ASSUME NEW n \in DOMAIN evaluating
          PROVE  evaluating[n].made \in Nat /\ evaluating[n].made < clears'
      <4>1. evaluating[n] \in MemoCalls
        BY DEF MemoIInv
      <4>2. evaluating[n].made \in Nat /\ evaluating[n].made <= clears /\ clears \in Nat
        BY <4>1 DEF MemoIInv, MemoCalls
      <4> QED BY <4>2, <2>1
    <3> QED BY <3>1
  <2>3. \A args \in Arguments : ~Memo!Evaluates(args)'
    BY <2>1, <2>2 DEF Memo!Evaluates
  <2>4. /\ clears' \in Nat
        /\ \A n \in DOMAIN evaluating' : evaluating'[n].made <= clears' /\ evaluating'[n].made # clears'
    BY <2>1, <2>2 DEF MemoIInv
  <2> QED BY <2>1, <2>3, <2>4, <1>0 DEF MemoIInv
<1>5. CASE UNCHANGED memo
  <2>1. UNCHANGED <<results, clears, evaluating, evaluated, answers>>
    BY <1>5 DEF memo
  <2>2. \A a \in Arguments : Memo!Evaluates(a)' <=> Memo!Evaluates(a)
    BY <2>1 DEF Memo!Evaluates
  <2> QED BY <2>1, <2>2 DEF MemoIInv
<1> QED BY <1>1, <1>2, <1>3, <1>4, <1>5 DEF Memo!Next

\* What MemoIInv is for.
LEMMA MemoIInvMeans == MemoIInv => Memo!MemoizedOnce
  BY DEF MemoIInv, Memo!MemoizedOnce

-----------------------------------------------------------------------------
(* The listeners of @esfx/events *)

EventListeners == [fn : Functions, wrap : Nat]

\* A listener is of the function that was wrapped, if it was.
Wrapped(e, made) == e.wrap \in 0 .. Len(made) /\ (e.wrap # 0 => made[e.wrap].fn = e.fn)

\* Every function is in the list once at most; a wrap has called its function if its `done`
\* is set, and is not in the list then.
EventIInv ==
    /\ wraps \in Seq([fn : Functions, once : BOOLEAN, token : BOOLEAN]) /\ Len(wraps) <= MaxWraps
    /\ list \in Seq(EventListeners) /\ emits \in Seq(Seq(EventListeners))
    /\ \A n \in DOMAIN list : Wrapped(list[n], wraps)
    /\ \A k \in DOMAIN emits : \A n \in DOMAIN emits[k] : Wrapped(emits[k][n], wraps)
    /\ \A m, n \in DOMAIN list : list[m].fn = list[n].fn => m = n
    /\ done \subseteq DOMAIN wraps
    /\ heard \in [1 .. MaxWraps -> {0, 1}]
    /\ \A i \in 1 .. MaxWraps : heard[i] = 1 => i \in done
    /\ \A n \in DOMAIN list : list[n].wrap \notin done

LEMMA EventStarts == Events!Init => EventIInv
<1> SUFFICES ASSUME Events!Init PROVE EventIInv
  OBVIOUS
<1>1. /\ list = <<>> /\ wraps = <<>> /\ done = {} /\ emits = <<>>
      /\ heard = [i \in 1 .. MaxWraps |-> 0]
  BY DEF Events!Init, Events!Wraps
<1>2. Len(wraps) <= MaxWraps
  BY <1>1, Limits
<1> QED BY <1>1, <1>2 DEF EventIInv

\* What RemoveAt of SequencesExt leaves.
LEMMA RemoveAtLeaves ==
    ASSUME NEW S, NEW s \in Seq(S), NEW i \in DOMAIN s
    PROVE  /\ Events!RemoveAt(s, i) \in Seq(S)
           /\ Len(Events!RemoveAt(s, i)) = Len(s) - 1
           /\ \A k \in 1 .. Len(s) - 1 :
                 Events!RemoveAt(s, i)[k] = IF k < i THEN s[k] ELSE s[k + 1]
<1>1. /\ Len(s) \in Nat /\ i \in 1 .. Len(s)
      /\ \A k \in 1 .. Len(s) : s[k] \in S
  OBVIOUS
<1> DEFINE front == SubSeq(s, 1, i - 1)
           back0 == SubSeq(s, i + 1, Len(s))
<1>2. /\ front \in Seq(S) /\ Len(front) = i - 1
      /\ \A k \in 1 .. i - 1 : front[k] = s[k]
  BY <1>1
<1>3. /\ back0 \in Seq(S) /\ Len(back0) = Len(s) - i
      /\ \A k \in 1 .. Len(s) - i : back0[k] = s[i + k]
  BY <1>1
<1> HIDE DEF front, back0
<1>4. /\ front \o back0 \in Seq(S)
      /\ Len(front \o back0) = Len(front) + Len(back0)
      /\ \A k \in 1 .. Len(front) + Len(back0) :
            (front \o back0)[k] = IF k <= Len(front) THEN front[k] ELSE back0[k - Len(front)]
  BY <1>2, <1>3, ConcatProperties
<1>5. Len(front \o back0) = Len(s) - 1
  BY <1>1, <1>2, <1>3, <1>4
<1>6. ASSUME NEW k \in 1 .. Len(s) - 1
      PROVE  (front \o back0)[k] = IF k < i THEN s[k] ELSE s[k + 1]
  <2>1. k \in 1 .. Len(front) + Len(back0)
    BY <1>1, <1>2, <1>3
  <2>2. CASE k < i
    <3>1. k <= Len(front) /\ k \in 1 .. i - 1
      BY <2>2, <1>1, <1>2
    <3>2. (front \o back0)[k] = front[k]
      BY <2>1, <3>1, <1>4
    <3> QED BY <2>2, <3>1, <3>2, <1>2
  <2>3. CASE ~(k < i)
    <3>1. ~(k <= Len(front)) /\ k - Len(front) \in 1 .. Len(s) - i
      BY <2>3, <1>1, <1>2
    <3>2. i + (k - Len(front)) = k + 1
      BY <1>1, <1>2
    <3>3. (front \o back0)[k] = back0[k - Len(front)]
      BY <2>1, <3>1, <1>4
    <3>4. back0[k - Len(front)] = s[k + 1]
      BY <3>1, <3>2, <1>3
    <3> QED BY <2>3, <3>3, <3>4
  <2> QED BY <2>2, <2>3
<1> QED BY <1>4, <1>5, <1>6 DEF Events!RemoveAt, front, back0

\* _removeListener: what matches goes, and the rest of the list stays as it was.
LEMMA ListenerRemoved ==
    ASSUME EventIInv, NEW match \in [DOMAIN list -> BOOLEAN],
           \A m, n \in DOMAIN list : match[m] /\ match[n] => m = n
    PROVE  LET removed == Events!Removed(match)
           IN /\ removed \in Seq(EventListeners)
              /\ \A n \in DOMAIN removed : \E m \in DOMAIN list : removed[n] = list[m] /\ ~match[m]
              /\ \A m, n \in DOMAIN removed : removed[m].fn = removed[n].fn => m = n
<1> DEFINE found == {n \in DOMAIN list : match[n]}
           removed == Events!Removed(match)
<1>1. list \in Seq(EventListeners) /\ \A m, n \in DOMAIN list : list[m].fn = list[n].fn => m = n
  BY DEF EventIInv
<1>2. CASE found = {}
  BY <1>1, <1>2 DEF Events!Removed
<1>3. CASE found # {}
  <2>1. PICK i \in DOMAIN list : match[i]
    BY <1>3
  <2>2. found = {i}
    BY <2>1
  <2>3. (CHOOSE n \in found : \A m \in found : n <= m) = i
    BY <2>1, <2>2, <1>1
  <2>4. removed = Events!RemoveAt(list, i)
    BY <1>3, <2>3 DEF Events!Removed
  <2>5. /\ removed \in Seq(EventListeners) /\ Len(removed) = Len(list) - 1 /\ Len(list) \in Nat
        /\ \A k \in 1 .. Len(list) - 1 : removed[k] = IF k < i THEN list[k] ELSE list[k + 1]
    BY <2>1, <2>4, <1>1, RemoveAtLeaves
  <2> HIDE DEF removed, found
  <2>6. DOMAIN removed = 1 .. Len(list) - 1 /\ DOMAIN list = 1 .. Len(list) /\ i \in 1 .. Len(list)
    BY <2>1, <2>5, <1>1
  <2>7. ASSUME NEW n \in DOMAIN removed
        PROVE  \E m \in DOMAIN list : removed[n] = list[m] /\ ~match[m]
    <3>1. CASE n < i
      <4>1. n \in DOMAIN list /\ n # i /\ removed[n] = list[n]
        BY <3>1, <2>5, <2>6
      <4> QED BY <4>1, <2>1
    <3>2. CASE ~(n < i)
      <4>1. n + 1 \in DOMAIN list /\ n + 1 # i /\ removed[n] = list[n + 1]
        BY <3>2, <2>5, <2>6
      <4> QED BY <4>1, <2>1
    <3> QED BY <3>1, <3>2
  <2>8. ASSUME NEW m \in DOMAIN removed, NEW n \in DOMAIN removed, removed[m].fn = removed[n].fn
        PROVE  m = n
    <3> DEFINE at(k) == IF k < i THEN k ELSE k + 1
    <3>1. /\ at(m) \in DOMAIN list /\ at(n) \in DOMAIN list
          /\ removed[m] = list[at(m)] /\ removed[n] = list[at(n)]
      BY <2>5, <2>6
    <3>2. at(m) = at(n)
      BY <3>1, <2>8, <1>1
    <3> QED BY <3>2, <2>6
  <2> QED BY <2>5, <2>7, <2>8 DEF removed
<1> QED BY <1>2, <1>3

\* off() and the disposal of a subscription keep the list as it has to be.
LEMMA RemovalKeeps ==
    ASSUME EventIInv, NEW match \in [DOMAIN list -> BOOLEAN],
           \A m, n \in DOMAIN list : match[m] /\ match[n] => m = n,
           Events!RemoveListener(match), UNCHANGED <<wraps, done, emits, heard>>
    PROVE  EventIInv'
<1>1. list' = Events!Removed(match)
  BY DEF Events!RemoveListener
<1>2. /\ list' \in Seq(EventListeners)
      /\ \A n \in DOMAIN list' : \E m \in DOMAIN list : list'[n] = list[m] /\ ~match[m]
      /\ \A m, n \in DOMAIN list' : list'[m].fn = list'[n].fn => m = n
  BY <1>1, ListenerRemoved
<1>3. \A e : Wrapped(e, wraps') <=> Wrapped(e, wraps)
  BY DEF Wrapped
<1> QED BY <1>2, <1>3 DEF EventIInv

\* Calling a listener.
LEMMA CallKeeps ==
    ASSUME EventIInv, NEW e \in EventListeners, Wrapped(e, wraps), Events!Call(e), UNCHANGED wraps
    PROVE  /\ list' \in Seq(EventListeners)
           /\ \A n \in DOMAIN list' : \E m \in DOMAIN list : list'[n] = list[m]
           /\ \A m, n \in DOMAIN list' : list'[m].fn = list'[n].fn => m = n
           /\ done' \subseteq DOMAIN wraps
           /\ heard' \in [1 .. MaxWraps -> {0, 1}]
           /\ \A i \in 1 .. MaxWraps : heard'[i] = 1 => i \in done'
           /\ \A n \in DOMAIN list' : list'[n].wrap \notin done'
<1>1. CASE UNCHANGED <<list, done, heard>>
  BY <1>1 DEF EventIInv
<1>2. CASE ~UNCHANGED <<list, done, heard>>
  <2>1. Events!IsOnce(e) /\ e.wrap \notin done /\ Events!CallOnce(e)
    BY <1>2 DEF Events!Call, Events!CallOnce
  <2> DEFINE match == [n \in DOMAIN list |-> list[n].fn = e.fn]
  <2>2. /\ done' = done \cup {e.wrap} /\ heard' = [heard EXCEPT ![e.wrap] = @ + 1]
        /\ Events!RemoveListener(match)
    BY <2>1 DEF Events!CallOnce
  <2>3. list' = Events!Removed(match)
    BY <2>2 DEF Events!RemoveListener
  <2>4. match \in [DOMAIN list -> BOOLEAN] /\ \A m, n \in DOMAIN list : match[m] /\ match[n] => m = n
    BY DEF EventIInv
  <2>5. \A n \in DOMAIN list : match[n] <=> list[n].fn = e.fn
    OBVIOUS
  <2> HIDE DEF match
  <2>6. /\ list' \in Seq(EventListeners)
        /\ \A n \in DOMAIN list' : \E m \in DOMAIN list : list'[n] = list[m] /\ ~match[m]
        /\ \A m, n \in DOMAIN list' : list'[m].fn = list'[n].fn => m = n
    BY <2>3, <2>4, ListenerRemoved
  <2>7. e.wrap \in DOMAIN wraps /\ e.wrap \in 1 .. MaxWraps /\ wraps[e.wrap].fn = e.fn
    BY <2>1, Limits DEF Wrapped, Events!IsOnce, EventIInv
  <2>8. heard[e.wrap] = 0
    BY <2>1, <2>7 DEF EventIInv
  <2>9. /\ heard' \in [1 .. MaxWraps -> {0, 1}]
        /\ \A i \in 1 .. MaxWraps : heard'[i] = 1 => i \in done'
    BY <2>2, <2>7, <2>8 DEF EventIInv
  <2>10. ASSUME NEW n \in DOMAIN list' PROVE list'[n].wrap \notin done'
    <3>1. PICK m \in DOMAIN list : list'[n] = list[m] /\ list[m].fn # e.fn
      BY <2>5, <2>6
    <3>2. list[m].wrap # e.wrap
      <4>1. Wrapped(list[m], wraps)
        BY DEF EventIInv
      <4>2. e.wrap # 0
        BY <2>1 DEF Events!IsOnce
      <4> QED BY <3>1, <4>1, <4>2, <2>7 DEF Wrapped
    <3> QED BY <3>1, <3>2, <2>2 DEF EventIInv
  <2>11. done' \subseteq DOMAIN wraps
    BY <2>2, <2>7 DEF EventIInv
  <2> QED BY <2>6, <2>9, <2>10, <2>11
<1> QED BY <1>1, <1>2

\* What on(), subscribe() and once() put into the list.
LEMMA InsertKeeps ==
    ASSUME EventIInv, NEW e \in EventListeners, Events!Insert(e), Events!Fresh(e.fn)
    PROVE  /\ list' \in Seq(EventListeners)
           /\ \A n \in DOMAIN list' : list'[n] = e \/ \E m \in DOMAIN list : list'[n] = list[m]
           /\ \A m, n \in DOMAIN list' : list'[m].fn = list'[n].fn => m = n
<1>1. /\ list \in Seq(EventListeners) /\ Len(list) \in Nat /\ DOMAIN list = 1 .. Len(list)
      /\ \A m, n \in DOMAIN list : list[m].fn = list[n].fn => m = n
  BY DEF EventIInv
<1>2. \A n \in DOMAIN list : list[n].fn # e.fn
  BY DEF Events!Fresh
<1>3. CASE list' = Append(list, e)
  <2>1. /\ list' \in Seq(EventListeners) /\ DOMAIN list' = 1 .. Len(list) + 1
        /\ \A n \in 1 .. Len(list) : list'[n] = list[n]
        /\ list'[Len(list) + 1] = e
    BY <1>1, <1>3
  <2>2. \A n \in DOMAIN list' : n \in DOMAIN list \/ n = Len(list) + 1
    BY <1>1, <2>1
  <2> QED BY <1>1, <1>2, <2>1, <2>2
<1>4. CASE list' = <<e>> \o list
  <2>1. <<e>> \in Seq(EventListeners) /\ Len(<<e>>) = 1 /\ <<e>>[1] = e
    OBVIOUS
  <2>2. /\ list' \in Seq(EventListeners) /\ Len(list') = 1 + Len(list)
        /\ \A n \in 1 .. 1 + Len(list) :
              list'[n] = IF n <= 1 THEN <<e>>[n] ELSE list[n - 1]
    <3>1. /\ <<e>> \o list \in Seq(EventListeners)
          /\ Len(<<e>> \o list) = Len(<<e>>) + Len(list)
          /\ \A n \in 1 .. Len(<<e>>) + Len(list) : (<<e>> \o list)[n] =
                   IF n <= Len(<<e>>) THEN <<e>>[n] ELSE list[n - Len(<<e>>)]
      BY <1>1, <2>1, ConcatProperties
    <3> QED BY <3>1, <2>1, <1>4
  <2>3. DOMAIN list' = 1 .. 1 + Len(list)
    BY <2>2, <1>1
  <2>4. \A n \in DOMAIN list' : n = 1 \/ n - 1 \in DOMAIN list
    BY <1>1, <2>3
  <2>5. list'[1] = e /\ \A n \in DOMAIN list' : n # 1 => list'[n] = list[n - 1]
    BY <2>1, <2>2, <2>3, <1>1
  <2>6. \A m, n \in DOMAIN list' : list'[m].fn = list'[n].fn => m = n
    <3> SUFFICES ASSUME NEW m \in DOMAIN list', NEW n \in DOMAIN list', list'[m].fn = list'[n].fn
                 PROVE  m = n
      OBVIOUS
    <3>1. CASE m = 1
      BY <3>1, <2>4, <2>5, <1>2
    <3>2. CASE n = 1
      BY <3>2, <2>4, <2>5, <1>2
    <3>3. CASE m # 1 /\ n # 1
      <4>1. m - 1 = n - 1
        BY <3>3, <2>4, <2>5, <1>1
      <4> QED BY <4>1, <2>3, <1>1
    <3> QED BY <3>1, <3>2, <3>3
  <2> QED BY <2>2, <2>4, <2>5, <2>6
<1> QED BY <1>3, <1>4 DEF Events!Insert, Events!AddListener, Events!PrependListener

\* A new wrap: subscribe() and once().
LEMMA WrapKeeps ==
    ASSUME EventIInv, NEW f \in Functions, NEW once \in BOOLEAN, NEW token \in BOOLEAN,
           Events!Fresh(f), Events!Wrap(f, once, token), UNCHANGED <<done, emits, heard>>
    PROVE  EventIInv'
<1> DEFINE w == [fn |-> f, once |-> once, token |-> token]
           e == [fn |-> f, wrap |-> Len(wraps) + 1]
<1>1. /\ Len(wraps) < MaxWraps /\ wraps' = Append(wraps, w) /\ Events!Insert(e)
      /\ wraps \in Seq([fn : Functions, once : BOOLEAN, token : BOOLEAN]) /\ Len(wraps) \in Nat
      /\ DOMAIN wraps = 1 .. Len(wraps)
  BY DEF Events!Wrap, EventIInv
<1>2. w \in [fn : Functions, once : BOOLEAN, token : BOOLEAN] /\ w.fn = f
  OBVIOUS
<1>3. e \in EventListeners /\ e.fn = f /\ e.wrap = Len(wraps) + 1
  BY <1>1 DEF EventListeners
<1> HIDE DEF w, e
<1>4. /\ wraps' \in Seq([fn : Functions, once : BOOLEAN, token : BOOLEAN])
      /\ Len(wraps') = Len(wraps) + 1 /\ DOMAIN wraps' = 1 .. Len(wraps) + 1
      /\ \A i \in 1 .. Len(wraps) : wraps'[i] = wraps[i]
      /\ wraps'[Len(wraps) + 1] = w
  BY <1>1, <1>2
<1>5. Len(wraps') <= MaxWraps
  BY <1>1, <1>4, Limits
<1>6. /\ list' \in Seq(EventListeners)
      /\ \A n \in DOMAIN list' : list'[n] = e \/ \E m \in DOMAIN list : list'[n] = list[m]
      /\ \A m, n \in DOMAIN list' : list'[m].fn = list'[n].fn => m = n
  BY <1>1, <1>3, InsertKeeps
<1>7. ASSUME NEW x, Wrapped(x, wraps) PROVE Wrapped(x, wraps')
  <2>1. x.wrap \in 0 .. Len(wraps) /\ (x.wrap # 0 => wraps[x.wrap].fn = x.fn)
    BY <1>7 DEF Wrapped
  <2>2. x.wrap \in 0 .. Len(wraps')
    BY <2>1, <1>1, <1>4
  <2>3. x.wrap # 0 => wraps'[x.wrap] = wraps[x.wrap]
    BY <2>1, <1>1, <1>4
  <2> QED BY <2>1, <2>2, <2>3 DEF Wrapped
<1>8. Wrapped(e, wraps')
  <2>1. e.wrap \in 0 .. Len(wraps')
    BY <1>1, <1>3, <1>4
  <2> QED BY <2>1, <1>2, <1>3, <1>4 DEF Wrapped
<1>9. \A n \in DOMAIN list' : Wrapped(list'[n], wraps')
  BY <1>6, <1>7, <1>8 DEF EventIInv
<1>10. \A k \in DOMAIN emits' : \A n \in DOMAIN emits'[k] : Wrapped(emits'[k][n], wraps')
  BY <1>7 DEF EventIInv
<1>11. done' \subseteq DOMAIN wraps'
  BY <1>1, <1>4 DEF EventIInv
<1>12. \A n \in DOMAIN list' : list'[n].wrap \notin done'
  <2>1. e.wrap \notin done
    BY <1>1, <1>3 DEF EventIInv
  <2> QED BY <2>1, <1>6 DEF EventIInv
<1> QED BY <1>4, <1>5, <1>6, <1>9, <1>10, <1>11, <1>12 DEF EventIInv

LEMMA EventPreserves == EventIInv /\ (Events!Next \/ UNCHANGED events) => EventIInv'
<1> SUFFICES ASSUME EventIInv, Events!Next \/ UNCHANGED events PROVE EventIInv'
  OBVIOUS
<1>1. ASSUME NEW f \in Functions, Events!On(f)
      PROVE  EventIInv'
  <2> DEFINE e == [fn |-> f, wrap |-> 0]
  <2>1. e \in EventListeners /\ e.fn = f /\ e.wrap = 0
    BY DEF EventListeners
  <2>2. Events!Fresh(e.fn) /\ Events!Insert(e) /\ UNCHANGED <<wraps, done, emits, heard>>
    BY <1>1 DEF Events!On, Events!Unwrapped
  <2> HIDE DEF e
  <2>3. /\ list' \in Seq(EventListeners)
        /\ \A n \in DOMAIN list' : list'[n] = e \/ \E m \in DOMAIN list : list'[n] = list[m]
        /\ \A m, n \in DOMAIN list' : list'[m].fn = list'[n].fn => m = n
    BY <2>1, <2>2, InsertKeeps
  <2>4. \A x : Wrapped(x, wraps') <=> Wrapped(x, wraps)
    BY <2>2 DEF Wrapped
  <2>5. Wrapped(e, wraps) /\ e.wrap \notin done
    BY <2>1 DEF Wrapped, EventIInv
  <2>6. \A n \in DOMAIN list' : Wrapped(list'[n], wraps') /\ list'[n].wrap \notin done'
    BY <2>2, <2>3, <2>4, <2>5 DEF EventIInv
  <2> QED BY <2>2, <2>3, <2>4, <2>6 DEF EventIInv
<1>2. ASSUME NEW f \in Functions, Events!Once(f)
      PROVE  EventIInv'
  BY <1>2, WrapKeeps DEF Events!Once
<1>3. ASSUME NEW f \in Functions, NEW once \in BOOLEAN, Events!Subscribe(f, once)
      PROVE  EventIInv'
  BY <1>3, WrapKeeps DEF Events!Subscribe
<1>4. ASSUME NEW f \in Functions, Events!Off(f)
      PROVE  EventIInv'
  <2> DEFINE match == [n \in DOMAIN list |-> list[n].fn = f]
  <2>1. match \in [DOMAIN list -> BOOLEAN] /\ \A m, n \in DOMAIN list : match[m] /\ match[n] => m = n
    <3>1. \A m, n \in DOMAIN list : list[m].fn = list[n].fn => m = n
      BY DEF EventIInv
    <3> QED BY <3>1
  <2>2. Events!RemoveListener(match) /\ UNCHANGED <<wraps, done, emits, heard>>
    BY <1>4 DEF Events!Off
  <2> HIDE DEF match
  <2> QED BY <2>1, <2>2, RemovalKeeps
<1>5. ASSUME NEW i \in 1 .. MaxWraps, Events!Unsubscribe(i)
      PROVE  EventIInv'
  <2> DEFINE match == [n \in DOMAIN list |-> list[n].wrap = i]
  <2>1. \A n \in DOMAIN list : list[n].wrap = i => list[n].fn = wraps[i].fn
    BY DEF EventIInv, Wrapped
  <2>2. match \in [DOMAIN list -> BOOLEAN] /\ \A m, n \in DOMAIN list : match[m] /\ match[n] => m = n
    <3>1. \A m, n \in DOMAIN list : list[m].fn = list[n].fn => m = n
      BY DEF EventIInv
    <3> QED BY <2>1, <3>1
  <2>3. Events!RemoveListener(match) /\ UNCHANGED <<wraps, done, emits, heard>>
    BY <1>5 DEF Events!Unsubscribe
  <2> HIDE DEF match
  <2> QED BY <2>2, <2>3, RemovalKeeps
<1>6. CASE Events!RemoveAllListeners
  <2>1. list' = <<>> /\ UNCHANGED <<wraps, done, emits, heard>>
    BY <1>6 DEF Events!RemoveAllListeners
  <2>2. \A x : Wrapped(x, wraps') <=> Wrapped(x, wraps)
    BY <2>1 DEF Wrapped
  <2> QED BY <2>1, <2>2 DEF EventIInv
<1>7. ASSUME NEW e \in EventListeners, Wrapped(e, wraps), Events!Call(e), UNCHANGED wraps,
             emits' \in Seq(Seq(EventListeners)),
             \A k \in DOMAIN emits' : \A n \in DOMAIN emits'[k] : Wrapped(emits'[k][n], wraps)
      PROVE  EventIInv'
  <2>1. \A x : Wrapped(x, wraps') <=> Wrapped(x, wraps)
    BY <1>7 DEF Wrapped
  <2>2. /\ list' \in Seq(EventListeners)
        /\ \A n \in DOMAIN list' : \E m \in DOMAIN list : list'[n] = list[m]
        /\ \A m, n \in DOMAIN list' : list'[m].fn = list'[n].fn => m = n
        /\ done' \subseteq DOMAIN wraps
        /\ heard' \in [1 .. MaxWraps -> {0, 1}]
        /\ \A i \in 1 .. MaxWraps : heard'[i] = 1 => i \in done'
        /\ \A n \in DOMAIN list' : list'[n].wrap \notin done'
    BY <1>7, CallKeeps
  <2>3. \A n \in DOMAIN list' : Wrapped(list'[n], wraps')
    BY <2>1, <2>2 DEF EventIInv
  <2>4. \A k \in DOMAIN emits' : \A n \in DOMAIN emits'[k] : Wrapped(emits'[k][n], wraps')
    BY <1>7, <2>1
  <2> QED BY <1>7, <2>2, <2>3, <2>4 DEF EventIInv
<1>8. CASE Events!Emit
  <2>1. CASE list = <<>>
    <3>1. UNCHANGED events
      <4>1. UNCHANGED <<form, list, done, emits, heard>> /\ UNCHANGED wraps
        BY <1>8, <2>1 DEF Events!Emit
      <4> QED BY <4>1 DEF events
    <3>2. UNCHANGED <<form, list, wraps, done, emits, heard>>
      BY <3>1 DEF events
    <3>3. \A x : Wrapped(x, wraps') <=> Wrapped(x, wraps)
      BY <3>2 DEF Wrapped
    <3> QED BY <3>2, <3>3 DEF EventIInv
  <2>2. CASE list # <<>>
    <3>1. emits' = Append(emits, list) /\ Events!Call(Head(list)) /\ UNCHANGED wraps
      BY <1>8, <2>2 DEF Events!Emit
    <3>2. Head(list) = list[1] /\ 1 \in DOMAIN list /\ list[1] \in EventListeners
      BY <2>2 DEF EventIInv
    <3>3. Head(list) \in EventListeners /\ Wrapped(Head(list), wraps)
      BY <3>2 DEF EventIInv
    <3>4. /\ emits' \in Seq(Seq(EventListeners)) /\ Len(emits) \in Nat
          /\ DOMAIN emits = 1 .. Len(emits) /\ DOMAIN emits' = 1 .. Len(emits) + 1
          /\ \A k \in 1 .. Len(emits) : emits'[k] = emits[k]
          /\ emits'[Len(emits) + 1] = list
      BY <3>1 DEF EventIInv
    <3>5. \A k \in DOMAIN emits' : k \in DOMAIN emits \/ k = Len(emits) + 1
      BY <3>4
    <3>6. \A k \in DOMAIN emits' : \A n \in DOMAIN emits'[k] : Wrapped(emits'[k][n], wraps)
      BY <3>4, <3>5 DEF EventIInv
    <3> QED BY <3>1, <3>3, <3>4, <3>6, <1>7
  <2> QED BY <2>1, <2>2
<1>9. CASE Events!CallNext
  <2> DEFINE inner == emits[Len(emits)]
  <2>1. /\ emits # <<>> /\ Len(inner) > 1 /\ UNCHANGED wraps
        /\ emits' = [emits EXCEPT ![Len(emits)] = Tail(@)] /\ Events!Call(inner[2])
    BY <1>9 DEF Events!CallNext, Events!Innermost
  <2>2. Len(emits) \in DOMAIN emits /\ inner \in Seq(EventListeners)
    BY <2>1 DEF EventIInv
  <2>3. 2 \in DOMAIN inner /\ inner[2] \in EventListeners /\ inner # <<>>
    BY <2>1, <2>2
  <2>4. Wrapped(inner[2], wraps)
    BY <2>2, <2>3 DEF EventIInv
  <2>5. /\ Tail(inner) \in Seq(EventListeners)
        /\ \A n \in DOMAIN Tail(inner) : n + 1 \in DOMAIN inner /\ Tail(inner)[n] = inner[n + 1]
    BY <2>2, <2>3
  <2>6. /\ emits' \in Seq(Seq(EventListeners)) /\ DOMAIN emits' = DOMAIN emits
        /\ emits'[Len(emits)] = Tail(inner)
        /\ \A k \in DOMAIN emits : k # Len(emits) => emits'[k] = emits[k]
    BY <2>1, <2>2, <2>5 DEF EventIInv
  <2> HIDE DEF inner
  <2>7. ASSUME NEW k \in DOMAIN emits', NEW n \in DOMAIN emits'[k]
        PROVE  Wrapped(emits'[k][n], wraps)
    <3>1. CASE k = Len(emits)
      <4>1. n + 1 \in DOMAIN inner /\ emits'[k][n] = inner[n + 1]
        BY <3>1, <2>5, <2>6
      <4> QED BY <4>1, <2>2 DEF EventIInv, inner
    <3>2. CASE k # Len(emits)
      BY <3>2, <2>6 DEF EventIInv
    <3> QED BY <3>1, <3>2
  <2> QED BY <2>1, <2>3, <2>4, <2>6, <2>7, <1>7
<1>10. CASE Events!EmitEnds
  <2>1. /\ emits # <<>> /\ emits' = SubSeq(emits, 1, Len(emits) - 1)
        /\ UNCHANGED <<list, wraps, done, heard>>
    BY <1>10 DEF Events!EmitEnds, Events!Front
  <2>2. /\ emits' \in Seq(Seq(EventListeners))
        /\ \A k \in DOMAIN emits' : k \in DOMAIN emits /\ emits'[k] = emits[k]
    BY <2>1 DEF EventIInv
  <2>3. \A x : Wrapped(x, wraps') <=> Wrapped(x, wraps)
    BY <2>1 DEF Wrapped
  <2> QED BY <2>1, <2>2, <2>3 DEF EventIInv
<1>11. CASE UNCHANGED events
  <2>1. UNCHANGED <<form, list, wraps, done, emits, heard>>
    BY <1>11 DEF events
  <2>2. \A x : Wrapped(x, wraps') <=> Wrapped(x, wraps)
    BY <2>1 DEF Wrapped
  <2> QED BY <2>1, <2>2 DEF EventIInv
<1> QED BY <1>1, <1>2, <1>3, <1>4, <1>5, <1>6, <1>8, <1>9, <1>10, <1>11 DEF Events!Next, Events!Wraps

\* What EventIInv is for.
LEMMA EventIInvMeans == EventIInv => Events!OnceIsOnce
<1> SUFFICES ASSUME EventIInv PROVE Events!OnceIsOnce
  OBVIOUS
<1>1. heard \in [1 .. MaxWraps -> {0, 1}] /\ \A n \in DOMAIN list : list[n].wrap \notin done
  BY DEF EventIInv
<1>2. \A i \in 1 .. MaxWraps : heard[i] <= 1
  BY <1>1
<1>3. \A i \in Events!Wraps : i \in 1 .. MaxWraps
  <2>1. Len(wraps) \in Nat /\ Len(wraps) <= MaxWraps /\ DOMAIN wraps = 1 .. Len(wraps)
    BY DEF EventIInv
  <2> QED BY <2>1, Limits DEF Events!Wraps
<1> QED BY <1>1, <1>2, <1>3 DEF Events!OnceIsOnce

-----------------------------------------------------------------------------
(* The disposal protocol of @esfx/disposable *)

Resources == Stack!Resources
Errors == Resources \cup {"body"}
DisposeRuns == [capability : Stack!Owners, index : Nat, completion : Seq(Errors)]

\* The resources of `added` from the last one back to number i.
Backwards(added, i) == [j \in 1 .. Len(added) - i + 1 |-> added[Len(added) - j + 1]]

DisposableTypes ==
    /\ owner \in [Stack!Owners -> {"none", "pending", "disposed", "initialized", "done"}]
    /\ capability \in [Stack!Owners -> Stack!Owners]
    /\ entries \in [Stack!Owners -> Seq(Resources)]
    /\ runs \in Seq(DisposeRuns)
    /\ failure \in [Stack!Owners -> {<<>>, <<"body">>}]
    /\ order \in [Stack!Owners -> Seq(Resources)]
    /\ failed \in [Stack!Owners -> Seq(Resources)]
    /\ thrown \in [Stack!Owners -> Seq(Errors) \cup {Stack!Running}]

\* Every capability has one owner; only stacks exchange theirs, and only a scope has the
\* failure of a body.
OneCapabilityEach ==
    /\ \A o, p \in Stack!Owners : capability[o] = capability[p] => o = p
    /\ \A c \in Stack!Owners : \E o \in Stack!Owners : capability[o] = c
    /\ \A o \in Stack!Owners : owner[o] \in {"none", "initialized", "done"} => capability[o] = o
    /\ \A o \in Stack!Owners :
          owner[o] \in {"pending", "disposed"} => owner[capability[o]] \in {"pending", "disposed"}
    /\ \A o \in Stack!Owners : failure[o] # <<>> => owner[o] \in {"initialized", "done"}

\* The capabilities of whose disposal nothing has happened.
Untouched == {c \in Stack!Owners : /\ thrown[c] = Stack!Running
                                   /\ \A n \in DOMAIN runs : runs[n].capability # c}

\* Disposal has not begun while the owner is live, and is not forgotten once it is not.
DisposedByOwners ==
    /\ \A o \in Stack!Owners : owner[o] \in {"pending", "initialized"} => capability[o] \in Untouched
    /\ \A o \in Stack!Owners : owner[o] = "none" => o \in Untouched /\ entries[o] = <<>>
    /\ \A o \in Stack!Owners :
          owner[o] \in {"disposed", "done"} /\ capability[o] \in Untouched => entries[capability[o]] = <<>>

\* How far each disposal has come, and with which errors.
DisposedInTurn ==
    /\ \A m, n \in DOMAIN runs : runs[m].capability = runs[n].capability => m = n
    /\ \A n \in DOMAIN runs :
          /\ runs[n].index \in 1 .. Len(entries[runs[n].capability])
          /\ thrown[runs[n].capability] = Stack!Running
          /\ runs[n].completion = failure[runs[n].capability] \o failed[runs[n].capability]
          /\ order[runs[n].capability] = Backwards(entries[runs[n].capability], runs[n].index)
    /\ \A c \in Untouched : order[c] = <<>> /\ failed[c] = <<>>
    /\ \A c \in Stack!Owners : thrown[c] # Stack!Running =>
          order[c] = Backwards(entries[c], 1) /\ thrown[c] = failure[c] \o failed[c]

DisposableIInv == DisposableTypes /\ OneCapabilityEach /\ DisposedByOwners /\ DisposedInTurn

\* What a disposal throws is not taken for one that is not over.
LEMMA ErrorsAreNotRunning == \A s \in Seq(Errors) : s # Stack!Running
<1>1. "running" \notin Errors
  BY ResourcesAssumption DEF Errors, Resources, Stack!Resources
<1>2. ASSUME NEW s \in Seq(Errors), s = <<"running">> PROVE FALSE
  <2>1. Len(s) = 1 /\ s[1] = "running"
    BY <1>2
  <2>2. s[1] \in Errors
    BY <2>1
  <2> QED BY <1>1, <2>1, <2>2
<1> QED BY <1>2 DEF Stack!Running

LEMMA BodysErrors == \A s \in {<<>>, <<"body">>} : s \in Seq(Errors)
<1>1. "body" \in Errors
  BY DEF Errors
<1>2. <<>> \in Seq(Errors)
  OBVIOUS
<1>3. <<"body">> \in Seq(Errors)
  BY <1>1
<1> QED BY <1>2, <1>3

\* Backwards as the loop of DisposeResources builds it.
LEMMA BackwardsOn ==
    ASSUME NEW S, NEW added \in Seq(S)
    PROVE  /\ Backwards(added, Len(added) + 1) = <<>>
           /\ \A i \in 2 .. Len(added) + 1 :
                 Append(Backwards(added, i), added[i - 1]) = Backwards(added, i - 1)
           /\ \A i \in 1 .. Len(added) + 1 : Backwards(added, i) \in Seq(S)
<1>0. Len(added) \in Nat /\ \A j \in 1 .. Len(added) : added[j] \in S
  OBVIOUS
<1>1. Backwards(added, Len(added) + 1) = <<>>
  <2>1. Len(added) - (Len(added) + 1) + 1 = 0
    BY <1>0
  <2>2. 1 .. 0 = {}
    OBVIOUS
  <2> QED BY <2>1, <2>2 DEF Backwards
<1>2. ASSUME NEW i \in 1 .. Len(added) + 1
      PROVE  /\ Backwards(added, i) \in Seq(S) /\ Len(Backwards(added, i)) = Len(added) - i + 1
             /\ \A j \in 1 .. Len(added) - i + 1 : Backwards(added, i)[j] = added[Len(added) - j + 1]
  <2>1. Len(added) - i + 1 \in Nat
    BY <1>0
  <2>2. \A j \in 1 .. Len(added) - i + 1 : Len(added) - j + 1 \in 1 .. Len(added)
    BY <1>0
  <2>3. \A j \in 1 .. Len(added) - i + 1 : added[Len(added) - j + 1] \in S
    BY <1>0, <2>2
  <2> QED BY <2>1, <2>3 DEF Backwards
<1>3. ASSUME NEW i \in 2 .. Len(added) + 1
      PROVE  Append(Backwards(added, i), added[i - 1]) = Backwards(added, i - 1)
  <2> DEFINE shorter == Backwards(added, i)
             longer == Backwards(added, i - 1)
             n == Len(added) - i + 1
  <2>1. i \in 1 .. Len(added) + 1 /\ i - 1 \in 1 .. Len(added) + 1 /\ i - 1 \in 1 .. Len(added)
    BY <1>0
  <2>2. /\ shorter \in Seq(S) /\ Len(shorter) = n
        /\ \A j \in 1 .. n : shorter[j] = added[Len(added) - j + 1]
    BY <1>2, <2>1
  <2>3. n \in Nat /\ Len(added) - (i - 1) + 1 = n + 1 /\ Len(added) - (n + 1) + 1 = i - 1
    BY <1>0
  <2>4. /\ longer \in Seq(S) /\ Len(longer) = n + 1
        /\ \A j \in 1 .. n + 1 : longer[j] = added[Len(added) - j + 1]
    <3>1. /\ longer \in Seq(S) /\ Len(longer) = Len(added) - (i - 1) + 1
          /\ \A j \in 1 .. Len(added) - (i - 1) + 1 : longer[j] = added[Len(added) - j + 1]
      BY <1>2, <2>1
    <3> QED BY <3>1, <2>3
  <2>5. added[i - 1] \in S
    BY <1>0, <2>1
  <2> HIDE DEF shorter, longer, n
  <2>6. /\ Append(shorter, added[i - 1]) \in Seq(S)
        /\ Len(Append(shorter, added[i - 1])) = n + 1
        /\ \A j \in 1 .. n : Append(shorter, added[i - 1])[j] = shorter[j]
        /\ Append(shorter, added[i - 1])[n + 1] = added[i - 1]
    BY <2>2, <2>5, AppendProperties
  <2>7. longer[n + 1] = added[i - 1]
    BY <2>3, <2>4
  <2>8. \A j \in 1 .. n + 1 : j \in 1 .. n \/ j = n + 1
    BY <2>3
  <2>9. \A j \in 1 .. n + 1 : Append(shorter, added[i - 1])[j] = longer[j]
    <3>1. \A j \in 1 .. n : j \in 1 .. n + 1
      BY <2>3
    <3> QED BY <2>2, <2>4, <2>6, <2>7, <2>8, <3>1
  <2>10. Append(shorter, added[i - 1]) = longer
    BY <2>4, <2>6, <2>9, SeqEqual
  <2> QED BY <2>10 DEF shorter, longer
<1> QED BY <1>1, <1>2, <1>3

LEMMA RunsAreOfOwners ==
    ASSUME DisposableIInv, NEW n \in DOMAIN runs
    PROVE  /\ runs[n] \in DisposeRuns /\ runs[n].capability \in Stack!Owners
           /\ runs[n].index \in Nat /\ runs[n].completion \in Seq(Errors)
<1>1. runs[n] \in DisposeRuns
  BY DEF DisposableIInv, DisposableTypes
<1> QED BY <1>1 DEF DisposeRuns

LEMMA DisposableStarts == Stack!Init => DisposableIInv
<1> SUFFICES ASSUME Stack!Init PROVE DisposableIInv
  OBVIOUS
<1>1. /\ owner = [o \in Stack!Owners |-> "none"] /\ capability = [o \in Stack!Owners |-> o]
      /\ entries = [o \in Stack!Owners |-> <<>>] /\ runs = <<>>
      /\ failure = [o \in Stack!Owners |-> <<>>] /\ order = [o \in Stack!Owners |-> <<>>]
      /\ failed = [o \in Stack!Owners |-> <<>>] /\ thrown = [o \in Stack!Owners |-> Stack!Running]
  BY DEF Stack!Init
<1>2. Untouched = Stack!Owners
  BY <1>1 DEF Untouched
<1>3. DisposableTypes
  BY <1>1 DEF DisposableTypes
<1>4. OneCapabilityEach
  BY <1>1 DEF OneCapabilityEach
<1>5. DisposedByOwners
  BY <1>1, <1>2 DEF DisposedByOwners
<1>6. DisposedInTurn
  BY <1>1, <1>2 DEF DisposedInTurn
<1> QED BY <1>3, <1>4, <1>5, <1>6 DEF DisposableIInv

\* A stack or a scope is made.
LEMMA ConstructKeeps ==
    ASSUME DisposableIInv, NEW s \in Stack!Owners, NEW new \in {"pending", "initialized"},
           owner[s] = "none", owner' = [owner EXCEPT ![s] = new],
           UNCHANGED <<capability, entries, runs, failure, order, failed, thrown>>
    PROVE  DisposableIInv'
<1>1. owner' \in [Stack!Owners -> {"none", "pending", "disposed", "initialized", "done"}]
      /\ owner'[s] = new /\ \A o \in Stack!Owners : o # s => owner'[o] = owner[o]
  BY DEF DisposableIInv, DisposableTypes
<1>2. Untouched' = Untouched
  BY DEF Untouched
<1>3. DisposableTypes'
  BY <1>1 DEF DisposableIInv, DisposableTypes
<1>4. OneCapabilityEach'
  <2>1. capability[s] = s /\ failure[s] = <<>>
    BY DEF DisposableIInv, OneCapabilityEach
  <2>2. \A o \in Stack!Owners : capability[o] \in Stack!Owners
    BY DEF DisposableIInv, DisposableTypes
  <2> QED BY <1>1, <2>1, <2>2 DEF DisposableIInv, OneCapabilityEach
<1>5. DisposedByOwners'
  <2>1. capability[s] = s
    BY DEF DisposableIInv, OneCapabilityEach
  <2> QED BY <1>1, <1>2, <2>1 DEF DisposableIInv, DisposedByOwners
<1>6. DisposedInTurn'
  BY <1>2 DEF DisposableIInv, DisposedInTurn
<1> QED BY <1>3, <1>4, <1>5, <1>6 DEF DisposableIInv

\* use(), adopt(), defer() and using().
LEMMA AddKeeps ==
    ASSUME DisposableIInv, NEW o \in Stack!Owners, owner[o] \in {"pending", "initialized"},
           NEW r \in Resources, Stack!AddDisposableResource(capability[o], r),
           UNCHANGED <<owner, capability, runs, failure, order, failed, thrown>>
    PROVE  DisposableIInv'
<1> DEFINE c == capability[o]
<1>1. c \in Stack!Owners /\ c \in Untouched
  BY DEF DisposableIInv, DisposableTypes, DisposedByOwners
<1>2. /\ entries' \in [Stack!Owners -> Seq(Resources)]
      /\ \A d \in Stack!Owners : d # c => entries'[d] = entries[d]
  BY <1>1 DEF Stack!AddDisposableResource, DisposableIInv, DisposableTypes
<1>3. Untouched' = Untouched
  BY DEF Untouched
<1>4. \A p \in Stack!Owners : p # o => capability[p] # c /\ capability[p] \in Stack!Owners
  BY DEF DisposableIInv, OneCapabilityEach, DisposableTypes
<1>5. \A p \in Stack!Owners : owner[p] = "none" => p # c
  BY <1>4 DEF DisposableIInv, OneCapabilityEach
<1>6. \A n \in DOMAIN runs : runs[n].capability # c /\ runs[n].capability \in Stack!Owners
  BY <1>1, RunsAreOfOwners DEF Untouched
<1>7. thrown[c] = Stack!Running
  BY <1>1 DEF Untouched
<1> HIDE DEF c
<1>8. DisposableTypes'
  BY <1>2 DEF DisposableIInv, DisposableTypes
<1>9. OneCapabilityEach'
  BY DEF DisposableIInv, OneCapabilityEach
<1>10. DisposedByOwners'
  <2>1. \A p \in Stack!Owners : owner[p] = "none" => entries'[p] = <<>>
    BY <1>2, <1>5 DEF DisposableIInv, DisposedByOwners
  <2>2. \A p \in Stack!Owners :
           owner[p] \in {"disposed", "done"} /\ capability[p] \in Untouched => entries'[capability[p]] = <<>>
    <3>1. \A p \in Stack!Owners : owner[p] \in {"disposed", "done"} => p # o
      OBVIOUS
    <3> QED BY <3>1, <1>2, <1>4 DEF DisposableIInv, DisposedByOwners
  <2> QED BY <1>3, <2>1, <2>2 DEF DisposableIInv, DisposedByOwners
<1>11. DisposedInTurn'
  <2>1. \A n \in DOMAIN runs : entries'[runs[n].capability] = entries[runs[n].capability]
    BY <1>2, <1>6
  <2>2. \A d \in Stack!Owners : thrown[d] # Stack!Running => entries'[d] = entries[d]
    BY <1>2, <1>7
  <2> QED BY <1>3, <2>1, <2>2 DEF DisposableIInv, DisposedInTurn
<1> QED BY <1>8, <1>9, <1>10, <1>11 DEF DisposableIInv

\* fail() of a scope.
LEMMA FailKeeps ==
    ASSUME DisposableIInv, NEW s \in Stack!Owners, owner[s] = "initialized",
           failure' = [failure EXCEPT ![s] = <<"body">>],
           UNCHANGED <<owner, capability, entries, runs, order, failed, thrown>>
    PROVE  DisposableIInv'
<1>1. capability[s] = s /\ s \in Untouched
  BY DEF DisposableIInv, OneCapabilityEach, DisposedByOwners
<1>2. /\ failure' \in [Stack!Owners -> {<<>>, <<"body">>}]
      /\ \A d \in Stack!Owners : d # s => failure'[d] = failure[d]
  BY DEF DisposableIInv, DisposableTypes
<1>3. Untouched' = Untouched
  BY DEF Untouched
<1>4. \A n \in DOMAIN runs : runs[n].capability # s /\ runs[n].capability \in Stack!Owners
  BY <1>1, RunsAreOfOwners DEF Untouched
<1>5. thrown[s] = Stack!Running
  BY <1>1 DEF Untouched
<1>6. DisposableTypes'
  BY <1>2 DEF DisposableIInv, DisposableTypes
<1>7. OneCapabilityEach'
  BY <1>2 DEF DisposableIInv, OneCapabilityEach
<1>8. DisposedByOwners'
  BY <1>3 DEF DisposableIInv, DisposedByOwners
<1>9. DisposedInTurn'
  <2>1. \A n \in DOMAIN runs : failure'[runs[n].capability] = failure[runs[n].capability]
    BY <1>2, <1>4
  <2>2. \A d \in Stack!Owners : thrown[d] # Stack!Running => failure'[d] = failure[d]
    BY <1>2, <1>5
  <2>3. \A n \in DOMAIN runs :
           runs[n].completion = failure'[runs[n].capability] \o failed[runs[n].capability]
    BY <2>1 DEF DisposableIInv, DisposedInTurn
  <2>4. \A d \in Stack!Owners : thrown[d] # Stack!Running => thrown[d] = failure'[d] \o failed[d]
    BY <2>2 DEF DisposableIInv, DisposedInTurn
  <2> QED BY <1>3, <2>3, <2>4 DEF DisposableIInv, DisposedInTurn
<1> QED BY <1>6, <1>7, <1>8, <1>9 DEF DisposableIInv

\* move(): the resources change their owner, and nothing of theirs is disposed.
LEMMA MoveKeeps ==
    ASSUME DisposableIInv, NEW s \in Stack!Owners, NEW t \in Stack!Owners, Stack!Move(s, t)
    PROVE  DisposableIInv'
<1> DEFINE c == capability[s]
<1>1. /\ owner[s] = "pending" /\ owner[t] = "none" /\ s # t
      /\ owner' = [owner EXCEPT ![s] = "disposed", ![t] = "pending"]
      /\ capability' = [capability EXCEPT ![s] = t, ![t] = c]
      /\ UNCHANGED <<entries, runs, failure, order, failed, thrown>>
  BY DEF Stack!Move, Stack!NewDisposeCapability
<1>2. c \in Stack!Owners /\ c \in Untouched /\ capability[t] = t /\ entries[t] = <<>>
  BY <1>1 DEF DisposableIInv, DisposableTypes, DisposedByOwners, OneCapabilityEach
<1>3. /\ owner' \in [Stack!Owners -> {"none", "pending", "disposed", "initialized", "done"}]
      /\ owner'[s] = "disposed" /\ owner'[t] = "pending"
      /\ \A o \in Stack!Owners : o \notin {s, t} => owner'[o] = owner[o]
  BY <1>1 DEF DisposableIInv, DisposableTypes
<1>4. /\ capability' \in [Stack!Owners -> Stack!Owners]
      /\ capability'[s] = t /\ capability'[t] = c
      /\ \A o \in Stack!Owners : o \notin {s, t} => capability'[o] = capability[o]
  BY <1>1, <1>2 DEF DisposableIInv, DisposableTypes
<1>5. Untouched' = Untouched
  BY <1>1 DEF Untouched
<1>6. \A o \in Stack!Owners : o \notin {s, t} => capability[o] \notin {c, t}
  BY <1>2 DEF DisposableIInv, OneCapabilityEach
<1>7. c # t
  BY <1>1, <1>2 DEF DisposableIInv, OneCapabilityEach
<1>8. DisposableTypes'
  BY <1>1, <1>3, <1>4 DEF DisposableIInv, DisposableTypes
<1>9. OneCapabilityEach'
  <2>1. \A o, p \in Stack!Owners : capability'[o] = capability'[p] => o = p
    BY <1>4, <1>6, <1>7 DEF DisposableIInv, OneCapabilityEach
  <2>2. \A d \in Stack!Owners : \E o \in Stack!Owners : capability'[o] = d
    <3> SUFFICES ASSUME NEW d \in Stack!Owners PROVE \E o \in Stack!Owners : capability'[o] = d
      OBVIOUS
    <3>1. PICK o \in Stack!Owners : capability[o] = d
      BY DEF DisposableIInv, OneCapabilityEach
    <3>2. CASE o = s
      BY <3>1, <3>2, <1>4
    <3>3. CASE o = t
      BY <3>1, <3>3, <1>2, <1>4
    <3>4. CASE o \notin {s, t}
      BY <3>1, <3>4, <1>4
    <3> QED BY <3>2, <3>3, <3>4
  <2>3. \A o \in Stack!Owners : owner'[o] \in {"none", "initialized", "done"} => capability'[o] = o
    <3>1. \A o \in Stack!Owners : owner'[o] \in {"none", "initialized", "done"} => o \notin {s, t}
      BY <1>3
    <3> QED BY <3>1, <1>3, <1>4 DEF DisposableIInv, OneCapabilityEach
  <2>4. ASSUME NEW o \in Stack!Owners, owner'[o] \in {"pending", "disposed"}
        PROVE  owner'[capability'[o]] \in {"pending", "disposed"}
    <3>1. CASE o = s
      BY <3>1, <1>3, <1>4
    <3>2. CASE o = t
      <4>1. owner[c] \in {"pending", "disposed"}
        BY <1>1 DEF DisposableIInv, OneCapabilityEach
      <4> QED BY <3>2, <4>1, <1>2, <1>3, <1>4
    <3>3. CASE o \notin {s, t}
      <4>1. owner[o] \in {"pending", "disposed"} /\ capability'[o] = capability[o]
        BY <2>4, <3>3, <1>3, <1>4
      <4>2. owner[capability[o]] \in {"pending", "disposed"} /\ capability[o] \in Stack!Owners
        BY <4>1 DEF DisposableIInv, OneCapabilityEach, DisposableTypes
      <4> QED BY <4>1, <4>2, <1>3
    <3> QED BY <3>1, <3>2, <3>3
  <2>5. \A o \in Stack!Owners : failure'[o] # <<>> => owner'[o] \in {"initialized", "done"}
    <3>1. \A o \in Stack!Owners : failure[o] # <<>> => o \notin {s, t} /\ owner[o] \in {"initialized", "done"}
      BY <1>1 DEF DisposableIInv, OneCapabilityEach
    <3> QED BY <3>1, <1>1, <1>3
  <2> QED BY <2>1, <2>2, <2>3, <2>4, <2>5 DEF OneCapabilityEach
<1> HIDE DEF c
<1>10. DisposedByOwners'
  <2>1. \A o \in Stack!Owners : owner'[o] \in {"pending", "initialized"} => capability'[o] \in Untouched
    <3>1. \A o \in Stack!Owners : owner'[o] \in {"pending", "initialized"} => o = t \/ o \notin {s, t}
      BY <1>3
    <3> QED BY <3>1, <1>2, <1>3, <1>4 DEF DisposableIInv, DisposedByOwners
  <2>2. \A o \in Stack!Owners : owner'[o] = "none" => o \in Untouched /\ entries'[o] = <<>>
    <3>1. \A o \in Stack!Owners : owner'[o] = "none" => o \notin {s, t}
      BY <1>3
    <3> QED BY <3>1, <1>1, <1>3 DEF DisposableIInv, DisposedByOwners
  <2>3. \A o \in Stack!Owners :
           owner'[o] \in {"disposed", "done"} /\ capability'[o] \in Untouched => entries'[capability'[o]] = <<>>
    <3>1. \A o \in Stack!Owners : owner'[o] \in {"disposed", "done"} => o = s \/ o \notin {s, t}
      BY <1>3
    <3> QED BY <3>1, <1>1, <1>2, <1>3, <1>4 DEF DisposableIInv, DisposedByOwners
  <2> QED BY <2>1, <2>2, <2>3, <1>5 DEF DisposedByOwners
<1>11. DisposedInTurn'
  BY <1>1, <1>5 DEF DisposableIInv, DisposedInTurn
<1> QED BY <1>8, <1>9, <1>10, <1>11 DEF DisposableIInv

\* dispose() and the end of a scope: the owner is disposed before the first method runs.
LEMMA BeginKeeps ==
    ASSUME DisposableIInv, NEW o \in Stack!Owners,
           \/ owner[o] = "pending" /\ owner' = [owner EXCEPT ![o] = "disposed"]
           \/ owner[o] = "initialized" /\ owner' = [owner EXCEPT ![o] = "done"],
           Stack!DisposeResources(capability[o], failure[capability[o]]),
           UNCHANGED <<capability, entries, failure, failed>>
    PROVE  DisposableIInv'
<1> DEFINE c == capability[o]
           added == entries[c]
<1>1. /\ c \in Stack!Owners /\ c \in Untouched /\ added \in Seq(Resources)
      /\ owner[o] \in {"pending", "initialized"}
  BY DEF DisposableIInv, DisposableTypes, DisposedByOwners
<1>2. /\ owner' \in [Stack!Owners -> {"none", "pending", "disposed", "initialized", "done"}]
      /\ owner'[o] \in {"disposed", "done"}
      /\ \A p \in Stack!Owners : p # o => owner'[p] = owner[p]
      /\ \A p \in Stack!Owners : owner'[p] \in {"none", "initialized", "done"}
                                   => owner[p] \in {"none", "initialized", "done"}
      /\ \A p \in Stack!Owners : owner'[p] \in {"pending", "disposed"} <=> owner[p] \in {"pending", "disposed"}
      /\ \A p \in Stack!Owners : owner[p] \in {"initialized", "done"} => owner'[p] \in {"initialized", "done"}
  BY DEF DisposableIInv, DisposableTypes
<1>3. thrown[c] = Stack!Running /\ order[c] = <<>> /\ failed[c] = <<>>
  BY <1>1 DEF Untouched, DisposableIInv, DisposedInTurn
<1>4. \A n \in DOMAIN runs : runs[n].capability # c /\ runs[n].capability \in Stack!Owners
  BY <1>1, RunsAreOfOwners DEF Untouched
<1>5. /\ failure[c] \in Seq(Errors) /\ failure[c] # Stack!Running
      /\ failure[c] = failure[c] \o failed[c]
  <2>1. failure[c] \in {<<>>, <<"body">>} /\ "body" \in Errors
    BY <1>1 DEF DisposableIInv, DisposableTypes, Errors
  <2>2. failure[c] \in Seq(Errors)
    BY <2>1, BodysErrors
  <2> QED BY <2>2, <1>3, ConcatEmptySeq, ErrorsAreNotRunning
<1>6. \A p \in Stack!Owners : p # o => capability[p] # c
  BY DEF DisposableIInv, OneCapabilityEach
<1>7. OneCapabilityEach'
  <2>1. \A p \in Stack!Owners : capability[p] \in Stack!Owners
    BY DEF DisposableIInv, DisposableTypes
  <2> QED BY <1>2, <2>1 DEF DisposableIInv, OneCapabilityEach
<1>8. ASSUME Untouched' = Untouched \ {c}
      PROVE  DisposedByOwners'
  <2>1. \A p \in Stack!Owners : owner'[p] \in {"pending", "initialized"} => capability[p] \in Untouched'
    <3>1. \A p \in Stack!Owners : owner'[p] \in {"pending", "initialized"} => p # o
      BY <1>2
    <3> QED BY <3>1, <1>2, <1>6, <1>8 DEF DisposableIInv, DisposedByOwners
  <2>2. \A p \in Stack!Owners : owner'[p] = "none" => p \in Untouched' /\ entries[p] = <<>>
    <3>1. \A p \in Stack!Owners : owner'[p] = "none" => p # o /\ owner[p] = "none"
      BY <1>2
    <3>2. \A p \in Stack!Owners : owner[p] = "none" => capability[p] = p
      BY DEF DisposableIInv, OneCapabilityEach
    <3>3. \A p \in Stack!Owners : owner'[p] = "none" => p # c
      BY <3>1, <3>2, <1>6
    <3> QED BY <3>1, <3>3, <1>8 DEF DisposableIInv, DisposedByOwners
  <2>3. \A p \in Stack!Owners :
           owner'[p] \in {"disposed", "done"} /\ capability[p] \in Untouched' => entries[capability[p]] = <<>>
    BY <1>2, <1>8 DEF DisposableIInv, DisposedByOwners
  <2> QED BY <2>1, <2>2, <2>3 DEF DisposedByOwners
<1>9. CASE added = <<>>
  <2>1. thrown' = [thrown EXCEPT ![c] = failure[c]] /\ UNCHANGED <<runs, order>>
    BY <1>9 DEF Stack!DisposeResources, Stack!Visit
  <2>2. /\ thrown' \in [Stack!Owners -> Seq(Errors) \cup {Stack!Running}]
        /\ thrown'[c] = failure[c] /\ \A d \in Stack!Owners : d # c => thrown'[d] = thrown[d]
    BY <2>1, <1>1, <1>5 DEF DisposableIInv, DisposableTypes
  <2>3. Untouched' = Untouched \ {c}
    BY <2>1, <2>2, <1>5 DEF Untouched
  <2>4. DisposableTypes'
    BY <2>1, <2>2, <1>2 DEF DisposableIInv, DisposableTypes
  <2>5. DisposedInTurn'
    <3>1. order[c] = Backwards(added, 1)
      <4>1. Len(added) + 1 = 1
        BY <1>9
      <4> QED BY <4>1, <1>1, <1>3, BackwardsOn
    <3>2. \A n \in DOMAIN runs : thrown'[runs[n].capability] = Stack!Running
      BY <2>2, <1>4 DEF DisposableIInv, DisposedInTurn
    <3>3. \A d \in Stack!Owners : thrown'[d] # Stack!Running =>
             order[d] = Backwards(entries[d], 1) /\ thrown'[d] = failure[d] \o failed[d]
      BY <2>2, <3>1, <1>5 DEF DisposableIInv, DisposedInTurn
    <3>4. \A d \in Untouched' : order[d] = <<>> /\ failed[d] = <<>>
      BY <2>3 DEF DisposableIInv, DisposedInTurn
    <3> HIDE DEF c, added
    <3> QED BY <2>1, <3>2, <3>3, <3>4 DEF DisposableIInv, DisposedInTurn
  <2> QED BY <1>7, <1>8, <2>3, <2>4, <2>5 DEF DisposableIInv
<1>10. CASE added # <<>>
  <2> DEFINE n0 == Len(runs) + 1
             run == [capability |-> c, index |-> Len(added), completion |-> failure[c]]
  <2>0. Len(added) \in Nat \ {0} /\ added[Len(added)] \in Resources
    BY <1>1, <1>10
  <2>1. /\ order' = [order EXCEPT ![c] = Append(@, added[Len(added)])]
        /\ runs' = Append(runs, run) /\ UNCHANGED thrown
    BY <1>10, <2>0 DEF Stack!DisposeResources, Stack!Visit, Stack!Run
  <2>2. run \in DisposeRuns /\ run.capability = c /\ run.index = Len(added) /\ run.completion = failure[c]
    BY <2>0, <1>1, <1>5 DEF DisposeRuns
  <2> HIDE DEF run
  <2>3. /\ runs' \in Seq(DisposeRuns) /\ DOMAIN runs = 1 .. Len(runs) /\ DOMAIN runs' = 1 .. n0
        /\ Len(runs) \in Nat /\ runs'[n0] = run
        /\ \A n \in 1 .. Len(runs) : runs'[n] = runs[n]
    BY <2>1, <2>2 DEF DisposableIInv, DisposableTypes
  <2>4. \A n \in DOMAIN runs' : n \in DOMAIN runs \/ n = n0
    BY <2>3
  <2>5. n0 \in DOMAIN runs' /\ DOMAIN runs \subseteq DOMAIN runs'
    BY <2>3
  <2> HIDE DEF n0
  <2>6. order[c] = Backwards(added, Len(added) + 1)
    BY <1>1, <1>3, BackwardsOn
  <2>7. Append(order[c], added[Len(added)]) = Backwards(added, Len(added))
    <3>1. Len(added) + 1 \in 2 .. Len(added) + 1 /\ (Len(added) + 1) - 1 = Len(added)
      BY <2>0
    <3> HIDE DEF added, c
    <3>2. Append(Backwards(added, Len(added) + 1), added[(Len(added) + 1) - 1])
             = Backwards(added, (Len(added) + 1) - 1)
      BY <3>1, <1>1, BackwardsOn
    <3> QED BY <3>1, <3>2, <2>6
  <2>8. /\ order' \in [Stack!Owners -> Seq(Resources)]
        /\ order'[c] = Backwards(added, Len(added))
        /\ \A d \in Stack!Owners : d # c => order'[d] = order[d]
    <3>1. order[c] \in Seq(Resources)
      BY <1>1 DEF DisposableIInv, DisposableTypes
    <3>2. Append(order[c], added[Len(added)]) \in Seq(Resources)
      BY <3>1, <2>0, AppendProperties
    <3> QED BY <2>1, <2>7, <3>2, <1>1 DEF DisposableIInv, DisposableTypes
  <2>9. Untouched' = Untouched \ {c}
    <3>1. ASSUME NEW d, d \in Untouched' PROVE d \in Untouched \ {c}
      <4>1. d # c
        BY <3>1, <2>2, <2>3, <2>5 DEF Untouched
      <4>2. \A n \in DOMAIN runs : runs'[n] = runs[n] /\ n \in DOMAIN runs'
        BY <2>3, <2>5
      <4> QED BY <3>1, <4>1, <4>2, <2>1 DEF Untouched
    <3>2. ASSUME NEW d, d \in Untouched, d # c PROVE d \in Untouched'
      <4>1. \A n \in DOMAIN runs' : runs'[n] = run \/ (n \in DOMAIN runs /\ runs'[n] = runs[n])
        BY <2>3, <2>4
      <4> QED BY <3>2, <4>1, <2>1, <2>2 DEF Untouched
    <3> QED BY <3>1, <3>2
  <2>10. DisposableTypes'
    BY <2>1, <2>3, <2>8, <1>2 DEF DisposableIInv, DisposableTypes
  <2>11. DisposedInTurn'
    <3>1. \A n \in DOMAIN runs' :
             (n = n0 /\ runs'[n] = run) \/ (n \in DOMAIN runs /\ runs'[n] = runs[n])
      BY <2>3, <2>4
    <3>2. \A m, n \in DOMAIN runs' : runs'[m].capability = runs'[n].capability => m = n
      BY <3>1, <2>2, <1>4 DEF DisposableIInv, DisposedInTurn
    <3>3. ASSUME NEW n \in DOMAIN runs'
          PROVE  /\ runs'[n].index \in 1 .. Len(entries[runs'[n].capability])
                 /\ thrown[runs'[n].capability] = Stack!Running
                 /\ runs'[n].completion = failure[runs'[n].capability] \o failed[runs'[n].capability]
                 /\ order'[runs'[n].capability] = Backwards(entries[runs'[n].capability], runs'[n].index)
      <4>1. CASE n \in DOMAIN runs /\ runs'[n] = runs[n]
        <5>1. /\ runs[n].index \in 1 .. Len(entries[runs[n].capability])
              /\ thrown[runs[n].capability] = Stack!Running
              /\ runs[n].completion = failure[runs[n].capability] \o failed[runs[n].capability]
              /\ order[runs[n].capability] = Backwards(entries[runs[n].capability], runs[n].index)
          BY <4>1 DEF DisposableIInv, DisposedInTurn
        <5>2. runs[n].capability \in Stack!Owners /\ runs[n].capability # c
          BY <4>1, <1>4, RunsAreOfOwners
        <5>3. order'[runs[n].capability] = order[runs[n].capability]
          BY <5>2, <2>8
        <5> QED BY <4>1, <5>1, <5>3
      <4>2. CASE runs'[n] = run
        <5>1. Len(added) \in 1 .. Len(added)
          BY <2>0
        <5> QED BY <4>2, <5>1, <2>2, <2>8, <1>3, <1>5
      <4> QED BY <3>1, <4>1, <4>2
    <3>4. \A d \in Untouched' : order'[d] = <<>> /\ failed[d] = <<>>
      <4>1. Untouched \subseteq Stack!Owners
        BY DEF Untouched
      <4> QED BY <4>1, <2>8, <2>9 DEF DisposableIInv, DisposedInTurn
    <3>5. \A d \in Stack!Owners : thrown[d] # Stack!Running =>
             order'[d] = Backwards(entries[d], 1) /\ thrown[d] = failure[d] \o failed[d]
      BY <1>3, <2>8 DEF DisposableIInv, DisposedInTurn
    <3> HIDE DEF c, added
    <3> QED BY <2>1, <3>2, <3>3, <3>4, <3>5 DEF DisposedInTurn
  <2> QED BY <1>7, <1>8, <2>9, <2>10, <2>11 DEF DisposableIInv
<1> QED BY <1>9, <1>10

\* A dispose method is over, or the promise that it returned.
LEMMA DisposeKeeps ==
    ASSUME DisposableIInv, NEW n \in DOMAIN runs, NEW fails \in BOOLEAN, Stack!Dispose(n, fails)
    PROVE  DisposableIInv'
<1> DEFINE c == runs[n].capability
           i == runs[n].index
           added == entries[c]
           r == added[i]
           completion == runs[n].completion \o (IF fails THEN <<r>> ELSE <<>>)
<1>1. /\ Stack!Visit(c, i - 1)
      /\ failed' = IF fails THEN [failed EXCEPT ![c] = Append(@, r)] ELSE failed
      /\ IF i - 1 = 0
         THEN runs' = Stack!RemoveAt(runs, n) /\ thrown' = [thrown EXCEPT ![c] = completion]
         ELSE /\ runs' = [runs EXCEPT ![n] = [capability |-> c, index |-> i - 1, completion |-> completion]]
              /\ UNCHANGED thrown
      /\ UNCHANGED <<owner, capability, entries, failure>>
  BY DEF Stack!Dispose, Stack!Completion, Stack!Run
<1>2. /\ c \in Stack!Owners /\ runs[n].completion \in Seq(Errors) /\ added \in Seq(Resources)
      /\ i \in 1 .. Len(added) /\ Len(added) \in Nat /\ r \in Resources
  <2>1. c \in Stack!Owners /\ runs[n].completion \in Seq(Errors)
    BY RunsAreOfOwners
  <2>2. added \in Seq(Resources)
    BY <2>1 DEF DisposableIInv, DisposableTypes
  <2>3. i \in 1 .. Len(added)
    BY DEF DisposableIInv, DisposedInTurn
  <2> QED BY <2>1, <2>2, <2>3
<1>3. /\ thrown[c] = Stack!Running /\ runs[n].completion = failure[c] \o failed[c]
      /\ order[c] = Backwards(added, i)
      /\ \A m \in DOMAIN runs : m # n => runs[m].capability # c
  BY DEF DisposableIInv, DisposedInTurn
<1>4. failure[c] \in Seq(Errors) /\ failed[c] \in Seq(Errors) /\ failed[c] \in Seq(Resources)
      /\ order[c] \in Seq(Resources) /\ r \in Errors
  <2>1. failure[c] \in {<<>>, <<"body">>} /\ "body" \in Errors /\ failed[c] \in Seq(Resources)
        /\ order[c] \in Seq(Resources)
    BY <1>2 DEF DisposableIInv, DisposableTypes, Errors
  <2>2. Resources \subseteq Errors
    BY DEF Errors
  <2>3. failed[c] \in Seq(Errors)
    BY <2>1, <2>2, SeqMonotonic
  <2>4. failure[c] \in Seq(Errors)
    BY <2>1, BodysErrors
  <2> QED BY <1>2, <2>1, <2>2, <2>3, <2>4
<1> HIDE DEF c, i, added, r
<1>5. /\ failed' \in [Stack!Owners -> Seq(Resources)]
      /\ failed'[c] = IF fails THEN Append(failed[c], r) ELSE failed[c]
      /\ \A d \in Stack!Owners : d # c => failed'[d] = failed[d]
  BY <1>1, <1>2, <1>4 DEF DisposableIInv, DisposableTypes
<1>6. completion = failure[c] \o failed'[c] /\ completion \in Seq(Errors)
  <2>1. CASE fails
    <3>1. <<r>> \in Seq(Errors)
      BY <1>4
    <3>2. Append(failed[c], r) = failed[c] \o <<r>>
      BY <1>4, AppendIsConcat
    <3>3. (failure[c] \o failed[c]) \o <<r>> = failure[c] \o (failed[c] \o <<r>>)
      <4>1. \A s, t, u \in Seq(Errors) : (s \o t) \o u = s \o (t \o u)
        BY ConcatAssociative
      <4> QED BY <4>1, <1>4, <3>1, Zenon
    <3>4. completion \in Seq(Errors)
      BY <2>1, <3>1, <1>2, ConcatProperties
    <3> QED BY <2>1, <3>2, <3>3, <3>4, <1>3, <1>5
  <2>2. CASE ~fails
    BY <2>2, <1>2, <1>3, <1>5, ConcatEmptySeq
  <2> QED BY <2>1, <2>2
<1> HIDE DEF completion
<1>7. OneCapabilityEach'
  BY <1>1 DEF DisposableIInv, OneCapabilityEach
<1>8. c \notin Untouched
  BY <1>3 DEF Untouched, c
<1>9. ASSUME Untouched' = Untouched
      PROVE  DisposedByOwners' /\ \A d \in Untouched' : failed'[d] = <<>>
  <2>1. DisposedByOwners'
    BY <1>1, <1>9 DEF DisposableIInv, DisposedByOwners
  <2>2. \A d \in Untouched : d # c /\ d \in Stack!Owners
    BY <1>8 DEF Untouched
  <2> QED BY <2>1, <2>2, <1>5, <1>9 DEF DisposableIInv, DisposedInTurn
<1>10. CASE i = 1
  <2>1. /\ order' = order /\ runs' = Stack!RemoveAt(runs, n)
        /\ thrown' = [thrown EXCEPT ![c] = completion]
    BY <1>1, <1>10 DEF Stack!Visit
  <2>2. /\ thrown' \in [Stack!Owners -> Seq(Errors) \cup {Stack!Running}]
        /\ thrown'[c] = completion /\ completion # Stack!Running
        /\ \A d \in Stack!Owners : d # c => thrown'[d] = thrown[d]
    BY <2>1, <1>2, <1>6, ErrorsAreNotRunning DEF DisposableIInv, DisposableTypes
  <2>3. runs \in Seq(DisposeRuns) /\ Len(runs) \in Nat /\ DOMAIN runs = 1 .. Len(runs)
    BY DEF DisposableIInv, DisposableTypes
  <2>4. /\ runs' \in Seq(DisposeRuns) /\ Len(runs') = Len(runs) - 1
        /\ \A m \in 1 .. Len(runs) - 1 : runs'[m] = IF m < n THEN runs[m] ELSE runs[m + 1]
    BY <2>1, <2>3, RemoveAtLeaves DEF Stack!RemoveAt, Events!RemoveAt
  <2> DEFINE at(m) == IF m < n THEN m ELSE m + 1
  <2>5. \A m \in DOMAIN runs' : at(m) \in DOMAIN runs /\ at(m) # n /\ runs'[m] = runs[at(m)]
    BY <2>3, <2>4
  <2>6. \A k \in DOMAIN runs : k # n => \E m \in DOMAIN runs' : runs'[m] = runs[k]
    <3> SUFFICES ASSUME NEW k \in DOMAIN runs, k # n PROVE \E m \in DOMAIN runs' : runs'[m] = runs[k]
      OBVIOUS
    <3>1. CASE k < n
      <4>1. k \in DOMAIN runs' /\ runs'[k] = runs[k]
        BY <3>1, <2>3, <2>4
      <4> QED BY <4>1
    <3>2. CASE ~(k < n)
      <4>1. k - 1 \in DOMAIN runs' /\ ~(k - 1 < n) /\ (k - 1) + 1 = k
        BY <3>2, <2>3, <2>4
      <4>2. runs'[k - 1] = runs[k]
        BY <4>1, <2>3, <2>4
      <4> QED BY <4>1, <4>2
    <3> QED BY <3>1, <3>2
  <2>7. \A k, m \in DOMAIN runs' : at(k) = at(m) => k = m
    BY <2>3, <2>4
  <2> HIDE DEF at
  <2>8. Untouched' = Untouched
    <3>1. ASSUME NEW d, d \in Untouched' PROVE d \in Untouched
      <4>1. d \in Stack!Owners /\ d # c /\ thrown[d] = Stack!Running
        BY <3>1, <2>2 DEF Untouched
      <4>2. \A k \in DOMAIN runs : runs[k].capability # d
        <5>1. \A k \in DOMAIN runs : k # n => runs[k].capability # d
          BY <3>1, <2>6 DEF Untouched
        <5> QED BY <5>1, <4>1 DEF c
      <4> QED BY <4>1, <4>2 DEF Untouched
    <3>2. ASSUME NEW d, d \in Untouched PROVE d \in Untouched'
      <4>1. d \in Stack!Owners /\ d # c /\ thrown'[d] = Stack!Running
        BY <3>2, <1>8, <2>2 DEF Untouched
      <4>2. \A m \in DOMAIN runs' : runs'[m].capability # d
        BY <3>2, <2>5 DEF Untouched
      <4> QED BY <4>1, <4>2 DEF Untouched
    <3> QED BY <3>1, <3>2
  <2>9. DisposableTypes'
    BY <1>1, <1>5, <2>1, <2>2, <2>4 DEF DisposableIInv, DisposableTypes
  <2>10. DisposedInTurn'
    <3>1. \A k, m \in DOMAIN runs' : runs'[k].capability = runs'[m].capability => k = m
      BY <2>5, <2>7 DEF DisposableIInv, DisposedInTurn
    <3>2. ASSUME NEW m \in DOMAIN runs'
          PROVE  /\ runs'[m].index \in 1 .. Len(entries[runs'[m].capability])
                 /\ thrown'[runs'[m].capability] = Stack!Running
                 /\ runs'[m].completion = failure[runs'[m].capability] \o failed'[runs'[m].capability]
                 /\ order[runs'[m].capability] = Backwards(entries[runs'[m].capability], runs'[m].index)
      <4>1. PICK k \in DOMAIN runs : k # n /\ runs'[m] = runs[k]
        BY <2>5
      <4>2. runs[k].capability # c /\ runs[k].capability \in Stack!Owners
        BY <4>1, <1>3, RunsAreOfOwners
      <4>3. failed'[runs[k].capability] = failed[runs[k].capability]
            /\ thrown'[runs[k].capability] = thrown[runs[k].capability]
        BY <4>2, <1>5, <2>2
      <4>4. /\ runs[k].index \in 1 .. Len(entries[runs[k].capability])
            /\ thrown[runs[k].capability] = Stack!Running
            /\ runs[k].completion = failure[runs[k].capability] \o failed[runs[k].capability]
            /\ order[runs[k].capability] = Backwards(entries[runs[k].capability], runs[k].index)
        BY <4>1 DEF DisposableIInv, DisposedInTurn
      <4> QED BY <4>1, <4>3, <4>4
    <3>3. \A d \in Untouched' : order[d] = <<>> /\ failed'[d] = <<>>
      BY <1>9, <2>8 DEF DisposableIInv, DisposedInTurn
    <3>4. \A d \in Stack!Owners : thrown'[d] # Stack!Running =>
             order[d] = Backwards(entries[d], 1) /\ thrown'[d] = failure[d] \o failed'[d]
      <4>1. order[c] = Backwards(entries[c], 1)
        BY <1>3, <1>10 DEF added
      <4> QED BY <4>1, <1>5, <1>6, <2>2 DEF DisposableIInv, DisposedInTurn
    <3>5. entries' = entries /\ failure' = failure /\ order' = order
      BY <1>1, <2>1
    <3> QED BY <3>1, <3>2, <3>3, <3>4, <3>5 DEF DisposedInTurn
  <2>11. DisposedByOwners'
    BY <1>9, <2>8
  <2> QED BY <1>7, <2>9, <2>10, <2>11 DEF DisposableIInv
<1>11. CASE i # 1
  <2> DEFINE run == [capability |-> c, index |-> i - 1, completion |-> completion]
  <2>0. i \in 2 .. Len(added) /\ i - 1 \in 1 .. Len(added) /\ i - 1 # 0 /\ i - 1 \in Nat
        /\ i \in 2 .. Len(added) + 1
    BY <1>2, <1>11
  <2>1. /\ order' = [order EXCEPT ![c] = Append(@, added[i - 1])]
        /\ runs' = [runs EXCEPT ![n] = run] /\ UNCHANGED thrown
    BY <1>1, <2>0 DEF Stack!Visit, added
  <2>2. run \in DisposeRuns /\ run.capability = c /\ run.index = i - 1 /\ run.completion = completion
    BY <2>0, <1>2, <1>6 DEF DisposeRuns
  <2> HIDE DEF run
  <2>3. /\ runs' \in Seq(DisposeRuns) /\ DOMAIN runs' = DOMAIN runs /\ runs'[n] = run
        /\ \A m \in DOMAIN runs : m # n => runs'[m] = runs[m]
    BY <2>1, <2>2 DEF DisposableIInv, DisposableTypes
  <2>4. \A m \in DOMAIN runs : runs'[m].capability = runs[m].capability
    BY <2>2, <2>3 DEF c
  <2>5. Untouched' = Untouched
    BY <2>1, <2>3, <2>4 DEF Untouched
  <2>6. Append(order[c], added[i - 1]) = Backwards(added, i - 1)
    BY <2>0, <1>2, <1>3, BackwardsOn
  <2>7. /\ order' \in [Stack!Owners -> Seq(Resources)]
        /\ order'[c] = Backwards(added, i - 1)
        /\ \A d \in Stack!Owners : d # c => order'[d] = order[d]
    <3>1. added[i - 1] \in Resources
      BY <1>2, <2>0
    <3>2. Append(order[c], added[i - 1]) \in Seq(Resources)
      BY <3>1, <1>4, AppendProperties
    <3> QED BY <3>2, <2>1, <2>6, <1>2 DEF DisposableIInv, DisposableTypes
  <2>8. DisposableTypes'
    BY <1>1, <1>5, <2>1, <2>3, <2>7 DEF DisposableIInv, DisposableTypes
  <2>9. DisposedInTurn'
    <3>1. \A k, m \in DOMAIN runs' : runs'[k].capability = runs'[m].capability => k = m
      BY <2>3, <2>4 DEF DisposableIInv, DisposedInTurn
    <3>2. ASSUME NEW m \in DOMAIN runs'
          PROVE  /\ runs'[m].index \in 1 .. Len(entries[runs'[m].capability])
                 /\ thrown[runs'[m].capability] = Stack!Running
                 /\ runs'[m].completion = failure[runs'[m].capability] \o failed'[runs'[m].capability]
                 /\ order'[runs'[m].capability] = Backwards(entries[runs'[m].capability], runs'[m].index)
      <4>1. CASE m = n
        BY <4>1, <2>0, <2>2, <2>3, <2>7, <1>3, <1>6 DEF added
      <4>2. CASE m # n
        <5>1. m \in DOMAIN runs /\ runs'[m] = runs[m]
          BY <4>2, <2>3
        <5>2. runs[m].capability # c /\ runs[m].capability \in Stack!Owners
          BY <4>2, <5>1, <1>3, RunsAreOfOwners
        <5>3. failed'[runs[m].capability] = failed[runs[m].capability]
              /\ order'[runs[m].capability] = order[runs[m].capability]
          BY <5>2, <1>5, <2>7
        <5>4. /\ runs[m].index \in 1 .. Len(entries[runs[m].capability])
              /\ thrown[runs[m].capability] = Stack!Running
              /\ runs[m].completion = failure[runs[m].capability] \o failed[runs[m].capability]
              /\ order[runs[m].capability] = Backwards(entries[runs[m].capability], runs[m].index)
          BY <5>1 DEF DisposableIInv, DisposedInTurn
        <5> QED BY <5>1, <5>3, <5>4
      <4> QED BY <4>1, <4>2
    <3>3. \A d \in Untouched' : order'[d] = <<>> /\ failed'[d] = <<>>
      <4>1. \A d \in Untouched : d # c /\ d \in Stack!Owners
        BY <1>8 DEF Untouched
      <4> QED BY <4>1, <1>9, <2>5, <2>7 DEF DisposableIInv, DisposedInTurn
    <3>4. \A d \in Stack!Owners : thrown[d] # Stack!Running =>
             order'[d] = Backwards(entries[d], 1) /\ thrown[d] = failure[d] \o failed'[d]
      BY <1>3, <1>5, <2>7 DEF DisposableIInv, DisposedInTurn
    <3>5. entries' = entries /\ failure' = failure /\ thrown' = thrown
      BY <1>1, <2>1
    <3> QED BY <3>1, <3>2, <3>3, <3>4, <3>5 DEF DisposedInTurn
  <2>10. DisposedByOwners'
    BY <1>9, <2>5
  <2> QED BY <1>7, <2>8, <2>9, <2>10 DEF DisposableIInv
<1> QED BY <1>10, <1>11

LEMMA DisposablePreserves ==
    DisposableIInv /\ (Stack!Next \/ UNCHANGED disposables) => DisposableIInv'
<1> SUFFICES ASSUME DisposableIInv, Stack!Next \/ UNCHANGED disposables PROVE DisposableIInv'
  OBVIOUS
<1>0. Stacks \subseteq Stack!Owners /\ Scopes \subseteq Stack!Owners
  BY DEF Stack!Owners
<1>1. ASSUME NEW s \in Stacks, Stack!Construct(s)
      PROVE  DisposableIInv'
  BY <1>0, <1>1, ConstructKeeps DEF Stack!Construct, Stack!NewDisposeCapability, Stack!Mark
<1>2. ASSUME NEW s \in Scopes, Stack!CreateScope(s)
      PROVE  DisposableIInv'
  BY <1>0, <1>2, ConstructKeeps DEF Stack!CreateScope, Stack!NewDisposeCapability, Stack!Mark
<1>3. ASSUME NEW s \in Stacks, Stack!DisposeStack(s)
      PROVE  DisposableIInv'
  <2>1. s \in Stack!Owners /\ owner[s] = "pending" /\ owner' = [owner EXCEPT ![s] = "disposed"]
    BY <1>0, <1>3 DEF Stack!DisposeStack, Stack!Mark
  <2>2. failure[capability[s]] = <<>>
    <3>1. capability[s] \in Stack!Owners /\ owner[capability[s]] \in {"pending", "disposed"}
      BY <2>1 DEF DisposableIInv, DisposableTypes, OneCapabilityEach
    <3> QED BY <3>1 DEF DisposableIInv, OneCapabilityEach
  <2>3. /\ Stack!DisposeResources(capability[s], failure[capability[s]])
        /\ UNCHANGED <<capability, entries, failure, failed>>
    BY <1>3, <2>2 DEF Stack!DisposeStack
  <2> QED BY <2>1, <2>3, BeginKeeps
<1>4. ASSUME NEW s \in Scopes, Stack!EndScope(s)
      PROVE  DisposableIInv'
  <2>1. s \in Stack!Owners /\ owner[s] = "initialized" /\ owner' = [owner EXCEPT ![s] = "done"]
    BY <1>0, <1>4 DEF Stack!EndScope, Stack!Mark
  <2>2. capability[s] = s
    BY <2>1 DEF DisposableIInv, OneCapabilityEach
  <2>3. /\ Stack!DisposeResources(capability[s], failure[capability[s]])
        /\ UNCHANGED <<capability, entries, failure, failed>>
    BY <1>4, <2>2 DEF Stack!EndScope
  <2> QED BY <2>1, <2>3, BeginKeeps
<1>5. ASSUME NEW s \in Stacks, NEW r \in Resources, Stack!Use(s, r)
      PROVE  DisposableIInv'
  BY <1>0, <1>5, AddKeeps DEF Stack!Use
<1>6. ASSUME NEW s \in Scopes, NEW r \in Resources, Stack!Using(s, r)
      PROVE  DisposableIInv'
  BY <1>0, <1>6, AddKeeps DEF Stack!Using
<1>7. ASSUME NEW s \in Scopes, Stack!Fail(s)
      PROVE  DisposableIInv'
  BY <1>0, <1>7, FailKeeps DEF Stack!Fail, Stack!Body
<1>8. ASSUME NEW s \in Stacks, NEW t \in Stacks, Stack!Move(s, t)
      PROVE  DisposableIInv'
  BY <1>0, <1>8, MoveKeeps
<1>9. CASE Stack!DisposeStep
  <2>1. PICK n \in DOMAIN runs :
           \E fails \in Stack!Fails(entries[runs[n].capability][runs[n].index]) : Stack!Dispose(n, fails)
    BY <1>9 DEF Stack!DisposeStep
  <2>2. PICK fails \in BOOLEAN : Stack!Dispose(n, fails)
    BY <2>1 DEF Stack!Fails
  <2> QED BY <2>2, DisposeKeeps
<1>10. CASE UNCHANGED disposables
  <2>1. UNCHANGED <<owner, capability, entries, runs, failure, order, failed, thrown>>
    BY <1>10 DEF disposables
  <2>2. Untouched' = Untouched
    BY <2>1 DEF Untouched
  <2>3. DisposableTypes' /\ OneCapabilityEach'
    BY <2>1 DEF DisposableIInv, DisposableTypes, OneCapabilityEach
  <2>4. DisposedByOwners'
    BY <2>1, <2>2 DEF DisposableIInv, DisposedByOwners
  <2>5. DisposedInTurn'
    BY <2>1, <2>2 DEF DisposableIInv, DisposedInTurn
  <2> QED BY <2>3, <2>4, <2>5 DEF DisposableIInv
<1>11. CASE Stack!StackNext
  BY <1>11, <1>1, <1>3, <1>5, <1>8 DEF Stack!StackNext, Stack!Adopt, Stack!Defer, Resources
<1>12. CASE Stack!AsyncStackNext
  BY <1>12, <1>1, <1>3, <1>5, <1>8
  DEF Stack!AsyncStackNext, Stack!ConstructAsync, Stack!DisposeAsync, Stack!UseAsync,
      Stack!AdoptAsync, Stack!DeferAsync, Stack!MoveAsync, Resources
<1>13. CASE Stack!ScopeNext
  BY <1>13, <1>2, <1>4, <1>6, <1>7 DEF Stack!ScopeNext, Resources
<1>14. CASE Stack!AsyncScopeNext
  BY <1>14, <1>2, <1>4, <1>6, <1>7 DEF Stack!AsyncScopeNext, Stack!EndAsyncScope, Resources
<1> QED BY <1>9, <1>10, <1>11, <1>12, <1>13, <1>14 DEF Stack!Next

\* What DisposableIInv is for: no resource is lost or shared, ...
LEMMA DisposableIInvOwns == DisposableIInv => Stack!OneOwner
<1> SUFFICES ASSUME DisposableIInv PROVE Stack!OneOwner
  OBVIOUS
<1>1. \A c \in Stack!Owners : c \in Untouched <=> thrown[c] = Stack!Running /\ ~Stack!Disposing(c)
  BY DEF Untouched, Stack!Disposing
<1>2. ASSUME NEW c \in Stack!Owners, entries[c] # <<>>, c \in Untouched
      PROVE  \E o \in Stack!Owners : Stack!Live(o) /\ capability[o] = c
  <2>1. PICK o \in Stack!Owners : capability[o] = c
    BY DEF DisposableIInv, OneCapabilityEach
  <2>2. owner[o] # "none"
    <3>1. owner[o] = "none" => o = c /\ entries[o] = <<>>
      BY <2>1 DEF DisposableIInv, OneCapabilityEach, DisposedByOwners
    <3> QED BY <3>1, <1>2
  <2>3. owner[o] \notin {"disposed", "done"}
    BY <2>1, <1>2 DEF DisposableIInv, DisposedByOwners
  <2>4. owner[o] \in {"pending", "initialized"}
    BY <2>2, <2>3 DEF DisposableIInv, DisposableTypes
  <2> QED BY <2>1, <2>4 DEF Stack!Live
<1>3. ASSUME NEW o \in Stack!Owners, Stack!Live(o)
      PROVE  /\ capability[o] \in Untouched /\ capability[o] \in Stack!Owners
             /\ \A p \in Stack!Owners : Stack!Live(p) /\ capability[p] = capability[o] => p = o
  BY <1>3 DEF Stack!Live, DisposableIInv, DisposableTypes, DisposedByOwners, OneCapabilityEach
<1> QED BY <1>1, <1>2, <1>3 DEF Stack!OneOwner

\* ... and it is disposed in its turn.
LEMMA ReverseOfTheRest ==
    ASSUME NEW S, NEW added \in Seq(S), NEW i \in 1 .. Len(added) + 1
    PROVE  Stack!Reverse(SubSeq(added, i, Len(added))) = Backwards(added, i)
<1> DEFINE rest == SubSeq(added, i, Len(added))
           n == Len(added) - i + 1
<1>0. Len(added) \in Nat /\ n \in Nat /\ i \in Nat
  OBVIOUS
<1>1. rest \in Seq(S) /\ Len(rest) = n /\ \A j \in 1 .. n : rest[j] = added[i + j - 1]
  OBVIOUS
<1> HIDE DEF rest
<1>2. Stack!Reverse(rest) = [j \in 1 .. n |-> rest[(n - j) + 1]]
  BY <1>1 DEF Stack!Reverse
<1>3. \A j \in 1 .. n : (n - j) + 1 \in 1 .. n /\ i + ((n - j) + 1) - 1 = Len(added) - j + 1
  BY <1>0
<1> HIDE DEF n
<1>4. \A j \in 1 .. n : rest[(n - j) + 1] = added[Len(added) - j + 1]
  <2> SUFFICES ASSUME NEW j \in 1 .. n PROVE rest[(n - j) + 1] = added[Len(added) - j + 1]
    OBVIOUS
  <2>1. (n - j) + 1 \in 1 .. n
    BY <1>3
  <2>2. rest[(n - j) + 1] = added[i + ((n - j) + 1) - 1]
    BY <1>1, <2>1
  <2>3. i + ((n - j) + 1) - 1 = Len(added) - j + 1
    BY <1>3
  <2> QED BY <2>2, <2>3
<1>5. [j \in 1 .. n |-> rest[(n - j) + 1]] = [j \in 1 .. n |-> added[Len(added) - j + 1]]
  BY <1>4
<1> QED BY <1>2, <1>5 DEF rest, n, Backwards

LEMMA DisposableIInvDisposes == DisposableIInv => Stack!DisposedAsAdded
<1> SUFFICES ASSUME DisposableIInv, NEW c \in Stack!Owners
             PROVE  /\ order[c] = Stack!Reverse(SubSeq(entries[c], Stack!Reached(c), Len(entries[c])))
                    /\ thrown[c] # Stack!Running => thrown[c] = failure[c] \o failed[c]
  BY DEF Stack!DisposedAsAdded
<1>0. entries[c] \in Seq(Resources) /\ Len(entries[c]) \in Nat
  BY DEF DisposableIInv, DisposableTypes
<1>1. CASE thrown[c] # Stack!Running
  <2>1. order[c] = Backwards(entries[c], 1) /\ thrown[c] = failure[c] \o failed[c]
    BY <1>1 DEF DisposableIInv, DisposedInTurn
  <2>2. Stack!Reached(c) = 1 /\ 1 \in 1 .. Len(entries[c]) + 1
    BY <1>0, <1>1 DEF Stack!Reached
  <2>3. Stack!Reverse(SubSeq(entries[c], 1, Len(entries[c]))) = Backwards(entries[c], 1)
    BY <1>0, <2>2, ReverseOfTheRest
  <2> QED BY <2>1, <2>2, <2>3
<1>2. CASE thrown[c] = Stack!Running /\ Stack!Disposing(c)
  <2>1. PICK n \in DOMAIN runs : runs[n].capability = c
    BY <1>2 DEF Stack!Disposing
  <2>2. \A m \in DOMAIN runs : runs[m].capability = c => m = n
    BY <2>1 DEF DisposableIInv, DisposedInTurn
  <2>3. (CHOOSE m \in DOMAIN runs : runs[m].capability = c) = n
    BY <2>1, <2>2
  <2>4. Stack!Reached(c) = runs[n].index
    BY <1>2, <2>3 DEF Stack!Reached
  <2>5. runs[n].index \in 1 .. Len(entries[c]) /\ order[c] = Backwards(entries[c], runs[n].index)
    BY <2>1 DEF DisposableIInv, DisposedInTurn
  <2>6. runs[n].index \in 1 .. Len(entries[c]) + 1
    BY <1>0, <2>5
  <2>7. Stack!Reverse(SubSeq(entries[c], runs[n].index, Len(entries[c]))) = Backwards(entries[c], runs[n].index)
    BY <1>0, <2>6, ReverseOfTheRest
  <2> QED BY <1>2, <2>4, <2>5, <2>7
<1>3. CASE thrown[c] = Stack!Running /\ ~Stack!Disposing(c)
  <2>1. c \in Untouched
    BY <1>3 DEF Untouched, Stack!Disposing
  <2>2. order[c] = <<>>
    BY <2>1 DEF DisposableIInv, DisposedInTurn
  <2>3. Stack!Reached(c) = Len(entries[c]) + 1
    BY <1>3 DEF Stack!Reached
  <2>4. Len(entries[c]) + 1 \in 1 .. Len(entries[c]) + 1
    BY <1>0
  <2>5. Stack!Reverse(SubSeq(entries[c], Len(entries[c]) + 1, Len(entries[c])))
           = Backwards(entries[c], Len(entries[c]) + 1)
    BY <1>0, <2>4, ReverseOfTheRest
  <2>6. Backwards(entries[c], Len(entries[c]) + 1) = <<>>
    BY <1>0, BackwardsOn
  <2> QED BY <1>3, <2>2, <2>3, <2>5, <2>6
<1> QED BY <1>1, <1>2, <1>3

-----------------------------------------------------------------------------
(* All of them *)

ResourceIInv == LazyIInv /\ DelayIInv /\ MemoIInv /\ EventIInv /\ DisposableIInv

LEMMA AllStarts == AllInit => ResourceIInv
<1> SUFFICES ASSUME AllInit PROVE ResourceIInv
  OBVIOUS
<1>1. Lazy!Init \/ Lazy!InitAsync
  BY DEF AllInit
<1>2. Stack!Init /\ Events!Init /\ Delay!Init /\ Memo!Init
  BY DEF AllInit
<1> QED BY <1>1, <1>2, LazyStarts, DelayStarts, MemoStarts, EventStarts, DisposableStarts DEF ResourceIInv

\* A step of AllNext is a step of one object.
LEMMA OneObjectSteps ==
    [AllNext]_all => /\ Lazy!Next \/ Lazy!NextAsync \/ UNCHANGED lazies
                     /\ Delay!Next \/ UNCHANGED delay
                     /\ Memo!Next \/ UNCHANGED memo
                     /\ Events!Next \/ UNCHANGED events
                     /\ Stack!Next \/ UNCHANGED disposables
<1> SUFFICES ASSUME [AllNext]_all
             PROVE  /\ Lazy!Next \/ Lazy!NextAsync \/ UNCHANGED lazies
                    /\ Delay!Next \/ UNCHANGED delay
                    /\ Memo!Next \/ UNCHANGED memo
                    /\ Events!Next \/ UNCHANGED events
                    /\ Stack!Next \/ UNCHANGED disposables
  OBVIOUS
<1>1. CASE TokenStep
  BY <1>1, Zenon DEF TokenStep
<1>2. CASE DisposableStep
  BY <1>2, Zenon DEF DisposableStep
<1>3. CASE EventStep
  BY <1>3, Zenon DEF EventStep
<1>4. CASE LazyStep
  BY <1>4, Zenon DEF LazyStep
<1>5. CASE DelayStep
  BY <1>5, Zenon DEF DelayStep
<1>6. CASE HashStep
  BY <1>6, Zenon DEF HashStep
<1>7. CASE ListStep
  BY <1>7, Zenon DEF ListStep
<1>8. CASE MapStep
  BY <1>8, Zenon DEF MapStep
<1>9. CASE MemoStep
  BY <1>9, Zenon DEF MemoStep
<1>10. CASE UNCHANGED all
  BY <1>10, Zenon DEF all
<1> QED BY <1>1, <1>2, <1>3, <1>4, <1>5, <1>6, <1>7, <1>8, <1>9, <1>10, Zenon DEF AllNext

LEMMA AllInvariance == AllSpec => []ResourceIInv
<1>1. ResourceIInv /\ [AllNext]_all => ResourceIInv'
  BY OneObjectSteps, LazyPreserves, DelayPreserves, MemoPreserves, EventPreserves,
     DisposablePreserves, Zenon DEF ResourceIInv
<1> QED BY <1>1, AllStarts, PTL DEF AllSpec

\* The tokens of MCResources are those of CancelToken: what is proved of them there holds
\* here.
THEOREM TokensAmongResources == AllSpec => Spec
<1>1. AllInit => Init
  BY DEF AllInit
<1>2. [AllNext]_all => [Next]_vars
  <2> SUFFICES ASSUME [AllNext]_all PROVE Next \/ UNCHANGED tokens
    BY DEF tokens
  <2>1. CASE TokenStep
    BY <2>1, Zenon DEF TokenStep
  <2>2. CASE DisposableStep \/ EventStep \/ LazyStep \/ DelayStep
    BY <2>2, Zenon DEF DisposableStep, EventStep, LazyStep, DelayStep
  <2>3. CASE HashStep \/ ListStep \/ MapStep \/ MemoStep
    BY <2>3, Zenon DEF HashStep, ListStep, MapStep, MemoStep
  <2>4. CASE UNCHANGED all
    BY <2>4, Zenon DEF all
  <2> QED BY <2>1, <2>2, <2>3, <2>4, Zenon DEF AllNext
<1> QED BY <1>1, <1>2, PTL DEF AllSpec, Spec

\* No sequence of use(), adopt(), defer(), move(), dispose() and of calls out of dispose
\* methods loses a resource or gives it two owners (Disposables.OneOwner).
THEOREM ResourcesAreOwned == AllSpec => []OneOwner
<1>1. ResourceIInv => OneOwner
  BY DisposableIInvOwns DEF ResourceIInv, OneOwner
<1> QED BY <1>1, AllInvariance, PTL

\* DisposeResources goes through what was added from the last to the first, each once and
\* past every error, and throws all the errors (Disposables.DisposedAsAdded).
THEOREM ResourcesAreDisposed == AllSpec => []DisposedAsAdded
<1>1. ResourceIInv => DisposedAsAdded
  BY DisposableIInvDisposes DEF ResourceIInv, DisposedAsAdded
<1> QED BY <1>1, AllInvariance, PTL

\* Listeners of once(), factories of lazy values and memoized functions run once, and a
\* delay that is settled leaves neither its timer nor its subscription behind.
THEOREM OnceIsEnough == AllSpec => []OnceOnly
<1>1. LazyIInv => Lazy!EvaluatedOnce
  BY DEF LazyIInv, Lazy!EvaluatedOnce
<1>2. DelayIInv => Delay!NothingLeft
  BY DEF DelayIInv
<1>3. ResourceIInv => OnceOnly
  BY <1>1, <1>2, MemoIInvMeans, EventIInvMeans DEF ResourceIInv, OnceOnly
<1> QED BY <1>3, AllInvariance, PTL

-----------------------------------------------------------------------------
(* Their types: the form of an event's list, and what is memoized.         *)

\* In which form the list of an event is kept.
FormIs == /\ form \in {"undefined", "function", "array"}
          /\ form = "undefined" => list = <<>>
          /\ form = "function" => Len(list) = 1

LEMMA FormInserted == ASSUME EventIInv, FormIs, NEW e, Events!Insert(e) PROVE FormIs'
<1>1. list \in Seq(EventListeners)
  BY DEF EventIInv
<1>2. CASE Events!AddListener(e)
  <2>1. list = <<>> => Len(Append(list, e)) = 1
    OBVIOUS
  <2> QED BY <1>2, <2>1 DEF Events!AddListener, FormIs
<1>3. CASE Events!PrependListener(e)
  BY <1>3 DEF Events!PrependListener, FormIs
<1> QED BY <1>2, <1>3 DEF Events!Insert

\* At most one listener is taken out of the list.
Single(match) == \A m, n \in DOMAIN list : match[m] /\ match[n] => m = n

LEMMA FormRemoved ==
    ASSUME EventIInv, FormIs, NEW match, Single(match), Events!RemoveListener(match) PROVE FormIs'
<1>1. list \in Seq(EventListeners) /\ Len(list) \in Nat /\ DOMAIN list = 1 .. Len(list)
  BY DEF EventIInv
<1>2. CASE list' = list
  BY <1>2 DEF Events!RemoveListener, FormIs
<1>3. CASE list' # list
  <2> DEFINE found == {n \in DOMAIN list : match[n]}
             i == CHOOSE n \in found : \A m \in found : n <= m
  <2>1. found # {} /\ list' = Events!RemoveAt(list, i)
    BY <1>3 DEF Events!RemoveListener, Events!Removed
  <2>2. PICK k \in DOMAIN list : found = {k}
    BY <2>1 DEF Single
  <2>3. k <= k
    BY <1>1
  <2> HIDE DEF found
  <2>4. i = k
    BY <2>2, <2>3
  <2> HIDE DEF i
  <2>5. Len(list') = Len(list) - 1 /\ list' \in Seq(EventListeners)
    BY <1>1, <2>1, <2>2, <2>4, RemoveAtLeaves
  <2>6. form # "undefined"
    BY <1>1, <2>2 DEF FormIs
  <2>7. form = "function" => list' = <<>>
    BY <2>5, <1>1, EmptySeq DEF FormIs
  <2> QED BY <1>3, <2>6, <2>7 DEF Events!RemoveListener, FormIs
<1> QED BY <1>2, <1>3

\* The listeners of one function, and of one wrap.
LEMMA Singles ==
    ASSUME EventIInv
    PROVE  /\ \A f : Single([n \in DOMAIN list |-> list[n].fn = f])
           /\ \A i : i \in DOMAIN wraps => Single([n \in DOMAIN list |-> list[n].wrap = i])
<1>1. \A m, n \in DOMAIN list : list[m].fn = list[n].fn => m = n
  BY DEF EventIInv
<1>2. ASSUME NEW i \in DOMAIN wraps, NEW n \in DOMAIN list, list[n].wrap = i
      PROVE  list[n].fn = wraps[i].fn
  <2>1. Wrapped(list[n], wraps)
    BY Zenon DEF EventIInv
  <2>2. i # 0
    <3>1. DOMAIN wraps = 1 .. Len(wraps) /\ Len(wraps) \in Nat
      BY DEF EventIInv
    <3> QED BY <3>1
  <2> QED BY <1>2, <2>1, <2>2, Zenon DEF Wrapped
<1>3. ASSUME NEW f PROVE Single([n \in DOMAIN list |-> list[n].fn = f])
  BY <1>1, Zenon DEF Single
<1>4. ASSUME NEW i \in DOMAIN wraps PROVE Single([n \in DOMAIN list |-> list[n].wrap = i])
  <2> SUFFICES ASSUME NEW m \in DOMAIN list, NEW n \in DOMAIN list,
                      list[m].wrap = i, list[n].wrap = i
               PROVE  m = n
    BY Zenon DEF Single
  <2>1. list[m].fn = wraps[i].fn
    BY <1>2, Zenon
  <2>2. list[n].fn = wraps[i].fn
    BY <1>2, Zenon
  <2>3. list[m].fn = list[n].fn
    BY <2>1, <2>2
  <2> QED BY <1>1, <2>3, Zenon
<1> QED BY <1>3, <1>4, Zenon

LEMMA FormSteps == EventIInv /\ FormIs /\ (Events!Next \/ UNCHANGED events) => FormIs'
<1> SUFFICES ASSUME EventIInv, FormIs, Events!Next \/ UNCHANGED events PROVE FormIs'
  OBVIOUS
<1> DEFINE Removes == \E match : Single(match) /\ Events!RemoveListener(match)
<1>0. Removes => FormIs'
  BY FormRemoved
<1>1. ASSUME NEW e, Events!Call(e) PROVE FormIs'
  <2>1. (form' = form /\ list' = list) \/ Removes
    BY <1>1, Singles DEF Events!Call, Events!CallOnce
  <2>2. CASE form' = form /\ list' = list
    BY <2>2 DEF FormIs
  <2> QED BY <2>1, <2>2, <1>0
<1>2. ASSUME NEW f, \/ Events!On(f) \/ Events!Once(f) \/ Events!Off(f)
                    \/ \E once \in BOOLEAN : Events!Subscribe(f, once)
      PROVE  FormIs'
  <2>1. (\E e : Events!Insert(e)) \/ Removes
    BY <1>2, Singles DEF Events!On, Events!Once, Events!Off, Events!Subscribe, Events!Wrap
  <2> QED BY <2>1, <1>0, FormInserted
<1>3. ASSUME NEW i, Events!Unsubscribe(i) PROVE FormIs'
  BY <1>0, <1>3, Singles DEF Events!Unsubscribe
<1>4. CASE Events!RemoveAllListeners
  BY <1>4 DEF Events!RemoveAllListeners, FormIs
<1>5. CASE Events!Emit \/ Events!CallNext
  <2>1. (form' = form /\ list' = list) \/ \E e : Events!Call(e)
    BY <1>5 DEF Events!Emit, Events!CallNext
  <2>2. CASE form' = form /\ list' = list
    BY <2>2 DEF FormIs
  <2> QED BY <2>1, <2>2, <1>1
<1>6. CASE Events!EmitEnds \/ UNCHANGED events
  BY <1>6 DEF Events!EmitEnds, events, FormIs
<1> QED BY <1>2, <1>3, <1>4, <1>5, <1>6 DEF Events!Next

\* How often a cache of memoized results is cleared is bounded.
ClearsBounded == clears \in 0 .. MaxClears

LEMMA ClearsSteps == ClearsBounded /\ (Memo!Next \/ UNCHANGED memo) => ClearsBounded'
<1>1. Memo!Next \/ UNCHANGED memo => clears' = clears \/ Memo!Clear
  BY Zenon DEF Memo!Next, Memo!Answer, Memo!Start, Memo!Finish, memo
<1>2. ClearsBounded /\ Memo!Clear => ClearsBounded'
  BY Limits DEF ClearsBounded, Memo!Clear
<1> QED BY <1>1, <1>2 DEF ClearsBounded

LEMMA MemoTyped == MemoIInv /\ ClearsBounded => Memo!TypeOK
<1> SUFFICES ASSUME MemoIInv, ClearsBounded PROVE Memo!TypeOK
  OBVIOUS
<1>1. ASSUME NEW args \in Arguments PROVE results[args] \in Memo!Results
  <2>1. results[args] \in MemoResults
    BY DEF MemoIInv
  <2>2. PICK s \in {"none", "circular", "fulfilled", "rejected"}, m \in Nat :
           results[args] = [status |-> s, made |-> m]
    BY <2>1 DEF MemoResults
  <2>3. CASE s \in {"fulfilled", "rejected"}
    <3>1. results[args].made = clears
      BY <2>2, <2>3 DEF MemoIInv
    <3> QED BY <2>2, <2>3, <3>1 DEF ClearsBounded, Memo!Results
  <2>4. CASE s \in {"none", "circular"}
    <3>1. results[args] \in {Memo!None, Memo!Circular}
      BY <2>2, <2>4 DEF MemoIInv
    <3> QED BY <3>1 DEF Memo!Results
  <2> QED BY <2>3, <2>4
<1>2. \A args \in Arguments : results[args] = Memo!Circular <=> Memo!Evaluates(args)
  BY DEF MemoIInv
<1>3. results \in [Arguments -> Memo!Results]
  <2>1. results = [args \in Arguments |-> results[args]]
    BY DEF MemoIInv
  <2> QED BY <1>1, <2>1
<1> QED BY <1>2, <1>3 DEF Memo!TypeOK

LEMMA EventsTyped == EventIInv /\ FormIs => Events!TypeOK
<1> SUFFICES ASSUME EventIInv, FormIs PROVE Events!TypeOK
  OBVIOUS
<1>1. ASSUME NEW n \in DOMAIN list PROVE list[n].fn \in Functions /\ list[n].wrap \in 0 .. Len(wraps)
  <2>1. list[n] \in EventListeners /\ Wrapped(list[n], wraps)
    BY DEF EventIInv
  <2> QED BY <2>1 DEF EventListeners, Wrapped
<1>2. done \subseteq DOMAIN wraps
  BY DEF EventIInv
<1> QED BY <1>1, <1>2 DEF Events!TypeOK, FormIs

LEMMA StackTyped == DisposableIInv => Stack!TypeOK
<1> SUFFICES ASSUME DisposableIInv PROVE Stack!TypeOK
  OBVIOUS
<1>1. ASSUME NEW n \in DOMAIN runs PROVE runs[n].index \in DOMAIN entries[runs[n].capability]
  <2>1. runs[n] \in DisposeRuns
    BY DEF DisposableIInv, DisposableTypes
  <2>2. entries[runs[n].capability] \in Seq(Resources)
    BY <2>1 DEF DisposableIInv, DisposableTypes, DisposeRuns
  <2>3. runs[n].index \in 1 .. Len(entries[runs[n].capability])
    BY DEF DisposableIInv, DisposedInTurn
  <2> QED BY <2>2, <2>3
<1> QED BY <1>1 DEF DisposableIInv, DisposableTypes, Stack!TypeOK, Stack!Body, Resources

-----------------------------------------------------------------------------
(* MultiMap, SortedMap and SortedSet: a step of each is a step of its      *)
(* instance in CollectionProofs, where its invariant is proved.            *)

SortedMaps == INSTANCE CollectionProofs WITH
    Keys <- 1 .. 4, Values <- {"u", "v"}, _keys <- keys, _values <- values, _map <- map,
    Nodes <- DOMAIN Numbered, Value <- Numbered, MaxGiven <- 3,
    _head <- head, _previous <- back, _next <- forth, _size <- length,
    Hash <- HashOf, Primes <- {2, 5}, MaxEntries <- 3, MaxReuses <- 1,
    entries <- slots, object <- entry
SortedSets == INSTANCE CollectionProofs WITH
    Keys <- DOMAIN HashOf, Values <- 1 .. 4, _keys <- keys, _values <- values, _map <- map,
    Nodes <- DOMAIN Numbered, Value <- Numbered, MaxGiven <- 3,
    _head <- head, _previous <- back, _next <- forth, _size <- length,
    Hash <- HashOf, Primes <- {2, 5}, MaxEntries <- 3, MaxReuses <- 1,
    entries <- slots, object <- entry
MultiMaps == INSTANCE CollectionProofs WITH
    Keys <- {"k1", "k2"}, Values <- {"u", "v", "w"}, _keys <- keys, _values <- values, _map <- map,
    Nodes <- DOMAIN Numbered, Value <- Numbered, MaxGiven <- 3,
    _head <- head, _previous <- back, _next <- forth, _size <- length,
    Hash <- HashOf, Primes <- {2, 5}, MaxEntries <- 2, MaxReuses <- 1,
    entries <- slots, object <- entry

\* The invariant of the one that the behaviour is about.
CountedIInv == /\ object = "multimap" => MultiMaps!MultiIInv
               /\ object = "sortedmap" => SortedMaps!SortedIInv
               /\ object = "sortedset" => SortedSets!SetIInv

\* The operators of one instance are those of the other, for the same constants.
LEMMA MultiMapSteps == Multi!Next => MultiMaps!Multi!Next
BY Zenon DEF Multi!Next, MultiMaps!Multi!Next, Multi!Add, MultiMaps!Multi!Add,
     Multi!Delete, MultiMaps!Multi!Delete, Multi!DeleteValue, MultiMaps!Multi!DeleteValue,
     Multi!Clear, MultiMaps!Multi!Clear, Multi!With, MultiMaps!Multi!With,
     Multi!Without, MultiMaps!Multi!Without, Multi!Restrict, MultiMaps!Multi!Restrict,
     Multi!Cardinality, MultiMaps!Multi!Cardinality,
     Multi!IsFiniteSet, MultiMaps!Multi!IsFiniteSet

LEMMA MultiMapPreserves == object = "multimap" /\ CountedIInv /\ MapStep => CountedIInv'
<1> SUFFICES ASSUME object = "multimap", CountedIInv, MapStep PROVE CountedIInv'
  OBVIOUS
<1>1. object' = "multimap" /\ Multi!Next
  BY Zenon DEF MapStep, About
<1>2. MultiMaps!MultiIInv'
  BY <1>1, MultiMaps!MultiPreserves, MultiMapSteps, Zenon DEF CountedIInv
<1> QED BY <1>1, <1>2, Zenon DEF CountedIInv

LEMMA SortedMapSteps == Sorted!Next => SortedMaps!Sorted!Next
BY Zenon DEF Sorted!Next, SortedMaps!Sorted!Next, Sorted!Set, SortedMaps!Sorted!Set,
     Sorted!Delete, SortedMaps!Sorted!Delete, Sorted!Clear, SortedMaps!Sorted!Clear,
     Sorted!Has, SortedMaps!Sorted!Has, Sorted!Place, SortedMaps!Sorted!Place,
     Sorted!binarySearch, SortedMaps!Sorted!binarySearch,
     Sorted!Complement, SortedMaps!Sorted!Complement,
     Sorted!Inserted, SortedMaps!Sorted!Inserted, Sorted!Removed, SortedMaps!Sorted!Removed,
     Sorted!InsertAt, SortedMaps!Sorted!InsertAt, Sorted!RemoveAt, SortedMaps!Sorted!RemoveAt

LEMMA SortedSetSteps == Ordered!SetNext => SortedSets!Sorted!SetNext
BY Zenon DEF Ordered!SetNext, SortedSets!Sorted!SetNext, Ordered!Add, SortedSets!Sorted!Add,
     Ordered!DeleteValue, SortedSets!Sorted!DeleteValue, Ordered!ClearValues, SortedSets!Sorted!ClearValues,
     Ordered!HasValue, SortedSets!Sorted!HasValue, Ordered!PlaceOf, SortedSets!Sorted!PlaceOf,
     Ordered!binarySearch, SortedSets!Sorted!binarySearch,
     Ordered!Complement, SortedSets!Sorted!Complement,
     Ordered!Inserted, SortedSets!Sorted!Inserted, Ordered!Removed, SortedSets!Sorted!Removed,
     Ordered!InsertAt, SortedSets!Sorted!InsertAt, Ordered!RemoveAt, SortedSets!Sorted!RemoveAt

LEMMA KeysAreInts == SortedMaps!AreInts(1 .. 4) /\ SortedSets!AreInts(1 .. 4)
BY DEF SortedMaps!AreInts, SortedSets!AreInts

LEMMA MapPreserves == CountedIInv /\ MapStep => CountedIInv'
<1> SUFFICES ASSUME CountedIInv, MapStep PROVE CountedIInv'
  OBVIOUS
<1>1. CASE object = "multimap"
  BY <1>1, MultiMapPreserves
<1>2. CASE object = "sortedmap"
  <2>1. object' = "sortedmap" /\ Sorted!Next
    BY <1>2, Zenon DEF MapStep, About
  <2>2. SortedMaps!SortedIInv'
    BY <1>2, <2>1, KeysAreInts, SortedMaps!SortedPreserves, SortedMapSteps, Zenon DEF CountedIInv
  <2> QED BY <2>1, <2>2, Zenon DEF CountedIInv
<1>3. CASE object = "sortedset"
  <2>1. object' = "sortedset" /\ Ordered!SetNext
    BY <1>3, Zenon DEF MapStep, About
  <2>2. SortedSets!SetIInv'
    BY <1>3, <2>1, KeysAreInts, SortedSets!SetPreserves, SortedSetSteps, Zenon DEF CountedIInv
  <2> QED BY <2>1, <2>2, Zenon DEF CountedIInv
<1> QED BY <1>1, <1>2, <1>3, Zenon DEF MapStep, About

LEMMA CountedKept == CountedIInv /\ object' = object /\ UNCHANGED maps => CountedIInv'
<1> SUFFICES ASSUME CountedIInv, object' = object, UNCHANGED maps PROVE CountedIInv'
  OBVIOUS
<1>1. map' = map /\ count' = count /\ keys' = keys /\ values' = values
  BY DEF maps
<1> QED BY <1>1, Zenon DEF CountedIInv, MultiMaps!MultiIInv, SortedMaps!SortedIInv, SortedSets!SetIInv,
        MultiMaps!Multi!Pairs, SortedMaps!Sorted!Sorted, SortedSets!Sorted!Sorted

LEMMA CountedSteps == CountedIInv /\ [AllNext]_all => CountedIInv'
<1> SUFFICES ASSUME CountedIInv, [AllNext]_all PROVE CountedIInv'
  OBVIOUS
<1>1. MapStep \/ (object' = object /\ UNCHANGED maps)
  <2>1. CASE TokenStep \/ DisposableStep
    BY <2>1, Zenon DEF TokenStep, DisposableStep, About
  <2>2. CASE EventStep \/ LazyStep \/ DelayStep
    BY <2>2, Zenon DEF EventStep, LazyStep, DelayStep, About
  <2>3. CASE HashStep \/ ListStep \/ MemoStep
    BY <2>3, Zenon DEF HashStep, ListStep, MemoStep, About
  <2>4. CASE UNCHANGED all
    BY <2>4, Zenon DEF all
  <2> QED BY <2>1, <2>2, <2>3, <2>4, Zenon DEF AllNext
<1> QED BY <1>1, MapPreserves, CountedKept

LEMMA CountedStarts == AllInit => CountedIInv
<1> SUFFICES ASSUME AllInit PROVE CountedIInv
  OBVIOUS
<1>1. Multi!Init /\ Sorted!Init
  BY DEF AllInit
<1>2. MultiMaps!Multi!Init /\ SortedMaps!Sorted!Init
  BY <1>1, Zenon DEF Multi!Init, MultiMaps!Multi!Init, Sorted!Init, SortedMaps!Sorted!Init
<1>3. MultiMaps!MultiIInv /\ SortedMaps!SortedIInv
  BY <1>2, MultiMaps!MultiStarts, SortedMaps!SortedStarts
<1>4. values = <<>>
  BY <1>1 DEF Sorted!Init
<1>5. SortedSets!SetIInv
  BY <1>4 DEF SortedSets!SetIInv, SortedSets!Sorted!Sorted
<1> QED BY <1>3, <1>5 DEF CountedIInv

\* MultiMap's count is that of its values, and a search finds each key of SortedMap and each
\* value of SortedSet (MultiMap.SizeCounts, SortedMap.KeysSorted, SortedMap.ValuesSorted).
THEOREM CountsAreRight == AllSpec => []CountsAndOrders
<1>1. CountedIInv => CountsAndOrders
  <2> SUFFICES ASSUME CountedIInv PROVE CountsAndOrders
    OBVIOUS
  <2>1. object = "multimap" => Multi!SizeCounts
    <3>1. MultiMaps!MultiIInv => MultiMaps!Multi!SizeCounts
      BY MultiMaps!SameCardinality DEF MultiMaps!MultiIInv, MultiMaps!Multi!SizeCounts
    <3> QED BY <3>1, Zenon DEF CountedIInv, Multi!SizeCounts, MultiMaps!Multi!SizeCounts,
               Multi!Pairs, MultiMaps!Multi!Pairs, Multi!Cardinality, MultiMaps!Multi!Cardinality,
               Multi!IsFiniteSet, MultiMaps!Multi!IsFiniteSet
  <2>2. object = "sortedmap" => Sorted!KeysSorted
    <3>1. SortedMaps!SortedIInv => SortedMaps!Sorted!KeysSorted
      BY KeysAreInts, SortedMaps!SortedIInvSorts
    <3> QED BY <3>1, Zenon DEF CountedIInv, Sorted!KeysSorted, SortedMaps!Sorted!KeysSorted,
               Sorted!Sorted, SortedMaps!Sorted!Sorted, Sorted!Range, SortedMaps!Sorted!Range,
               Sorted!Has, SortedMaps!Sorted!Has, Sorted!Place, SortedMaps!Sorted!Place,
               Sorted!binarySearch, SortedMaps!Sorted!binarySearch,
               Sorted!Complement, SortedMaps!Sorted!Complement
  <2>3. object = "sortedset" => Ordered!ValuesSorted
    <3>1. SortedSets!SetIInv => SortedSets!Sorted!ValuesSorted
      BY KeysAreInts, SortedSets!SetIInvSorts
    <3> QED BY <3>1, Zenon DEF CountedIInv, Ordered!ValuesSorted, SortedSets!Sorted!ValuesSorted,
               Ordered!Sorted, SortedSets!Sorted!Sorted, Ordered!Range, SortedSets!Sorted!Range,
               Ordered!HasValue, SortedSets!Sorted!HasValue, Ordered!PlaceOf, SortedSets!Sorted!PlaceOf,
               Ordered!binarySearch, SortedSets!Sorted!binarySearch,
               Ordered!Complement, SortedSets!Sorted!Complement
  <2> QED BY <2>1, <2>2, <2>3 DEF CountsAndOrders
<1> QED BY <1>1, CountedStarts, CountedSteps, PTL DEF AllSpec


-----------------------------------------------------------------------------
(* HashMap, HashSet and LinkedList: a step of each is a step of an         *)
(* instance of CollectionProofs; the map's is SortedSets and the set's     *)
(* MultiMaps, which have the keys and the bounds that they need.           *)

\* A step of the map is a move of its table, with the values that a map is given.
LEMMA DictionaryMoves == Dictionary!Next \/ UNCHANGED Dictionary!hashVars => SortedSets!Moves({"k1"})
<1> SUFFICES ASSUME Dictionary!Next \/ UNCHANGED Dictionary!hashVars PROVE SortedSets!Moves({"k1"})
  OBVIOUS
<1>1. ASSUME NEW key, NEW value, Dictionary!put(key, value) PROVE SortedSets!Table!put(key, value)
  BY <1>1, ZenonT(60) DEF Dictionary!put, SortedSets!Table!put, Dictionary!setValue, SortedSets!Table!setValue,
       Dictionary!insertEntry, SortedSets!Table!insertEntry,
       Dictionary!Slot, SortedSets!Table!Slot, Dictionary!MustGrow, SortedSets!Table!MustGrow,
       Dictionary!Table, SortedSets!Table!Table,
       Dictionary!resizeHashData, SortedSets!Table!resizeHashData,
       Dictionary!Rehash, SortedSets!Table!Rehash, Dictionary!Empty, SortedSets!Table!Empty,
       Dictionary!Grown, SortedSets!Table!Grown,
       Dictionary!expandPrime, SortedSets!Table!expandPrime,
       Dictionary!getPrime, SortedSets!Table!getPrime,
       Dictionary!CanGrowTo, SortedSets!Table!CanGrowTo,
       Dictionary!iteration, SortedSets!Table!iteration,
       Dictionary!createHashEntry, SortedSets!Table!createHashEntry,
       Dictionary!Nothing, SortedSets!Table!Nothing, Dictionary!NoKey, SortedSets!Table!NoKey,
       Dictionary!findEntryIndex, SortedSets!Table!findEntryIndex,
       Dictionary!Matches, SortedSets!Table!Matches, Dictionary!Range, SortedSets!Table!Range,
       Dictionary!Chain, SortedSets!Table!Chain, Dictionary!Capacity, SortedSets!Table!Capacity,
       Dictionary!Cardinality, SortedSets!Table!Cardinality,
       Dictionary!IsFiniteSet, SortedSets!Table!IsFiniteSet
<1>2. ASSUME NEW key, Dictionary!remove(key) PROVE SortedSets!Table!remove(key)
  BY <1>2, ZenonT(60) DEF Dictionary!remove, SortedSets!Table!remove,
       Dictionary!deleteEntry, SortedSets!Table!deleteEntry,
       Dictionary!Forgotten, SortedSets!Table!Forgotten,
       Dictionary!Unlinked, SortedSets!Table!Unlinked,
       Dictionary!Nothing, SortedSets!Table!Nothing, Dictionary!NoKey, SortedSets!Table!NoKey,
       Dictionary!findEntryIndex, SortedSets!Table!findEntryIndex,
       Dictionary!Matches, SortedSets!Table!Matches, Dictionary!Range, SortedSets!Table!Range,
       Dictionary!Chain, SortedSets!Table!Chain, Dictionary!Capacity, SortedSets!Table!Capacity,
       Dictionary!Cardinality, SortedSets!Table!Cardinality,
       Dictionary!IsFiniteSet, SortedSets!Table!IsFiniteSet
<1>3. ASSUME Dictionary!clearEntries PROVE SortedSets!Table!clearEntries
  BY <1>3, Zenon DEF Dictionary!clearEntries, SortedSets!Table!clearEntries,
       Dictionary!Listed, SortedSets!Table!Listed, Dictionary!Range, SortedSets!Table!Range,
       Dictionary!HeadEntry, SortedSets!Table!HeadEntry,
       Dictionary!Nothing, SortedSets!Table!Nothing, Dictionary!Empty, SortedSets!Table!Empty,
       Dictionary!Capacity, SortedSets!Table!Capacity,
       Dictionary!Cardinality, SortedSets!Table!Cardinality,
       Dictionary!IsFiniteSet, SortedSets!Table!IsFiniteSet
<1>4. ASSUME NEW capacity, Dictionary!ensureCapacity(capacity) PROVE SortedSets!Table!ensureCapacity(capacity)
  BY <1>4, Zenon DEF Dictionary!ensureCapacity, SortedSets!Table!ensureCapacity,
       Dictionary!resizeHashData, SortedSets!Table!resizeHashData,
       Dictionary!Rehash, SortedSets!Table!Rehash, Dictionary!Empty, SortedSets!Table!Empty,
       Dictionary!Grown, SortedSets!Table!Grown, Dictionary!getPrime, SortedSets!Table!getPrime,
       Dictionary!Capacity, SortedSets!Table!Capacity,
       Dictionary!Cardinality, SortedSets!Table!Cardinality,
       Dictionary!IsFiniteSet, SortedSets!Table!IsFiniteSet,
       Dictionary!iteration, SortedSets!Table!iteration,
       Dictionary!Nothing, SortedSets!Table!Nothing
<1>5. ASSUME NEW capacity, Dictionary!trimExcessEntries(capacity) PROVE SortedSets!Table!trimExcessEntries(capacity)
  BY <1>5, Zenon DEF Dictionary!trimExcessEntries, SortedSets!Table!trimExcessEntries,
       Dictionary!InUse, SortedSets!Table!InUse, Dictionary!Rehash, SortedSets!Table!Rehash,
       Dictionary!Empty, SortedSets!Table!Empty, Dictionary!getPrime, SortedSets!Table!getPrime,
       Dictionary!Capacity, SortedSets!Table!Capacity,
       Dictionary!Cardinality, SortedSets!Table!Cardinality,
       Dictionary!IsFiniteSet, SortedSets!Table!IsFiniteSet,
       Dictionary!iteration, SortedSets!Table!iteration,
       Dictionary!Nothing, SortedSets!Table!Nothing
<1>6. ASSUME Dictionary!iterateEntries PROVE SortedSets!Table!iterateEntries
  BY <1>6, Zenon DEF Dictionary!iterateEntries, SortedSets!Table!iterateEntries,
       Dictionary!iterateOn, SortedSets!Table!iterateOn,
       Dictionary!HeadEntry, SortedSets!Table!HeadEntry,
       Dictionary!Nothing, SortedSets!Table!Nothing,
       Dictionary!hashData, SortedSets!Table!hashData,
       Dictionary!findEntryIndex, SortedSets!Table!findEntryIndex,
       Dictionary!Matches, SortedSets!Table!Matches, Dictionary!Range, SortedSets!Table!Range,
       Dictionary!Chain, SortedSets!Table!Chain, Dictionary!Capacity, SortedSets!Table!Capacity,
       Dictionary!Cardinality, SortedSets!Table!Cardinality,
       Dictionary!IsFiniteSet, SortedSets!Table!IsFiniteSet
<1>7. ASSUME Dictionary!iterateOn PROVE SortedSets!Table!iterateOn
  BY <1>7, Zenon DEF Dictionary!iterateOn, SortedSets!Table!iterateOn,
       Dictionary!Nothing, SortedSets!Table!Nothing,
       Dictionary!hashData, SortedSets!Table!hashData
<1>8. UNCHANGED Dictionary!hashVars => UNCHANGED SortedSets!Table!hashVars
  BY Zenon DEF Dictionary!hashVars, SortedSets!Table!hashVars,
       Dictionary!hashData, SortedSets!Table!hashData,
       Dictionary!iteration, SortedSets!Table!iteration
<1> QED BY <1>1, <1>2, <1>3, <1>4, <1>5, <1>6, <1>7, <1>8, Zenon
        DEF SortedSets!Moves, Dictionary!Next, Dictionary!Set, Dictionary!Delete, Dictionary!Clear,
       Dictionary!EnsureCapacity, Dictionary!TrimExcess, Dictionary!Size, Dictionary!Iterate,
       Dictionary!IterateNext

\* A put of the set is one of its table.
LEMMA SetPuts == ASSUME NEW key, NEW value, Set!put(key, value) PROVE MultiMaps!Table!put(key, value)
BY ZenonT(60) DEF Set!put, MultiMaps!Table!put, Set!setValue, MultiMaps!Table!setValue,
     Set!insertEntry, MultiMaps!Table!insertEntry, Set!Slot, MultiMaps!Table!Slot,
     Set!MustGrow, MultiMaps!Table!MustGrow, Set!Table, MultiMaps!Table!Table,
     Set!resizeHashData, MultiMaps!Table!resizeHashData, Set!Rehash, MultiMaps!Table!Rehash,
     Set!Empty, MultiMaps!Table!Empty, Set!Grown, MultiMaps!Table!Grown,
     Set!expandPrime, MultiMaps!Table!expandPrime, Set!getPrime, MultiMaps!Table!getPrime,
     Set!CanGrowTo, MultiMaps!Table!CanGrowTo, Set!iteration, MultiMaps!Table!iteration,
     Set!createHashEntry, MultiMaps!Table!createHashEntry, Set!Nothing, MultiMaps!Table!Nothing,
     Set!NoKey, MultiMaps!Table!NoKey, Set!findEntryIndex, MultiMaps!Table!findEntryIndex,
     Set!Matches, MultiMaps!Table!Matches, Set!Range, MultiMaps!Table!Range,
     Set!Chain, MultiMaps!Table!Chain, Set!Capacity, MultiMaps!Table!Capacity,
     Set!Cardinality, MultiMaps!Table!Cardinality, Set!IsFiniteSet, MultiMaps!Table!IsFiniteSet

\* A step of the set is a move of its table, in which a key is its own value.
LEMMA SetMoves == Set!SetNext \/ UNCHANGED Set!hashVars => MultiMaps!Moves({"k1", "k2"})
<1> SUFFICES ASSUME Set!SetNext \/ UNCHANGED Set!hashVars PROVE MultiMaps!Moves({"k1", "k2"})
  OBVIOUS
<1>1. ASSUME NEW key, NEW value, Set!put(key, value) PROVE MultiMaps!Table!put(key, value)
  BY <1>1, SetPuts
<1>2. ASSUME NEW key, Set!remove(key) PROVE MultiMaps!Table!remove(key)
  BY <1>2, ZenonT(60) DEF Set!remove, MultiMaps!Table!remove, Set!deleteEntry, MultiMaps!Table!deleteEntry,
       Set!Forgotten, MultiMaps!Table!Forgotten, Set!Unlinked, MultiMaps!Table!Unlinked,
       Set!Nothing, MultiMaps!Table!Nothing, Set!NoKey, MultiMaps!Table!NoKey,
       Set!findEntryIndex, MultiMaps!Table!findEntryIndex, Set!Matches, MultiMaps!Table!Matches,
       Set!Range, MultiMaps!Table!Range, Set!Chain, MultiMaps!Table!Chain,
       Set!Capacity, MultiMaps!Table!Capacity, Set!Cardinality, MultiMaps!Table!Cardinality,
       Set!IsFiniteSet, MultiMaps!Table!IsFiniteSet
<1>3. ASSUME Set!clearEntries PROVE MultiMaps!Table!clearEntries
  BY <1>3, Zenon DEF Set!clearEntries, MultiMaps!Table!clearEntries, Set!Listed, MultiMaps!Table!Listed,
       Set!Range, MultiMaps!Table!Range, Set!HeadEntry, MultiMaps!Table!HeadEntry,
       Set!Nothing, MultiMaps!Table!Nothing, Set!Empty, MultiMaps!Table!Empty,
       Set!Capacity, MultiMaps!Table!Capacity, Set!Cardinality, MultiMaps!Table!Cardinality,
       Set!IsFiniteSet, MultiMaps!Table!IsFiniteSet
<1>4. ASSUME NEW capacity, Set!ensureCapacity(capacity) PROVE MultiMaps!Table!ensureCapacity(capacity)
  BY <1>4, Zenon DEF Set!ensureCapacity, MultiMaps!Table!ensureCapacity,
       Set!resizeHashData, MultiMaps!Table!resizeHashData, Set!Rehash, MultiMaps!Table!Rehash,
       Set!Empty, MultiMaps!Table!Empty, Set!Grown, MultiMaps!Table!Grown,
       Set!getPrime, MultiMaps!Table!getPrime, Set!Capacity, MultiMaps!Table!Capacity,
       Set!Cardinality, MultiMaps!Table!Cardinality, Set!IsFiniteSet, MultiMaps!Table!IsFiniteSet,
       Set!iteration, MultiMaps!Table!iteration, Set!Nothing, MultiMaps!Table!Nothing
<1>5. ASSUME NEW capacity, Set!trimExcessEntries(capacity) PROVE MultiMaps!Table!trimExcessEntries(capacity)
  BY <1>5, Zenon DEF Set!trimExcessEntries, MultiMaps!Table!trimExcessEntries, Set!InUse,
       MultiMaps!Table!InUse,
       Set!Rehash, MultiMaps!Table!Rehash, Set!Empty, MultiMaps!Table!Empty,
       Set!getPrime, MultiMaps!Table!getPrime, Set!Capacity, MultiMaps!Table!Capacity,
       Set!Cardinality, MultiMaps!Table!Cardinality, Set!IsFiniteSet, MultiMaps!Table!IsFiniteSet,
       Set!iteration, MultiMaps!Table!iteration, Set!Nothing, MultiMaps!Table!Nothing
<1>6. ASSUME Set!iterateEntries PROVE MultiMaps!Table!iterateEntries
  BY <1>6, Zenon DEF Set!iterateEntries, MultiMaps!Table!iterateEntries,
       Set!iterateOn, MultiMaps!Table!iterateOn, Set!HeadEntry, MultiMaps!Table!HeadEntry,
       Set!Nothing, MultiMaps!Table!Nothing, Set!hashData, MultiMaps!Table!hashData,
       Set!findEntryIndex, MultiMaps!Table!findEntryIndex, Set!Matches, MultiMaps!Table!Matches,
       Set!Range, MultiMaps!Table!Range, Set!Chain, MultiMaps!Table!Chain,
       Set!Capacity, MultiMaps!Table!Capacity, Set!Cardinality, MultiMaps!Table!Cardinality,
       Set!IsFiniteSet, MultiMaps!Table!IsFiniteSet
<1>7. ASSUME Set!iterateOn PROVE MultiMaps!Table!iterateOn
  BY <1>7, Zenon DEF Set!iterateOn, MultiMaps!Table!iterateOn, Set!Nothing, MultiMaps!Table!Nothing,
       Set!hashData, MultiMaps!Table!hashData
<1>8. UNCHANGED Set!hashVars => UNCHANGED MultiMaps!Table!hashVars
  BY Zenon DEF Set!hashVars, MultiMaps!Table!hashVars, Set!hashData, MultiMaps!Table!hashData,
       Set!iteration, MultiMaps!Table!iteration
<1> QED BY <1>1, <1>2, <1>3, <1>4, <1>5, <1>6, <1>7, <1>8, Zenon
        DEF MultiMaps!Moves, Set!SetNext, Set!Add, Set!TryAdd, Set!DeleteValue, Set!ClearValues,
       Set!EnsureCapacityOfSet, Set!TrimExcessOfSet, Set!Size, Set!IterateValues,
       Set!IterateNextValue

\* The invariant of the one that the behaviour is about.
HashIInv == /\ object = "map" => SortedSets!TableInv /\ SortedSets!WalkInv
            /\ object = "set" => MultiMaps!TableInv /\ MultiMaps!WalkInv
            /\ object = "list" => SortedMaps!ListIInv

LEMMA HashesGiven == /\ SortedSets!TablesAreGiven /\ MultiMaps!TablesAreGiven
                     /\ SortedMaps!NodesAreSome
<1>1. /\ DOMAIN HashOf = {"k1", "k2", "k3"} /\ HashOf["k1"] = 0 /\ HashOf["k2"] = 2 /\ HashOf["k3"] = 5
      /\ DOMAIN Numbered = {"n1", "n2", "n3"}
  BY DEF HashOf, Numbered
<1> QED BY <1>1 DEF SortedSets!TablesAreGiven, MultiMaps!TablesAreGiven, SortedMaps!NodesAreSome, SortedMaps!Nothing

\* A step is one of a table or of the list, or leaves them alone.
LEMMA OneHashStep ==
    ASSUME [AllNext]_all
    PROVE  /\ object' = object
           /\ \/ object = "map" /\ Dictionary!Next
              \/ object = "set" /\ Set!SetNext
              \/ object = "list" /\ List!Next
              \/ UNCHANGED <<table, links, iteration>>
<1>1. CASE TokenStep \/ DisposableStep
  BY <1>1, Zenon DEF TokenStep, DisposableStep, About
<1>2. CASE EventStep \/ LazyStep \/ DelayStep
  BY <1>2, Zenon DEF EventStep, LazyStep, DelayStep, About
<1>3. CASE HashStep \/ ListStep
  BY <1>3, Zenon DEF HashStep, ListStep, About
<1>4. CASE MapStep \/ MemoStep
  BY <1>4, Zenon DEF MapStep, MemoStep, About
<1>5. CASE UNCHANGED all
  BY <1>5, Zenon DEF all
<1> QED BY <1>1, <1>2, <1>3, <1>4, <1>5, Zenon DEF AllNext

LEMMA ListMoves == List!Next => SortedMaps!Next
BY Zenon DEF List!Next, SortedMaps!Next, List!Edit, SortedMaps!Edit, List!Push, SortedMaps!Push,
       List!Unshift, SortedMaps!Unshift, List!InsertBefore, SortedMaps!InsertBefore,
       List!InsertAfter, SortedMaps!InsertAfter, List!insertNode, SortedMaps!insertNode,
       List!Alone, SortedMaps!Alone, List!Between, SortedMaps!Between, List!last, SortedMaps!last,
       List!first, SortedMaps!first, List!next, SortedMaps!next, List!previous, SortedMaps!previous,
       List!walking, SortedMaps!walking, List!nodes, SortedMaps!nodes, List!Nothing, SortedMaps!Nothing,
       List!Delete, SortedMaps!Delete, List!deleteNode, SortedMaps!deleteNode,
       List!Leaves, SortedMaps!Leaves, List!Awaited, SortedMaps!Awaited, List!Pop, SortedMaps!Pop,
       List!Shift, SortedMaps!Shift, List!DeleteValue, SortedMaps!DeleteValue,
       List!nodeOf, SortedMaps!nodeOf, List!Order, SortedMaps!Order, List!Clear, SortedMaps!Clear,
       List!Walk, SortedMaps!Walk, List!Over, SortedMaps!Over, List!Forward, SortedMaps!Forward,
       List!Ahead, SortedMaps!Ahead, List!Give, SortedMaps!Give, List!WalkOn, SortedMaps!WalkOn,
       List!Drain, SortedMaps!Drain, List!DeleteAllOn, SortedMaps!DeleteAllOn,
       List!ReduceRightOn, SortedMaps!ReduceRightOn

\* They move as CollectionProofs says, or stay.
LEMMA HashMoves ==
    ASSUME [AllNext]_all
    PROVE  /\ object' = object
           /\ object = "map" => SortedSets!Moves({"k1"})
           /\ object = "set" => MultiMaps!Moves({"k1", "k2"})
           /\ object = "list" => SortedMaps!Next \/ UNCHANGED SortedMaps!listVars
<1>1. /\ object' = object
      /\ object = "map" => Dictionary!Next \/ UNCHANGED <<table, links, iteration>>
      /\ object = "set" => Set!SetNext \/ UNCHANGED <<table, links, iteration>>
      /\ object = "list" => List!Next \/ UNCHANGED <<table, links, iteration>>
  BY OneHashStep
<1>2. UNCHANGED <<table, links, iteration>>
         => /\ UNCHANGED Dictionary!hashVars /\ UNCHANGED Set!hashVars
            /\ UNCHANGED SortedMaps!listVars
  BY DEF table, links, iteration, Dictionary!hashVars, Dictionary!hashData, Dictionary!iteration,
         Set!hashVars, Set!hashData, Set!iteration, SortedMaps!listVars, SortedMaps!nodes, SortedMaps!walking
<1> QED BY <1>1, <1>2, DictionaryMoves, SetMoves, ListMoves

LEMMA HashTyped == {"k1"} \subseteq SortedSets!TypedValues /\ {"k1", "k2"} \subseteq MultiMaps!TypedValues
BY DEF SortedSets!TypedValues, MultiMaps!TypedValues, HashOf

LEMMA HashSteps == HashIInv /\ [AllNext]_all => HashIInv'
<1> SUFFICES ASSUME HashIInv, [AllNext]_all PROVE HashIInv'
  OBVIOUS
<1>1. object' = object
  BY HashMoves
<1>2. ASSUME object = "map" PROVE SortedSets!TableInv' /\ SortedSets!WalkInv'
  <2>1. SortedSets!TableInv /\ SortedSets!WalkInv /\ SortedSets!Moves({"k1"})
    BY <1>2, HashMoves DEF HashIInv
  <2> QED BY <2>1, HashTyped, SortedSets!WalkMoves DEF SortedSets!WalkGoneOn
<1>3. ASSUME object = "set" PROVE MultiMaps!TableInv' /\ MultiMaps!WalkInv'
  <2>1. MultiMaps!TableInv /\ MultiMaps!WalkInv /\ MultiMaps!Moves({"k1", "k2"})
    BY <1>3, HashMoves DEF HashIInv
  <2> QED BY <2>1, HashTyped, MultiMaps!WalkMoves DEF MultiMaps!WalkGoneOn
<1>4. ASSUME object = "list" PROVE SortedMaps!ListIInv'
  BY <1>4, HashMoves, SortedMaps!ListPreserves DEF HashIInv
<1> QED BY <1>1, <1>2, <1>3, <1>4 DEF HashIInv

LEMMA TablesConstructed ==
    ASSUME AllInit
    PROVE  /\ object = "map" => SortedSets!Table!Construct
           /\ object = "set" => MultiMaps!Table!Construct
<1>1. (object = "map" => Dictionary!Construct) /\ (object = "set" => Set!Construct)
  BY DEF AllInit
<1>2. Dictionary!Construct => SortedSets!Table!Construct
  BY Zenon DEF Dictionary!Construct, SortedSets!Table!Construct, Dictionary!InitTable,
     SortedSets!Table!InitTable, Dictionary!Empty, SortedSets!Table!Empty, Dictionary!Nothing,
     SortedSets!Table!Nothing, Dictionary!HeadEntry, SortedSets!Table!HeadEntry, Dictionary!NoKey,
     SortedSets!Table!NoKey, Dictionary!createHashEntry, SortedSets!Table!createHashEntry
<1>3. Set!Construct => MultiMaps!Table!Construct
  BY Zenon DEF Set!Construct, MultiMaps!Table!Construct, Set!InitTable,
     MultiMaps!Table!InitTable, Set!Empty, MultiMaps!Table!Empty, Set!Nothing,
     MultiMaps!Table!Nothing, Set!HeadEntry, MultiMaps!Table!HeadEntry, Set!NoKey,
     MultiMaps!Table!NoKey, Set!createHashEntry, MultiMaps!Table!createHashEntry
<1> QED BY <1>1, <1>2, <1>3

LEMMA HashStarts == AllInit => HashIInv
<1> SUFFICES ASSUME AllInit PROVE HashIInv
  OBVIOUS
<1>1. ASSUME object = "map" PROVE SortedSets!TableInv /\ SortedSets!WalkInv
  BY <1>1, TablesConstructed, HashesGiven, SortedSets!WalkStarts
<1>2. ASSUME object = "set" PROVE MultiMaps!TableInv /\ MultiMaps!WalkInv
  BY <1>2, TablesConstructed, HashesGiven, MultiMaps!WalkStarts
<1>3. SortedMaps!ListIInv
  <2>1. List!Init
    BY DEF AllInit
  <2>2. SortedMaps!Init
    BY <2>1, Zenon DEF List!Init, SortedMaps!Init, List!Nothing, SortedMaps!Nothing, List!Over,
       SortedMaps!Over
  <2> QED BY <2>2, HashesGiven, SortedMaps!ListStarts
<1> QED BY <1>1, <1>2, <1>3 DEF HashIInv

\* An iteration over a map, a set or a list gives what stays in it, once, while it is changed,
\* so long as no freed entry is linked in again and its next node is not taken away from
\* under it (HashMap.IteratesStayers, LinkedList.WalksSeeStayers).
THEOREM WalksSeeWhatStays == AllSpec => []WalksSeeStayers
<1>1. HashIInv => WalksSeeStayers
  <2> SUFFICES ASSUME HashIInv PROVE WalksSeeStayers
    OBVIOUS
  <2>1. ASSUME object = "list" PROVE List!WalksSeeStayers
    <3>1. SortedMaps!WalksSeeStayers
      BY <2>1, SortedMaps!ListIInvSees DEF HashIInv
    <3> QED BY <3>1, Zenon DEF List!WalksSeeStayers, SortedMaps!WalksSeeStayers, List!Nothing,
               SortedMaps!Nothing, List!Over, SortedMaps!Over, List!Range, SortedMaps!Range,
               List!Cardinality, SortedMaps!Cardinality, List!IsFiniteSet, SortedMaps!IsFiniteSet
  <2>2. ASSUME object = "map" PROVE Dictionary!IteratesStayers
    <3>1. SortedSets!Table!IteratesStayers
      BY <2>2, SortedSets!WalkInvSees DEF HashIInv
    <3> QED BY <3>1, Zenon DEF Dictionary!IteratesStayers, SortedSets!Table!IteratesStayers,
               Dictionary!Nothing, SortedSets!Table!Nothing, Dictionary!Range, SortedSets!Table!Range,
               Dictionary!Cardinality, SortedSets!Table!Cardinality,
               Dictionary!IsFiniteSet, SortedSets!Table!IsFiniteSet
  <2>3. ASSUME object = "set" PROVE Dictionary!IteratesStayers
    <3>1. MultiMaps!Table!IteratesStayers
      BY <2>3, MultiMaps!WalkInvSees DEF HashIInv
    <3> QED BY <3>1, Zenon DEF Dictionary!IteratesStayers, MultiMaps!Table!IteratesStayers,
               Dictionary!Nothing, MultiMaps!Table!Nothing, Dictionary!Range, MultiMaps!Table!Range,
               Dictionary!Cardinality, MultiMaps!Table!Cardinality,
               Dictionary!IsFiniteSet, MultiMaps!Table!IsFiniteSet
  <2> QED BY <2>1, <2>2, <2>3 DEF WalksSeeStayers
<1> QED BY <1>1, HashStarts, HashSteps, PTL DEF AllSpec

-----------------------------------------------------------------------------
(* The maps.                                                               *)

\* What is in the hash table, and in the arrays of the sorted map.
HashedMap == [key \in Hashed |-> Dictionary!Get(key)]
ArrayMap == [key \in {k \in 1 .. 4 : Sorted!Has(k)} |-> Sorted!Get(key)]

HashedAs == /\ object = "map" => HashedMap = SortedSets!TableMap
            /\ object = "set" => HashedMap = MultiMaps!TableMap
            /\ object \notin {"map", "set"} => HashedMap = [key \in {} |-> {}]

LEMMA HashedIs == HashIInv => HashedAs
<1> SUFFICES ASSUME HashIInv PROVE HashedAs
  OBVIOUS
<1>1. ASSUME object = "map" PROVE HashedMap = SortedSets!TableMap
  <2>1. ASSUME NEW key
        PROVE  /\ Dictionary!Has(key) <=> SortedSets!Table!Has(key)
               /\ Dictionary!Get(key) = SortedSets!Table!Get(key)
    BY Zenon DEF Dictionary!Has, SortedSets!Table!Has, Dictionary!Get, SortedSets!Table!Get,
         Dictionary!findEntryValue, SortedSets!Table!findEntryValue,
         Dictionary!findEntryIndex, SortedSets!Table!findEntryIndex, Dictionary!Matches,
         SortedSets!Table!Matches, Dictionary!Range, SortedSets!Table!Range, Dictionary!Chain,
         SortedSets!Table!Chain, Dictionary!Capacity, SortedSets!Table!Capacity,
         Dictionary!Cardinality, SortedSets!Table!Cardinality, Dictionary!IsFiniteSet,
         SortedSets!Table!IsFiniteSet
  <2>2. Hashed = {k \in DOMAIN HashOf : SortedSets!Table!Has(k)}
    BY <1>1, <2>1 DEF Hashed
  <2> QED BY <2>1, <2>2, Zenon DEF HashedMap, SortedSets!TableMap
<1>2. ASSUME object = "set" PROVE HashedMap = MultiMaps!TableMap
  <2>1. ASSUME NEW key
        PROVE  /\ Dictionary!Has(key) <=> MultiMaps!Table!Has(key)
               /\ Dictionary!Get(key) = MultiMaps!Table!Get(key)
    BY Zenon DEF Dictionary!Has, MultiMaps!Table!Has, Dictionary!Get, MultiMaps!Table!Get,
         Dictionary!findEntryValue, MultiMaps!Table!findEntryValue,
         Dictionary!findEntryIndex, MultiMaps!Table!findEntryIndex, Dictionary!Matches,
         MultiMaps!Table!Matches, Dictionary!Range, MultiMaps!Table!Range, Dictionary!Chain,
         MultiMaps!Table!Chain, Dictionary!Capacity, MultiMaps!Table!Capacity,
         Dictionary!Cardinality, MultiMaps!Table!Cardinality, Dictionary!IsFiniteSet,
         MultiMaps!Table!IsFiniteSet
  <2>2. ~MultiMaps!Table!Has("k3")
    <3>1. HashOf["k3"] \in Nat /\ "k3" \notin {"k1", "k2"}
      BY DEF HashOf
    <3>2. MultiMaps!Table!findEntryIndex("k3") = -1
      BY <1>2, <3>1, MultiMaps!FindsKeys DEF HashIInv
    <3> QED BY <3>2 DEF MultiMaps!Table!Has
  <2>3. DOMAIN HashOf = {"k1", "k2"} \cup {"k3"}
    BY DEF HashOf
  <2>4. Hashed = {k \in {"k1", "k2"} : MultiMaps!Table!Has(k)}
    BY <1>2, <2>1, <2>2, <2>3 DEF Hashed
  <2> QED BY <2>1, <2>4, Zenon DEF HashedMap, MultiMaps!TableMap
<1>3. ASSUME object \notin {"map", "set"} PROVE HashedMap = [key \in {} |-> {}]
  BY <1>3 DEF HashedMap, Hashed
<1> QED BY <1>1, <1>2, <1>3 DEF HashedAs

LEMMA HashedWas == HashIInv' => HashedAs'
BY HashedIs, PTL

\* A step of a table is a step of the map that it is, or leaves it as it is.
LEMMA MapContents ==
    ASSUME SortedSets!MapGoes({"k1"}), HashedMap = SortedSets!TableMap, HashedMap' = SortedSets!TableMap'
    PROVE  Contents!Next \/ HashedMap' = HashedMap
<1>1. ASSUME NEW key \in DOMAIN HashOf, SortedSets!Table!Map!Delete(key) PROVE Contents!Delete(key)
  BY <1>1, Zenon DEF SortedSets!Table!Map!Delete, SortedSets!Table!Map!Restrict, SortedSets!TableMap,
       Contents!Delete, Contents!Restrict, HashedMap
<1>2. ASSUME NEW key \in DOMAIN HashOf, SortedSets!Table!Map!Set(key, "k1") PROVE Contents!Set(key, "k1")
  BY <1>2, Zenon DEF SortedSets!Table!Map!Set, SortedSets!TableMap, Contents!Set, HashedMap
<1>3. ASSUME SortedSets!Table!Map!Clear PROVE Contents!Clear
  BY <1>3, Zenon DEF SortedSets!Table!Map!Clear, SortedSets!Table!Map!Restrict, SortedSets!TableMap,
       Contents!Clear, Contents!Restrict, HashedMap
<1> QED BY <1>1, <1>2, <1>3 DEF SortedSets!MapGoes, Contents!Next

LEMMA SetContents ==
    ASSUME MultiMaps!MapGoes({"k1", "k2"}), HashedMap = MultiMaps!TableMap, HashedMap' = MultiMaps!TableMap'
    PROVE  Contents!Next \/ HashedMap' = HashedMap
<1>0. {"k1", "k2"} \subseteq DOMAIN HashOf
  BY DEF HashOf
<1>1. ASSUME NEW key \in {"k1", "k2"}, MultiMaps!Table!Map!Delete(key) PROVE Contents!Delete(key)
  BY <1>1, Zenon DEF MultiMaps!Table!Map!Delete, MultiMaps!Table!Map!Restrict, MultiMaps!TableMap,
       Contents!Delete, Contents!Restrict, HashedMap
<1>2. ASSUME NEW key \in {"k1", "k2"}, NEW value \in {"k1", "k2"}, MultiMaps!Table!Map!Set(key, value)
      PROVE  Contents!Set(key, value)
  BY <1>2, Zenon DEF MultiMaps!Table!Map!Set, MultiMaps!TableMap, Contents!Set, HashedMap
<1>3. ASSUME MultiMaps!Table!Map!Clear PROVE Contents!Clear
  BY <1>3, Zenon DEF MultiMaps!Table!Map!Clear, MultiMaps!Table!Map!Restrict, MultiMaps!TableMap,
       Contents!Clear, Contents!Restrict, HashedMap
<1> QED BY <1>0, <1>1, <1>2, <1>3 DEF MultiMaps!MapGoes, Contents!Next

LEMMA ContentsMove ==
    ASSUME HashIInv, HashIInv', [AllNext]_all PROVE Contents!Next \/ HashedMap' = HashedMap
<1>1. HashedAs /\ HashedAs' /\ object' = object
  BY HashedIs, HashedWas, HashMoves
<1>2. ASSUME object = "map" PROVE Contents!Next \/ HashedMap' = HashedMap
  <2>1. SortedSets!MapGoes({"k1"})
    BY <1>2, HashMoves, HashTyped, SortedSets!MapFollows DEF HashIInv
  <2>2. HashedMap = SortedSets!TableMap /\ HashedMap' = SortedSets!TableMap'
    BY <1>1, <1>2 DEF HashedAs
  <2> QED BY <2>1, <2>2, MapContents
<1>3. ASSUME object = "set" PROVE Contents!Next \/ HashedMap' = HashedMap
  <2>1. MultiMaps!MapGoes({"k1", "k2"})
    BY <1>3, HashMoves, HashTyped, MultiMaps!MapFollows DEF HashIInv
  <2>2. HashedMap = MultiMaps!TableMap /\ HashedMap' = MultiMaps!TableMap'
    BY <1>1, <1>3 DEF HashedAs
  <2> QED BY <2>1, <2>2, SetContents
<1>4. ASSUME object \notin {"map", "set"} PROVE HashedMap' = HashedMap
  <2>1. HashedMap = [key \in {} |-> {}] /\ HashedMap' = [key \in {} |-> {}]
    BY <1>1, <1>4 DEF HashedAs
  <2> QED BY <2>1
<1> QED BY <1>2, <1>3, <1>4

LEMMA ContentsStart == AllInit => HashedMap = [key \in {} |-> {}]
<1> SUFFICES ASSUME AllInit PROVE HashedMap = [key \in {} |-> {}]
  OBVIOUS
<1>1. HashedAs
  BY HashStarts, HashedIs
<1>2. ASSUME object = "map" PROVE SortedSets!TableMap = [key \in {} |-> {}]
  <2>1. SortedSets!TableInv /\ SortedSets!Contents(entry, slots, size) = {}
    BY <1>2, TablesConstructed, HashesGiven, SortedSets!TableStarts
  <2> QED BY <2>1, SortedSets!MappedIs, SortedSets!MappedEmpty
<1>3. ASSUME object = "set" PROVE MultiMaps!TableMap = [key \in {} |-> {}]
  <2>1. MultiMaps!TableInv /\ MultiMaps!Contents(entry, slots, size) = {}
    BY <1>3, TablesConstructed, HashesGiven, MultiMaps!TableStarts
  <2> QED BY <2>1, MultiMaps!MappedIs, MultiMaps!MappedEmpty
<1> QED BY <1>1, <1>2, <1>3 DEF HashedAs

\* The arrays of the sorted map stay empty unless the behaviour is about it.
SortedOnly == object # "sortedmap" => keys = <<>>

LEMMA SortedOnlySteps ==
    ASSUME [AllNext]_all
    PROVE  /\ object' = object
           /\ SortedOnly => SortedOnly'
           /\ object = "sortedmap" => Sorted!Next \/ UNCHANGED <<keys, values>>
<1>1. \/ MapStep
      \/ object' = object /\ UNCHANGED maps
  <2>1. CASE TokenStep \/ DisposableStep
    BY <2>1, Zenon DEF TokenStep, DisposableStep, About
  <2>2. CASE EventStep \/ LazyStep \/ DelayStep
    BY <2>2, Zenon DEF EventStep, LazyStep, DelayStep, About
  <2>3. CASE HashStep \/ ListStep \/ MemoStep
    BY <2>3, Zenon DEF HashStep, ListStep, MemoStep, About
  <2>4. CASE UNCHANGED all
    BY <2>4, Zenon DEF all
  <2> QED BY <2>1, <2>2, <2>3, <2>4, Zenon DEF AllNext
<1>2. CASE MapStep
  <2>1. \/ object = "multimap" /\ object' = object /\ keys' = keys /\ values' = values
        \/ object = "sortedmap" /\ object' = object /\ Sorted!Next
        \/ object = "sortedset" /\ object' = object /\ keys' = keys
    BY <1>2 DEF MapStep, About, Ordered!SetNext
  <2> QED BY <2>1 DEF SortedOnly
<1>3. CASE object' = object /\ UNCHANGED maps
  BY <1>3 DEF maps, SortedOnly
<1> QED BY <1>1, <1>2, <1>3

LEMMA EmptyArrays == ASSUME keys = <<>> PROVE ArrayMap = [key \in {} |-> {}]
BY DEF ArrayMap, Sorted!Has, Sorted!Place, Sorted!binarySearch

LEMMA EmptyArraysThen == keys' = <<>> => ArrayMap' = [key \in {} |-> {}]
BY DEF ArrayMap, Sorted!Has, Sorted!Place, Sorted!binarySearch

\* A step of the arrays is a step of the map that they are, or leaves it as it is.
LEMMA ArraysMove ==
    ASSUME CountedIInv, SortedOnly, SortedOnly', [AllNext]_all
    PROVE  Sorted!Map!Next \/ ArrayMap' = ArrayMap
<1>1. CASE object # "sortedmap"
  <2>1. keys = <<>> /\ keys' = <<>>
    BY <1>1, SortedOnlySteps DEF SortedOnly
  <2> QED BY <2>1, EmptyArrays, EmptyArraysThen
<1>2. CASE object = "sortedmap"
  <2>1. SortedMaps!SortedIInv
    BY <1>2 DEF CountedIInv
  <2>2. SortedMaps!Sorted!Next \/ UNCHANGED SortedMaps!Sorted!sortedVars
    BY <1>2, SortedOnlySteps, SortedMapSteps DEF SortedMaps!Sorted!sortedVars
  <2>3. [SortedMaps!Sorted!Map!Next]_(SortedMaps!MapOf(1 .. 4, keys, values))
    BY <2>1, <2>2, KeysAreInts, SortedMaps!SortedMapsNext
  <2>4. SortedMaps!Sorted!Map!Next => Sorted!Map!Next
    BY Zenon DEF SortedMaps!Sorted!Map!Next, Sorted!Map!Next, SortedMaps!Sorted!Map!Set, Sorted!Map!Set,
       SortedMaps!Sorted!Map!Delete, Sorted!Map!Delete, SortedMaps!Sorted!Map!Clear, Sorted!Map!Clear,
       SortedMaps!Sorted!Map!Restrict, Sorted!Map!Restrict,
       SortedMaps!Sorted!Has, Sorted!Has, SortedMaps!Sorted!Get, Sorted!Get,
       SortedMaps!Sorted!Place, Sorted!Place, SortedMaps!Sorted!binarySearch, Sorted!binarySearch,
       SortedMaps!Sorted!Complement, Sorted!Complement
  <2>5. SortedMaps!MapOf(1 .. 4, keys, values) = ArrayMap
    BY Zenon DEF SortedMaps!MapOf, ArrayMap, Sorted!Has, Sorted!Get, Sorted!Place,
       SortedMaps!Sorted!binarySearch, Sorted!binarySearch,
       SortedMaps!Sorted!Complement, Sorted!Complement
  <2>6. SortedMaps!MapOf(1 .. 4, keys, values)' = ArrayMap'
    BY <2>5, Zenon DEF SortedMaps!MapOf, ArrayMap, Sorted!Has, Sorted!Get, Sorted!Place,
       SortedMaps!Sorted!binarySearch, Sorted!binarySearch,
       SortedMaps!Sorted!Complement, Sorted!Complement
  <2> QED BY <2>3, <2>4, <2>5, <2>6
<1> QED BY <1>1, <1>2

\* A set tells whether a value is new, and the list changes as asked.
LEMMA TellsAndEdits ==
    ASSUME HashIInv, [AllNext]_all
    PROVE  /\ object = "set" => Set!TellsNew
           /\ object = "list" => List!EditAsAsked
<1>1. ASSUME object = "set" PROVE Set!TellsNew
  <2>1. MultiMaps!Table!TellsNew
    BY <1>1, MultiMaps!NewIsTold DEF HashIInv
  <2>2. ASSUME NEW value \in {"k1", "k2"}, NEW added \in BOOLEAN, Set!TryAdd(value, added)
        PROVE  added = ~Set!HasValue(value)
    <3>1. MultiMaps!Table!TryAdd(value, added)
      BY <2>2, SetPuts DEF Set!TryAdd, Set!Add, Set!Size, MultiMaps!Table!TryAdd, MultiMaps!Table!Add,
         MultiMaps!Table!Size
    <3>2. added = ~MultiMaps!Table!HasValue(value)
      BY <2>1, <2>2, <3>1 DEF MultiMaps!Table!TellsNew
    <3> QED BY <3>2, Zenon DEF MultiMaps!Table!HasValue, Set!HasValue,
         MultiMaps!Table!findEntryIndex, Set!findEntryIndex, MultiMaps!Table!Matches, Set!Matches,
         MultiMaps!Table!Range, Set!Range, MultiMaps!Table!Chain, Set!Chain,
         MultiMaps!Table!Capacity, Set!Capacity, MultiMaps!Table!Cardinality, Set!Cardinality,
         MultiMaps!Table!IsFiniteSet, Set!IsFiniteSet
  <2> QED BY <2>2 DEF Set!TellsNew
<1>2. ASSUME object = "list" PROVE List!EditAsAsked
  <2>1. SortedMaps!EditAsAsked
    BY <1>2, HashMoves, SortedMaps!ListEdits DEF HashIInv
  <2> QED BY <2>1, Zenon DEF
       SortedMaps!EditAsAsked, List!EditAsAsked, SortedMaps!Order, List!Order, SortedMaps!Where,
       List!Where, SortedMaps!Edit, List!Edit, SortedMaps!Drain, List!Drain, SortedMaps!Push,
       List!Push, SortedMaps!Unshift, List!Unshift, SortedMaps!InsertBefore, List!InsertBefore,
       SortedMaps!InsertAfter, List!InsertAfter, SortedMaps!Delete, List!Delete,
       SortedMaps!DeleteValue, List!DeleteValue, SortedMaps!Pop, List!Pop, SortedMaps!Shift,
       List!Shift, SortedMaps!Clear, List!Clear, SortedMaps!InsertAt, List!InsertAt,
       SortedMaps!RemoveAt, List!RemoveAt, SortedMaps!insertNode, List!insertNode,
       SortedMaps!deleteNode, List!deleteNode, SortedMaps!Alone, List!Alone, SortedMaps!Between,
       List!Between, SortedMaps!Leaves, List!Leaves, SortedMaps!Awaited, List!Awaited,
       SortedMaps!nodeOf, List!nodeOf, SortedMaps!Give, List!Give, SortedMaps!Ahead, List!Ahead,
       SortedMaps!Over, List!Over, SortedMaps!Forward, List!Forward, SortedMaps!next, List!next,
       SortedMaps!previous, List!previous, SortedMaps!first, List!first, SortedMaps!last,
       List!last, SortedMaps!walking, List!walking, SortedMaps!nodes, List!nodes,
       SortedMaps!Nothing, List!Nothing
<1> QED BY <1>1, <1>2

\* HashMap, HashSet and SortedMap are maps, HashSet.tryAdd tells what is new and LinkedList
\* changes its order as asked (HashMap.TellsNew, SortedMap.ImplementsMap, LinkedList.EditAsAsked).
THEOREM MapsAgreeWithMaps == AllSpec => MapsAgree
<1>1. AllInit => HashIInv /\ CountedIInv /\ SortedOnly /\ Contents!Init /\ Sorted!Map!Init
  <2> SUFFICES ASSUME AllInit PROVE SortedOnly /\ Contents!Init /\ Sorted!Map!Init
    BY HashStarts, CountedStarts
  <2>1. keys = <<>>
    BY DEF AllInit, Sorted!Init
  <2>2. Sorted!Map!Init
    BY <2>1, EmptyArrays DEF Sorted!Map!Init, ArrayMap
  <2> QED BY <2>1, <2>2, ContentsStart DEF SortedOnly, Contents!Init, HashedMap
<1>2. HashIInv /\ CountedIInv /\ SortedOnly /\ [AllNext]_all => HashIInv' /\ CountedIInv' /\ SortedOnly'
  BY HashSteps, CountedSteps, SortedOnlySteps
<1>3. HashIInv /\ CountedIInv /\ SortedOnly /\ [AllNext]_all
         => /\ [Contents!Next]_([key \in Hashed |-> Dictionary!Get(key)])
            /\ [Sorted!Map!Next]_([key \in {k \in 1 .. 4 : Sorted!Has(k)} |-> Sorted!Get(key)])
            /\ (object = "set" => Set!TellsNew) /\ (object = "list" => List!EditAsAsked)
  BY <1>2, ContentsMove, ArraysMove, TellsAndEdits DEF HashedMap, ArrayMap
<1> QED BY <1>1, <1>2, <1>3, PTL DEF AllSpec, MapsAgree, Contents!Spec, Sorted!ImplementsMap, Sorted!Map!Spec

-----------------------------------------------------------------------------
(* The types of all of them.                                               *)

\* The hash table and the list of MCResources, of which CollectionProofs speaks.
LEMMA HashesTyped ==
    ASSUME HashIInv
    PROVE  /\ object = "map" => Dictionary!TypeOK
           /\ object = "set" => Set!TypeOK
           /\ object = "list" => List!TypeOK
<1>1. ASSUME object = "map" PROVE Dictionary!TypeOK
  <2>1. SortedSets!Table!TypeOK
    BY <1>1, SortedSets!TableTypes DEF HashIInv
  <2> QED BY <2>1, Zenon DEF
       SortedSets!Table!TypeOK, Dictionary!TypeOK, SortedSets!Table!FreeListed,
       Dictionary!FreeListed, SortedSets!Table!Freed, Dictionary!Freed, SortedSets!Table!Capacity,
       Dictionary!Capacity, SortedSets!Table!findEntryIndex, Dictionary!findEntryIndex,
       SortedSets!Table!Matches, Dictionary!Matches, SortedSets!Table!Range, Dictionary!Range,
       SortedSets!Table!Chain, Dictionary!Chain, SortedSets!Table!Cardinality,
       Dictionary!Cardinality, SortedSets!Table!IsFiniteSet, Dictionary!IsFiniteSet
<1>2. ASSUME object = "set" PROVE Set!TypeOK
  <2>1. MultiMaps!Table!TypeOK
    BY <1>2, MultiMaps!TableTypes DEF HashIInv
  <2> QED BY <2>1, Zenon DEF
       MultiMaps!Table!TypeOK, Set!TypeOK, MultiMaps!Table!FreeListed, Set!FreeListed,
       MultiMaps!Table!Freed, Set!Freed, MultiMaps!Table!Capacity, Set!Capacity,
       MultiMaps!Table!findEntryIndex, Set!findEntryIndex, MultiMaps!Table!Matches, Set!Matches,
       MultiMaps!Table!Range, Set!Range, MultiMaps!Table!Chain, Set!Chain,
       MultiMaps!Table!Cardinality, Set!Cardinality, MultiMaps!Table!IsFiniteSet, Set!IsFiniteSet
<1>3. ASSUME object = "list" PROVE List!TypeOK
  <2>1. SortedMaps!TypeOK
    BY <1>3, SortedMaps!ListIInvTypes DEF HashIInv
  <2> QED BY <2>1, Zenon DEF
       SortedMaps!TypeOK, List!TypeOK, SortedMaps!Order, List!Order, SortedMaps!Range, List!Range,
       SortedMaps!first, List!first, SortedMaps!Nothing, List!Nothing, SortedMaps!Cardinality,
       List!Cardinality, SortedMaps!IsFiniteSet, List!IsFiniteSet
<1> QED BY <1>1, <1>2, <1>3

TypesIInv == ResourceIInv /\ HashIInv /\ FormIs /\ ClearsBounded

\* Each object of MCResources has the types that its module says: the tokens, which settle
\* their links, the stacks, whose disposals stand at an entry, the forms of the listeners,
\* the hash tables with their free lists and the circle of the linked list (their TypeOK).
THEOREM AllTypesCorrect == AllSpec => []AllTypeOK
<1>1. AllInit => TypesIInv
  <2> SUFFICES ASSUME AllInit PROVE FormIs /\ ClearsBounded
    BY AllStarts, HashStarts DEF TypesIInv
  <2>1. Events!Init /\ Memo!Init
    BY DEF AllInit
  <2> QED BY <2>1, Limits DEF Events!Init, Memo!Init, FormIs, ClearsBounded
<1>2. TypesIInv /\ [AllNext]_all => TypesIInv'
  <2> SUFFICES ASSUME TypesIInv, [AllNext]_all PROVE TypesIInv'
    OBVIOUS
  <2>1. ResourceIInv'
    BY OneObjectSteps, LazyPreserves, DelayPreserves, MemoPreserves, EventPreserves,
       DisposablePreserves, Zenon DEF ResourceIInv, TypesIInv
  <2>2. FormIs' /\ ClearsBounded'
    BY OneObjectSteps, FormSteps, ClearsSteps, Zenon DEF ResourceIInv, TypesIInv
  <2> QED BY <2>1, <2>2, HashSteps DEF TypesIInv
<1>3. TypeOK /\ TypesIInv => AllTypeOK
  <2> SUFFICES ASSUME TypeOK, TypesIInv PROVE AllTypeOK
    OBVIOUS
  <2>1. Lazy!TypeOK /\ Delay!TypeOK
    BY DEF TypesIInv, ResourceIInv, LazyIInv, DelayIInv
  <2>2. Memo!TypeOK /\ Events!TypeOK /\ Stack!TypeOK
    BY MemoTyped, EventsTyped, StackTyped DEF TypesIInv, ResourceIInv
  <2>3. HashIInv
    BY DEF TypesIInv
  <2> QED BY <2>1, <2>2, <2>3, HashesTyped DEF AllTypeOK
<1>4. AllSpec => []TypeOK
  BY TokensAmongResources, TokensAreTyped, PTL
<1> QED BY <1>1, <1>2, <1>3, <1>4, PTL DEF AllSpec
=============================================================================
