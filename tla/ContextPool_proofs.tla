-------------------------- MODULE ContextPool_proofs --------------------------
(***************************************************************************)
(* Machine-checked proofs about the pool of execution contexts, and about  *)
(* load and unload of the engine that has it, for every number of threads, *)
(* contexts and output bindings.                                           *)
(***************************************************************************)
EXTENDS EngineLoad, FiniteSetTheorems, TLAPS

Distinct(s) == \A i, j \in 1..Len(s) : i # j => s[i] # s[j]
Elements(s) == {s[i] : i \in 1..Len(s)}

\* Taking the front of a queue without duplicates takes it out.
LEMMA TailElements ==
  ASSUME NEW S, NEW s \in Seq(S), s # <<>>, Distinct(s)
  PROVE  /\ Tail(s) \in Seq(S) /\ Head(s) \in S
         /\ Distinct(Tail(s))
         /\ Elements(Tail(s)) = Elements(s) \ {Head(s)}
         /\ Head(s) \in Elements(s)
<1>1. /\ Tail(s) \in Seq(S) /\ Head(s) \in S /\ Head(s) = s[1]
      /\ Len(s) \in Nat /\ Len(s) >= 1
      /\ Len(Tail(s)) = Len(s) - 1
      /\ \A i \in 1..Len(Tail(s)) : Tail(s)[i] = s[i + 1]
  OBVIOUS
<1>2. Distinct(Tail(s))
  BY <1>1 DEF Distinct
<1>3. ASSUME NEW x \in Elements(s), x # Head(s)
      PROVE  x \in Elements(Tail(s))
  <2>1. PICK i \in 1..Len(s) : x = s[i]
    BY DEF Elements
  <2>2. i - 1 \in 1..Len(Tail(s)) /\ Tail(s)[i - 1] = x
    BY <1>1, <1>3, <2>1
  <2> QED BY <2>2 DEF Elements
<1>4. ASSUME NEW x \in Elements(Tail(s))
      PROVE  x \in Elements(s) \ {Head(s)}
  <2>1. PICK i \in 1..Len(Tail(s)) : x = Tail(s)[i]
    BY DEF Elements
  <2>2. i + 1 \in 1..Len(s) /\ s[i + 1] = x /\ i + 1 # 1 /\ 1 \in 1..Len(s)
    BY <1>1, <2>1
  <2>3. s[i + 1] # s[1]
    BY <2>2 DEF Distinct
  <2> QED BY <1>1, <2>2, <2>3 DEF Elements
<1>5. Head(s) \in Elements(s)
  BY <1>1 DEF Elements
<1> QED BY <1>1, <1>2, <1>3, <1>4, <1>5

\* Giving back what is not there keeps the queue without duplicates.
LEMMA AppendElements ==
  ASSUME NEW S, NEW s \in Seq(S), NEW x \in S, Distinct(s), x \notin Elements(s)
  PROVE  /\ Append(s, x) \in Seq(S)
         /\ Distinct(Append(s, x))
         /\ Elements(Append(s, x)) = Elements(s) \cup {x}
<1>1. /\ Append(s, x) \in Seq(S)
      /\ Len(s) \in Nat
      /\ Len(Append(s, x)) = Len(s) + 1
      /\ \A i \in 1..Len(s) : Append(s, x)[i] = s[i]
      /\ Append(s, x)[Len(s) + 1] = x
  OBVIOUS
<1>2. Distinct(Append(s, x))
  BY <1>1 DEF Distinct, Elements
<1>3. Elements(Append(s, x)) = Elements(s) \cup {x}
  <2>1. ASSUME NEW y \in Elements(Append(s, x)) PROVE y \in Elements(s) \cup {x}
    BY <1>1 DEF Elements
  <2>2. ASSUME NEW y \in Elements(s) PROVE y \in Elements(Append(s, x))
    BY <1>1 DEF Elements
  <2>3. x \in Elements(Append(s, x))
    BY <1>1 DEF Elements
  <2> QED BY <2>1, <2>2, <2>3
<1> QED BY <1>1, <1>2, <1>3
-----------------------------------------------------------------------------
\* The invariant in terms of who has which context only.
Who(t) == thread[t].ctx
InHand == {Who(t) : t \in Threads} \ {None}

Own ==
  /\ \A t, u \in Threads : t # u /\ Who(t) # None => Who(t) # Who(u)
  /\ Distinct(free)
  /\ Elements(free) \cap InHand = {}
  /\ unload = "loaded" => Elements(free) \cup InHand = Contexts
  /\ unload # "loaded" => Elements(free) \cup InHand \subseteq orphans
  /\ crashed => orphans # {}
  /\ \A t \in Threads : t \in Holding <=> thread[t].ctx # None
  /\ unload \in {"loaded", "cleared"} => alive = Contexts

LEMMA OwnIsIInv == TypeOK => (IInv <=> Own)
<1> SUFFICES ASSUME TypeOK PROVE IInv <=> Own
  OBVIOUS
<1>1. ASSUME \A t \in Threads : t \in Holding <=> thread[t].ctx # None
      PROVE  /\ Held = InHand
             /\ OneUser <=> \A t, u \in Threads : t # u /\ Who(t) # None => Who(t) # Who(u)
  <2>1. Holding \subseteq Threads
    BY DEF Holding, At
  <2>2. Held = InHand
    BY <1>1, <2>1 DEF Held, InHand, Who
  <2>3. OneUser <=> \A t, u \in Threads : t # u /\ Who(t) # None => Who(t) # Who(u)
    BY <1>1, <2>1 DEF OneUser, Who
  <2> QED BY <2>2, <2>3
<1>2. Pooled = Elements(free) /\ (Distinct(free) <=> \A i, j \in 1..Len(free) : i # j => free[i] # free[j])
  BY DEF Pooled, Elements, Distinct
<1>3. ASSUME IInv PROVE Own
  BY <1>1, <1>2, <1>3 DEF IInv, Own, NoneLost, CrashNeedsHolder
<1>4. ASSUME Own PROVE IInv
  BY <1>1, <1>2, <1>4 DEF IInv, Own, NoneLost, CrashNeedsHolder
<1> QED BY <1>3, <1>4

LEMMA InitInv == Init => IInv
<1> SUFFICES ASSUME Init PROVE IInv
  OBVIOUS
<1> USE ContextPoolAssumption
<1>1. TypeOK
  <2>1. free \in Seq(Contexts)
    BY DEF Init, Contexts
  <2> QED BY <2>1 DEF Init, TypeOK, Idle
<1>2. Len(free) = PoolSize /\ \A i \in 1..PoolSize : free[i] = i
  BY DEF Init
<1>3. Distinct(free) /\ Elements(free) = Contexts
  BY <1>2 DEF Distinct, Elements, Contexts
<1>4. Holding = {} /\ InHand = {} /\ \A t \in Threads : Who(t) = None
  BY DEF Init, Holding, At, Idle, InHand, Who
<1>5. Own
  BY <1>3, <1>4 DEF Own, Init, Who
<1> QED BY <1>1, <1>5, OwnIsIInv

\* Steps that neither the pool nor anyone's context take part in.
LEMMA SameContexts ==
  ASSUME TypeOK, Own, free' = free, UNCHANGED <<unload, orphans, alive>>,
         crashed' => crashed \/ orphans # {},
         \A t \in Threads : thread'[t].ctx = thread[t].ctx,
         \A t \in Threads : t \in Holding' <=> t \in Holding
  PROVE  Own'
<1>1. \A t \in Threads : Who(t)' = Who(t)
  BY DEF Who
<1>2. InHand' = InHand
  BY <1>1 DEF InHand
<1>3. Elements(free)' = Elements(free) /\ Distinct(free)' = Distinct(free)
  OBVIOUS
<1> QED BY <1>1, <1>2, <1>3 DEF Own, Who

\* The front of the pool goes to a thread that holds nothing.
LEMMA TakeInv ==
  ASSUME TypeOK, Own, NEW t \in Threads, t \notin Holding, free # <<>>, Take(t),
         UNCHANGED <<alive, unload, orphans, crashed>>
  PROVE  TypeOK' /\ Own'
<1> DEFINE c == Head(free)
<1>1. /\ free' \in Seq(Contexts) /\ c \in Contexts /\ Distinct(free')
      /\ Elements(free') = Elements(free) \ {c} /\ c \in Elements(free)
  BY TailElements DEF TypeOK, Take, Own
<1>2. /\ thread' = [thread EXCEPT ![t] = [pc |-> "using", ctx |-> c, late |-> FALSE]]
      /\ c # None
  BY <1>1, ContextPoolAssumption DEF Take, Contexts, None
<1> HIDE DEF c
<1>3. TypeOK'
  BY <1>1, <1>2 DEF TypeOK
<1>4. /\ Who(t)' = c
      /\ \A u \in Threads \ {t} : Who(u)' = Who(u)
      /\ Who(t) = None
  BY <1>2 DEF TypeOK, Who, Own
<1>5. InHand' = InHand \cup {c}
  BY <1>2, <1>4 DEF InHand
<1>6. c \notin InHand
  BY <1>1 DEF Own
<1>7. \A u, v \in Threads : u # v /\ Who(u)' # None => Who(u)' # Who(v)'
  BY <1>2, <1>4, <1>6 DEF Own, InHand
<1>8. \A u \in Threads : u \in Holding' <=> thread'[u].ctx # None
  BY <1>2 DEF TypeOK, Own, Holding, At
<1>9. /\ Elements(free') \cap InHand' = {}
      /\ Elements(free') \cup InHand' = Elements(free) \cup InHand
  BY <1>1, <1>5 DEF Own
<1> QED BY <1>1, <1>3, <1>7, <1>8, <1>9 DEF Own

LEMMA ReleaseInv ==
  ASSUME TypeOK, Own, NEW t \in Threads, Release(t)
  PROVE  TypeOK' /\ Own'
<1> DEFINE c == thread[t].ctx
<1>1. t \in Holding /\ c \in Contexts /\ c # None /\ c \in InHand
  BY DEF Release, Own, Holding, At, TypeOK, InHand, Who
<1>2. c \notin Elements(free)
  BY <1>1 DEF Own
<1>3. /\ free' \in Seq(Contexts) /\ Distinct(free')
      /\ Elements(free') = Elements(free) \cup {c}
  BY <1>1, <1>2, AppendElements DEF TypeOK, Release, Own
<1>4. thread' = [thread EXCEPT ![t] = [pc |-> "notify", ctx |-> None, late |-> FALSE]]
  BY DEF Release, Idle
<1>5. TypeOK'
  BY <1>3, <1>4 DEF TypeOK, Release
<1>6. /\ Who(t)' = None
      /\ \A u \in Threads \ {t} : Who(u)' = Who(u) /\ Who(u) # c
  BY <1>1, <1>4 DEF TypeOK, Who, Own
<1>7. InHand' = InHand \ {c}
  BY <1>1, <1>6 DEF InHand, Who
<1>8. \A u, v \in Threads : u # v /\ Who(u)' # None => Who(u)' # Who(v)'
  BY <1>6 DEF Own
<1>9. \A u \in Threads : u \in Holding' <=> thread'[u].ctx # None
  BY <1>4 DEF TypeOK, Own, Holding, At
<1>10. /\ Elements(free') \cap InHand' = {}
       /\ Elements(free') \cup InHand' = Elements(free) \cup InHand
  BY <1>1, <1>3, <1>7 DEF Own
<1>11. UNCHANGED <<alive, unload, orphans, crashed>>
  BY DEF Release
<1> QED BY <1>3, <1>5, <1>8, <1>9, <1>10, <1>11 DEF Own

\* The initial states have it and every step keeps it.
LEMMA StepInv ==
  ASSUME IInv, [Next]_vars
  PROVE  IInv'
<1> USE ContextPoolAssumption
<1>1. TypeOK /\ Own
  BY OwnIsIInv DEF IInv
<1>2. SUFFICES TypeOK' /\ Own'
  <2>1. TypeOK' => (IInv' <=> Own')
    BY OwnIsIInv, PTL
  <2> QED BY <2>1
<1>3. CASE UNCHANGED vars
  <2>1. TypeOK'
    BY <1>1, <1>3 DEF TypeOK, vars
  <2>2. \A t \in Threads : t \in Holding' <=> t \in Holding
    BY <1>3 DEF Holding, At, vars
  <2> QED BY <1>1, <1>3, <2>1, <2>2, SameContexts DEF vars
<1>4. ASSUME NEW t \in Threads,
             Infer(t) \/ DeadlinePasses(t) \/ Wake(t)
      PROVE  TypeOK' /\ Own'
  <2>1. TypeOK'
    <3>1. CASE Infer(t)
      BY <1>1, <3>1 DEF TypeOK, Infer
    <3>2. CASE DeadlinePasses(t)
      BY <1>1, <3>2 DEF TypeOK, DeadlinePasses
    <3>3. CASE Wake(t)
      BY <1>1, <3>3 DEF TypeOK, Wake
    <3> QED BY <1>4, <3>1, <3>2, <3>3
  <2>2. \A u \in Threads : thread'[u].ctx = thread[u].ctx
    BY <1>1, <1>4 DEF TypeOK, Infer, DeadlinePasses, Wake
  <2>3. \A u \in Threads : u \in Holding' <=> u \in Holding
    BY <1>1, <1>4 DEF TypeOK, Infer, DeadlinePasses, Wake, Holding, At
  <2> QED BY <1>1, <1>4, <2>1, <2>2, <2>3, SameContexts DEF Infer, DeadlinePasses, Wake
<1>5. ASSUME NEW t \in Threads, Acquire(t)
      PROVE  TypeOK' /\ Own'
  <2>1. t \notin Holding
    BY <1>5 DEF Acquire, Holding, At
  <2>2. CASE free # <<>> /\ Take(t)
    BY <1>1, <1>5, <2>1, <2>2, TakeInv DEF Acquire
  <2>3. CASE ~(free # <<>> /\ Take(t))
    <3>1. UNCHANGED free /\ thread' = [thread EXCEPT ![t].pc = "waiting"]
      BY <1>5, <2>3 DEF Acquire
    <3>2. TypeOK' /\ \A u \in Threads : thread'[u].ctx = thread[u].ctx
      BY <1>1, <1>5, <3>1 DEF TypeOK, Acquire
    <3>3. \A u \in Threads : u \in Holding' <=> u \in Holding
      BY <1>1, <2>1, <3>1 DEF TypeOK, Holding, At
    <3> QED BY <1>1, <1>5, <3>1, <3>2, <3>3, SameContexts DEF Acquire
  <2> QED BY <2>2, <2>3
<1>6. ASSUME NEW t \in Threads, Recheck(t)
      PROVE  TypeOK' /\ Own'
  <2>1. t \notin Holding
    BY <1>6 DEF Recheck, Holding, At
  <2>2. CASE free # <<>> /\ Take(t)
    BY <1>1, <1>6, <2>1, <2>2, TakeInv DEF Recheck
  <2>3. CASE ~(free # <<>> /\ Take(t))
    <3>1. /\ UNCHANGED free
          /\ thread' = [thread EXCEPT ![t] = IF @.late THEN Idle
                                             ELSE [@ EXCEPT !.pc = "waiting"]]
      BY <1>6, <2>3 DEF Recheck
    <3>2. thread[t].ctx = None
      BY <1>1, <2>1 DEF Own
    <3>3. TypeOK' /\ \A u \in Threads : thread'[u].ctx = thread[u].ctx
      BY <1>1, <1>6, <3>1, <3>2 DEF TypeOK, Recheck, Idle
    <3>4. \A u \in Threads : u \in Holding' <=> u \in Holding
      BY <1>1, <2>1, <3>1 DEF TypeOK, Holding, At, Idle
    <3> QED BY <1>1, <1>6, <3>1, <3>3, <3>4, SameContexts DEF Recheck
  <2> QED BY <2>2, <2>3
<1>7. ASSUME NEW t \in Threads, Use(t)
      PROVE  TypeOK' /\ Own'
  <2>1. t \in Holding /\ Who(t) \in InHand
    BY <1>1, <1>7 DEF Use, Holding, At, Own, InHand, Who
  <2>2. CASE thread' = [thread EXCEPT ![t].pc = "release"] /\ UNCHANGED crashed
    <3>1. TypeOK' /\ \A u \in Threads : thread'[u].ctx = thread[u].ctx
      BY <1>1, <1>7, <2>2 DEF TypeOK, Use
    <3>2. \A u \in Threads : u \in Holding' <=> u \in Holding
      BY <1>1, <2>1, <2>2 DEF TypeOK, Holding, At
    <3> QED BY <1>1, <1>7, <2>2, <3>1, <3>2, SameContexts DEF Use
  <2>3. CASE thread[t].ctx \notin alive /\ crashed' = TRUE /\ UNCHANGED thread
    <3>1. TypeOK' /\ \A u \in Threads : thread'[u].ctx = thread[u].ctx
      BY <1>1, <1>7, <2>3 DEF TypeOK, Use
    <3>2. thread[t].ctx \in Contexts
      BY <1>1, <2>1 DEF TypeOK, Own
    <3>3. unload # "loaded"
      BY <1>1, <2>3, <3>2 DEF Own
    <3>4. orphans # {}
      BY <1>1, <2>1, <3>3 DEF Own
    <3>5. \A u \in Threads : u \in Holding' <=> u \in Holding
      BY <2>3 DEF Holding, At
    <3> QED BY <1>1, <1>7, <2>3, <3>1, <3>4, <3>5, SameContexts DEF Use
  <2> QED BY <1>7, <2>2, <2>3 DEF Use
<1>8. ASSUME NEW t \in Threads, Notify(t)
      PROVE  TypeOK' /\ Own'
  <2>1. t \notin Holding /\ thread[t].ctx = None
    BY <1>1, <1>8 DEF Notify, Holding, At, Own
  <2>2. CASE \E w \in At("waiting") :
               thread' = [thread EXCEPT ![t] = Idle, ![w].pc = "woken"]
    <3>1. PICK w \in At("waiting") :
                 thread' = [thread EXCEPT ![t] = Idle, ![w].pc = "woken"]
      BY <2>2
    <3>2. w \in Threads /\ thread[w].pc = "waiting" /\ w # t
      BY <1>8, <3>1 DEF At, Notify
    <3>3. TypeOK' /\ \A u \in Threads : thread'[u].ctx = thread[u].ctx
      <4>1. /\ DOMAIN thread = Threads
            /\ thread' = [u \in Threads |->
                            IF u = w THEN [thread[w] EXCEPT !.pc = "woken"]
                            ELSE IF u = t THEN Idle ELSE thread[u]]
        BY <1>1, <3>1, <3>2 DEF TypeOK
      <4>2. [thread[w] EXCEPT !.pc = "woken"] =
              [pc |-> "woken", ctx |-> thread[w].ctx, late |-> thread[w].late]
        BY <1>1, <3>2 DEF TypeOK
      <4> QED BY <1>1, <1>8, <2>1, <3>2, <4>1, <4>2 DEF TypeOK, Notify, Idle
    <3>4. \A u \in Threads : u \in Holding' <=> u \in Holding
      BY <1>1, <2>1, <3>1, <3>2 DEF TypeOK, Holding, At, Idle
    <3> QED BY <1>1, <1>8, <3>3, <3>4, SameContexts DEF Notify
  <2>3. CASE thread' = [thread EXCEPT ![t] = Idle]
    <3>1. TypeOK' /\ \A u \in Threads : thread'[u].ctx = thread[u].ctx
      BY <1>1, <1>8, <2>1, <2>3 DEF TypeOK, Notify, Idle
    <3>2. \A u \in Threads : u \in Holding' <=> u \in Holding
      BY <1>1, <2>1, <2>3 DEF TypeOK, Holding, At, Idle
    <3> QED BY <1>1, <1>8, <3>1, <3>2, SameContexts DEF Notify
  <2> QED BY <1>8, <2>2, <2>3 DEF Notify
<1>9. ASSUME UnloadClear, ~crashed
      PROVE  TypeOK' /\ Own'
  <2>1. Held = InHand /\ Held \subseteq Contexts
    BY <1>1, OwnIsIInv DEF Held, InHand, Who, Own, TypeOK, Holding, At
  <2>2. TypeOK'
    BY <1>1, <1>9, <2>1 DEF TypeOK, UnloadClear
  <2>3. Elements(free') = {} /\ Distinct(free')
    BY <1>9 DEF UnloadClear, Elements, Distinct
  <2>4. InHand' = InHand /\ \A t \in Threads : Who(t)' = Who(t)
    BY <1>9 DEF UnloadClear, InHand, Who
  <2>5. \A t \in Threads : t \in Holding' <=> thread'[t].ctx # None
    BY <1>1, <1>9 DEF UnloadClear, Own, Holding, At
  <2>6. ~crashed'
    BY <1>9 DEF UnloadClear
  <2> QED BY <1>1, <1>9, <2>1, <2>2, <2>3, <2>4, <2>5, <2>6 DEF Own, UnloadClear
<1>10. CASE UnloadNotify
  <2>1. TypeOK' /\ \A u \in Threads : thread'[u].ctx = thread[u].ctx
    BY <1>1, <1>10 DEF TypeOK, UnloadNotify, At
  <2>2. \A u \in Threads : u \in Holding' <=> u \in Holding
    BY <1>1, <1>10 DEF TypeOK, UnloadNotify, Holding, At
  <2>3. InHand' = InHand /\ \A t \in Threads : Who(t)' = Who(t)
    BY <2>1 DEF InHand, Who
  <2> QED BY <1>1, <1>10, <2>1, <2>2, <2>3 DEF Own, UnloadNotify
<1>11. CASE UnloadFree \/ UnloadEnd
  <2>1. TypeOK'
    BY <1>1, <1>11 DEF TypeOK, UnloadFree, UnloadEnd
  <2>2. UNCHANGED <<free, thread, orphans, crashed>> /\ unload = "notified"
        /\ unload' \in {"notified", "unloaded"}
    BY <1>11 DEF UnloadFree, UnloadEnd
  <2>3. InHand' = InHand /\ \A t \in Threads : Who(t)' = Who(t)
    BY <2>2 DEF InHand, Who
  <2>4. \A u \in Threads : u \in Holding' <=> u \in Holding
    BY <2>2 DEF Holding, At
  <2> QED BY <1>1, <2>1, <2>2, <2>3, <2>4 DEF Own
<1>12. ASSUME NEW t \in Threads, Release(t) PROVE TypeOK' /\ Own'
  BY <1>1, <1>12, ReleaseInv
<1> QED
  BY <1>3, <1>4, <1>5, <1>6, <1>7, <1>8, <1>9, <1>10, <1>11, <1>12
  DEF Next, Call, Unload
-----------------------------------------------------------------------------
\* IInv holds in every reachable state.
THEOREM Invariance == Spec => []IInv
<1>1. IInv /\ [Next]_vars => IInv'
  BY StepInv
<1> QED BY InitInv, <1>1, PTL DEF Spec

\* The types are right.
THEOREM TypeCorrect == Spec => []TypeOK
<1>1. IInv => TypeOK
  BY DEF IInv
<1> QED BY Invariance, <1>1, PTL

\* No two threads ever have the same execution context, however they time
\* out, are woken for nothing, or have the engine unloaded under them.
THEOREM OneUserAlways == Spec => []OneUser
<1>1. IInv => OneUser
  BY DEF IInv
<1> QED BY Invariance, <1>1, PTL

\* No context is lost or in the pool twice.
THEOREM NoneLostAlways == Spec => []NoneLost
<1>1. IInv => NoneLost
  BY DEF IInv
<1> QED BY Invariance, <1>1, PTL

\* What is freed by unload is used only by, or after, a thread that held a
\* context when unload began.
THEOREM CrashNeedsHolderAlways == Spec => []CrashNeedsHolder
<1>1. IInv => CrashNeedsHolder
  BY DEF IInv
<1> QED BY Invariance, <1>1, PTL
-----------------------------------------------------------------------------
\* How many threads are at a place, when one comes or leaves.
LEMMA CountAt ==
  ASSUME NEW at, NEW t
  PROVE  /\ IsFiniteSet(At(at)) /\ Cardinality(At(at)) \in Nat
         /\ Cardinality(At(at) \cup {t}) = Cardinality(At(at)) + (IF t \in At(at) THEN 0 ELSE 1)
         /\ Cardinality(At(at) \ {t}) = Cardinality(At(at)) - (IF t \in At(at) THEN 1 ELSE 0)
<1>1. IsFiniteSet(At(at))
  BY ContextPoolAssumption, FS_Subset DEF At
<1>2. Cardinality(At(at)) \in Nat
  BY <1>1, FS_CardinalityType
<1>3. Cardinality(At(at) \cup {t}) = Cardinality(At(at)) + (IF t \in At(at) THEN 0 ELSE 1)
  BY <1>1, <1>2, FS_AddElement
<1>4. Cardinality(At(at) \ {t}) = Cardinality(At(at)) - (IF t \in At(at) THEN 1 ELSE 0)
  <2>1. CASE t \in At(at)
    BY <1>1, <1>2, <2>1, FS_RemoveElement
  <2>2. CASE t \notin At(at)
    <3>1. At(at) \ {t} = At(at)
      BY <2>2
    <3> QED BY <1>2, <2>2, <3>1
  <2> QED BY <2>1, <2>2
<1> QED BY <1>1, <1>2, <1>3, <1>4

\* The step that takes a context out of the pool is itself somebody on the way
\* to one, or leaves one context fewer; the step that gives one back adds the
\* thread that will notify.
LEMMA WakeupStep ==
  ASSUME IInv, NoLostWakeup, [Next]_vars
  PROVE  NoLostWakeup'
<1> DEFINE Woken == Cardinality(At("woken"))
           Notifying == Cardinality(At("notify"))
<1>1. /\ TypeOK /\ Woken \in Nat /\ Notifying \in Nat
      /\ Woken' \in Nat /\ Notifying' \in Nat
  <2>1. IsFiniteSet(At("woken")') /\ IsFiniteSet(At("notify")')
    BY ContextPoolAssumption, FS_Subset DEF At
  <2>2. Woken' \in Nat /\ Notifying' \in Nat
    BY <2>1, FS_CardinalityType
  <2> QED BY <2>2, CountAt DEF IInv
<1>2. /\ free \in Seq(Contexts) /\ Len(free) \in Nat
      /\ free # <<>> => Len(Tail(free)) = Len(free) - 1
      /\ free = <<>> => Len(free) = 0
      /\ \A c \in Contexts : Len(Append(free, c)) = Len(free) + 1
  BY <1>1 DEF TypeOK
<1>3. CASE UNCHANGED vars
  BY <1>3 DEF vars, NoLostWakeup, At
<1>4. ASSUME NEW t \in Threads, Infer(t) \/ Use(t)
      PROVE  NoLostWakeup'
  <2>1. UNCHANGED <<free, thread>> \/ (UNCHANGED free /\ \E pc \in {"acquire", "release"} :
                                           /\ thread[t].pc \in {"idle", "using"}
                                           /\ thread' = [thread EXCEPT ![t].pc = pc])
    BY <1>4 DEF Infer, Use
  <2>2. \A at \in {"woken", "notify", "waiting"} : At(at)' = At(at)
    BY <1>1, <2>1 DEF At, TypeOK
  <2> QED BY <2>1, <2>2 DEF NoLostWakeup
<1>5. ASSUME NEW t \in Threads, DeadlinePasses(t)
      PROVE  NoLostWakeup'
  <2>1. \A at \in {"woken", "notify", "waiting"} : At(at)' = At(at)
    BY <1>1, <1>5 DEF At, TypeOK, DeadlinePasses
  <2> QED BY <1>5, <2>1 DEF NoLostWakeup, DeadlinePasses
<1>6. ASSUME NEW t \in Threads, Wake(t)
      PROVE  NoLostWakeup'
  <2>1. /\ At("woken")' = At("woken") \cup {t} /\ t \notin At("woken")
        /\ At("notify")' = At("notify") /\ t \in At("waiting")
    BY <1>1, <1>6 DEF At, TypeOK, Wake
  <2>2. Woken' = Woken + 1
    BY <2>1, CountAt
  <2> QED BY <1>1, <1>2, <1>6, <2>1, <2>2 DEF NoLostWakeup, Wake
<1>7. ASSUME NEW t \in Threads, Take(t), thread[t].pc \in {"acquire", "woken"}, free # <<>>
      PROVE  NoLostWakeup'
  <2>1. /\ At("woken")' = At("woken") \ {t} /\ At("notify")' = At("notify")
        /\ At("waiting")' = At("waiting")
    BY <1>1, <1>7 DEF At, TypeOK, Take
  <2>2. Woken' >= Woken - 1
    <3>1. Woken' = Woken - (IF t \in At("woken") THEN 1 ELSE 0)
      BY <2>1, CountAt
    <3> HIDE DEF Woken
    <3> QED BY <1>1, <3>1
  <2>3. Len(free') = Len(free) - 1
    BY <1>2, <1>7 DEF Take
  <2> QED BY <1>1, <1>2, <2>1, <2>2, <2>3 DEF NoLostWakeup
<1>8. ASSUME NEW t \in Threads, Acquire(t) \/ Recheck(t)
      PROVE  NoLostWakeup'
  <2>1. CASE free # <<>>
    BY <1>7, <1>8, <2>1 DEF Acquire, Recheck
  <2>2. CASE free = <<>>
    <3>1. free' = <<>>
      BY <1>8, <2>2 DEF Acquire, Recheck
    <3> QED BY <1>1, <3>1 DEF NoLostWakeup
  <2> QED BY <2>1, <2>2
<1>9. ASSUME NEW t \in Threads, Release(t)
       PROVE  NoLostWakeup'
  <2>1. /\ At("notify")' = At("notify") \cup {t} /\ t \notin At("notify")
        /\ At("woken")' = At("woken") /\ At("waiting")' = At("waiting")
    BY <1>1, <1>9 DEF At, TypeOK, Release
  <2>2. Notifying' = Notifying + 1
    BY <2>1, CountAt
  <2>3. thread[t].ctx \in Contexts
    BY <1>1, <1>9 DEF IInv, TypeOK, Release, Holding, At
  <2>4. Len(free') = Len(free) + 1
    BY <1>2, <1>9, <2>3 DEF Release
  <2> QED BY <1>1, <1>2, <2>1, <2>2, <2>4 DEF NoLostWakeup
<1>10. ASSUME NEW t \in Threads, Notify(t)
       PROVE  NoLostWakeup'
  <2>1. CASE At("waiting") = {} /\ thread' = [thread EXCEPT ![t] = Idle]
    <3>1. At("waiting")' = {}
      BY <1>1, <2>1 DEF At, TypeOK, Idle
    <3> QED BY <3>1 DEF NoLostWakeup
  <2>2. ASSUME NEW w \in At("waiting"), thread' = [thread EXCEPT ![t] = Idle, ![w].pc = "woken"]
        PROVE  NoLostWakeup'
    <3>1. w \in Threads /\ w # t /\ t \in At("notify") /\ w \notin At("woken") /\ t \notin At("woken")
      BY <1>10, <2>2 DEF At, Notify
    <3>2. /\ thread'[t].pc = "idle" /\ thread'[w].pc = "woken"
          /\ \A u \in Threads \ {t, w} : thread'[u].pc = thread[u].pc
      BY <1>1, <2>2, <3>1 DEF TypeOK, Idle
    <3>3. At("notify")' = At("notify") \ {t} /\ At("woken")' = At("woken") \cup {w}
      BY <3>1, <3>2 DEF At
    <3>4. Notifying' = Notifying - 1
      BY <3>1, <3>3, CountAt
    <3>5. Woken' = Woken + 1
      BY <3>1, <3>3, CountAt
    <3>6. Len(free') <= Woken + Notifying
      BY <1>10, <2>2 DEF NoLostWakeup, Notify
    <3> QED BY <1>1, <1>2, <3>4, <3>5, <3>6 DEF NoLostWakeup
  <2> QED BY <1>10, <2>1, <2>2 DEF Notify
<1>11. CASE UnloadClear
  BY <1>1, <1>11 DEF UnloadClear, NoLostWakeup
<1>12. CASE UnloadNotify
  <2>1. At("waiting")' = {}
    BY <1>1, <1>12 DEF UnloadNotify, At, TypeOK
  <2> QED BY <2>1 DEF NoLostWakeup
<1>13. CASE UnloadFree \/ UnloadEnd
  BY <1>13 DEF UnloadFree, UnloadEnd, NoLostWakeup, At
<1> QED
  BY <1>3, <1>4, <1>5, <1>6, <1>8, <1>9, <1>10, <1>11, <1>12, <1>13 DEF Next, Call, Unload

\* While a thread waits in acquire_context, somebody is on the way to every
\* free context, whatever came between release_context's unlock and notify_one.
THEOREM NoLostWakeupAlways == Spec => []NoLostWakeup
<1>1. Init => NoLostWakeup
  BY DEF Init, NoLostWakeup, At, Idle
<1>2. IInv /\ NoLostWakeup /\ [Next]_vars => NoLostWakeup'
  BY WakeupStep
<1> QED BY <1>1, <1>2, Invariance, PTL DEF Spec
-----------------------------------------------------------------------------
\* What exists of contexts that are complete.
Complete(ctxs) == ctxs \X (0..Buffers)

\* What load has made when it is at a place, and what unload finds.
MadeSoFar ==
  /\ load.pc = "runtime"  => made = {} /\ load.ctx = 1
  /\ load.pc = "engine"   => made = {Runtime} /\ load.ctx = 1
  /\ load.pc = "context"  => made = {Runtime, Engine} \cup Complete(1..(load.ctx - 1))
  /\ load.pc = "allocate" => made = {Runtime, Engine} \cup Complete(1..(load.ctx - 1))
                                      \cup ({load.ctx} \X (0..(load.next - 1)))
  /\ load.pc \in {"loaded", "failed"} =>
       \/ made \in {{}, {Runtime}} /\ alive = {}
       \/ made = {Runtime, Engine} \cup Complete(alive)

Loads == [pc : {"runtime", "engine", "context", "allocate", "loaded", "failed"},
          ctx : 1..(PoolSize + 1), next : Nat, input : BOOLEAN, outputs : 0..MaxOutputs]

LoadTypeOK ==
  /\ load \in Loads
  /\ alive \subseteq Contexts
  /\ unload \in {"loading", "loaded", "cleared", "notified", "unloaded"}
  /\ unload = "loading" <=> load.pc \notin {"loaded", "failed"}
  /\ unload = "loaded" => load.pc = "loaded"

\* Until load has succeeded nobody has seen the pool; then it is ContextPool's.
Unseen ==
  /\ free = <<>> /\ orphans = {} /\ crashed = FALSE
  /\ thread = [t \in Threads |-> Idle]

LoadInv ==
  /\ LoadTypeOK
  /\ load.pc = "loaded" => IInv /\ NoLostWakeup
  /\ load.pc # "loaded" => Unseen
  /\ unload = "loading" => alive = {}
  /\ load.pc = "allocate" => load.ctx <= PoolSize /\ load.next <= Buffers + 1
  /\ MadeSoFar
  /\ unload = "unloaded" => made = {} /\ alive = {}

\* The steps of load before it succeeds.
LEMMA LoadStep ==
  ASSUME LoadInv, ~crashed,
         CreateRuntime \/ Deserialize \/ CreateContext \/ Allocate \/ AllocateFails \/ KeepContext
  PROVE  LoadInv'
<1> DEFINE B == Buffers
<1> USE ContextPoolAssumption, EngineLoadAssumption
<1>1. /\ load \in Loads
      /\ load.pc \in {"runtime", "engine", "context", "allocate"}
      /\ unload = "loading" /\ alive = {} /\ Unseen /\ MadeSoFar
      /\ load.pc = "allocate" => load.ctx <= PoolSize /\ load.next <= B + 1
      /\ PoolSize \in Nat /\ load.ctx \in 1..(PoolSize + 1) /\ load.ctx \in Nat /\ load.next \in Nat /\ B \in Nat
  <2>1. /\ load \in Loads
    BY DEF LoadInv, LoadTypeOK
  <2>2. load.pc \in {"runtime", "engine", "context", "allocate"}
    BY DEF CreateRuntime, Deserialize, CreateContext, Allocate, AllocateFails, KeepContext
  <2>3. B \in Nat
    BY <2>1 DEF Buffers, Loads
  <2>4. load.ctx \in 1..(PoolSize + 1) /\ load.next \in Nat
    BY <2>1 DEF Loads
  <2> QED BY <2>1, <2>2, <2>3, <2>4 DEF LoadInv, LoadTypeOK
<1>2. ASSUME UNCHANGED poolVars, load'.pc \in {"engine", "context", "allocate"},
             load' \in Loads,
             load'.pc = "allocate" => load'.ctx <= PoolSize /\ load'.next <= B' + 1,
             MadeSoFar'
      PROVE  LoadInv'
  BY <1>1, <1>2 DEF LoadInv, LoadTypeOK, Unseen, poolVars, vars
<1>3. ASSUME Fail, \/ made' \in {{}, {Runtime}} /\ load.ctx = 1
                   \/ made' = {Runtime, Engine} \cup Complete(1..(load.ctx - 1))
      PROVE  LoadInv'
  <2>1. /\ load'.pc = "failed" /\ load'.input = load.input /\ load'.outputs = load.outputs
        /\ alive' = 1..(load.ctx - 1) /\ unload' = "cleared"
        /\ load' \in Loads
    BY <1>1, <1>3 DEF Fail, Loads
  <2>2. alive' \subseteq Contexts
    BY <1>1, <2>1 DEF Contexts
  <2>3. Unseen'
    BY <1>1, <1>3 DEF Unseen, Fail
  <2>4. B' = B
    BY <2>1 DEF Buffers
  <2>5. MadeSoFar'
    BY <1>1, <1>3, <2>1, <2>4 DEF MadeSoFar, Complete
  <2> QED BY <2>1, <2>2, <2>3, <2>5 DEF LoadInv, LoadTypeOK
<1>4. CASE CreateRuntime
  <2>1. CASE Fail /\ UNCHANGED made
    BY <1>1, <1>3, <1>4, <2>1 DEF CreateRuntime, MadeSoFar
  <2>2. CASE made' = made \cup {Runtime} /\ Goto("engine")
    <3>1. load'.pc = "engine" /\ load'.ctx = load.ctx /\ load' \in Loads /\ UNCHANGED poolVars
      BY <1>1, <2>2 DEF Goto, Loads
    <3>2. made' = {Runtime} /\ load.ctx = 1
      BY <1>4, <1>1, <2>2 DEF CreateRuntime, MadeSoFar
    <3>3. MadeSoFar'
      BY <3>1, <3>2 DEF MadeSoFar
    <3> QED BY <1>2, <3>1, <3>3
  <2> QED BY <1>4, <2>1, <2>2 DEF CreateRuntime
<1>5. CASE Deserialize
  <2>1. CASE Fail /\ UNCHANGED made
    BY <1>1, <1>3, <1>5, <2>1 DEF Deserialize, MadeSoFar
  <2>2. CASE ~(Fail /\ UNCHANGED made)
    <3>1. PICK input \in BOOLEAN, outputs \in 1..MaxOutputs :
            load' = [load EXCEPT !.pc = "context", !.input = input, !.outputs = outputs]
      BY <1>5, <2>2 DEF Deserialize
    <3>2. load'.pc = "context" /\ load' \in Loads /\ load'.ctx = load.ctx
      <4>1. outputs \in 0..MaxOutputs
        BY <3>1
      <4> QED BY <1>1, <3>1, <4>1 DEF Loads
    <3>3. made' = {Runtime, Engine} /\ load.ctx = 1 /\ UNCHANGED poolVars
      BY <1>1, <1>5, <2>2 DEF Deserialize, MadeSoFar
    <3>4. MadeSoFar'
      <4>1. (1..(load'.ctx - 1)) \X (0..B') = {}
        <5> HIDE DEF B
        <5> QED BY <3>2, <3>3
      <4> QED BY <3>2, <3>3, <4>1 DEF MadeSoFar, Complete
    <3> QED BY <1>2, <3>2, <3>3, <3>4
  <2> QED BY <2>1, <2>2
<1>6. CASE CreateContext
  <2>1. CASE Fail /\ UNCHANGED made
    BY <1>1, <1>3, <1>6, <2>1 DEF CreateContext, MadeSoFar
  <2>2. CASE ~(Fail /\ UNCHANGED made)
    <3>1. /\ load' = [load EXCEPT !.pc = "allocate", !.next = 1] /\ UNCHANGED poolVars
          /\ made' = made \cup {<<load.ctx, 0>>} /\ load.ctx <= PoolSize /\ load.pc = "context"
      BY <1>6, <2>2 DEF CreateContext
    <3>2. /\ load'.pc = "allocate" /\ load' \in Loads /\ load'.ctx = load.ctx /\ load'.next = 1
          /\ load'.input = load.input /\ load'.outputs = load.outputs
      BY <1>1, <3>1 DEF Loads
    <3>3. B' = B
      BY <3>2 DEF Buffers
    <3>4. {<<load.ctx, 0>>} = {load.ctx} \X (0..(1 - 1))
      OBVIOUS
    <3>5. MadeSoFar'
      BY <1>1, <3>1, <3>2, <3>3, <3>4 DEF MadeSoFar, Complete
    <3> HIDE DEF B
    <3> QED BY <1>1, <1>2, <3>1, <3>2, <3>3, <3>5
  <2> QED BY <2>1, <2>2
<1>7. CASE Allocate
  <2>1. /\ load' = [load EXCEPT !.next = @ + 1] /\ UNCHANGED poolVars
        /\ made' = made \cup {<<load.ctx, load.next>>}
        /\ load.pc = "allocate" /\ load.next <= B
    BY <1>7 DEF Allocate
  <2>2. /\ load'.pc = "allocate" /\ load' \in Loads /\ load'.ctx = load.ctx /\ load'.next = load.next + 1
        /\ load'.input = load.input /\ load'.outputs = load.outputs
    BY <1>1, <2>1 DEF Loads
  <2>3. B' = B
    BY <2>2 DEF Buffers
  <2>4. ({load.ctx} \X (0..(load.next - 1))) \cup {<<load.ctx, load.next>>} = {load.ctx} \X (0..(load.next + 1 - 1))
    BY <1>1
  <2>5. MadeSoFar'
    BY <1>1, <2>1, <2>2, <2>3, <2>4 DEF MadeSoFar, Complete
  <2> HIDE DEF B
  <2> QED BY <1>1, <1>2, <2>1, <2>2, <2>3, <2>5
<1>8. CASE AllocateFails
  <2>1. made \ Of(load.ctx) = {Runtime, Engine} \cup Complete(1..(load.ctx - 1))
    BY <1>1, <1>8 DEF AllocateFails, MadeSoFar, Complete, Of, Runtime, Engine, Owner
  <2> QED BY <1>3, <1>8, <2>1 DEF AllocateFails
<1>9. CASE KeepContext
  <2>1. /\ load' = [load EXCEPT !.pc = "context", !.ctx = @ + 1] /\ UNCHANGED poolVars
        /\ UNCHANGED made
        /\ load.pc = "allocate" /\ load.next = B + 1 /\ load.ctx <= PoolSize
    BY <1>1, <1>9 DEF KeepContext
  <2>2. /\ load'.pc = "context" /\ load' \in Loads /\ load'.ctx = load.ctx + 1
        /\ load'.input = load.input /\ load'.outputs = load.outputs
    <3>1. load.ctx + 1 \in 1..(PoolSize + 1)
      BY <1>1, <2>1
    <3> QED BY <1>1, <2>1, <3>1 DEF Loads
  <2>3. B' = B
    BY <2>2 DEF Buffers
  <2>4. ((1..(load.ctx - 1)) \X (0..B)) \cup ({load.ctx} \X (0..(B + 1 - 1))) = (1..(load.ctx + 1 - 1)) \X (0..B)
    <3> HIDE DEF B
    <3>1. 1..(load.ctx + 1 - 1) = (1..(load.ctx - 1)) \cup {load.ctx} /\ 0..(B + 1 - 1) = 0..B
      BY <1>1
    <3> QED BY <3>1
  <2>5. MadeSoFar'
    BY <1>1, <2>1, <2>2, <2>3, <2>4 DEF MadeSoFar, Complete
  <2> HIDE DEF B
  <2> QED BY <1>1, <1>2, <2>1, <2>2, <2>3, <2>5
<1> QED BY <1>4, <1>5, <1>6, <1>7, <1>8, <1>9

\* When load has succeeded the pool is as ContextPool starts with it.
LEMMA LoadedStep ==
  ASSUME LoadInv, Loaded
  PROVE  LoadInv'
<1>1. /\ load.pc = "context" /\ load' = [load EXCEPT !.pc = "loaded"]
      /\ load \in Loads /\ load.ctx = PoolSize + 1 /\ Unseen
      /\ made = {Runtime, Engine} \cup Complete(Contexts)
      /\ alive' = Contexts /\ unload' = "loaded" /\ UNCHANGED <<made, thread, crashed, orphans>>
  <2>1. load.pc = "context" /\ load \in Loads /\ Unseen /\ MadeSoFar /\ load.ctx > PoolSize
    BY DEF Loaded, LoadInv, LoadTypeOK
  <2>2. load.ctx = PoolSize + 1 /\ 1..(load.ctx - 1) = Contexts
    BY <2>1, ContextPoolAssumption DEF Loads, Contexts
  <2> QED BY <2>1, <2>2 DEF Loaded, MadeSoFar
<1>2. /\ load' \in Loads /\ load'.pc = "loaded"
      /\ load'.input = load.input /\ load'.outputs = load.outputs
  BY <1>1 DEF Loads
<1>3. IInv'
  <2>1. thread' = [t \in Threads |-> Idle]
    BY <1>1 DEF Unseen
  <2>2. Init'
    BY <1>1, <2>1 DEF Unseen, Init, Loaded
  <2>3. Init' => IInv'
    BY InitInv, PTL
  <2> QED BY <2>2, <2>3
<1>4. NoLostWakeup'
  BY <1>1 DEF Unseen, Idle, NoLostWakeup, At
<1>5. MadeSoFar'
  BY <1>1, <1>2 DEF MadeSoFar, Complete, Buffers
<1> QED BY <1>1, <1>2, <1>3, <1>4, <1>5 DEF LoadInv, LoadTypeOK

\* unload frees what there is, after a load that succeeded or failed.
LEMMA MadeStep ==
  ASSUME LoadInv, load.pc \in {"loaded", "failed"}, UNCHANGED load,
         \/ UNCHANGED <<made, alive>> /\ unload' # "unloaded"
         \/ FreeContext
         \/ DestroyEngine
  PROVE  MadeSoFar' /\ (unload' = "unloaded" => made' = {} /\ alive' = {}) /\ alive' \subseteq Contexts
<1> DEFINE B == Buffers
<1>1. B' = B
  BY DEF Buffers
<1>2. /\ \/ made \in {{}, {Runtime}} /\ alive = {}
         \/ made = {Runtime, Engine} \cup (alive \X (0..B))
      /\ alive \subseteq Contexts /\ Owner \notin Contexts
  BY DEF LoadInv, LoadTypeOK, MadeSoFar, Complete, Owner, Contexts
<1> HIDE DEF B
<1>3. SUFFICES /\ \/ made' \in {{}, {Runtime}} /\ alive' = {}
                  \/ made' = {Runtime, Engine} \cup (alive' \X (0..B))
               /\ unload' = "unloaded" => made' = {} /\ alive' = {}
               /\ alive' \subseteq Contexts
  BY <1>1 DEF MadeSoFar, Complete, B
<1>4. CASE UNCHANGED <<made, alive>> /\ unload' # "unloaded"
  BY <1>2, <1>4
<1>5. CASE FreeContext
  <2>1. PICK c \in alive : alive' = alive \ {c}
    BY <1>5 DEF FreeContext, UnloadFree
  <2>2. alive \ alive' = {c} /\ c # Owner /\ unload' # "unloaded"
    BY <1>2, <1>5, <2>1 DEF FreeContext, UnloadFree
  <2>3. made' = {r \in {Runtime, Engine} \cup (alive \X (0..B)) : r[1] # c}
    BY <1>2, <1>5, <2>1, <2>2 DEF FreeContext
  <2>4. made' = {Runtime, Engine} \cup ((alive \ {c}) \X (0..B))
    BY <2>2, <2>3 DEF Runtime, Engine
  <2> QED BY <1>2, <2>1, <2>2, <2>4
<1>6. CASE DestroyEngine
  <2>1. alive = {} /\ alive' = {} /\ made' = made \ {Engine, Runtime}
    BY <1>6 DEF DestroyEngine, UnloadEnd
  <2>2. made \subseteq {Engine, Runtime}
    BY <1>2, <2>1
  <2> QED BY <2>1, <2>2
<1> QED BY <1>4, <1>5, <1>6

LEMMA LoadInvStep ==
  ASSUME LoadInv, [LoadNext]_loadVars
  PROVE  LoadInv'
<1>1. CASE UNCHANGED loadVars
  <2>1. IInv' = IInv /\ NoLostWakeup' = NoLostWakeup
    BY <1>1 DEF loadVars, vars, IInv, TypeOK, OneUser, NoneLost, CrashNeedsHolder, Holding, Held, At, Pooled, NoLostWakeup
  <2> QED BY <1>1, <2>1 DEF loadVars, vars, LoadInv, LoadTypeOK, Unseen, MadeSoFar, Complete, Buffers
<1>2. CASE ~crashed /\ Load
  BY <1>2, LoadStep, LoadedStep DEF Load
<1>3. ASSUME ~crashed, UNCHANGED load, load.pc \in {"loaded", "failed"}, Next,
             \/ UNCHANGED <<made, alive>> /\ unload' # "unloaded"
             \/ FreeContext
             \/ DestroyEngine,
             load.pc = "failed" => Unseen' /\ unload' # "loaded",
             unload' \in {"loaded", "cleared", "notified", "unloaded"}
      PROVE  LoadInv'
  <2>1. MadeSoFar' /\ (unload' = "unloaded" => made' = {} /\ alive' = {}) /\ alive' \subseteq Contexts
    BY <1>3, MadeStep
  <2>2. load.pc = "loaded" => IInv' /\ NoLostWakeup'
    BY <1>3, StepInv, WakeupStep DEF LoadInv
  <2> QED BY <1>3, <2>1, <2>2 DEF LoadInv, LoadTypeOK
<1>4. ASSUME ~crashed, UNCHANGED load, NEW t \in Threads, CallInfer(t) \/ InCall(t), UNCHANGED made
      PROVE  LoadInv'
  <2>1. load.pc = "loaded"
    <3>1. CASE CallInfer(t)
      BY <3>1 DEF CallInfer
    <3>2. CASE InCall(t)
      <4>1. thread[t].pc # "idle"
        BY <3>2 DEF InCall, Call, Acquire, Recheck, Use, Release, Notify, DeadlinePasses, Wake
      <4> QED BY <4>1 DEF LoadInv, Unseen, Idle
    <3> QED BY <1>4, <3>1, <3>2
  <2>2. Next
    BY <1>4 DEF Next, CallInfer, InCall
  <2>3. UNCHANGED <<unload, alive>>
    BY <1>4 DEF CallInfer, InCall, Infer, Call, Acquire, Recheck, Use, Release, Notify, DeadlinePasses, Wake
  <2>4. unload \in {"loaded", "cleared", "notified", "unloaded"}
    BY <2>1 DEF LoadInv, IInv, TypeOK
  <2>5. unload = "unloaded" => made = {} /\ alive = {}
    BY DEF LoadInv
  <2>6. CASE unload # "unloaded"
    BY <1>3, <1>4, <2>1, <2>2, <2>3, <2>4, <2>6
  <2>7. CASE unload = "unloaded"
    <3>1. IInv' /\ NoLostWakeup'
      BY <2>1, <2>2, StepInv, WakeupStep DEF LoadInv
    <3>2. MadeSoFar'
      BY <1>4, <2>3 DEF LoadInv, MadeSoFar, Complete, Buffers
    <3> QED BY <1>4, <2>1, <2>3, <2>5, <3>1, <3>2 DEF LoadInv, LoadTypeOK
  <2> QED BY <2>6, <2>7
<1>5. ASSUME ~crashed, UNCHANGED load,
             \/ (UnloadClear \/ UnloadNotify) /\ UNCHANGED made
             \/ FreeContext \/ DestroyEngine
      PROVE  LoadInv'
  <2>1. Unload /\ Next /\ unload # "loading"
    BY <1>5 DEF Next, Unload, UnloadClear, UnloadNotify, FreeContext, UnloadFree, DestroyEngine, UnloadEnd
  <2>2. load.pc \in {"loaded", "failed"}
    BY <2>1 DEF LoadInv, LoadTypeOK
  <2>3. /\ \/ UNCHANGED <<made, alive>> /\ unload' # "unloaded"
           \/ FreeContext
           \/ DestroyEngine
        /\ unload' \in {"loaded", "cleared", "notified", "unloaded"}
    BY <1>5, <2>1 DEF UnloadClear, UnloadNotify, FreeContext, UnloadFree, DestroyEngine, UnloadEnd
  <2>4. ASSUME load.pc = "failed"
        PROVE  Unseen' /\ unload' # "loaded"
    <3>1. Unseen /\ unload # "loaded"
      BY <2>4 DEF LoadInv, LoadTypeOK
    <3>2. Holding = {} /\ At("waiting") = {}
      BY <3>1 DEF Unseen, Holding, At, Idle
    <3>3. Held = {}
      BY <3>2 DEF Held
    <3> QED BY <1>5, <3>1, <3>2, <3>3 DEF Unseen, UnloadClear, UnloadNotify, FreeContext, UnloadFree, DestroyEngine, UnloadEnd
  <2> QED BY <1>3, <1>5, <2>1, <2>2, <2>3, <2>4
<1> QED BY <1>1, <1>2, <1>4, <1>5 DEF LoadNext

\* Load, calls of infer and unload in any order.
THEOREM LoadInvariance == LoadSpec => []LoadInv
<1>1. LoadInit => LoadInv
  BY ContextPoolAssumption, EngineLoadAssumption
  DEF LoadInit, LoadInv, LoadTypeOK, Loads, Unseen, MadeSoFar
<1>2. LoadInv /\ [LoadNext]_loadVars => LoadInv'
  BY LoadInvStep
<1> QED BY <1>1, <1>2, PTL DEF LoadSpec

\* Wherever load fails and whenever unload comes: what exists can be reached by
\* what will free it, and nothing exists after unload.
THEOREM NothingLeakedAlways == LoadSpec => []NothingLeaked
<1>1. LoadInv => NothingLeaked
  <2> SUFFICES ASSUME LoadInv
      PROVE  NothingLeaked
    OBVIOUS
  <2> DEFINE B == Buffers
             ctxs == IF unload = "loading" THEN 1..load.ctx ELSE {}
  <2>1. /\ alive \subseteq Contexts /\ Owner \notin Contexts /\ Runtime[1] = Owner /\ Engine[1] = Owner
        /\ unload = "unloaded" => made = {}
        /\ unload = "loading" => alive = {} /\ load.ctx \in Nat
    BY DEF LoadInv, LoadTypeOK, Loads, Contexts, Owner, Runtime, Engine
  <2>2. CASE unload # "loading"
    <3>1. \/ made \in {{}, {Runtime}} /\ alive = {}
          \/ made = {Runtime, Engine} \cup (alive \X (0..B))
      BY <2>2 DEF LoadInv, LoadTypeOK, Loads, MadeSoFar, Complete
    <3> HIDE DEF B
    <3>2. \A c \in alive : Of(c) = {c} \X (0..B)
      BY <2>1, <3>1 DEF Of
    <3>3. \A r \in made : r[1] \in {Owner} \cup alive
      BY <2>1, <3>1
    <3> QED BY <2>1, <2>2, <3>1, <3>2, <3>3 DEF NothingLeaked, B
  <2>3. CASE unload = "loading"
    <3>1. \/ made \in {{}, {Runtime}}
          \/ made = {Runtime, Engine} \cup ((1..(load.ctx - 1)) \X (0..B))
          \/ made = {Runtime, Engine} \cup ((1..(load.ctx - 1)) \X (0..B)) \cup ({load.ctx} \X (0..(load.next - 1)))
      BY <2>3 DEF LoadInv, LoadTypeOK, Loads, MadeSoFar, Complete
    <3> HIDE DEF B
    <3>2. \A r \in made : r[1] \in {Owner} \cup 1..load.ctx
      <4>1. 1..(load.ctx - 1) \subseteq 1..load.ctx /\ load.ctx \in 1..load.ctx
        BY <2>3 DEF LoadInv, LoadTypeOK, Loads
      <4> QED BY <2>1, <3>1, <4>1
    <3>3. made \notin {{}, {Runtime}} => Runtime \in made /\ Engine \in made
      BY <3>1
    <3> QED BY <2>1, <2>3, <3>2, <3>3 DEF NothingLeaked
  <2> QED BY <2>2, <2>3
<1> QED BY LoadInvariance, <1>1, PTL

\* What is proved of the pool alone holds of it in an engine that is loaded,
\* or whose load failed.
THEOREM PoolInEngine == LoadSpec => [](OneUser /\ NoneLost /\ CrashNeedsHolder /\ NoLostWakeup)
<1>1. LoadInv => OneUser /\ NoneLost /\ CrashNeedsHolder /\ NoLostWakeup
  <2>1. CASE LoadInv /\ load.pc = "loaded"
    BY <2>1 DEF LoadInv, IInv
  <2>2. CASE LoadInv /\ load.pc # "loaded"
    <3>1. Unseen /\ unload # "loaded"
      BY <2>2 DEF LoadInv, LoadTypeOK
    <3>2. Holding = {} /\ Held = {} /\ At("waiting") = {} /\ Pooled = {}
      BY <3>1 DEF Unseen, Holding, Held, At, Idle, Pooled
    <3> QED BY <3>1, <3>2 DEF Unseen, OneUser, NoneLost, CrashNeedsHolder, NoLostWakeup
  <2> QED BY <2>1, <2>2
<1> QED BY LoadInvariance, <1>1, PTL
=============================================================================
