----------------------------- MODULE ContextPool -----------------------------
(***************************************************************************)
(* The pool of execution contexts of a TRTEngine (cpp/src/trt_engine.cpp): *)
(* threads that call infer take a context out of free_contexts_, wait for  *)
(* one on the condition variable with a deadline, and give it back; unload *)
(* empties the pool and frees the contexts, whoever may hold them.         *)
(*                                                                         *)
(* What is done under pool_mutex_ is one step.  wait_until with its        *)
(* predicate is the loop it is defined as: a thread that waits is woken by *)
(* a notification, by nothing at all, or by its deadline, and then looks   *)
(* at the pool with the mutex held.                                        *)
(***************************************************************************)
EXTENDS Integers, Sequences, FiniteSets

CONSTANTS
  Threads,    \* threads that call infer
  PoolSize    \* context_pool_size

ASSUME ContextPoolAssumption == PoolSize \in Nat \ {0} /\ IsFiniteSet(Threads)

VARIABLES
  free,       \* free_contexts_
  thread,     \* the call of infer of each thread: pc, its context, whether
              \* its deadline has passed
  alive,      \* contexts_: the contexts not freed yet
  unload,     \* where unload is
  orphans,    \* history: the contexts threads held when unload began
  crashed     \* a thread used a context that was freed, and the process ended

vars == <<free, thread, alive, unload, orphans, crashed>>

Contexts == 1..PoolSize
None     == 0
Idle     == [pc |-> "idle", ctx |-> None, late |-> FALSE]

\* create_context_pool
Init ==
  /\ free = [i \in 1..PoolSize |-> i]
  /\ thread = [t \in Threads |-> Idle]
  /\ alive = Contexts
  /\ unload = "loaded"
  /\ orphans = {}
  /\ crashed = FALSE

At(pc)   == {t \in Threads : thread[t].pc = pc}
Holding  == At("using") \cup At("release")
Held     == {thread[t].ctx : t \in Holding}
-----------------------------------------------------------------------------
\* infer: is_loaded is asked before, and without, the mutex.
Infer(t) ==
  /\ thread[t].pc = "idle"
  /\ unload # "unloaded"
  /\ thread' = [thread EXCEPT ![t].pc = "acquire"]
  /\ UNCHANGED <<free, alive, unload, orphans, crashed>>

\* Mutant: the context stays in the pool.
TakeShared(t) ==
  /\ thread' = [thread EXCEPT ![t] = [pc |-> "using", ctx |-> Head(free), late |-> FALSE]]
  /\ UNCHANGED free

\* The front of the pool goes to t.
Take(t) ==
  /\ thread' = [thread EXCEPT ![t] = [pc |-> "using", ctx |-> Head(free), late |-> FALSE]]
  /\ free' = Tail(free)

\* acquire_context: a free context, or the first wait.
Acquire(t) ==
  /\ thread[t].pc = "acquire"
  /\ \/ free # <<>> /\ Take(t)
     \/ /\ free = <<>>
        /\ thread' = [thread EXCEPT ![t].pc = "waiting"]
        /\ UNCHANGED free
  /\ UNCHANGED <<alive, unload, orphans, crashed>>

DeadlinePasses(t) ==
  /\ thread[t].pc \in {"waiting", "woken"}
  /\ ~thread[t].late
  /\ thread' = [thread EXCEPT ![t].late = TRUE]
  /\ UNCHANGED <<free, alive, unload, orphans, crashed>>

\* A wait ends without a notification: by the deadline, or spuriously.
Wake(t) ==
  /\ thread[t].pc = "waiting"
  /\ thread' = [thread EXCEPT ![t].pc = "woken"]
  /\ UNCHANGED <<free, alive, unload, orphans, crashed>>

\* Mutant: nobody looks again once the deadline has passed.
RecheckForever(t) ==
  /\ thread[t].pc = "woken"
  /\ \/ free # <<>> /\ Take(t)
     \/ /\ free = <<>>
        /\ thread' = [thread EXCEPT ![t].pc = "waiting"]
        /\ UNCHANGED free
  /\ UNCHANGED <<alive, unload, orphans, crashed>>

\* Mutant: a context taken after the deadline is not handed on.
RecheckLoses(t) ==
  /\ thread[t].pc = "woken"
  /\ \/ free # <<>> /\ ~thread[t].late /\ Take(t)
     \/ /\ free = <<>> \/ thread[t].late
        /\ thread' = [thread EXCEPT ![t] =
                        IF @.late THEN Idle ELSE [@ EXCEPT !.pc = "waiting"]]
        /\ free' = IF free = <<>> THEN <<>> ELSE Tail(free)
  /\ UNCHANGED <<alive, unload, orphans, crashed>>

\* The predicate, with the mutex: a context that is there is taken even after
\* the deadline; nullptr if there is none then; otherwise another wait.
Recheck(t) ==
  /\ thread[t].pc = "woken"
  /\ \/ free # <<>> /\ Take(t)
     \/ /\ free = <<>>
        /\ thread' = [thread EXCEPT ![t] =
                        IF @.late THEN Idle ELSE [@ EXCEPT !.pc = "waiting"]]
        /\ UNCHANGED free
  /\ UNCHANGED <<alive, unload, orphans, crashed>>

\* infer_with_context.  To use a context that was freed is undefined: the
\* process may end, or the call may come back.
Use(t) ==
  /\ thread[t].pc = "using"
  /\ \/ /\ thread' = [thread EXCEPT ![t].pc = "release"]
        /\ UNCHANGED crashed
     \/ /\ thread[t].ctx \notin alive
        /\ crashed' = TRUE
        /\ UNCHANGED thread
  /\ UNCHANGED <<free, alive, unload, orphans>>

\* Mutant: notify_one is forgotten.
ReleaseSilently(t) ==
  /\ thread[t].pc = "release"
  /\ free' = Append(free, thread[t].ctx)
  /\ thread' = [thread EXCEPT ![t] = Idle]
  /\ UNCHANGED <<alive, unload, orphans, crashed>>

\* release_context, under the mutex.
Release(t) ==
  /\ thread[t].pc = "release"
  /\ free' = Append(free, thread[t].ctx)
  /\ thread' = [thread EXCEPT ![t] = [pc |-> "notify", ctx |-> None, late |-> FALSE]]
  /\ UNCHANGED <<alive, unload, orphans, crashed>>

\* notify_one, after it: one of the threads that wait, if any does.
Notify(t) ==
  /\ thread[t].pc = "notify"
  /\ \/ \E w \in At("waiting") :
          thread' = [thread EXCEPT ![t] = Idle, ![w].pc = "woken"]
     \/ /\ At("waiting") = {}
        /\ thread' = [thread EXCEPT ![t] = Idle]
  /\ UNCHANGED <<free, alive, unload, orphans, crashed>>
-----------------------------------------------------------------------------
\* Mutant: the pool is not emptied.
UnloadKeepsPool ==
  /\ unload = "loaded"
  /\ unload' = "cleared"
  /\ orphans' = Held
  /\ UNCHANGED <<free, thread, alive, crashed>>

\* unload: the pool is emptied under the mutex, ...
UnloadClear ==
  /\ unload = "loaded"
  /\ unload' = "cleared"
  /\ free' = <<>>
  /\ orphans' = Held
  /\ UNCHANGED <<thread, alive, crashed>>

\* ... everyone who waits is woken, ...
UnloadNotify ==
  /\ unload = "cleared"
  /\ unload' = "notified"
  /\ thread' = [t \in Threads |-> IF t \in At("waiting")
                                  THEN [thread[t] EXCEPT !.pc = "woken"] ELSE thread[t]]
  /\ UNCHANGED <<free, alive, orphans, crashed>>

\* ... the contexts are freed one after the other, held or not, ...
UnloadFree ==
  /\ unload = "notified"
  /\ \E c \in alive : /\ \A d \in alive : c <= d
                      /\ alive' = alive \ {c}
  /\ UNCHANGED <<free, thread, unload, orphans, crashed>>

\* ... and the engine is gone.
UnloadEnd ==
  /\ unload = "notified"
  /\ alive = {}
  /\ unload' = "unloaded"
  /\ UNCHANGED <<free, thread, alive, orphans, crashed>>

Unload == UnloadClear \/ UnloadNotify \/ UnloadFree \/ UnloadEnd

\* The steps of a call that came as far as the pool.
Call(t) == Acquire(t) \/ Recheck(t) \/ Use(t) \/ Release(t) \/ Notify(t)

Next ==
  /\ ~crashed
  /\ \/ \E t \in Threads : Infer(t) \/ Call(t) \/ DeadlinePasses(t) \/ Wake(t)
     \/ Unload

Spec == Init /\ [][Next]_vars

\* Threads are scheduled, inference comes to an end, deadlines pass; nobody
\* need call infer or unload.
FairSpec ==
  /\ Spec
  /\ \A t \in Threads : /\ WF_vars(~crashed /\ Call(t))
                        /\ WF_vars(~crashed /\ DeadlinePasses(t))
                        /\ WF_vars(~crashed /\ thread[t].late /\ Wake(t))
-----------------------------------------------------------------------------
\* The types of the pool and of the calls in progress.
TypeOK ==
  /\ free \in Seq(Contexts)
  /\ thread \in [Threads -> [pc : {"idle", "acquire", "waiting", "woken", "using",
                                   "release", "notify"},
                             ctx : Contexts \cup {None}, late : BOOLEAN]]
  /\ alive \subseteq Contexts
  /\ unload \in {"loaded", "cleared", "notified", "unloaded"}
  /\ orphans \subseteq Contexts
  /\ crashed \in BOOLEAN

\* No two threads have the same context at the same time, unloaded or not.
OneUser ==
  \A t, u \in Holding : t # u => thread[t].ctx # thread[u].ctx

Pooled == {free[i] : i \in 1..Len(free)}

\* Until unload no context is lost: whatever threads time out, are woken for
\* nothing or find their context taken by another, each context is in the
\* pool, once, or with a thread.
NoneLost ==
  /\ \A i, j \in 1..Len(free) : i # j => free[i] # free[j]
  /\ Pooled \cap Held = {}
  /\ unload = "loaded" => Pooled \cup Held = Contexts

\* No wake-up is lost between release_context's unlock and its notify_one, or
\* to a thread whose context is taken by one that never waited: while any
\* thread waits, there is someone on the way to every free context.
NoLostWakeup ==
  At("waiting") # {} => Len(free) <= Cardinality(At("woken")) + Cardinality(At("notify"))

\* What is freed under unload is never used unless a thread held a context
\* when unload began: what lay in the pool is not handed out again.
CrashNeedsHolder ==
  /\ crashed => orphans # {}
  /\ unload # "loaded" => Pooled \cup Held \subseteq orphans

\* The inductive strengthening of OneUser, NoneLost and CrashNeedsHolder: who
\* holds something holds a context, and none is freed before unload woke
\* everyone.
IInv ==
  /\ TypeOK
  /\ OneUser
  /\ NoneLost
  /\ CrashNeedsHolder
  /\ \A t \in Threads : t \in Holding <=> thread[t].ctx # None
  /\ unload \in {"loaded", "cleared"} => alive = Contexts

\* Every call of infer comes back, with or without a context, also when the
\* engine is unloaded under it, or the process is gone.
InferReturns ==
  \A t \in Threads : thread[t].pc # "idle" ~> thread[t].pc = "idle" \/ crashed
==============================================================================
