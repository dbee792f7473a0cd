----------------------------- MODULE EngineLoad -----------------------------
(***************************************************************************)
(* TRTEngine::load, which fills the pool of ContextPool, and what load and *)
(* unload do with what they hold: a runtime, an engine, and for each       *)
(* context a TensorRT context, buffers and a stream.  Any step of load may *)
(* fail; the engine is then deleted by the caller, and ~TRTEngine unloads. *)
(***************************************************************************)
EXTENDS ContextPool

CONSTANT MaxOutputs    \* bound: output bindings of an engine

ASSUME EngineLoadAssumption == MaxOutputs \in Nat \ {0}

VARIABLES
  load,      \* load: where it is, the context it makes, what it has allocated
             \* for that, and the bindings of the engine
  made       \* what exists, each with its owner: a context or the TRTEngine

poolVars == vars
loadVars == <<vars, load, made>>

Owner   == 0                 \* the TRTEngine
Runtime == <<Owner, "runtime">>
Engine  == <<Owner, "engine">>

\* Of a context: the TensorRT context is number 0, then come the input's two
\* buffers, if there is an input, those of the outputs, and the stream.
Buffers == (IF load.input THEN 2 ELSE 0) + 2 * load.outputs + 1
Of(ctx) == {r \in made : r[1] = ctx}

LoadInit ==
  /\ free = <<>> /\ alive = {}
  /\ thread = [t \in Threads |-> Idle]
  /\ unload = "loading" /\ orphans = {} /\ crashed = FALSE
  /\ load = [pc |-> "runtime", ctx |-> 1, next |-> 0, input |-> FALSE, outputs |-> 0]
  /\ made = {}
-----------------------------------------------------------------------------
\* load returns false and its caller deletes the engine: unload clears a pool
\* that nobody has seen.
Fail ==
  /\ load' = [load EXCEPT !.pc = "failed"]
  /\ alive' = 1..(load.ctx - 1)
  /\ unload' = "cleared"
  /\ UNCHANGED <<free, thread, orphans, crashed>>

Goto(pc) ==
  /\ load' = [load EXCEPT !.pc = pc]
  /\ UNCHANGED poolVars

\* The file is read and the runtime created.
CreateRuntime ==
  /\ load.pc = "runtime"
  /\ \/ made' = made \cup {Runtime} /\ Goto("engine")
     \/ Fail /\ UNCHANGED made

\* The bindings are those of the engine.
Deserialize ==
  /\ load.pc = "engine"
  /\ \/ /\ made' = made \cup {Engine}
        /\ \E input \in BOOLEAN, outputs \in 1..MaxOutputs :
             load' = [load EXCEPT !.pc = "context", !.input = input, !.outputs = outputs]
        /\ UNCHANGED poolVars
     \/ Fail /\ UNCHANGED made

\* create_context_pool, one turn of its loop: the context, if there is one,
CreateContext ==
  /\ load.pc = "context" /\ load.ctx <= PoolSize
  /\ \/ /\ made' = made \cup {<<load.ctx, 0>>}
        /\ load' = [load EXCEPT !.pc = "allocate", !.next = 1]
        /\ UNCHANGED poolVars
     \/ Fail /\ UNCHANGED made

\* Mutant: the context whose buffers cannot all be had is dropped as it is.
AllocateFailsLeaks ==
  /\ load.pc = "allocate" /\ load.next <= Buffers
  /\ UNCHANGED made
  /\ Fail

\* and its buffers and stream, one after the other;
Allocate ==
  /\ load.pc = "allocate" /\ load.next <= Buffers
  /\ made' = made \cup {<<load.ctx, load.next>>}
  /\ load' = [load EXCEPT !.next = @ + 1]
  /\ UNCHANGED poolVars

\* when one cannot be had, what the context has is freed.
AllocateFails ==
  /\ load.pc = "allocate" /\ load.next <= Buffers
  /\ made' = made \ Of(load.ctx)
  /\ Fail

\* A complete context is kept.
KeepContext ==
  /\ load.pc = "allocate" /\ load.next > Buffers
  /\ load' = [load EXCEPT !.pc = "context", !.ctx = @ + 1]
  /\ UNCHANGED <<poolVars, made>>

\* load returns true; nobody could see the pool before.
Loaded ==
  /\ load.pc = "context" /\ load.ctx > PoolSize
  /\ load' = [load EXCEPT !.pc = "loaded"]
  /\ free' = [i \in 1..PoolSize |-> i] /\ alive' = Contexts
  /\ unload' = "loaded"
  /\ UNCHANGED <<thread, orphans, crashed, made>>

Load == \/ CreateRuntime \/ Deserialize \/ CreateContext \/ Allocate \/ AllocateFails
        \/ KeepContext \/ Loaded
-----------------------------------------------------------------------------
\* infer returns at once if the engine has no input.
CallInfer(t) == load.pc = "loaded" /\ load.input /\ Infer(t)

InCall(t) == Call(t) \/ DeadlinePasses(t) \/ Wake(t)

\* unload: a context is freed with all it has,
FreeContext == UnloadFree /\ made' = {r \in made : r[1] \notin alive \ alive'}

\* Mutant: the runtime is not destroyed.
DestroyEngineOnly == UnloadEnd /\ made' = made \ {Engine}

\* then the engine and the runtime, as far as there are any.
DestroyEngine == UnloadEnd /\ made' = made \ {Engine, Runtime}

LoadNext ==
  /\ ~crashed
  /\ \/ Load
     \/ /\ UNCHANGED load
        /\ \/ (\E t \in Threads : CallInfer(t) \/ InCall(t)) /\ UNCHANGED made
           \/ (UnloadClear \/ UnloadNotify) /\ UNCHANGED made
           \/ FreeContext \/ DestroyEngine

LoadSpec == LoadInit /\ [][LoadNext]_loadVars

\* As in ContextPool.
LoadFairSpec ==
  /\ LoadSpec
  /\ \A t \in Threads :
       /\ WF_loadVars(~crashed /\ Call(t) /\ UNCHANGED <<load, made>>)
       /\ WF_loadVars(~crashed /\ DeadlinePasses(t) /\ UNCHANGED <<load, made>>)
       /\ WF_loadVars(~crashed /\ thread[t].late /\ Wake(t) /\ UNCHANGED <<load, made>>)
-----------------------------------------------------------------------------
\* Wherever load fails and whenever unload comes: what exists can be reached
\* by what will free it, nothing exists after unload, the contexts in the pool
\* are complete, and none outlives its engine, nor that its runtime.
NothingLeaked ==
  /\ \A r \in made : r[1] \in {Owner} \cup alive \cup (IF unload = "loading" THEN 1..load.ctx ELSE {})
  /\ unload = "unloaded" => made = {}
  /\ \A c \in alive : Of(c) = {c} \X (0..Buffers)
  /\ (\E r \in made : r[1] # Owner) => Engine \in made
  /\ Engine \in made => Runtime \in made
=============================================================================
