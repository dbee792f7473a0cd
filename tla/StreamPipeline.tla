--------------------------- MODULE StreamPipeline ---------------------------
(***************************************************************************)
(* One stream's path from a synchronised pair of frames to the detector:   *)
(* the synchroniser's callback (cmd/arcvision/main.go), which pushes the   *)
(* visible frame to one shared-memory queue and the ultraviolet frame to   *)
(* another, and the detection thread (cpp/src/engine_main.cpp), which pops *)
(* one frame of each and analyses them together.                           *)
(*                                                                         *)
(* The callback creates the ultraviolet queue anew for every pair, in the  *)
(* memory the detection thread pops from.  That queue is therefore the     *)
(* detailed ShmFrameQueue, with its Create steps; the visible queue is     *)
(* used as a queue should be and is the BoundedFifo that ShmFrameQueue     *)
(* implements.                                                             *)
(*                                                                         *)
(* Pairs are numbered in the order of the callbacks and stand for both of  *)
(* their frames.                                                           *)
(***************************************************************************)
EXTENDS Integers, Sequences, SequencesExt

CONSTANTS
  VisCapacity,  \* SHM_QUEUE_CAPACITY, of the visible queue
  UvCapacity,   \* SHM_QUEUE_CAPACITY, of the ultraviolet queue
  MaxPairs,     \* bound: synchronised pairs in a behaviour
  Slack         \* frames of pairs at most this far apart are within sync_tolerance_ns

ASSUME PipelineAssumption ==
  /\ VisCapacity \in Nat \ {0}
  /\ UvCapacity \in Nat \ {0}
  /\ MaxPairs \in Nat \ {0}
  /\ Slack \in Nat

VARIABLES
  callback,     \* where the callback is: pc, and the number of the pair
  visIn, visOut,\* history of the visible queue
  \* the ultraviolet queue in shared memory, and the calls on it in progress
  write_seq, read_seq, slot_state, slot_header, slot_data,
  prod, cons, pushed, popped,
  detect,       \* where the detection thread is: pc, the visible frame it
                \* holds, and whether a Create ran during its ultraviolet pop
  analysed      \* history: what process_frame was called with

uvVars == <<write_seq, read_seq, slot_state, slot_header, slot_data,
            prod, cons, pushed, popped>>
vars   == <<callback, visIn, visOut, uvVars, detect, analysed>>

Pairs  == 1..MaxPairs
NoPair == 0

Uv == INSTANCE ShmFrameQueue WITH
        Capacity <- UvCapacity, Frames <- Pairs, NoFrame <- NoPair,
        MaxBatch <- 1, MaxWrites <- MaxPairs

Vis == INSTANCE BoundedFifo WITH
         Items <- Pairs, Capacity <- VisCapacity,
         accepted <- visIn, delivered <- visOut

Init ==
  /\ callback = [pc |-> "idle", pair |-> 0]
  /\ Vis!Init
  /\ Uv!Init
  /\ detect = [pc |-> "pop_vis", vis |-> NoPair, reset |-> FALSE]
  /\ analysed = <<>>
-----------------------------------------------------------------------------
(***************************************************************************)
(* The callback.  It runs under the synchroniser's lock, so one at a time. *)
(***************************************************************************)

\* Mutant: the queue created at startup is used for every pair.
CallbackKeepsQueue ==
  /\ callback.pc = "idle"
  /\ callback.pair < MaxPairs
  /\ prod.pc = "idle"
  /\ callback' = [pc |-> "create", pair |-> callback.pair + 1]
  /\ UNCHANGED <<visIn, visOut, uvVars, detect, analysed>>

\* CreateFrameQueue of the ultraviolet key: the first store of its reset.
CallbackCreate ==
  /\ callback.pc = "idle"
  /\ callback.pair < MaxPairs
  /\ Uv!Create
  /\ callback' = [pc |-> "create", pair |-> callback.pair + 1]
  /\ detect' = [detect EXCEPT !.reset = TRUE]
  /\ UNCHANGED <<visIn, visOut, analysed>>

\* Every callback leaves one more mapping of the segment behind; when the
\* process may have no more, CreateFrameQueue returns nil and the pair is lost.
CallbackNoQueue ==
  /\ callback.pc = "idle"
  /\ callback.pair < MaxPairs
  /\ callback' = [callback EXCEPT !.pair = @ + 1]
  /\ UNCHANGED <<visIn, visOut, uvVars, detect, analysed>>

CallbackReset ==
  /\ callback.pc = "create"
  /\ Uv!CreateSteps
  /\ detect' = [detect EXCEPT !.reset = TRUE]
  /\ UNCHANGED <<callback, visIn, visOut, analysed>>

\* The visible frame is queued, or refused (queue full, frame without data);
\* the callback ignores which.
CallbackPushVis ==
  /\ callback.pc = "create"
  /\ prod.pc = "idle"
  /\ \/ Vis!Put(callback.pair)
     \/ UNCHANGED <<visIn, visOut>>
  /\ callback' = [callback EXCEPT !.pc = "push_uv"]
  /\ UNCHANGED <<uvVars, detect, analysed>>

CallbackPushUv ==
  /\ callback.pc = "push_uv"
  /\ \/ Uv!Push(callback.pair)
     \/ UNCHANGED uvVars     \* a frame without data is refused
  /\ callback' = [callback EXCEPT !.pc = "pushing"]
  /\ UNCHANGED <<visIn, visOut, detect, analysed>>

CallbackPushing ==
  /\ callback.pc = "pushing"
  /\ Uv!PushSteps
  /\ UNCHANGED <<callback, visIn, visOut, detect, analysed>>

CallbackReturn ==
  /\ callback.pc = "pushing"
  /\ prod.pc = "idle"
  /\ callback' = [callback EXCEPT !.pc = "idle"]
  /\ UNCHANGED <<visIn, visOut, uvVars, detect, analysed>>

Callback == \/ CallbackReset \/ CallbackPushVis
            \/ CallbackPushUv \/ CallbackPushing \/ CallbackReturn
-----------------------------------------------------------------------------
(***************************************************************************)
(* stream_detect_loop.                                                     *)
(***************************************************************************)
DetectPopVis ==
  /\ detect.pc = "pop_vis"
  /\ Vis!Get(1)
  /\ detect' = [pc |-> "pop_uv", vis |-> Last(visOut'), reset |-> FALSE]
  /\ UNCHANGED <<callback, uvVars, analysed>>

\* Nothing queued: sleep and poll again.
DetectSleep ==
  /\ detect.pc = "pop_vis"
  /\ Vis!Waiting = 0
  /\ UNCHANGED vars

DetectPopUv ==
  /\ detect.pc = "pop_uv"
  /\ Uv!Pop("pop", 1)
  /\ detect' = [detect EXCEPT !.pc = "popping", !.reset = FALSE]
  /\ UNCHANGED <<callback, visIn, visOut, analysed>>

DetectPopping ==
  /\ detect.pc = "popping"
  /\ Uv!PopSteps
  /\ UNCHANGED <<callback, visIn, visOut, detect, analysed>>

\* The presentation times that the tolerance check compares are the headers'.
Close(a, b) == a - b <= Slack /\ b - a <= Slack

\* Mutant: after an ultraviolet pop that failed, the last frame is used again.
DetectCheckReuses ==
  /\ detect.pc = "popping"
  /\ cons.pc = "idle"
  /\ analysed' = IF cons.rc = 0
                 THEN Append(analysed,
                        [vis |-> detect.vis, header |-> cons.taken[1].header,
                         data |-> cons.taken[1].data, reset |-> detect.reset])
                 ELSE IF analysed = <<>> THEN <<>>
                 ELSE Append(analysed, [Last(analysed) EXCEPT !.vis = detect.vis])
  /\ detect' = [pc |-> "pop_vis", vis |-> NoPair, reset |-> FALSE]
  /\ UNCHANGED <<callback, visIn, visOut, uvVars>>

\* The visible frame is dropped with no retry when the ultraviolet pop failed
\* or the two headers are too far apart.
DetectCheck ==
  /\ detect.pc = "popping"
  /\ cons.pc = "idle"
  /\ \/ /\ cons.rc = 0
        /\ Close(detect.vis, cons.taken[1].header)
        /\ analysed' = Append(analysed,
                         [vis |-> detect.vis, header |-> cons.taken[1].header,
                          data |-> cons.taken[1].data, reset |-> detect.reset])
     \/ /\ cons.rc = 0 => ~Close(detect.vis, cons.taken[1].header)
        /\ UNCHANGED analysed
  /\ detect' = [pc |-> "pop_vis", vis |-> NoPair, reset |-> FALSE]
  /\ UNCHANGED <<callback, visIn, visOut, uvVars>>

Detect == DetectPopVis \/ DetectPopUv \/ DetectPopping \/ DetectCheck

Next == CallbackCreate \/ CallbackNoQueue \/ Callback \/ Detect \/ DetectSleep

Spec == Init /\ [][Next]_vars

\* The detection thread polls for ever and a callback that began runs on; a
\* camera need not send another frame.
FairSpec == Spec /\ WF_vars(Detect) /\ WF_vars(Callback)
-----------------------------------------------------------------------------
\* The ultraviolet queue never holds more than one frame: created anew for
\* every pair, it is a single slot that a new pair overwrites.
UvHoldsOne ==
  /\ write_seq <= 1
  /\ \A i \in 1..(UvCapacity - 1) : slot_state[i] = "FREE"

\* The types of both threads' state, and what the ultraviolet queue can hold.
TypeOK ==
  /\ UvHoldsOne
  /\ callback \in [pc : {"idle", "create", "push_uv", "pushing"}, pair : 0..MaxPairs]
  /\ visIn \in Seq(Pairs) /\ visOut \in Seq(Pairs)
  /\ Uv!TypeOK
  /\ detect \in [pc : {"pop_vis", "pop_uv", "popping"}, vis : 0..MaxPairs,
                 reset : BOOLEAN]
  /\ analysed \in Seq([vis : Pairs, header : Uv!Memory, data : Uv!Memory,
                       reset : BOOLEAN])

\* A visible frame is never analysed with an ultraviolet frame, or with the
\* pixels of one, of an earlier pair: the callback resets the ultraviolet
\* queue before it queues the visible frame, so whatever the detection thread
\* finds after it popped the visible frame is of that pair or later.
UvNeverStale ==
  \A i \in 1..Len(analysed) :
    analysed[i].vis <= analysed[i].header /\ analysed[i].vis <= analysed[i].data

\* No frame is analysed twice and none out of order, in spite of the resets
\* that move the ultraviolet queue's counters back while it is popped.
AnalysedOnce ==
  \A i \in 2..Len(analysed) :
    /\ analysed[i - 1].vis < analysed[i].vis
    /\ analysed[i - 1].header < analysed[i].header
    /\ analysed[i - 1].data < analysed[i].data

\* Pixels are analysed under the header of another frame only if the callback
\* reset the queue while the detection thread was popping.
TornOnlyByReset ==
  \A i \in 1..Len(analysed) :
    analysed[i].header # analysed[i].data => analysed[i].reset

\* A pair that lies complete in both queues when the detection thread comes
\* to it is analysed, unless the next callback starts first.
PairReady(k) ==
  /\ callback = [pc |-> "idle", pair |-> k]
  /\ detect.pc = "pop_vis"
  /\ Vis!Waiting = 1 /\ Last(visIn) = k
  /\ read_seq = 0 /\ write_seq = 1
  /\ slot_state[0] = "READY"

QuietPairAnalysed ==
  \A k \in Pairs :
    PairReady(k) ~>
      \/ callback # [pc |-> "idle", pair |-> k]
      \/ \E i \in 1..Len(analysed) :
           /\ analysed[i].vis = k
           /\ analysed[i].header = k
           /\ analysed[i].data = k
==============================================================================
