----------------------- MODULE StreamPipeline_proofs -----------------------
(***************************************************************************)
(* Machine-checked proofs about the path from a synchronised pair to the   *)
(* detector, for every capacity of the two queues, every tolerance and     *)
(* every number of pairs.                                                  *)
(***************************************************************************)
EXTENDS StreamPipeline, TLAPS

\* The two sides of a call on the ultraviolet queue.
Pushing == prod.pc \in {"cas", "header", "data", "ready", "publish"}
Reading == cons.pc \in {"cas", "header", "data", "free"}

\* The newest pair whose frame may be in the ultraviolet queue's memory.
Newest == IF callback.pc \in {"create", "push_uv"} THEN callback.pair - 1 ELSE callback.pair

\* Where the callback is, the producer's side of the ultraviolet queue is too:
\* between the reset for a pair and the publication of its frame the queue is
\* empty, and every call uses the first slot.
Stages ==
  /\ callback.pc # "idle" => callback.pair \in Pairs
  /\ callback.pc \in {"idle", "push_uv"} => prod.pc = "idle"
  /\ callback.pc = "create" => prod.pc \in {"idle", "create_read", "create_slot"}
  /\ callback.pc = "pushing" => prod.pc = "idle" \/ Pushing
  /\ callback.pc \in {"create", "push_uv"} \/ Pushing => write_seq = 0
  /\ Pushing => prod.w = 0 /\ prod.frame = callback.pair
  /\ prod.pc = "create_read" => prod.w = 0
  /\ prod.pc = "create_slot" => prod.w \in Uv!Slots
  /\ prod.pc \in {"data", "ready", "publish"} => slot_header[0] = prod.frame
  /\ prod.pc \in {"ready", "publish"} => slot_data[0] = prod.frame

\* Visible frames are queued and taken in the order of their pairs, and a
\* published ultraviolet frame is whole and of the last of them or later.
VisibleOrder ==
  /\ Len(visOut) <= Len(visIn)
  /\ \A i \in 1..Len(visOut) : visOut[i] = visIn[i]
  /\ \A i, j \in 1..Len(visIn) : i < j => visIn[i] < visIn[j]
  /\ \A i \in 1..Len(visIn) :
       /\ visIn[i] <= callback.pair
       /\ callback.pc = "create" => visIn[i] < callback.pair
       /\ write_seq = 1 => visIn[i] <= slot_header[0]
  /\ write_seq = 1 => slot_header[0] = slot_data[0]

\* What was analysed was taken from the visible queue before what the
\* detection thread holds now.
VisibleTaken ==
  /\ detect.pc # "pop_vis" => visOut # <<>> /\ detect.vis = visOut[Len(visOut)]
  /\ \A i \in 1..Len(analysed) : \E j \in 1..Len(visOut) :
       /\ visOut[j] = analysed[i].vis
       /\ detect.pc # "pop_vis" => j < Len(visOut)

\* A copy of the slot's header, or of its pixels, that is newer than all those
\* analysed before and not older than the visible frame in hand.
NewHeader(h) == detect.vis <= h /\ h <= Newest /\ \A i \in 1..Len(analysed) : analysed[i].header < h
NewData(d)   == detect.vis <= d /\ d <= Newest /\ \A i \in 1..Len(analysed) : analysed[i].data < d

\* Where the consumer's side of the ultraviolet queue is, and that a call
\* which found a frame copies one that was not analysed yet.
Popping ==
  /\ cons.op = "pop" /\ read_seq <= 1
  /\ detect.pc # "popping" => cons.pc = "idle"
  /\ cons.pc # "idle" => cons.rc = 0 /\ cons.max = 1
  /\ cons.pc = "load" => cons.taken = <<>> /\ read_seq <= cons.r /\ cons.r <= 1
  /\ Reading => /\ cons.taken = <<>> /\ cons.count = 1 /\ cons.r = 0 /\ read_seq = 0
                /\ NewHeader(slot_header[0]) /\ NewData(slot_data[0])
  /\ cons.pc \in {"data", "free"} => NewHeader(cons.header)
  /\ cons.pc = "free" => NewData(cons.data)
  /\ cons.pc = "publish" => cons.r = 0
  /\ cons.pc = "publish" \/ (detect.pc = "popping" /\ cons.pc = "idle" /\ cons.rc = 0) =>
       /\ Len(cons.taken) = 1
       /\ NewHeader(cons.taken[1].header) /\ NewData(cons.taken[1].data)

\* Nothing in the memory or in a copy of it is newer than the newest pair.
Bounded ==
  /\ slot_header[0] <= Newest /\ slot_data[0] <= Newest
  /\ \A i \in 1..Len(analysed) : analysed[i].header <= Newest /\ analysed[i].data <= Newest
  /\ Len(cons.taken) <= 1
  /\ \A i \in 1..Len(cons.taken) : cons.taken[i].header <= Newest /\ cons.taken[i].data <= Newest

\* Neither the header nor the pixels were taken before.
Untaken(h, d) ==
  /\ \A i \in 1..Len(analysed) : analysed[i].header < h /\ analysed[i].data < d
  /\ cons.pc = "idle" => \A i \in 1..Len(cons.taken) : cons.taken[i].header < h /\ cons.taken[i].data < d

\* As long as the consumer's counter says that the first slot was not read,
\* what it holds, or will hold when the producer is done, was not taken.
Unread ==
  /\ read_seq = 0 /\ Pushing => Untaken(prod.frame, prod.frame)
  /\ read_seq = 0 /\ write_seq = 1 => Untaken(slot_header[0], slot_data[0])

\* A pop that no reset interrupts finds the same whole frame from its load on.
Undisturbed ==
  detect.pc = "popping" /\ ~detect.reset =>
    /\ Reading \/ cons.pc = "publish" => write_seq = 1
    /\ cons.pc \in {"data", "free"} => cons.header = slot_header[0]
    /\ cons.pc = "free" => cons.data = slot_data[0]
    /\ cons.pc = "publish" \/ (cons.pc = "idle" /\ cons.rc = 0) =>
         cons.taken[1].header = cons.taken[1].data

\* The inductive invariant.
IInv == /\ TypeOK /\ Stages /\ VisibleOrder /\ VisibleTaken /\ Popping /\ Bounded
        /\ Unread /\ Undisturbed /\ UvNeverStale /\ AnalysedOnce /\ TornOnlyByReset
-----------------------------------------------------------------------------
\* The first slot is the one every sequence number 0 uses.
LEMMA FirstSlot == 0 \in Uv!Slots /\ Uv!Idx(0) = 0
  BY PipelineAssumption DEF Uv!Slots, Uv!Idx

\* The parts of the state that only the callback and only the detection
\* thread change.
LEMMA Histories ==
  ASSUME IInv, UNCHANGED analysed
  PROVE  UvNeverStale' /\ AnalysedOnce' /\ TornOnlyByReset'
  BY DEF IInv, UvNeverStale, AnalysedOnce, TornOnlyByReset

\* The types that the proofs compare by.
Numbers ==
  /\ callback.pair \in 0..MaxPairs /\ detect.vis \in Nat
  /\ Len(visIn) \in Nat /\ Len(visOut) \in Nat /\ Len(analysed) \in Nat
  /\ \A i \in 1..Len(visIn) : visIn[i] \in Nat
  /\ \A i \in 1..Len(visOut) : visOut[i] \in Nat
  /\ \A i \in 1..Len(analysed) :
       analysed[i].vis \in Nat /\ analysed[i].header \in Nat /\ analysed[i].data \in Nat
  /\ slot_header[0] \in Nat /\ slot_data[0] \in Nat /\ prod.frame \in Nat
  /\ cons.header \in Nat /\ cons.data \in Nat /\ Len(cons.taken) \in Nat
  /\ \A i \in 1..Len(cons.taken) : cons.taken[i].header \in Nat /\ cons.taken[i].data \in Nat

LEMMA Elements ==
  ASSUME NEW S, NEW s \in Seq(S)
  PROVE  Len(s) \in Nat /\ \A i \in 1..Len(s) : s[i] \in S
  OBVIOUS

LEMMA Typed == ASSUME TypeOK PROVE Numbers
  <1>. Uv!Memory \subseteq Nat /\ Pairs \subseteq Nat /\ MaxPairs \in Nat
    BY PipelineAssumption DEF Uv!Memory, Pairs, NoPair
  <1>1. callback.pair \in 0..MaxPairs /\ detect.vis \in Nat
    BY DEF TypeOK
  <1>2. visIn \in Seq(Pairs) /\ visOut \in Seq(Pairs)
    BY DEF TypeOK
  <1>3. Len(visIn) \in Nat /\ Len(visOut) \in Nat
    BY <1>2
  <1>4. \A i \in 1..Len(visIn) : visIn[i] \in Pairs
    BY <1>2, Elements
  <1>5. \A i \in 1..Len(visOut) : visOut[i] \in Pairs
    BY <1>2, Elements
  <1>6. /\ Len(analysed) \in Nat
        /\ \A i \in 1..Len(analysed) :
             analysed[i] \in [vis : Pairs, header : Uv!Memory, data : Uv!Memory, reset : BOOLEAN]
    BY Elements DEF TypeOK
  <1>7. \A i \in 1..Len(analysed) :
           analysed[i].vis \in Nat /\ analysed[i].header \in Nat /\ analysed[i].data \in Nat
    BY <1>6
  <1>8. slot_header[0] \in Nat /\ slot_data[0] \in Nat
    BY FirstSlot DEF TypeOK, Uv!TypeOK
  <1>9. prod.frame \in Nat /\ cons.header \in Nat /\ cons.data \in Nat
    BY DEF TypeOK, Uv!TypeOK, Uv!ProdRecord, Uv!ConsRecord
  <1>10. /\ Len(cons.taken) \in Nat
         /\ \A i \in 1..Len(cons.taken) : cons.taken[i] \in Uv!Copies
    <2>. cons.taken \in Seq(Uv!Copies)
      BY DEF TypeOK, Uv!TypeOK, Uv!ConsRecord
    <2>. QED
      OBVIOUS
  <1>11. \A i \in 1..Len(cons.taken) : cons.taken[i].header \in Nat /\ cons.taken[i].data \in Nat
    BY <1>10 DEF Uv!Copies
  <1>. QED
    BY <1>1, <1>3, <1>4, <1>5, <1>6, <1>7, <1>8, <1>9, <1>10, <1>11 DEF Numbers

\* The first step of a reset empties the queue.
LEMMA CreateStep == ASSUME IInv, CallbackCreate PROVE IInv'
  <1>. /\ callback \in [pc : {"idle", "create", "push_uv", "pushing"}, pair : 0..MaxPairs]
       /\ prod \in Uv!ProdRecord
    BY DEF IInv, TypeOK, Uv!TypeOK
  <1>. MaxPairs \in Nat \ {0} /\ Numbers
    BY PipelineAssumption, Typed DEF IInv
  <1>1. /\ callback.pc = "idle" /\ callback.pair < MaxPairs /\ prod.pc = "idle"
        /\ write_seq' = 0
        /\ prod' = [pc |-> "create_read", w |-> 0, frame |-> NoPair, rc |-> 0]
        /\ callback' = [pc |-> "create", pair |-> callback.pair + 1]
        /\ detect' = [detect EXCEPT !.reset = TRUE]
        /\ UNCHANGED <<visIn, visOut, analysed, read_seq, slot_state, slot_header, slot_data,
                       cons, pushed, popped>>
    BY DEF CallbackCreate, Uv!Create, Uv!ProdIdle
  <1>2. TypeOK'
    <2>1. Uv!TypeOK'
      BY <1>1 DEF IInv, TypeOK, Uv!TypeOK, Uv!ProdRecord, Uv!Memory, NoPair
    <2>2. UvHoldsOne'
      BY <1>1 DEF IInv, TypeOK, UvHoldsOne
    <2>3. callback' \in [pc : {"idle", "create", "push_uv", "pushing"}, pair : 0..MaxPairs]
      BY <1>1
    <2>4. detect' \in [pc : {"pop_vis", "pop_uv", "popping"}, vis : 0..MaxPairs, reset : BOOLEAN]
      BY <1>1 DEF IInv, TypeOK
    <2>. QED
      BY <1>1, <2>1, <2>2, <2>3, <2>4 DEF IInv, TypeOK
  <1>3. Stages'
    BY <1>1 DEF IInv, Stages, Pushing, Pairs
  <1>4. VisibleOrder' /\ VisibleTaken'
    <2>1. VisibleOrder'
      BY <1>1 DEF IInv, Numbers, VisibleOrder
    <2>2. VisibleTaken'
      BY <1>1 DEF IInv, TypeOK, VisibleTaken
    <2>. QED
      BY <2>1, <2>2
  <1>5. Newest' = Newest /\ Reading' = Reading /\ ~Pushing'
    BY <1>1 DEF Newest, Reading, Pushing
  <1>6. Popping' /\ Bounded'
    BY <1>1, <1>5 DEF IInv, TypeOK, Popping, Bounded, NewHeader, NewData
  <1>7. Unread' /\ Undisturbed'
    BY <1>1, <1>5 DEF IInv, TypeOK, Unread, Undisturbed
  <1>. QED
    BY <1>1, <1>2, <1>3, <1>4, <1>6, <1>7, Histories DEF IInv
\* While no frame is published or queued, the callback's moves keep the rest.
LEMMA NoQueueStep == ASSUME IInv, CallbackNoQueue PROVE IInv'
  <1>. /\ callback \in [pc : {"idle", "create", "push_uv", "pushing"}, pair : 0..MaxPairs]
       /\ MaxPairs \in Nat \ {0} /\ Numbers
    BY PipelineAssumption, Typed DEF IInv, TypeOK
  <1>1. /\ callback.pc = "idle" /\ callback.pair < MaxPairs
        /\ callback' = [pc |-> "idle", pair |-> callback.pair + 1]
        /\ UNCHANGED <<visIn, visOut, uvVars, detect, analysed>>
    BY DEF CallbackNoQueue
  <1>2. TypeOK' /\ Stages'
    BY <1>1 DEF IInv, TypeOK, UvHoldsOne, Uv!TypeOK, uvVars, Stages, Pushing
  <1>3. VisibleOrder'
    BY SMTT(40), <1>1 DEF IInv, Numbers, VisibleOrder, uvVars
  <1>4. VisibleTaken'
    BY <1>1 DEF IInv, VisibleTaken, uvVars
  <1>5. Newest' = Newest + 1 /\ Newest \in Int /\ Reading' = Reading /\ Pushing' = Pushing
    BY <1>1 DEF Newest, Reading, Pushing, uvVars
  <1>6. /\ NewHeader(slot_header[0]) => NewHeader(slot_header[0])'
        /\ NewData(slot_data[0]) => NewData(slot_data[0])'
        /\ NewHeader(cons.header) => NewHeader(cons.header)'
        /\ NewData(cons.data) => NewData(cons.data)'
    BY SMTT(40), <1>1, <1>5 DEF Numbers, NewHeader, NewData, uvVars
  <1>7. Len(cons.taken) = 1 /\ NewHeader(cons.taken[1].header) /\ NewData(cons.taken[1].data)
        => NewHeader(cons.taken[1].header)' /\ NewData(cons.taken[1].data)'
    BY SMTT(40), <1>1, <1>5 DEF Numbers, NewHeader, NewData, uvVars
  <1>8. Popping' /\ Bounded'
    <2>1. Popping'
      BY <1>1, <1>5, <1>6, <1>7 DEF IInv, Popping, uvVars
    <2>2. Bounded'
      <3>1. \A x \in Nat : x <= Newest => x <= Newest'
        BY <1>5
      <3>2. slot_header[0] <= Newest' /\ slot_data[0] <= Newest'
        BY <3>1 DEF IInv, Numbers, Bounded
      <3>3. \A i \in 1..Len(analysed) : analysed[i].header <= Newest' /\ analysed[i].data <= Newest'
        BY <3>1 DEF IInv, Numbers, Bounded
      <3>4. \A i \in 1..Len(cons.taken) :
               cons.taken[i].header <= Newest' /\ cons.taken[i].data <= Newest'
        BY <3>1 DEF IInv, Numbers, Bounded
      <3>. QED
        BY <1>1, <3>2, <3>3, <3>4 DEF IInv, Bounded, uvVars
    <2>. QED
      BY <2>1, <2>2
  <1>9. Unread' /\ Undisturbed'
    BY <1>1, <1>5 DEF IInv, Unread, Untaken, Undisturbed, uvVars
  <1>. QED
    BY <1>1, <1>2, <1>3, <1>4, <1>8, <1>9, Histories DEF IInv

\* The rest of a reset: the consumer's counter, then the slots.
LEMMA ResetStep == ASSUME IInv, CallbackReset PROVE IInv'
  <1>. /\ callback \in [pc : {"idle", "create", "push_uv", "pushing"}, pair : 0..MaxPairs]
       /\ prod \in Uv!ProdRecord
       /\ MaxPairs \in Nat \ {0} /\ Numbers
    BY PipelineAssumption, Typed DEF IInv, TypeOK, Uv!TypeOK
  <1>1. /\ callback.pc = "create"
        /\ detect' = [detect EXCEPT !.reset = TRUE]
        /\ UNCHANGED <<callback, visIn, visOut, analysed, write_seq, slot_header, slot_data, cons,
                       pushed, popped>>
    BY DEF CallbackReset, Uv!CreateSteps, Uv!CreateReadSeq, Uv!CreateSlot
  <1>2. /\ read_seq' \in {read_seq, 0}
        /\ prod.pc \in {"create_read", "create_slot"}
        /\ \/ prod' = [prod EXCEPT !.pc = "create_slot"]
           \/ prod.pc = "create_slot" /\ prod' = [prod EXCEPT !.w = @ + 1]
           \/ prod' = [pc |-> "idle", w |-> 0, frame |-> NoPair, rc |-> 0]
        /\ prod'.pc = "create_slot" => prod'.w \in Uv!Slots
        /\ slot_state' = slot_state \/ slot_state' = [slot_state EXCEPT ![prod.w] = "FREE"]
    <2>1. CASE Uv!CreateReadSeq
      <3>1. /\ prod.pc = "create_read" /\ read_seq' = 0 /\ slot_state' = slot_state
            /\ prod' = [prod EXCEPT !.pc = "create_slot"]
        BY <2>1 DEF Uv!CreateReadSeq
      <3>2. prod'.w = 0
        BY <3>1 DEF Uv!ProdRecord, IInv, Stages
      <3>3. prod'.w \in Uv!Slots
        BY <3>2, FirstSlot
      <3>. QED
        BY <3>1, <3>3
    <2>2. CASE Uv!CreateSlot
      BY <2>2, PipelineAssumption DEF Uv!CreateSlot, Uv!ProdRecord, Uv!ProdIdle, Uv!Slots, IInv, Stages
    <2>. QED
      BY <2>1, <2>2 DEF CallbackReset, Uv!CreateSteps
  <1>3. TypeOK'
    <2>1. prod' \in Uv!ProdRecord
      BY <1>2 DEF Uv!ProdRecord, Uv!Memory
    <2>2. /\ slot_state' \in [Uv!Slots -> {"FREE", "WRITING", "READY", "READING"}]
          /\ \A i \in 1..(UvCapacity - 1) : slot_state'[i] = "FREE"
      <3>1. slot_state \in [Uv!Slots -> {"FREE", "WRITING", "READY", "READING"}]
        BY DEF IInv, TypeOK, Uv!TypeOK
      <3>2. \A i \in 1..(UvCapacity - 1) : slot_state[i] = "FREE" /\ i \in Uv!Slots
        BY PipelineAssumption DEF IInv, TypeOK, UvHoldsOne, Uv!Slots
      <3>. QED
        BY <1>2, <3>1, <3>2
    <2>3. detect' \in [pc : {"pop_vis", "pop_uv", "popping"}, vis : 0..MaxPairs, reset : BOOLEAN]
      BY <1>1 DEF IInv, TypeOK
    <2>4. read_seq' \in Nat
      BY <1>2 DEF IInv, TypeOK, Uv!TypeOK
    <2>5. Uv!TypeOK'
      BY <1>1, <2>1, <2>2, <2>4 DEF IInv, TypeOK, Uv!TypeOK
    <2>. QED
      BY <1>1, <2>2, <2>3, <2>5 DEF IInv, TypeOK, UvHoldsOne
  <1>4. Stages'
    <2>1. write_seq = 0 /\ callback.pair \in Pairs
      BY <1>1 DEF IInv, Stages
    <2>2. CASE prod' = [prod EXCEPT !.pc = "create_slot"]
      BY <1>1, <1>2, <2>1, <2>2 DEF Stages, Pushing, Uv!ProdRecord
    <2>3. CASE prod.pc = "create_slot" /\ prod' = [prod EXCEPT !.w = @ + 1]
      BY <1>1, <1>2, <2>1, <2>3 DEF IInv, Stages, Pushing, Uv!ProdRecord
    <2>4. CASE prod' = [pc |-> "idle", w |-> 0, frame |-> NoPair, rc |-> 0]
      BY <1>1, <1>2, <2>1, <2>4 DEF Stages, Pushing
    <2>. QED
      BY <1>2, <2>2, <2>3, <2>4
  <1>5. Newest' = Newest /\ Reading' = Reading /\ ~Pushing' /\ write_seq = 0
    BY <1>1, <1>2 DEF Newest, Reading, Pushing, IInv, Stages, Uv!ProdRecord
  <1>6. VisibleOrder' /\ VisibleTaken'
    <2>1. VisibleOrder'
      BY <1>1, <1>5 DEF IInv, Numbers, VisibleOrder
    <2>2. VisibleTaken'
      BY <1>1 DEF IInv, TypeOK, VisibleTaken
    <2>. QED
      BY <2>1, <2>2
  <1>7. Popping' /\ Bounded'
    <2>1. detect'.vis = detect.vis /\ detect'.pc = detect.pc
      BY <1>1 DEF IInv, TypeOK
    <2>2. Popping'
      BY <1>1, <1>2, <1>5, <2>1 DEF IInv, TypeOK, Uv!TypeOK, Uv!ConsRecord, Popping, NewHeader, NewData
    <2>3. Bounded'
      BY <1>1, <1>5 DEF IInv, Bounded
    <2>. QED
      BY <2>2, <2>3
  <1>8. Unread' /\ Undisturbed'
    BY <1>1, <1>5 DEF IInv, TypeOK, Unread, Undisturbed
  <1>. QED
    BY <1>1, <1>3, <1>4, <1>6, <1>7, <1>8, Histories DEF IInv

\* The visible frame of a new pair goes behind those of earlier ones.
LEMMA PushVisStep == ASSUME IInv, CallbackPushVis PROVE IInv'
  <1>. /\ callback \in [pc : {"idle", "create", "push_uv", "pushing"}, pair : 0..MaxPairs]
       /\ MaxPairs \in Nat \ {0} /\ Numbers
       /\ visIn \in Seq(Pairs)
    BY PipelineAssumption, Typed DEF IInv, TypeOK
  <1>1. /\ callback.pc = "create" /\ prod.pc = "idle"
        /\ callback' = [pc |-> "push_uv", pair |-> callback.pair]
        /\ visIn' = Append(visIn, callback.pair) \/ visIn' = visIn
        /\ UNCHANGED <<visOut, uvVars, detect, analysed>>
    BY DEF CallbackPushVis, Vis!Put
  <1>2. callback.pair \in Pairs /\ write_seq = 0
    BY <1>1 DEF IInv, Stages
  <1>3. TypeOK' /\ Stages'
    <2>1. visIn' \in Seq(Pairs)
      BY <1>1, <1>2
    <2>. QED
      BY <1>1, <1>2, <2>1 DEF IInv, TypeOK, UvHoldsOne, Uv!TypeOK, uvVars, Stages, Pushing
  <1>4. VisibleOrder'
    <2>1. CASE visIn' = visIn
      BY <1>1, <2>1 DEF IInv, Numbers, VisibleOrder, uvVars
    <2>2. CASE visIn' = Append(visIn, callback.pair)
      <3>1. /\ Len(visIn') = Len(visIn) + 1
            /\ \A i \in 1..Len(visIn) : visIn'[i] = visIn[i]
            /\ visIn'[Len(visIn) + 1] = callback.pair
        BY <2>2
      <3>2. \A i \in 1..Len(visIn) : visIn[i] < callback.pair
        BY <1>1 DEF IInv, VisibleOrder
      <3>3. Len(visOut') <= Len(visIn') /\ \A i \in 1..Len(visOut') : visOut'[i] = visIn'[i]
        BY <1>1, <3>1 DEF IInv, Numbers, VisibleOrder
      <3>4. \A i \in 1..Len(visIn') : i \in 1..Len(visIn) \/ i = Len(visIn) + 1
        BY <3>1 DEF Numbers
      <3>5. \A i, j \in 1..Len(visIn') : i < j => i \in 1..Len(visIn)
        BY <3>1 DEF Numbers
      <3>6. \A i, j \in 1..Len(visIn') : i < j => visIn'[i] < visIn'[j]
        <4>. SUFFICES ASSUME NEW i \in 1..Len(visIn'), NEW j \in 1..Len(visIn'), i < j
                      PROVE  visIn'[i] < visIn'[j]
          OBVIOUS
        <4>1. i \in 1..Len(visIn)
          BY <3>5
        <4>2. CASE j \in 1..Len(visIn)
          BY <3>1, <4>1, <4>2 DEF IInv, VisibleOrder
        <4>3. CASE j = Len(visIn) + 1
          BY <3>1, <3>2, <4>1, <4>3
        <4>. QED
          BY <3>4, <4>2, <4>3
      <3>7. \A i \in 1..Len(visIn') : visIn'[i] <= callback'.pair
        <4>. SUFFICES ASSUME NEW i \in 1..Len(visIn')
                      PROVE  visIn'[i] <= callback.pair
          BY <1>1
        <4>1. CASE i \in 1..Len(visIn)
          BY <3>1, <4>1 DEF IInv, VisibleOrder
        <4>2. CASE i = Len(visIn) + 1
          BY <3>1, <4>2
        <4>. QED
          BY <3>4, <4>1, <4>2
      <3>. QED
        BY <1>1, <1>2, <3>3, <3>6, <3>7 DEF VisibleOrder, uvVars
    <2>. QED
      BY <1>1, <2>1, <2>2
  <1>5. VisibleTaken'
    BY <1>1 DEF IInv, VisibleTaken, uvVars
  <1>6. Newest' = Newest /\ Reading' = Reading /\ Pushing' = Pushing
    BY <1>1 DEF Newest, Reading, Pushing, uvVars
  <1>7. Popping' /\ Bounded'
    BY <1>1, <1>6 DEF IInv, Popping, Bounded, NewHeader, NewData, uvVars
  <1>8. Unread' /\ Undisturbed'
    BY <1>1, <1>6 DEF IInv, Unread, Untaken, Undisturbed, uvVars
  <1>. QED
    BY <1>1, <1>3, <1>4, <1>5, <1>7, <1>8, Histories DEF IInv
\* The callback begins to push: the frame is newer than all that were taken.
LEMMA PushUvStep == ASSUME IInv, CallbackPushUv PROVE IInv'
  <1>. /\ callback \in [pc : {"idle", "create", "push_uv", "pushing"}, pair : 0..MaxPairs]
       /\ MaxPairs \in Nat \ {0} /\ Numbers
    BY PipelineAssumption, Typed DEF IInv, TypeOK
  <1>1. /\ callback.pc = "push_uv" /\ prod.pc = "idle"
        /\ callback.pair \in Pairs /\ write_seq = 0
        /\ callback' = [pc |-> "pushing", pair |-> callback.pair]
        /\ UNCHANGED <<visIn, visOut, detect, analysed, write_seq, read_seq, slot_state,
                       slot_header, slot_data, cons, pushed, popped>>
    BY DEF CallbackPushUv, Uv!Push, Uv!shared, uvVars, IInv, Stages
  <1>2. \/ prod' = prod
        \/ prod' = [pc |-> "idle", w |-> 0, frame |-> NoPair, rc |-> -2]
        \/ prod' = [pc |-> "cas", w |-> 0, frame |-> callback.pair, rc |-> 0]
    BY <1>1 DEF CallbackPushUv, Uv!Push, Uv!ProdIdle, uvVars
  <1>3. TypeOK'
    <2>1. prod' \in Uv!ProdRecord
      BY <1>1, <1>2 DEF IInv, TypeOK, Uv!TypeOK, Uv!ProdRecord, Uv!Memory
    <2>. QED
      BY <1>1, <2>1 DEF IInv, TypeOK, Uv!TypeOK, UvHoldsOne
  <1>4. Stages'
    BY <1>1, <1>2 DEF Stages, Pushing
  <1>5. /\ Newest \in Int /\ Newest = callback.pair - 1 /\ Newest' = callback.pair
        /\ Reading' = Reading
    BY <1>1 DEF Newest, Reading
  <1>6. VisibleOrder' /\ VisibleTaken'
    <2>1. VisibleOrder'
      BY <1>1 DEF IInv, Numbers, VisibleOrder
    <2>2. VisibleTaken'
      BY <1>1 DEF IInv, VisibleTaken
    <2>. QED
      BY <2>1, <2>2
  <1>7. Popping' /\ Bounded'
    <2>1. \A x \in Nat : x <= Newest => x <= Newest' /\ x < callback.pair
      BY <1>5
    <2>2. /\ NewHeader(slot_header[0]) => NewHeader(slot_header[0])'
          /\ NewData(slot_data[0]) => NewData(slot_data[0])'
          /\ NewHeader(cons.header) => NewHeader(cons.header)'
          /\ NewData(cons.data) => NewData(cons.data)'
      BY <1>1, <2>1 DEF Numbers, NewHeader, NewData
    <2>3. Len(cons.taken) = 1 /\ NewHeader(cons.taken[1].header) /\ NewData(cons.taken[1].data)
          => NewHeader(cons.taken[1].header)' /\ NewData(cons.taken[1].data)'
      BY <1>1, <2>1 DEF Numbers, NewHeader, NewData
    <2>4. Popping'
      BY <1>1, <1>5, <2>2, <2>3 DEF IInv, Popping
    <2>5. slot_header[0] <= Newest' /\ slot_data[0] <= Newest'
      BY <2>1 DEF IInv, Numbers, Bounded
    <2>6. \A i \in 1..Len(analysed) : analysed[i].header <= Newest' /\ analysed[i].data <= Newest'
      BY <2>1 DEF IInv, Numbers, Bounded
    <2>7. \A i \in 1..Len(cons.taken) :
             cons.taken[i].header <= Newest' /\ cons.taken[i].data <= Newest'
      BY <2>1 DEF IInv, Numbers, Bounded
    <2>8. Bounded'
      BY <1>1, <2>5, <2>6, <2>7 DEF IInv, Bounded
    <2>. QED
      BY <2>4, <2>8
  <1>8. Unread' /\ Undisturbed'
    <2>1. \A x \in Nat : x <= Newest => x < callback.pair
      BY <1>5
    <2>2. Untaken(callback.pair, callback.pair)
      BY <2>1 DEF IInv, Numbers, Bounded, Untaken
    <2>3. Pushing' => prod'.frame = callback.pair
      BY <1>1, <1>2 DEF Pushing
    <2>4. Unread'
      BY <1>1, <2>2, <2>3 DEF Unread, Untaken
    <2>5. Undisturbed'
      BY <1>1, <1>5 DEF IInv, Undisturbed
    <2>. QED
      BY <2>4, <2>5
  <1>. QED
    BY <1>1, <1>3, <1>4, <1>6, <1>7, <1>8, Histories DEF IInv

\* A step of the push that copies nothing and publishes nothing.
LEMMA PushQuietStep ==
  ASSUME IInv, CallbackPushing, Uv!PushCas \/ Uv!PushReady
  PROVE  IInv'
  <1>. /\ callback \in [pc : {"idle", "create", "push_uv", "pushing"}, pair : 0..MaxPairs]
       /\ prod \in Uv!ProdRecord
       /\ MaxPairs \in Nat \ {0} /\ Numbers
    BY PipelineAssumption, Typed DEF IInv, TypeOK, Uv!TypeOK
  <1>1. /\ callback.pc = "pushing" /\ Pushing
        /\ UNCHANGED <<callback, visIn, visOut, detect, analysed, write_seq, read_seq,
                       slot_header, slot_data, cons, pushed, popped>>
    BY DEF CallbackPushing, Uv!PushCas, Uv!PushReady, Pushing
  <1>2. prod.w = 0 /\ prod.frame = callback.pair /\ write_seq = 0
    BY <1>1 DEF IInv, Stages
  <1>3. /\ \/ prod.pc = "cas" /\ prod' = [prod EXCEPT !.pc = "header"]
           \/ prod.pc = "cas" /\ prod' = [pc |-> "idle", w |-> 0, frame |-> NoPair, rc |-> -3]
           \/ prod.pc = "ready" /\ prod' = [prod EXCEPT !.pc = "publish"]
        /\ \/ slot_state' = slot_state
           \/ slot_state' = [slot_state EXCEPT ![0] = "WRITING"]
           \/ slot_state' = [slot_state EXCEPT ![0] = "READY"]
    BY <1>2, FirstSlot DEF Uv!PushCas, Uv!PushReady, Uv!ProdIdle
  <1>4. TypeOK'
    <2>1. prod' \in Uv!ProdRecord
      BY <1>3 DEF Uv!ProdRecord, Uv!Memory
    <2>2. /\ slot_state' \in [Uv!Slots -> {"FREE", "WRITING", "READY", "READING"}]
          /\ \A i \in 1..(UvCapacity - 1) : slot_state'[i] = "FREE"
      <3>1. slot_state \in [Uv!Slots -> {"FREE", "WRITING", "READY", "READING"}]
        BY DEF IInv, TypeOK, Uv!TypeOK
      <3>2. \A i \in 1..(UvCapacity - 1) : slot_state[i] = "FREE" /\ i \in Uv!Slots /\ i # 0
        BY PipelineAssumption DEF IInv, TypeOK, UvHoldsOne, Uv!Slots
      <3>. QED
        BY <1>3, <3>1, <3>2
    <2>. QED
      BY <1>1, <2>1, <2>2 DEF IInv, TypeOK, Uv!TypeOK, UvHoldsOne
  <1>5. Stages'
    BY <1>1, <1>2, <1>3 DEF IInv, Stages, Pushing, Uv!ProdRecord
  <1>6. VisibleOrder' /\ VisibleTaken'
    BY <1>1 DEF IInv, VisibleOrder, VisibleTaken
  <1>7. Newest' = Newest /\ Reading' = Reading
    BY <1>1 DEF Newest, Reading
  <1>8. Popping' /\ Bounded'
    BY <1>1, <1>7 DEF IInv, Popping, Bounded, NewHeader, NewData
  <1>9. Unread' /\ Undisturbed'
    <2>1. Pushing' => prod'.frame = prod.frame
      BY <1>3 DEF Pushing, Uv!ProdRecord
    <2>. QED
      BY <1>1, <1>2, <1>7, <2>1 DEF IInv, Unread, Untaken, Undisturbed
  <1>. QED
    BY <1>1, <1>4, <1>5, <1>6, <1>8, <1>9, Histories DEF IInv
\* A copy into the slot: it is of the newest pair, hence newer than what a
\* pop in progress found.
LEMMA PushCopyStep ==
  ASSUME IInv, CallbackPushing, Uv!PushHeader \/ Uv!PushData
  PROVE  IInv'
  <1>. /\ callback \in [pc : {"idle", "create", "push_uv", "pushing"}, pair : 0..MaxPairs]
       /\ prod \in Uv!ProdRecord
       /\ slot_header \in [Uv!Slots -> Uv!Memory] /\ slot_data \in [Uv!Slots -> Uv!Memory]
       /\ MaxPairs \in Nat \ {0} /\ Numbers
    BY PipelineAssumption, Typed DEF IInv, TypeOK, Uv!TypeOK
  <1>1. /\ callback.pc = "pushing" /\ Pushing
        /\ UNCHANGED <<callback, visIn, visOut, detect, analysed, write_seq, read_seq, slot_state,
                       cons, pushed, popped>>
    BY DEF CallbackPushing, Uv!PushHeader, Uv!PushData, Pushing
  <1>2. prod.w = 0 /\ prod.frame = callback.pair /\ write_seq = 0 /\ callback.pair \in Pairs
    BY <1>1 DEF IInv, Stages
  <1>3. \/ /\ prod.pc = "header" /\ prod' = [prod EXCEPT !.pc = "data"]
           /\ slot_header' = [slot_header EXCEPT ![0] = callback.pair] /\ slot_data' = slot_data
        \/ /\ prod.pc = "data" /\ prod' = [prod EXCEPT !.pc = "ready"]
           /\ slot_data' = [slot_data EXCEPT ![0] = callback.pair] /\ slot_header' = slot_header
    BY <1>2, FirstSlot DEF Uv!PushHeader, Uv!PushData
  <1>4. /\ slot_header'[0] \in {slot_header[0], callback.pair}
        /\ slot_data'[0] \in {slot_data[0], callback.pair}
    BY <1>3, FirstSlot
  <1>5. TypeOK'
    <2>1. prod' \in Uv!ProdRecord
      BY <1>3 DEF Uv!ProdRecord, Uv!Memory
    <2>2. slot_header' \in [Uv!Slots -> Uv!Memory] /\ slot_data' \in [Uv!Slots -> Uv!Memory]
      BY <1>2, <1>3 DEF Uv!Memory
    <2>. QED
      BY <1>1, <2>1, <2>2 DEF IInv, TypeOK, Uv!TypeOK, UvHoldsOne
  <1>6. Stages'
    BY <1>1, <1>2, <1>3, FirstSlot DEF IInv, Stages, Pushing, Uv!ProdRecord
  <1>7. VisibleOrder' /\ VisibleTaken'
    BY <1>1, <1>2 DEF IInv, VisibleOrder, VisibleTaken
  <1>8. Newest' = Newest /\ Newest = callback.pair /\ Reading' = Reading
    BY <1>1 DEF Newest, Reading
  <1>9. /\ NewHeader(slot_header[0]) => NewHeader(slot_header[0])'
        /\ NewData(slot_data[0]) => NewData(slot_data[0])'
    <2>1. \A x, y \in Nat : x < y /\ y <= callback.pair => x < callback.pair
      OBVIOUS
    <2>2. \A x, y \in Nat : x <= y /\ y <= callback.pair => x <= callback.pair
      OBVIOUS
    <2>3. NewHeader(slot_header[0]) => NewHeader(callback.pair)
      BY SMTT(40), <1>8, <2>1, <2>2 DEF Numbers, NewHeader
    <2>4. NewData(slot_data[0]) => NewData(callback.pair)
      BY SMTT(40), <1>8, <2>1, <2>2 DEF Numbers, NewData
    <2>. QED
      BY <1>1, <1>4, <1>8, <2>3, <2>4 DEF NewHeader, NewData
  <1>10. Popping'
    BY <1>1, <1>8, <1>9 DEF IInv, Popping, NewHeader, NewData
  <1>11. Bounded'
    BY <1>1, <1>4, <1>8 DEF IInv, Numbers, Bounded
  <1>12. Unread' /\ Undisturbed'
    <2>1. prod'.frame = prod.frame
      BY <1>3 DEF Uv!ProdRecord
    <2>2. Unread'
      BY <1>1, <1>2, <2>1 DEF IInv, Unread, Untaken
    <2>3. Undisturbed'
      BY <1>1, <1>2, <1>8 DEF IInv, Undisturbed, Reading
    <2>. QED
      BY <2>2, <2>3
  <1>. QED
    BY <1>1, <1>5, <1>6, <1>7, <1>10, <1>11, <1>12, Histories DEF IInv

\* Publishing: the slot holds the whole frame of the newest pair.
LEMMA PublishStep == ASSUME IInv, CallbackPushing, Uv!PushPublish PROVE IInv'
  <1>. /\ callback \in [pc : {"idle", "create", "push_uv", "pushing"}, pair : 0..MaxPairs]
       /\ MaxPairs \in Nat \ {0} /\ Numbers
    BY PipelineAssumption, Typed DEF IInv, TypeOK, Uv!TypeOK
  <1>1. /\ callback.pc = "pushing" /\ Pushing /\ prod.pc = "publish"
        /\ write_seq' = prod.w + 1
        /\ pushed' = Append(pushed, Uv!Whole(prod.frame))
        /\ prod' = [pc |-> "idle", w |-> 0, frame |-> NoPair, rc |-> 0]
        /\ UNCHANGED <<callback, visIn, visOut, detect, analysed, read_seq, slot_state,
                       slot_header, slot_data, cons, popped>>
    BY DEF CallbackPushing, Uv!PushPublish, Uv!ProdIdle, Pushing
  <1>2. /\ prod.w = 0 /\ prod.frame = callback.pair /\ write_seq = 0 /\ callback.pair \in Pairs
        /\ slot_header[0] = callback.pair /\ slot_data[0] = callback.pair
    BY <1>1 DEF IInv, Stages
  <1>3. TypeOK'
    <2>1. prod' \in Uv!ProdRecord
      BY <1>1 DEF Uv!ProdRecord, Uv!Memory
    <2>2. pushed' \in Seq(Uv!Items)
      BY <1>1, <1>2 DEF IInv, TypeOK, Uv!TypeOK, Uv!Items
    <2>. QED
      BY <1>1, <1>2, <2>1, <2>2 DEF IInv, TypeOK, Uv!TypeOK, UvHoldsOne
  <1>4. Stages'
    BY <1>1 DEF IInv, Stages, Pushing
  <1>5. VisibleOrder' /\ VisibleTaken'
    BY <1>1, <1>2 DEF IInv, VisibleOrder, VisibleTaken
  <1>6. Newest' = Newest /\ Reading' = Reading
    BY <1>1 DEF Newest, Reading
  <1>7. Popping' /\ Bounded'
    BY <1>1, <1>6 DEF IInv, Popping, Bounded, NewHeader, NewData
  <1>8. Unread'
    BY <1>1, <1>2 DEF IInv, Unread, Untaken, Pushing
  <1>9. Undisturbed'
    BY <1>1, <1>2, <1>6 DEF IInv, Undisturbed
  <1>. QED
    BY <1>1, <1>3, <1>4, <1>5, <1>7, <1>8, <1>9, Histories DEF IInv

LEMMA ReturnStep == ASSUME IInv, CallbackReturn PROVE IInv'
  <1>. callback \in [pc : {"idle", "create", "push_uv", "pushing"}, pair : 0..MaxPairs]
    BY DEF IInv, TypeOK
  <1>1. /\ callback.pc = "pushing" /\ prod.pc = "idle"
        /\ callback' = [pc |-> "idle", pair |-> callback.pair]
        /\ UNCHANGED <<visIn, visOut, uvVars, detect, analysed>>
    BY DEF CallbackReturn
  <1>2. TypeOK' /\ Stages'
    BY <1>1 DEF IInv, TypeOK, UvHoldsOne, Uv!TypeOK, uvVars, Stages, Pushing
  <1>3. Newest' = Newest /\ Reading' = Reading /\ Pushing' = Pushing
    BY <1>1 DEF Newest, Reading, Pushing, uvVars
  <1>4. VisibleOrder' /\ VisibleTaken'
    BY <1>1 DEF IInv, VisibleOrder, VisibleTaken, uvVars
  <1>5. Popping' /\ Bounded'
    BY <1>1, <1>3 DEF IInv, Popping, Bounded, NewHeader, NewData, uvVars
  <1>6. Unread' /\ Undisturbed'
    BY <1>1, <1>3 DEF IInv, Unread, Untaken, Undisturbed, uvVars
  <1>. QED
    BY <1>1, <1>2, <1>4, <1>5, <1>6, Histories DEF IInv
\* The detection thread takes the oldest visible frame.
LEMMA PopVisStep == ASSUME IInv, DetectPopVis PROVE IInv'
  <1>. /\ detect \in [pc : {"pop_vis", "pop_uv", "popping"}, vis : 0..MaxPairs, reset : BOOLEAN]
       /\ visIn \in Seq(Pairs) /\ visOut \in Seq(Pairs)
       /\ MaxPairs \in Nat \ {0} /\ Numbers
    BY PipelineAssumption, Typed DEF IInv, TypeOK
  <1>1. /\ detect.pc = "pop_vis"
        /\ 1 <= Len(visIn) - Len(visOut)
        /\ visOut' = SubSeq(visIn, 1, Len(visOut) + 1)
        /\ detect' = [pc |-> "pop_uv", vis |-> Last(visOut'), reset |-> FALSE]
        /\ UNCHANGED <<visIn, callback, uvVars, analysed>>
    BY DEF DetectPopVis, Vis!Get, Vis!Waiting
  <1>2. /\ visOut' \in Seq(Pairs) /\ Len(visOut') = Len(visOut) + 1
        /\ \A i \in 1..(Len(visOut) + 1) : visOut'[i] = visIn[i]
    BY <1>1 DEF Numbers
  <1>3. detect'.vis = visOut'[Len(visOut')] /\ detect'.vis \in Pairs
    BY <1>1, <1>2 DEF Last, Numbers
  <1>4. TypeOK' /\ Stages'
    <2>1. detect' \in [pc : {"pop_vis", "pop_uv", "popping"}, vis : 0..MaxPairs, reset : BOOLEAN]
      BY <1>1, <1>3 DEF Pairs
    <2>2. TypeOK'
      BY <1>1, <1>2, <2>1 DEF IInv, TypeOK, UvHoldsOne, Uv!TypeOK, uvVars
    <2>3. Stages'
      BY <1>1 DEF IInv, Stages, Pushing, uvVars
    <2>. QED
      BY <2>2, <2>3
  <1>5. VisibleOrder'
    BY <1>1, <1>2 DEF IInv, Numbers, VisibleOrder, uvVars
  <1>6. VisibleTaken'
    <2>1. visOut' # <<>> /\ detect'.vis = visOut'[Len(visOut')]
      BY <1>2, <1>3 DEF Numbers
    <2>2. ASSUME NEW i \in 1..Len(analysed)
          PROVE  \E j \in 1..Len(visOut') : visOut'[j] = analysed[i].vis /\ j < Len(visOut')
      <3>1. PICK j \in 1..Len(visOut) : visOut[j] = analysed[i].vis
        BY DEF IInv, VisibleTaken
      <3>2. visOut[j] = visIn[j]
        BY DEF IInv, VisibleOrder
      <3>3. j \in 1..Len(visOut') /\ j < Len(visOut') /\ visOut'[j] = visIn[j]
        BY SMTT(40), <1>2 DEF Numbers
      <3>. QED
        BY <3>1, <3>2, <3>3
    <2>. QED
      BY <1>1, <2>1, <2>2 DEF VisibleTaken
  <1>7. Newest' = Newest /\ Reading' = Reading /\ Pushing' = Pushing /\ cons.pc = "idle"
    BY <1>1 DEF Newest, Reading, Pushing, uvVars, IInv, Popping
  <1>8. Popping' /\ Bounded'
    BY <1>1, <1>7 DEF IInv, Popping, Bounded, Reading, uvVars
  <1>9. Unread' /\ Undisturbed'
    BY <1>1, <1>7 DEF IInv, Unread, Untaken, Undisturbed, uvVars
  <1>. QED
    BY <1>1, <1>4, <1>5, <1>6, <1>8, <1>9, Histories DEF IInv

\* What the detection thread's steps on the ultraviolet queue leave alone.
LEMMA PopFrame ==
  ASSUME IInv,
         UNCHANGED <<callback, visIn, visOut, analysed, write_seq, slot_header, slot_data, prod,
                     detect>>
  PROVE  /\ Stages' /\ VisibleOrder' /\ VisibleTaken'
         /\ Newest' = Newest /\ Pushing' = Pushing
         /\ UvNeverStale' /\ AnalysedOnce' /\ TornOnlyByReset'
  <1>1. Stages'
    BY DEF IInv, Stages, Pushing
  <1>2. VisibleOrder' /\ VisibleTaken'
    BY DEF IInv, VisibleOrder, VisibleTaken
  <1>3. Newest' = Newest /\ Pushing' = Pushing
    BY DEF Newest, Pushing
  <1>. QED
    BY <1>1, <1>2, <1>3, Histories

LEMMA PopUvStep == ASSUME IInv, DetectPopUv PROVE IInv'
  <1>. /\ detect \in [pc : {"pop_vis", "pop_uv", "popping"}, vis : 0..MaxPairs, reset : BOOLEAN]
       /\ Numbers
    BY Typed DEF IInv, TypeOK
  <1>1. /\ detect.pc = "pop_uv" /\ cons.pc = "idle"
        /\ detect' = [pc |-> "popping", vis |-> detect.vis, reset |-> FALSE]
        /\ cons' = [pc |-> "load", op |-> "pop", max |-> 1, r |-> read_seq, count |-> 0,
                    header |-> NoPair, data |-> NoPair, taken |-> <<>>, rc |-> 0]
        /\ UNCHANGED <<callback, visIn, visOut, analysed, write_seq, read_seq, slot_state,
                       slot_header, slot_data, prod, pushed, popped>>
    BY DEF DetectPopUv, Uv!Pop, Uv!ConsIdle, Uv!shared
  <1>2. TypeOK'
    <2>1. cons' \in Uv!ConsRecord
      BY <1>1 DEF IInv, TypeOK, Uv!TypeOK, Uv!ConsRecord, Uv!Memory, Uv!Copies
    <2>2. Uv!TypeOK'
      BY <1>1, <2>1 DEF IInv, TypeOK, Uv!TypeOK
    <2>. QED
      BY <1>1, <2>2 DEF IInv, TypeOK, UvHoldsOne
  <1>3. Stages' /\ VisibleOrder' /\ VisibleTaken'
    <2>1. Stages'
      BY <1>1 DEF IInv, Stages, Pushing
    <2>2. VisibleOrder' /\ VisibleTaken'
      BY <1>1 DEF IInv, VisibleOrder, VisibleTaken
    <2>. QED
      BY <2>1, <2>2
  <1>4. Newest' = Newest /\ Pushing' = Pushing /\ ~Reading'
    BY <1>1 DEF Newest, Pushing, Reading
  <1>5. Popping' /\ Bounded'
    <2>1. read_seq \in Nat /\ read_seq <= 1
      BY DEF IInv, TypeOK, Uv!TypeOK, Popping
    <2>2. Popping'
      BY <1>1, <1>4, <2>1 DEF Popping
    <2>3. Bounded'
      BY <1>1, <1>4 DEF IInv, Bounded
    <2>. QED
      BY <2>2, <2>3
  <1>6. Unread' /\ Undisturbed'
    BY <1>1, <1>4 DEF IInv, Unread, Untaken, Undisturbed
  <1>. QED
    BY <1>1, <1>2, <1>3, <1>5, <1>6, Histories DEF IInv

\* The load finds nothing, or the frame that was published last and not read.
LEMMA PopLoadStep == ASSUME IInv, DetectPopping, Uv!PopLoad PROVE IInv'
  <1>. /\ cons \in Uv!ConsRecord /\ Numbers
       /\ write_seq \in Nat /\ read_seq \in Nat /\ write_seq <= 1
    BY Typed DEF IInv, TypeOK, UvHoldsOne, Uv!TypeOK
  <1>1. /\ detect.pc = "popping" /\ cons.pc = "load"
        /\ UNCHANGED <<callback, visIn, visOut, analysed, write_seq, read_seq, slot_state,
                       slot_header, slot_data, prod, detect, pushed, popped>>
    BY DEF DetectPopping, Uv!PopLoad, Uv!shared
  <1>2. /\ cons.op = "pop" /\ cons.max = 1 /\ cons.rc = 0 /\ cons.taken = <<>>
        /\ cons.r \in Nat /\ read_seq <= cons.r
    BY <1>1 DEF IInv, Popping, Uv!ConsRecord
  <1>3. \/ /\ write_seq = 1 /\ cons.r = 0
           /\ cons' = [cons EXCEPT !.pc = "cas", !.count = 1]
        \/ cons' = [pc |-> "idle", op |-> "pop", max |-> 0, r |-> 0, count |-> 0,
                    header |-> NoPair, data |-> NoPair, taken |-> <<>>, rc |-> -2]
    <2>1. CASE write_seq - cons.r > 0
      <3>1. write_seq = 1 /\ cons.r = 0
        BY <1>2, <2>1
      <3>2. Uv!Min2(write_seq - cons.r, cons.max) = 1
        BY <1>2, <3>1 DEF Uv!Min2
      <3>. QED
        BY <2>1, <3>1, <3>2 DEF Uv!PopLoad
    <2>2. CASE ~(write_seq - cons.r > 0)
      BY <1>2, <2>2 DEF Uv!PopLoad, Uv!ConsIdle
    <2>. QED
      BY <2>1, <2>2
  <1>4. TypeOK'
    <2>1. cons' \in Uv!ConsRecord
      <3>1. <<>> \in Seq(Uv!Copies) /\ NoPair \in Uv!Memory
        BY DEF Uv!Memory
      <3>2. [pc |-> "idle", op |-> "pop", max |-> 0, r |-> 0, count |-> 0,
             header |-> NoPair, data |-> NoPair, taken |-> <<>>, rc |-> -2] \in Uv!ConsRecord
        BY <3>1 DEF Uv!ConsRecord
      <3>3. [cons EXCEPT !.pc = "cas", !.count = 1] \in Uv!ConsRecord
        BY DEF Uv!ConsRecord
      <3>. QED
        BY <1>3, <3>2, <3>3
    <2>2. Uv!TypeOK'
      BY <1>1, <2>1 DEF IInv, TypeOK, Uv!TypeOK
    <2>. QED
      BY <1>1, <2>2 DEF IInv, TypeOK, UvHoldsOne
  <1>5. CASE /\ write_seq = 1 /\ cons.r = 0
             /\ cons' = [cons EXCEPT !.pc = "cas", !.count = 1]
    <2>1. read_seq = 0 /\ Untaken(slot_header[0], slot_data[0])
      BY <1>2, <1>5 DEF IInv, Unread
    <2>2. detect.vis <= slot_header[0] /\ slot_header[0] = slot_data[0]
      <3>1. visOut # <<>> /\ detect.vis = visOut[Len(visOut)] /\ Len(visOut) \in 1..Len(visOut)
        BY <1>1 DEF IInv, VisibleTaken, TypeOK
      <3>. QED
        BY <1>5, <3>1 DEF IInv, VisibleOrder, Numbers
    <2>3. NewHeader(slot_header[0])' /\ NewData(slot_data[0])'
      BY <1>1, <2>1, <2>2, PopFrame DEF IInv, Bounded, Untaken, NewHeader, NewData
    <2>4. /\ cons'.pc = "cas" /\ cons'.op = "pop" /\ cons'.rc = 0 /\ cons'.max = 1
          /\ cons'.taken = <<>> /\ cons'.count = 1 /\ cons'.r = 0
      BY <1>2, <1>5 DEF Uv!ConsRecord
    <2>5. Popping'
      BY <1>1, <2>1, <2>3, <2>4 DEF Popping
    <2>6. Bounded' /\ Unread' /\ Undisturbed'
      BY <1>1, <1>5, <2>4, PopFrame DEF IInv, Bounded, Unread, Untaken, Undisturbed
    <2>. QED
      BY <1>1, <1>4, <2>5, <2>6, PopFrame DEF IInv
  <1>6. CASE cons' = [pc |-> "idle", op |-> "pop", max |-> 0, r |-> 0, count |-> 0,
                      header |-> NoPair, data |-> NoPair, taken |-> <<>>, rc |-> -2]
    <2>1. Popping' /\ Bounded'
      BY <1>1, <1>6, PopFrame DEF IInv, Popping, Reading, Bounded
    <2>2. Unread' /\ Undisturbed'
      BY <1>1, <1>6, PopFrame DEF IInv, Reading, Unread, Untaken, Undisturbed
    <2>. QED
      BY <1>1, <1>4, <2>1, <2>2, PopFrame DEF IInv
  <1>. QED
    BY <1>3, <1>5, <1>6
\* A pop that reads uses the first slot.
LEMMA AtFirstSlot == ASSUME IInv, Reading PROVE Uv!Cursor = 0 /\ Uv!Idx(Uv!Cursor) = 0
  BY FirstSlot DEF IInv, Popping, Uv!Cursor

\* The slot is claimed, or found not to be ready.
LEMMA PopCasStep == ASSUME IInv, DetectPopping, Uv!PopCas PROVE IInv'
  <1>. /\ cons \in Uv!ConsRecord /\ Numbers
    BY Typed DEF IInv, TypeOK, UvHoldsOne, Uv!TypeOK
  <1>1. /\ detect.pc = "popping" /\ cons.pc = "cas" /\ Reading
        /\ UNCHANGED <<callback, visIn, visOut, analysed, write_seq, read_seq,
                       slot_header, slot_data, prod, detect, pushed, popped>>
    BY DEF DetectPopping, Uv!PopCas, Uv!shared, Reading
  <1>2. cons.op = "pop" /\ cons.rc = 0 /\ cons.max = 1 /\ cons.taken = <<>>
    BY <1>1 DEF IInv, Popping
  <1>3. \/ /\ slot_state' = [slot_state EXCEPT ![0] = "READING"]
           /\ cons' = [cons EXCEPT !.pc = "header"]
        \/ /\ slot_state' = slot_state
           /\ cons' = [pc |-> "idle", op |-> "pop", max |-> 0, r |-> 0, count |-> 0,
                       header |-> NoPair, data |-> NoPair, taken |-> <<>>, rc |-> -3]
    BY <1>1, <1>2, AtFirstSlot DEF Uv!PopCas, Uv!ConsIdle
  <1>4. TypeOK'
    <2>1. cons' \in Uv!ConsRecord
      <3>1. <<>> \in Seq(Uv!Copies) /\ NoPair \in Uv!Memory
        BY DEF Uv!Memory
      <3>2. [pc |-> "idle", op |-> "pop", max |-> 0, r |-> 0, count |-> 0,
             header |-> NoPair, data |-> NoPair, taken |-> <<>>, rc |-> -3] \in Uv!ConsRecord
        BY <3>1 DEF Uv!ConsRecord
      <3>3. [cons EXCEPT !.pc = "header"] \in Uv!ConsRecord
        BY DEF Uv!ConsRecord
      <3>. QED
        BY <1>3, <3>2, <3>3
    <2>2. /\ slot_state' \in [Uv!Slots -> {"FREE", "WRITING", "READY", "READING"}]
          /\ \A i \in 1..(UvCapacity - 1) : slot_state'[i] = "FREE"
      <3>1. slot_state \in [Uv!Slots -> {"FREE", "WRITING", "READY", "READING"}]
        BY DEF IInv, TypeOK, Uv!TypeOK
      <3>2. \A i \in 1..(UvCapacity - 1) : slot_state[i] = "FREE" /\ i \in Uv!Slots /\ i # 0
        BY PipelineAssumption DEF IInv, TypeOK, UvHoldsOne, Uv!Slots
      <3>. QED
        BY <1>3, <3>1, <3>2
    <2>. QED
      BY <1>1, <2>1, <2>2 DEF IInv, TypeOK, Uv!TypeOK, UvHoldsOne
  <1>5. CASE cons' = [cons EXCEPT !.pc = "header"]
    <2>1. /\ cons'.pc = "header" /\ cons'.op = "pop" /\ cons'.rc = 0 /\ cons'.max = 1
          /\ cons'.taken = <<>> /\ cons'.count = cons.count /\ cons'.r = cons.r
      BY <1>2, <1>5 DEF Uv!ConsRecord
    <2>2. Popping'
      BY <1>1, <2>1, PopFrame DEF IInv, Popping, Reading, NewHeader, NewData
    <2>3. Bounded' /\ Unread' /\ Undisturbed'
      BY <1>1, <2>1, PopFrame DEF IInv, Bounded, Unread, Untaken, Undisturbed, Reading
    <2>. QED
      BY <1>1, <1>4, <2>2, <2>3, PopFrame DEF IInv
  <1>6. CASE cons' = [pc |-> "idle", op |-> "pop", max |-> 0, r |-> 0, count |-> 0,
                      header |-> NoPair, data |-> NoPair, taken |-> <<>>, rc |-> -3]
    <2>1. Popping' /\ Bounded'
      BY <1>1, <1>6, PopFrame DEF IInv, Popping, Reading, Bounded
    <2>2. Unread' /\ Undisturbed'
      BY <1>1, <1>6, PopFrame DEF IInv, Reading, Unread, Untaken, Undisturbed
    <2>. QED
      BY <1>1, <1>4, <2>1, <2>2, PopFrame DEF IInv
  <1>. QED
    BY <1>3, <1>5, <1>6

\* The two copies out of the slot.
LEMMA PopCopyStep == ASSUME IInv, DetectPopping, Uv!PopHeader \/ Uv!PopData PROVE IInv'
  <1>. /\ cons \in Uv!ConsRecord /\ Numbers
    BY Typed DEF IInv, TypeOK, Uv!TypeOK
  <1>1. /\ detect.pc = "popping" /\ Reading
        /\ UNCHANGED <<callback, visIn, visOut, analysed, write_seq, read_seq, slot_state,
                       slot_header, slot_data, prod, detect, pushed, popped>>
    BY DEF DetectPopping, Uv!PopHeader, Uv!PopData, Uv!shared, Reading
  <1>2. /\ cons.op = "pop" /\ cons.rc = 0 /\ cons.max = 1 /\ cons.taken = <<>>
        /\ cons.r = 0 /\ cons.count = 1 /\ read_seq = 0
        /\ NewHeader(slot_header[0]) /\ NewData(slot_data[0])
    BY <1>1 DEF IInv, Popping, Reading
  <1>3. \/ /\ cons.pc = "header"
           /\ cons' = [cons EXCEPT !.pc = "data", !.header = slot_header[0]]
        \/ /\ cons.pc = "data"
           /\ cons' = [cons EXCEPT !.pc = "free", !.data = slot_data[0]]
    BY <1>1, AtFirstSlot DEF Uv!PopHeader, Uv!PopData
  <1>4. /\ cons'.op = "pop" /\ cons'.rc = 0 /\ cons'.max = 1 /\ cons'.taken = <<>>
        /\ cons'.r = 0 /\ cons'.count = 1 /\ cons'.pc \in {"data", "free"}
    BY <1>2, <1>3 DEF Uv!ConsRecord
  <1>5. /\ cons'.pc = "data" => cons'.header = slot_header[0]
        /\ cons'.pc = "free" => cons'.data = slot_data[0] /\ cons'.header = cons.header
                                /\ cons.pc = "data"
    BY <1>3 DEF Uv!ConsRecord
  <1>6. TypeOK'
    <2>1. slot_header[0] \in Uv!Memory /\ slot_data[0] \in Uv!Memory
      BY FirstSlot DEF IInv, TypeOK, Uv!TypeOK
    <2>2. cons' \in Uv!ConsRecord
      BY <1>3, <2>1 DEF Uv!ConsRecord
    <2>. QED
      BY <1>1, <2>2 DEF IInv, TypeOK, Uv!TypeOK, UvHoldsOne
  <1>7. Popping'
    <2>1. /\ \A h \in Nat : NewHeader(h) => NewHeader(h)'
          /\ \A d \in Nat : NewData(d) => NewData(d)'
      BY <1>1, PopFrame DEF NewHeader, NewData
    <2>2. NewHeader(cons'.header)
      BY <1>1, <1>2, <1>4, <1>5 DEF IInv, Popping
    <2>3. cons'.pc = "free" => NewData(cons'.data)
      BY <1>2, <1>5
    <2>. QED
      BY <1>1, <1>2, <1>4, <2>2, <2>3, PopFrame DEF IInv, Popping, Reading, NewHeader, NewData
  <1>8. Bounded' /\ Unread'
    BY <1>1, <1>2, <1>4, PopFrame DEF IInv, Bounded, Unread, Untaken
  <1>9. Undisturbed'
    BY <1>1, <1>4, <1>5 DEF IInv, Undisturbed, Reading
  <1>. QED
    BY <1>1, <1>6, <1>7, <1>8, <1>9, PopFrame DEF IInv
\* The slot is given back; what was copied out of it is complete.
LEMMA PopFreeStep == ASSUME IInv, DetectPopping, Uv!PopFree PROVE IInv'
  <1>. /\ cons \in Uv!ConsRecord /\ Numbers
    BY Typed DEF IInv, TypeOK, Uv!TypeOK
  <1>. DEFINE copy == [header |-> cons.header, data |-> cons.data]
  <1>1. /\ detect.pc = "popping" /\ cons.pc = "free" /\ Reading
        /\ UNCHANGED <<callback, visIn, visOut, analysed, write_seq, read_seq,
                       slot_header, slot_data, prod, detect, pushed, popped>>
    BY DEF DetectPopping, Uv!PopFree, Uv!shared, Reading
  <1>2. /\ cons.op = "pop" /\ cons.rc = 0 /\ cons.max = 1 /\ cons.taken = <<>>
        /\ cons.r = 0 /\ cons.count = 1 /\ read_seq = 0
        /\ NewHeader(cons.header) /\ NewData(cons.data)
    BY <1>1 DEF IInv, Popping, Reading
  <1>3. /\ slot_state' = [slot_state EXCEPT ![0] = "FREE"]
        /\ cons' = [cons EXCEPT !.pc = "publish", !.taken = Append(<<>>, copy)]
    <2>1. Len(cons.taken) = 0
      BY <1>2
    <2>2. ~(Len(cons.taken) + 1 < cons.count)
      BY <1>2, <2>1
    <2>. QED
      BY <1>1, <1>2, <2>2, AtFirstSlot DEF Uv!PopFree
  <1>4. copy \in Uv!Copies /\ Append(<<>>, copy) \in Seq(Uv!Copies)
    <2>1. copy \in Uv!Copies
      BY DEF Uv!ConsRecord, Uv!Copies
    <2>. HIDE DEF copy
    <2>. QED
      BY <2>1
  <1>5. Append(<<>>, copy) = <<copy>> /\ Len(<<copy>>) = 1 /\ <<copy>>[1] = copy
    OBVIOUS
  <1>6. /\ cons'.pc = "publish" /\ cons'.op = "pop" /\ cons'.rc = 0 /\ cons'.max = 1
        /\ cons'.r = 0 /\ cons'.taken = <<copy>>
    BY <1>2, <1>3, <1>5 DEF Uv!ConsRecord
  <1>7. /\ Len(cons'.taken) = 1
        /\ cons'.taken[1].header = cons.header /\ cons'.taken[1].data = cons.data
    BY <1>5, <1>6
  <1>8. TypeOK'
    <2>1. cons' \in Uv!ConsRecord
      <3>. HIDE DEF copy
      <3>. QED
        BY <1>3, <1>4 DEF Uv!ConsRecord
    <2>2. /\ slot_state' \in [Uv!Slots -> {"FREE", "WRITING", "READY", "READING"}]
          /\ \A i \in 1..(UvCapacity - 1) : slot_state'[i] = "FREE"
      <3>1. slot_state \in [Uv!Slots -> {"FREE", "WRITING", "READY", "READING"}]
        BY DEF IInv, TypeOK, Uv!TypeOK
      <3>2. \A i \in 1..(UvCapacity - 1) : slot_state[i] = "FREE" /\ i \in Uv!Slots /\ i # 0
        BY PipelineAssumption DEF IInv, TypeOK, UvHoldsOne, Uv!Slots
      <3>. QED
        BY <1>3, <3>1, <3>2
    <2>. QED
      BY <1>1, <2>1, <2>2 DEF IInv, TypeOK, Uv!TypeOK, UvHoldsOne
  <1>9. Popping'
    <2>1. NewHeader(cons.header) => NewHeader(cons.taken[1].header)'
      BY <1>1, <1>7, PopFrame DEF NewHeader
    <2>2. NewData(cons.data) => NewData(cons.taken[1].data)'
      BY <1>1, <1>7, PopFrame DEF NewData
    <2>. QED
      BY <1>1, <1>2, <1>6, <1>7, <2>1, <2>2, PopFrame DEF Popping, Reading, NewHeader, NewData
  <1>10. Bounded'
    <2>1. cons.header <= Newest /\ cons.data <= Newest
      BY <1>2 DEF NewHeader, NewData
    <2>2. \A i \in 1..Len(cons'.taken) : i = 1
      BY <1>7
    <2>. QED
      BY <1>1, <1>7, <2>1, <2>2, PopFrame DEF IInv, Bounded
  <1>11. Unread'
    BY <1>1, <1>6, PopFrame DEF IInv, Unread, Untaken
  <1>12. Undisturbed'
    <2>1. ~detect.reset => cons.header = slot_header[0] /\ cons.data = slot_data[0] /\ write_seq = 1
      BY <1>1 DEF IInv, Undisturbed
    <2>2. write_seq = 1 => slot_header[0] = slot_data[0]
      BY DEF IInv, VisibleOrder
    <2>. QED
      BY <1>1, <1>6, <1>7, <2>1, <2>2 DEF Undisturbed, Reading
  <1>. QED
    BY <1>1, <1>8, <1>9, <1>10, <1>11, <1>12, PopFrame DEF IInv

\* The consumer's counter moves past the first slot.
LEMMA PopPublishStep == ASSUME IInv, DetectPopping, Uv!PopPublish PROVE IInv'
  <1>. /\ cons \in Uv!ConsRecord /\ Numbers
    BY Typed DEF IInv, TypeOK, Uv!TypeOK
  <1>1. /\ detect.pc = "popping" /\ cons.pc = "publish"
        /\ read_seq' = cons.r + Len(cons.taken)
        /\ popped' = popped \o cons.taken
        /\ cons' = [pc |-> "idle", op |-> "pop", max |-> 0, r |-> 0, count |-> 0,
                    header |-> NoPair, data |-> NoPair, taken |-> cons.taken, rc |-> cons.rc]
        /\ UNCHANGED <<callback, visIn, visOut, analysed, write_seq, slot_state,
                       slot_header, slot_data, prod, detect, pushed>>
    BY DEF DetectPopping, Uv!PopPublish, Uv!Cursor, Uv!ConsIdle
  <1>2. cons.rc = 0 /\ cons.r = 0 /\ Len(cons.taken) = 1
    BY <1>1 DEF IInv, Popping
  <1>3. read_seq' = 1
    BY <1>1, <1>2
  <1>4. TypeOK'
    <2>1. cons.taken \in Seq(Uv!Copies) /\ NoPair \in Uv!Memory
      BY DEF Uv!ConsRecord, Uv!Memory
    <2>2. cons' \in Uv!ConsRecord
      BY <1>1, <1>2, <2>1 DEF Uv!ConsRecord
    <2>3. popped' \in Seq(Uv!Copies)
      BY <1>1, <2>1 DEF IInv, TypeOK, Uv!TypeOK
    <2>. QED
      BY <1>1, <1>3, <2>2, <2>3 DEF IInv, TypeOK, Uv!TypeOK, UvHoldsOne
  <1>5. Popping'
    BY <1>1, <1>2, <1>3, PopFrame DEF IInv, Popping, Reading, NewHeader, NewData
  <1>6. Bounded' /\ Unread'
    BY <1>1, <1>3, PopFrame DEF IInv, Bounded, Unread
  <1>7. Undisturbed'
    BY <1>1 DEF IInv, Undisturbed, Reading
  <1>. QED
    BY <1>1, <1>4, <1>5, <1>6, <1>7, PopFrame DEF IInv

\* The check after both pops, with a frame that is analysed or without.
LEMMA CheckStep == ASSUME IInv, DetectCheck PROVE IInv'
  <1>. /\ detect \in [pc : {"pop_vis", "pop_uv", "popping"}, vis : 0..MaxPairs, reset : BOOLEAN]
       /\ visOut \in Seq(Pairs)
       /\ analysed \in Seq([vis : Pairs, header : Uv!Memory, data : Uv!Memory, reset : BOOLEAN])
       /\ MaxPairs \in Nat \ {0} /\ Numbers
    BY PipelineAssumption, Typed DEF IInv, TypeOK
  <1>. DEFINE entry == [vis |-> detect.vis, header |-> cons.taken[1].header,
                        data |-> cons.taken[1].data, reset |-> detect.reset]
  <1>1. /\ detect.pc = "popping" /\ cons.pc = "idle"
        /\ detect' = [pc |-> "pop_vis", vis |-> NoPair, reset |-> FALSE]
        /\ UNCHANGED <<callback, visIn, visOut, uvVars>>
    BY DEF DetectCheck
  <1>2. \/ cons.rc = 0 /\ analysed' = Append(analysed, entry)
        \/ analysed' = analysed
    BY DEF DetectCheck
  <1>3. Stages' /\ VisibleOrder'
    BY <1>1 DEF IInv, Stages, Pushing, VisibleOrder, uvVars
  <1>4. Newest' = Newest /\ Pushing' = Pushing /\ ~Reading'
    BY <1>1 DEF Newest, Pushing, Reading, uvVars
  <1>5. Popping' /\ Undisturbed'
    BY <1>1, <1>4 DEF IInv, Popping, Undisturbed, Reading, uvVars
  <1>6. detect' \in [pc : {"pop_vis", "pop_uv", "popping"}, vis : 0..MaxPairs, reset : BOOLEAN]
    BY <1>1 DEF NoPair
  <1>7. visOut # <<>> /\ detect.vis = visOut[Len(visOut)] /\ Len(visOut) \in 1..Len(visOut)
    BY <1>1 DEF IInv, VisibleTaken
  <1>8. CASE analysed' = analysed
    <2>1. TypeOK'
      BY <1>1, <1>6, <1>8 DEF IInv, TypeOK, Uv!TypeOK, UvHoldsOne, uvVars
    <2>2. VisibleTaken'
      BY <1>1, <1>8 DEF IInv, VisibleTaken
    <2>3. Bounded' /\ Unread'
      BY <1>1, <1>4, <1>8 DEF IInv, Bounded, Unread, Untaken, uvVars
    <2>. QED
      BY <1>3, <1>5, <1>8, <2>1, <2>2, <2>3, Histories DEF IInv
  <1>9. CASE cons.rc = 0 /\ analysed' = Append(analysed, entry)
    <2>1. /\ Len(cons.taken) = 1
          /\ NewHeader(cons.taken[1].header) /\ NewData(cons.taken[1].data)
      BY <1>1, <1>9 DEF IInv, Popping
    <2>2. /\ cons.taken[1] \in Uv!Copies /\ detect.vis \in Pairs
      <3>1. cons.taken \in Seq(Uv!Copies)
        BY DEF IInv, TypeOK, Uv!TypeOK, Uv!ConsRecord
      <3>. QED
        BY <1>7, <2>1, <3>1
    <2>3. entry \in [vis : Pairs, header : Uv!Memory, data : Uv!Memory, reset : BOOLEAN]
      BY <2>2 DEF Uv!Copies
    <2>4. /\ entry.vis = detect.vis /\ entry.header = cons.taken[1].header
          /\ entry.data = cons.taken[1].data /\ entry.reset = detect.reset
      OBVIOUS
    <2>. HIDE DEF entry
    <2>5. /\ analysed' \in Seq([vis : Pairs, header : Uv!Memory, data : Uv!Memory, reset : BOOLEAN])
          /\ Len(analysed') = Len(analysed) + 1
          /\ \A i \in 1..Len(analysed) : analysed'[i] = analysed[i]
          /\ analysed'[Len(analysed) + 1] = entry
      BY <1>9, <2>3
    <2>6. \A i \in 1..Len(analysed') : i \in 1..Len(analysed) \/ i = Len(analysed) + 1
      BY <2>5 DEF Numbers
    <2>7. TypeOK'
      BY <1>1, <1>6, <2>5 DEF IInv, TypeOK, Uv!TypeOK, UvHoldsOne, uvVars
    <2>8. VisibleTaken'
      <3>1. ASSUME NEW i \in 1..Len(analysed') PROVE \E j \in 1..Len(visOut) : visOut[j] = analysed'[i].vis
        <4>1. CASE i \in 1..Len(analysed)
          BY <2>5, <4>1 DEF IInv, VisibleTaken
        <4>2. CASE i = Len(analysed) + 1
          BY <1>7, <2>4, <2>5, <4>2
        <4>. QED
          BY <2>6, <4>1, <4>2
      <3>. QED
        BY <1>1, <3>1 DEF VisibleTaken
    <2>9. Bounded' /\ Unread'
      <3>1. entry.header <= Newest /\ entry.data <= Newest
        BY <2>1, <2>4 DEF NewHeader, NewData
      <3>2. \A i \in 1..Len(analysed') : analysed'[i].header <= Newest /\ analysed'[i].data <= Newest
        BY <2>5, <2>6, <3>1 DEF IInv, Bounded
      <3>3. Bounded'
        BY <1>1, <1>4, <3>2 DEF IInv, Bounded, uvVars
      <3>4. ASSUME NEW h, NEW d, Untaken(h, d)
            PROVE  \A i \in 1..Len(analysed') : analysed'[i].header < h /\ analysed'[i].data < d
        <4>1. \A i \in 1..Len(analysed) : analysed[i].header < h /\ analysed[i].data < d
          BY <3>4 DEF Untaken
        <4>2. entry.header < h /\ entry.data < d
          BY <1>1, <2>1, <2>4, <3>4 DEF Untaken
        <4>. QED
          BY <2>5, <2>6, <4>1, <4>2
      <3>5. ASSUME NEW h, NEW d, Untaken(h, d)
            PROVE  /\ \A i \in 1..Len(analysed') : analysed'[i].header < h /\ analysed'[i].data < d
                   /\ \A i \in 1..Len(cons.taken) : cons.taken[i].header < h /\ cons.taken[i].data < d
        BY <1>1, <3>4, <3>5 DEF Untaken
      <3>6. Unread'
        <4>1. /\ Untaken(prod.frame, prod.frame) => Untaken(prod.frame, prod.frame)'
              /\ Untaken(slot_header[0], slot_data[0]) => Untaken(slot_header[0], slot_data[0])'
          BY <1>1, <3>5 DEF Untaken, uvVars
        <4>. QED
          BY <1>1, <1>4, <4>1 DEF IInv, Unread, uvVars
      <3>. QED
        BY <3>3, <3>6
    <2>10. UvNeverStale'
      <3>1. entry.vis <= entry.header /\ entry.vis <= entry.data
        BY <2>1, <2>4 DEF NewHeader, NewData
      <3>. QED
        BY <2>5, <2>6, <3>1 DEF IInv, UvNeverStale
    <2>11. AnalysedOnce'
      <3>1. \A i \in 1..Len(analysed) :
              analysed[i].header < entry.header /\ analysed[i].data < entry.data
        BY <2>1, <2>4 DEF NewHeader, NewData
      <3>2. ASSUME NEW i \in 1..Len(analysed) PROVE analysed[i].vis < entry.vis
        <4>1. PICK j \in 1..Len(visOut) : visOut[j] = analysed[i].vis /\ j < Len(visOut)
          BY <1>1 DEF IInv, VisibleTaken
        <4>2. visOut[j] < visOut[Len(visOut)]
          <5>1. /\ j \in 1..Len(visIn) /\ Len(visOut) \in 1..Len(visIn)
                /\ visOut[j] = visIn[j] /\ visOut[Len(visOut)] = visIn[Len(visOut)]
            BY <1>7 DEF IInv, VisibleOrder, Numbers
          <5>. QED
            BY <4>1, <5>1 DEF IInv, VisibleOrder
        <4>. QED
          BY <1>7, <2>4, <4>1, <4>2
      <3>3. ASSUME NEW i \in 2..Len(analysed')
            PROVE  /\ analysed'[i - 1].vis < analysed'[i].vis
                   /\ analysed'[i - 1].header < analysed'[i].header
                   /\ analysed'[i - 1].data < analysed'[i].data
        <4>1. i - 1 \in 1..Len(analysed) /\ (i \in 2..Len(analysed) \/ i = Len(analysed) + 1)
          BY <2>5 DEF Numbers
        <4>2. CASE i \in 2..Len(analysed)
          <5>1. i \in 1..Len(analysed)
            BY <4>2 DEF Numbers
          <5>. QED
            BY <2>5, <4>1, <4>2, <5>1 DEF IInv, AnalysedOnce
        <4>3. CASE i = Len(analysed) + 1
          BY <2>5, <3>1, <3>2, <4>1, <4>3
        <4>. QED
          BY <4>1, <4>2, <4>3
      <3>. QED
        BY <3>3 DEF AnalysedOnce
    <2>12. TornOnlyByReset'
      <3>1. entry.header # entry.data => entry.reset
        BY <1>1, <1>9, <2>4 DEF IInv, Undisturbed
      <3>. QED
        BY <2>5, <2>6, <3>1 DEF IInv, TornOnlyByReset
    <2>. QED
      BY <1>3, <1>5, <2>7, <2>8, <2>9, <2>10, <2>11, <2>12 DEF IInv
  <1>. QED
    BY <1>2, <1>8, <1>9
-----------------------------------------------------------------------------
LEMMA InitStep == Init => IInv
  <1>. SUFFICES ASSUME Init PROVE IInv
    OBVIOUS
  <1>1. /\ callback = [pc |-> "idle", pair |-> 0]
        /\ visIn = <<>> /\ visOut = <<>> /\ analysed = <<>>
        /\ detect = [pc |-> "pop_vis", vis |-> NoPair, reset |-> FALSE]
        /\ write_seq = 0 /\ read_seq = 0
        /\ slot_state = [i \in Uv!Slots |-> "FREE"]
        /\ slot_header = [i \in Uv!Slots |-> NoPair] /\ slot_data = [i \in Uv!Slots |-> NoPair]
        /\ prod = [pc |-> "idle", w |-> 0, frame |-> NoPair, rc |-> 0]
        /\ cons = [pc |-> "idle", op |-> "pop", max |-> 0, r |-> 0, count |-> 0,
                   header |-> NoPair, data |-> NoPair, taken |-> <<>>, rc |-> 0]
        /\ pushed = <<>> /\ popped = <<>>
    BY DEF Init, Vis!Init, Uv!Init, Uv!ProdIdle, Uv!ConsIdle
  <1>2. Uv!TypeOK
    <2>1. <<>> \in Seq(Uv!Copies) /\ <<>> \in Seq(Uv!Items) /\ NoPair \in Uv!Memory
      BY DEF Uv!Memory
    <2>2. prod \in Uv!ProdRecord
      BY <1>1, <2>1 DEF Uv!ProdRecord
    <2>3. cons \in Uv!ConsRecord
      BY <1>1, <2>1 DEF Uv!ConsRecord
    <2>. QED
      BY <1>1, <2>1, <2>2, <2>3 DEF Uv!TypeOK
  <1>3. TypeOK
    <2>1. UvHoldsOne
      BY <1>1, PipelineAssumption DEF UvHoldsOne, Uv!Slots
    <2>2. /\ callback \in [pc : {"idle", "create", "push_uv", "pushing"}, pair : 0..MaxPairs]
          /\ detect \in [pc : {"pop_vis", "pop_uv", "popping"}, vis : 0..MaxPairs, reset : BOOLEAN]
      BY <1>1, PipelineAssumption DEF NoPair
    <2>. QED
      BY <1>1, <1>2, <2>1, <2>2 DEF TypeOK
  <1>4. slot_header[0] = 0 /\ slot_data[0] = 0 /\ Newest = 0
    BY <1>1, FirstSlot DEF Newest, NoPair
  <1>5. Stages /\ VisibleOrder /\ VisibleTaken
    BY <1>1 DEF Stages, Pushing, VisibleOrder, VisibleTaken
  <1>6. Popping /\ Bounded
    BY <1>1, <1>4 DEF Popping, Reading, Bounded
  <1>7. Unread /\ Undisturbed
    BY <1>1 DEF Unread, Pushing, Undisturbed
  <1>8. UvNeverStale /\ AnalysedOnce /\ TornOnlyByReset
    BY <1>1 DEF UvNeverStale, AnalysedOnce, TornOnlyByReset
  <1>. QED
    BY <1>3, <1>5, <1>6, <1>7, <1>8 DEF IInv

\* One step of the callback, of the detection thread, or of neither.
LEMMA NextStep == IInv /\ [Next]_vars => IInv'
  <1>. SUFFICES ASSUME IInv, [Next]_vars PROVE IInv'
    OBVIOUS
  <1>1. CASE CallbackCreate
    BY <1>1, CreateStep
  <1>2. CASE CallbackNoQueue
    BY <1>2, NoQueueStep
  <1>3. CASE CallbackReset
    BY <1>3, ResetStep
  <1>4. CASE CallbackPushVis
    BY <1>4, PushVisStep
  <1>5. CASE CallbackPushUv
    BY <1>5, PushUvStep
  <1>6. CASE CallbackPushing
    BY <1>6, PushQuietStep, PushCopyStep, PublishStep DEF CallbackPushing, Uv!PushSteps
  <1>7. CASE CallbackReturn
    BY <1>7, ReturnStep
  <1>8. CASE DetectPopVis
    BY <1>8, PopVisStep
  <1>9. CASE DetectPopUv
    BY <1>9, PopUvStep
  <1>10. CASE DetectPopping
    BY <1>10, PopLoadStep, PopCasStep, PopCopyStep, PopFreeStep, PopPublishStep
       DEF DetectPopping, Uv!PopSteps
  <1>11. CASE DetectCheck
    BY <1>11, CheckStep
  <1>12. CASE DetectSleep \/ UNCHANGED vars
    <2>1. UNCHANGED <<callback, visIn, visOut, analysed, write_seq, slot_header, slot_data, prod,
                      detect, read_seq, slot_state, cons, pushed, popped>>
      BY <1>12 DEF DetectSleep, vars, uvVars
    <2>2. TypeOK'
      BY <2>1 DEF IInv, TypeOK, Uv!TypeOK, UvHoldsOne
    <2>3. Popping' /\ Bounded'
      BY <2>1, PopFrame DEF IInv, Popping, Reading, NewHeader, NewData, Bounded
    <2>4. Unread' /\ Undisturbed'
      BY <2>1, PopFrame DEF IInv, Reading, Unread, Untaken, Undisturbed
    <2>. QED
      BY <2>1, <2>2, <2>3, <2>4, PopFrame DEF IInv
  <1>. QED
    BY <1>1, <1>2, <1>3, <1>4, <1>5, <1>6, <1>7, <1>8, <1>9, <1>10, <1>11, <1>12
       DEF Next, Callback, Detect

\* The callback and the detection thread, whatever they interleave like and
\* wherever a reset interrupts a pop, keep the invariant.
THEOREM Invariance == Spec => []IInv
  <1>1. Init => IInv
    BY InitStep
  <1>2. IInv /\ [Next]_vars => IInv'
    BY NextStep
  <1>. QED
    BY <1>1, <1>2, PTL DEF Spec

\* The types of both threads' state, and the single slot that is ever used,
\* for queues of every capacity.
THEOREM TypeCorrect == Spec => []TypeOK
  <1>1. IInv => TypeOK
    BY DEF IInv
  <1>. QED
    BY <1>1, Invariance, PTL

\* stream_detect_loop never analyses a visible frame with an ultraviolet
\* frame of an earlier pair.
THEOREM UvNeverStaleAlways == Spec => []UvNeverStale
  <1>1. IInv => UvNeverStale
    BY DEF IInv
  <1>. QED
    BY <1>1, Invariance, PTL

\* stream_detect_loop analyses no visible frame and no ultraviolet frame
\* twice, and all in the order of their pairs, in spite of the resets.
THEOREM AnalysedOnceAlways == Spec => []AnalysedOnce
  <1>1. IInv => AnalysedOnce
    BY DEF IInv
  <1>. QED
    BY <1>1, Invariance, PTL

\* Only CreateFrameQueue in the middle of a pop gives the detector the
\* pixels of one frame under the header of another.
THEOREM TornOnlyByResetAlways == Spec => []TornOnlyByReset
  <1>1. IInv => TornOnlyByReset
    BY DEF IInv
  <1>. QED
    BY <1>1, Invariance, PTL

\* The callback and the detection thread use the visible queue as its abstract
\* specification says, which the shared-memory ring implements: so BoundedFifo
\* may stand for it here.
THEOREM VisibleQueue == Spec => Vis!Spec
  <1>1. Init => Vis!Init
    BY DEF Init
  <1>2. IInv /\ [Next]_vars => [Vis!Next]_(Vis!fifoVars)
    <2>. SUFFICES ASSUME IInv, [Next]_vars PROVE Vis!Next \/ UNCHANGED <<visIn, visOut>>
      BY DEF Vis!fifoVars
    <2>1. CASE CallbackPushVis
      <3>1. callback.pair \in Pairs
        BY <2>1 DEF CallbackPushVis, IInv, Stages
      <3>. QED
        BY <2>1, <3>1 DEF CallbackPushVis, Vis!Next
    <2>2. CASE DetectPopVis
      <3>1. Vis!Get(1) /\ 1 <= Vis!Waiting
        BY <2>2 DEF DetectPopVis, Vis!Get
      <3>2. Vis!Waiting \in Int
        BY Elements DEF IInv, TypeOK, Vis!Waiting
      <3>3. 1 \in 1..Vis!Waiting
        BY <3>1, <3>2
      <3>. QED
        BY <3>1, <3>3 DEF Vis!Next
    <2>. QED
      BY <2>1, <2>2
         DEF Next, Callback, Detect, vars, CallbackCreate, CallbackNoQueue, CallbackReset,
             CallbackPushUv, CallbackPushing, CallbackReturn, DetectSleep, DetectPopUv,
             DetectPopping, DetectCheck
  <1>. QED
    BY <1>1, <1>2, Invariance, PTL DEF Spec, Vis!Spec
=============================================================================
