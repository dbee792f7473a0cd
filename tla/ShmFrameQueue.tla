---------------------------- MODULE ShmFrameQueue ----------------------------
(***************************************************************************)
(* The shared-memory ring of frames between the Go ingest side and the C++ *)
(* detection thread (cpp/src/shm_frame_queue.cpp): Capacity slots, each    *)
(* with an atomic state, and two sequence counters.  One producer and one  *)
(* consumer thread; every atomic operation and every copy is a step of its *)
(* own, so the two threads interleave as the hardware lets them.  The      *)
(* acquire/release pairs of the code make the sequentially consistent      *)
(* interleavings modelled here the ones that matter.                       *)
(*                                                                         *)
(* A frame is copied in two steps, header then pixels, so that a copy that *)
(* mixes two frames can be told from a whole one.                          *)
(***************************************************************************)
EXTENDS Integers, Sequences

CONSTANTS
  Capacity,   \* SHM_QUEUE_CAPACITY
  Frames,     \* the frames a producer may push
  NoFrame,    \* content of memory no frame was copied to yet
  MaxBatch,   \* largest max_count of a shm_queue_pop_batch call
  MaxWrites   \* bound: frames published in a behaviour

ASSUME QueueAssumption ==
  /\ Capacity \in Nat \ {0}
  /\ MaxBatch \in Nat \ {0}
  /\ MaxWrites \in Nat
  /\ NoFrame \notin Frames

VARIABLES
  write_seq, read_seq,                  \* the two atomic counters
  slot_state, slot_header, slot_data,   \* the slots, by index
  prod,      \* the producer's call in progress: pc and locals
  cons,      \* the consumer's call in progress: pc and locals
  pushed,    \* history: the frames published, in order
  popped     \* history: the frames handed to the consumer, in order

shared == <<write_seq, read_seq, slot_state, slot_header, slot_data>>
vars   == <<shared, prod, cons, pushed, popped>>

Slots    == 0..(Capacity - 1)
Idx(seq) == seq % Capacity
Memory   == Frames \cup {NoFrame}

\* The frame f with header and pixels that belong together.
Whole(f) == [header |-> f, data |-> f]
Items    == {Whole(f) : f \in Frames}

\* What a consumer's copy of a slot can be.
Copies == [header : Memory, data : Memory]

\* Return codes: 0 done, -2 full or empty, -3 slot not in the expected state,
\* -4 device copy failed.
ProdIdle(rc) == [pc |-> "idle", w |-> 0, frame |-> NoFrame, rc |-> rc]
ConsIdle(rc, taken) ==
  [pc |-> "idle", op |-> "pop", max |-> 0, r |-> 0, count |-> 0,
   header |-> NoFrame, data |-> NoFrame, taken |-> taken, rc |-> rc]

\* The sequence number the consumer's call is working on.
Cursor == cons.r + Len(cons.taken)

Min2(a, b) == IF a < b THEN a ELSE b

Init ==
  /\ write_seq = 0
  /\ read_seq = 0
  /\ slot_state = [i \in Slots |-> "FREE"]
  /\ slot_header = [i \in Slots |-> NoFrame]
  /\ slot_data = [i \in Slots |-> NoFrame]
  /\ prod = ProdIdle(0)
  /\ cons = ConsIdle(0, <<>>)
  /\ pushed = <<>>
  /\ popped = <<>>

\* Mutant: one frame more than there are slots.
PushFull(f) ==
  /\ prod.pc = "idle"
  /\ prod' = IF write_seq - read_seq > Capacity
             THEN ProdIdle(-2)
             ELSE [pc |-> "cas", w |-> write_seq, frame |-> f, rc |-> 0]
  /\ UNCHANGED <<shared, cons, pushed, popped>>
-----------------------------------------------------------------------------
(***************************************************************************)
(* shm_queue_push and shm_queue_push_gpu.  write_seq is stored by this     *)
(* thread only, so its load needs no step of its own.                      *)
(***************************************************************************)
Push(f) ==
  /\ prod.pc = "idle"
  /\ prod' = IF write_seq - read_seq >= Capacity
             THEN ProdIdle(-2)
             ELSE [pc |-> "cas", w |-> write_seq, frame |-> f, rc |-> 0]
  /\ UNCHANGED <<shared, cons, pushed, popped>>

PushCas ==
  /\ prod.pc = "cas"
  /\ LET i == Idx(prod.w) IN
       \/ /\ slot_state[i] = "FREE"
          /\ slot_state' = [slot_state EXCEPT ![i] = "WRITING"]
          /\ prod' = [prod EXCEPT !.pc = "header"]
       \/ /\ slot_state[i] # "FREE"
          /\ prod' = ProdIdle(-3)
          /\ UNCHANGED slot_state
  /\ UNCHANGED <<write_seq, read_seq, slot_header, slot_data, cons, pushed, popped>>

\* Mutant: the pixels are not copied.
PushHeaderOnly ==
  /\ prod.pc = "header"
  /\ slot_header' = [slot_header EXCEPT ![Idx(prod.w)] = prod.frame]
  /\ prod' = [prod EXCEPT !.pc = "ready"]
  /\ UNCHANGED <<write_seq, read_seq, slot_state, slot_data, cons, pushed, popped>>

PushHeader ==
  /\ prod.pc = "header"
  /\ slot_header' = [slot_header EXCEPT ![Idx(prod.w)] = prod.frame]
  /\ prod' = [prod EXCEPT !.pc = "data"]
  /\ UNCHANGED <<write_seq, read_seq, slot_state, slot_data, cons, pushed, popped>>

PushData ==
  /\ prod.pc = "data"
  /\ slot_data' = [slot_data EXCEPT ![Idx(prod.w)] = prod.frame]
  /\ prod' = [prod EXCEPT !.pc = "ready"]
  /\ UNCHANGED <<write_seq, read_seq, slot_state, slot_header, cons, pushed, popped>>

\* Mutant: the slot is not given back.
PushGpuFailKeepsSlot ==
  /\ prod.pc = "data"
  /\ prod' = ProdIdle(-4)
  /\ UNCHANGED <<shared, cons, pushed, popped>>

\* Only shm_queue_push_gpu: cudaMemcpyAsync fails and the slot is given back.
PushGpuFail ==
  /\ prod.pc = "data"
  /\ slot_state' = [slot_state EXCEPT ![Idx(prod.w)] = "FREE"]
  /\ prod' = ProdIdle(-4)
  /\ UNCHANGED <<write_seq, read_seq, slot_header, slot_data, cons, pushed, popped>>

PushReady ==
  /\ prod.pc = "ready"
  /\ slot_state' = [slot_state EXCEPT ![Idx(prod.w)] = "READY"]
  /\ prod' = [prod EXCEPT !.pc = "publish"]
  /\ UNCHANGED <<write_seq, read_seq, slot_header, slot_data, cons, pushed, popped>>

PushPublish ==
  /\ prod.pc = "publish"
  /\ write_seq' = prod.w + 1
  /\ pushed' = Append(pushed, Whole(prod.frame))
  /\ prod' = ProdIdle(0)
  /\ UNCHANGED <<read_seq, slot_state, slot_header, slot_data, cons, popped>>
-----------------------------------------------------------------------------
(***************************************************************************)
(* shm_queue_pop and shm_queue_pop_batch.  A pop is a batch of one, except *)
(* that it returns -2 when nothing waits and -3 when the slot is not READY *)
(* without storing read_seq; a batch stores it on every path.              *)
(***************************************************************************)
Pop(op, max) ==
  /\ cons.pc = "idle"
  /\ cons' = [ConsIdle(0, <<>>) EXCEPT !.pc = "load", !.op = op, !.max = max,
                                       !.r = read_seq]
  /\ UNCHANGED <<shared, prod, pushed, popped>>

\* Mutant: the last frame that waits is left.
PopLoadKeepsOne ==
  /\ cons.pc = "load"
  /\ LET available == write_seq - cons.r IN
       cons' = IF available > 1
               THEN [cons EXCEPT !.pc = "cas", !.count = Min2(available - 1, cons.max)]
               ELSE IF cons.op = "pop" THEN ConsIdle(-2, <<>>)
                    ELSE [cons EXCEPT !.pc = "publish"]
  /\ UNCHANGED <<shared, prod, pushed, popped>>

PopLoad ==
  /\ cons.pc = "load"
  /\ LET available == write_seq - cons.r IN
       cons' = IF available > 0
               THEN [cons EXCEPT !.pc = "cas", !.count = Min2(available, cons.max)]
               ELSE IF cons.op = "pop" THEN ConsIdle(-2, <<>>)
                    ELSE [cons EXCEPT !.pc = "publish"]
  /\ UNCHANGED <<shared, prod, pushed, popped>>

\* Mutant: the slot and its sequence number are given back before the copy.
PopCasReleases ==
  /\ cons.pc = "cas"
  /\ slot_state[Idx(Cursor)] = "READY"
  /\ slot_state' = [slot_state EXCEPT ![Idx(Cursor)] = "FREE"]
  /\ read_seq' = Cursor + 1
  /\ cons' = [cons EXCEPT !.pc = "header"]
  /\ UNCHANGED <<write_seq, slot_header, slot_data, prod, pushed, popped>>

PopCas ==
  /\ cons.pc = "cas"
  /\ LET i == Idx(Cursor) IN
       \/ /\ slot_state[i] = "READY"
          /\ slot_state' = [slot_state EXCEPT ![i] = "READING"]
          /\ cons' = [cons EXCEPT !.pc = "header"]
       \/ /\ slot_state[i] # "READY"
          /\ cons' = IF cons.op = "pop" THEN ConsIdle(-3, <<>>)
                     ELSE [cons EXCEPT !.pc = "publish", !.rc = -3]
          /\ UNCHANGED slot_state
  /\ UNCHANGED <<write_seq, read_seq, slot_header, slot_data, prod, pushed, popped>>

PopHeader ==
  /\ cons.pc = "header"
  /\ cons' = [cons EXCEPT !.pc = "data", !.header = slot_header[Idx(Cursor)]]
  /\ UNCHANGED <<shared, prod, pushed, popped>>

PopData ==
  /\ cons.pc = "data"
  /\ cons' = [cons EXCEPT !.pc = "free", !.data = slot_data[Idx(Cursor)]]
  /\ UNCHANGED <<shared, prod, pushed, popped>>

PopFree ==
  /\ cons.pc = "free"
  /\ slot_state' = [slot_state EXCEPT ![Idx(Cursor)] = "FREE"]
  /\ cons' = [cons EXCEPT
                !.pc = IF Len(cons.taken) + 1 < cons.count THEN "cas" ELSE "publish",
                !.taken = Append(cons.taken,
                                 [header |-> cons.header, data |-> cons.data])]
  /\ UNCHANGED <<write_seq, read_seq, slot_header, slot_data, prod, pushed, popped>>

\* The rc a batch that stopped early carries is the model's record of the
\* failed exchange; the code returns 0 and a short count.
PopPublish ==
  /\ cons.pc = "publish"
  /\ read_seq' = Cursor
  /\ popped' = popped \o cons.taken
  /\ cons' = ConsIdle(cons.rc, cons.taken)
  /\ UNCHANGED <<write_seq, slot_state, slot_header, slot_data, prod, pushed>>
-----------------------------------------------------------------------------
(***************************************************************************)
(* shm_queue_create on a key whose segment is already in use maps the same *)
(* memory again and stores zero to both counters and FREE to every slot,   *)
(* one store after the other.  The thread that creates is the one that     *)
(* pushes (cmd/arcvision/main.go), so its steps use the producer's pc, and *)
(* prod.w holds the index of the next slot to store.                       *)
(***************************************************************************)
Create ==
  /\ prod.pc = "idle"
  /\ write_seq' = 0
  /\ prod' = [ProdIdle(0) EXCEPT !.pc = "create_read"]
  /\ UNCHANGED <<read_seq, slot_state, slot_header, slot_data, cons, pushed, popped>>

CreateReadSeq ==
  /\ prod.pc = "create_read"
  /\ read_seq' = 0
  /\ prod' = [prod EXCEPT !.pc = "create_slot"]
  /\ UNCHANGED <<write_seq, slot_state, slot_header, slot_data, cons, pushed, popped>>

CreateSlot ==
  /\ prod.pc = "create_slot"
  /\ slot_state' = [slot_state EXCEPT ![prod.w] = "FREE"]
  /\ prod' = IF prod.w + 1 < Capacity THEN [prod EXCEPT !.w = @ + 1] ELSE ProdIdle(0)
  /\ UNCHANGED <<write_seq, read_seq, slot_header, slot_data, cons, pushed, popped>>

CreateSteps == CreateReadSeq \/ CreateSlot
-----------------------------------------------------------------------------
PushSteps == PushCas \/ PushHeader \/ PushData \/ PushReady \/ PushPublish
PopSteps  == PopLoad \/ PopCas \/ PopHeader \/ PopData \/ PopFree \/ PopPublish

Producer ==
  \/ \E f \in Frames : Len(pushed) < MaxWrites /\ Push(f)
  \/ PushSteps
  \/ PushGpuFail

Consumer ==
  \/ Pop("pop", 1)
  \/ \E max \in 1..MaxBatch : Pop("batch", max)
  \/ PopSteps

\* The queue as it is meant to be used: created once, before either thread.
Next == Producer \/ Consumer

Spec == Init /\ [][Next]_vars

\* The detection thread polls for ever, and a call that was started runs on.
FairSpec == Spec /\ WF_vars(PushSteps \/ PushGpuFail) /\ WF_vars(Consumer)
-----------------------------------------------------------------------------
ProdRecord ==
  [pc : {"idle", "cas", "header", "data", "ready", "publish",
         "create_read", "create_slot"},
   w : Nat, frame : Memory, rc : {0, -2, -3, -4}]

ConsRecord ==
  [pc : {"idle", "load", "cas", "header", "data", "free", "publish"},
   op : {"pop", "batch"}, max : Nat, r : Nat, count : Nat,
   header : Memory, data : Memory, taken : Seq(Copies),
   rc : {0, -2, -3}]

\* The types of the shared memory and of the two threads' locals.
TypeOK ==
  /\ write_seq \in Nat
  /\ read_seq \in Nat
  /\ slot_state \in [Slots -> {"FREE", "WRITING", "READY", "READING"}]
  /\ slot_header \in [Slots -> Memory]
  /\ slot_data \in [Slots -> Memory]
  /\ prod \in ProdRecord
  /\ cons \in ConsRecord
  /\ pushed \in Seq(Items)
  /\ popped \in Seq(Copies)

Writing == prod.pc \in {"header", "data", "ready"}
Reading == cons.pc \in {"header", "data", "free"}

\* A slot is never copied into by shm_queue_push while shm_queue_pop copies
\* out of it, whatever the two threads' calls interleave like.
SlotExclusive == Writing /\ Reading => Idx(prod.w) # Idx(Cursor)

\* With one producer and one consumer neither compare-exchange ever fails:
\* the counters alone keep the threads on different slots, so no frame is
\* refused with -3 and no batch is cut short.
NeverContended == prod.rc # -3 /\ cons.rc # -3

\* The frames the consumer was handed are the first ones published, whole
\* and in order; at most Capacity frames wait.
Fifo == INSTANCE BoundedFifo WITH accepted <- pushed, delivered <- popped
ImplementsFifo == Fifo!Spec

\* Every frame that was published reaches the consumer as long as the
\* detection thread keeps polling.
EveryFrameDelivered ==
  \A n \in 1..MaxWrites : Len(pushed) >= n ~> Len(popped) >= n
-----------------------------------------------------------------------------
(***************************************************************************)
(* The inductive invariant: what each slot holds at every point of the two *)
(* calls, and how the counters, the locals and the histories relate.       *)
(***************************************************************************)

\* The oldest sequence number whose slot is not yet given back.
Oldest == IF cons.pc = "idle" THEN read_seq ELSE Cursor

\* The state of the slot of sequence number s, read_seq <= s < read_seq + Capacity.
ExpectedState(s) ==
  IF s < Oldest THEN "FREE"
  ELSE IF s = Oldest /\ Reading THEN "READING"
  ELSE IF s < write_seq THEN "READY"
  ELSE IF s = write_seq /\ Writing THEN "WRITING"
  ELSE IF s = write_seq /\ prod.pc = "publish" THEN "READY"
  ELSE "FREE"

CountersInv ==
  /\ read_seq <= write_seq
  /\ write_seq <= read_seq + Capacity

ProdInv ==
  /\ prod.pc \notin {"create_read", "create_slot"}
  /\ prod.pc # "idle" =>
       /\ prod.w = write_seq
       /\ prod.frame \in Frames
       /\ write_seq < read_seq + Capacity
  /\ prod.pc \in {"data", "ready", "publish"} => slot_header[Idx(prod.w)] = prod.frame
  /\ prod.pc \in {"ready", "publish"} => slot_data[Idx(prod.w)] = prod.frame

ConsInv ==
  /\ cons.pc # "idle" =>
       /\ cons.r = read_seq
       /\ cons.r + cons.count <= write_seq
       /\ Len(cons.taken) <= cons.count
       /\ \A i \in 1..Len(cons.taken) : cons.taken[i] = pushed[read_seq + i]
  /\ cons.pc = "load" => cons.taken = <<>> /\ cons.count = 0 /\ cons.max > 0
  /\ cons.pc \in {"cas", "header", "data", "free"} => Len(cons.taken) < cons.count
  /\ cons.pc \in {"data", "free"} => cons.header = pushed[Cursor + 1].header
  /\ cons.pc = "free" => cons.data = pushed[Cursor + 1].data

SlotInv ==
  \A s \in read_seq..(read_seq + Capacity - 1) : slot_state[Idx(s)] = ExpectedState(s)

ContentInv ==
  \A s \in Oldest..(write_seq - 1) :
    /\ slot_header[Idx(s)] = pushed[s + 1].header
    /\ slot_data[Idx(s)] = pushed[s + 1].data

HistoryInv ==
  /\ Len(pushed) = write_seq
  /\ Len(popped) = read_seq
  /\ \A i \in 1..read_seq : popped[i] = pushed[i]

\* The inductive strengthening of SlotExclusive, NeverContended and the
\* refinement: the queue's slots hold exactly what the counters and the two
\* calls in progress say they hold.
IInv ==
  /\ TypeOK
  /\ CountersInv
  /\ ProdInv
  /\ ConsInv
  /\ SlotInv
  /\ ContentInv
  /\ HistoryInv
  /\ NeverContended
==============================================================================
