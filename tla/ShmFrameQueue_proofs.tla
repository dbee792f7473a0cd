------------------------ MODULE ShmFrameQueue_proofs ------------------------
(***************************************************************************)
(* Machine-checked proofs about the frame ring, for every Capacity,        *)
(* MaxBatch, MaxWrites and set of frames.                                  *)
(***************************************************************************)
EXTENDS ShmFrameQueue, SequenceTheorems, TLAPS

LEMMA DivMod ==
  ASSUME NEW a \in Nat
  PROVE  /\ a = Capacity * (a \div Capacity) + (a % Capacity)
         /\ a \div Capacity \in Int
         /\ a % Capacity \in Slots
  BY QueueAssumption, SMT DEF Slots

LEMMA MulMono ==
  ASSUME NEW p \in Int, NEW q \in Int, p < q
  PROVE  Capacity * p + Capacity <= Capacity * q
  BY QueueAssumption, SMT

LEMMA MulSucc ==
  ASSUME NEW q \in Int
  PROVE  Capacity * (q + 1) = Capacity * q + Capacity
  BY QueueAssumption, SMT

\* A sequence number and a slot index determine each other.
LEMMA IdxUnique ==
  ASSUME NEW a \in Nat, NEW k \in Int, NEW i \in Slots, a = Capacity * k + i
  PROVE  a % Capacity = i
<1> DEFINE q == a \div Capacity
           m == a % Capacity
<1>1. a = Capacity * q + m /\ q \in Int /\ m \in Slots
  BY DivMod
<1>2. SUFFICES m = i
  OBVIOUS
<1> HIDE DEF q, m
<1>3. q = k
  <2>1. CASE k < q
    <3>1. Capacity * k + Capacity <= Capacity * q
      BY <1>1, <2>1, MulMono
    <3> QED BY <3>1, <1>1, QueueAssumption DEF Slots
  <2>2. CASE q < k
    <3>1. Capacity * q + Capacity <= Capacity * k
      BY <1>1, <2>2, MulMono
    <3> QED BY <3>1, <1>1, QueueAssumption DEF Slots
  <2> QED BY <2>1, <2>2, <1>1
<1>4. a = Capacity * k + m
  BY <1>1, <1>3
<1> QED BY <1>1, <1>4, QueueAssumption DEF Slots

LEMMA IdxSlots ==
  ASSUME NEW s \in Nat
  PROVE  Idx(s) \in Slots
BY DivMod DEF Idx

\* Two sequence numbers less than Capacity apart use different slots.
LEMMA IdxDistinct ==
  ASSUME NEW a \in Nat, NEW b \in Nat, a # b, a < b + Capacity, b < a + Capacity
  PROVE  Idx(a) # Idx(b)
<1> DEFINE p == a \div Capacity
           q == b \div Capacity
           m == a % Capacity
           n == b % Capacity
<1>1. a = Capacity * p + m /\ p \in Int /\ m \in Slots
  BY DivMod
<1>2. b = Capacity * q + n /\ q \in Int /\ n \in Slots
  BY DivMod
<1>3. SUFFICES ASSUME m = n PROVE FALSE
  BY DEF Idx
<1> HIDE DEF p, q, m, n
<1>4. CASE p < q
  <2>1. Capacity * p + Capacity <= Capacity * q
    BY <1>1, <1>2, <1>4, MulMono
  <2> QED BY <2>1, <1>1, <1>2, <1>3, QueueAssumption DEF Slots
<1>5. CASE q < p
  <2>1. Capacity * q + Capacity <= Capacity * p
    BY <1>1, <1>2, <1>5, MulMono
  <2> QED BY <2>1, <1>1, <1>2, <1>3, QueueAssumption DEF Slots
<1>6. CASE p = q
  BY <1>1, <1>2, <1>3, <1>6
<1> QED BY <1>1, <1>2, <1>4, <1>5, <1>6

\* The slot of a sequence number comes round again Capacity numbers later.
LEMMA IdxShift ==
  ASSUME NEW s \in Nat
  PROVE  Idx(s + Capacity) = Idx(s)
<1> DEFINE q == s \div Capacity
           m == s % Capacity
<1>1. s = Capacity * q + m /\ q \in Int /\ m \in Slots
  BY DivMod
<1> HIDE DEF q, m
<1>2. s + Capacity \in Nat /\ q + 1 \in Int
  BY <1>1, QueueAssumption
<1>3. s + Capacity = Capacity * (q + 1) + m
  <2>1. Capacity * (q + 1) = Capacity * q + Capacity
    BY MulSucc, <1>1
  <2> QED BY <2>1, <1>1, QueueAssumption DEF Slots
<1>4. (s + Capacity) % Capacity = m
  BY <1>1, <1>2, <1>3, IdxUnique
<1> QED BY <1>4 DEF Idx, m
-----------------------------------------------------------------------------
LEMMA InitIInv == Init => IInv
<1> SUFFICES ASSUME Init PROVE IInv
  OBVIOUS
<1>1. TypeOK
  BY QueueAssumption
  DEF Init, TypeOK, ProdIdle, ConsIdle, ProdRecord, ConsRecord, Memory, Slots
<1>2. CountersInv /\ ProdInv /\ NeverContended /\ HistoryInv
  BY QueueAssumption
  DEF Init, CountersInv, ProdInv, NeverContended, HistoryInv, ProdIdle, ConsIdle
<1>3. ConsInv
  BY DEF Init, ConsInv, ConsIdle
<1>4. SlotInv
  BY IdxSlots, QueueAssumption
  DEF Init, SlotInv, ExpectedState, Oldest, ProdIdle, ConsIdle, Writing, Reading, Slots
<1>5. ContentInv
  BY DEF Init, ContentInv, Oldest, ConsIdle
<1> QED BY <1>1, <1>2, <1>3, <1>4, <1>5 DEF IInv
-----------------------------------------------------------------------------
\* What the inductive invariant says of the numbers the consumer works with.
LEMMA CursorFacts ==
  ASSUME IInv
  PROVE  /\ write_seq \in Nat /\ read_seq \in Nat /\ Capacity \in Nat \ {0}
         /\ read_seq <= write_seq /\ write_seq <= read_seq + Capacity
         /\ Len(cons.taken) \in Nat
         /\ Oldest \in Nat /\ read_seq <= Oldest /\ Oldest <= write_seq
         /\ cons.pc # "idle" => Oldest = Cursor /\ Cursor = read_seq + Len(cons.taken)
         /\ cons.pc \in {"cas", "header", "data", "free"} => Oldest < write_seq
<1>1. /\ write_seq \in Nat /\ read_seq \in Nat /\ Capacity \in Nat \ {0}
      /\ read_seq <= write_seq /\ write_seq <= read_seq + Capacity
  BY QueueAssumption DEF IInv, TypeOK, CountersInv
<1>2. Len(cons.taken) \in Nat /\ cons.count \in Nat /\ cons.r \in Nat
  BY DEF IInv, TypeOK, ConsRecord
<1>3. CASE cons.pc = "idle"
  BY <1>1, <1>2, <1>3 DEF Oldest
<1>4. CASE cons.pc # "idle"
  <2>1. /\ cons.r = read_seq
        /\ cons.r + cons.count <= write_seq
        /\ Len(cons.taken) <= cons.count
        /\ cons.pc \in {"cas", "header", "data", "free"} => Len(cons.taken) < cons.count
    BY <1>4 DEF IInv, ConsInv
  <2> QED BY <1>1, <1>2, <1>4, <2>1 DEF Oldest, Cursor
<1> QED BY <1>3, <1>4

LEMMA PushStep ==
  ASSUME IInv, NEW f \in Frames, Push(f)
  PROVE  IInv'
<1> USE DEF Push, ProdIdle, shared
<1>1. TypeOK'
  BY DEF IInv, TypeOK, ProdRecord, Memory
<1>2. CountersInv'
  BY DEF IInv, CountersInv
<1>3. ProdInv'
  BY CursorFacts DEF IInv, ProdInv
<1>4. ConsInv'
  BY DEF IInv, ConsInv, Cursor
<1>5. SlotInv'
  BY DEF IInv, SlotInv, ExpectedState, Oldest, Cursor, Writing, Reading
<1>6. ContentInv'
  BY DEF IInv, ContentInv, Oldest, Cursor
<1>7. HistoryInv'
  BY DEF IInv, HistoryInv
<1>8. NeverContended'
  BY DEF IInv, NeverContended
<1> QED BY <1>1, <1>2, <1>3, <1>4, <1>5, <1>6, <1>7, <1>8 DEF IInv

LEMMA PushCasStep ==
  ASSUME IInv, PushCas
  PROVE  IInv'
<1> USE DEF PushCas
<1> DEFINE i == Idx(prod.w)
<1>1. /\ prod.w = write_seq /\ prod.frame \in Frames
      /\ write_seq < read_seq + Capacity
      /\ prod.pc = "cas"
  BY DEF IInv, ProdInv
<1>2. i \in Slots
  BY <1>1, CursorFacts, IdxSlots
<1>3. slot_state[i] = "FREE"
  <2>1. write_seq \in read_seq..(read_seq + Capacity - 1)
    BY <1>1, CursorFacts
  <2>2. slot_state[Idx(write_seq)] = ExpectedState(write_seq)
    BY <2>1 DEF IInv, SlotInv
  <2>3. ExpectedState(write_seq) = "FREE"
    BY <1>1, CursorFacts DEF ExpectedState, Writing, Reading
  <2> QED BY <1>1, <2>2, <2>3
<1>4. /\ slot_state' = [slot_state EXCEPT ![i] = "WRITING"]
      /\ prod' = [prod EXCEPT !.pc = "header"]
      /\ UNCHANGED <<write_seq, read_seq, slot_header, slot_data, cons, pushed, popped>>
  BY <1>3
<1> HIDE DEF PushCas, i
<1>5. TypeOK'
  BY <1>2, <1>4 DEF IInv, TypeOK, ProdRecord
<1>6. CountersInv'
  BY <1>4 DEF IInv, CountersInv
<1>7. ProdInv'
  BY <1>1, <1>4, <1>5 DEF IInv, ProdInv, TypeOK, ProdRecord
<1>8. ConsInv'
  BY <1>4 DEF IInv, ConsInv, Cursor
<1>9. SlotInv'
  <2> SUFFICES ASSUME NEW s \in read_seq..(read_seq + Capacity - 1)
               PROVE  slot_state'[Idx(s)] = ExpectedState(s)'
    BY <1>4 DEF SlotInv
  <2>1. slot_state[Idx(s)] = ExpectedState(s) /\ s \in Nat
    BY CursorFacts DEF IInv, SlotInv
  <2>2. CASE s = write_seq
    BY <1>1, <1>2, <1>4, <2>2, CursorFacts
    DEF ExpectedState, Oldest, Cursor, Writing, Reading, i, IInv, TypeOK, ProdRecord
  <2>3. CASE s # write_seq
    <3>1. Idx(s) # i
      BY <1>1, <2>1, <2>3, IdxDistinct, CursorFacts DEF i
    <3>2. slot_state'[Idx(s)] = slot_state[Idx(s)]
      BY <1>2, <1>4, <3>1 DEF IInv, TypeOK
    <3> QED BY <1>4, <2>1, <2>3, <3>2
            DEF ExpectedState, Oldest, Cursor, Writing, Reading
  <2> QED BY <2>2, <2>3
<1>10. ContentInv'
  BY <1>4 DEF IInv, ContentInv, Oldest, Cursor
<1>11. HistoryInv'
  BY <1>4 DEF IInv, HistoryInv
<1>12. NeverContended'
  BY <1>4 DEF IInv, NeverContended, TypeOK, ProdRecord
<1> QED BY <1>5, <1>6, <1>7, <1>8, <1>9, <1>10, <1>11, <1>12 DEF IInv

\* Slots of the window other than the one the producer works on.
LEMMA OtherSlot ==
  ASSUME IInv, write_seq < read_seq + Capacity,
         NEW s \in read_seq..(read_seq + Capacity - 1), s # write_seq
  PROVE  s \in Nat /\ Idx(s) # Idx(write_seq) /\ Idx(s) \in Slots
<1>1. s \in Nat
  BY CursorFacts
<1> QED BY SMTT(40), <1>1, CursorFacts, IdxDistinct, IdxSlots

LEMMA PushHeaderStep ==
  ASSUME IInv, PushHeader
  PROVE  IInv'
<1> USE DEF PushHeader
<1>1. /\ prod.w = write_seq /\ prod.frame \in Frames
      /\ write_seq < read_seq + Capacity /\ Idx(write_seq) \in Slots
  BY CursorFacts, IdxSlots DEF IInv, ProdInv
<1>2. TypeOK'
  BY <1>1 DEF IInv, TypeOK, ProdRecord, Memory
<1>3. CountersInv'
  BY DEF IInv, CountersInv
<1>4. ProdInv'
  BY <1>1 DEF IInv, ProdInv, TypeOK, ProdRecord
<1>5. ConsInv'
  BY DEF IInv, ConsInv, Cursor
<1>6. SlotInv'
  BY DEF IInv, SlotInv, ExpectedState, Oldest, Cursor, Writing, Reading, TypeOK, ProdRecord
<1>7. ContentInv'
  <2> SUFFICES ASSUME NEW s \in Oldest..(write_seq - 1)
               PROVE  /\ slot_header'[Idx(s)] = pushed[s + 1].header
                      /\ slot_data[Idx(s)] = pushed[s + 1].data
    BY DEF ContentInv, Oldest, Cursor
  <2>1. Idx(s) # Idx(write_seq) /\ Idx(s) \in Slots
    BY <1>1, CursorFacts, OtherSlot
  <2> QED BY <1>1, <2>1 DEF IInv, ContentInv, TypeOK
<1>8. HistoryInv'
  BY DEF IInv, HistoryInv
<1>9. NeverContended'
  BY DEF IInv, NeverContended, TypeOK, ProdRecord
<1> QED BY <1>2, <1>3, <1>4, <1>5, <1>6, <1>7, <1>8, <1>9 DEF IInv

LEMMA PushDataStep ==
  ASSUME IInv, PushData
  PROVE  IInv'
<1> USE DEF PushData
<1>1. /\ prod.w = write_seq /\ prod.frame \in Frames
      /\ write_seq < read_seq + Capacity /\ Idx(write_seq) \in Slots
  BY CursorFacts, IdxSlots DEF IInv, ProdInv
<1>2. TypeOK'
  BY <1>1 DEF IInv, TypeOK, ProdRecord, Memory
<1>3. CountersInv'
  BY DEF IInv, CountersInv
<1>4. ProdInv'
  BY <1>1 DEF IInv, ProdInv, TypeOK, ProdRecord
<1>5. ConsInv'
  BY DEF IInv, ConsInv, Cursor
<1>6. SlotInv'
  BY DEF IInv, SlotInv, ExpectedState, Oldest, Cursor, Writing, Reading, TypeOK, ProdRecord
<1>7. ContentInv'
  <2> SUFFICES ASSUME NEW s \in Oldest..(write_seq - 1)
               PROVE  /\ slot_header[Idx(s)] = pushed[s + 1].header
                      /\ slot_data'[Idx(s)] = pushed[s + 1].data
    BY DEF ContentInv, Oldest, Cursor
  <2>1. Idx(s) # Idx(write_seq) /\ Idx(s) \in Slots
    BY <1>1, CursorFacts, OtherSlot
  <2> QED BY <1>1, <2>1 DEF IInv, ContentInv, TypeOK
<1>8. HistoryInv'
  BY DEF IInv, HistoryInv
<1>9. NeverContended'
  BY DEF IInv, NeverContended, TypeOK, ProdRecord
<1> QED BY <1>2, <1>3, <1>4, <1>5, <1>6, <1>7, <1>8, <1>9 DEF IInv

LEMMA PushGpuFailStep ==
  ASSUME IInv, PushGpuFail
  PROVE  IInv'
<1> USE DEF PushGpuFail, ProdIdle
<1>1. /\ prod.w = write_seq
      /\ write_seq < read_seq + Capacity /\ Idx(write_seq) \in Slots
  BY CursorFacts, IdxSlots DEF IInv, ProdInv
<1>2. TypeOK'
  BY <1>1 DEF IInv, TypeOK, ProdRecord, Memory
<1>3. CountersInv'
  BY DEF IInv, CountersInv
<1>4. ProdInv'
  BY DEF ProdInv
<1>5. ConsInv'
  BY DEF IInv, ConsInv, Cursor
<1>6. SlotInv'
  <2> SUFFICES ASSUME NEW s \in read_seq..(read_seq + Capacity - 1)
               PROVE  slot_state'[Idx(s)] = ExpectedState(s)'
    BY DEF SlotInv
  <2>1. CASE s = write_seq
    BY <1>1, <2>1, CursorFacts
    DEF ExpectedState, Oldest, Cursor, Writing, Reading, IInv, TypeOK
  <2>2. CASE s # write_seq
    <3>1. Idx(s) # Idx(write_seq) /\ Idx(s) \in Slots
      BY <1>1, <2>2, OtherSlot
    <3>2. slot_state'[Idx(s)] = slot_state[Idx(s)]
      BY <1>1, <3>1 DEF IInv, TypeOK
    <3> QED BY <2>2, <3>2
            DEF IInv, SlotInv, ExpectedState, Oldest, Cursor, Writing, Reading
  <2> QED BY <2>1, <2>2
<1>7. ContentInv'
  BY DEF IInv, ContentInv, Oldest, Cursor
<1>8. HistoryInv'
  BY DEF IInv, HistoryInv
<1>9. NeverContended'
  BY DEF IInv, NeverContended
<1> QED BY <1>2, <1>3, <1>4, <1>5, <1>6, <1>7, <1>8, <1>9 DEF IInv

LEMMA PushReadyStep ==
  ASSUME IInv, PushReady
  PROVE  IInv'
<1> USE DEF PushReady
<1>1. /\ prod.w = write_seq
      /\ write_seq < read_seq + Capacity /\ Idx(write_seq) \in Slots
  BY CursorFacts, IdxSlots DEF IInv, ProdInv
<1>2. TypeOK'
  BY <1>1 DEF IInv, TypeOK, ProdRecord
<1>3. CountersInv'
  BY DEF IInv, CountersInv
<1>4. ProdInv'
  BY DEF IInv, ProdInv, TypeOK, ProdRecord
<1>5. ConsInv'
  BY DEF IInv, ConsInv, Cursor
<1>6. SlotInv'
  <2> SUFFICES ASSUME NEW s \in read_seq..(read_seq + Capacity - 1)
               PROVE  slot_state'[Idx(s)] = ExpectedState(s)'
    BY DEF SlotInv
  <2>1. CASE s = write_seq
    BY <1>1, <2>1, CursorFacts
    DEF ExpectedState, Oldest, Cursor, Writing, Reading, IInv, TypeOK, ProdRecord
  <2>2. CASE s # write_seq
    <3>1. Idx(s) # Idx(write_seq) /\ Idx(s) \in Slots
      BY <1>1, <2>2, OtherSlot
    <3>2. slot_state'[Idx(s)] = slot_state[Idx(s)]
      BY <1>1, <3>1 DEF IInv, TypeOK
    <3> QED BY <2>2, <3>2
            DEF IInv, SlotInv, ExpectedState, Oldest, Cursor, Writing, Reading
  <2> QED BY <2>1, <2>2
<1>7. ContentInv'
  BY DEF IInv, ContentInv, Oldest, Cursor
<1>8. HistoryInv'
  BY DEF IInv, HistoryInv
<1>9. NeverContended'
  BY DEF IInv, NeverContended, TypeOK, ProdRecord
<1> QED BY <1>2, <1>3, <1>4, <1>5, <1>6, <1>7, <1>8, <1>9 DEF IInv

LEMMA PushPublishStep ==
  ASSUME IInv, PushPublish
  PROVE  IInv'
<1> USE DEF PushPublish, ProdIdle
<1>1. /\ prod.w = write_seq /\ prod.frame \in Frames
      /\ write_seq < read_seq + Capacity
      /\ slot_header[Idx(write_seq)] = prod.frame
      /\ slot_data[Idx(write_seq)] = prod.frame
  BY DEF IInv, ProdInv
<1>2. /\ Whole(prod.frame) \in Items
      /\ Items \subseteq Copies
  BY <1>1 DEF Items, Whole, Memory, Copies
<1>3. /\ pushed \in Seq(Items) /\ Len(pushed) = write_seq
      /\ write_seq' = write_seq + 1
  BY <1>1 DEF IInv, TypeOK, HistoryInv
<1>4. /\ pushed' \in Seq(Items) /\ Len(pushed') = write_seq + 1
      /\ \A j \in 1..write_seq : pushed'[j] = pushed[j]
      /\ pushed'[write_seq + 1] = Whole(prod.frame)
  BY <1>2, <1>3
<1>5. TypeOK'
  BY <1>3, <1>4, CursorFacts DEF IInv, TypeOK, ProdRecord, Memory
<1>6. CountersInv'
  BY <1>1, <1>3, CursorFacts DEF IInv, CountersInv
<1>7. ProdInv'
  BY DEF ProdInv
<1>8. ConsInv'
  <2>1. cons.pc # "idle" =>
          /\ cons.r = read_seq
          /\ cons.r + cons.count <= write_seq'
          /\ Len(cons.taken) <= cons.count
          /\ cons.count \in Nat
    BY <1>3, CursorFacts DEF IInv, ConsInv, TypeOK, ConsRecord
  <2>2. ASSUME cons.pc # "idle", NEW j \in 1..Len(cons.taken)
        PROVE  cons.taken[j] = pushed'[read_seq + j]
    <3>1. read_seq + j \in 1..write_seq
      BY <2>2, CursorFacts
    <3> QED BY <1>4, <2>2, <3>1 DEF IInv, ConsInv
  <2>3. cons.pc \in {"cas", "header", "data", "free"} => Cursor + 1 \in 1..write_seq
    BY CursorFacts
  <2> QED BY <1>4, <2>1, <2>2, <2>3 DEF IInv, ConsInv, Cursor
<1>9. SlotInv'
  BY <1>1, <1>3, CursorFacts
  DEF IInv, SlotInv, ExpectedState, Oldest, Cursor, Writing, Reading
<1>10. ContentInv'
  <2> SUFFICES ASSUME NEW s \in Oldest..write_seq
               PROVE  /\ slot_header[Idx(s)] = pushed'[s + 1].header
                      /\ slot_data[Idx(s)] = pushed'[s + 1].data
    BY <1>3, CursorFacts DEF ContentInv, Oldest, Cursor
  <2>1. CASE s = write_seq
    BY <1>1, <1>4, <2>1 DEF Whole
  <2>2. CASE s # write_seq
    <3>1. s + 1 \in 1..write_seq /\ s \in Oldest..(write_seq - 1)
      BY <2>2, CursorFacts
    <3> QED BY <1>4, <3>1 DEF IInv, ContentInv
  <2> QED BY <2>1, <2>2
<1>11. HistoryInv'
  <2>1. \A j \in 1..read_seq : pushed'[j] = pushed[j]
    BY <1>4, CursorFacts
  <2> QED BY <1>3, <1>4, <2>1 DEF IInv, HistoryInv
<1>12. NeverContended'
  BY DEF IInv, NeverContended
<1> QED BY <1>5, <1>6, <1>7, <1>8, <1>9, <1>10, <1>11, <1>12 DEF IInv
-----------------------------------------------------------------------------
LEMMA PopStep ==
  ASSUME IInv, NEW op \in {"pop", "batch"}, NEW max \in Nat \ {0}, Pop(op, max)
  PROVE  IInv'
<1> USE DEF Pop, ConsIdle, shared
<1>1. TypeOK'
  BY EmptySeq DEF IInv, TypeOK, ConsRecord, Memory
<1>2. CountersInv'
  BY DEF IInv, CountersInv
<1>3. ProdInv'
  BY DEF IInv, ProdInv
<1>4. ConsInv'
  BY CursorFacts, EmptySeq DEF ConsInv
<1>5. /\ Oldest = read_seq /\ Oldest' = read_seq
      /\ ~Reading /\ ~Reading'
  BY CursorFacts DEF Oldest, Cursor, Reading
<1>6. SlotInv'
  BY <1>5 DEF IInv, SlotInv, ExpectedState, Writing
<1>7. ContentInv'
  BY <1>5 DEF IInv, ContentInv
<1>8. HistoryInv'
  BY DEF IInv, HistoryInv
<1>9. NeverContended'
  BY DEF IInv, NeverContended
<1> QED BY <1>1, <1>2, <1>3, <1>4, <1>6, <1>7, <1>8, <1>9 DEF IInv

LEMMA PopLoadStep ==
  ASSUME IInv, PopLoad
  PROVE  IInv'
<1> USE DEF PopLoad, ConsIdle, shared, Min2
<1>1. /\ cons \in ConsRecord /\ cons.pc = "load" /\ cons.r = read_seq
      /\ cons.taken = <<>> /\ cons.count = 0 /\ cons.max > 0
  BY DEF IInv, TypeOK, ConsInv
<1>2. TypeOK'
  <2>1. CASE write_seq - cons.r > 0
    <3>1. cons' = [cons EXCEPT !.pc = "cas", !.count = Min2(write_seq - cons.r, cons.max)]
      BY <2>1
    <3>2. Min2(write_seq - cons.r, cons.max) \in Nat
      BY <1>1, <2>1, CursorFacts DEF ConsRecord
    <3> HIDE DEF PopLoad, Min2
    <3>3. cons' \in ConsRecord
      BY <1>1, <3>1, <3>2 DEF ConsRecord
    <3> QED BY <3>3 DEF IInv, TypeOK, PopLoad
  <2>2. CASE ~(write_seq - cons.r > 0) /\ cons.op = "pop"
    <3>1. <<>> \in Seq(Copies)
      BY EmptySeq
    <3>2. cons' = ConsIdle(-2, <<>>)
      BY <2>2
    <3>3. cons' \in ConsRecord
      <4> HIDE DEF PopLoad, Min2
      <4> QED BY <3>1, <3>2 DEF ConsRecord, Memory
    <3> QED BY <3>3 DEF IInv, TypeOK
  <2>3. CASE ~(write_seq - cons.r > 0) /\ cons.op # "pop"
    BY <1>1, <2>3 DEF IInv, TypeOK, ConsRecord
  <2> QED BY <2>1, <2>2, <2>3
<1>3. CountersInv'
  BY DEF IInv, CountersInv
<1>4. ProdInv'
  BY DEF IInv, ProdInv
<1>5. ConsInv'
  <2>1. Len(cons.taken) = 0 /\ (\A j \in 1..0 : FALSE)
    BY <1>1
  <2>2. CASE write_seq - cons.r > 0
    <3>1. cons' = [cons EXCEPT !.pc = "cas", !.count = Min2(write_seq - cons.r, cons.max)]
      BY <2>2
    <3>2. /\ cons'.count \in Nat \ {0}
          /\ cons.r + cons'.count <= write_seq
      BY <1>1, <2>2, <3>1, CursorFacts DEF ConsRecord
    <3>3. /\ cons'.pc = "cas" /\ cons'.r = read_seq /\ cons'.taken = cons.taken
          /\ UNCHANGED <<read_seq, write_seq>>
      BY <1>1, <3>1 DEF ConsRecord
    <3> HIDE DEF PopLoad, Min2
    <3> QED BY <1>1, <2>1, <3>2, <3>3 DEF ConsInv
  <2>3. CASE ~(write_seq - cons.r > 0) /\ cons.op = "pop"
    BY <2>3 DEF ConsInv
  <2>4. CASE ~(write_seq - cons.r > 0) /\ cons.op # "pop"
    BY <1>1, <2>1, <2>4, CursorFacts DEF ConsInv, ConsRecord
  <2> QED BY <2>2, <2>3, <2>4
<1>6. /\ Oldest = read_seq /\ Oldest' = read_seq
      /\ ~Reading /\ ~Reading'
  BY <1>1, CursorFacts DEF Oldest, Cursor, Reading, ConsRecord
<1>7. SlotInv'
  BY <1>6 DEF IInv, SlotInv, ExpectedState, Writing
<1>8. ContentInv'
  BY <1>6 DEF IInv, ContentInv
<1>9. HistoryInv'
  BY DEF IInv, HistoryInv
<1>10. NeverContended'
  BY <1>1 DEF IInv, NeverContended, ConsRecord
<1> QED BY <1>2, <1>3, <1>4, <1>5, <1>7, <1>8, <1>9, <1>10 DEF IInv

LEMMA PopCasStep ==
  ASSUME IInv, PopCas
  PROVE  IInv'
<1> USE DEF PopCas
<1>1. /\ cons \in ConsRecord /\ cons.pc = "cas" /\ Cursor = Oldest
      /\ Cursor \in read_seq..(read_seq + Capacity - 1) /\ Cursor < write_seq
      /\ Cursor \in Nat /\ Idx(Cursor) \in Slots
  BY CursorFacts, IdxSlots DEF IInv, TypeOK
<1>2. slot_state[Idx(Cursor)] = "READY"
  BY <1>1, CursorFacts DEF IInv, SlotInv, ExpectedState, Reading
<1>3. /\ slot_state' = [slot_state EXCEPT ![Idx(Cursor)] = "READING"]
      /\ cons' = [cons EXCEPT !.pc = "header"]
      /\ UNCHANGED <<write_seq, read_seq, slot_header, slot_data, prod, pushed, popped>>
  BY <1>2
<1>4. TypeOK'
  BY <1>1, <1>3 DEF IInv, TypeOK, ConsRecord
<1>5. CountersInv'
  BY <1>3 DEF IInv, CountersInv
<1>6. ProdInv'
  BY <1>3 DEF IInv, ProdInv
<1>7. ConsInv'
  BY <1>1, <1>3 DEF IInv, ConsInv, Cursor, ConsRecord
<1>8. Oldest' = Oldest /\ Reading' /\ ~Reading
  BY <1>1, <1>3 DEF Oldest, Cursor, Reading, ConsRecord
<1>9. SlotInv'
  <2> SUFFICES ASSUME NEW s \in read_seq..(read_seq + Capacity - 1)
               PROVE  slot_state'[Idx(s)] = ExpectedState(s)'
    BY <1>3 DEF SlotInv
  <2>1. CASE s = Cursor
    BY <1>1, <1>3, <1>8, <2>1 DEF ExpectedState, IInv, TypeOK
  <2>2. CASE s # Cursor
    <3>1. Idx(s) # Idx(Cursor)
      BY SMTT(40), <1>1, <2>2, CursorFacts, IdxDistinct
    <3>2. slot_state'[Idx(s)] = slot_state[Idx(s)]
      BY <1>1, <1>3, <3>1, CursorFacts, IdxSlots DEF IInv, TypeOK
    <3> QED BY <1>1, <1>3, <1>8, <2>2, <3>2 DEF IInv, SlotInv, ExpectedState, Writing
  <2> QED BY <2>1, <2>2
<1>10. ContentInv'
  BY <1>3, <1>8 DEF IInv, ContentInv
<1>11. HistoryInv'
  BY <1>3 DEF IInv, HistoryInv
<1>12. NeverContended'
  BY <1>1, <1>3 DEF IInv, NeverContended, ConsRecord
<1> QED BY <1>4, <1>5, <1>6, <1>7, <1>9, <1>10, <1>11, <1>12 DEF IInv

\* The two copies out of the slot differ only in the field they fill.
LEMMA PopCopyStep ==
  ASSUME IInv, PopHeader \/ PopData
  PROVE  IInv'
<1> USE DEF shared
<1>1. /\ cons \in ConsRecord /\ Cursor = Oldest /\ cons.pc \in {"header", "data"}
      /\ Cursor \in Oldest..(write_seq - 1) /\ Idx(Cursor) \in Slots
  BY CursorFacts, IdxSlots DEF IInv, TypeOK, PopHeader, PopData
<1>2. /\ slot_header[Idx(Cursor)] = pushed[Cursor + 1].header
      /\ slot_data[Idx(Cursor)] = pushed[Cursor + 1].data
      /\ slot_header[Idx(Cursor)] \in Memory /\ slot_data[Idx(Cursor)] \in Memory
  BY <1>1 DEF IInv, ContentInv, TypeOK
<1>3. UNCHANGED <<write_seq, read_seq, slot_state, slot_header, slot_data, prod, pushed, popped>>
  BY DEF PopHeader, PopData
<1>4. TypeOK'
  BY <1>1, <1>2, <1>3 DEF IInv, TypeOK, ConsRecord, PopHeader, PopData
<1>5. CountersInv' /\ ProdInv' /\ HistoryInv'
  BY <1>3 DEF IInv, CountersInv, ProdInv, HistoryInv
<1>6. ConsInv'
  <2>1. CASE PopHeader
    BY <1>1, <1>2, <1>3, <2>1 DEF IInv, ConsInv, Cursor, ConsRecord, PopHeader
  <2>2. CASE PopData
    BY <1>1, <1>2, <1>3, <2>2 DEF IInv, ConsInv, Cursor, ConsRecord, PopData
  <2> QED BY <2>1, <2>2
<1>7. Oldest' = Oldest /\ Reading' /\ Reading
  BY <1>1, <1>3 DEF Oldest, Cursor, Reading, ConsRecord, PopHeader, PopData
<1>8. SlotInv'
  BY <1>3, <1>7 DEF IInv, SlotInv, ExpectedState, Writing
<1>9. ContentInv'
  BY <1>3, <1>7 DEF IInv, ContentInv
<1>10. NeverContended'
  BY <1>1, <1>3 DEF IInv, NeverContended, ConsRecord, PopHeader, PopData
<1> QED BY <1>4, <1>5, <1>6, <1>8, <1>9, <1>10 DEF IInv

LEMMA PopFreeStep ==
  ASSUME IInv, PopFree
  PROVE  IInv'
<1> USE DEF PopFree
<1> DEFINE item == [header |-> cons.header, data |-> cons.data]
           n == Len(cons.taken)
<1>1. /\ cons \in ConsRecord /\ Cursor = Oldest /\ cons.pc = "free"
      /\ Cursor \in Oldest..(write_seq - 1) /\ Cursor \in Nat /\ Idx(Cursor) \in Slots
      /\ Cursor = read_seq + n /\ n \in Nat
  BY CursorFacts, IdxSlots DEF IInv, TypeOK
<1>2. item = pushed[Cursor + 1]
  <2>1. pushed[Cursor + 1] \in Items
    BY SMTT(40), <1>1, CursorFacts DEF IInv, TypeOK, HistoryInv
  <2>2. /\ cons.header = pushed[Cursor + 1].header
        /\ cons.data = pushed[Cursor + 1].data
    BY <1>1 DEF IInv, ConsInv
  <2>3. PICK f \in Frames : pushed[Cursor + 1] = [header |-> f, data |-> f]
    BY <2>1 DEF Items, Whole
  <2>4. cons.header = f /\ cons.data = f
    BY <2>2, <2>3
  <2> QED BY <2>3, <2>4
<1>3. item \in Copies
  BY <1>1 DEF ConsRecord, Copies
<1>0. /\ cons.taken \in Seq(Copies)
      /\ Append(cons.taken, item) \in Seq(Copies)
      /\ Len(Append(cons.taken, item)) = n + 1
      /\ \A j \in 1..n : Append(cons.taken, item)[j] = cons.taken[j]
      /\ Append(cons.taken, item)[n + 1] = item
  BY <1>1, <1>3, AppendProperties DEF ConsRecord
<1> HIDE DEF item
<1>4. /\ cons'.taken = Append(cons.taken, item)
      /\ cons'.pc = IF n + 1 < cons.count THEN "cas" ELSE "publish"
      /\ cons'.r = cons.r /\ cons'.count = cons.count /\ cons'.rc = cons.rc
      /\ cons' \in ConsRecord
  BY <1>1, <1>0 DEF ConsRecord, item
<1>5. /\ Len(cons'.taken) = n + 1
      /\ \A j \in 1..n : cons'.taken[j] = cons.taken[j]
      /\ cons'.taken[n + 1] = item
  BY <1>1, <1>0, <1>4
<1>6. UNCHANGED <<write_seq, read_seq, slot_header, slot_data, prod, pushed, popped>>
  OBVIOUS
<1>7. TypeOK'
  BY <1>1, <1>4, <1>6 DEF IInv, TypeOK
<1>8. CountersInv' /\ ProdInv' /\ HistoryInv'
  BY <1>6 DEF IInv, CountersInv, ProdInv, HistoryInv
<1>9. ConsInv'
  <2>1. /\ cons.r = read_seq /\ cons.r + cons.count <= write_seq
        /\ n < cons.count /\ cons.count \in Nat
        /\ \A j \in 1..n : cons.taken[j] = pushed[read_seq + j]
    BY <1>1 DEF IInv, ConsInv, ConsRecord
  <2>2. ASSUME NEW j \in 1..(n + 1)
        PROVE  cons'.taken[j] = pushed[read_seq + j]
    <3>1. CASE j = n + 1
      <4>1. Cursor + 1 = read_seq + j
        BY <1>1, <3>1, CursorFacts
      <4> QED BY <1>2, <1>5, <3>1, <4>1
    <3>2. CASE j # n + 1
      BY <1>1, <1>5, <2>1, <3>2
    <3> QED BY <3>1, <3>2
  <2> HIDE DEF PopFree, item, n
  <2> QED BY <1>1, <1>4, <1>5, <1>6, <2>1, <2>2 DEF ConsInv
<1>10. Cursor' = Cursor + 1 /\ Oldest' = Cursor + 1 /\ ~Reading' /\ Reading
  <2>1. Cursor' = Cursor + 1
    <3> HIDE DEF PopFree, n
    <3>1. cons.r \in Nat /\ Cursor = cons.r + n
      BY <1>1 DEF ConsRecord, Cursor, n
    <3> QED BY <1>1, <1>4, <1>5, <3>1 DEF Cursor
  <2> QED BY <1>1, <1>4, <2>1 DEF Oldest, Reading
<1>11. SlotInv'
  <2> SUFFICES ASSUME NEW s \in read_seq..(read_seq + Capacity - 1)
               PROVE  slot_state'[Idx(s)] = ExpectedState(s)'
    BY <1>6 DEF SlotInv
  <2>1. CASE s = Cursor
    BY <1>1, <1>10, <2>1 DEF ExpectedState, IInv, TypeOK
  <2>2. CASE s # Cursor
    <3>1. Idx(s) # Idx(Cursor) /\ s \in Nat
      BY <1>1, <2>2, CursorFacts, IdxDistinct
    <3>2. slot_state'[Idx(s)] = slot_state[Idx(s)]
      BY <1>1, <3>1, IdxSlots DEF IInv, TypeOK
    <3>3. ExpectedState(s)' = ExpectedState(s)
      BY <1>1, <1>6, <1>10, <2>2, <3>1, CursorFacts DEF ExpectedState, Writing
    <3> QED BY <3>2, <3>3 DEF IInv, SlotInv
  <2> QED BY <2>1, <2>2
<1>12. ContentInv'
  BY <1>1, <1>6, <1>10, CursorFacts DEF IInv, ContentInv
<1>13. NeverContended'
  BY <1>4, <1>6 DEF IInv, NeverContended
<1> QED BY <1>7, <1>8, <1>9, <1>11, <1>12, <1>13 DEF IInv

LEMMA PopPublishStep ==
  ASSUME IInv, PopPublish
  PROVE  IInv'
<1> USE DEF PopPublish, ConsIdle
<1> DEFINE n == Len(cons.taken)
<1>1. /\ cons \in ConsRecord /\ Cursor = Oldest /\ cons.pc = "publish"
      /\ Cursor \in read_seq..write_seq /\ Cursor \in Nat
      /\ Cursor = read_seq + n /\ n \in Nat
  BY CursorFacts DEF IInv, TypeOK
<1>2. UNCHANGED <<write_seq, slot_state, slot_header, slot_data, prod, pushed>>
  OBVIOUS
<1>3. /\ Len(popped) = read_seq /\ popped \in Seq(Copies)
      /\ cons.taken \in Seq(Copies)
  BY <1>1 DEF IInv, TypeOK, HistoryInv, ConsRecord
<1>4. /\ popped' \in Seq(Copies)
      /\ Len(popped') = Cursor
      /\ \A j \in 1..Cursor : popped'[j] = IF j <= read_seq THEN popped[j]
                                            ELSE cons.taken[j - read_seq]
  BY <1>1, <1>3, CursorFacts, ConcatProperties
<1>5. TypeOK'
  BY <1>1, <1>2, <1>4 DEF IInv, TypeOK, ConsRecord, Memory
<1>6. CountersInv'
  BY <1>1, <1>2, CursorFacts DEF CountersInv
<1>7. ProdInv'
  BY <1>1, <1>2, CursorFacts DEF IInv, ProdInv
<1>8. ConsInv'
  BY DEF ConsInv
<1>9. /\ Oldest' = Cursor /\ Oldest = Cursor /\ read_seq' = Cursor
      /\ ~Reading /\ ~Reading'
  BY <1>1 DEF Oldest, Reading
<1>10. SlotInv'
  <2> SUFFICES ASSUME NEW s \in Cursor..(Cursor + Capacity - 1)
               PROVE  slot_state[Idx(s)] = ExpectedState(s)'
    BY <1>2, <1>9 DEF SlotInv
  <2>1. CASE s < read_seq + Capacity
    <3>1. ExpectedState(s)' = ExpectedState(s)
      BY <1>1, <1>2, <1>9 DEF ExpectedState, Writing
    <3>2. s \in read_seq..(read_seq + Capacity - 1)
      BY SMTT(40), <1>1, <2>1, CursorFacts
    <3> HIDE DEF PopPublish
    <3> QED BY <3>1, <3>2 DEF IInv, SlotInv
  <2>2. CASE s >= read_seq + Capacity
    <3> DEFINE t == s - Capacity
    <3>1. t \in read_seq..(read_seq + Capacity - 1) /\ t < Oldest /\ t \in Nat
      <4>1. /\ Capacity \in Nat /\ read_seq \in Nat /\ write_seq \in Nat /\ s \in Int
            /\ Cursor <= s /\ s <= Cursor + Capacity - 1
            /\ read_seq + Capacity <= s /\ Cursor <= read_seq + Capacity
            /\ Oldest = Cursor /\ Cursor \in Nat
        BY <1>1, <1>9, <2>2, CursorFacts
      <4> QED BY <4>1
    <3>2. Idx(s) = Idx(t)
      <4> HIDE DEF t
      <4>1. s = t + Capacity
        BY <1>1, CursorFacts DEF t
      <4> QED BY <3>1, <4>1, IdxShift
    <3>3. slot_state[Idx(t)] = "FREE"
      <4> HIDE DEF t
      <4> QED BY <3>1 DEF IInv, SlotInv, ExpectedState
    <3>4. ExpectedState(s)' = "FREE"
      <4>1. ~(s < write_seq) /\ ~(s < Cursor)
        BY SMTT(40), <1>1, <2>2, CursorFacts
      <4>2. prod.pc # "idle" => s # write_seq
        BY <1>1, <2>2, CursorFacts DEF IInv, ProdInv
      <4> QED BY <1>2, <1>9, <4>1, <4>2 DEF ExpectedState, Writing
    <3> QED BY <3>2, <3>3, <3>4
  <2> QED BY <2>1, <2>2, <1>1, CursorFacts
<1>11. ContentInv'
  BY <1>2, <1>9 DEF IInv, ContentInv
<1>12. HistoryInv'
  <2>1. \A j \in 1..n : cons.taken[j] = pushed[read_seq + j]
    BY <1>1 DEF IInv, ConsInv
  <2>2. ASSUME NEW j \in 1..Cursor
        PROVE  popped'[j] = pushed[j]
    <3>1. CASE j <= read_seq
      BY <1>1, <1>4, <3>1 DEF IInv, HistoryInv
    <3>2. CASE ~(j <= read_seq)
      <4>1. j - read_seq \in 1..n /\ read_seq + (j - read_seq) = j
        BY <1>1, <3>2, CursorFacts
      <4> QED BY <1>4, <2>1, <3>2, <4>1
    <3> QED BY <3>1, <3>2
  <2> QED BY <1>2, <1>4, <1>9, <2>2 DEF IInv, HistoryInv
<1>13. NeverContended'
  BY <1>1, <1>2 DEF IInv, NeverContended
<1> QED BY <1>5, <1>6, <1>7, <1>8, <1>10, <1>11, <1>12, <1>13 DEF IInv
-----------------------------------------------------------------------------
\* Every step of the queue's two threads keeps the inductive invariant.
LEMMA NextIInv == IInv /\ [Next]_vars => IInv'
<1> SUFFICES ASSUME IInv, [Next]_vars PROVE IInv'
  OBVIOUS
<1>1. ASSUME NEW f \in Frames, Push(f) PROVE IInv'
  BY <1>1, PushStep
<1>2. CASE PushCas
  BY <1>2, PushCasStep
<1>3. CASE PushHeader
  BY <1>3, PushHeaderStep
<1>4. CASE PushData
  BY <1>4, PushDataStep
<1>5. CASE PushReady
  BY <1>5, PushReadyStep
<1>6. CASE PushPublish
  BY <1>6, PushPublishStep
<1>7. CASE PushGpuFail
  BY <1>7, PushGpuFailStep
<1>8. CASE Pop("pop", 1)
  BY <1>8, PopStep
<1>9. ASSUME NEW max \in 1..MaxBatch, Pop("batch", max) PROVE IInv'
  BY <1>9, PopStep, QueueAssumption
<1>10. CASE PopLoad
  BY <1>10, PopLoadStep
<1>11. CASE PopCas
  BY <1>11, PopCasStep
<1>12. CASE PopHeader \/ PopData
  BY <1>12, PopCopyStep
<1>13. CASE PopFree
  BY <1>13, PopFreeStep
<1>14. CASE PopPublish
  BY <1>14, PopPublishStep
<1>15. CASE UNCHANGED vars
  BY <1>15
  DEF vars, shared, IInv, TypeOK, CountersInv, ProdInv, ConsInv, SlotInv, ContentInv,
      HistoryInv, NeverContended, ExpectedState, Oldest, Cursor, Writing, Reading
<1> QED
  BY <1>1, <1>2, <1>3, <1>4, <1>5, <1>6, <1>7, <1>8, <1>9, <1>10, <1>11, <1>12,
     <1>13, <1>14, <1>15
  DEF Next, Producer, Consumer, PushSteps, PopSteps

\* shm_queue_push and shm_queue_pop, whatever their interleaving, keep the
\* slots in the states the counters and the calls in progress say.
THEOREM Invariance == Spec => []IInv
BY InitIInv, NextIInv, PTL DEF Spec

\* The types of the shared memory and of both threads' locals.
THEOREM TypeCorrect == Spec => []TypeOK
<1>1. IInv => TypeOK
  BY DEF IInv
<1> QED BY <1>1, Invariance, PTL

\* No slot is copied into while it is copied out of, for every queue capacity.
THEOREM Exclusion == Spec => []SlotExclusive
<1>1. ASSUME IInv PROVE SlotExclusive
  <2> SUFFICES ASSUME Writing, Reading PROVE Idx(prod.w) # Idx(Cursor)
    BY DEF SlotExclusive
  <2>1. prod.w = write_seq /\ write_seq < read_seq + Capacity
    BY <1>1 DEF IInv, ProdInv, Writing
  <2>2. Oldest = Cursor /\ Cursor < write_seq /\ read_seq <= Cursor /\ Cursor \in Nat
    BY <1>1, CursorFacts DEF Reading
  <2> QED BY <1>1, <2>1, <2>2, CursorFacts, IdxDistinct
<1>2. IInv => SlotExclusive
  BY <1>1
<1> QED BY <1>2, Invariance, PTL

\* No compare-exchange of shm_queue_push or shm_queue_pop ever fails.
THEOREM Uncontended == Spec => []NeverContended
<1>1. IInv => NeverContended
  BY DEF IInv
<1> QED BY <1>1, Invariance, PTL

\* The ring implements the bounded first-in first-out queue.
LEMMA FifoInit == Init => Fifo!Init
BY DEF Init, Fifo!Init

LEMMA FifoNext == IInv /\ [Next]_vars => [Fifo!Next]_(Fifo!fifoVars)
<1> SUFFICES ASSUME IInv, [Next]_vars PROVE [Fifo!Next]_(Fifo!fifoVars)
  OBVIOUS
<1>1. CASE PushPublish
  <2>1. Whole(prod.frame) \in Items
    BY <1>1 DEF PushPublish, IInv, ProdInv, Items
  <2>2. Fifo!Waiting < Capacity
    BY <1>1, CursorFacts DEF PushPublish, IInv, ProdInv, HistoryInv, Fifo!Waiting
  <2>3. Fifo!Put(Whole(prod.frame))
    BY <1>1, <2>2 DEF PushPublish, Fifo!Put
  <2> QED BY <2>1, <2>3 DEF Fifo!Next
<1>2. CASE PopPublish
  <2> DEFINE n == Len(cons.taken)
  <2>1. /\ Len(popped) = read_seq /\ Len(pushed) = write_seq
        /\ pushed \in Seq(Copies) /\ popped \in Seq(Copies)
        /\ cons.taken \in Seq(Copies)
        /\ n \in Nat /\ read_seq \in Nat /\ write_seq \in Nat /\ read_seq + n <= write_seq
    <3>1. Items \subseteq Copies
      BY DEF Items, Whole, Copies, Memory
    <3>2. pushed \in Seq(Copies)
      BY <3>1, SeqMonotonic DEF IInv, TypeOK
    <3>3. cons.pc = "publish" /\ cons \in ConsRecord
      BY <1>2 DEF PopPublish, IInv, TypeOK
    <3> QED BY <3>2, <3>3, CursorFacts DEF IInv, TypeOK, HistoryInv, ConsRecord
  <2>2. /\ IInv' /\ popped' = popped \o cons.taken /\ read_seq' = read_seq + n
        /\ pushed' = pushed
    BY <1>2, NextIInv, CursorFacts DEF PopPublish, IInv, ConsInv, Cursor
  <2>3. /\ popped' \in Seq(Copies) /\ Len(popped') = read_seq + n
        /\ \A j \in 1..(read_seq + n) : popped'[j] = pushed[j]
    BY <2>2 DEF IInv, TypeOK, HistoryInv
  <2>4. \A j \in 1..(read_seq + n) : pushed[j] \in Copies
    BY <2>1, ElementOfSeq
  <2> HIDE DEF n
  <2>5. /\ SubSeq(pushed, 1, read_seq + n) \in Seq(Copies)
        /\ Len(SubSeq(pushed, 1, read_seq + n)) = read_seq + n
        /\ \A j \in 1..(read_seq + n) : SubSeq(pushed, 1, read_seq + n)[j] = pushed[j]
    BY <2>1, <2>4, SubSeqProperties
  <2>6. popped' = SubSeq(pushed, 1, read_seq + n)
    BY <2>3, <2>5, SeqEqual
  <2>7. CASE n = 0
    <3>1. cons.taken = <<>>
      BY <2>1, <2>7, EmptySeq DEF n
    <3>2. popped' = popped
      BY <2>1, <2>2, <3>1, ConcatEmptySeq
    <3> QED BY <2>2, <3>2 DEF Fifo!fifoVars
  <2>8. CASE n # 0
    <3>1. Fifo!Waiting = write_seq - read_seq
      BY <2>1 DEF Fifo!Waiting
    <3>2. n \in 1..Fifo!Waiting
      BY <2>1, <2>8, <3>1
    <3>3. Fifo!Get(n)
      BY <2>1, <2>2, <2>6, <3>2 DEF Fifo!Get
    <3> QED BY <3>2, <3>3 DEF Fifo!Next
  <2> QED BY <2>7, <2>8
<1>3. CASE UNCHANGED <<pushed, popped>>
  BY <1>3 DEF Fifo!fifoVars
<1> QED
  BY <1>1, <1>2, <1>3
  DEF Next, Producer, Consumer, PushSteps, PopSteps, vars, shared, Push, PushCas,
      PushHeader, PushData, PushGpuFail, PushReady, Pop, PopLoad, PopCas, PopHeader,
      PopData, PopFree

\* What the detection thread pops is what the ingest thread pushed: whole
\* frames, in order, none lost or repeated, at most Capacity waiting.
THEOREM Refinement == Spec => ImplementsFifo
BY Invariance, FifoInit, FifoNext, PTL DEF Spec, Fifo!Spec, ImplementsFifo

\* What that means for a frame, without the abstract queue: what was popped is
\* what was pushed, frame by frame and in order, header and pixels of the same
\* frame, and no more than Capacity frames wait.
Delivery ==
  /\ Len(popped) <= Len(pushed) /\ Len(pushed) <= Len(popped) + Capacity
  /\ \A i \in 1..Len(popped) : popped[i] = pushed[i] /\ popped[i].header = popped[i].data

THEOREM DeliveryAlways == Spec => []Delivery
<1>1. IInv => Delivery
  <2> SUFFICES ASSUME IInv PROVE Delivery
    OBVIOUS
  <2>1. /\ Len(pushed) = write_seq /\ Len(popped) = read_seq
        /\ read_seq <= write_seq /\ write_seq <= read_seq + Capacity
        /\ \A i \in 1..read_seq : popped[i] = pushed[i]
        /\ read_seq \in Nat /\ write_seq \in Nat /\ pushed \in Seq(Items)
    BY DEF IInv, TypeOK, CountersInv, HistoryInv
  <2>2. \A i \in 1..write_seq : pushed[i] \in Items
    BY <2>1, ElementOfSeq
  <2>3. \A x \in Items : x.header = x.data
    BY DEF Items, Whole
  <2>4. \A i \in 1..read_seq : i \in 1..write_seq
    BY <2>1
  <2>5. \A i \in 1..read_seq : popped[i] = pushed[i] /\ popped[i].header = popped[i].data
    BY <2>1, <2>2, <2>3, <2>4
  <2> QED BY <2>1, <2>5 DEF Delivery
<1> QED BY <1>1, Invariance, PTL
==============================================================================
