-------------------------- MODULE Lifecycle_proofs --------------------------
(***************************************************************************)
(* Machine-checked proofs about start, shutdown, death and restart, for    *)
(* every number of streams and of processes.                               *)
(***************************************************************************)
EXTENDS Lifecycle, TLAPS

\* Where main is: before there is an engine, while the engine is whole, while
\* it is taken apart, and in the deferred calls.
Creating == {"create_vis", "create_uv"}
Opening  == {"init", "bind"}
Whole    == {"register_vis", "register_uv", "connect", "start", "serve", "stop"}
Stopping == {"close_detector", "delete_detector", "close_publisher", "delete_publisher", "clear"}
Removing == {"destroy_uv", "destroy_vis", "forget_vis"}
Ended    == {"dead", "exited"}

Started  == {"serve", "stop"} \cup Stopping \cup Removing \cup Ended

MainPcs     == Creating \cup Opening \cup Whole \cup Stopping \cup Removing \cup Ended
ThreadPcs   == {"none", "lookup", "done", "check", "pop_vis", "pop_uv", "process",
                "call_detect", "detect", "publish", "call_publish", "send"}
CallbackPcs == {"none", "idle", "check_vis", "push_vis", "push_uv"}

Ids == 0..Len(segments)

Queues(I)     == [vis : I, uv : I]
MainQueue(I)  == [vis : I, uv : I, visState : {"nil", "mapped", "unmapped"}]
Thread(I)     == [pc : ThreadPcs, queues : Queues(I), hand : SUBSET Nat, early : BOOLEAN]
OneCallback(I) == [pc : CallbackPcs, uv : I, early : BOOLEAN]

TypeOK ==
  /\ process \in Nat
  /\ main \in [pc : MainPcs, stream : Streams]
  /\ mainQueues \in [Streams -> MainQueue(Ids)]
  /\ registered \in [Streams -> Queues(Ids)]
  /\ running \in BOOLEAN
  /\ detector \in {"none", "ready", "closing", "closed", "freed"}
  /\ publisher \in {"none", "bound", "closed", "freed"}
  /\ thread \in [Streams -> Thread(Ids)]
  /\ callback \in [Streams -> OneCallback(Ids)]
  /\ name \in [Keys -> Ids]
  /\ segments \in Seq(SUBSET Nat)
  /\ faults \in SUBSET {"moved", "early", "late"}

\* What main's place says of the engine, and of who else runs.
Phases ==
  /\ main.pc \in Creating \cup Opening \cup Whole => running
  /\ main.pc \in Stopping \cup Removing \cup {"exited"} => ~running
  /\ main.pc = "bind" => detector = "ready"
  /\ main.pc \in Whole => detector = "ready" /\ publisher = "bound"
  /\ main.pc \notin Started => \A s \in Streams : thread[s].pc = "none" /\ callback[s].pc = "none"

\* The visible queue of a stream was created, and is mapped.
Created(s) == mainQueues[s].vis # 0 /\ mainQueues[s].visState = "mapped"

\* How far the loop that creates the queues, and the one that destroys them,
\* has come; until that, the name leads to the first queue.
MainQueues ==
  /\ main.pc \in Creating => \A s \in Streams : s < main.stream => Created(s)
  /\ main.pc = "create_uv" => mainQueues[main.stream].visState = "mapped"
  /\ main.pc \in Opening \cup Whole \cup Stopping => \A s \in Streams : Created(s)
  /\ main.pc \in Removing => \A s \in Streams :
       /\ s < main.stream => mainQueues[s].visState = "mapped"
       /\ s > main.stream => mainQueues[s].visState = "nil"
  /\ main.pc \in {"destroy_uv", "destroy_vis"} => mainQueues[main.stream].visState = "mapped"
  /\ main.pc \notin Removing \cup Ended =>
       \A s \in Streams : mainQueues[s].vis # 0 => name[<<s, "vis">>] = mainQueues[s].vis

\* The engine has the queues of the stream, those that their names lead to.
Registered(s) ==
  /\ registered[s].vis = mainQueues[s].vis /\ registered[s].vis # 0
  /\ registered[s].uv = name[<<s, "uv">>] /\ registered[s].uv # 0

\* How far the loop that registers them has come.
RegisteredQueues ==
  /\ main.pc \in Creating \cup Opening => \A s \in Streams : registered[s] = NoQueues
  /\ main.pc = "bind" => main.stream = 0
  /\ main.pc \in {"register_vis", "register_uv"} => \A s \in Streams :
       /\ s < main.stream => Registered(s)
       /\ s > main.stream => registered[s] = NoQueues
  /\ main.pc = "register_vis" => registered[main.stream] = NoQueues
  /\ main.pc = "register_uv" =>
       /\ registered[main.stream].vis \in {0, mainQueues[main.stream].vis}
       /\ registered[main.stream].uv = 0
  /\ main.pc \in {"connect", "start", "serve"} => \A s \in Streams : Registered(s)
  /\ main.pc \in Started \ Ended => \A s \in Streams :
       registered[s] # NoQueues => registered[s].vis # 0 /\ registered[s].uv # 0

\* A thread in its loop has two queues, and while main serves those that are
\* registered; an iteration began before the engine was touched.
Threads ==
  \A s \in Streams :
    /\ main.pc = "serve" => thread[s].pc \notin {"none", "done"}
    /\ thread[s].pc \notin {"none", "lookup", "done"} =>
         /\ thread[s].queues.vis # 0 /\ thread[s].queues.uv # 0
         /\ main.pc = "serve" => thread[s].queues = registered[s]
         /\ thread[s].pc # "check" => thread[s].early

\* While main serves, a callback has the segment of the name; one that saw a
\* mapping began before its queue was destroyed.
Callbacks ==
  \A s \in Streams :
    /\ callback[s].pc \in {"check_vis", "push_vis", "push_uv"} =>
         /\ callback[s].uv # 0
         /\ main.pc = "serve" => callback[s].uv = name[<<s, "uv">>]
    /\ callback[s].pc = "push_vis" => callback[s].early
    /\ callback[s].pc = "check_vis" /\ ~callback[s].early => mainQueues[s].visState = "nil"

\* The segments somebody of the stream can reach through a mapping that is used.
Reached(s) == {mainQueues[s].vis, registered[s].vis, registered[s].uv,
               thread[s].queues.vis, thread[s].queues.uv, callback[s].uv} \ {0}

\* In those no frames of earlier processes wait.
Fresh == \A s \in Streams : \A id \in Reached(s) : segments[id] \subseteq {process}

\* How far the loop that destroys the queues has come.
UvRemoved(s)  == name[<<s, "uv">>] # 0 => name[<<s, "uv">>] > mainQueues[s].uv
Removed(s)    == name[<<s, "vis">>] = 0 /\ UvRemoved(s)

Removal ==
  /\ main.pc \in Removing => \A s \in Streams : s > main.stream => Removed(s)
  /\ main.pc \in {"destroy_vis", "forget_vis"} => UvRemoved(main.stream)
  /\ main.pc = "forget_vis" => name[<<main.stream, "vis">>] = 0
  /\ main.pc = "exited" => \A s \in Streams : Removed(s)

IInv == /\ TypeOK /\ Phases /\ MainQueues /\ RegisteredQueues /\ Threads /\ Callbacks
        /\ Fresh /\ Removal /\ UseAfterFreeOnlyEarly /\ OwnFramesOnly
-----------------------------------------------------------------------------
\* Creating a queue gives the segment of its name, or a new one, and empties
\* it; no other name changes, and no segment gets a frame.
LEMMA CreateQueue ==
  ASSUME segments \in Seq(SUBSET Nat), name \in [Keys -> Ids],
         NEW key \in Keys, NEW segment, CreateFrameQueue(key, segment)
  PROVE  /\ segments' \in Seq(SUBSET Nat) /\ Ids \subseteq Ids'
         /\ name' \in [Keys -> Ids'] /\ segment \in Ids'
         /\ segment # 0 => name'[key] = segment /\ segments'[segment] = {}
         /\ name[key] # 0 => name'[key] = name[key]
         /\ name'[key] # name[key] => name'[key] = Len(segments) + 1
         /\ \A k \in Keys \ {key} : name'[k] = name[k]
         /\ \A id \in Ids \ {0} : segments'[id] \subseteq segments[id]
<1>1. CASE segment = 0 /\ UNCHANGED segmentVars
  BY <1>1 DEF segmentVars, Ids
<1>2. ASSUME NEW id, ShmQueueCreate(key, id)
      PROVE  /\ segments' \in Seq(SUBSET Nat) /\ Ids \subseteq Ids'
             /\ name' \in [Keys -> Ids'] /\ id \in Ids' \ {0}
             /\ name'[key] = id /\ segments'[id] = {}
             /\ name[key] # 0 => id = name[key]
             /\ name[key] = 0 => id = Len(segments) + 1
             /\ \A k \in Keys \ {key} : name'[k] = name[k]
             /\ \A i \in Ids \ {0} : segments'[i] \subseteq segments[i]
  <2>1. CASE name[key] # 0
    <3>1. id \in 1..Len(segments) /\ segments' = [segments EXCEPT ![id] = {}]
      BY <1>2, <2>1 DEF ShmQueueCreate, Ids
    <3>2. segments' \in Seq(SUBSET Nat) /\ Len(segments') = Len(segments)
      BY <3>1
    <3> QED BY <1>2, <2>1, <3>1, <3>2 DEF ShmQueueCreate, Ids
  <2>2. CASE name[key] = 0
    <3>1. id = Len(segments) + 1 /\ segments' = Append(segments, {})
      BY <1>2, <2>2 DEF ShmQueueCreate
    <3>2. /\ segments' \in Seq(SUBSET Nat) /\ Len(segments') = Len(segments) + 1
          /\ segments'[id] = {} /\ \A i \in 1..Len(segments) : segments'[i] = segments[i]
      BY <3>1
    <3> QED BY <1>2, <2>2, <3>1, <3>2 DEF ShmQueueCreate, Ids
  <2> QED BY <2>1, <2>2
<1>3. CASE segment = 0 /\ name[key] = 0 /\ ShmQueueCreate(key, Len(segments) + 1)
  BY <1>2, <1>3 DEF Ids
<1>4. CASE ShmQueueCreate(key, segment)
  BY <1>2, <1>4
<1> QED BY <1>1, <1>3, <1>4 DEF CreateFrameQueue

\* What is typed stays so when there are more segments.
LEMMA MoreIds ==
  ASSUME NEW I, NEW J, I \subseteq J
  PROVE  /\ [Streams -> MainQueue(I)] \subseteq [Streams -> MainQueue(J)]
         /\ [Streams -> Queues(I)] \subseteq [Streams -> Queues(J)]
         /\ [Streams -> Thread(I)] \subseteq [Streams -> Thread(J)]
         /\ [Streams -> OneCallback(I)] \subseteq [Streams -> OneCallback(J)]
BY DEF MainQueue, Queues, Thread, OneCallback

\* Putting a frame into a segment.
LEMMA PushFrame ==
  ASSUME segments \in Seq(SUBSET Nat), process \in Nat, NEW id,
         segments' = [segments EXCEPT ![id] = @ \cup {process}]
  PROVE  /\ segments' \in Seq(SUBSET Nat) /\ Len(segments') = Len(segments)
         /\ \A i \in 1..Len(segments) : segments'[i] \subseteq segments[i] \cup {process}
<1>1. /\ Len(segments) \in Nat /\ DOMAIN segments = 1..Len(segments)
      /\ \A i \in 1..Len(segments) : segments[i] \in SUBSET Nat
  OBVIOUS
<1>2. /\ DOMAIN segments' = 1..Len(segments)
      /\ \A i \in 1..Len(segments) : /\ segments'[i] \in SUBSET Nat
                                     /\ segments'[i] \subseteq segments[i] \cup {process}
  BY <1>1
<1>3. segments' \in [1..Len(segments) -> SUBSET Nat]
  BY <1>2
<1> QED BY <1>1, <1>2, <1>3

\* Every step keeps the types.
LEMMA TypeStep ==
  ASSUME TypeOK, Threads, [Next]_vars
  PROVE  TypeOK'
<1> USE LifecycleAssumption
<1>1. /\ main.stream \in Streams /\ 0 \in Streams /\ NumStreams - 1 \in Streams
      /\ main.stream + 1 < NumStreams => main.stream + 1 \in Streams
      /\ main.stream > 0 => main.stream - 1 \in Streams
      /\ \A s \in Streams : <<s, "vis">> \in Keys /\ <<s, "uv">> \in Keys
      /\ 0 \in Ids
  BY DEF TypeOK, Streams, Keys, Ids
<1>2. ASSUME UNCHANGED segments
      PROVE  Ids' = Ids
  BY <1>2 DEF Ids
<1>3. ASSUME NEW key \in Keys, NEW segment, CreateFrameQueue(key, segment)
      PROVE  /\ segments' \in Seq(SUBSET Nat) /\ name' \in [Keys -> Ids']
             /\ segment \in Ids' /\ 0 \in Ids'
             /\ mainQueues \in [Streams -> MainQueue(Ids')]
             /\ registered \in [Streams -> Queues(Ids')]
             /\ thread \in [Streams -> Thread(Ids')]
             /\ callback \in [Streams -> OneCallback(Ids')]
  <2>1. /\ segments' \in Seq(SUBSET Nat) /\ Ids \subseteq Ids'
        /\ name' \in [Keys -> Ids'] /\ segment \in Ids'
    BY <1>3, CreateQueue DEF TypeOK
  <2> QED BY <1>1, <2>1, MoreIds DEF TypeOK
<1>4. CASE UNCHANGED vars
  BY <1>2, <1>4 DEF vars, engineVars, segmentVars, TypeOK
<1>5. CASE CreateVis
  <2>1. PICK segment :
          /\ CreateFrameQueue(<<main.stream, "vis">>, segment)
          /\ mainQueues' = [mainQueues EXCEPT ![main.stream].vis = segment, ![main.stream].visState = "mapped"]
    BY <1>5 DEF CreateVis
  <2>2. mainQueues' \in [Streams -> MainQueue(Ids')]
    <3>1. segment \in Ids' /\ mainQueues \in [Streams -> MainQueue(Ids')]
      BY <1>1, <1>3, <2>1
    <3> QED BY <1>1, <2>1, <3>1 DEF MainQueue
  <2> QED BY <1>1, <1>3, <1>5, <2>1, <2>2 DEF CreateVis, engineVars, Goto, TypeOK, MainPcs, Creating
<1>6. CASE CreateUv
  <2>1. PICK segment :
          /\ CreateFrameQueue(<<main.stream, "uv">>, segment)
          /\ mainQueues' = [mainQueues EXCEPT ![main.stream].uv = segment]
    BY <1>6 DEF CreateUv
  <2>2. mainQueues' \in [Streams -> MainQueue(Ids')]
    <3>1. segment \in Ids' /\ mainQueues \in [Streams -> MainQueue(Ids')]
      BY <1>1, <1>3, <2>1
    <3> QED BY <1>1, <2>1, <3>1 DEF MainQueue
  <2>3. main' \in [pc : MainPcs, stream : Streams]
    BY <1>1, <1>6 DEF CreateUv, Goto, NextStream, TypeOK, MainPcs, Creating, Opening, Ended
  <2> QED BY <1>1, <1>3, <1>6, <2>1, <2>2, <2>3 DEF CreateUv, engineVars, TypeOK
<1>7. CASE RegisterVis
  <2>1. PICK segment :
          /\ CreateFrameQueue(<<main.stream, "vis">>, segment)
          /\ registered' = [registered EXCEPT ![main.stream].vis = segment]
    BY <1>7 DEF RegisterVis
  <2>2. registered' \in [Streams -> Queues(Ids')]
    <3>1. segment \in Ids' /\ 0 \in Ids' /\ registered \in [Streams -> Queues(Ids')]
      BY <1>1, <1>3, <2>1
    <3> QED BY <1>1, <2>1, <3>1 DEF Queues, NoQueues
  <2> QED BY <1>1, <1>3, <1>7, <2>1, <2>2 DEF RegisterVis, Goto, TypeOK, MainPcs, Whole
<1>8. CASE RegisterUv
  <2>1. PICK segment :
          /\ CreateFrameQueue(<<main.stream, "uv">>, segment)
          /\ \/ registered' = [registered EXCEPT ![main.stream] = NoQueues]
             \/ registered' = [registered EXCEPT ![main.stream].uv = segment]
    BY <1>8 DEF RegisterUv
  <2>2. registered' \in [Streams -> Queues(Ids')]
    <3>1. segment \in Ids' /\ 0 \in Ids' /\ registered \in [Streams -> Queues(Ids')]
      BY <1>1, <1>3, <2>1
    <3> QED BY <1>1, <2>1, <3>1 DEF Queues, NoQueues
  <2>3. main' \in [pc : MainPcs, stream : Streams]
    BY <1>1, <1>8 DEF RegisterUv, NextStream, TypeOK, MainPcs, Whole
  <2> QED BY <1>1, <1>3, <1>8, <2>1, <2>2, <2>3 DEF RegisterUv, TypeOK
<1>9. ASSUME NEW s \in Streams, Callback(s)
      PROVE  TypeOK'
  <2>1. PICK segment :
          /\ CreateFrameQueue(<<s, "uv">>, segment)
          /\ callback' = [callback EXCEPT ![s] =
                            [pc |-> IF segment = 0 THEN "idle" ELSE "check_vis",
                             uv |-> segment, early |-> mainQueues[s].visState # "nil"]]
    BY <1>9 DEF Callback
  <2>2. callback' \in [Streams -> OneCallback(Ids')]
    <3>1. segment \in Ids' /\ callback \in [Streams -> OneCallback(Ids')]
      BY <1>1, <1>3, <2>1
    <3> QED BY <2>1, <3>1 DEF OneCallback, CallbackPcs
  <2> QED BY <1>1, <1>3, <1>9, <2>1, <2>2 DEF Callback, Defined, engineVars, TypeOK
<1>22. CASE InitDetector
  <2>1. main' \in [pc : MainPcs, stream : Streams]
    BY <1>1, <1>22 DEF InitDetector, InitStream, Goto, NextStream, TypeOK, MainPcs, Opening, Ended
  <2>2. faults' \in SUBSET {"moved", "early", "late"} /\ detector' \in {"none", "ready", detector}
    BY <1>22 DEF InitDetector, InitStream, TypeOK
  <2> QED BY <1>2, <1>22, <2>1, <2>2 DEF InitDetector, segmentVars, TypeOK
<1>10. CASE BindPublisher \/ Connect \/ Signal \/ StopRunning
  BY <1>2, <1>10 DEF BindPublisher, Connect, Signal, StopRunning, Goto, engineVars,
     segmentVars, TypeOK, MainPcs, Opening, Whole, Stopping, Ended
<1>11. CASE Start
  <2>1. thread' \in [Streams -> Thread(Ids)] /\ callback' \in [Streams -> OneCallback(Ids)]
    BY <1>1, <1>11 DEF Start, Thread, OneCallback, NoThread, NoCallback, NoQueues, Queues, ThreadPcs, CallbackPcs
  <2> QED BY <1>2, <1>11, <2>1 DEF Start, Goto, engineVars, segmentVars, TypeOK, MainPcs, Whole
<1>12. CASE CloseDetector \/ DeleteDetector \/ ClosePublisher \/ DeletePublisher
  BY <1>2, <1>12 DEF CloseDetector, DeleteDetector, ClosePublisher, DeletePublisher, Goto,
     segmentVars, TypeOK, MainPcs, Stopping
<1>13. CASE ClearQueues
  <2>1. registered' \in [Streams -> Queues(Ids)]
    BY <1>1, <1>13 DEF ClearQueues, Queues, NoQueues
  <2> QED BY <1>1, <1>2, <1>13, <2>1 DEF ClearQueues, segmentVars, TypeOK, MainPcs, Removing
<1>14. CASE DestroyUv \/ DestroyVis \/ ForgetVis
  <2>1. mainQueues' \in [Streams -> MainQueue(Ids)]
    <3>1. CASE DestroyUv
      BY <3>1 DEF DestroyUv, TypeOK
    <3>2. ASSUME NEW v \in {"nil", "unmapped"}, mainQueues' = [mainQueues EXCEPT ![main.stream].visState = v]
          PROVE  mainQueues' \in [Streams -> MainQueue(Ids)]
      <4>1. mainQueues \in [Streams -> MainQueue(Ids)]
        BY DEF TypeOK
      <4> QED BY <1>1, <3>2, <4>1 DEF MainQueue
    <3> QED BY <1>14, <3>1, <3>2 DEF DestroyVis, ForgetVis
  <2>2. main' \in [pc : MainPcs, stream : Streams]
    BY <1>1, <1>14 DEF DestroyUv, DestroyVis, ForgetVis, Goto, TypeOK, MainPcs, Removing, Ended
  <2>3. name' \in [Keys -> Ids]
    BY <1>1, <1>14 DEF DestroyUv, DestroyVis, ForgetVis, Unlink, segmentVars, TypeOK
  <2> QED BY <1>2, <1>14, <2>1, <2>2, <2>3 DEF DestroyUv, DestroyVis, ForgetVis, engineVars, segmentVars, TypeOK
<1>15. ASSUME NEW s \in Streams, Lookup(s) \/ CheckRunning(s)
       PROVE  TypeOK'
  <2>1. registered[s] \in Queues(Ids)
    BY DEF TypeOK
  <2>2. thread' \in [Streams -> Thread(Ids)]
    <3>1. thread \in [Streams -> Thread(Ids)]
      BY DEF TypeOK
    <3>2. CASE Lookup(s)
      <4>1. PICK pc \in ThreadPcs : thread' = [thread EXCEPT ![s].pc = pc, ![s].queues = registered[s]]
        BY <3>2 DEF Lookup, ThreadPcs
      <4> QED BY <2>1, <3>1, <4>1 DEF Thread
    <3>3. CASE CheckRunning(s)
      <4>1. PICK pc \in ThreadPcs, early \in BOOLEAN :
              thread' = [thread EXCEPT ![s].pc = pc, ![s].hand = {}, ![s].early = early]
        BY <3>3 DEF CheckRunning, ThreadPcs
      <4> QED BY <3>1, <4>1 DEF Thread
    <3> QED BY <1>15, <3>2, <3>3
  <2> QED BY <1>2, <1>15, <2>2 DEF Lookup, CheckRunning, Defined, engineVars, segmentVars, TypeOK
<1>16. ASSUME NEW s \in Streams, NEW segment \in Ids \ {0}, NEW from, NEW found \in SUBSET ThreadPcs,
              Pop(s, from, segment, found)
       PROVE  TypeOK'
  <2>1. /\ segments' \in Seq(SUBSET Nat) /\ Len(segments') = Len(segments)
        /\ thread' \in [Streams -> Thread(Ids)]
    <3>1. CASE segments[segment] = {}
      <4>1. /\ thread \in [Streams -> Thread(Ids)] /\ segments \in Seq(SUBSET Nat)
            /\ UNCHANGED segments /\ thread' = [thread EXCEPT ![s].pc = "check"]
        BY <1>16, <3>1 DEF Pop, TypeOK
      <4> QED BY SMTT(40), <4>1 DEF Thread, ThreadPcs
    <3>2. CASE segments[segment] # {}
      <4>1. PICK p \in segments[segment], to \in found, left \in {{}, segments[segment]} :
                   /\ thread' = [thread EXCEPT ![s].pc = to, ![s].hand = @ \cup {p}]
                   /\ segments' = [segments EXCEPT ![segment] = @ \ ({p} \ left)]
        BY <1>16, <3>2 DEF Pop
      <4>2. thread \in [Streams -> Thread(Ids)] /\ segments \in Seq(SUBSET Nat) /\ to \in ThreadPcs
        BY <1>16 DEF TypeOK
      <4>3. segment \in 1..Len(segments)
        BY <1>16 DEF Ids
      <4>4. p \in Nat
        BY <4>2, <4>3
      <4>5. thread' \in [Streams -> Thread(Ids)]
        BY <4>1, <4>2, <4>4 DEF Thread
      <4> QED BY <4>1, <4>2, <4>3, <4>5
    <3> QED BY <3>1, <3>2
  <2>2. Ids' = Ids
    BY <2>1 DEF Ids
  <2> QED BY <1>16, <2>1, <2>2 DEF Pop, Defined, engineVars, TypeOK
<1>17. ASSUME NEW s \in Streams, PopVis(s) \/ PopUv(s)
       PROVE  TypeOK'
  <2>1. thread[s].queues.vis \in Ids \ {0} /\ thread[s].queues.uv \in Ids \ {0}
    BY <1>17 DEF TypeOK, Thread, Queues, Threads, PopVis, PopUv, Pop
  <2>2. {"pop_uv"} \in SUBSET ThreadPcs /\ {"check", "process"} \in SUBSET ThreadPcs
    BY DEF ThreadPcs
  <2> QED BY <1>16, <1>17, <2>1, <2>2 DEF PopVis, PopUv
<1>18. ASSUME NEW s \in Streams,
              ProcessFrame(s) \/ CallDetect(s) \/ Detect(s) \/ Publish(s) \/ CallPublish(s) \/ Send(s)
       PROVE  TypeOK'
  <2>1. PICK from \in ThreadPcs, to \in ThreadPcs : ThreadStep(s, from, to)
    BY <1>18 DEF ProcessFrame, CallDetect, Detect, Publish, CallPublish, Send, ThreadPcs
  <2>2. thread' \in [Streams -> Thread(Ids)]
    BY SMTT(40), <2>1 DEF ThreadStep, TypeOK, Thread
  <2>3. faults' \in SUBSET {"moved", "early", "late"} /\ main' \in [pc : MainPcs, stream : Streams]
    BY <1>18 DEF ProcessFrame, CallDetect, Detect, Publish, CallPublish, Send, Undefined, Defined, Goto,
       TypeOK, MainPcs, Ended
  <2> QED BY <1>2, <2>1, <2>2, <2>3 DEF ThreadStep, engineVars, segmentVars, TypeOK
<1>19. ASSUME NEW s \in Streams, CheckVis(s) \/ PushVis(s) \/ PushUv(s)
       PROVE  TypeOK'
  <2>1. PICK from \in CallbackPcs, to \in CallbackPcs : CallbackStep(s, from, to)
    BY <1>19 DEF CheckVis, PushVis, PushUv, CallbackPcs
  <2>2. callback' \in [Streams -> OneCallback(Ids)]
    BY <2>1 DEF CallbackStep, TypeOK, OneCallback
  <2>3. faults' \in SUBSET {"moved", "early", "late"} /\ main' \in [pc : MainPcs, stream : Streams]
    BY <1>19 DEF CheckVis, PushVis, PushUv, Undefined, Defined, Goto, TypeOK, MainPcs, Ended
  <2>4. segments' \in Seq(SUBSET Nat) /\ Len(segments') = Len(segments)
    BY <1>19, PushFrame DEF CheckVis, PushVis, PushUv, TypeOK
  <2>5. Ids' = Ids
    BY <2>4 DEF Ids
  <2> QED BY <2>1, <2>2, <2>3, <2>4, <2>5 DEF CallbackStep, engineVars, TypeOK
<1>20. CASE Die
  BY <1>2, <1>20 DEF Die, engineVars, segmentVars, TypeOK, MainPcs, Ended
<1>21. CASE Restart
  <2>1. Ids' = Ids
    BY <1>21 DEF Ids, Restart, segmentVars
  <2> QED BY <1>1, <1>21, <2>1 DEF Restart, segmentVars, NoQueues, NoThread, NoCallback, TypeOK, MainPcs, Creating,
          Queues, MainQueue, Thread, OneCallback, ThreadPcs, CallbackPcs
<1> QED
  BY <1>4, <1>5, <1>6, <1>7, <1>8, <1>9, <1>10, <1>11, <1>12, <1>13, <1>14, <1>15, <1>17, <1>18, <1>19, <1>20, <1>21,
     <1>22
  DEF Next, Main

LEMMA PhasesStep ==
  ASSUME IInv, [Next]_vars
  PROVE  Phases'
<1> USE DEF IInv, Phases, Creating, Opening, Whole, Stopping, Removing, Ended, Started
<1>. main \in [pc : MainPcs, stream : Streams]
  BY DEF TypeOK
<1>1. CASE UNCHANGED vars
  BY <1>1 DEF vars, engineVars, segmentVars
<1>2. CASE CreateVis \/ CreateUv \/ InitDetector \/ BindPublisher
  BY <1>2 DEF CreateVis, CreateUv, InitDetector, InitStream, BindPublisher, Goto, NextStream, engineVars
<1>3. CASE RegisterVis \/ RegisterUv \/ Connect \/ Start \/ Signal \/ StopRunning
  BY <1>3 DEF RegisterVis, RegisterUv, Connect, Start, Signal, StopRunning, Goto, NextStream, engineVars
<1>4. CASE CloseDetector \/ DeleteDetector \/ ClosePublisher \/ DeletePublisher \/ ClearQueues
  BY <1>4 DEF CloseDetector, DeleteDetector, ClosePublisher, DeletePublisher, ClearQueues, Goto
<1>5. CASE DestroyUv \/ DestroyVis \/ ForgetVis
  BY <1>5 DEF DestroyUv, DestroyVis, ForgetVis, Goto, engineVars
<1>6. ASSUME NEW s \in Streams, Lookup(s) \/ CheckRunning(s) \/ PopVis(s) \/ PopUv(s)
      PROVE  Phases'
  <2>1. thread[s].pc # "none"
    BY <1>6 DEF Lookup, CheckRunning, PopVis, PopUv, Pop
  <2>2. main.pc \in Started
    BY <2>1
  <2>3. UNCHANGED <<main, running, detector, publisher>>
    BY <1>6 DEF Lookup, CheckRunning, PopVis, PopUv, Pop, Defined, engineVars
  <2> QED BY <2>2, <2>3
<1>7. ASSUME NEW s \in Streams,
             ProcessFrame(s) \/ CallDetect(s) \/ Detect(s) \/ Publish(s) \/ CallPublish(s) \/ Send(s)
      PROVE  Phases'
  BY <1>7 DEF ProcessFrame, CallDetect, Detect, Publish, CallPublish, Send, ThreadStep, Undefined, Defined, Alive, Goto, engineVars, TypeOK
<1>8. ASSUME NEW s \in Streams, Callback(s) \/ CheckVis(s) \/ PushVis(s) \/ PushUv(s)
      PROVE  Phases'
  BY <1>8 DEF Callback, CheckVis, PushVis, PushUv, CallbackStep, Undefined, Defined, Alive, Goto, engineVars, TypeOK
<1>9. CASE Die \/ Restart
  BY <1>9 DEF Die, Restart, NoThread, NoCallback, engineVars
<1> QED
  BY <1>1, <1>2, <1>3, <1>4, <1>5, <1>6, <1>7, <1>8, <1>9 DEF Next, Main

\* What the creation of a queue of a stream does to the names.
LEMMA CreateNames ==
  ASSUME TypeOK, NEW s \in Streams, NEW camera \in {"vis", "uv"}, NEW segment,
         CreateFrameQueue(<<s, camera>>, segment)
  PROVE  /\ segment # 0 => name'[<<s, camera>>] = segment
         /\ \A t \in Streams, c \in {"vis", "uv"} :
              /\ name[<<t, c>>] # 0 => name'[<<t, c>>] = name[<<t, c>>]
              /\ name'[<<t, c>>] # name[<<t, c>>] =>
                   t = s /\ c = camera /\ name'[<<t, c>>] = Len(segments) + 1
<1>1. \A t \in Streams, c \in {"vis", "uv"} :
        /\ <<t, c>> \in Keys
        /\ <<t, c>> = <<s, camera>> <=> t = s /\ c = camera
  BY DEF Keys
<1>2. /\ segment # 0 => name'[<<s, camera>>] = segment
      /\ name[<<s, camera>>] # 0 => name'[<<s, camera>>] = name[<<s, camera>>]
      /\ name'[<<s, camera>>] # name[<<s, camera>>] => name'[<<s, camera>>] = Len(segments) + 1
      /\ \A k \in Keys \ {<<s, camera>>} : name'[k] = name[k]
  BY <1>1, CreateQueue DEF TypeOK
<1> QED BY <1>1, <1>2

\* The order in which main's loops take the streams.
LEMMA StreamOrder == \A s, t \in Streams : s # t => s < t \/ s > t
BY LifecycleAssumption DEF Streams

LEMMA MainQueuesStep ==
  ASSUME IInv, [Next]_vars
  PROVE  MainQueues'
<1> USE DEF IInv, MainQueues, Created, Creating, Opening, Whole, Stopping, Removing, Ended
<1>. /\ main \in [pc : MainPcs, stream : Streams]
     /\ mainQueues \in [Streams -> MainQueue(Ids)]
     /\ \A s \in Streams : s \in Nat /\ s < NumStreams
     /\ NumStreams \in Nat
  BY LifecycleAssumption DEF TypeOK, Streams
<1>1. CASE UNCHANGED vars
  BY <1>1 DEF vars, engineVars, segmentVars
<1>2. CASE CreateVis
  <2>1. PICK segment :
          /\ CreateFrameQueue(<<main.stream, "vis">>, segment)
          /\ mainQueues' = [mainQueues EXCEPT ![main.stream].vis = segment, ![main.stream].visState = "mapped"]
    BY <1>2 DEF CreateVis
  <2>2. /\ segment # 0 => name'[<<main.stream, "vis">>] = segment
        /\ \A t \in Streams : name[<<t, "vis">>] # 0 => name'[<<t, "vis">>] = name[<<t, "vis">>]
    BY <2>1, CreateNames
  <2>3. /\ \A t \in Streams \ {main.stream} : mainQueues'[t] = mainQueues[t]
        /\ mainQueues'[main.stream].vis = segment /\ mainQueues'[main.stream].visState = "mapped"
    BY <2>1 DEF MainQueue
  <2> QED BY <1>2, <2>2, <2>3 DEF CreateVis, Goto
<1>3. CASE CreateUv
  <2>1. PICK segment :
          /\ CreateFrameQueue(<<main.stream, "uv">>, segment)
          /\ mainQueues' = [mainQueues EXCEPT ![main.stream].uv = segment]
    BY <1>3 DEF CreateUv
  <2>2. \A t \in Streams : name[<<t, "vis">>] # 0 => name'[<<t, "vis">>] = name[<<t, "vis">>]
    BY <2>1, CreateNames
  <2>3. \A t \in Streams : mainQueues'[t].vis = mainQueues[t].vis /\ mainQueues'[t].visState = mainQueues[t].visState
    BY <2>1 DEF MainQueue
  <2> QED BY <1>3, <2>2, <2>3 DEF CreateUv, Goto, NextStream
<1>4. CASE RegisterVis \/ RegisterUv
  <2>1. \A t \in Streams : name[<<t, "vis">>] # 0 => name'[<<t, "vis">>] = name[<<t, "vis">>]
    BY <1>4, CreateNames DEF RegisterVis, RegisterUv
  <2> QED BY <1>4, <2>1 DEF RegisterVis, RegisterUv, Goto, NextStream
<1>5. CASE InitDetector \/ BindPublisher \/ Connect \/ Start \/ Signal \/ StopRunning
  BY <1>5 DEF InitDetector, InitStream, BindPublisher, Connect, Start, Signal, StopRunning, Goto, NextStream, segmentVars
<1>6. CASE CloseDetector \/ DeleteDetector \/ ClosePublisher \/ DeletePublisher
  BY <1>6 DEF CloseDetector, DeleteDetector, ClosePublisher, DeletePublisher, Goto, segmentVars
<1>7. CASE ClearQueues
  <2>1. /\ main.pc = "clear" /\ main'.pc = "destroy_uv" /\ main'.stream = NumStreams - 1
        /\ UNCHANGED mainQueues
    BY <1>7 DEF ClearQueues
  <2>2. NumStreams - 1 \in Streams /\ \A s \in Streams : s \in Int /\ s <= NumStreams - 1
    BY LifecycleAssumption DEF Streams
  <2> QED BY <2>1, <2>2
<1>8. CASE DestroyUv
  BY <1>8 DEF DestroyUv, Goto
<1>9. CASE DestroyVis
  <2>1. /\ main.pc = "destroy_vis" /\ main'.pc = "forget_vis" /\ main'.stream = main.stream
    BY <1>9 DEF DestroyVis, Goto
  <2>2. \A t \in Streams \ {main.stream} : mainQueues'[t] = mainQueues[t]
    BY <1>9 DEF DestroyVis
  <2> QED BY <2>1, <2>2
<1>10. CASE ForgetVis
  <2>1. /\ main.pc = "forget_vis"
        /\ \/ main'.pc = "destroy_uv" /\ main'.stream = main.stream - 1 /\ main.stream > 0
           \/ main'.pc = "exited"
    BY <1>10 DEF ForgetVis
  <2>2. /\ \A t \in Streams \ {main.stream} : mainQueues'[t] = mainQueues[t]
        /\ mainQueues'[main.stream].visState = "nil"
    BY <1>10 DEF ForgetVis, MainQueue
  <2>3. main.stream > 0 => main.stream - 1 \in Streams /\ main.stream - 1 < main.stream
    BY DEF Streams
  <2> QED BY <2>1, <2>2, <2>3
<1>11. ASSUME NEW s \in Streams, Callback(s)
      PROVE  MainQueues'
  <2>1. \A t \in Streams : name[<<t, "vis">>] # 0 => name'[<<t, "vis">>] = name[<<t, "vis">>]
    BY <1>11, CreateNames DEF Callback
  <2> QED BY <1>11, <2>1 DEF Callback, Defined
<1>12. ASSUME UNCHANGED <<name, mainQueues>>, UNCHANGED main \/ Goto("dead")
      PROVE  MainQueues'
  BY <1>12 DEF Goto
<1>13. ASSUME NEW s \in Streams, Lookup(s) \/ CheckRunning(s) \/ PopVis(s) \/ PopUv(s)
       PROVE  MainQueues'
  BY <1>12, <1>13 DEF Lookup, CheckRunning, PopVis, PopUv, Pop, Defined, segmentVars
<1>14. ASSUME NEW s \in Streams,
              ProcessFrame(s) \/ CallDetect(s) \/ Detect(s) \/ Publish(s) \/ CallPublish(s) \/ Send(s)
       PROVE  MainQueues'
  BY <1>12, <1>14 DEF ProcessFrame, CallDetect, Detect, Publish, CallPublish, Send, ThreadStep, Undefined, Defined, segmentVars
<1>15. ASSUME NEW s \in Streams, CheckVis(s) \/ PushVis(s) \/ PushUv(s)
       PROVE  MainQueues'
  BY <1>12, <1>15 DEF CheckVis, PushVis, PushUv, CallbackStep, Undefined, Defined
<1>16. CASE Die \/ Restart
  BY <1>16 DEF Die, Restart
<1> QED
  BY <1>1, <1>2, <1>3, <1>4, <1>5, <1>6, <1>7, <1>11, <1>13, <1>14, <1>15, <1>16,
     <1>8, <1>9, <1>10 DEF Next, Main

LEMMA RegisteredStep ==
  ASSUME IInv, [Next]_vars
  PROVE  RegisteredQueues'
<1> USE DEF IInv, RegisteredQueues, Registered, Creating, Opening, Whole, Stopping, Removing, Ended, Started
<1>. /\ main \in [pc : MainPcs, stream : Streams]
     /\ registered \in [Streams -> Queues(Ids)]
     /\ \A s \in Streams : s \in Nat /\ s < NumStreams
     /\ NumStreams \in Nat
     /\ main.stream \in Streams /\ main.stream \in Nat
  BY LifecycleAssumption DEF TypeOK, Streams
<1>1. CASE UNCHANGED vars
  BY <1>1 DEF vars, engineVars, segmentVars
<1>2. CASE CreateVis \/ CreateUv
  <2>1. /\ main.pc \in Creating /\ main'.pc \in Creating \cup {"init", "dead"}
        /\ main'.pc = "init" => main'.stream = 0
        /\ UNCHANGED registered
    BY <1>2 DEF CreateVis, CreateUv, Goto, NextStream, engineVars
  <2> QED BY <2>1
<1>3. CASE InitDetector \/ BindPublisher
  <2>1. /\ main.pc \in Opening /\ main'.pc \in Opening \cup {"register_vis", "dead"}
        /\ main'.pc = "bind" => main'.stream = 0
        /\ main'.pc = "register_vis" => main.pc = "bind" /\ main'.stream = main.stream
        /\ UNCHANGED registered
    BY <1>3 DEF InitDetector, InitStream, BindPublisher, Goto, NextStream, engineVars
  <2> QED BY <2>1
<1>4. CASE RegisterVis
  <2>1. PICK segment :
          /\ CreateFrameQueue(<<main.stream, "vis">>, segment)
          /\ registered' = [registered EXCEPT ![main.stream].vis = segment]
    BY <1>4 DEF RegisterVis
  <2>2. /\ segment # 0 => name'[<<main.stream, "vis">>] = segment
        /\ \A t \in Streams : name[<<t, "vis">>] # 0 => name'[<<t, "vis">>] = name[<<t, "vis">>]
    BY <2>1, CreateNames
  <2>3. \A t \in Streams : name[<<t, "uv">>] # 0 => name'[<<t, "uv">>] = name[<<t, "uv">>]
    BY <2>1, CreateNames
  <2>4. segment \in {0, mainQueues[main.stream].vis}
    BY <1>4, <2>2 DEF RegisterVis, MainQueues, Created
  <2>5. /\ \A t \in Streams \ {main.stream} : registered'[t] = registered[t]
        /\ registered'[main.stream].vis = segment
        /\ registered'[main.stream].uv = registered[main.stream].uv
    BY <2>1 DEF Queues
  <2>6. /\ main.pc = "register_vis" /\ main'.pc = "register_uv" /\ main'.stream = main.stream
        /\ UNCHANGED mainQueues
    BY <1>4 DEF RegisterVis, Goto
  <2> QED BY <2>2, <2>4, <2>5, <2>6, <2>3 DEF NoQueues
<1>5. CASE RegisterUv
  <2>1. PICK segment :
          /\ CreateFrameQueue(<<main.stream, "uv">>, segment)
          /\ IF registered[main.stream].vis = 0 \/ segment = 0
             THEN /\ registered' = [registered EXCEPT ![main.stream] = NoQueues]
                  /\ main' = [pc |-> "stop", stream |-> 0]
             ELSE /\ registered' = [registered EXCEPT ![main.stream].uv = segment]
                  /\ NextStream("register_vis", "connect")
    BY <1>5 DEF RegisterUv
  <2>2. CreateFrameQueue(<<main.stream, "uv">>, segment)
    BY <2>1
  <2>3. segment # 0 => name'[<<main.stream, "uv">>] = segment
    BY <2>2, CreateQueue DEF Keys, TypeOK
  <2>4. \A t \in Streams : name[<<t, "uv">>] # 0 => name'[<<t, "uv">>] = name[<<t, "uv">>]
    BY <2>1, CreateNames
  <2>5. \A t \in Streams \ {main.stream} : registered'[t] = registered[t]
    BY <2>1 DEF Queues
  <2>6. CASE registered[main.stream].vis = 0 \/ segment = 0
    <3>1. /\ main.pc = "register_uv" /\ main'.pc = "stop"
          /\ registered'[main.stream] = NoQueues
      BY <1>5, <2>1, <2>6 DEF RegisterUv
    <3>2. \A s \in Streams : registered'[s] = NoQueues \/ (registered'[s] = registered[s] /\ Registered(s))
      <4>1. \A s \in Streams : s > main.stream => registered[s] = NoQueues
        BY <3>1
      <4>2. \A s \in Streams : s < main.stream => Registered(s)
        BY <3>1
      <4> QED BY <2>5, <3>1, <4>1, <4>2, StreamOrder
    <3> QED BY <3>1, <3>2
  <2>7. CASE ~(registered[main.stream].vis = 0 \/ segment = 0)
    <3>1. registered'[main.stream].vis = registered[main.stream].vis /\ registered'[main.stream].uv = segment
      BY <2>1, <2>7 DEF Queues
    <3>2. /\ main.pc = "register_uv" /\ UNCHANGED mainQueues
          /\ \/ main'.pc = "register_vis" /\ main'.stream = main.stream + 1
             \/ main'.pc = "connect" /\ main.stream + 1 >= NumStreams
      BY <1>5, <2>1, <2>7 DEF RegisterUv, NextStream
    <3>3. \A s \in Streams : s <= main.stream => s < main.stream \/ s = main.stream
      BY DEF Streams
    <3>4. \A s \in Streams : s <= main.stream => Registered(s)'
      BY <2>3, <2>5, <2>7, <2>4, <3>1, <3>2, <3>3
    <3>5. \A s \in Streams : s > main.stream => registered'[s] = NoQueues
      BY <2>5, <3>2
    <3>6. CASE main'.pc = "register_vis"
      <4>1. \A s \in Streams : /\ s < main'.stream => s <= main.stream
                               /\ s >= main'.stream => s > main.stream
        BY <3>2, <3>6 DEF Streams
      <4>2. main'.stream \in Streams
        BY TypeStep DEF TypeOK
      <4> QED BY <3>4, <3>5, <3>6, <4>1, <4>2
    <3>7. CASE main'.pc = "connect"
      BY <3>2, <3>4, <3>7 DEF Streams
    <3> QED BY <3>2, <3>6, <3>7
  <2> QED BY <2>6, <2>7
<1>6. CASE Connect \/ Start \/ Signal \/ StopRunning
  BY ZenonT(40), <1>6 DEF Connect, Start, Signal, StopRunning, Goto, segmentVars, engineVars, MainQueues, Created
<1>7. CASE CloseDetector \/ DeleteDetector \/ ClosePublisher \/ DeletePublisher \/ ClearQueues
  BY <1>7 DEF CloseDetector, DeleteDetector, ClosePublisher, DeletePublisher, ClearQueues, Goto, segmentVars
<1>8. CASE DestroyUv \/ DestroyVis \/ ForgetVis
  BY <1>8 DEF DestroyUv, DestroyVis, ForgetVis, Goto, engineVars
<1>9. ASSUME NEW s \in Streams, Callback(s)
      PROVE  RegisteredQueues'
  <2>1. \A t \in Streams : name[<<t, "uv">>] # 0 => name'[<<t, "uv">>] = name[<<t, "uv">>]
    BY <1>9, CreateNames DEF Callback
  <2> QED BY <1>9, <2>1 DEF Callback, Defined, engineVars
<1>10. ASSUME UNCHANGED <<name, mainQueues, registered>>, UNCHANGED main \/ Goto("dead")
      PROVE  RegisteredQueues'
  BY <1>10 DEF Goto
<1>11. ASSUME NEW s \in Streams, Lookup(s) \/ CheckRunning(s) \/ PopVis(s) \/ PopUv(s)
       PROVE  RegisteredQueues'
  BY <1>10, <1>11 DEF Lookup, CheckRunning, PopVis, PopUv, Pop, Defined, segmentVars, engineVars
<1>12. ASSUME NEW s \in Streams,
              ProcessFrame(s) \/ CallDetect(s) \/ Detect(s) \/ Publish(s) \/ CallPublish(s) \/ Send(s)
       PROVE  RegisteredQueues'
  BY <1>10, <1>12 DEF ProcessFrame, CallDetect, Detect, Publish, CallPublish, Send, ThreadStep, Undefined, Defined,
     segmentVars, engineVars
<1>13. ASSUME NEW s \in Streams, CheckVis(s) \/ PushVis(s) \/ PushUv(s)
       PROVE  RegisteredQueues'
  BY <1>10, <1>13 DEF CheckVis, PushVis, PushUv, CallbackStep, Undefined, Defined, engineVars
<1>14. CASE Die \/ Restart
  BY <1>14 DEF Die, Restart, engineVars
<1> QED
  BY <1>1, <1>2, <1>4, <1>5, <1>6, <1>7, <1>8, <1>9, <1>11, <1>12, <1>13, <1>14, <1>3 DEF Next, Main

LEMMA ThreadsStep ==
  ASSUME IInv, [Next]_vars
  PROVE  Threads'
<1> USE DEF IInv, Threads
<1>. /\ thread \in [Streams -> Thread(Ids)]
     /\ main \in [pc : MainPcs, stream : Streams]
  BY DEF TypeOK
<1>1. ASSUME UNCHANGED thread, UNCHANGED <<main, registered>> \/ main'.pc # "serve"
      PROVE  Threads'
  BY <1>1
<1>2. CASE UNCHANGED vars
  BY <1>1, <1>2 DEF vars, engineVars
<1>3. CASE CreateVis \/ CreateUv \/ InitDetector \/ BindPublisher \/ RegisterVis \/ RegisterUv \/ Connect
  BY <1>1, <1>3 DEF CreateVis, CreateUv, InitDetector, InitStream, BindPublisher, RegisterVis, RegisterUv, Connect, Goto, NextStream
<1>4. CASE Start
  <2>1. \A s \in Streams : thread'[s].pc = "lookup"
    BY <1>4 DEF Start, NoThread
  <2> QED BY <2>1
<1>5. CASE Signal \/ StopRunning \/ CloseDetector \/ DeleteDetector \/ ClosePublisher \/ DeletePublisher
  BY <1>1, <1>5 DEF Signal, StopRunning, CloseDetector, DeleteDetector, ClosePublisher, DeletePublisher, Goto
<1>6. CASE ClearQueues \/ DestroyUv \/ DestroyVis \/ ForgetVis
  BY <1>1, <1>6 DEF ClearQueues, DestroyUv, DestroyVis, ForgetVis, Goto
<1>7. ASSUME NEW s \in Streams, thread[s].pc # "none", Alive
      PROVE  main.pc \in Started \ Ended
  BY <1>7 DEF Phases, Alive, Ended
<1>8. ASSUME NEW s \in Streams, Lookup(s)
      PROVE  Threads'
  <2>1. /\ \A t \in Streams \ {s} : thread'[t] = thread[t]
        /\ thread'[s].queues = registered[s]
        /\ thread'[s].pc = IF registered[s] = NoQueues THEN "done" ELSE "check"
        /\ UNCHANGED <<main, registered>>
    BY <1>8 DEF Lookup, Defined, engineVars, Thread
  <2>2. /\ registered[s] # NoQueues => registered[s].vis # 0 /\ registered[s].uv # 0
        /\ main.pc = "serve" => registered[s] # NoQueues
    <3>1. main.pc \in Started \ Ended
      BY <1>7, <1>8 DEF Lookup
    <3>2. registered[s] # NoQueues => registered[s].vis # 0 /\ registered[s].uv # 0
      BY <3>1 DEF RegisteredQueues
    <3>3. main.pc = "serve" => registered[s].vis # 0
      BY DEF RegisteredQueues, Registered
    <3> QED BY <3>2, <3>3 DEF NoQueues
  <2> QED BY <2>1, <2>2
<1>9. ASSUME NEW s \in Streams, CheckRunning(s)
      PROVE  Threads'
  <2>1. /\ \A t \in Streams \ {s} : thread'[t] = thread[t]
        /\ thread[s].pc = "check" /\ thread'[s].queues = thread[s].queues
        /\ thread'[s].pc = IF running THEN "pop_vis" ELSE "done"
        /\ thread'[s].early = (detector = "ready" /\ publisher = "bound")
        /\ UNCHANGED <<main, registered>>
    BY <1>9 DEF CheckRunning, Defined, engineVars, Thread
  <2>2. /\ running => detector = "ready" /\ publisher = "bound"
        /\ main.pc = "serve" => running
    BY <1>7, <1>9, <2>1 DEF CheckRunning, Phases, Started, Whole, Ended
  <2> QED BY ZenonT(40), <2>1, <2>2
<1>10. ASSUME NEW s \in Streams,
              \A t \in Streams \ {s} : thread'[t] = thread[t],
              thread[s].pc \notin {"none", "lookup", "done", "check"},
              thread'[s].pc \notin {"none", "lookup", "done"},
              thread'[s].queues = thread[s].queues, thread'[s].early = thread[s].early,
              UNCHANGED registered, UNCHANGED main \/ Goto("dead")
       PROVE  Threads'
  BY <1>10 DEF Goto
<1>11. ASSUME NEW s \in Streams, PopVis(s) \/ PopUv(s)
       PROVE  Threads'
  <2>1. PICK from \in {"pop_vis", "pop_uv"}, found \in SUBSET {"pop_uv", "check", "process"}, segment \in Ids :
          Pop(s, from, segment, found)
    BY <1>11 DEF PopVis, PopUv, Thread, Queues
  <2>2. /\ \A t \in Streams \ {s} : thread'[t] = thread[t]
        /\ thread[s].pc = from /\ thread'[s].pc \in {"pop_uv", "check", "process"}
        /\ thread'[s].queues = thread[s].queues /\ thread'[s].early = thread[s].early
        /\ UNCHANGED <<main, registered>>
    <3>1. CASE segments[segment] = {}
      BY <2>1, <3>1 DEF Pop, Defined, engineVars, Thread
    <3>2. CASE segments[segment] # {}
      <4>1. PICK p \in segments[segment], to \in found :
              thread' = [thread EXCEPT ![s].pc = to, ![s].hand = @ \cup {p}]
        BY <2>1, <3>2 DEF Pop
      <4>2. /\ \A t \in Streams \ {s} : thread'[t] = thread[t]
            /\ thread'[s].pc = to
            /\ thread'[s].queues = thread[s].queues /\ thread'[s].early = thread[s].early
        BY <4>1 DEF Thread
      <4> QED BY <2>1, <4>1, <4>2 DEF Pop, Defined, engineVars
    <3> QED BY <3>1, <3>2
  <2> QED BY <1>10, <2>2
<1>12. ASSUME NEW s \in Streams,
              ProcessFrame(s) \/ CallDetect(s) \/ Detect(s) \/ Publish(s) \/ CallPublish(s) \/ Send(s)
       PROVE  Threads'
  <2>1. PICK from \in {"process", "call_detect", "detect", "publish", "call_publish", "send"},
             to \in {"check", "call_detect", "detect", "publish", "call_publish", "send"} : ThreadStep(s, from, to)
    BY <1>12 DEF ProcessFrame, CallDetect, Detect, Publish, CallPublish, Send
  <2>2. /\ \A t \in Streams \ {s} : thread'[t] = thread[t]
        /\ thread[s].pc = from /\ thread'[s].pc = to
        /\ thread'[s].queues = thread[s].queues /\ thread'[s].early = thread[s].early
        /\ UNCHANGED registered
    BY <2>1 DEF ThreadStep, engineVars, Thread
  <2>3. UNCHANGED main \/ Goto("dead")
    BY <1>12 DEF ProcessFrame, CallDetect, Detect, Publish, CallPublish, Send, Undefined, Defined
  <2> QED BY <1>10, <2>2, <2>3
<1>13. ASSUME NEW s \in Streams, Callback(s) \/ CheckVis(s) \/ PushVis(s) \/ PushUv(s)
       PROVE  Threads'
  BY <1>1, <1>13 DEF Callback, CheckVis, PushVis, PushUv, CallbackStep, Undefined, Defined, Goto, engineVars
<1>14. CASE Die
  BY <1>1, <1>14 DEF Die
<1>15. CASE Restart
  <2>1. \A s \in Streams : thread'[s].pc = "none"
    BY <1>15 DEF Restart, NoThread
  <2>2. main'.pc # "serve"
    BY <1>15 DEF Restart
  <2> QED BY <2>1, <2>2
<1> QED
  BY <1>2, <1>3, <1>4, <1>5, <1>6, <1>8, <1>9, <1>11, <1>12, <1>13, <1>14, <1>15 DEF Next, Main

LEMMA CallbacksStep ==
  ASSUME IInv, [Next]_vars
  PROVE  Callbacks'
<1> USE DEF IInv, Callbacks
<1>. /\ callback \in [Streams -> OneCallback(Ids)]
     /\ mainQueues \in [Streams -> MainQueue(Ids)]
     /\ main \in [pc : MainPcs, stream : Streams]
  BY DEF TypeOK
<1>1. ASSUME UNCHANGED <<callback, mainQueues>>, UNCHANGED <<main, name>> \/ main'.pc # "serve"
      PROVE  Callbacks'
  BY <1>1
<1>2. CASE UNCHANGED vars
  BY <1>1, <1>2 DEF vars, segmentVars
<1>3. CASE CreateVis \/ CreateUv
  <2>1. /\ main.pc \in Creating
        /\ UNCHANGED callback
    BY <1>3 DEF CreateVis, CreateUv, Creating
  <2>2. main'.pc # "serve"
    <3>1. CASE CreateVis
      BY <3>1 DEF CreateVis, Goto
    <3>2. CASE CreateUv
      <4>1. Goto("dead") \/ NextStream("create_vis", "init")
        BY <3>2 DEF CreateUv
      <4> QED BY <4>1 DEF Goto, NextStream
    <3> QED BY <1>3, <3>1, <3>2
  <2>3. \A s \in Streams : callback[s].pc = "none"
    BY <2>1 DEF Phases, Creating, Started, Stopping, Removing, Ended
  <2> QED BY <2>1, <2>3, <2>2
<1>4. CASE InitDetector \/ BindPublisher \/ RegisterVis \/ RegisterUv \/ Connect
  <2>1. main'.pc # "serve"
    BY <1>4 DEF InitDetector, InitStream, BindPublisher, RegisterVis, RegisterUv, Connect, Goto, NextStream
  <2>2. UNCHANGED <<callback, mainQueues>>
    BY <1>4 DEF InitDetector, InitStream, BindPublisher, RegisterVis, RegisterUv, Connect
  <2> QED BY <1>1, <2>1, <2>2
<1>5. CASE Start
  <2>1. \A s \in Streams : callback'[s].pc = "idle"
    BY <1>5 DEF Start, NoCallback
  <2> QED BY <2>1
<1>6. CASE Signal \/ StopRunning \/ CloseDetector \/ DeleteDetector \/ ClosePublisher \/ DeletePublisher
  BY <1>1, <1>6 DEF Signal, StopRunning, CloseDetector, DeleteDetector, ClosePublisher, DeletePublisher, Goto
<1>7. CASE ClearQueues \/ DestroyUv
  <2>1. main'.pc # "serve"
    BY <1>7 DEF ClearQueues, DestroyUv, Goto
  <2>2. UNCHANGED <<callback, mainQueues>>
    BY <1>7 DEF ClearQueues, DestroyUv
  <2> QED BY <1>1, <2>1, <2>2
<1>8. CASE DestroyVis
  <2>1. /\ main.pc = "destroy_vis" /\ main'.pc # "serve"
        /\ UNCHANGED callback
        /\ \A t \in Streams \ {main.stream} : mainQueues'[t] = mainQueues[t]
    BY <1>8 DEF DestroyVis, Goto
  <2>2. mainQueues[main.stream].visState # "nil"
    BY <2>1 DEF MainQueues
  <2> QED BY <2>1, <2>2
<1>9. CASE ForgetVis
  <2>1. /\ main'.pc # "serve"
        /\ UNCHANGED callback
        /\ \A t \in Streams \ {main.stream} : mainQueues'[t] = mainQueues[t]
        /\ mainQueues'[main.stream].visState = "nil"
    BY <1>9 DEF ForgetVis, MainQueue
  <2> QED BY <2>1
<1>10. ASSUME NEW s \in Streams,
              Lookup(s) \/ CheckRunning(s) \/ PopVis(s) \/ PopUv(s) \/ ProcessFrame(s) \/ CallDetect(s)
                \/ Detect(s) \/ Publish(s) \/ CallPublish(s) \/ Send(s)
       PROVE  Callbacks'
  <2>1. UNCHANGED <<callback, mainQueues, name>>
    BY <1>10 DEF Lookup, CheckRunning, PopVis, PopUv, Pop, ProcessFrame, CallDetect, Detect, Publish,
       CallPublish, Send, ThreadStep, segmentVars
  <2>2. UNCHANGED main \/ Goto("dead")
    BY <1>10 DEF Lookup, CheckRunning, PopVis, PopUv, Pop, ProcessFrame, CallDetect, Detect, Publish,
       CallPublish, Send, Undefined, Defined
  <2> QED BY <1>1, <2>1, <2>2 DEF Goto
<1>11. ASSUME NEW s \in Streams, Callback(s)
       PROVE  Callbacks'
  <2>1. PICK segment :
          /\ CreateFrameQueue(<<s, "uv">>, segment)
          /\ callback' = [callback EXCEPT ![s] =
                            [pc |-> IF segment = 0 THEN "idle" ELSE "check_vis",
                             uv |-> segment, early |-> mainQueues[s].visState # "nil"]]
    BY <1>11 DEF Callback
  <2>2. segment # 0 => name'[<<s, "uv">>] = segment
    BY <2>1, CreateQueue DEF Keys, TypeOK
  <2>3. \A t \in Streams \ {s} : name'[<<t, "uv">>] = name[<<t, "uv">>]
    <3>1. <<s, "uv">> \in Keys /\ \A t \in Streams \ {s} : <<t, "uv">> \in Keys \ {<<s, "uv">>}
      BY DEF Keys
    <3>2. \A k \in Keys \ {<<s, "uv">>} : name'[k] = name[k]
      BY <2>1, <3>1, CreateQueue DEF TypeOK
    <3> QED BY <3>1, <3>2
  <2>4. /\ \A t \in Streams \ {s} : callback'[t] = callback[t]
        /\ callback'[s].pc = IF segment = 0 THEN "idle" ELSE "check_vis"
        /\ callback'[s].uv = segment
        /\ callback'[s].early = (mainQueues[s].visState # "nil")
    BY <2>1 DEF OneCallback
  <2>5. UNCHANGED <<main, mainQueues>>
    BY <1>11 DEF Callback, Defined
  <2> QED BY ZenonT(40), <2>2, <2>3, <2>4, <2>5
<1>12. ASSUME NEW s \in Streams, CheckVis(s) \/ PushVis(s) \/ PushUv(s)
       PROVE  Callbacks'
  <2>1. PICK from \in {"check_vis", "push_vis", "push_uv"}, to \in {"idle", "push_vis", "push_uv"} :
          CallbackStep(s, from, to)
    BY <1>12 DEF CheckVis, PushVis, PushUv
  <2>2. /\ \A t \in Streams \ {s} : callback'[t] = callback[t]
        /\ callback[s].pc = from /\ callback'[s].pc = to
        /\ callback'[s].uv = callback[s].uv /\ callback'[s].early = callback[s].early
        /\ UNCHANGED <<name, mainQueues>>
    BY <2>1 DEF CallbackStep, OneCallback
  <2>3. UNCHANGED main \/ Goto("dead")
    BY <1>12 DEF CheckVis, PushVis, PushUv, Undefined, Defined
  <2>4. callback'[s].pc = "push_vis" => callback[s].pc = "check_vis" /\ mainQueues[s].visState # "nil"
    BY <1>12, <2>2 DEF CheckVis, PushVis, PushUv, CallbackStep, OneCallback
  <2>5. callback'[s].pc = "push_vis" => callback[s].early
    BY <2>4 DEF OneCallback
  <2> QED BY ZenonT(40), <2>2, <2>3, <2>5 DEF Goto
<1>13. CASE Die
  BY <1>1, <1>13 DEF Die
<1>14. CASE Restart
  <2>1. /\ \A s \in Streams : callback'[s].pc = "none"
        /\ main'.pc # "serve"
    BY <1>14 DEF Restart, NoCallback
  <2> QED BY <2>1
<1> QED
  BY <1>2, <1>3, <1>4, <1>5, <1>6, <1>7, <1>8, <1>9, <1>10, <1>11, <1>12, <1>13, <1>14 DEF Next, Main

LEMMA FaultsStep ==
  ASSUME IInv, [Next]_vars
  PROVE  UseAfterFreeOnlyEarly'
<1> USE DEF IInv, UseAfterFreeOnlyEarly
<1>1. ASSUME {"early", "late"} \cap faults' = {"early", "late"} \cap faults, running' => running
      PROVE  UseAfterFreeOnlyEarly'
  BY <1>1
<1>2. CASE UNCHANGED vars
  BY <1>1, <1>2 DEF vars, engineVars
<1>3. CASE Main
  BY <1>1, <1>3 DEF Main, CreateVis, CreateUv, InitDetector, InitStream, BindPublisher, RegisterVis, RegisterUv, Connect, Start,
     Signal, StopRunning, CloseDetector, DeleteDetector, ClosePublisher, DeletePublisher, ClearQueues,
     DestroyUv, DestroyVis, ForgetVis, engineVars
<1>4. ASSUME NEW early, early, ~running, UNCHANGED running, Undefined(early)
      PROVE  UseAfterFreeOnlyEarly'
  BY <1>4 DEF Undefined
<1>5. ASSUME Alive, main.pc \in Started, main.pc \notin Whole
      PROVE  ~running
  BY <1>5 DEF Alive, Phases, Started, Whole, Ended
<1>6. ASSUME NEW s \in Streams,
             Lookup(s) \/ CheckRunning(s) \/ PopVis(s) \/ PopUv(s) \/ ProcessFrame(s) \/ Publish(s)
               \/ Callback(s) \/ CheckVis(s) \/ PushUv(s)
      PROVE  UseAfterFreeOnlyEarly'
  BY <1>1, <1>6 DEF Lookup, CheckRunning, PopVis, PopUv, Pop, ProcessFrame, Publish, ThreadStep, Callback, CheckVis,
     PushUv, CallbackStep, Defined, engineVars
<1>7. ASSUME NEW s \in Streams, CallDetect(s) \/ Detect(s) \/ CallPublish(s) \/ Send(s)
      PROVE  UseAfterFreeOnlyEarly'
  <2>1. Alive /\ thread[s].pc \notin {"none", "lookup", "done", "check"} /\ UNCHANGED running
    BY <1>7 DEF CallDetect, Detect, CallPublish, Send, ThreadStep, engineVars
  <2>2. thread[s].early /\ main.pc \in Started
    BY <2>1 DEF Threads, Phases
  <2>3. \/ Defined
        \/ Undefined(thread[s].early) /\ ~(detector = "ready" /\ publisher = "bound")
    BY <1>7 DEF CallDetect, Detect, CallPublish, Send
  <2>4. CASE Defined
    BY <1>1, <2>1, <2>4 DEF Defined
  <2>5. CASE Undefined(thread[s].early) /\ ~(detector = "ready" /\ publisher = "bound")
    <3>1. ~running
      BY <1>5, <2>1, <2>2, <2>5 DEF Phases
    <3> QED BY <1>4, <2>1, <2>2, <2>5, <3>1
  <2> QED BY <2>3, <2>4, <2>5
<1>8. ASSUME NEW s \in Streams, PushVis(s)
      PROVE  UseAfterFreeOnlyEarly'
  <2>1. Alive /\ callback[s].pc = "push_vis" /\ UNCHANGED running
    BY <1>8 DEF PushVis, CallbackStep, engineVars
  <2>2. callback[s].early /\ main.pc \in Started
    BY <2>1 DEF Callbacks, Phases
  <2>3. \/ Defined
        \/ Undefined(callback[s].early) /\ mainQueues[s].visState # "mapped"
    BY <1>8 DEF PushVis
  <2>4. CASE Defined
    BY <1>1, <2>1, <2>4 DEF Defined
  <2>5. CASE Undefined(callback[s].early) /\ mainQueues[s].visState # "mapped"
    <3>1. ~running
      BY <1>5, <2>1, <2>2, <2>5 DEF MainQueues, Created
    <3> QED BY <1>4, <2>1, <2>2, <2>5, <3>1
  <2> QED BY <2>3, <2>4, <2>5
<1>9. CASE Die \/ Restart
  BY <1>1, <1>9 DEF Die, Restart, engineVars
<1> QED
  BY <1>2, <1>3, <1>6, <1>7, <1>8, <1>9 DEF Next

\* Freshness survives when no segment gets a frame but of this process, and
\* who reaches another segment than before reaches one with none of others.
LEMMA FreshKept ==
  ASSUME TypeOK, Fresh, UNCHANGED process,
         \A id \in Ids \ {0} : segments'[id] \subseteq segments[id] \cup {process},
         \A s \in Streams : \A id \in Reached(s)' :
            (\E t \in Streams : id \in Reached(t)) \/ segments'[id] \subseteq {process}
  PROVE  Fresh'
<1>1. \A s \in Streams : Reached(s) \subseteq Ids \ {0}
  BY DEF TypeOK, Reached, MainQueue, Queues, Thread, OneCallback
<1>2. ASSUME NEW s \in Streams, NEW id \in Reached(s)'
      PROVE  segments'[id] \subseteq {process}
  BY <1>1, <1>2 DEF Fresh
<1> QED BY <1>2 DEF Fresh

LEMMA FreshStep ==
  ASSUME IInv, [Next]_vars
  PROVE  Fresh'
<1> USE DEF IInv
<1>. /\ main \in [pc : MainPcs, stream : Streams]
     /\ mainQueues \in [Streams -> MainQueue(Ids)] /\ registered \in [Streams -> Queues(Ids)]
     /\ thread \in [Streams -> Thread(Ids)] /\ callback \in [Streams -> OneCallback(Ids)]
     /\ \A s \in Streams : <<s, "vis">> \in Keys /\ <<s, "uv">> \in Keys
  BY DEF TypeOK, Keys
<1>1. ASSUME UNCHANGED <<process, segments>>,
             \A s \in Streams : \A id \in Reached(s)' : id \in Reached(s)
      PROVE  Fresh'
  BY <1>1, FreshKept
<1>2. CASE UNCHANGED vars
  <2>1. \A s \in Streams : Reached(s)' = Reached(s)
    BY <1>2 DEF vars, engineVars, Reached
  <2> QED BY <1>1, <1>2, <2>1 DEF vars, segmentVars
<1>3. ASSUME NEW key \in Keys, NEW segment, CreateFrameQueue(key, segment)
      PROVE  /\ \A id \in Ids \ {0} : segments'[id] \subseteq segments[id] \cup {process}
             /\ segment # 0 => segments'[segment] = {}
  BY <1>3, CreateQueue DEF TypeOK
<1>4. CASE CreateVis
  <2>1. PICK segment :
          /\ CreateFrameQueue(<<main.stream, "vis">>, segment)
          /\ mainQueues' = [mainQueues EXCEPT ![main.stream].vis = segment, ![main.stream].visState = "mapped"]
    BY <1>4 DEF CreateVis
  <2>2. \A s \in Streams : Reached(s)' \subseteq Reached(s) \cup ({segment} \ {0})
    BY <1>4, <2>1 DEF CreateVis, engineVars, Reached, MainQueue
  <2>3. /\ \A id \in Ids \ {0} : segments'[id] \subseteq segments[id] \cup {process}
        /\ segment # 0 => segments'[segment] = {}
    BY <1>3, <2>1
  <2> QED BY <1>4, <2>2, <2>3, FreshKept DEF CreateVis
<1>5. CASE CreateUv
  <2>1. PICK segment :
          /\ CreateFrameQueue(<<main.stream, "uv">>, segment)
          /\ mainQueues' = [mainQueues EXCEPT ![main.stream].uv = segment]
    BY <1>5 DEF CreateUv
  <2>2. \A s \in Streams : Reached(s)' = Reached(s)
    BY <1>5, <2>1 DEF CreateUv, engineVars, Reached, MainQueue
  <2>3. \A id \in Ids \ {0} : segments'[id] \subseteq segments[id] \cup {process}
    BY <1>3, <2>1
  <2> QED BY <1>5, <2>2, <2>3, FreshKept DEF CreateUv
<1>6. CASE RegisterVis
  <2>1. PICK segment :
          /\ CreateFrameQueue(<<main.stream, "vis">>, segment)
          /\ registered' = [registered EXCEPT ![main.stream].vis = segment]
    BY <1>6 DEF RegisterVis
  <2>2. \A s \in Streams : Reached(s)' \subseteq Reached(s) \cup ({segment} \ {0})
    BY <1>6, <2>1 DEF RegisterVis, Reached, Queues
  <2>3. /\ \A id \in Ids \ {0} : segments'[id] \subseteq segments[id] \cup {process}
        /\ segment # 0 => segments'[segment] = {}
    BY <1>3, <2>1
  <2> QED BY <1>6, <2>2, <2>3, FreshKept DEF RegisterVis
<1>7. CASE RegisterUv
  <2>1. PICK segment :
          /\ CreateFrameQueue(<<main.stream, "uv">>, segment)
          /\ \/ registered' = [registered EXCEPT ![main.stream] = NoQueues]
             \/ registered' = [registered EXCEPT ![main.stream].uv = segment]
    BY <1>7 DEF RegisterUv
  <2>2. \A s \in Streams : Reached(s)' \subseteq Reached(s) \cup ({segment} \ {0})
    BY SMTT(40), <1>7, <2>1 DEF RegisterUv, Reached, Queues, NoQueues
  <2>3. /\ \A id \in Ids \ {0} : segments'[id] \subseteq segments[id] \cup {process}
        /\ segment # 0 => segments'[segment] = {}
    BY <1>3, <2>1
  <2> QED BY <1>7, <2>2, <2>3, FreshKept DEF RegisterUv
<1>8. CASE Start
  <2>1. \A s \in Streams : Reached(s)' \subseteq Reached(s)
    BY <1>8 DEF Start, engineVars, Reached, NoThread, NoCallback, NoQueues
  <2> QED BY <1>1, <1>8, <2>1 DEF Start, segmentVars
<1>9. CASE ClearQueues
  <2>1. \A s \in Streams : Reached(s)' \subseteq Reached(s)
    BY <1>9 DEF ClearQueues, Reached, NoQueues
  <2> QED BY <1>1, <1>9, <2>1 DEF ClearQueues, segmentVars
<1>10. CASE DestroyVis \/ ForgetVis
  <2>1. /\ \A s \in Streams : mainQueues'[s].vis = mainQueues[s].vis
        /\ UNCHANGED <<process, engineVars, thread, callback, segments>>
    BY <1>10 DEF DestroyVis, ForgetVis, MainQueue, segmentVars
  <2>2. \A s \in Streams : Reached(s)' \subseteq Reached(s)
    BY <2>1 DEF Reached, engineVars
  <2> QED BY <1>1, <2>1, <2>2
<1>11. ASSUME UNCHANGED <<process, mainQueues, registered, segments>>, UNCHANGED <<thread, callback>>
       PROVE  Fresh'
  <2>1. \A s \in Streams : Reached(s)' \subseteq Reached(s)
    BY <1>11 DEF Reached
  <2> QED BY <1>1, <1>11, <2>1
<1>12. CASE InitDetector \/ BindPublisher \/ Connect \/ Signal \/ StopRunning \/ DestroyUv \/ Die
  BY <1>11, <1>12 DEF InitDetector, InitStream, BindPublisher, Connect, Signal, StopRunning, DestroyUv, Die, engineVars, segmentVars
<1>13. CASE CloseDetector \/ DeleteDetector \/ ClosePublisher \/ DeletePublisher
  BY <1>11, <1>13 DEF CloseDetector, DeleteDetector, ClosePublisher, DeletePublisher, segmentVars
<1>14. ASSUME NEW s \in Streams, Lookup(s)
       PROVE  Fresh'
  <2>1. /\ \A t \in Streams \ {s} : thread'[t] = thread[t]
        /\ thread'[s].queues = registered[s]
        /\ UNCHANGED <<process, mainQueues, registered, callback, segments>>
    BY <1>14 DEF Lookup, engineVars, segmentVars, Thread
  <2>2. \A t \in Streams : Reached(t)' \subseteq Reached(t)
    BY <2>1 DEF Reached
  <2> QED BY <1>1, <2>1, <2>2
<1>15. ASSUME \A t \in Streams : thread'[t].queues = thread[t].queues,
              UNCHANGED <<process, mainQueues, registered, callback>>,
              \A id \in Ids \ {0} : segments'[id] \subseteq segments[id]
       PROVE  Fresh'
  <2>1. \A t \in Streams : Reached(t)' \subseteq Reached(t)
    BY <1>15 DEF Reached
  <2> QED BY <1>15, <2>1, FreshKept
<1>16. ASSUME NEW s \in Streams, CheckRunning(s)
       PROVE  Fresh'
  <2>1. \A t \in Streams : thread'[t].queues = thread[t].queues
    BY <1>16 DEF CheckRunning, Thread
  <2> QED BY <1>15, <1>16, <2>1 DEF CheckRunning, engineVars, segmentVars
<1>17. ASSUME NEW s \in Streams, PopVis(s) \/ PopUv(s)
       PROVE  Fresh'
  <2>1. PICK from, found, segment : Pop(s, from, segment, found)
    BY <1>17 DEF PopVis, PopUv
  <2>2. CASE segments[segment] = {}
    <3>1. \A t \in Streams : thread'[t].queues = thread[t].queues
      BY <2>1, <2>2 DEF Pop, Thread
    <3> QED BY <1>15, <2>1, <2>2, <3>1 DEF Pop, engineVars
  <2>3. CASE segments[segment] # {}
    <3>1. PICK p \in segments[segment], to \in found, left \in {{}, segments[segment]} :
            /\ thread' = [thread EXCEPT ![s].pc = to, ![s].hand = @ \cup {p}]
            /\ segments' = [segments EXCEPT ![segment] = @ \ ({p} \ left)]
      BY <2>1, <2>3 DEF Pop
    <3>2. \A t \in Streams : thread'[t].queues = thread[t].queues
      BY <3>1 DEF Thread
    <3>3. \A id \in Ids \ {0} : segments'[id] \subseteq segments[id]
      BY <3>1 DEF TypeOK, Ids
    <3> QED BY <1>15, <2>1, <3>2, <3>3 DEF Pop, engineVars
  <2> QED BY <2>2, <2>3
<1>18. ASSUME NEW s \in Streams,
              ProcessFrame(s) \/ CallDetect(s) \/ Detect(s) \/ Publish(s) \/ CallPublish(s) \/ Send(s)
       PROVE  Fresh'
  <2>1. PICK from, to : ThreadStep(s, from, to)
    BY <1>18 DEF ProcessFrame, CallDetect, Detect, Publish, CallPublish, Send
  <2>2. \A t \in Streams : thread'[t].queues = thread[t].queues
    BY <2>1 DEF ThreadStep, Thread
  <2> QED BY <1>15, <2>1, <2>2 DEF ThreadStep, engineVars, segmentVars
<1>19. ASSUME NEW s \in Streams, Callback(s)
       PROVE  Fresh'
  <2>1. PICK segment :
          /\ CreateFrameQueue(<<s, "uv">>, segment)
          /\ callback' = [callback EXCEPT ![s] =
                            [pc |-> IF segment = 0 THEN "idle" ELSE "check_vis",
                             uv |-> segment, early |-> mainQueues[s].visState # "nil"]]
    BY <1>19 DEF Callback
  <2>2. \A t \in Streams : Reached(t)' \subseteq Reached(t) \cup ({segment} \ {0})
    BY <1>19, <2>1 DEF Callback, engineVars, Reached, OneCallback
  <2>3. /\ \A id \in Ids \ {0} : segments'[id] \subseteq segments[id] \cup {process}
        /\ segment # 0 => segments'[segment] = {}
    BY <1>3, <2>1
  <2> QED BY <1>19, <2>2, <2>3, FreshKept DEF Callback
<1>20. ASSUME NEW s \in Streams, CheckVis(s) \/ PushVis(s) \/ PushUv(s)
       PROVE  Fresh'
  <2>1. PICK from, to : CallbackStep(s, from, to)
    BY <1>20 DEF CheckVis, PushVis, PushUv
  <2>2. \A t \in Streams : callback'[t].uv = callback[t].uv
    BY <2>1 DEF CallbackStep, OneCallback
  <2>3. \A t \in Streams : Reached(t)' \subseteq Reached(t)
    BY <2>1, <2>2 DEF CallbackStep, Reached, engineVars
  <2>4. \/ UNCHANGED segments
        \/ \E id : segments' = [segments EXCEPT ![id] = @ \cup {process}]
    BY <1>20 DEF CheckVis, PushVis, PushUv
  <2>5. \A id \in Ids \ {0} : segments'[id] \subseteq segments[id] \cup {process}
    <3>1. /\ segments \in Seq(SUBSET Nat) /\ process \in Nat
          /\ \A id \in Ids \ {0} : id \in 1..Len(segments)
      BY DEF TypeOK, Ids
    <3>2. CASE UNCHANGED segments
      BY <3>2
    <3>3. ASSUME NEW id, segments' = [segments EXCEPT ![id] = @ \cup {process}]
          PROVE  \A i \in 1..Len(segments) : segments'[i] \subseteq segments[i] \cup {process}
      BY ONLY <3>1, <3>3, PushFrame
    <3> QED BY <2>4, <3>1, <3>2, <3>3
  <2>6. UNCHANGED process
    BY <2>1 DEF CallbackStep
  <2>7. \A t \in Streams : \A id \in Reached(t)' : \E u \in Streams : id \in Reached(u)
    BY <2>3
  <2>8. TypeOK /\ Fresh
    OBVIOUS
  <2> QED BY Zenon, <2>5, <2>6, <2>7, <2>8, FreshKept
<1>21. CASE Restart
  <2>1. \A s \in Streams : Reached(s)' = {}
    BY <1>21 DEF Restart, Reached, NoThread, NoCallback, NoQueues
  <2> QED BY <2>1 DEF Fresh
<1> QED
  BY <1>2, <1>4, <1>5, <1>6, <1>7, <1>8, <1>9, <1>10, <1>12, <1>13, <1>14, <1>16, <1>17, <1>18, <1>19, <1>20, <1>21
  DEF Next, Main

LEMMA RemovalStep ==
  ASSUME IInv, [Next]_vars
  PROVE  Removal'
<1> USE DEF IInv, Removal, Removed, UvRemoved, Removing
<1>. /\ main \in [pc : MainPcs, stream : Streams]
     /\ mainQueues \in [Streams -> MainQueue(Ids)]
     /\ \A s \in Streams : <<s, "vis">> \in Keys /\ <<s, "uv">> \in Keys
     /\ \A s, t \in Streams : <<s, "vis">> # <<t, "uv">>
     /\ \A s, t \in Streams : <<s, "uv">> = <<t, "uv">> => s = t
     /\ \A s, t \in Streams : <<s, "vis">> = <<t, "vis">> => s = t
     /\ name \in [Keys -> Ids]
  BY DEF TypeOK, Keys
<1>1. ASSUME main'.pc \notin Removing \cup {"exited"}
      PROVE  Removal'
  BY <1>1
<1>2. ASSUME UNCHANGED <<name, mainQueues>>, UNCHANGED main \/ Goto("dead")
      PROVE  Removal'
  BY <1>2 DEF Goto
<1>3. CASE UNCHANGED vars
  BY <1>2, <1>3 DEF vars, segmentVars
<1>4. CASE CreateVis \/ InitDetector \/ BindPublisher
  <2>1. CASE CreateVis \/ BindPublisher
    BY <1>1, <2>1 DEF CreateVis, BindPublisher, Goto
  <2>2. CASE InitDetector
    <3>1. Goto("dead") \/ NextStream("init", "bind")
      BY <2>2 DEF InitDetector, InitStream
    <3> QED BY <1>1, <3>1 DEF Goto, NextStream
  <2> QED BY <1>4, <2>1, <2>2
<1>5. CASE CreateUv
  <2>1. Goto("dead") \/ NextStream("create_vis", "init")
    BY <1>5 DEF CreateUv
  <2> QED BY <1>1, <2>1 DEF Goto, NextStream
<1>6. CASE RegisterVis \/ RegisterUv \/ Connect \/ Start \/ Signal
  BY <1>1, <1>6 DEF RegisterVis, RegisterUv, Connect, Start, Signal, Goto, NextStream
<1>7. CASE StopRunning \/ CloseDetector \/ DeleteDetector \/ ClosePublisher \/ DeletePublisher
  BY <1>1, <1>7 DEF StopRunning, CloseDetector, DeleteDetector, ClosePublisher, DeletePublisher, Goto
<1>8. CASE ClearQueues
  <2>1. main'.pc = "destroy_uv" /\ main'.stream = NumStreams - 1
    BY <1>8 DEF ClearQueues
  <2>2. \A s \in Streams : ~(s > NumStreams - 1)
    BY LifecycleAssumption DEF Streams
  <2> QED BY <2>1, <2>2
<1>9. CASE DestroyUv
  <2>1. /\ main.pc = "destroy_uv" /\ main'.pc = "destroy_vis" /\ main'.stream = main.stream
        /\ UNCHANGED mainQueues
    BY <1>9 DEF DestroyUv, Goto
  <2>2. name'[<<main.stream, "uv">>] = 0
    BY <1>9 DEF DestroyUv, Unlink
  <2>3. \A t \in Streams : name'[<<t, "vis">>] = name[<<t, "vis">>] /\ name'[<<t, "uv">>] \in {0, name[<<t, "uv">>]}
    BY <1>9 DEF DestroyUv, Unlink
  <2> QED BY <2>1, <2>2, <2>3
<1>10. CASE DestroyVis
  <2>1. /\ main.pc = "destroy_vis" /\ main'.pc = "forget_vis" /\ main'.stream = main.stream
        /\ \A t \in Streams : mainQueues'[t].uv = mainQueues[t].uv
    BY <1>10 DEF DestroyVis, Goto, MainQueue
  <2>2. name'[<<main.stream, "vis">>] = 0
    BY <1>10 DEF DestroyVis, Unlink
  <2>3. \A t \in Streams : name'[<<t, "uv">>] = name[<<t, "uv">>] /\ name'[<<t, "vis">>] \in {0, name[<<t, "vis">>]}
    BY <1>10 DEF DestroyVis, Unlink
  <2> QED BY <2>1, <2>2, <2>3
<1>11. CASE ForgetVis
  <2>1. /\ main.pc = "forget_vis" /\ UNCHANGED name
        /\ \A t \in Streams : mainQueues'[t].uv = mainQueues[t].uv
        /\ \/ main'.pc = "destroy_uv" /\ main'.stream = main.stream - 1
           \/ main'.pc = "exited" /\ ~(main.stream > 0)
    BY <1>11 DEF ForgetVis, MainQueue, segmentVars
  <2>2. \A t \in Streams : t >= main.stream => Removed(t)'
    <3>1. \A t \in Streams : t >= main.stream => t = main.stream \/ t > main.stream
      BY LifecycleAssumption DEF Streams
    <3> QED BY <2>1, <3>1
  <2>3. \A t \in Streams : /\ t > main.stream - 1 => t >= main.stream
                           /\ ~(main.stream > 0) => t >= main.stream
    BY LifecycleAssumption DEF Streams
  <2> QED BY <2>1, <2>2, <2>3
<1>12. ASSUME NEW s \in Streams, Callback(s)
       PROVE  Removal'
  <2>1. PICK segment : CreateFrameQueue(<<s, "uv">>, segment)
    BY <1>12 DEF Callback
  <2>2. UNCHANGED <<main, mainQueues>>
    BY <1>12 DEF Callback, Defined
  <2>3. \A t \in Streams : name'[<<t, "vis">>] = name[<<t, "vis">>]
    <3>1. \A k \in Keys \ {<<s, "uv">>} : name'[k] = name[k]
      BY <2>1, CreateQueue DEF TypeOK
    <3> QED BY <3>1
  <2>4. \A t \in Streams : name'[<<t, "uv">>] = name[<<t, "uv">>] \/ name'[<<t, "uv">>] = Len(segments) + 1
    <3>1. /\ \A k \in Keys \ {<<s, "uv">>} : name'[k] = name[k]
          /\ name'[<<s, "uv">>] # name[<<s, "uv">>] => name'[<<s, "uv">>] = Len(segments) + 1
      BY <2>1, CreateQueue DEF TypeOK
    <3> QED BY <3>1
  <2>5. \A t \in Streams : Len(segments) + 1 > mainQueues[t].uv
    BY DEF TypeOK, MainQueue, Ids
  <2>6. \A t \in Streams : UvRemoved(t) => UvRemoved(t)'
    BY <2>2, <2>4, <2>5
  <2> QED BY <2>2, <2>3, <2>6
<1>13. ASSUME NEW s \in Streams, Lookup(s) \/ CheckRunning(s) \/ PopVis(s) \/ PopUv(s)
       PROVE  Removal'
  BY <1>2, <1>13 DEF Lookup, CheckRunning, PopVis, PopUv, Pop, Defined, segmentVars
<1>14. ASSUME NEW s \in Streams,
              ProcessFrame(s) \/ CallDetect(s) \/ Detect(s) \/ Publish(s) \/ CallPublish(s) \/ Send(s)
       PROVE  Removal'
  BY <1>2, <1>14 DEF ProcessFrame, CallDetect, Detect, Publish, CallPublish, Send, ThreadStep, Undefined, Defined, segmentVars
<1>15. ASSUME NEW s \in Streams, CheckVis(s) \/ PushVis(s) \/ PushUv(s)
       PROVE  Removal'
  BY <1>2, <1>15 DEF CheckVis, PushVis, PushUv, CallbackStep, Undefined, Defined
<1>16. CASE Die \/ Restart
  BY <1>1, <1>16 DEF Die, Restart
<1> QED
  BY <1>3, <1>4, <1>6, <1>7, <1>8, <1>9, <1>10, <1>11, <1>12, <1>13, <1>14, <1>15, <1>16, <1>5 DEF Next, Main

LEMMA HandsStep ==
  ASSUME IInv, [Next]_vars
  PROVE  OwnFramesOnly'
<1> USE DEF IInv, OwnFramesOnly
<1>. thread \in [Streams -> Thread(Ids)]
  BY DEF TypeOK
<1>1. ASSUME UNCHANGED <<process, thread>>
      PROVE  OwnFramesOnly'
  BY <1>1
<1>2. CASE UNCHANGED vars
  BY <1>1, <1>2 DEF vars
<1>3. CASE CreateVis \/ CreateUv \/ InitDetector \/ BindPublisher \/ RegisterVis \/ RegisterUv \/ Connect
  BY <1>1, <1>3 DEF CreateVis, CreateUv, InitDetector, InitStream, BindPublisher, RegisterVis, RegisterUv, Connect
<1>4. CASE Start \/ Restart
  <2>1. \A s \in Streams : thread'[s].hand = {}
    BY <1>4 DEF Start, Restart, NoThread
  <2> QED BY <2>1
<1>5. CASE Signal \/ StopRunning \/ CloseDetector \/ DeleteDetector \/ ClosePublisher \/ DeletePublisher
  BY <1>1, <1>5 DEF Signal, StopRunning, CloseDetector, DeleteDetector, ClosePublisher, DeletePublisher
<1>6. CASE ClearQueues \/ DestroyUv \/ DestroyVis \/ ForgetVis \/ Die
  BY <1>1, <1>6 DEF ClearQueues, DestroyUv, DestroyVis, ForgetVis, Die
<1>7. ASSUME NEW s \in Streams,
             Lookup(s) \/ CheckRunning(s) \/ ProcessFrame(s) \/ CallDetect(s) \/ Detect(s)
               \/ Publish(s) \/ CallPublish(s) \/ Send(s)
      PROVE  OwnFramesOnly'
  <2>1. \A t \in Streams : thread'[t].hand \in {{}, thread[t].hand}
    BY <1>7 DEF Lookup, CheckRunning, ProcessFrame, CallDetect, Detect, Publish, CallPublish, Send, ThreadStep, Thread
  <2>2. UNCHANGED process
    BY <1>7 DEF Lookup, CheckRunning, ProcessFrame, CallDetect, Detect, Publish, CallPublish, Send, ThreadStep
  <2> QED BY <2>1, <2>2
<1>8. ASSUME NEW s \in Streams, PopVis(s) \/ PopUv(s)
      PROVE  OwnFramesOnly'
  <2>1. PICK from \in {"pop_vis", "pop_uv"},
             segment \in {thread[s].queues.vis, thread[s].queues.uv},
             found \in {{"pop_uv"}, {"check", "process"}} : Pop(s, from, segment, found)
    BY <1>8 DEF PopVis, PopUv
  <2>2. thread[s].queues.vis # 0 /\ thread[s].queues.uv # 0
    BY <2>1 DEF Pop, Threads
  <2>3. segments[segment] \subseteq {process}
    BY <2>1, <2>2 DEF Fresh, Reached
  <2>4. \A t \in Streams : thread'[t].hand \subseteq thread[t].hand \cup segments[segment]
    <3>1. CASE segments[segment] = {}
      BY <2>1, <3>1 DEF Pop, Thread
    <3>2. CASE segments[segment] # {}
      <4>1. PICK p \in segments[segment], to \in found :
              thread' = [thread EXCEPT ![s].pc = to, ![s].hand = @ \cup {p}]
        BY <2>1, <3>2 DEF Pop
      <4> QED BY <4>1 DEF Thread
    <3> QED BY <3>1, <3>2
  <2> QED BY <2>1, <2>3, <2>4 DEF Pop
<1>9. ASSUME NEW s \in Streams, Callback(s) \/ CheckVis(s) \/ PushVis(s) \/ PushUv(s)
      PROVE  OwnFramesOnly'
  BY <1>1, <1>9 DEF Callback, CheckVis, PushVis, PushUv, CallbackStep
<1> QED
  BY <1>2, <1>3, <1>4, <1>5, <1>6, <1>7, <1>8, <1>9 DEF Next, Main

LEMMA Initially == Init => IInv
<1> SUFFICES ASSUME Init
    PROVE  IInv
  OBVIOUS
<1>1. 0 \in Streams /\ ~(\E s \in Streams : s < 0)
  BY LifecycleAssumption DEF Streams
<1>2. segments \in Seq(SUBSET Nat) /\ Ids = {0}
  BY DEF Init, Ids
<1>3. TypeOK
  BY <1>1, <1>2 DEF Init, TypeOK, MainPcs, Creating, MainQueue, Queues, Thread, OneCallback, NoQueues, NoThread,
     NoCallback, ThreadPcs, CallbackPcs
<1>4. Phases /\ MainQueues
  BY <1>1 DEF Init, Phases, MainQueues, Creating, Opening, Whole, Stopping, Removing, Ended, NoThread, NoCallback
<1>5. RegisteredQueues /\ Removal /\ UseAfterFreeOnlyEarly
  BY <1>1 DEF Init, RegisteredQueues, Removal, UseAfterFreeOnlyEarly, Creating, Opening, Removing, Started, Stopping, Ended
<1>6. Threads /\ Callbacks /\ Fresh /\ OwnFramesOnly
  BY DEF Init, Threads, Callbacks, Fresh, Reached, OwnFramesOnly, NoThread, NoCallback, NoQueues
<1> QED BY <1>3, <1>4, <1>5, <1>6 DEF IInv

\* Everything above, always, for any number of streams and of processes.
THEOREM Invariance == Spec => []IInv
<1>1. IInv /\ [Next]_vars => IInv'
  <2> SUFFICES ASSUME IInv, [Next]_vars
      PROVE  IInv'
    OBVIOUS
  <2>1. TypeOK' /\ Phases' /\ MainQueues' /\ RegisteredQueues' /\ Threads'
    BY TypeStep, PhasesStep, MainQueuesStep, RegisteredStep, ThreadsStep DEF IInv
  <2>2. Callbacks' /\ Fresh' /\ Removal' /\ UseAfterFreeOnlyEarly' /\ OwnFramesOnly'
    BY CallbacksStep, FreshStep, RemovalStep, FaultsStep, HandsStep
  <2> QED BY <2>1, <2>2 DEF IInv
<1> QED BY Initially, <1>1, PTL DEF Spec

\* A detector, a publisher or a queue that was freed is used only by what had
\* begun before, and only after engine_shutdown cleared g_running.
THEOREM UseAfterFreeOnlyEarlyAlways == Spec => []UseAfterFreeOnlyEarly
<1>1. IInv => UseAfterFreeOnlyEarly
  BY DEF IInv
<1> QED BY Invariance, <1>1, PTL

\* No detection thread ever holds a frame that an earlier process pushed.
THEOREM OwnFramesOnlyAlways == Spec => []OwnFramesOnly
<1>1. IInv => OwnFramesOnly
  BY DEF IInv
<1> QED BY Invariance, <1>1, PTL

\* While main serves, the thread of a stream pops from the segments that its
\* callback pushes into.
THEOREM ConnectedAlways == Spec => []Connected
<1>1. IInv => Connected
  <2> SUFFICES ASSUME IInv, main.pc = "serve", NEW s \in Streams,
                      NEW queues, queues = IF thread[s].pc = "lookup" THEN registered[s] ELSE thread[s].queues
      PROVE  /\ thread[s].pc # "done"
             /\ queues.vis = mainQueues[s].vis /\ queues.uv = name[<<s, "uv">>]
             /\ callback[s].pc \in {"check_vis", "push_vis", "push_uv"} => callback[s].uv = queues.uv
    BY DEF Connected
  <2>1. Registered(s)
    BY DEF IInv, RegisteredQueues
  <2>2. thread[s].pc \notin {"none", "done"} /\ queues = registered[s]
    BY DEF IInv, Threads
  <2>3. callback[s].pc \in {"check_vis", "push_vis", "push_uv"} => callback[s].uv = name[<<s, "uv">>]
    BY DEF IInv, Callbacks
  <2> QED BY <2>1, <2>2, <2>3 DEF Registered
<1> QED BY Invariance, <1>1, PTL

\* When main has returned, the names of its segments are gone, but for an
\* ultraviolet queue that a callback created again.
THEOREM SegmentsRemovedAlways == Spec => []SegmentsRemoved
<1>1. IInv => SegmentsRemoved
  BY DEF IInv, Removal, Removed, UvRemoved, SegmentsRemoved
<1> QED BY Invariance, <1>1, PTL
=============================================================================
