------------------------------ MODULE Lifecycle ------------------------------
(***************************************************************************)
(* Starting, ending and restarting the program: main with its deferred     *)
(* calls, arcvision_engine_init and arcvision_engine_shutdown, the         *)
(* detection threads, which nothing joins, the callback, which nothing     *)
(* stops, and the shared-memory segments, which outlive the process.       *)
(*                                                                         *)
(* A segment is reached by its name or through a mapping; unlinking takes  *)
(* the name and leaves the mappings.  Of the frames in a segment only the  *)
(* process that pushed them matters; the ring itself is in ShmFrameQueue   *)
(* and its reset during a pop in StreamPipeline.                           *)
(***************************************************************************)
EXTENDS Integers, Sequences

CONSTANTS
  NumStreams,       \* configured streams, whose indices are 0 .. NumStreams - 1
  MaxProcesses      \* bound: processes in a behaviour

ASSUME LifecycleAssumption == NumStreams \in Nat \ {0} /\ MaxProcesses \in Nat

VARIABLES
  process,       \* number of the process
  main,          \* main: program counter and stream of the loop it is in
  mainQueues,    \* the queues main created first, and streamQueues: how the
                 \* visible one is mapped
  registered,    \* g_stream_queues, 0 where there is none
  running,       \* g_running
  detector,      \* g_detector: the object it points to, or none
  publisher,     \* g_publisher, the same
  thread,        \* the detection threads
  callback,      \* the callbacks, one at a time for a stream
  name,          \* the segment that has a name, 0 if there is none
  segments,      \* for each segment, the processes whose frames wait in it
  faults         \* history: the undefined behaviour this process met

engineVars  == <<registered, running, detector, publisher>>
segmentVars == <<name, segments>>
vars == <<process, main, mainQueues, engineVars, thread, callback, segmentVars, faults>>

Streams == 0..(NumStreams - 1)
Keys    == Streams \X {"vis", "uv"}

NoQueues   == [vis |-> 0, uv |-> 0]
NoThread   == [pc |-> "none", queues |-> NoQueues, hand |-> {}, early |-> TRUE]
NoCallback == [pc |-> "none", uv |-> 0, early |-> TRUE]

Init ==
  /\ process = 1
  /\ main = [pc |-> "create_vis", stream |-> 0]
  /\ mainQueues = [s \in Streams |-> [vis |-> 0, uv |-> 0, visState |-> "nil"]]
  /\ registered = [s \in Streams |-> NoQueues]
  /\ running = TRUE /\ detector = "none" /\ publisher = "none"
  /\ thread = [s \in Streams |-> NoThread]
  /\ callback = [s \in Streams |-> NoCallback]
  /\ name = [k \in Keys |-> 0] /\ segments = <<>>
  /\ faults = {}

Alive == main.pc \notin {"dead", "exited"}

\* The process ends between any two steps: it is killed, or another part of
\* the program fails.
Die ==
  /\ Alive
  /\ main' = [main EXCEPT !.pc = "dead"]
  /\ UNCHANGED <<process, mainQueues, engineVars, thread, callback, segmentVars, faults>>

\* The next process finds the segments under their names.
Restart ==
  /\ ~Alive /\ process < MaxProcesses
  /\ process' = process + 1
  /\ main' = [pc |-> "create_vis", stream |-> 0]
  /\ mainQueues' = [s \in Streams |-> [vis |-> 0, uv |-> 0, visState |-> "nil"]]
  /\ registered' = [s \in Streams |-> NoQueues]
  /\ running' = TRUE /\ detector' = "none" /\ publisher' = "none"
  /\ thread' = [s \in Streams |-> NoThread]
  /\ callback' = [s \in Streams |-> NoCallback]
  /\ faults' = {}
  /\ UNCHANGED segmentVars
-----------------------------------------------------------------------------
\* Mutant: the frames that wait are kept.
CreateKeepsFrames(key, segment) ==
  /\ segment = IF name[key] # 0 THEN name[key] ELSE Len(segments) + 1
  /\ name' = [name EXCEPT ![key] = segment]
  /\ segments' = IF name[key] # 0 THEN segments ELSE Append(segments, {})

\* Mutant: what is left under the name is unlinked first.
CreateAnew(key, segment) ==
  /\ segment = Len(segments) + 1
  /\ name' = [name EXCEPT ![key] = segment]
  /\ segments' = Append(segments, {})

\* shm_queue_create: opens what has the name, or makes it; empties it.
ShmQueueCreate(key, segment) ==
  /\ segment = IF name[key] # 0 THEN name[key] ELSE Len(segments) + 1
  /\ name' = [name EXCEPT ![key] = segment]
  /\ segments' = IF name[key] # 0 THEN [segments EXCEPT ![segment] = {}]
                 ELSE Append(segments, {})

\* CreateFrameQueue; it fails when there is no memory for another mapping,
\* and then it may have made the segment.
CreateFrameQueue(key, segment) ==
  \/ ShmQueueCreate(key, segment)
  \/ segment = 0 /\ UNCHANGED segmentVars
  \/ segment = 0 /\ name[key] = 0 /\ ShmQueueCreate(key, Len(segments) + 1)

SegmentIds == 0..(Len(segments) + 1)

\* Mutant: unmapped only.
UnlinkNothing(key) == UNCHANGED name

\* shm_unlink; the mappings stay.
Unlink(key) == name' = [name EXCEPT ![key] = 0]

Goto(pc) == main' = [main EXCEPT !.pc = pc]

\* The loops of main go over the streams in order.
NextStream(again, after) ==
  main' = IF main.stream + 1 < NumStreams
          THEN [pc |-> again, stream |-> main.stream + 1]
          ELSE [pc |-> after, stream |-> 0]

CreateVis ==
  /\ main.pc = "create_vis"
  /\ \E segment \in SegmentIds :
       /\ CreateFrameQueue(<<main.stream, "vis">>, segment)
       /\ mainQueues' = [mainQueues EXCEPT ![main.stream].vis = segment, ![main.stream].visState = "mapped"]
  /\ Goto("create_uv")
  /\ UNCHANGED <<process, engineVars, thread, callback, faults>>

\* log.Fatalf runs no deferred call.
CreateUv ==
  /\ main.pc = "create_uv"
  /\ \E segment \in SegmentIds :
       /\ CreateFrameQueue(<<main.stream, "uv">>, segment)
       /\ mainQueues' = [mainQueues EXCEPT ![main.stream].uv = segment]
       /\ IF mainQueues[main.stream].vis = 0 \/ segment = 0 THEN Goto("dead")
          ELSE NextStream("create_vis", "init")
  /\ UNCHANGED <<process, engineVars, thread, callback, faults>>

\* init_stream moves the new context into the map, and logs it through the
\* pointer it was moved from: undefined behaviour, so that the process ends, or
\* it does not and nothing is seen.
InitStream ==
  /\ faults' = faults \cup {"moved"}
  /\ \/ Goto("dead") /\ UNCHANGED detector
     \/ /\ NextStream("init", "bind")
        /\ detector' = IF main.stream + 1 < NumStreams THEN detector ELSE "ready"

\* arcvision_engine_init, stream by stream: when an engine cannot be loaded it
\* deletes the detector again, and main ends.
InitDetector ==
  /\ main.pc = "init"
  /\ \/ InitStream
     \/ detector' = "none" /\ Goto("dead") /\ UNCHANGED faults
  /\ UNCHANGED <<process, mainQueues, registered, running, publisher, thread, callback, segmentVars>>

\* When the socket cannot be bound, it deletes both.
BindPublisher ==
  /\ main.pc = "bind"
  /\ \/ publisher' = "bound" /\ Goto("register_vis") /\ UNCHANGED detector
     \/ publisher' = "none" /\ detector' = "none" /\ Goto("dead")
  /\ UNCHANGED <<process, mainQueues, registered, running, thread, callback, segmentVars, faults>>

\* The queues are created a second time.  A nil queue makes NativePointer
\* panic, and the deferred calls run.
RegisterVis ==
  /\ main.pc = "register_vis"
  /\ \E segment \in SegmentIds :
       /\ CreateFrameQueue(<<main.stream, "vis">>, segment)
       /\ registered' = [registered EXCEPT ![main.stream].vis = segment]
  /\ Goto("register_uv")
  /\ UNCHANGED <<process, mainQueues, running, detector, publisher, thread, callback, faults>>

\* arcvision_engine_set_stream_queues, before any thread can look.
RegisterUv ==
  /\ main.pc = "register_uv"
  /\ \E segment \in SegmentIds :
       /\ CreateFrameQueue(<<main.stream, "uv">>, segment)
       /\ IF registered[main.stream].vis = 0 \/ segment = 0
          THEN /\ registered' = [registered EXCEPT ![main.stream] = NoQueues]
               /\ main' = [pc |-> "stop", stream |-> 0]
          ELSE /\ registered' = [registered EXCEPT ![main.stream].uv = segment]
               /\ NextStream("register_vis", "connect")
  /\ UNCHANGED <<process, mainQueues, running, detector, publisher, thread, callback, faults>>

\* The receiver is created and connected, or log.Fatalf.
Connect ==
  /\ main.pc = "connect"
  /\ \E pc \in {"start", "dead"} : Goto(pc)
  /\ UNCHANGED <<process, mainQueues, engineVars, thread, callback, segmentVars, faults>>

\* The loop that spawns the detection threads, and the ingest loops.
Start ==
  /\ main.pc = "start"
  /\ thread' = [s \in Streams |-> [NoThread EXCEPT !.pc = "lookup"]]
  /\ callback' = [s \in Streams |-> [NoCallback EXCEPT !.pc = "idle"]]
  /\ Goto("serve")
  /\ UNCHANGED <<process, mainQueues, engineVars, segmentVars, faults>>

\* A signal; half a second later, when the receiver is closed, the engine is
\* shut down.
Signal ==
  /\ main.pc = "serve"
  /\ Goto("stop")
  /\ UNCHANGED <<process, mainQueues, engineVars, thread, callback, segmentVars, faults>>

\* Mutant: the threads are told last.
StopRunningLater ==
  /\ main.pc \in {"stop", "clear"}
  /\ running' = (main.pc = "stop")
  /\ registered' = IF main.pc = "stop" THEN registered ELSE [s \in Streams |-> NoQueues]
  /\ IF main.pc = "stop" THEN Goto("close_detector")
     ELSE main' = [pc |-> "destroy_uv", stream |-> NumStreams - 1]
  /\ UNCHANGED <<process, mainQueues, detector, publisher, thread, callback, segmentVars, faults>>

StopRunning ==
  /\ main.pc = "stop"
  /\ running' = FALSE
  /\ Goto("close_detector")
  /\ UNCHANGED <<process, mainQueues, registered, detector, publisher, thread, callback, segmentVars, faults>>

\* ArcDetector::shutdown, up to base_initialized_ and after,
CloseDetector ==
  /\ main.pc = "close_detector"
  /\ \/ detector = "ready" /\ detector' = "closing" /\ UNCHANGED main
     \/ detector = "closing" /\ detector' = "closed" /\ Goto("delete_detector")
  /\ UNCHANGED <<process, mainQueues, registered, running, publisher, thread, callback, segmentVars, faults>>

\* delete, and the pointer.
DeleteDetector ==
  /\ main.pc = "delete_detector"
  /\ \/ detector = "closed" /\ detector' = "freed" /\ UNCHANGED main
     \/ detector = "freed" /\ detector' = "none" /\ Goto("close_publisher")
  /\ UNCHANGED <<process, mainQueues, registered, running, publisher, thread, callback, segmentVars, faults>>

\* ZmqPublisher::close,
ClosePublisher ==
  /\ main.pc = "close_publisher"
  /\ publisher' = "closed" /\ Goto("delete_publisher")
  /\ UNCHANGED <<process, mainQueues, registered, running, detector, thread, callback, segmentVars, faults>>

\* delete, and the pointer.
DeletePublisher ==
  /\ main.pc = "delete_publisher"
  /\ \/ publisher = "closed" /\ publisher' = "freed" /\ UNCHANGED main
     \/ publisher = "freed" /\ publisher' = "none" /\ Goto("clear")
  /\ UNCHANGED <<process, mainQueues, registered, running, detector, thread, callback, segmentVars, faults>>

ClearQueues ==
  /\ main.pc = "clear"
  /\ registered' = [s \in Streams |-> NoQueues]
  /\ main' = [pc |-> "destroy_uv", stream |-> NumStreams - 1]
  /\ UNCHANGED <<process, mainQueues, running, detector, publisher, thread, callback, segmentVars, faults>>

\* The deferred calls run in the opposite order: the last stream first, and
\* the ultraviolet queue, whose mapping of this call nobody uses.
DestroyUv ==
  /\ main.pc = "destroy_uv"
  /\ Unlink(<<main.stream, "uv">>)
  /\ Goto("destroy_vis")
  /\ UNCHANGED <<process, mainQueues, engineVars, thread, callback, segments, faults>>

DestroyVis ==
  /\ main.pc = "destroy_vis"
  /\ Unlink(<<main.stream, "vis">>)
  /\ mainQueues' = [mainQueues EXCEPT ![main.stream].visState = "unmapped"]
  /\ Goto("forget_vis")
  /\ UNCHANGED <<process, engineVars, thread, callback, segments, faults>>

ForgetVis ==
  /\ main.pc = "forget_vis"
  /\ mainQueues' = [mainQueues EXCEPT ![main.stream].visState = "nil"]
  /\ main' = IF main.stream > 0 THEN [pc |-> "destroy_uv", stream |-> main.stream - 1]
             ELSE [pc |-> "exited", stream |-> 0]
  /\ UNCHANGED <<process, engineVars, thread, callback, segmentVars, faults>>

Main ==
  \/ CreateVis \/ CreateUv \/ InitDetector \/ BindPublisher
  \/ RegisterVis \/ RegisterUv \/ Connect \/ Start \/ Signal
  \/ StopRunning \/ CloseDetector \/ DeleteDetector \/ ClosePublisher \/ DeletePublisher
  \/ ClearQueues \/ DestroyUv \/ DestroyVis \/ ForgetVis
-----------------------------------------------------------------------------
\* Undefined behaviour: the process ends, or it does not and nothing is seen.
\* It is early if what the thread does began before the object was touched.
Undefined(early) ==
  /\ faults' = faults \cup {IF early THEN "early" ELSE "late"}
  /\ Goto("dead") \/ UNCHANGED main

Defined == UNCHANGED <<faults, main>>

ThreadStep(s, from, to) ==
  /\ Alive
  /\ thread[s].pc = from
  /\ thread' = [thread EXCEPT ![s].pc = to]
  /\ UNCHANGED <<process, mainQueues, engineVars, callback, segmentVars>>

\* stream_detect_loop finds its queues, or ends.
Lookup(s) ==
  /\ Alive
  /\ thread[s].pc = "lookup"
  /\ thread' = [thread EXCEPT ![s].pc = IF registered[s] = NoQueues THEN "done" ELSE "check",
                              ![s].queues = registered[s]]
  /\ Defined
  /\ UNCHANGED <<process, mainQueues, engineVars, callback, segmentVars>>

CheckRunning(s) ==
  /\ Alive
  /\ thread[s].pc = "check"
  /\ thread' = [thread EXCEPT ![s].pc = IF running THEN "pop_vis" ELSE "done",
                              ![s].hand = {},
                              ![s].early = detector = "ready" /\ publisher = "bound"]
  /\ Defined
  /\ UNCHANGED <<process, mainQueues, engineVars, callback, segmentVars>>

\* One pop, through the mapping that was registered; it may have been the last
\* frame of its process in the segment, or not.
Pop(s, from, segment, found) ==
  /\ Alive
  /\ thread[s].pc = from
  /\ IF segments[segment] = {}
     THEN thread' = [thread EXCEPT ![s].pc = "check"] /\ UNCHANGED segments
     ELSE \E p \in segments[segment], to \in found, left \in {{}, segments[segment]} :
            /\ thread' = [thread EXCEPT ![s].pc = to, ![s].hand = @ \cup {p}]
            /\ segments' = [segments EXCEPT ![segment] = @ \ ({p} \ left)]
  /\ Defined
  /\ UNCHANGED <<process, mainQueues, engineVars, callback, name>>

PopVis(s) == Pop(s, "pop_vis", thread[s].queues.vis, {"pop_uv"})

\* Frames too far apart are dropped.
PopUv(s) == Pop(s, "pop_uv", thread[s].queues.uv, {"check", "process"})

\* arcvision_engine_process_frame asks whether there is a detector,
ProcessFrame(s) ==
  /\ ThreadStep(s, "process", IF detector = "none" THEN "check" ELSE "call_detect")
  /\ Defined

\* reads the pointer again for the call, in which detect looks at
\* base_initialized_ and takes the context of the stream without the lock,
CallDetect(s) ==
  /\ ThreadStep(s, "call_detect", IF detector = "closed" THEN "check" ELSE "detect")
  /\ IF detector \in {"ready", "closed"} THEN Defined ELSE Undefined(thread[s].early)

\* and uses engines and tracker of the context to the end.
Detect(s) ==
  /\ \E to \in {"check", "publish"} : ThreadStep(s, "detect", to)
  /\ IF detector = "ready" THEN Defined ELSE Undefined(thread[s].early)

\* The same with the publisher: is there one,
Publish(s) ==
  /\ ThreadStep(s, "publish", IF publisher = "none" THEN "check" ELSE "call_publish")
  /\ Defined

\* does it have a socket,
CallPublish(s) ==
  /\ ThreadStep(s, "call_publish", IF publisher = "closed" THEN "check" ELSE "send")
  /\ IF publisher \in {"bound", "closed"} THEN Defined ELSE Undefined(thread[s].early)

\* and send.
Send(s) ==
  /\ ThreadStep(s, "send", "check")
  /\ IF publisher = "bound" THEN Defined ELSE Undefined(thread[s].early)
-----------------------------------------------------------------------------
CallbackStep(s, from, to) ==
  /\ Alive
  /\ callback[s].pc = from
  /\ callback' = [callback EXCEPT ![s].pc = to]
  /\ UNCHANGED <<process, mainQueues, engineVars, thread, name>>

\* A pair was found; also after the signal, because no reader is waited for.
Callback(s) ==
  /\ Alive
  /\ callback[s].pc = "idle"
  /\ \E segment \in SegmentIds :
       /\ CreateFrameQueue(<<s, "uv">>, segment)
       /\ callback' = [callback EXCEPT ![s] =
                         [pc |-> IF segment = 0 THEN "idle" ELSE "check_vis",
                          uv |-> segment, early |-> mainQueues[s].visState # "nil"]]
  /\ Defined
  /\ UNCHANGED <<process, mainQueues, engineVars, thread>>

\* FrameQueue.Push looks at the pointer,
CheckVis(s) ==
  /\ CallbackStep(s, "check_vis", IF mainQueues[s].visState = "nil" THEN "push_uv" ELSE "push_vis")
  /\ Defined
  /\ UNCHANGED segments

\* and shm_queue_push uses it; the ring may be full.
PushVis(s) ==
  /\ CallbackStep(s, "push_vis", "push_uv")
  /\ IF mainQueues[s].visState = "mapped"
     THEN /\ Defined
          /\ \/ segments' = [segments EXCEPT ![mainQueues[s].vis] = @ \cup {process}]
             \/ UNCHANGED segments
     ELSE Undefined(callback[s].early) /\ UNCHANGED segments

PushUv(s) ==
  /\ CallbackStep(s, "push_uv", "idle")
  /\ Defined
  /\ \/ segments' = [segments EXCEPT ![callback[s].uv] = @ \cup {process}]
     \/ UNCHANGED segments

Next ==
  \/ Main
  \/ \E s \in Streams :
       \/ Lookup(s) \/ CheckRunning(s) \/ PopVis(s) \/ PopUv(s)
       \/ ProcessFrame(s) \/ CallDetect(s) \/ Detect(s)
       \/ Publish(s) \/ CallPublish(s) \/ Send(s)
       \/ Callback(s) \/ CheckVis(s) \/ PushVis(s) \/ PushUv(s)
  \/ Die \/ Restart

Spec == Init /\ [][Next]_vars
-----------------------------------------------------------------------------
\* What is shut down under a thread is used only by an iteration of its loop,
\* or by a callback, that had begun before: no iteration that begins later
\* reaches a detector or publisher that is gone, no callback a queue whose
\* Destroy returned, and before shutdown nothing is used that was freed.  This
\* is about what is freed; the start has a fault of its own (StartDefined).
UseAfterFreeOnlyEarly == "late" \notin faults /\ ("early" \in faults => ~running)

\* What init_stream logs of a context that it created, "vis_ctx=%d,
\* uv_ctx=%d", is read from that context: the engine is initialised without
\* undefined behaviour.  The code moves the context away first.
StartDefined == main.pc \in {"init", "bind"} => faults = {}

\* From start to signal every detection thread is in its loop and pops from
\* the segments that the callback pushes into, though each was created again
\* and again, and by processes that ended in the middle.
Connected ==
  main.pc = "serve" =>
    \A s \in Streams :
      /\ thread[s].pc # "done"
      /\ LET queues == IF thread[s].pc = "lookup" THEN registered[s] ELSE thread[s].queues
         IN /\ queues.vis = mainQueues[s].vis
            /\ queues.uv = name[<<s, "uv">>]
            /\ callback[s].pc \in {"check_vis", "push_vis", "push_uv"} => callback[s].uv = queues.uv

\* No process analyses a frame of an earlier one, however that ended.
OwnFramesOnly == \A s \in Streams : thread[s].hand \subseteq {process}

\* When main returned, no segment is left but an ultraviolet one that a
\* callback created after its queue was destroyed, whatever an earlier process
\* had left behind.
SegmentsRemoved ==
  main.pc = "exited" =>
    \A s \in Streams :
      /\ name[<<s, "vis">>] = 0
      /\ name[<<s, "uv">>] # 0 => name[<<s, "uv">>] > mainQueues[s].uv
=============================================================================
