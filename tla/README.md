# Verification of arcvision

TLA+ models of arcvision, the program that watches a train's pantograph with a
visible-light and an ultraviolet camera and reports electric arcs.  The modules
are translated from the source (`src/cmd`, `src/pkg`, `src/cpp`); TLC checks
them on small instances, and TLAPS proves the main theorems for every value of
the constants.

## The system

One Go process holds everything: `cmd/arcvision/main.go` and four Go packages,
and a C++ engine reached through cgo.  The repository has no tests and next to
no comments, so the code is the only reference.

```
camera ── RTSPDecoder ─┐                                 ┌─ vis ring ─┐
                       ├─ ingestStream ─ FrameSync ─ callback         ├─ stream_detect_loop
camera ── RTSPDecoder ─┘                                 └─ uv ring ──┘        │
                                                                      ArcDetector, ArcLifecycleTracker
                                                                               │
alarm log ── alarmPersistLoop ── alarmChan ── receiveLoop ── ZeroMQ SUB/PUB ── ZmqPublisher
                                                  └── resultChan ── resultAggregator
```

| Component | State | Operations | Talks to | What makes it correct |
|---|---|---|---|---|
| RTSP decoder (`pkg/decoder`) | an FFmpeg context, a frame counter | open, DecodeNext, Close | called by its reader goroutine | the time it stamps is in the unit its users assume |
| Ingest loop (`main.go` `ingestStream`) | two decoders, two channels that say a reader ended | connect, two readers, reconnect | pushes into FrameSync | a failed camera is reconnected; frames of an old session do not meet those of a new one |
| FrameSync (`pkg/sync`) | two bounded buffers under a mutex | PushVisible, PushUV, Drain | runs the callback with the mutex held | frames of a pair are close in time, none is used twice, none that has a partner waits |
| MultiStreamSync (`pkg/sync`) | a map of FrameSyncs | the same, by stream | | one FrameSync per stream |
| main and the engine (`main.go`, `engine_main.cpp`) | the detector, the publisher, the registered queues, `g_running`; segments that outlive the process | create, init, register, run_loop, signal, shutdown, destroy | objects that threads use without a lock | nothing is used after it is gone but by what had begun before; threads and callback share segments; nothing of one process reaches the next |
| Callback (`main.go`) | the two rings of a stream | re-creates the ultraviolet ring, pushes both frames | rings, through `pkg/shm` | the two rings stay in step |
| Frame ring (`shm_frame_queue.cpp`, `pkg/shm`) | in shared memory: two counters, 64 slots with a state, a header and pixels | create, push, push_gpu, pop, pop_batch, destroy | Go thread and C++ thread, by atomics only | whole frames, once, in order; no slot written while read |
| Detection loop (`engine_main.cpp`) | none of its own | pop one frame of each ring, analyse | rings, detector, publisher | a visible frame is analysed with the ultraviolet frame it belongs to |
| TensorRT engine (`trt_engine.cpp`) | a pool of contexts, a condition variable | load, acquire, release, unload | called by the detector | a context has one user; a waiter is woken or times out |
| Regions and energies (`arc_detector.cpp`, `arc_severity.cpp`) | the regions and events of one frame | extract_pantograph_rois, detect_arc_in_rois, compute_instant_energy_gpu | launches kernels, calls infer | an event lies in the region it was found in |
| Detector and tracker (`arc_detector.cpp`, `arc_severity.cpp`) | active and completed tracks, next number | detect: nms, update, expire, associate | called by the detection loop | an arc keeps its number and does not lose its severity; an event carries the data of its own track |
| Publisher (`zmq_publisher.cpp`) | a PUB socket | publish_nonblock | C structs as bytes | the receiver reads the same fields; a full socket drops and never blocks |
| Receiver (`pkg/result`) | results, alarms, two channels, the log, `running` | Connect, receiveLoop, alarmPersistLoop, LatestResults, LatestAlarms, Close | aggregator in `main.go` | every alarm is accounted for; everything ends |
| CUDA preprocessing (`cuda_preprocess.cu`) | none | per-pixel kernels | called by the detector and the engines | no thread leaves its buffers, no element is left unwritten |
| Configuration | constants | loadConfig | | it returns constants; `configs/config.yaml` (three streams) is not read and one stream runs |

What is hard here: two threads that share a ring with only atomics; a reset of
that ring, for every pair, under the thread that reads it; two cameras that
deliver in any order, stop, and start again from another time; a matching that
is greedy on overlapping boxes; a shutdown that closes channels, sockets and
files under running goroutines; one that deletes a detector under threads that
nobody joins, and segments that the next process finds; sizes and boxes that fit
no block, frame or letterbox; and data that cross a language boundary by
hand-written layout or with an unstated unit.  `PROJECT.json` lists the hazards
line by line, with the properties that answer them.

The tree does not compile as it stands (a `std::pair` of four parameters, a
C++ header included from C in cgo, the failing `static_assert` of the first
finding below).  The models take the evident meaning of the code.

## The modules

**`BoundedFifo`** is the abstract specification of a queue: `Put` while fewer
than `Capacity` wait, `Get(n)` of the oldest `n`.

**`ShmFrameQueue`** is `shm_frame_queue.cpp`, one step per atomic operation or
copy.  `write_seq`, `read_seq` and the slots are the shared layout; `prod` and
`cons` are the program counters and locals of the two callers.
`Push` → `PushCas` → `PushHeader` → `PushData` → `PushReady` → `PushPublish` is
`shm_queue_push`; `PushGpuFail` is the error path that only `shm_queue_push_gpu`
has.  `Pop` … `PopPublish` is both `shm_queue_pop` and `shm_queue_pop_batch`: a
pop is a batch of one with different return codes.  `Create`, `CreateReadSeq`,
`CreateSlot` are the stores of `shm_queue_create`, used only by the next
module.  A frame's header and pixels are separate steps, so that a torn frame
is visible.  `pushed` and `popped` are histories.  The counters are stored with
release and read with acquire, the slot states likewise, so that each thread
sees the copies that precede what it read; the model is therefore sequentially
consistent.  The relaxed stores of `shm_queue_create` are taken in program
order, which is how a store-ordered processor (x86) runs them; a weaker one
could show the reset in other orders.

**`StreamPipeline`** composes the callback and the detection loop with the two
rings of one stream.  `main.go` creates the ultraviolet ring inside the
callback, for every pair, which resets it in place (the key exists) while the
detection thread may be popping.  The ultraviolet ring is therefore an instance
of `ShmFrameQueue`, the visible ring, used as intended, of `BoundedFifo`, which
`ShmFrameQueue` is shown to implement.  The number of a pair stands for its
frames and for their time.  A failed `Push` is ignored, as in the code, and a
failed creation (a mapping is leaked per pair) loses the pair.

**`FrameSync`** is `framesync.go`.  The mutex is held through the callback, so
`PushVisible`, `PushUV` and `Drain` are one step each, `EvictOld` and `TryMatch`
within it.  Times are integers modulo 2^64 (`HalfRange` is 2^63) and `Diff`
wraps as Go's subtraction does.  The scan of `tryMatch` is stated by what it
finds (`Candidates`, `IsBest`); its nested loops are written out beside it as
recursive functions (`Nearer`, `ScanRow`, `Scan`), and `ScanAgrees` says that
they find the same.  `emitted` is a history.

**`PtsUnits`** extends `FrameSync` with the stamping of `decoder.go`: ticks of
the stream's time base, `NsPerTick` nanoseconds each.

**`Ingest`** is `ingestStream` for one stream: `Top` … `CloseBoth` are the
statements of its loop, `Check`, `Decode`, `Push` those of the two readers, and
`decoder` the two decoders with their `last_pts`.  The module extends
`FrameSync`, the synchroniser the readers push into, which the sessions share
because nothing drains it between them.  `born` is a history: the session each
frame was read in.  What a camera sends, whether `Open` succeeds and whether
`Open` and `DecodeNext` ever return is left to the environment; frames without a
time stamp are numbered on from `last_pts`, as `decode_next_frame` does.  The
sleeps are left out.

**`ContextPool`** is the pool of `trt_engine.cpp`.  What is done under
`pool_mutex_` is one step; `wait_until` with a predicate is the loop the
standard defines it as, so a wait ends by a notification, spuriously (`Wake`) or
by its deadline, and `Recheck` looks at the pool again.  The unlock of
`release_context` and its `notify_one` are two steps.  `unload` frees contexts
one by one whoever holds them; to use one afterwards may end the process
(`crashed`) or not.  `orphans` is a history: what was held when `unload` began.
The class is written for several callers (`context_pool_size` is 4 by default)
and modelled so; in this program each engine has one context and one caller, and
only an unload at shutdown meets a call.

**`EngineLoad`** puts `load` before that: it extends `ContextPool`, whose initial
state is a complete load, and the theorems about the pool start there.  `load`
is where `TRTEngine::load` is, `made` what exists, each thing with its owner: the
runtime and the engine of the `TRTEngine`, the TensorRT context, the buffers and
the stream of a context.  Each call that can fail may.  `AllocateFails` is the
`free` of the half-made context and `Fail` the destructor, which unloads; then
`FreeContext` and `DestroyEngine` are the steps of `unload` with what they free.
How many outputs the engine has, and whether it has an input, is read from it.

**`Lifecycle`** is the program from start to end and to its next start.  `main`
is the goroutine of that name with the engine calls it makes: `CreateVis` …
`Start`, then `Signal`, and the deferred calls in their order, `StopRunning` …
`ClearQueues` (`arcvision_engine_shutdown`) and `DestroyUv` … `ForgetVis`.  The
detection thread is `Lookup` … `Send`, with every read of a shared pointer a
step: `ProcessFrame` asks for `g_detector`, `CallDetect` reads it again,
`Detect` uses what it pointed to.  The callback is `Callback` … `PushUv`.  A
segment has a name or not, and is reached through the mappings a queue holds
(`mainQueues`, `registered`, the thread's and the callback's own); it holds the
numbers of the processes whose frames wait in it.  `Die` ends the process
anywhere, as do the calls of `log.Fatalf`; `Restart` begins with nothing but the
segments.  Using a freed object, or a mapping that is gone, adds to `faults`, a
history, and ends the process or does not; so does `InitStream`, because
`init_stream` reads the context it has moved into the map.  `early` remembers
whether the thread's iteration, or the callback, began while everything was
there.  The pops and pushes themselves are single steps: their detail is in
`ShmFrameQueue` and `StreamPipeline`.

**`Regions`** is what becomes of a pair that was popped: the copies to the
device (`CopyVisible`, `CopyUv`), `ArcDetector::detect` up to the raw detections
(`Detect`, `ExtractRois`, `Blend`, `NextRegion`, `Infer`, `MapBack`), and the
estimate of energies (`EstimateEnergy`).  Each copy and launch is kept as the
sets of elements it reads and writes (`LetterboxReads`, `CropReads`,
`EnergyPixels`, `Reads`, `Writes`, `Written`); the values are left out.  `Bytes`
says what each of eight buffers was allocated with: the host buffers with
`MaxFrameSize`, the network inputs with the `Volume` of the dimensions in their
engine, the others with what their picture needs.  `missing` are the buffers
whose `cudaMalloc` failed, which the code does not notice; the allocations of
`load` are checked and those of the host buffers throw.  What the networks find
is any of `Scenes` and `Sightings`.  Coordinates are in parts of a pixel, so
that truncation shows; floats are exact but for the one product whose rounding
can matter (`Resized`).

**`ArcTracker`** is `ArcDetector::detect` from the raw detections on, one step a
frame: `Nms`, `Updated` (`update`), `ExpireOldTracks`, `Associated` and `Event`.
A box is a value with an overlap relation `Iou`; `Detections` says which
energies arcs may have where; energies are small numbers; cumulative energy is
counted in thirtieths.  The Kalman filter's answer is any value between its
state and the measurement, because its gain is between 0 and 1.  The loops of
`nms` are stated as the set they keep (`Survivors`); `Marked` is the loops, as a
recursive function, and `NmsAgrees` says that they agree.

**`ResultReceiver`** is `receiver.go` and `resultAggregator`.  What is read
without the mutex (`running`, the socket, the log, the channels) is a step of
its own; what is done under it is one.  `rr.running` is read with a data race;
the model reads it afresh every time round the loop.  A send on a closed channel and a
nil socket set `panicked`, which ends the process.

**`WireLayout`** lays out `ArcResultMsg` twice: as a C compiler aligns it and
as `parseMessage` reads it.

The `MC…` modules give values to the constants that a `.cfg` cannot write.

## The runs

| Run | Instance | What it asks |
|---|---|---|
| `queue` | 2 slots, 5 frames, batches up to 3 | `SlotExclusive`: no slot is copied into and out of at once. `NeverContended`: no compare-exchange fails. `ImplementsFifo`: refinement of `BoundedFifo`. `EveryFrameDelivered`. |
| `pipeline` | 2 slots each, 3 pairs | `UvNeverStale`: a visible frame is never analysed with an older ultraviolet one. `AnalysedOnce`. `TornOnlyByReset`: header and pixels of different frames only if a reset ran during the pop. `QuietPairAnalysed`: a pair left alone is analysed. |
| `sync` | 4 and 3 times, buffers of 2, 4 frames a camera | `NoMatchLeft`: one match per push is enough. `EmittedOnce`, `OrderPreserved`. `LeftoversEvicted`: a frame is paired only while fewer frames of its camera than the buffer holds came after it and went without a partner. |
| `tracker` | 4 boxes, one of them with strong arcs, 2 detections a frame, 3 frames, time may go back | `IdsUnique`, `RecentlySeen`, `EventsOwnTrack`, `NmsAgrees`. `SeverityFalls`: only with the smoothed energy, only from levels 3 and 5. `OneTrackEach`: a detection extends one track or founds one, and founds none while a track it matches goes unextended. |
| `receiver` | 3 messages of 2 results, channels of 1, lists of 3 and 2 | `AlarmsConserved`: an alarm is in one place or was dropped on a full channel, and their numbers are in order wherever they wait. `AlarmBacked`: an alarm is listed only once it is in the log and its result in the list, and no list passes its limit; `AlarmLogged` and `AllEnd`. |
| `ingest` | 2 sessions, 3 frames a camera, buffers of 2, with and without time stamps, 4-bit times | `SessionsApart`: nothing is left open, nothing closed is read, no frame of a session arrives after the next began to connect. `ImplementsSync`: the readers of all sessions together are one user of the synchroniser, so what `FrameSync` promises holds across sessions. `EmittedClose`, although with a camera without time stamps the subtraction wraps; `ScanAgrees`. `CancelEnds`: a cancelled stream ends unless a camera keeps it. |
| `pool` | 3 threads, 2 contexts, no or one input, 1 or 2 outputs, `load` failing anywhere | `OneUser`, `NoneLost`, `NoLostWakeup`: someone is on the way to every free context while anyone waits. `CrashNeedsHolder`: only what was held when `unload` began is used after it was freed. `NothingLeaked`: whatever exists can be reached by what frees it, contexts in the pool are complete, and none outlives its engine or the runtime. `InferReturns`. |
| `lifecycle` | 1 stream, 3 processes | `UseAfterFreeOnlyEarly`: only an iteration or a callback that began before can use what shutdown freed, and before shutdown nobody uses anything that was freed. `Connected`: while the program serves, thread and callback use the same segments. `OwnFramesOnly`: no process analyses a frame of an earlier one. `SegmentsRemoved`: what a returning main leaves. |
| `regions` | frames 5x4, 3x7, 2x2 and 9x1, networks of 4x3, blocks of 2x2, half pixels, no or one pantograph of 28 boxes, or two, host buffers of 20 bytes, engine inputs of 36 (as configured) or 3 elements, any allocation failing | `AccessesInside`: no copy or thread reads or writes past a buffer that is not `Short`, and every element the next reader expects is written once. `EventsInRegion`. |
| `wire_layout` | 64-bit alignment | violated: first finding. |
| `pts_units` | ticks of 3 ns, tolerance 2 | violated: second finding. |
| `lifecycle_start` | 2 streams, 1 process | violated: third finding. |

Every type invariant is proved.  No run repeats them, with the one exception of
`ArcTracker`'s, which bounds `completed_tracks_` and is run.  Those of `Ingest`,
`Lifecycle`, `EngineLoad` and `Regions` are stated in the proof modules
(`Ingest`'s in `FrameSync_proofs`).
The inductive invariants were model-checked on the instances of the runs before
they were proved; no run repeats them either.

**Bounds.** Two slots wrap around after two frames, so five frames wrap twice,
fill the ring and empty it, and three in a batch is more than can wait.  A pop
of three pairs' ultraviolet ring can meet two further resets.  In `sync` a
buffer of two overflows, and several frames are within the tolerance of one
another.  In `tracker` the four boxes have every kind of overlap the thresholds
tell apart: suppressed, matched but not suppressed, associated or not, none, and
a box with no area; three frames are a founding, a first extension, whose energy
and duration can reach every level, and a second, which can fall from it, or an
expiry.  In `receiver` six results overflow all channels and lists, and Close
begins anywhere.  In `ingest` a camera without time stamps gives its frames the
least numbers there are, and one of them is exactly 2^63 from a time stamp; a
leftover of the first session meets the second session's frames in its buffer,
within three frames a camera (how long a leftover can stay is asked in `sync`);
the second session can end, so that a third attempt to connect is made (it may
only fail).  In `lifecycle` a second process can inherit from a first that ended
anywhere and a third from a second that inherited; one stream is what is
configured, streams share only the detector, the publisher and `g_running`, and
an instance of two streams and one process was checked once (9.7 million
states).  In `regions` one size is longer than the network's input either way,
one smaller, one so elongated that its letterbox is empty; no side is a multiple
of the block throughout; some frames fit a host buffer of 20 bytes and some do
not, an engine's input is as large as configured or, where its sides are
dynamic, smaller (without any one disjunct of `Short` the run fails); boxes lie
before, across, in and past every edge, and back to front.  In `pool` three
threads for two contexts make one wait while another overtakes it.  `MaxWrites`,
`MaxPairs`, `MaxFrames`, `MaxMessages`, `MaxSessions`, `MaxProcesses` and
`MaxOutputs` cap the histories and the counters; nothing else is bounded.

**Deadlock** is checked where the system polls for ever (queue, pipeline,
synchroniser, whose `Drain` is always possible) and in the regions, where the
next frame can always come.  It is not in the tracker, whose number of frames is
bounded, nor in the receiver, the ingest loop, the pool and the lifecycle: the
first two end, in the pool the process may, and the last process of the
lifecycle does.

**Fairness.** The detection thread is an endless loop that sleeps and polls:
weak fairness of its steps.  A call of the queue or a callback that began runs
to its end, as any running thread does; that another frame arrives is never
assumed.  The receiver's goroutines are scheduled, and `Close`, once main came
to it, runs on; that anything is published or that a signal comes is not
assumed.  The ingest goroutines are scheduled, but neither `Open` nor
`DecodeNext` need return (the connections have no timeout and nothing interrupts
them): `IngestFairSpec` has no fairness for `OpenVis` and `OpenUv`, and
`CancelEnds` has the premise `CamerasAnswer`.  For a camera that neither answers
nor fails it is false that a cancelled stream ends, whether it is being opened
or read.  In the pool, deadlines pass, threads are scheduled and inference ends;
that anyone calls `infer` or `unload` is not assumed.  No lock can be held for
ever, and no step needs strong fairness: none of these actions is disabled again
by another thread before it runs, or it is and the property allows for it
(`QuietPairAnalysed`).

## The findings

1. `wire_layout`: `zmq_publisher.h:25` asserts that `ArcResultMsg` has 88
   bytes.  On a 64-bit target it has 96, with padding before `intensity` and
   before `track_duration_ns`; `parseMessage` reads 88 packed bytes a result.
   Were the assertion dropped, every field after the first gap would be misread.
2. `pts_units`: the tolerance is configured in milliseconds and converted to
   nanoseconds, the times it is applied to are ticks of the stream's time base
   (`PTSNs` is `frame.pts`).
3. `lifecycle_start`: `init_stream` logs the pool sizes of the context it has
   created, `arc_detector.cpp:72-76`, through the pointer that line 70 moved into
   the map.  It is null by then, for every stream of every start, before the
   engine says that it is initialised.  `Lifecycle` lets the process end there or
   go on; `UseAfterFreeOnlyEarly` speaks of what is freed, not of this.

Observations that contradict no statement in the repository, so not findings.
Stated by properties of the models: the ultraviolet ring never holds more than
one frame (`UvHoldsOne`); a frame can be torn by the reset (`TornOnlyByReset`
says when); `Close` can make `receiveLoop` panic (`AllEnd` admits it); a
detection thread can be inside the detector or the publisher when shutdown
deletes them, and a callback in a queue that main destroys
(`UseAfterFreeOnlyEarly` says which); a callback after the end of main leaves an
ultraviolet segment behind, and a process that ends by `log.Fatalf` all of its
own, which the next one empties (`SegmentsRemoved`, `OwnFramesOnly`); an
ultraviolet frame with fewer pixels than the visible one is read past its end, a
frame of more than 1920 by 1080 pixels is copied from beyond the host buffer, an
engine whose input is smaller than the configured picture has it overwritten,
and a buffer that could not be allocated is used all the same (`AccessesInside`
has these exceptions, in `Short`); a camera that accepts a connection and says
nothing keeps a stream from ending (`CamerasAnswer`).

Met while reading, of data the models leave out: the kernel that crops a region
does not scale it, while events are mapped back as if it did; the detections of
both networks are in coordinates of their letterbox and are used as those of the
source; the blended frame and the region are planes of floats and are read as
interleaved bytes; `DecodeNext` lays rows out
three bytes a pixel apart for both cameras and fills the first third of each,
while an ultraviolet frame is used as one byte a pixel; `g_running` is never set again,
so the engine cannot be started twice in a process; an engine without an output
has none to hand to `postprocess`, which is asked for it all the same; a failed
write of the alarm log, or a log that was not opened, is passed over, and the
alarm listed as if it were on disk (`AlarmBacked` and `AlarmLogged` are about a
log that was opened and whose writes succeed).

## The proofs

`ShmFrameQueue_proofs`, for every capacity, batch size and set of frames (the
assumption is `QueueAssumption` alone):

- `Invariance`: `Spec => []IInv`.  Neither `SlotExclusive` nor the refinement is
  inductive: to know that a compare-exchange succeeds one must know the state of
  every slot, not only of the one in hand.  `IInv` says, for each of the
  `Capacity` sequence numbers from `read_seq` on, which state its slot is in
  (`ExpectedState`, from the counters and the two program counters), that slots
  not yet given back hold the frames published under their numbers
  (`ContentInv`), and that the two histories agree (`HistoryInv`).  The proof
  needs that numbers less than `Capacity` apart have different slots, which is
  a lemma about `%`, and then goes action by action, conjunct by conjunct.
- `TypeCorrect`, `Exclusion`, `Uncontended`: corollaries for `TypeOK`,
  `SlotExclusive`, `NeverContended`.
- `Refinement`: `Spec => ImplementsFifo`.  `PushPublish` is a `Put`,
  `PopPublish` a `Get` of what the call took, every other step a stutter.
- `DeliveryAlways`: what the queue is for, said without the slots.  The n-th
  frame popped is the n-th pushed, header and pixels are of that one frame, and
  no more than `Capacity` frames wait.

`StreamPipeline_proofs`, for every capacity of both queues, every tolerance and
number of pairs (`PipelineAssumption` alone):

- `Invariance`: `Spec => []IInv`.  `Stages` ties the callback to the producer's
  side of the ultraviolet ring: from the reset for a pair to the publication of
  its frame `write_seq` is 0, so every call uses the first slot.  The hard part
  is the consumer, whose counter the reset moves back while it pops.  `Popping`
  and `Unread` say that a pop which found a frame copies header and pixels
  newer than all those analysed, and not older than the visible frame in hand,
  whatever resets and pushes come between its steps; `Undisturbed` says what a
  pop without a reset knows.
- `TypeCorrect` (with `UvHoldsOne`: the reset makes a ring of 64 slots a ring of
  one), `UvNeverStaleAlways`, `AnalysedOnceAlways`, `TornOnlyByResetAlways`.
- `VisibleQueue`: the visible queue moves only as `BoundedFifo` allows, so the
  ring that `Refinement` shows to be one may stand in its place.

`FrameSync_proofs`, for every buffer size, tolerance and set of times:

- `TypeCorrect`, `EmittedOnceAlways` and `LeftoversEvictedAlways` hold with
  overflow as well.  `Fresh` is what they rest on: the frames of a buffer are in
  the order of arrival, none was paired, and every frame since a buffered one
  was paired or is still behind it in the buffer.  So no more frames than the
  rest of its buffer came after a frame and are without a partner.
- `PairedOnArrivalAlways`: every pair is reported by the push of one of its own
  frames (no run repeats it), and `NoMatchLeftAlways`, both assuming
  `NoOverflow` (no two times 2^63 or more apart; without it the property is
  false).  The argument: nothing matched before the
  push, so every pair that matches now has the new frame in it; the best pair
  is removed, and the new frame with it; eviction only removes frames.
- `OrderPreservedAlways`, assuming `NoOverflow`: with frames of a camera further
  apart than the tolerance a frame matches one at most, so two crossing pairs
  would have left a match in the buffers.
- `EmittedCloseAlways` allows overflow and assumes only `NotOpposite`: no two
  times, one of each camera, at the opposite ends of the 64-bit range, 2^64 less
  the tolerance or more apart; those would wrap around to close.  A camera
  without time stamps is at one end, no camera reaches the other.  A difference
  of exactly 2^63 is its own negative; `tryMatch` forgets what it saw before
  such a pair, and the proof shows that it never reports it.

- `ScanAgreesAlways` and `TryMatchIsLoops`: the definitions by `IsBest` are the
  code's loops.  `NearerFinds`, `RowFinds` and `ScanFinds` say what `bestDiff`
  and its pair are after a comparison, after part of a row and after some rows:
  the least difference so far and the first pair that has it, counting only the
  pairs after the last one whose difference was exactly 2^63 (`Since`).
  `TryMatchIsLoops` holds for all buffers and times, whether reachable or not.

The same module has the proofs about `Ingest`, for any number of sessions and
frames, whatever the cameras do (`IngestAssumption` besides):

- `IngestInvariance`, `SessionsApartAlways`.  `IngestInv` says which decoders
  are open at each place of the loop (`DecodersOpen`), that readers run only
  while it waits for them (`ReadersWaited`), and that a frame in a reader's hand
  is the last of its camera (`FramesInOrder`).
- `Refinement`: `IngestSpec => ImplementsSync`.  A push is the `PushVisible` or
  `PushUV` of the next frame, everything else a stutter.
- `AcrossSessions` draws the conclusion: the properties of `FrameSync`, those
  that need `NoOverflow` under it, hold of `IngestSpec`, whatever was reconnected
  between two frames.  In particular, a leftover of the earlier session is
  paired with a frame of the later one only as `LeftoversEvicted` allows: frames
  that find partners push nothing out, so with `MaxBufferSize` of 2 or more no
  number of frames since the reconnection excludes it.

`ArcTracker_proofs`, for every set of boxes, every overlap relation of
`ArcTrackerAssumption` (symmetric, at most 1, 1 of a box with itself unless it
has no area and then 0 with all) and every threshold with
`nms_thresh` not above the 0.5 of the association:

- About the operators: `SortedLists` and `SelectSelects` (what a selection of
  positions keeps, in order), `NmsFacts` (detections left by suppression overlap
  pairwise by no more than the threshold), `BestDetectionIsBest`,
  `MatchingMatches` (the greedy matching is injective, matches only what
  overlaps enough, and leaves no detection that overlaps an unmatched track),
  `UpdatedFollows`, `Expiry`, `LevelsFall` (`classify_severity` is monotone).
- `Invariance`: `IInv` is `IdsUnique` in the form that update and expiry keep
  (`Ids`), the severity of a track as the classification of its last sighting
  (`Classified`), and the properties of the state a call leaves.
- `TypeCorrect`, `IdsUniqueAlways`, `RecentlySeenAlways`, `SeverityFallsAlways`.
- `EventsOwnTrackAlways`: the code finds an event's track again by overlap.  It
  finds its own because the box of every track that was reported is that of
  another surviving detection, and two of those overlap by at most `nms_thresh`,
  which is not above 0.5.
- `OneTrackEachAlways`: detections and sighted tracks are in bijection.
- `NmsAgreesAlways`: the loops of `nms` suppress what `Survivors` leaves out.
  `SurvivorsKept` shows that the set `Survivors` chooses exists; `MarkRound` is one round of the outer loop, with the flags it has read
  and set so far described by that set (`MarkedUpTo`).

`ResultReceiver_proofs`, for all messages and sizes (its assumption alone):

- `Invariance`, `TypeCorrect`, `AlarmsConservedAlways`, `AlarmBackedAlways`.
  `IInv` follows the results from the wire through `receiveLoop` (`Flow`) and
  the alarms from the channel to log and list (`Lists`), whatever `Close` does:
  numbers rise along the whole way, so no alarm is in two places; `Backed` says
  that the list of results is the end of what was recorded.

`ContextPool_proofs`, for every number of contexts and every finite set of
threads (`ContextPoolAssumption`, `EngineLoadAssumption`):

- `Invariance`: `Spec => []IInv`, and from it `TypeCorrect`, `OneUserAlways`,
  `NoneLostAlways`, `CrashNeedsHolderAlways`.  The three properties need one
  another: a context has one user because what is in the pool is not held
  (`NoneLost`), and what is freed is used only by holders because the pool,
  once emptied, receives nothing but what they held.  To these `IInv` adds that
  a thread has a context exactly when it uses or returns one, and that nothing
  is freed before everyone was woken.  A release appends to the pool, a take
  removes its head; two lemmas say what that does to the set of pooled contexts
  and that they stay distinct.
- `NoLostWakeupAlways` counts the threads on their way against the free
  contexts; finiteness of the threads is what the counting needs.
- `LoadInvariance`, `NothingLeakedAlways`, `PoolInEngine`: what exists at each
  step of `load` (`MadeSoFar`), that nothing leaks or outlives its owner, and
  that the four properties of the pool hold of one that `load` made.

`Lifecycle_proofs`, for every number of streams and processes (its assumption
alone):

- `Invariance`, and from it `UseAfterFreeOnlyEarlyAlways`, `OwnFramesOnlyAlways`,
  `ConnectedAlways`, `SegmentsRemovedAlways`.  `IInv` says how far each of
  main's loops has come (`MainQueues`, `RegisteredQueues`, `Removal`), that
  thread and callback hold what main registered, and `Fresh`: whatever segment
  anybody can reach through a mapping that is used was emptied by this process,
  though the first queue of a stream may have been created over a dead one's
  frames.

`Regions_proofs`, for every set of sizes of frames, size of the host buffers, set
of dimensions of the engines' inputs, size of network and block, whichever
allocations fail, and every answer of the networks (`RegionsAssumption` alone):

- `RegionsInvariance`, `RegionsTypeCorrect`.  `RInv` says that a copy is from its
  camera's buffer and a letterbox is drawn from one of the size the kernel is
  told (`SourceFits`), that every region was clamped to the frame and the one at
  hand is large enough (`RegionsClamped`, `RegionLarge`), and that every event
  was mapped back from such a region (`EventsMapped`).  `VolumeNat` is what makes
  the size of an engine's input a number for dimensions of any length.
- `EventsInRegionAlways`: a linear map takes the network's image into the region
  (`BackInside`), given that the region is not back to front, which `~Small` excludes.
- `AccessesInsideAlways`, launch by launch (`ReadsInside`, `WritesInside`): what
  is copied and what the threads read and write is within the buffer, for any
  rounding of the letterbox's sides, unless the buffer is `Short`
  (`OffsetInside`, `PackedInside`), and each element the next reader expects is
  written, by one thread only (`LaunchedAll`: the grid covers the image also
  when no side is a multiple of the block; `PlanesWritten`: the three planes
  are disjoint and fill the buffer).  `Division` and `Truncated` are the facts
  about `\div` and the float-to-int conversion that all of them rest on.

**Only model-checked:** the liveness properties, because liveness under fairness
is out of the prover's reach (`EveryFrameDelivered`, `QuietPairAnalysed`,
`AlarmLogged`, `AllEnd`, `CancelEnds`, `InferReturns`).  All other properties of
the passing runs are theorems.  The two runs that expect a violation are
counterexamples and need no proof.
Where a proof needed induction over the natural numbers (that the set
`Survivors` chooses and the function `Matching` defines exist, and what the
loops of `tryMatch` and `nms` have found after so many rounds, that the product
in `Volume` is a number) it goes through the least element of a set, `LeastNat`.

## What is not modelled

- The values kernels and networks compute, and the energy as a number: real
  arithmetic without state.  Raw detections and energies are inputs of
  `ArcTracker`, boxes of the networks inputs of `Regions`.
- `cuda_uv_enhance`, the host variant of the energy estimator, `infer_batch`,
  blocking `publish`, `shutdown_stream`: nothing calls them.
- The nms inside `TRTEngine::postprocess`, the same loops as those of
  `ArcDetector::nms`.
- `MultiStreamSync` itself: streams share nothing but the map.  `Ingest` pushes
  through it and has the one `FrameSync` it would find.
- Loading the configuration; opening the log.
- The C++ subscriber (`ZmqPublisher::connect`, `receive`): nothing calls it.

## Plan

In order of importance; done:

1. `BoundedFifo`, `ShmFrameQueue` and their refinement, invariant and proofs.
2. `StreamPipeline`, the composition around the ring that is reset.
3. `FrameSync` with its proofs; `PtsUnits`.
4. `ArcTracker`.
5. `ResultReceiver`; `WireLayout`.
6. `Ingest`, composed with `FrameSync`.
7. `ContextPool` with its proofs.
8. `Lifecycle`: start, shutdown, death and restart.
9. `Regions`: the launches of the kernels and the geometry around them.
10. `EngineLoad`: load and its failures, before `ContextPool`.
11. Proofs about `StreamPipeline`, `ArcTracker`, `ResultReceiver`, `Ingest`,
    `EngineLoad` and `Lifecycle`, and the rest of `FrameSync` and `ContextPool`.
12. Proofs about `Regions`: `EventsInRegion`, and `AccessesInside` kernel by
    kernel, each launch as a lemma about the elements its threads reach; then
    the copies to the device and the sizes of all the buffers.
13. The loops of `tryMatch` and of `nms` as recursive functions, and the theorems
    that they find what `IsBest` and `Survivors` say.

Left for whoever extends this: several streams on one PUB socket, once more than
one is configured.
