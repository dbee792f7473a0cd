------------------------------- MODULE Regions -------------------------------
(***************************************************************************)
(* From a pair of frames that was popped to the raw detections of arcs:    *)
(* the copies to the device, the kernels that fill the networks' inputs,   *)
(* the regions around pantographs, the way back from a region to the       *)
(* frame, and the pixels from which the energy of an arc is estimated.     *)
(*                                                                         *)
(* What a kernel computes is left out; which elements of which buffer its  *)
(* threads read and write is kept, and how large each buffer is: the host  *)
(* buffers of the loop are of one size, the networks' inputs of the size   *)
(* their engines say, the others of that of the picture.  Coordinates of   *)
(* boxes are in units of 1 / Unit of a pixel, those of events, which are a *)
(* fraction of the network's input, in 1 / (Unit * Dst) of one.  Floats    *)
(* are exact, but for the one product whose rounding shows (Resized).      *)
(***************************************************************************)
EXTENDS Integers, Sequences, FiniteSets

CONSTANTS
  Sizes,         \* sizes of frames of both cameras
  MaxFrameSize,  \* MAX_FRAME_SIZE, in bytes
  Bindings,      \* dimensions an engine may give its input, a dynamic one as -1
  Dst,           \* model_input_w, model_input_h
  Block,         \* threads of a block in one dimension
  Padding,       \* roi_padding
  MinRegion,     \* the 32 of detect_arc_in_rois
  Unit,
  Scenes,        \* what the first network may find: sequences of boxes
  Sightings      \* what the second network may find: sets of boxes

Size == [w : Nat \ {0}, h : Nat \ {0}]
Box  == [x1 : Int, y1 : Int, x2 : Int, y2 : Int]

ASSUME RegionsAssumption ==
  /\ Sizes \subseteq Size /\ Dst \in Size
  /\ MaxFrameSize \in Nat /\ Bindings \subseteq Seq(Int)
  /\ Block \in Nat \ {0} /\ Unit \in Nat \ {0}
  /\ Padding \in Nat /\ MinRegion \in Nat \ {0}
  /\ Scenes \subseteq Seq(Box) /\ Sightings \subseteq SUBSET Box

VARIABLES
  pc,        \* where detect is
  frame,     \* width and height, those of the visible frame
  uv,        \* the size of the ultraviolet frame, which detect is not told
  input,     \* the floats each engine's input_device was allocated for
  missing,   \* the buffers whose allocation failed
  rois,      \* the regions to go
  events,    \* all_events, each with its region and detection
  launch     \* the last kernel or copy

sizes == <<frame, uv, input>>
vars  == <<pc, sizes, missing, rois, events, launch>>

Nothing == [kernel |-> "none"]

\* load: the elements of a binding; a dynamic dimension counts as one.
Volume(dims) ==
  LET vol[d \in 0..Len(dims)] ==
        IF d = 0 THEN 1 ELSE vol[d - 1] * (IF dims[d] > 0 THEN dims[d] ELSE 1)
  IN vol[Len(dims)]

Inputs == {"visible_input", "uv_input"}

\* The engines are loaded, and a pair of frames was popped.
Init ==
  /\ pc = "idle"
  /\ frame \in Sizes /\ uv \in Sizes
  /\ input \in [Inputs -> {Volume(dims) : dims \in Bindings}]
  /\ missing = {}
  /\ rois = <<>> /\ events = {}
  /\ launch = Nothing

Larger(a, b)  == IF a < b THEN b ELSE a
Smaller(a, b) == IF a < b THEN a ELSE b
Between(x, lo, hi) == Smaller(Larger(x, lo), hi)

\* static_cast<int>
Trunc(x, unit) == IF x >= 0 THEN x \div unit ELSE -((-x) \div unit)
-----------------------------------------------------------------------------
\* Mutant: the last block is missing when it would not be full.
LaunchedFloor(size) ==
  {t \in (0..(Block * (size.w \div Block) - 1)) \X (0..(Block * (size.h \div Block) - 1)) :
     t[1] < size.w /\ t[2] < size.h}

\* The threads of a launch that do not return at once.
Launched(size) ==
  LET Blocks(n) == (n + Block - 1) \div Block
  IN {t \in (0..(Block * Blocks(size.w) - 1)) \X (0..(Block * Blocks(size.h) - 1)) :
        t[1] < size.w /\ t[2] < size.h}

\* Three channels of a pixel, together or in planes.
Packed(t, size) == {(t[2] * size.w + t[1]) * 3 + c : c \in 0..2}
Planar(t, size) == {(c * size.h + t[2]) * size.w + t[1] : c \in 0..2}

\* The two sizes a letterbox may have along one side: a product of floats that
\* should be whole may be just below.
Resized(n, d) == {n \div d} \cup (IF n % d = 0 THEN {n \div d - 1} ELSE {})

\* The size of the picture in the letterbox: the smaller of the two scales.
Letterboxes(src) ==
  LET scale == IF Dst.w * src.h <= Dst.h * src.w THEN <<Dst.w, src.w>> ELSE <<Dst.h, src.h>>
  IN [w : Resized(src.w * scale[1], scale[2]), h : Resized(src.h * scale[1], scale[2])]

\* kernel_resize_normalize_letterbox: the pixel a thread reads, if it is not
\* in the padding.
LetterboxReads(src, resize) ==
  LET pad == [w |-> (Dst.w - resize.w) \div 2, h |-> (Dst.h - resize.h) \div 2]
      Sample(d, from, to) == Smaller((d * from) \div to, from - 1)
  IN UNION {Packed(<<Sample(t[1] - pad.w, src.w, resize.w),
                     Sample(t[2] - pad.h, src.h, resize.h)>>, src) :
              t \in {u \in Launched(Dst) : /\ u[1] \in pad.w..(pad.w + resize.w - 1)
                                           /\ u[2] \in pad.h..(pad.h + resize.h - 1)}}

\* kernel_roi_crop_normalize; it does not scale.
CropReads(x, y) ==
  UNION {Packed(<<Between(x + t[1], 0, frame.w - 1), Between(y + t[2], 0, frame.h - 1)>>, frame) :
           t \in Launched(Dst)}

\* Mutant: the box is not cut at the far edges of the frame.
EnergyPixelsFar(event) ==
  LET x1 == Larger(0, Trunc(event.x1, Unit * Dst.w))
      y1 == Larger(0, Trunc(event.y1, Unit * Dst.h))
  IN {<<x, y>> : x \in x1..(Trunc(event.x2, Unit * Dst.w) - 1),
                 y \in y1..(Trunc(event.y2, Unit * Dst.h) - 1)}

\* compute_instant_energy_gpu: the pixels that are copied row by row.
EnergyPixels(event) ==
  LET x1 == Larger(0, Trunc(event.x1, Unit * Dst.w))
      y1 == Larger(0, Trunc(event.y1, Unit * Dst.h))
      x2 == Smaller(frame.w, Trunc(event.x2, Unit * Dst.w))
      y2 == Smaller(frame.h, Trunc(event.y2, Unit * Dst.h))
  IN {<<x, y>> : x \in x1..(x2 - 1), y \in y1..(y2 - 1)}

Offset(t, size) == t[2] * size.w + t[1]

\* The bytes of a frame: three channels, and one.
FrameBytes(buffer) == IF buffer = "visible" THEN 3 * frame.w * frame.h ELSE uv.w * uv.h

\* The bytes the last launch or copy reads of a buffer; a copy writes as many.
Reads(buffer) ==
  CASE launch.kernel = "copy" /\ buffer \in {launch.from, launch.to} -> 0..(FrameBytes(launch.to) - 1)
    [] launch.kernel = "letterbox" /\ buffer = launch.from -> LetterboxReads(launch.src, launch.resize)
    [] launch.kernel = "blend" /\ buffer = "visible" -> UNION {Packed(t, frame) : t \in Launched(frame)}
    [] launch.kernel = "blend" /\ buffer = "uv" -> {Offset(t, frame) : t \in Launched(frame)}
    [] launch.kernel = "crop" /\ buffer = "blended" -> CropReads(launch.x, launch.y)
    [] launch.kernel = "energy" /\ buffer = "uv" -> {Offset(t, frame) : t \in EnergyPixels(launch.event)}
    [] OTHER -> {}

\* The floats each thread writes,
Writes ==
  LET dst == IF launch.kernel = "blend" THEN frame ELSE Dst
  IN IF launch.kernel \in {"none", "copy", "energy"} THEN {}
     ELSE {<<t, Planar(t, dst)>> : t \in Launched(dst)}

\* to one buffer.
Written(buffer) == IF Writes # {} /\ launch.to = buffer THEN UNION {w[2] : w \in Writes} ELSE {}

Buffers == {"vis_data", "uv_data", "visible", "uv", "blended", "roi_input"} \cup Inputs

\* What was allocated for a buffer, in bytes.
Bytes(buffer) ==
  CASE buffer \in missing                -> 0
    [] buffer \in {"vis_data", "uv_data"} -> MaxFrameSize
    [] buffer \in {"visible", "uv"}       -> FrameBytes(buffer)
    [] buffer = "blended"                 -> 4 * 3 * frame.w * frame.h
    [] buffer = "roi_input"               -> 4 * 3 * Dst.w * Dst.h
    [] buffer \in Inputs                  -> 4 * input[buffer]
-----------------------------------------------------------------------------
\* cudaMalloc, whose result nobody looks at.
Allocate(buffers) == \E failed \in SUBSET buffers : missing' = (missing \ buffers) \cup failed

\* cudaFree
Free(buffers) == missing' = missing \ buffers

\* stream_detect_loop copies both frames to the device; a copy to nowhere is
\* refused.
CopyVisible ==
  /\ pc = "idle"
  /\ pc' = "copy_uv"
  /\ Allocate({"visible", "uv"})
  /\ launch' = IF "visible" \in missing' THEN Nothing
               ELSE [kernel |-> "copy", from |-> "vis_data", to |-> "visible"]
  /\ UNCHANGED <<sizes, rois, events>>

CopyUv ==
  /\ pc = "copy_uv"
  /\ pc' = "detect"
  /\ launch' = IF "uv" \in missing THEN Nothing
               ELSE [kernel |-> "copy", from |-> "uv_data", to |-> "uv"]
  /\ UNCHANGED <<sizes, missing, rois, events>>

\* infer, up to the network: the preprocessing of a source.
InferFrom(buffer, src, target) ==
  \E resize \in Letterboxes(src) :
    launch' = [kernel |-> "letterbox", from |-> buffer, src |-> src, to |-> target, resize |-> resize]

\* detect is called with the visible frame's size.
Detect ==
  /\ pc = "detect"
  /\ pc' = "rois"
  /\ InferFrom("visible", frame, "visible_input")
  /\ UNCHANGED <<sizes, missing, rois, events>>

\* A side of a region: padded and clamped.
Padded(lo, hi, size) ==
  <<Larger(0, lo - Padding * Unit), Smaller(size * Unit, hi + Padding * Unit)>>

\* extract_pantograph_rois
ExtractRois ==
  /\ pc = "rois"
  /\ \E boxes \in Scenes :
       /\ rois' = [i \in DOMAIN boxes |->
                     LET x == Padded(boxes[i].x1, boxes[i].x2, frame.w)
                         y == Padded(boxes[i].y1, boxes[i].y2, frame.h)
                     IN [x1 |-> x[1], y1 |-> y[1], x2 |-> x[2], y2 |-> y[2]]]
       /\ IF boxes = <<>> THEN pc' = "idle" /\ Free({"visible", "uv"})
          ELSE pc' = "blend" /\ UNCHANGED missing
  /\ launch' = Nothing
  /\ UNCHANGED <<sizes, events>>

\* cuda_blend_uv_visible
Blend ==
  /\ pc = "blend"
  /\ pc' = "region"
  /\ Allocate({"blended"})
  /\ launch' = [kernel |-> "blend", to |-> "blended"]
  /\ UNCHANGED <<sizes, rois, events>>

\* Mutant: a part of a pixel is a pixel.
ExtentUp(lo, hi) == Trunc(hi - lo + Unit - 1, Unit)

\* roi_w, roi_h
Extent(lo, hi) == Trunc(hi - lo, Unit)

Small(roi) == Extent(roi.x1, roi.x2) < MinRegion \/ Extent(roi.y1, roi.y2) < MinRegion

\* The loop over the regions: one that is too small is passed over.
NextRegion ==
  /\ pc = "region" /\ rois # <<>>
  /\ IF Small(Head(rois))
     THEN /\ rois' = Tail(rois)
          /\ launch' = Nothing
          /\ UNCHANGED <<pc, missing>>
     ELSE /\ Allocate({"roi_input"})
          /\ launch' = [kernel |-> "crop", to |-> "roi_input", x |-> Trunc(Head(rois).x1, Unit),
                                                               y |-> Trunc(Head(rois).y1, Unit)]
          /\ pc' = "infer"
          /\ UNCHANGED rois
  /\ UNCHANGED <<sizes, events>>

Infer ==
  /\ pc = "infer"
  /\ pc' = "map"
  /\ InferFrom("roi_input", Dst, "uv_input")
  /\ UNCHANGED <<sizes, missing, rois, events>>

\* A detection in the frame.
Event(roi, det) ==
  LET Back(d, lo, hi, dst) == d * Extent(lo, hi) + lo * dst
  IN [x1 |-> Back(det.x1, roi.x1, roi.x2, Dst.w), x2 |-> Back(det.x2, roi.x1, roi.x2, Dst.w),
      y1 |-> Back(det.y1, roi.y1, roi.y2, Dst.h), y2 |-> Back(det.y2, roi.y1, roi.y2, Dst.h),
      roi |-> roi, det |-> det]

MapBack ==
  /\ pc = "map"
  /\ \E dets \in Sightings : events' = events \cup {Event(Head(rois), det) : det \in dets}
  /\ rois' = Tail(rois)
  /\ pc' = "region"
  /\ launch' = Nothing
  /\ Free({"roi_input"})
  /\ UNCHANGED sizes

\* The energies of the events that nms keeps, one after the other; an event
\* without a pixel in the frame has none.
EstimateEnergy ==
  /\ pc \in {"region", "energy"} /\ rois = <<>>
  /\ \/ \E event \in events :
          /\ events' = events \ {event}
          /\ launch' = IF EnergyPixels(event) = {} THEN Nothing
                       ELSE [kernel |-> "energy", event |-> event]
          /\ pc' = "energy"
          /\ Free({"blended"})
     \/ /\ events' = {} /\ launch' = Nothing /\ pc' = "idle"
        /\ Free({"blended", "visible", "uv"})
  /\ UNCHANGED <<sizes, rois>>

Next == \/ CopyVisible \/ CopyUv \/ Detect \/ ExtractRois \/ Blend \/ NextRegion \/ Infer \/ MapBack
        \/ EstimateEnergy

Spec == Init /\ [][Next]_vars
-----------------------------------------------------------------------------
\* Why a buffer may be too small: its allocation failed; a frame has more bytes
\* than the host buffers of the loop; the ultraviolet frame has fewer pixels than
\* the visible one, whose size is taken for both; or the input of an engine has
\* fewer elements than the configured picture, which nothing compares.
Short(buffer) ==
  \/ buffer \in missing
  \/ buffer = "vis_data" /\ MaxFrameSize < FrameBytes("visible")
  \/ buffer = "uv_data" /\ MaxFrameSize < FrameBytes("uv")
  \/ buffer = "uv" /\ uv.w * uv.h < frame.w * frame.h
  \/ buffer \in Inputs /\ input[buffer] < 3 * Dst.w * Dst.h

\* Whatever the networks answer and however odd the sizes, no thread and no copy
\* reads or writes past a buffer that is not Short, and every float that the
\* next reader expects is written, by one thread.
AccessesInside ==
  /\ \A buffer \in Buffers :
       \/ /\ Reads(buffer) \subseteq 0..(Bytes(buffer) - 1)
          /\ \A k \in Written(buffer) : 4 * k + 3 < Bytes(buffer)
       \/ Short(buffer)
  /\ Writes # {} =>
       LET n == IF launch.kernel = "blend" THEN frame.w * frame.h ELSE Dst.w * Dst.h
       IN /\ Written(launch.to) = 0..(3 * n - 1)
          /\ Cardinality(Writes) = n

\* An event lies in its region, and the region, not smaller than MinRegion, in
\* the frame, if the second network keeps to its image: also for boxes that
\* the first network puts half or wholly outside the frame.
EventsInRegion ==
  \A e \in events :
    LET roi == e.roi
        Inside(d, dst) == d \in 0..(Unit * dst)
    IN /\ ~Small(roi)
       /\ roi.x1 >= 0 /\ roi.x2 <= Unit * frame.w /\ roi.y1 >= 0 /\ roi.y2 <= Unit * frame.h
       /\ \A x \in {<<e.det.x1, e.x1>>, <<e.det.x2, e.x2>>} :
            Inside(x[1], Dst.w) => x[2] \in (Dst.w * roi.x1)..(Dst.w * roi.x2)
       /\ \A y \in {<<e.det.y1, e.y1>>, <<e.det.y2, e.y2>>} :
            Inside(y[1], Dst.h) => y[2] \in (Dst.h * roi.y1)..(Dst.h * roi.y2)
=============================================================================
