--------------------------- MODULE Regions_proofs ---------------------------
(***************************************************************************)
(* Machine-checked proofs about the accesses of the copies and kernels and *)
(* about the way back from a region to the frame, for every size of the    *)
(* frames, of the host buffers, of the networks' inputs, as configured and *)
(* as their engines say, and of a block of threads, every padding,         *)
(* whichever allocations fail, and whatever the two networks find.         *)
(***************************************************************************)
EXTENDS Regions, FiniteSetTheorems, SequenceTheorems, WellFoundedInduction, TLAPS

LEMMA Numbers ==
  /\ Sizes \subseteq Size /\ Dst \in Size /\ Dst.w \in Nat \ {0} /\ Dst.h \in Nat \ {0}
  /\ Block \in Nat \ {0} /\ Unit \in Nat \ {0} /\ Padding \in Nat /\ MinRegion \in Nat \ {0}
  /\ MaxFrameSize \in Nat
BY RegionsAssumption DEF Size

\* Division rounds down and leaves a remainder.
LEMMA Division ==
  ASSUME NEW n \in Int, NEW d \in Nat \ {0}
  PROVE  /\ n \div d \in Int /\ n % d \in Int
         /\ n = d * (n \div d) + (n % d)
         /\ 0 <= n % d /\ n % d < d
BY SMT

LEMMA Monotone ==
  ASSUME NEW a \in Int, NEW b \in Int, NEW c \in Nat, a <= b
  PROVE  a * c <= b * c
OBVIOUS

LEMMA Truncated ==
  ASSUME NEW n \in Int
  PROVE  /\ Trunc(n, Unit) \in Int
         /\ Trunc(n, Unit) > 0 => Trunc(n, Unit) * Unit <= n
<1>1. Unit \in Nat \ {0} /\ -n \in Int
  BY Numbers
<1>2. n \div Unit \in Int /\ (-n) \div Unit \in Int
  BY <1>1, Division
<1>3. CASE n >= 0
  <2>1. Trunc(n, Unit) = n \div Unit
    BY <1>3 DEF Trunc
  <2>2. n = Unit * (n \div Unit) + (n % Unit) /\ 0 <= n % Unit /\ n % Unit \in Int
    BY <1>1, Division
  <2> QED BY <1>1, <1>2, <2>1, <2>2
<1>4. CASE ~(n >= 0)
  <2>1. Trunc(n, Unit) = -((-n) \div Unit)
    BY <1>4 DEF Trunc
  <2>2. (-n) \div Unit >= 0
    BY <1>1, <1>4
  <2> QED BY <1>2, <2>1, <2>2
<1> QED BY <1>3, <1>4
-----------------------------------------------------------------------------
\* Every set of natural numbers that is not empty has a least.
LEMMA LeastNat ==
  ASSUME NEW T \in SUBSET Nat, T # {}
  PROVE  \E x \in T : \A y \in T : x <= y
<1> DEFINE R == OpToRel(<, Nat)
<1>1. \E x \in T : \A y \in T : ~(<<y, x>> \in R)
  BY Zenon, NatLessThanWellFounded, WFMin
<1>2. \A x, y \in Nat : y < x => <<y, x>> \in R
  BY DEF OpToRel
<1> HIDE DEF R
<1>3. PICK x \in T : \A y \in T : ~(<<y, x>> \in R)
  BY <1>1
<1>4. ASSUME NEW y \in T PROVE x <= y
  <2>1. x \in Nat /\ y \in Nat
    OBVIOUS
  <2>2. ~(y < x)
    BY <1>2, <1>3, <2>1
  <2> QED BY <2>1, <2>2
<1> QED BY <1>4

\* f[d] is the product of the first d factors.
Product(f, n, factor) == f = [d \in 0..n |-> IF d = 0 THEN 1 ELSE f[d - 1] * factor[d]]

LEMMA ProductExists ==
  ASSUME NEW n \in Nat, NEW factor \in [1..n -> Nat]
  PROVE  \E f \in [0..n -> Nat] : Product(f, n, factor)
<1> DEFINE Exists(m) == \E f \in [0..m -> Nat] : Product(f, m, factor)
           T == {m \in 0..n : ~Exists(m)}
<1>1. Exists(0)
  <2> DEFINE f == [d \in 0..0 |-> 1]
             h == [d \in 0..0 |-> IF d = 0 THEN 1 ELSE f[d - 1] * factor[d]]
  <2>1. f = h /\ f \in [0..0 -> Nat]
    OBVIOUS
  <2> HIDE DEF f
  <2> QED BY <2>1 DEF Product
<1>2. ASSUME NEW m \in 1..n, Exists(m - 1) PROVE Exists(m)
  <2>1. PICK f \in [0..(m - 1) -> Nat] : Product(f, m - 1, factor)
    BY <1>2
  <2> DEFINE more == [d \in 0..m |-> IF d = m THEN f[m - 1] * factor[m] ELSE f[d]]
             h    == [d \in 0..m |-> IF d = 0 THEN 1 ELSE more[d - 1] * factor[d]]
  <2>2. f[m - 1] \in Nat /\ factor[m] \in Nat
    OBVIOUS
  <2>3. f[m - 1] * factor[m] \in Nat
    BY <2>2
  <2>4. more \in [0..m -> Nat]
    BY <2>3
  <2>5. ASSUME NEW d \in 0..m PROVE more[d] = h[d]
    <3>1. CASE d = m
      <4>1. d - 1 = m - 1 /\ m - 1 \in 0..m /\ m - 1 # m /\ d # 0
        BY <3>1
      <4>2. more[d - 1] = f[m - 1]
        BY <4>1
      <4> QED BY <3>1, <4>1, <4>2
    <3>2. CASE d # m
      <4>1. d \in 0..(m - 1) /\ more[d] = f[d]
        BY <3>2
      <4>2. f[d] = IF d = 0 THEN 1 ELSE f[d - 1] * factor[d]
        BY <2>1, <4>1 DEF Product
      <4>3. d # 0 => more[d - 1] = f[d - 1]
        BY <4>1
      <4> QED BY <4>1, <4>2, <4>3
    <3> QED BY <3>1, <3>2
  <2>6. more = h
    BY <2>5
  <2> HIDE DEF more
  <2>7. Product(more, m, factor)
    BY <2>6 DEF Product
  <2> QED BY <2>4, <2>7
<1> HIDE DEF Exists
<1>3. T = {}
  <2> SUFFICES ASSUME T # {} PROVE FALSE
    OBVIOUS
  <2>1. PICK m \in T : \A k \in T : m <= k
    <3>1. T \in SUBSET Nat
      OBVIOUS
    <3> HIDE DEF T
    <3> QED BY <3>1, LeastNat
  <2>2. m \in 0..n /\ ~Exists(m)
    OBVIOUS
  <2>3. m \in 1..n
    BY <1>1, <2>2
  <2>4. m - 1 \in 0..n /\ m - 1 \notin T
    BY <2>1, <2>3
  <2>5. Exists(m - 1)
    BY <2>4
  <2> QED BY <1>2, <2>2, <2>3, <2>5
<1>4. n \in 0..n /\ Exists(n)
  BY <1>3
<1> QED BY <1>4 DEF Exists

\* An engine's input has a number of elements, whatever its dimensions.
LEMMA VolumeNat ==
  ASSUME NEW dims \in Seq(Int)
  PROVE  Volume(dims) \in Nat
<1> DEFINE n == Len(dims)
           P(f) == f = [d \in 0..n |-> IF d = 0 THEN 1
                                       ELSE f[d - 1] * (IF dims[d] > 0 THEN dims[d] ELSE 1)]
           vol == CHOOSE f : P(f)
           factor == [d \in 1..n |-> IF dims[d] > 0 THEN dims[d] ELSE 1]
<1>1. n \in Nat /\ \A d \in 1..n : dims[d] \in Int
  BY LenProperties, ElementOfSeq
<1> HIDE DEF n
<1>2. factor \in [1..n -> Nat]
  BY <1>1
<1>3. PICK f \in [0..n -> Nat] : Product(f, n, factor)
  <2> HIDE DEF factor
  <2> QED BY <1>1, <1>2, ProductExists
<1>4. P(f)
  <2>1. f = [d \in 0..n |-> IF d = 0 THEN 1 ELSE f[d - 1] * factor[d]]
    BY <1>3 DEF Product
  <2>2. \A d \in 0..n : (IF d = 0 THEN 1 ELSE f[d - 1] * factor[d])
                         = (IF d = 0 THEN 1 ELSE f[d - 1] * (IF dims[d] > 0 THEN dims[d] ELSE 1))
    BY <1>1
  <2> QED BY <2>1, <2>2
<1>5. P(vol)
  BY <1>4
<1>6. Volume(dims) = vol[n]
  BY DEF Volume, n
<1> HIDE DEF vol, factor
<1>7. vol[0] = 1 /\ \A d \in 1..n : vol[d] = vol[d - 1] * (IF dims[d] > 0 THEN dims[d] ELSE 1)
  BY <1>1, <1>5
<1> HIDE DEF P
<1> DEFINE T == {d \in 0..n : vol[d] \notin Nat}
<1>8. T = {}
  <2> SUFFICES ASSUME T # {} PROVE FALSE
    OBVIOUS
  <2>1. T \in SUBSET Nat
    BY <1>1
  <2>2. PICK d \in T : \A k \in T : d <= k
    BY <2>1, LeastNat
  <2>3. d \in 1..n /\ d - 1 \in 0..n /\ d - 1 \notin T
    BY <1>1, <1>7, <2>2
  <2>4. vol[d - 1] \in Nat
    BY <2>3
  <2>5. (IF dims[d] > 0 THEN dims[d] ELSE 1) \in Nat
    BY <1>1, <2>3
  <2>6. vol[d] \in Nat
    BY <1>7, <2>3, <2>4, <2>5
  <2> QED BY <2>2, <2>6
<1>9. n \in 0..n
  BY <1>1
<1> QED BY <1>6, <1>8, <1>9
-----------------------------------------------------------------------------
\* The position of an element of a buffer by its row and column, and back.
LEMMA OffsetInside ==
  ASSUME NEW w \in Nat, NEW h \in Nat, NEW x \in 0..(w - 1), NEW y \in 0..(h - 1)
  PROVE  y * w + x \in 0..(h * w - 1)
<1>1. y \in Nat /\ y + 1 <= h /\ y * w >= 0
  OBVIOUS
<1>2. (y + 1) * w <= h * w
  BY <1>1, Monotone
<1> QED BY <1>1, <1>2

LEMMA OffsetFound ==
  ASSUME NEW w \in Nat \ {0}, NEW h \in Nat, NEW k \in 0..(h * w - 1)
  PROVE  \E x \in 0..(w - 1) : \E y \in 0..(h - 1) : k = y * w + x
<1> DEFINE y == k \div w
           x == k % w
<1>1. k \in Int /\ k >= 0 /\ k < h * w
  OBVIOUS
<1>2. y \in Int /\ x \in Int /\ k = w * y + x /\ 0 <= x /\ x < w
  BY <1>1, Division
<1> HIDE DEF x, y
<1>3. y >= 0
  <2>1. CASE y <= -1
    <3>1. y * w <= -1 * w
      BY <1>2, <2>1, Monotone
    <3> QED BY <1>1, <1>2, <3>1
  <2> QED BY <1>2, <2>1
<1>4. y < h
  <2>1. CASE h <= y
    <3>1. h * w <= y * w
      BY <1>2, <2>1, Monotone
    <3> QED BY <1>1, <1>2, <3>1
  <2> QED BY <1>2, <2>1
<1>5. k = y * w + x
  BY <1>2
<1>6. x \in 0..(w - 1) /\ y \in 0..(h - 1)
  BY <1>2, <1>3, <1>4
<1> QED BY Zenon, <1>5, <1>6

\* The blocks of a launch cover the picture: its threads are its pixels.
LEMMA LaunchedAll ==
  ASSUME NEW size \in Size
  PROVE  Launched(size) = (0..(size.w - 1)) \X (0..(size.h - 1))
<1> DEFINE Blocks(n) == (n + Block - 1) \div Block
           Edge(n) == Block * Blocks(n) - 1
<1>1. size.w \in Nat /\ size.h \in Nat /\ Block \in Nat \ {0}
  BY Numbers DEF Size
<1>2. ASSUME NEW n \in Nat PROVE Edge(n) \in Int /\ n - 1 <= Edge(n)
  <2>1. n + Block - 1 \in Int
    BY <1>1
  <2>2. /\ Blocks(n) \in Int /\ (n + Block - 1) % Block \in Int
        /\ n + Block - 1 = Block * Blocks(n) + ((n + Block - 1) % Block)
        /\ (n + Block - 1) % Block < Block
    BY <1>1, <2>1, Division
  <2> HIDE DEF Blocks
  <2>3. Block * Blocks(n) \in Int
    BY <1>1, <2>2
  <2>4. n <= Block * Blocks(n)
    BY <1>1, <2>2, <2>3
  <2> QED BY <2>3, <2>4
<1>3. Launched(size) = {t \in (0..Edge(size.w)) \X (0..Edge(size.h)) : t[1] < size.w /\ t[2] < size.h}
  BY DEF Launched
<1> HIDE DEF Edge
<1>4. ASSUME NEW n \in Nat PROVE \A i : i \in 0..(n - 1) <=> i \in 0..Edge(n) /\ i < n
  BY <1>2
<1>5. \A t : t \in Launched(size) => t \in (0..(size.w - 1)) \X (0..(size.h - 1))
  BY <1>1, <1>3, <1>4
<1>6. \A x \in 0..(size.w - 1) : \A y \in 0..(size.h - 1) : <<x, y>> \in Launched(size)
  BY <1>1, <1>3, <1>4
<1> QED BY <1>5, <1>6

LEMMA PackedInside ==
  ASSUME NEW size \in Size, NEW x \in 0..(size.w - 1), NEW y \in 0..(size.h - 1)
  PROVE  Packed(<<x, y>>, size) \subseteq 0..(3 * size.w * size.h - 1)
<1>1. size.w \in Nat /\ size.h \in Nat
  BY DEF Size
<1>2. y * size.w + x \in 0..(size.h * size.w - 1)
  BY <1>1, OffsetInside
<1>3. size.h * size.w = size.w * size.h /\ size.w * size.h \in Int
  BY <1>1
<1> DEFINE k == y * size.w + x
           n == size.w * size.h
<1>4. Packed(<<x, y>>, size) = {k * 3 + c : c \in 0..2}
  BY DEF Packed
<1>5. 3 * size.w * size.h = 3 * n
  BY <1>1
<1>6. k \in 0..(n - 1) /\ n \in Int
  BY <1>2, <1>3
<1> HIDE DEF k, n
<1> QED BY <1>4, <1>5, <1>6

\* The threads of a launch write each element of the three planes once: as
\* many threads as pixels, three elements each, and all elements.
LEMMA PlanesWritten ==
  ASSUME NEW size \in Size
  PROVE  LET W == {<<t, Planar(t, size)>> : t \in Launched(size)}
         IN /\ UNION {v[2] : v \in W} = 0..(3 * (size.w * size.h) - 1)
            /\ Cardinality(W) = size.w * size.h
<1> DEFINE w == size.w
           h == size.h
           L == (0..(w - 1)) \X (0..(h - 1))
           W == {<<t, Planar(t, size)>> : t \in L}
<1>1. w \in Nat \ {0} /\ h \in Nat \ {0} /\ 3 * h \in Nat
  BY DEF Size
<1>2. Launched(size) = L
  BY LaunchedAll
<1>3. \A t : Planar(t, size) = {(c * h + t[2]) * w + t[1] : c \in 0..2}
  BY DEF Planar
<1> HIDE DEF w, h
<1>4. (3 * h) * w = 3 * (w * h)
  BY <1>1
<1>5. {v[2] : v \in W} = {Planar(t, size) : t \in L}
  <2>1. \A t : <<t, Planar(t, size)>>[2] = Planar(t, size)
    OBVIOUS
  <2> HIDE DEF L
  <2> QED BY <2>1
<1>6. ASSUME NEW t \in L PROVE Planar(t, size) \subseteq 0..(3 * (w * h) - 1)
  <2> SUFFICES ASSUME NEW c \in 0..2
               PROVE  (c * h + t[2]) * w + t[1] \in 0..(3 * (w * h) - 1)
    BY <1>3
  <2>1. t[1] \in 0..(w - 1) /\ t[2] \in 0..(h - 1)
    OBVIOUS
  <2>2. c * h + t[2] \in 0..(3 * h - 1)
    BY <1>1, <2>1, OffsetInside
  <2>3. (c * h + t[2]) * w + t[1] \in 0..((3 * h) * w - 1)
    BY <1>1, <2>1, <2>2, OffsetInside
  <2> QED BY <1>4, <2>3
<1>7. ASSUME NEW k \in 0..(3 * (w * h) - 1) PROVE \E t \in L : k \in Planar(t, size)
  <2>1. k \in 0..((3 * h) * w - 1)
    BY <1>4
  <2>2. PICK x \in 0..(w - 1), row \in 0..(3 * h - 1) : k = row * w + x
    BY <1>1, <2>1, OffsetFound
  <2>3. PICK y \in 0..(h - 1), c \in 0..2 : row = c * h + y
    <3>1. h \in Nat \ {0} /\ 3 \in Nat /\ row \in 0..(3 * h - 1)
      BY <1>1, <2>2
    <3>2. \E y \in 0..(h - 1) : \E c \in 0..(3 - 1) : row = c * h + y
      BY Zenon, <3>1, OffsetFound
    <3>3. 0..(3 - 1) = 0..2
      OBVIOUS
    <3> QED BY Zenon, <3>2, <3>3
  <2>4. <<x, y>> \in L /\ k = (c * h + <<x, y>>[2]) * w + <<x, y>>[1]
    BY <2>2, <2>3
  <2> HIDE DEF L
  <2> QED BY <1>3, <2>4
<1>8. UNION {v[2] : v \in W} = 0..(3 * (w * h) - 1)
  BY <1>5, <1>6, <1>7
<1>9. Cardinality(W) = w * h
  <2> DEFINE f == [t \in L |-> <<t, Planar(t, size)>>]
  <2>1. IsFiniteSet(0..(w - 1)) /\ Cardinality(0..(w - 1)) = w
    BY <1>1, FS_Interval
  <2>2. IsFiniteSet(0..(h - 1)) /\ Cardinality(0..(h - 1)) = h
    BY <1>1, FS_Interval
  <2>3. IsFiniteSet(L) /\ Cardinality(L) = w * h
    <3>1. IsFiniteSet(L) /\ Cardinality(L) = Cardinality(0..(w - 1)) * Cardinality(0..(h - 1))
      BY <2>1, <2>2, FS_Product
    <3> QED BY <2>1, <2>2, <3>1
  <2> HIDE DEF L
  <2>4. f \in Bijection(L, W)
    <3>1. f \in [L -> W]
      OBVIOUS
    <3>2. \A s, t \in L : f[s] = f[t] => s = t
      OBVIOUS
    <3>3. \A v \in W : \E t \in L : f[t] = v
      OBVIOUS
    <3> HIDE DEF W, f
    <3> QED BY <3>1, <3>2, <3>3 DEF Bijection, Injection, Surjection, IsInjective
  <2>5. ExistsBijection(L, W)
    BY <2>4 DEF ExistsBijection
  <2> HIDE DEF W, f
  <2> QED BY <2>3, <2>5, FS_Bijection
<1> QED BY <1>2, <1>8, <1>9 DEF w, h
-----------------------------------------------------------------------------
\* What may be launched between two pops.
Copy      == [kernel : {"copy"}, from : {"vis_data", "uv_data"}, to : {"visible", "uv"}]
Letterbox == [kernel : {"letterbox"}, from : {"visible", "roi_input"}, to : Inputs,
              src : Size, resize : [w : Int, h : Int]]
Blended   == [kernel : {"blend"}, to : {"blended"}]
Crop      == [kernel : {"crop"}, to : {"roi_input"}, x : Int, y : Int]
Mapped    == [x1 : Int, y1 : Int, x2 : Int, y2 : Int, roi : Box, det : Box]
Energy    == [kernel : {"energy"}, event : Mapped]

TypeOK ==
  /\ pc \in {"idle", "copy_uv", "detect", "rois", "blend", "region", "infer", "map", "energy"}
  /\ frame \in Size /\ uv \in Size
  /\ input \in [Inputs -> Nat] /\ missing \in SUBSET Buffers
  /\ rois \in Seq(Box)
  /\ events \in SUBSET Mapped
  /\ launch \in {Nothing} \cup Copy \cup Letterbox \cup Blended \cup Crop \cup Energy

\* A region in the frame.
InFrame(roi) ==
  roi.x1 >= 0 /\ roi.x2 <= Unit * frame.w /\ roi.y1 >= 0 /\ roi.y2 <= Unit * frame.h

\* A copy is from the buffer of its camera, a letterbox is drawn from a buffer
\* of the size the kernel is told, every
\* region is clamped, the one at hand is large enough, and every event was
\* mapped back from such a region.
SourceFits ==
  /\ launch.kernel = "copy" => launch.from = IF launch.to = "visible" THEN "vis_data" ELSE "uv_data"
  /\ launch.kernel = "letterbox" => launch.src = IF launch.from = "visible" THEN frame ELSE Dst

RegionsClamped == \A i \in 1..Len(rois) : InFrame(rois[i])

RegionLarge == pc \in {"infer", "map"} => rois # <<>> /\ ~Small(Head(rois))

EventsMapped == \A e \in events : InFrame(e.roi) /\ ~Small(e.roi) /\ e = Event(e.roi, e.det)

RInv == TypeOK /\ SourceFits /\ RegionsClamped /\ RegionLarge /\ EventsMapped

LEMMA InitRInv == Init => RInv
<1> SUFFICES ASSUME Init PROVE RInv
  OBVIOUS
<1>1. TypeOK
  <2>1. {Volume(dims) : dims \in Bindings} \subseteq Nat
    BY VolumeNat, RegionsAssumption
  <2>2. input \in [Inputs -> Nat]
    BY <2>1 DEF Init
  <2> QED BY <2>2, Numbers DEF Init, TypeOK
<1>2. SourceFits /\ RegionsClamped /\ RegionLarge /\ EventsMapped
  BY DEF Init, Nothing, SourceFits, RegionsClamped, RegionLarge, EventsMapped
<1> QED BY <1>1, <1>2 DEF RInv

\* The sizes a letterbox may have are numbers.
LEMMA LetterboxesInt ==
  ASSUME NEW src \in Size
  PROVE  Letterboxes(src) \subseteq [w : Int, h : Int]
<1>1. src.w \in Nat \ {0} /\ src.h \in Nat \ {0} /\ Dst.w \in Nat \ {0} /\ Dst.h \in Nat \ {0}
  BY Numbers DEF Size
<1>2. ASSUME NEW n \in Nat, NEW d \in Nat \ {0} PROVE Resized(n, d) \subseteq Int
  <2>1. n \div d \in Int /\ n \div d - 1 \in Int
    BY Division
  <2> QED BY <2>1 DEF Resized
<1>3. /\ src.w * Dst.w \in Nat /\ src.w * Dst.h \in Nat
      /\ src.h * Dst.w \in Nat /\ src.h * Dst.h \in Nat
  BY <1>1
<1>4. /\ Resized(src.w * Dst.w, src.w) \subseteq Int /\ Resized(src.h * Dst.w, src.w) \subseteq Int
      /\ Resized(src.w * Dst.h, src.h) \subseteq Int /\ Resized(src.h * Dst.h, src.h) \subseteq Int
  BY <1>1, <1>2, <1>3
<1>5. CASE Dst.w * src.h <= Dst.h * src.w
  <2>1. Letterboxes(src) = [w : Resized(src.w * Dst.w, src.w), h : Resized(src.h * Dst.w, src.w)]
    BY <1>5 DEF Letterboxes
  <2> QED BY <1>4, <2>1
<1>6. CASE ~(Dst.w * src.h <= Dst.h * src.w)
  <2>1. Letterboxes(src) = [w : Resized(src.w * Dst.h, src.h), h : Resized(src.h * Dst.h, src.h)]
    BY <1>6 DEF Letterboxes
  <2> QED BY <1>4, <2>1
<1> QED BY <1>5, <1>6

\* Preprocessing launches a letterbox.
LEMMA InferFromLaunches ==
  ASSUME NEW buffer \in {"visible", "roi_input"}, NEW src \in Size, NEW target \in Inputs,
         InferFrom(buffer, src, target)
  PROVE  /\ launch' \in Letterbox
         /\ launch'.from = buffer /\ launch'.src = src
<1>1. PICK resize \in Letterboxes(src) :
        launch' = [kernel |-> "letterbox", from |-> buffer, src |-> src, to |-> target,
                    resize |-> resize]
  BY DEF InferFrom
<1>2. resize \in [w : Int, h : Int]
  BY LetterboxesInt
<1> QED BY <1>1, <1>2 DEF Letterbox

\* Padding and clamping.
LEMMA PaddedInside ==
  ASSUME NEW lo \in Int, NEW hi \in Int, NEW size \in Nat
  PROVE  LET side == Padded(lo, hi, size)
         IN side[1] \in Int /\ side[2] \in Int /\ side[1] >= 0 /\ side[2] <= Unit * size
<1>1. Padding * Unit \in Nat /\ size * Unit \in Nat /\ size * Unit = Unit * size
  BY Numbers
<1>2. /\ Larger(0, lo - Padding * Unit) \in Int /\ Larger(0, lo - Padding * Unit) >= 0
      /\ Smaller(size * Unit, hi + Padding * Unit) \in Int
      /\ Smaller(size * Unit, hi + Padding * Unit) <= size * Unit
  BY <1>1 DEF Larger, Smaller
<1> QED BY <1>1, <1>2 DEF Padded

\* An event's coordinates are numbers.
LEMMA EventTypes ==
  ASSUME NEW roi \in Box, NEW det \in Box
  PROVE  Event(roi, det) \in Mapped /\ Event(roi, det).roi = roi /\ Event(roi, det).det = det
<1>1. /\ roi.x1 \in Int /\ roi.x2 \in Int /\ roi.y1 \in Int /\ roi.y2 \in Int
      /\ det.x1 \in Int /\ det.x2 \in Int /\ det.y1 \in Int /\ det.y2 \in Int
  BY DEF Box
<1>2. Extent(roi.x1, roi.x2) \in Int /\ Extent(roi.y1, roi.y2) \in Int
  BY <1>1, Truncated DEF Extent
<1>3. \A d, e, lo \in Int : d * e + lo * Dst.w \in Int /\ d * e + lo * Dst.h \in Int
  BY Numbers
<1>4. /\ det.x1 * Extent(roi.x1, roi.x2) + roi.x1 * Dst.w \in Int
      /\ det.x2 * Extent(roi.x1, roi.x2) + roi.x1 * Dst.w \in Int
      /\ det.y1 * Extent(roi.y1, roi.y2) + roi.y1 * Dst.h \in Int
      /\ det.y2 * Extent(roi.y1, roi.y2) + roi.y1 * Dst.h \in Int
  BY <1>1, <1>2, <1>3
<1> QED BY <1>4 DEF Event, Mapped
-----------------------------------------------------------------------------
\* Whatever is allocated and freed, what is missing is a buffer.
LEMMA MissingKept ==
  ASSUME missing \in SUBSET Buffers, NEW buffers \in SUBSET Buffers,
         Allocate(buffers) \/ Free(buffers) \/ UNCHANGED missing
  PROVE  missing' \in SUBSET Buffers
BY DEF Allocate, Free

\* One step per action.
LEMMA CopyVisibleStep == RInv /\ CopyVisible => RInv'
<1> SUFFICES ASSUME RInv, CopyVisible PROVE RInv'
  OBVIOUS
<1>1. TypeOK /\ RegionsClamped /\ EventsMapped
  BY DEF RInv
<1>2. /\ pc' = "copy_uv" /\ Allocate({"visible", "uv"})
      /\ UNCHANGED <<frame, uv, input, rois, events>>
      /\ launch' \in {Nothing, [kernel |-> "copy", from |-> "vis_data", to |-> "visible"]}
  BY DEF CopyVisible, sizes
<1>3. missing' \in SUBSET Buffers
  BY <1>1, <1>2, MissingKept DEF TypeOK, Buffers
<1>4. TypeOK'
  BY <1>1, <1>2, <1>3 DEF TypeOK, Copy
<1>5. SourceFits'
  BY <1>2 DEF SourceFits, Nothing
<1>6. RegionsClamped' /\ RegionLarge' /\ EventsMapped'
  BY <1>1, <1>2 DEF RegionsClamped, RegionLarge, EventsMapped, InFrame
<1> QED BY <1>4, <1>5, <1>6 DEF RInv

LEMMA CopyUvStep == RInv /\ CopyUv => RInv'
<1> SUFFICES ASSUME RInv, CopyUv PROVE RInv'
  OBVIOUS
<1>1. TypeOK /\ RegionsClamped /\ EventsMapped
  BY DEF RInv
<1>2. /\ pc' = "detect" /\ UNCHANGED <<frame, uv, input, missing, rois, events>>
      /\ launch' \in {Nothing, [kernel |-> "copy", from |-> "uv_data", to |-> "uv"]}
  BY DEF CopyUv, sizes
<1>3. TypeOK'
  BY <1>1, <1>2 DEF TypeOK, Copy
<1>4. SourceFits'
  BY <1>2 DEF SourceFits, Nothing
<1>5. RegionsClamped' /\ RegionLarge' /\ EventsMapped'
  BY <1>1, <1>2 DEF RegionsClamped, RegionLarge, EventsMapped, InFrame
<1> QED BY <1>3, <1>4, <1>5 DEF RInv

LEMMA DetectStep == RInv /\ Detect => RInv'
<1> SUFFICES ASSUME RInv, Detect PROVE RInv'
  OBVIOUS
<1>1. TypeOK /\ RegionsClamped /\ EventsMapped
  BY DEF RInv
<1>2. /\ pc' = "rois" /\ UNCHANGED <<frame, uv, input, missing, rois, events>>
      /\ InferFrom("visible", frame, "visible_input")
  BY DEF Detect, sizes
<1>3. launch' \in Letterbox /\ launch'.from = "visible" /\ launch'.src = frame
  BY <1>1, <1>2, InferFromLaunches DEF TypeOK, Inputs
<1>4. TypeOK'
  BY <1>1, <1>2, <1>3 DEF TypeOK
<1>5. SourceFits'
  BY <1>2, <1>3 DEF SourceFits, Letterbox
<1>6. RegionsClamped' /\ RegionLarge' /\ EventsMapped'
  BY <1>1, <1>2 DEF RegionsClamped, RegionLarge, EventsMapped, InFrame
<1> QED BY <1>4, <1>5, <1>6 DEF RInv

LEMMA ExtractRoisStep == RInv /\ ExtractRois => RInv'
<1> SUFFICES ASSUME RInv, ExtractRois PROVE RInv'
  OBVIOUS
<1>1. TypeOK /\ EventsMapped /\ frame \in Size /\ frame.w \in Nat /\ frame.h \in Nat
  BY DEF RInv, TypeOK, Size
<1> DEFINE Region(b) ==
             LET x == Padded(b.x1, b.x2, frame.w)
                 y == Padded(b.y1, b.y2, frame.h)
             IN [x1 |-> x[1], y1 |-> y[1], x2 |-> x[2], y2 |-> y[2]]
<1>2. PICK boxes \in Scenes :
        /\ rois' = [i \in DOMAIN boxes |-> Region(boxes[i])]
        /\ pc' = IF boxes = <<>> THEN "idle" ELSE "blend"
  BY DEF ExtractRois
<1>3. launch' = Nothing /\ UNCHANGED <<frame, uv, input, events>> /\ missing' \in SUBSET Buffers
  <2>1. Free({"visible", "uv"}) \/ UNCHANGED missing
    BY DEF ExtractRois
  <2>2. missing' \in SUBSET Buffers
    BY <1>1, <2>1, MissingKept DEF TypeOK, Buffers
  <2> QED BY <2>2 DEF ExtractRois, sizes
<1>4. ASSUME NEW b \in Box PROVE Region(b) \in Box /\ InFrame(Region(b))
  <2>1. b.x1 \in Int /\ b.x2 \in Int /\ b.y1 \in Int /\ b.y2 \in Int
    BY DEF Box
  <2> DEFINE x == Padded(b.x1, b.x2, frame.w)
             y == Padded(b.y1, b.y2, frame.h)
  <2>2. /\ x[1] \in Int /\ x[2] \in Int /\ x[1] >= 0 /\ x[2] <= Unit * frame.w
        /\ y[1] \in Int /\ y[2] \in Int /\ y[1] >= 0 /\ y[2] <= Unit * frame.h
    BY <1>1, <2>1, PaddedInside
  <2> HIDE DEF x, y
  <2>3. Region(b) = [x1 |-> x[1], y1 |-> y[1], x2 |-> x[2], y2 |-> y[2]]
    BY DEF x, y
  <2> QED BY <2>2, <2>3 DEF Box, InFrame
<1> HIDE DEF Region
<1>5. boxes \in Seq(Box) /\ DOMAIN boxes = 1..Len(boxes) /\ Len(boxes) \in Nat
  <2>1. boxes \in Seq(Box)
    BY RegionsAssumption
  <2> QED BY <2>1, LenProperties
<1>6. \A i \in 1..Len(boxes) : boxes[i] \in Box
  BY <1>5, ElementOfSeq
<1>7. rois' \in [1..Len(boxes) -> Box] /\ \A i \in 1..Len(boxes) : InFrame(rois'[i])
  BY <1>2, <1>4, <1>5, <1>6
<1>8. rois' \in Seq(Box) /\ Len(rois') = Len(boxes)
  BY <1>5, <1>7, SeqDef, LenProperties
<1>9. TypeOK'
  BY <1>1, <1>2, <1>3, <1>8 DEF TypeOK
<1>10. RegionsClamped'
  BY <1>3, <1>7, <1>8 DEF RegionsClamped, InFrame
<1>11. SourceFits' /\ RegionLarge' /\ EventsMapped'
  BY <1>1, <1>2, <1>3 DEF SourceFits, RegionLarge, EventsMapped, Nothing, InFrame
<1> QED BY <1>9, <1>10, <1>11 DEF RInv

LEMMA BlendStep == RInv /\ Blend => RInv'
<1> SUFFICES ASSUME RInv, Blend PROVE RInv'
  OBVIOUS
<1>1. /\ pc' = "region" /\ Allocate({"blended"}) /\ UNCHANGED <<frame, uv, input, rois, events>>
      /\ launch' = [kernel |-> "blend", to |-> "blended"]
  BY DEF Blend, sizes
<1>2. missing' \in SUBSET Buffers
  BY <1>1, MissingKept DEF RInv, TypeOK, Buffers
<1>3. TypeOK'
  BY <1>1, <1>2 DEF RInv, TypeOK, Blended
<1>4. SourceFits' /\ RegionsClamped' /\ RegionLarge' /\ EventsMapped'
  BY <1>1 DEF RInv, SourceFits, RegionsClamped, RegionLarge, EventsMapped, InFrame
<1> QED BY <1>3, <1>4 DEF RInv

\* What is left of the regions after the first.
LEMMA RegionsTail ==
  ASSUME RInv, rois # <<>>
  PROVE  /\ Tail(rois) \in Seq(Box)
         /\ \A i \in 1..Len(Tail(rois)) : InFrame(Tail(rois)[i])
         /\ Head(rois) \in Box /\ InFrame(Head(rois))
<1>1. rois \in Seq(Box) /\ \A i \in 1..Len(rois) : InFrame(rois[i])
  BY DEF RInv, TypeOK, RegionsClamped
<1>2. /\ Tail(rois) \in Seq(Box) /\ Len(Tail(rois)) = Len(rois) - 1 /\ Len(rois) \in Nat
      /\ \A i \in 1..(Len(rois) - 1) : Tail(rois)[i] = rois[i + 1]
      /\ Head(rois) = rois[1] /\ Head(rois) \in Box /\ 1 \in 1..Len(rois)
  BY <1>1, HeadTailProperties, EmptySeq, LenProperties
<1>3. \A i \in 1..(Len(rois) - 1) : i + 1 \in 1..Len(rois)
  BY <1>2
<1> QED BY <1>1, <1>2, <1>3

LEMMA NextRegionStep == RInv /\ NextRegion => RInv'
<1> SUFFICES ASSUME RInv, NextRegion PROVE RInv'
  OBVIOUS
<1>1. TypeOK /\ RegionsClamped /\ EventsMapped
  BY DEF RInv
<1>2. /\ pc = "region" /\ rois # <<>> /\ UNCHANGED <<frame, uv, input, events>>
      /\ missing' \in SUBSET Buffers
  <2>1. Allocate({"roi_input"}) \/ UNCHANGED missing
    BY DEF NextRegion
  <2>2. missing' \in SUBSET Buffers
    BY <1>1, <2>1, MissingKept DEF TypeOK, Buffers
  <2> QED BY <2>2 DEF NextRegion, sizes
<1>3. EventsMapped'
  BY <1>1, <1>2 DEF EventsMapped, InFrame
<1>4. CASE Small(Head(rois))
  <2>1. rois' = Tail(rois) /\ launch' = Nothing /\ pc' = pc
    BY <1>4 DEF NextRegion
  <2>2. TypeOK'
    BY <1>1, <1>2, <2>1, RegionsTail DEF TypeOK
  <2>3. RegionsClamped'
    BY <1>2, <2>1, RegionsTail DEF RegionsClamped, InFrame
  <2>4. SourceFits' /\ RegionLarge'
    BY <1>2, <2>1 DEF SourceFits, RegionLarge, Nothing
  <2> QED BY <1>3, <2>2, <2>3, <2>4 DEF RInv
<1>5. CASE ~Small(Head(rois))
  <2>1. /\ launch' = [kernel |-> "crop", to |-> "roi_input", x |-> Trunc(Head(rois).x1, Unit),
                                                            y |-> Trunc(Head(rois).y1, Unit)]
        /\ pc' = "infer" /\ UNCHANGED rois
    BY <1>5 DEF NextRegion
  <2>2. Head(rois).x1 \in Int /\ Head(rois).y1 \in Int
    BY <1>2, RegionsTail DEF Box
  <2>3. launch' \in Crop
    BY <2>1, <2>2, Truncated DEF Crop
  <2>4. TypeOK'
    BY <1>1, <1>2, <2>1, <2>3 DEF TypeOK
  <2>5. RegionsClamped' /\ SourceFits' /\ RegionLarge'
    BY <1>1, <1>2, <1>5, <2>1 DEF RegionsClamped, SourceFits, RegionLarge, InFrame, Small
  <2> QED BY <1>3, <2>4, <2>5 DEF RInv
<1> QED BY <1>4, <1>5

LEMMA InferStep == RInv /\ Infer => RInv'
<1> SUFFICES ASSUME RInv, Infer PROVE RInv'
  OBVIOUS
<1>1. TypeOK /\ RegionsClamped /\ EventsMapped /\ RegionLarge
  BY DEF RInv
<1>2. /\ pc = "infer" /\ pc' = "map" /\ UNCHANGED <<frame, uv, input, missing, rois, events>>
      /\ InferFrom("roi_input", Dst, "uv_input")
  BY DEF Infer, sizes
<1>3. launch' \in Letterbox /\ launch'.from = "roi_input" /\ launch'.src = Dst
  BY <1>2, InferFromLaunches, Numbers DEF Inputs
<1>4. TypeOK'
  BY <1>1, <1>2, <1>3 DEF TypeOK
<1>5. SourceFits'
  BY <1>3 DEF SourceFits, Letterbox
<1>6. RegionsClamped' /\ RegionLarge' /\ EventsMapped'
  BY <1>1, <1>2 DEF RegionsClamped, RegionLarge, EventsMapped, InFrame, Small
<1> QED BY <1>4, <1>5, <1>6 DEF RInv

LEMMA MapBackStep == RInv /\ MapBack => RInv'
<1> SUFFICES ASSUME RInv, MapBack PROVE RInv'
  OBVIOUS
<1>1. TypeOK /\ RegionsClamped /\ EventsMapped /\ RegionLarge
  BY DEF RInv
<1>2. /\ pc = "map" /\ pc' = "region" /\ rois' = Tail(rois)
      /\ launch' = Nothing /\ UNCHANGED <<frame, uv, input>> /\ Free({"roi_input"})
  BY DEF MapBack, sizes
<1>3. PICK dets \in Sightings : events' = events \cup {Event(Head(rois), det) : det \in dets}
  BY DEF MapBack
<1>4. rois # <<>> /\ ~Small(Head(rois))
  BY <1>1, <1>2 DEF RegionLarge
<1>5. Head(rois) \in Box /\ InFrame(Head(rois))
  BY <1>4, RegionsTail
<1>6. \A det \in dets : det \in Box
  BY RegionsAssumption
<1>7. ASSUME NEW e \in events', e \notin events
      PROVE  /\ e \in Mapped /\ InFrame(e.roi) /\ ~Small(e.roi) /\ e = Event(e.roi, e.det)
  <2>1. PICK det \in dets : e = Event(Head(rois), det)
    BY <1>3, <1>7
  <2>2. e \in Mapped /\ e.roi = Head(rois) /\ e.det = det
    BY <1>5, <1>6, <2>1, EventTypes
  <2> QED BY <1>4, <1>5, <2>1, <2>2
<1>8. TypeOK'
  <2>1. events' \in SUBSET Mapped
    BY <1>1, <1>7 DEF TypeOK
  <2>2. missing' \in SUBSET Buffers
    BY <1>1, <1>2, MissingKept DEF TypeOK, Buffers
  <2> QED BY <1>1, <1>2, <1>4, <2>1, <2>2, RegionsTail DEF TypeOK
<1>9. RegionsClamped'
  BY <1>2, <1>4, RegionsTail DEF RegionsClamped, InFrame
<1>10. EventsMapped'
  <2>1. \A e \in events' : InFrame(e.roi) /\ ~Small(e.roi) /\ e = Event(e.roi, e.det)
    BY <1>1, <1>7 DEF EventsMapped
  <2> QED BY <1>2, <2>1 DEF EventsMapped, InFrame
<1>11. SourceFits' /\ RegionLarge'
  BY <1>2 DEF SourceFits, RegionLarge, Nothing
<1> QED BY <1>8, <1>9, <1>10, <1>11 DEF RInv

LEMMA EstimateEnergyStep == RInv /\ EstimateEnergy => RInv'
<1> SUFFICES ASSUME RInv, EstimateEnergy PROVE RInv'
  OBVIOUS
<1>1. TypeOK /\ RegionsClamped /\ EventsMapped
  BY DEF RInv
<1>2. /\ UNCHANGED <<frame, uv, input, rois>> /\ events' \subseteq events
      /\ pc' \in {"energy", "idle"}
      /\ launch' = Nothing \/ \E event \in events : launch' = [kernel |-> "energy", event |-> event]
      /\ Free({"blended"}) \/ Free({"blended", "visible", "uv"})
  BY DEF EstimateEnergy, sizes
<1>3. launch' = Nothing \/ launch' \in Energy
  BY <1>1, <1>2 DEF TypeOK, Energy
<1>4. TypeOK'
  <2>1. missing' \in SUBSET Buffers
    BY <1>1, <1>2, MissingKept DEF TypeOK, Buffers
  <2> QED BY <1>1, <1>2, <1>3, <2>1 DEF TypeOK
<1>5. SourceFits'
  BY <1>3 DEF SourceFits, Nothing, Energy
<1>6. RegionsClamped' /\ RegionLarge' /\ EventsMapped'
  BY <1>1, <1>2 DEF RegionsClamped, RegionLarge, EventsMapped, InFrame
<1> QED BY <1>4, <1>5, <1>6 DEF RInv

LEMMA NextRInv == RInv /\ [Next]_vars => RInv'
<1> SUFFICES ASSUME RInv, [Next]_vars PROVE RInv'
  OBVIOUS
<1>1. CASE UNCHANGED vars
  BY <1>1 DEF vars, sizes, RInv, TypeOK, SourceFits, RegionsClamped, RegionLarge, EventsMapped, InFrame, Small
<1> QED BY <1>1, CopyVisibleStep, CopyUvStep, DetectStep, ExtractRoisStep, BlendStep, NextRegionStep, InferStep, MapBackStep,
          EstimateEnergyStep DEF Next

\* From one pair of frames to the next, every region is in the frame, the one at
\* hand is large enough, every event came from such a region, and a letterbox
\* is drawn from a buffer of the size its kernel is told.
THEOREM RegionsInvariance == Spec => []RInv
BY InitRInv, NextRInv, PTL DEF Spec

\* The types of the state from a pop to the next.
THEOREM RegionsTypeCorrect == Spec => []TypeOK
<1>1. RInv => TypeOK
  BY DEF RInv
<1> QED BY <1>1, RegionsInvariance, PTL
-----------------------------------------------------------------------------
\* A coordinate inside the network's image is mapped into the region.
LEMMA BackInside ==
  ASSUME NEW lo \in Int, NEW hi \in Int, ~(Extent(lo, hi) < MinRegion),
         NEW dst \in Nat, NEW d \in 0..(Unit * dst)
  PROVE  d * Extent(lo, hi) + lo * dst \in (dst * lo)..(dst * hi)
<1> DEFINE e == Extent(lo, hi)
<1>1. e \in Int /\ e > 0 /\ e * Unit <= hi - lo
  <2>1. hi - lo \in Int
    OBVIOUS
  <2>2. e \in Int /\ (e > 0 => e * Unit <= hi - lo)
    BY <2>1, Truncated DEF Extent
  <2> QED BY <2>2, Numbers
<1> HIDE DEF e
<1>2. Unit \in Nat /\ Unit * dst \in Nat /\ d \in Int /\ 0 <= d /\ d <= Unit * dst
  BY Numbers
<1>3. d * e >= 0
  BY <1>1, <1>2
<1>4. d * e <= (Unit * dst) * e
  BY <1>1, <1>2, Monotone
<1>5. (Unit * dst) * e = (e * Unit) * dst
  BY <1>1, <1>2
<1>6. (e * Unit) * dst <= (hi - lo) * dst
  <2>1. e * Unit \in Int /\ hi - lo \in Int
    BY <1>1, <1>2
  <2> QED BY <1>1, <2>1, Monotone
<1>7. (hi - lo) * dst = dst * hi - dst * lo /\ lo * dst = dst * lo
  OBVIOUS
<1>8. /\ d * e \in Int /\ (Unit * dst) * e \in Int /\ (e * Unit) * dst \in Int
      /\ dst * hi \in Int /\ dst * lo \in Int
  BY <1>1, <1>2
<1>9. d * e + lo * dst >= dst * lo /\ d * e + lo * dst <= dst * hi
  BY <1>3, <1>4, <1>5, <1>6, <1>7, <1>8
<1> QED BY <1>7, <1>8, <1>9 DEF e

\* An event lies in its region and the region, at least MinRegion wide and
\* high, in the frame, wherever the first network puts its boxes, provided that
\* the second keeps to its image.
THEOREM EventsInRegionAlways == Spec => []EventsInRegion
<1>1. RInv => EventsInRegion
  <2> SUFFICES ASSUME RInv, NEW e \in events
               PROVE  LET roi == e.roi
                          Inside(d, dst) == d \in 0..(Unit * dst)
                      IN /\ ~Small(roi)
                         /\ roi.x1 >= 0 /\ roi.x2 <= Unit * frame.w
                         /\ roi.y1 >= 0 /\ roi.y2 <= Unit * frame.h
                         /\ \A x \in {<<e.det.x1, e.x1>>, <<e.det.x2, e.x2>>} :
                              Inside(x[1], Dst.w) => x[2] \in (Dst.w * roi.x1)..(Dst.w * roi.x2)
                         /\ \A y \in {<<e.det.y1, e.y1>>, <<e.det.y2, e.y2>>} :
                              Inside(y[1], Dst.h) => y[2] \in (Dst.h * roi.y1)..(Dst.h * roi.y2)
    BY DEF EventsInRegion
  <2> DEFINE roi == e.roi
             det == e.det
  <2>1. InFrame(roi) /\ ~Small(roi) /\ e = Event(roi, det) /\ roi \in Box /\ det \in Box
    BY DEF RInv, TypeOK, EventsMapped, Mapped
  <2> HIDE DEF roi, det
  <2>2. roi.x1 \in Int /\ roi.x2 \in Int /\ roi.y1 \in Int /\ roi.y2 \in Int
    BY <2>1 DEF Box
  <2>3. ~(Extent(roi.x1, roi.x2) < MinRegion) /\ ~(Extent(roi.y1, roi.y2) < MinRegion)
    BY <2>1 DEF Small
  <2>4. /\ e.x1 = det.x1 * Extent(roi.x1, roi.x2) + roi.x1 * Dst.w
        /\ e.x2 = det.x2 * Extent(roi.x1, roi.x2) + roi.x1 * Dst.w
        /\ e.y1 = det.y1 * Extent(roi.y1, roi.y2) + roi.y1 * Dst.h
        /\ e.y2 = det.y2 * Extent(roi.y1, roi.y2) + roi.y1 * Dst.h
    BY <2>1 DEF Event
  <2>5. \A d \in 0..(Unit * Dst.w) :
          d * Extent(roi.x1, roi.x2) + roi.x1 * Dst.w \in (Dst.w * roi.x1)..(Dst.w * roi.x2)
    BY <2>2, <2>3, BackInside, Numbers
  <2>6. \A d \in 0..(Unit * Dst.h) :
          d * Extent(roi.y1, roi.y2) + roi.y1 * Dst.h \in (Dst.h * roi.y1)..(Dst.h * roi.y2)
    BY <2>2, <2>3, BackInside, Numbers
  <2>7. /\ det.x1 \in 0..(Unit * Dst.w) => e.x1 \in (Dst.w * roi.x1)..(Dst.w * roi.x2)
        /\ det.x2 \in 0..(Unit * Dst.w) => e.x2 \in (Dst.w * roi.x1)..(Dst.w * roi.x2)
        /\ det.y1 \in 0..(Unit * Dst.h) => e.y1 \in (Dst.h * roi.y1)..(Dst.h * roi.y2)
        /\ det.y2 \in 0..(Unit * Dst.h) => e.y2 \in (Dst.h * roi.y1)..(Dst.h * roi.y2)
    BY Zenon, <2>4, <2>5, <2>6
  <2>8. roi.x1 >= 0 /\ roi.x2 <= Unit * frame.w /\ roi.y1 >= 0 /\ roi.y2 <= Unit * frame.h
    BY <2>1 DEF InFrame
  <2> QED BY <2>1, <2>7, <2>8 DEF roi, det
<1> QED BY <1>1, RegionsInvariance, PTL
-----------------------------------------------------------------------------
\* The pixel a thread of the letterbox reads is one of the source.
LEMMA LetterboxInside ==
  ASSUME NEW src \in Size, NEW resize \in [w : Int, h : Int]
  PROVE  LetterboxReads(src, resize) \subseteq 0..(3 * src.w * src.h - 1)
<1> DEFINE pad == [w |-> (Dst.w - resize.w) \div 2, h |-> (Dst.h - resize.h) \div 2]
           Sample(d, from, to) == Smaller((d * from) \div to, from - 1)
           Column(t) == Sample(t[1] - pad.w, src.w, resize.w)
           Row(t) == Sample(t[2] - pad.h, src.h, resize.h)
           Drawn == {u \in Launched(Dst) : /\ u[1] \in pad.w..(pad.w + resize.w - 1)
                                           /\ u[2] \in pad.h..(pad.h + resize.h - 1)}
<1>1. LetterboxReads(src, resize) = UNION {Packed(<<Column(t), Row(t)>>, src) : t \in Drawn}
  BY DEF LetterboxReads
<1>2. /\ src.w \in Nat \ {0} /\ src.h \in Nat \ {0} /\ resize.w \in Int /\ resize.h \in Int
      /\ Dst.w \in Int /\ Dst.h \in Int
  BY Numbers DEF Size
<1>3. pad.w \in Int /\ pad.h \in Int
  <2>1. Dst.w - resize.w \in Int /\ Dst.h - resize.h \in Int
    BY <1>2
  <2>2. (Dst.w - resize.w) \div 2 \in Int /\ (Dst.h - resize.h) \div 2 \in Int
    BY <2>1, Division
  <2> QED BY <2>2
<1>4. ASSUME NEW from \in Nat \ {0}, NEW to \in Int, NEW d \in 0..(to - 1)
      PROVE  Sample(d, from, to) \in 0..(from - 1)
  <2>1. to \in Nat \ {0} /\ d * from \in Nat
    OBVIOUS
  <2>2. (d * from) \div to \in Int /\ (d * from) \div to >= 0
    BY <2>1, Division
  <2> QED BY <2>2 DEF Smaller
<1> HIDE DEF pad, Sample
<1>5. ASSUME NEW t \in Drawn
      PROVE  Column(t) \in 0..(src.w - 1) /\ Row(t) \in 0..(src.h - 1)
  <2>1. t[1] \in pad.w..(pad.w + resize.w - 1) /\ t[2] \in pad.h..(pad.h + resize.h - 1)
    OBVIOUS
  <2>2. t[1] - pad.w \in 0..(resize.w - 1) /\ t[2] - pad.h \in 0..(resize.h - 1)
    BY <1>2, <1>3, <2>1
  <2> QED BY <1>2, <1>4, <2>2
<1> HIDE DEF Column, Row, Drawn
<1>6. \A t \in Drawn : Packed(<<Column(t), Row(t)>>, src) \subseteq 0..(3 * src.w * src.h - 1)
  BY <1>5, PackedInside
<1> QED BY <1>1, <1>6

LEMMA CropInside ==
  ASSUME frame \in Size, NEW x \in Int, NEW y \in Int
  PROVE  CropReads(x, y) \subseteq 0..(3 * frame.w * frame.h - 1)
<1> DEFINE Column(t) == Between(x + t[1], 0, frame.w - 1)
           Row(t) == Between(y + t[2], 0, frame.h - 1)
<1>1. frame.w \in Nat \ {0} /\ frame.h \in Nat \ {0} /\ Dst \in Size /\ Dst.w \in Int /\ Dst.h \in Int
  BY Numbers DEF Size
<1>2. \A t \in Launched(Dst) : t[1] \in Int /\ t[2] \in Int
  BY <1>1, LaunchedAll
<1>3. \A k \in Int : \A n \in Nat \ {0} : Between(k, 0, n - 1) \in 0..(n - 1)
  BY DEF Between, Smaller, Larger
<1>4. ASSUME NEW t \in Launched(Dst) PROVE Column(t) \in 0..(frame.w - 1) /\ Row(t) \in 0..(frame.h - 1)
  <2>1. x + t[1] \in Int /\ y + t[2] \in Int
    BY <1>2
  <2> QED BY <1>1, <1>3, <2>1
<1>5. CropReads(x, y) = UNION {Packed(<<Column(t), Row(t)>>, frame) : t \in Launched(Dst)}
  BY DEF CropReads
<1> HIDE DEF Column, Row
<1>6. \A t \in Launched(Dst) : Packed(<<Column(t), Row(t)>>, frame) \subseteq 0..(3 * frame.w * frame.h - 1)
  BY <1>4, PackedInside
<1> QED BY <1>5, <1>6

\* The pixels of the frame, and those an energy is estimated from, in a buffer
\* of one channel that is as wide as the frame.
LEMMA OneChannelInside ==
  ASSUME frame \in Size, NEW t \in (0..(frame.w - 1)) \X (0..(frame.h - 1))
  PROVE  Offset(t, frame) \in 0..(frame.w * frame.h - 1)
<1>1. frame.w \in Nat /\ frame.h \in Nat
  BY DEF Size
<1>2. t[1] \in 0..(frame.w - 1) /\ t[2] \in 0..(frame.h - 1)
  OBVIOUS
<1>3. t[2] * frame.w + t[1] \in 0..(frame.h * frame.w - 1)
  BY <1>1, <1>2, OffsetInside
<1>4. frame.h * frame.w = frame.w * frame.h
  BY <1>1
<1> QED BY <1>3, <1>4 DEF Offset

LEMMA EnergyInside ==
  ASSUME frame \in Size, NEW event \in Mapped
  PROVE  EnergyPixels(event) \subseteq (0..(frame.w - 1)) \X (0..(frame.h - 1))
<1> DEFINE From(v, dst) == Larger(0, Trunc(v, Unit * dst))
           To(v, dst, size) == Smaller(size, Trunc(v, Unit * dst))
<1>1. /\ event.x1 \in Int /\ event.x2 \in Int /\ event.y1 \in Int /\ event.y2 \in Int
      /\ frame.w \in Nat /\ frame.h \in Nat /\ Dst.w \in Nat \ {0} /\ Dst.h \in Nat \ {0}
  BY Numbers DEF Mapped, Size
<1>2. ASSUME NEW v \in Int, NEW dst \in Nat \ {0} PROVE Trunc(v, Unit * dst) \in Int
  <2>1. Unit * dst \in Nat \ {0} /\ -v \in Int
    BY Numbers
  <2>2. v \div (Unit * dst) \in Int /\ (-v) \div (Unit * dst) \in Int
    BY <2>1, Division
  <2> QED BY <2>2 DEF Trunc
<1>3. ASSUME NEW u \in Int, NEW v \in Int, NEW dst \in Nat \ {0}, NEW size \in Nat,
             NEW k \in From(u, dst)..(To(v, dst, size) - 1)
      PROVE  k \in 0..(size - 1)
  BY <1>2 DEF Larger, Smaller
<1>4. EnergyPixels(event) = {<<x, y>> : x \in From(event.x1, Dst.w)..(To(event.x2, Dst.w, frame.w) - 1),
                                        y \in From(event.y1, Dst.h)..(To(event.y2, Dst.h, frame.h) - 1)}
  BY DEF EnergyPixels
<1> HIDE DEF From, To
<1> QED BY <1>1, <1>3, <1>4

\* What each copy and each kernel reads: of a host buffer a frame of its camera,
\* of the buffers of three channels the pixels of the picture in it, of the
\* ultraviolet buffer what was copied, or as many pixels as the visible frame
\* has, and nothing of the networks' inputs.
LEMMA ReadsInside ==
  ASSUME RInv
  PROVE  /\ Reads("vis_data") \subseteq 0..(3 * frame.w * frame.h - 1)
         /\ Reads("uv_data") \subseteq 0..(uv.w * uv.h - 1)
         /\ Reads("visible") \subseteq 0..(3 * frame.w * frame.h - 1)
         /\ Reads("blended") \subseteq 0..(3 * frame.w * frame.h - 1)
         /\ Reads("roi_input") \subseteq 0..(3 * Dst.w * Dst.h - 1)
         /\ \/ Reads("uv") \subseteq 0..(frame.w * frame.h - 1)
            \/ Reads("uv") \subseteq 0..(uv.w * uv.h - 1)
         /\ \A buffer \in Inputs : Reads(buffer) = {}
<1>1. /\ frame \in Size /\ SourceFits
      /\ launch \in {Nothing} \cup Copy \cup Letterbox \cup Blended \cup Crop \cup Energy
  BY DEF RInv, TypeOK
<1>2. CASE launch \in Letterbox
  <2>1. /\ launch.kernel = "letterbox" /\ launch.src \in Size /\ launch.resize \in [w : Int, h : Int]
        /\ launch.from \in {"visible", "roi_input"}
        /\ launch.src = IF launch.from = "visible" THEN frame ELSE Dst
    BY <1>1, <1>2 DEF Letterbox, SourceFits
  <2>2. LetterboxReads(launch.src, launch.resize) \subseteq 0..(3 * launch.src.w * launch.src.h - 1)
    BY <2>1, LetterboxInside
  <2>3. /\ Reads(launch.from) = LetterboxReads(launch.src, launch.resize)
        /\ \A buffer : buffer # launch.from => Reads(buffer) = {}
    BY <2>1 DEF Reads
  <2> QED BY <2>1, <2>2, <2>3 DEF Inputs
<1>3. CASE launch \in Crop
  <2>1. launch.kernel = "crop" /\ launch.x \in Int /\ launch.y \in Int
    BY <1>3 DEF Crop
  <2>2. /\ Reads("blended") = CropReads(launch.x, launch.y)
        /\ \A buffer : buffer # "blended" => Reads(buffer) = {}
    BY <2>1 DEF Reads
  <2> QED BY <1>1, <2>1, <2>2, CropInside DEF Inputs
<1>4. CASE launch \in Energy
  <2>1. launch.kernel = "energy" /\ launch.event \in Mapped
    BY <1>4 DEF Energy
  <2>2. /\ Reads("uv") = {Offset(t, frame) : t \in EnergyPixels(launch.event)}
        /\ \A buffer : buffer # "uv" => Reads(buffer) = {}
    BY <2>1 DEF Reads
  <2>3. \A t \in EnergyPixels(launch.event) : Offset(t, frame) \in 0..(frame.w * frame.h - 1)
    BY <1>1, <2>1, EnergyInside, OneChannelInside
  <2> QED BY <2>2, <2>3 DEF Inputs
<1>5. CASE launch \in Blended
  <2>1. launch.kernel = "blend"
    BY <1>5 DEF Blended
  <2>2. /\ Reads("visible") = UNION {Packed(t, frame) : t \in Launched(frame)}
        /\ Reads("uv") = {Offset(t, frame) : t \in Launched(frame)}
        /\ \A buffer : buffer \notin {"visible", "uv"} => Reads(buffer) = {}
    BY <2>1 DEF Reads
  <2>3. Launched(frame) = (0..(frame.w - 1)) \X (0..(frame.h - 1))
    BY <1>1, LaunchedAll
  <2>4. \A t \in Launched(frame) : Offset(t, frame) \in 0..(frame.w * frame.h - 1)
    BY <1>1, <2>3, OneChannelInside
  <2>5. \A t \in Launched(frame) : Packed(t, frame) \subseteq 0..(3 * frame.w * frame.h - 1)
    <3> SUFFICES ASSUME NEW x \in 0..(frame.w - 1), NEW y \in 0..(frame.h - 1)
                 PROVE  Packed(<<x, y>>, frame) \subseteq 0..(3 * frame.w * frame.h - 1)
      BY <2>3
    <3> QED BY <1>1, PackedInside
  <2> QED BY <2>2, <2>4, <2>5 DEF Inputs
<1>6. CASE launch \in Copy
  <2>1. /\ launch.kernel = "copy"
        /\ \/ launch.from = "vis_data" /\ launch.to = "visible"
           \/ launch.from = "uv_data" /\ launch.to = "uv"
    BY <1>1, <1>6 DEF Copy, SourceFits
  <2>2. /\ Reads(launch.from) = 0..(FrameBytes(launch.to) - 1)
        /\ Reads(launch.to) = 0..(FrameBytes(launch.to) - 1)
        /\ \A buffer : buffer \notin {launch.from, launch.to} => Reads(buffer) = {}
    BY <2>1 DEF Reads
  <2>3. FrameBytes("visible") = 3 * frame.w * frame.h /\ FrameBytes("uv") = uv.w * uv.h
    BY DEF FrameBytes
  <2>4. CASE launch.from = "vis_data"
    BY <2>1, <2>2, <2>3, <2>4 DEF Inputs
  <2>5. CASE launch.from = "uv_data"
    BY <2>1, <2>2, <2>3, <2>5 DEF Inputs
  <2> QED BY <2>1, <2>4, <2>5
<1>7. CASE launch = Nothing
  <2>1. launch.kernel = "none"
    BY <1>7 DEF Nothing
  <2>2. \A buffer : Reads(buffer) = {}
    BY <2>1 DEF Reads
  <2> QED BY <2>2
<1> QED BY <1>1, <1>2, <1>3, <1>4, <1>5, <1>6, <1>7

\* What each kernel writes: every float of the planes of its picture, each by
\* one thread, and of no other buffer than the one it was launched for.
LEMMA WritesInside ==
  ASSUME RInv
  PROVE  /\ launch.kernel \in {"none", "copy", "energy"} => Writes = {}
         /\ launch.kernel \notin {"none", "copy", "energy"} =>
              LET k == IF launch.kernel = "blend" THEN frame.w * frame.h ELSE Dst.w * Dst.h
              IN /\ launch.kernel = "blend" => launch.to = "blended"
                 /\ launch.kernel = "crop" => launch.to = "roi_input"
                 /\ launch.kernel \notin {"blend", "crop"} => launch.to \in Inputs
                 /\ UNION {w[2] : w \in Writes} = 0..(3 * k - 1)
                 /\ Cardinality(Writes) = k
<1>1. launch.kernel \in {"none", "copy", "energy"} => Writes = {}
  BY DEF Writes
<1>2. ASSUME launch.kernel \notin {"none", "copy", "energy"}
      PROVE  /\ launch.kernel = "blend" => launch.to = "blended"
             /\ launch.kernel = "crop" => launch.to = "roi_input"
             /\ launch.kernel \notin {"blend", "crop"} => launch.to \in Inputs
  BY <1>2 DEF RInv, TypeOK, Nothing, Copy, Letterbox, Blended, Crop, Energy
<1>3. ASSUME launch.kernel \notin {"none", "copy", "energy"}
      PROVE  LET k == IF launch.kernel = "blend" THEN frame.w * frame.h ELSE Dst.w * Dst.h
             IN /\ UNION {w[2] : w \in Writes} = 0..(3 * k - 1)
                /\ Cardinality(Writes) = k
  <2> DEFINE dst == IF launch.kernel = "blend" THEN frame ELSE Dst
             k == IF launch.kernel = "blend" THEN frame.w * frame.h ELSE Dst.w * Dst.h
  <2>1. dst \in Size /\ dst.w * dst.h = k
    BY Numbers DEF RInv, TypeOK
  <2>2. Writes = {<<t, Planar(t, dst)>> : t \in Launched(dst)}
    BY <1>3 DEF Writes
  <2> HIDE DEF dst, k
  <2>3. /\ UNION {w[2] : w \in Writes} = 0..(3 * (dst.w * dst.h) - 1)
        /\ Cardinality(Writes) = dst.w * dst.h
    BY <2>1, <2>2, PlanesWritten
  <2>4. UNION {w[2] : w \in Writes} = 0..(3 * k - 1) /\ Cardinality(Writes) = k
    BY <2>1, <2>3
  <2> QED BY <2>4 DEF k
<1> HIDE DEF Writes
<1> QED BY <1>1, <1>2, <1>3

\* No copy and no thread reads or writes past a buffer, except past one that
\* was not allocated, a host buffer smaller than a frame, an ultraviolet frame
\* with fewer pixels than the visible one and an engine's input with fewer
\* elements than the configured picture; and the threads of a launch write every
\* float of the picture once: for frames, buffers, networks' inputs and blocks
\* of any size, also where blocks hang over the edge, a letterbox comes out one
\* row or column short, or the networks' boxes leave the picture.
THEOREM AccessesInsideAlways == Spec => []AccessesInside
<1>1. RInv => AccessesInside
  <2> SUFFICES ASSUME RInv PROVE AccessesInside
    OBVIOUS
  <2>1. /\ frame.w \in Nat \ {0} /\ frame.h \in Nat \ {0} /\ uv.w \in Nat /\ uv.h \in Nat
        /\ Dst.w \in Nat \ {0} /\ Dst.h \in Nat \ {0} /\ MaxFrameSize \in Nat
        /\ input \in [Inputs -> Nat]
    BY Numbers DEF RInv, TypeOK, Size
  <2> DEFINE n == frame.w * frame.h
             m == Dst.w * Dst.h
             p == uv.w * uv.h
  <2>2. /\ 3 * frame.w * frame.h = 3 * n /\ 4 * 3 * frame.w * frame.h = 12 * n
        /\ 3 * Dst.w * Dst.h = 3 * m /\ 4 * 3 * Dst.w * Dst.h = 12 * m
        /\ n \in Nat \ {0} /\ m \in Nat \ {0} /\ p \in Nat
    BY <2>1
  <2>3. \A buffer \in Buffers \ missing :
          Bytes(buffer) = IF buffer \in {"vis_data", "uv_data"} THEN MaxFrameSize
                          ELSE IF buffer = "visible" THEN 3 * n
                          ELSE IF buffer = "uv" THEN p
                          ELSE IF buffer = "blended" THEN 12 * n
                          ELSE IF buffer = "roi_input" THEN 12 * m
                          ELSE 4 * input[buffer]
    BY <2>2 DEF Bytes, Buffers, Inputs, FrameBytes
  <2>4. \A buffer \in Buffers : ~Short(buffer) =>
          /\ buffer \notin missing
          /\ buffer = "vis_data" => 3 * n <= MaxFrameSize
          /\ buffer = "uv_data" => p <= MaxFrameSize
          /\ buffer = "uv" => n <= p
          /\ buffer \in Inputs => 3 * m <= input[buffer]
    BY <2>1, <2>2 DEF Short, FrameBytes
  <2>5. /\ Reads("vis_data") \subseteq 0..(3 * n - 1) /\ Reads("uv_data") \subseteq 0..(p - 1)
        /\ Reads("visible") \subseteq 0..(3 * n - 1) /\ Reads("blended") \subseteq 0..(3 * n - 1)
        /\ Reads("roi_input") \subseteq 0..(3 * m - 1)
        /\ Reads("uv") \subseteq 0..(n - 1) \/ Reads("uv") \subseteq 0..(p - 1)
        /\ \A buffer \in Inputs : Reads(buffer) = {}
    BY <2>2, ReadsInside
  <2>6. /\ Writes # {} => launch.kernel \notin {"none", "copy", "energy"}
        /\ launch.kernel \notin {"none", "copy", "energy"} =>
             LET k == IF launch.kernel = "blend" THEN n ELSE m
             IN /\ launch.kernel = "blend" => launch.to = "blended"
                /\ launch.kernel = "crop" => launch.to = "roi_input"
                /\ launch.kernel \notin {"blend", "crop"} => launch.to \in Inputs
                /\ UNION {w[2] : w \in Writes} = 0..(3 * k - 1)
                /\ Cardinality(Writes) = k
    BY WritesInside
  <2> HIDE DEF n, m, p
  <2>7. ASSUME NEW buffer \in Buffers, ~Short(buffer)
        PROVE  Reads(buffer) \subseteq 0..(Bytes(buffer) - 1)
    <3>1. CASE buffer \in {"vis_data", "uv_data"}
      BY <2>1, <2>2, <2>3, <2>4, <2>5, <2>7, <3>1
    <3>2. CASE buffer \in {"visible", "blended", "roi_input"}
      BY <2>2, <2>3, <2>4, <2>5, <2>7, <3>2
    <3>3. CASE buffer = "uv"
      BY <2>2, <2>3, <2>4, <2>5, <2>7, <3>3
    <3>4. CASE buffer \in Inputs
      BY <2>5, <3>4
    <3> QED BY <3>1, <3>2, <3>3, <3>4 DEF Buffers
  <2>8. ASSUME NEW buffer \in Buffers, ~Short(buffer), NEW k \in Written(buffer)
        PROVE  4 * k + 3 < Bytes(buffer)
    <3>1. Writes # {} /\ launch.to = buffer /\ k \in UNION {w[2] : w \in Writes}
      BY DEF Written
    <3>2. k \in 0..(3 * (IF launch.kernel = "blend" THEN n ELSE m) - 1)
      BY <2>6, <3>1
    <3>3. CASE launch.kernel = "blend"
      <4>1. buffer = "blended" /\ Bytes(buffer) = 12 * n
        BY <2>3, <2>4, <2>6, <2>8, <3>1, <3>3 DEF Inputs
      <4> QED BY <2>2, <3>2, <3>3, <4>1
    <3>4. CASE launch.kernel = "crop"
      <4>1. buffer = "roi_input" /\ Bytes(buffer) = 12 * m
        BY <2>3, <2>4, <2>6, <2>8, <3>1, <3>4 DEF Inputs
      <4> QED BY <2>2, <3>2, <3>4, <4>1
    <3>5. CASE launch.kernel \notin {"blend", "crop"}
      <4>1. buffer \in Inputs
        BY <2>6, <3>1, <3>5
      <4>2. Bytes(buffer) = 4 * input[buffer] /\ 3 * m <= input[buffer]
        BY <2>3, <2>4, <2>8, <4>1 DEF Inputs
      <4>3. input[buffer] \in Nat
        BY <2>1, <4>1
      <4> QED BY <2>2, <3>2, <3>5, <4>2, <4>3
    <3> QED BY <3>3, <3>4, <3>5
  <2>9. ASSUME Writes # {}
        PROVE  LET k == IF launch.kernel = "blend" THEN n ELSE m
               IN Written(launch.to) = 0..(3 * k - 1) /\ Cardinality(Writes) = k
    <3>1. Written(launch.to) = UNION {w[2] : w \in Writes}
      BY <2>9 DEF Written
    <3> QED BY <2>6, <2>9, <3>1
  <2>10. \A buffer \in Buffers :
           \/ /\ Reads(buffer) \subseteq 0..(Bytes(buffer) - 1)
              /\ \A k \in Written(buffer) : 4 * k + 3 < Bytes(buffer)
           \/ Short(buffer)
    BY Zenon, <2>7, <2>8
  <2> QED BY <2>9, <2>10 DEF AccessesInside, n, m
<1> QED BY <1>1, RegionsInvariance, PTL
=============================================================================
