----------------------------- MODULE ArcTracker -----------------------------
(***************************************************************************)
(* From the raw ultraviolet detections of one frame to the events that are *)
(* published: non-maximum suppression, the tracker that follows an arc     *)
(* from frame to frame, and the association of events with tracks          *)
(* (ArcDetector::detect, ArcLifecycleTracker).  One stream; its tracker is *)
(* used by its detect thread only, so a call of detect is one step.        *)
(*                                                                         *)
(* Boxes are abstract: only their overlap matters.  Overlaps are in        *)
(* thousandths.  Energies are natural numbers and cumulative energy is in  *)
(* units of a thirtieth of them, so that the 1/30 of the code is 1.        *)
(***************************************************************************)
EXTENDS Integers, Sequences, FiniteSets, SequencesExt

CONSTANTS
  Boxes,             \* boxes of detections
  Iou(_, _),         \* intersection over union, 0 for boxes without an area
  Detections,        \* boxes with their instant energies
  PtsSteps,          \* how far the next frame may be from the last one
  NmsThresh,         \* nms_thresh
  IouMatch,          \* iou_match_threshold_
  IouAssociate,      \* the 0.5 of ArcDetector::detect
  MaxGap,            \* max_gap_ns_
  MaxTracks,         \* max_tracks_
  Thresholds,        \* thresholds_
  MaxRaw,            \* bound: raw detections in a frame
  MaxFrames          \* bound: frames in a behaviour

ASSUME ArcTrackerAssumption ==
  /\ \A a, b \in Boxes : /\ Iou(a, b) \in 0..1000
                         /\ Iou(a, b) = Iou(b, a)
                         /\ Iou(a, a) \in {0, 1000}
                         /\ Iou(a, b) > 0 => Iou(a, a) = 1000
  /\ Detections \subseteq [box : Boxes, energy : Nat]
  /\ PtsSteps \subseteq Int
  /\ NmsThresh \in 0..1000 /\ IouMatch \in 1..1000 /\ IouAssociate \in 0..999
  /\ NmsThresh <= IouAssociate
  /\ MaxGap \in Nat /\ MaxTracks \in Nat /\ MaxRaw \in Nat /\ MaxFrames \in Nat
  /\ Thresholds \in [cumulative2 : Nat, cumulative3 : Nat, cumulative4 : Nat,
                     cumulative5 : Nat, instant3 : Nat, instant5 : Nat,
                     duration4 : Nat, duration5 : Nat]

VARIABLES
  active,         \* active_tracks_, oldest first
  completed,      \* completed_tracks_
  nextTrackId,    \* next_track_id_
  events,         \* what the last call of detect returned
  lastPts,        \* pts_ns of the last call
  frames          \* number of calls

vars == <<active, completed, nextTrackId, events, lastPts, frames>>

Init ==
  /\ active = <<>>
  /\ completed = <<>>
  /\ nextTrackId = 1
  /\ events = <<>>
  /\ lastPts = 0
  /\ frames = 0
-----------------------------------------------------------------------------
\* The numbers of a finite set in increasing order, each found by its rank.
Sorted(K) ==
  [i \in 1..Cardinality(K) |-> CHOOSE k \in K : Cardinality({j \in K : j < k}) = i - 1]

\* The elements of s at the positions in K, in the order of s.
Select(s, K) == LET order == Sorted(K) IN [i \in DOMAIN order |-> s[order[i]]]

\* Mutant: only neighbours in the order of confidence are compared.
SurvivorsNeighbours(raw) ==
  {i \in DOMAIN raw : i > 1 => Iou(raw[i - 1].box, raw[i].box) <= NmsThresh}

\* Non-maximum suppression: raw is in order of confidence, and a detection
\* stays unless one that stays before it overlaps it by more than the
\* threshold.
Survivors(raw) ==
  CHOOSE kept \in SUBSET DOMAIN raw :
    \A i \in DOMAIN raw :
      i \in kept <=> \A j \in kept : j < i => Iou(raw[j].box, raw[i].box) <= NmsThresh

\* The two loops of nms: what is marked after each round of the outer one.
Marked(raw) ==
  LET suppressed[i \in 0..Len(raw)] ==
        IF i = 0 THEN {}
        ELSE IF i \in suppressed[i - 1] THEN suppressed[i - 1]
        ELSE suppressed[i - 1] \cup
               {j \in (i + 1)..Len(raw) : Iou(raw[i].box, raw[j].box) > NmsThresh}
  IN suppressed[Len(raw)]

Nms(raw) == Select(raw, Survivors(raw))

\* Mutant: the last detection that overlaps the track at all, if that is enough.
BestDetectionLast(track, dets, taken) ==
  LET near == {d \in DOMAIN dets \ taken : Iou(track.box, dets[d].box) > 0}
      last == CHOOSE d \in near : \A e \in near : e <= d
  IN IF near = {} THEN 0
     ELSE IF Iou(track.box, dets[last].box) >= IouMatch THEN last ELSE 0

\* Mutant: a detection may go to several tracks.
BestDetectionShared(track, dets, taken) ==
  LET near == {d \in DOMAIN dets : Iou(track.box, dets[d].box) >= IouMatch}
  IN IF near = {} THEN 0
     ELSE CHOOSE d \in near : \A e \in near :
            \/ Iou(track.box, dets[e].box) < Iou(track.box, dets[d].box)
            \/ Iou(track.box, dets[e].box) = Iou(track.box, dets[d].box) /\ d <= e

\* The detection the loop of update gives to a track when those in taken are
\* gone: the first of those that overlap it most; 0 if none overlaps enough.
BestDetection(track, dets, taken) ==
  LET near == {d \in DOMAIN dets \ taken : Iou(track.box, dets[d].box) >= IouMatch}
  IN IF near = {} THEN 0
     ELSE CHOOSE d \in near : \A e \in near :
            \/ Iou(track.box, dets[e].box) < Iou(track.box, dets[d].box)
            \/ Iou(track.box, dets[e].box) = Iou(track.box, dets[d].box) /\ d <= e

\* The detection of each track: the older tracks choose first.
Matching(tracks, dets) ==
  LET match[t \in DOMAIN tracks] ==
        BestDetection(tracks[t], dets, {match[s] : s \in 1..(t - 1)})
  IN match

\* classify_severity
Classify(cumulative, smoothed, duration) ==
  CASE \/ cumulative >= Thresholds.cumulative5
       \/ smoothed >= Thresholds.instant5
       \/ duration >= Thresholds.duration5   -> 5
    [] OTHER ->
  CASE \/ cumulative >= Thresholds.cumulative4
       \/ duration >= Thresholds.duration4   -> 4
    [] OTHER ->
  CASE \/ cumulative >= Thresholds.cumulative3
       \/ smoothed >= Thresholds.instant3    -> 3
    [] OTHER ->
  IF cumulative >= Thresholds.cumulative2 THEN 2 ELSE 1

\* Mutant: the duration is that since the sighting before.
ExtendedGap(track, det, smoothed, pts) ==
  LET cumulative == track.cumulative + smoothed
  IN [track EXCEPT !.box = det.box, !.last = pts, !.count = @ + 1,
                   !.smoothed = smoothed, !.cumulative = cumulative,
                   !.severity = Classify(cumulative, smoothed, pts - track.last)]

\* A track after one more sighting, if its filter answers smoothed.
Extended(track, det, smoothed, pts) ==
  LET cumulative == track.cumulative + smoothed
  IN [track EXCEPT !.box = det.box, !.last = pts, !.count = @ + 1,
                   !.smoothed = smoothed, !.cumulative = cumulative,
                   !.severity = Classify(cumulative, smoothed, pts - track.start)]

\* Mutant: the number of a frame's first new track for all its new tracks.
NewTrackSameId(id, det, pts) ==
  [id |-> nextTrackId, box |-> det.box, start |-> pts, last |-> pts, count |-> 1,
   smoothed |-> det.energy, cumulative |-> det.energy, severity |-> 1]

NewTrack(id, det, pts) ==
  [id |-> id, box |-> det.box, start |-> pts, last |-> pts, count |-> 1,
   smoothed |-> det.energy, cumulative |-> det.energy, severity |-> 1]

\* The gain of the Kalman filter is between 0 and 1.
Between(x, y) == IF x <= y THEN x..y ELSE y..x

\* The tracks after update, were smoothed the answers of the filters.
Updated(tracks, dets, match, smoothed, pts) ==
  LET fresh == Sorted(DOMAIN dets \ {match[t] : t \in DOMAIN tracks})
  IN [t \in DOMAIN tracks |->
        IF match[t] = 0 THEN tracks[t]
        ELSE Extended(tracks[t], dets[match[t]], smoothed[t], pts)]
     \o [i \in DOMAIN fresh |-> NewTrack(nextTrackId + i - 1, dets[fresh[i]], pts)]

\* Mutant: measured at the frame before.
ExpiredLate(track, pts) == lastPts - track.last > MaxGap

Expired(track, pts) == pts - track.last > MaxGap

\* Mutant: completed_tracks_ is not cut.
ExpireKeepsAll(tracks, pts) ==
  LET late == {t \in DOMAIN tracks : Expired(tracks[t], pts)}
  IN /\ active' = Select(tracks, DOMAIN tracks \ late)
     /\ completed' = completed \o Select(tracks, late)

\* expire_old_tracks; the result of update, or the tracks as they are.
ExpireOldTracks(tracks, pts) ==
  LET late == {t \in DOMAIN tracks : Expired(tracks[t], pts)}
      gone == completed \o Select(tracks, late)
  IN /\ active' = Select(tracks, DOMAIN tracks \ late)
     /\ completed' = IF Len(gone) > MaxTracks
                     THEN SubSeq(gone, Len(gone) - MaxTracks + 1, Len(gone))
                     ELSE gone

\* Mutant: with the tracker's matching threshold.
AssociatedLoosely(det, tracks, reported) ==
  {t \in reported : Iou(det.box, tracks[t].box) >= IouMatch}

\* The positions of the tracks that update reports for an event.
Associated(det, tracks, reported) ==
  {t \in reported : Iou(det.box, tracks[t].box) > IouAssociate}

Event(det, tracks, reported) ==
  LET found == Associated(det, tracks, reported)
      first == tracks[CHOOSE t \in found : \A s \in found : t <= s]
  IN IF found = {}
     THEN [box |-> det.box, track |-> 0, severity |-> 1, cumulative |-> 30 * det.energy]
     ELSE [box |-> det.box, track |-> first.id,
           severity |-> first.severity, cumulative |-> first.cumulative]

Tick(pts) == lastPts' = pts /\ frames' = frames + 1

\* detect when no pantograph is seen.
DetectNoRoi(pts) ==
  /\ ExpireOldTracks(active, pts)
  /\ events' = <<>>
  /\ Tick(pts)
  /\ UNCHANGED nextTrackId

\* detect with the detections raw in the regions that were found.
Detect(pts, raw) ==
  LET dets  == Nms(raw)
      match == Matching(active, dets)
      hit   == {t \in DOMAIN active : match[t] # 0}
  IN \E smoothed \in [hit -> UNION {Between(active[t].smoothed, dets[match[t]].energy) : t \in hit}] :
       LET tracks   == Updated(active, dets, match, smoothed, pts)
           reported == hit \cup ((Len(active) + 1)..Len(tracks))
       IN /\ \A t \in hit : smoothed[t] \in Between(active[t].smoothed, dets[match[t]].energy)
          /\ ExpireOldTracks(tracks, pts)
          /\ nextTrackId' = nextTrackId + Len(tracks) - Len(active)
          /\ events' = [i \in DOMAIN dets |-> Event(dets[i], tracks, reported)]
          /\ Tick(pts)

Next ==
  /\ frames < MaxFrames
  /\ \E step \in PtsSteps :
       \/ DetectNoRoi(lastPts + step)
       \/ \E n \in 0..MaxRaw : \E raw \in [1..n -> Detections] : Detect(lastPts + step, raw)

Spec == Init /\ [][Next]_vars
-----------------------------------------------------------------------------
Track == [id : Nat \ {0}, box : Boxes, start : Int, last : Int, count : Nat \ {0},
          smoothed : Nat, cumulative : Nat, severity : 1..5]

\* The types, and the bound max_tracks_ puts on completed_tracks_.
TypeOK ==
  /\ active \in Seq(Track)
  /\ completed \in Seq(Track) /\ Len(completed) <= MaxTracks
  /\ nextTrackId \in Nat \ {0}
  /\ events \in Seq([box : Boxes, track : Nat, severity : 1..5, cumulative : Nat])
  /\ lastPts \in Int /\ frames \in Nat

\* No two tracks, active or completed, share a number, the active tracks are
\* in the order of their numbers, and no number given out comes again.
IdsUnique ==
  LET all == active \o completed
  IN /\ \A s, t \in DOMAIN all : s # t => all[s].id # all[t].id
     /\ \A s, t \in DOMAIN active : s < t => active[s].id < active[t].id
     /\ \A t \in DOMAIN all : all[t].id < nextTrackId

\* Suppression keeps what the loops of nms leave unmarked: of the events of
\* the last frame, with a detection of more confidence before and one of less
\* behind.
NmsAgrees ==
  \A before, behind \in [box : Boxes] :
    LET raw == <<before>> \o events \o <<behind>>
    IN Survivors(raw) = DOMAIN raw \ Marked(raw)

\* No active track was last seen longer than max_gap_ns_ before the last
\* frame, also after frames without a pantograph, and also when the time
\* went back.
RecentlySeen == \A t \in DOMAIN active : lastPts - active[t].last <= MaxGap

\* Each event is reported with the number, severity and energy of the track
\* that was extended or founded by it, no two events with the same; an event
\* without an area has none.
EventsOwnTrack ==
  /\ \A i \in DOMAIN events :
       IF Iou(events[i].box, events[i].box) = 0 THEN events[i].track = 0
       ELSE \E t \in DOMAIN active :
              /\ active[t].id = events[i].track
              /\ active[t].box = events[i].box
              /\ active[t].last = lastPts
              /\ active[t].severity = events[i].severity
              /\ active[t].cumulative = events[i].cumulative
  /\ \A i, j \in DOMAIN events :
       i # j /\ events[i].track # 0 => events[i].track # events[j].track

\* The severity of a track falls only with its smoothed energy, and only
\* from the two levels that have a threshold for it: what cumulative energy
\* or duration established stays, unless the track is sighted at an earlier
\* time than before, as after a reconnection.
SeverityFalls ==
  [][\A t \in DOMAIN active : \A u \in DOMAIN active' :
       /\ active[t].id = active'[u].id
       /\ active'[u].severity < active[t].severity
       /\ active'[u].last >= active[t].last
       => /\ active'[u].smoothed < active[t].smoothed
          /\ active[t].severity \in {3, 5}]_vars

\* Every detection that is kept extends one track or founds one, no track is
\* extended by two, what was not sighted is not touched, and no track is
\* founded for a detection that overlaps, by the matching threshold, a track
\* left unextended: the number of active tracks, which nothing limits, is
\* bounded by the detections within max_gap_ns_.
OneTrackEach ==
  [][LET Sightings(id) == IF \E t \in DOMAIN active : active[t].id = id
                          THEN (CHOOSE t \in Range(active) : t.id = id).count ELSE 0
         sighted == {t \in Range(active') : t.count # Sightings(t.id)}
     IN /\ Cardinality(sighted) = Len(events')
        /\ \A t \in sighted : t.count = Sightings(t.id) + 1 /\ t.last = lastPts'
        /\ Range(active') \ sighted \subseteq Range(active)
        /\ \A new \in sighted, old \in Range(active') \ sighted :
             new.id >= nextTrackId => Iou(old.box, new.box) < IouMatch]_vars
==============================================================================
