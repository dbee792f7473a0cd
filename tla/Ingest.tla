------------------------------- MODULE Ingest -------------------------------
(***************************************************************************)
(* ingestStream of cmd/arcvision/main.go for one stream: it opens a        *)
(* decoder for each camera, starts a goroutine that reads each, waits for  *)
(* both to end, closes the decoders and begins again.  The readers push    *)
(* into the stream's FrameSync, which outlives the sessions: nothing       *)
(* drains it in between.                                                   *)
(*                                                                         *)
(* What a camera sends, and whether Open and DecodeNext ever return, is    *)
(* the environment's choice: no timeout or interrupt is set for either.    *)
(***************************************************************************)
EXTENDS FrameSync

CONSTANTS
  Stamps,          \* time stamps that frames of a camera carry
  MaxSessions      \* bound: connections to both cameras

ASSUME IngestAssumption ==
  /\ Stamps \subseteq VisPts \cap UvPts
  /\ MaxSessions \in Nat

VARIABLES
  ingest,      \* ingestStream: where it is, and the number of the session
  decoder,     \* the decoder of each camera: open or not, and its last_pts
  reader,      \* the reader of each camera: where it is, and its frame
  born,        \* history: the session each frame of a camera was read in
  cancelled    \* ctx is done

syncVars   == vars
ingestVars == <<ingest, decoder, reader, born, cancelled, syncVars>>

Cameras == {"vis", "uv"}
NoPts   == -HalfRange     \* AV_NOPTS_VALUE
Closed  == [open |-> FALSE, last_pts |-> NoPts]
Opened  == [open |-> TRUE, last_pts |-> NoPts]
NoFrame == [seq |-> 0, pts |-> 0]

\* The times frames of a camera may have.
Pts(c) == IF c = "vis" THEN VisPts ELSE UvPts

IngestInit ==
  /\ ingest = [pc |-> "top", session |-> 0]
  /\ decoder = [c \in Cameras |-> Closed]
  /\ reader = [c \in Cameras |-> [pc |-> "none", frame |-> NoFrame]]
  /\ born = [c \in Cameras |-> <<>>]
  /\ cancelled = FALSE
  /\ Init
-----------------------------------------------------------------------------
Top ==
  /\ ingest.pc = "top"
  /\ ingest' = [ingest EXCEPT !.pc = IF cancelled THEN "done" ELSE "open_vis"]
  /\ UNCHANGED <<decoder, reader, born, cancelled, syncVars>>

\* NewDecoder and Open, which waits for the camera as long as that takes; what
\* fails is closed, and tried again after a sleep.
OpenVis ==
  /\ ingest.pc = "open_vis"
  /\ \/ /\ ingest' = [ingest EXCEPT !.pc = "top"]
        /\ UNCHANGED decoder
     \/ /\ ingest.session < MaxSessions
        /\ ingest' = [ingest EXCEPT !.pc = "open_uv"]
        /\ decoder' = [decoder EXCEPT !["vis"] = Opened]
  /\ UNCHANGED <<reader, born, cancelled, syncVars>>

\* Mutant: the visible decoder is not closed when the ultraviolet one fails.
OpenUvLeaks ==
  /\ ingest.pc = "open_uv"
  /\ \/ /\ ingest' = [ingest EXCEPT !.pc = "top"]
        /\ UNCHANGED decoder
     \/ /\ ingest' = [ingest EXCEPT !.pc = "start"]
        /\ decoder' = [decoder EXCEPT !["uv"] = Opened]
  /\ UNCHANGED <<reader, born, cancelled, syncVars>>

OpenUv ==
  /\ ingest.pc = "open_uv"
  /\ \/ /\ ingest' = [ingest EXCEPT !.pc = "top"]
        /\ decoder' = [decoder EXCEPT !["vis"] = Closed]
     \/ /\ ingest' = [ingest EXCEPT !.pc = "start"]
        /\ decoder' = [decoder EXCEPT !["uv"] = Opened]
  /\ UNCHANGED <<reader, born, cancelled, syncVars>>

\* The two go statements.
Start ==
  /\ ingest.pc = "start"
  /\ ingest' = [pc |-> "wait_vis", session |-> ingest.session + 1]
  /\ reader' = [c \in Cameras |-> [pc |-> "check", frame |-> NoFrame]]
  /\ UNCHANGED <<decoder, born, cancelled, syncVars>>

\* <-visDone
WaitVis ==
  /\ ingest.pc = "wait_vis"
  /\ reader["vis"].pc = "done"
  /\ ingest' = [ingest EXCEPT !.pc = "wait_uv"]
  /\ UNCHANGED <<decoder, reader, born, cancelled, syncVars>>

\* Mutant: the ultraviolet reader is not waited for.
WaitUvNot ==
  /\ ingest.pc = "wait_uv"
  /\ ingest' = [ingest EXCEPT !.pc = "close"]
  /\ UNCHANGED <<decoder, reader, born, cancelled, syncVars>>

\* <-uvDone
WaitUv ==
  /\ ingest.pc = "wait_uv"
  /\ reader["uv"].pc = "done"
  /\ ingest' = [ingest EXCEPT !.pc = "close"]
  /\ UNCHANGED <<decoder, reader, born, cancelled, syncVars>>

\* Both decoders are closed; a sleep, and again from the top.
CloseBoth ==
  /\ ingest.pc = "close"
  /\ ingest' = [ingest EXCEPT !.pc = "top"]
  /\ decoder' = [c \in Cameras |-> Closed]
  /\ UNCHANGED <<reader, born, cancelled, syncVars>>

IngestStream == Top \/ OpenVis \/ OpenUv \/ Start \/ WaitVis \/ WaitUv \/ CloseBoth
-----------------------------------------------------------------------------
\* The select at the top of a reader's loop.
Check(c) ==
  /\ reader[c].pc = "check"
  /\ reader' = [reader EXCEPT ![c].pc = IF cancelled THEN "done" ELSE "decode"]
  /\ UNCHANGED <<ingest, decoder, born, cancelled, syncVars>>

\* decode_next_frame: a frame without a time stamp comes one after the last.
Stamped(c) == Stamps \cup ({decoder[c].last_pts + 1} \cap Pts(c))

\* DecodeNext: a frame, or an error that ends the reader.
Decode(c) ==
  /\ reader[c].pc = "decode"
  /\ \/ \E pts \in Stamped(c) :
          /\ Len(born[c]) < MaxFrames
          /\ reader' = [reader EXCEPT ![c] =
                          [pc |-> "push", frame |-> [seq |-> Len(born[c]) + 1, pts |-> pts]]]
          /\ decoder' = [decoder EXCEPT ![c].last_pts = pts]
          /\ born' = [born EXCEPT ![c] = Append(@, ingest.session)]
     \/ /\ reader' = [reader EXCEPT ![c].pc = "done"]
        /\ UNCHANGED <<decoder, born>>
  /\ UNCHANGED <<ingest, cancelled, syncVars>>

\* Mutant: a frame whose reader was cancelled is thrown away, and the reader
\* forgets to end.
PushStops(c) ==
  /\ reader[c].pc = "push"
  /\ IF cancelled THEN UNCHANGED syncVars
     ELSE IF c = "vis" THEN PushVisible(reader[c].frame)
     ELSE PushUV(reader[c].frame)
  /\ reader' = [reader EXCEPT ![c] = IF cancelled THEN @ ELSE [pc |-> "check", frame |-> NoFrame]]
  /\ UNCHANGED <<ingest, decoder, born, cancelled>>

\* Mutant: both readers push into the buffer of the visible camera.
PushCrossed(c) ==
  /\ reader[c].pc = "push"
  /\ PushVisible(reader[c].frame)
  /\ reader' = [reader EXCEPT ![c] = [pc |-> "check", frame |-> NoFrame]]
  /\ UNCHANGED <<ingest, decoder, born, cancelled>>

\* MultiStreamSync finds the stream's FrameSync and pushes.
Push(c) ==
  /\ reader[c].pc = "push"
  /\ IF c = "vis" THEN PushVisible(reader[c].frame) ELSE PushUV(reader[c].frame)
  /\ reader' = [reader EXCEPT ![c] = [pc |-> "check", frame |-> NoFrame]]
  /\ UNCHANGED <<ingest, decoder, born, cancelled>>

Cancel ==
  /\ ~cancelled
  /\ cancelled' = TRUE
  /\ UNCHANGED <<ingest, decoder, reader, born, syncVars>>

IngestNext ==
  \/ IngestStream
  \/ \E c \in Cameras : Check(c) \/ Decode(c) \/ Push(c)
  \/ Cancel

IngestSpec == IngestInit /\ [][IngestNext]_ingestVars

\* The goroutines are scheduled.  Neither Open nor DecodeNext need return: each
\* waits for a camera.  Nobody need cancel.
IngestFairSpec ==
  /\ IngestSpec
  /\ WF_ingestVars(Top \/ Start \/ WaitVis \/ WaitUv \/ CloseBoth)
  /\ \A c \in Cameras : WF_ingestVars(Check(c)) /\ WF_ingestVars(Push(c))
-----------------------------------------------------------------------------
\* Sessions do not overlap: a reader reads an open decoder, no decoder is left
\* open when the loop begins again or ends, also after only one camera opened,
\* and no frame of a session reaches the synchroniser after a later session
\* began to connect.
SessionsApart ==
  /\ \A c \in Cameras : reader[c].pc = "decode" => decoder[c].open
  /\ ingest.pc \in {"top", "open_vis", "done"} => \A c \in Cameras : ~decoder[c].open
  /\ \A c \in Cameras :
       reader[c].pc = "push" =>
         /\ ingest.pc \in {"wait_vis", "wait_uv"}
         /\ born[c][reader[c].frame.seq] = ingest.session

\* However sessions end and begin, the synchroniser is used as its module
\* says: by one reader of each camera at a time, and with every frame a reader
\* got from its decoder, once and in order.  What FrameSync promises holds
\* across sessions: what an earlier one left in the buffers is paired with
\* frames of a later one only as LeftoversEvicted of FrameSync allows.
ImplementsSync == Spec

\* No camera keeps a call of Open or of DecodeNext for ever.
CamerasAnswer ==
  /\ []<>(ingest.pc \notin {"open_vis", "open_uv"})
  /\ \A c \in Cameras : []<>(reader[c].pc # "decode")

\* A cancelled stream ends; the only thing that can keep it is a camera that
\* neither answers nor fails, while it is being opened or read.
CancelEnds == CamerasAnswer => (cancelled ~> ingest.pc = "done")
=============================================================================
