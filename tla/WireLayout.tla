----------------------------- MODULE WireLayout -----------------------------
(***************************************************************************)
(* The bytes of a published message, and where the receiver looks for      *)
(* them.  The publisher copies an array of ArcResultMsg as the compiler    *)
(* lays it out; parseMessage reads packed records.                         *)
(***************************************************************************)
EXTENDS Integers, Sequences, SequencesExt

CONSTANTS
  MaxAlign,     \* the largest alignment of the ABI: 8 on 64-bit targets
  MaxResults    \* bound: results in a message

VARIABLES
  message,      \* the bytes sent: each is the field it belongs to, or Padding
  parsed        \* the fields as parseMessage reads them, result by result

vars == <<message, parsed>>

\* The fields of ArcResultMsg, with their sizes.
Fields == <<"x1", "y1", "x2", "y2", "confidence", "class_id", "pts_ns",
            "stream_index", "intensity", "instant_energy", "smoothed_energy",
            "cumulative_energy", "severity_level", "track_id",
            "track_frame_count", "track_duration_ns">>
Size(i) == IF Fields[i] \in {"pts_ns", "intensity", "instant_energy", "smoothed_energy",
                             "cumulative_energy", "track_duration_ns"}
           THEN 8 ELSE 4

RoundUp(n, a) == ((n + a - 1) \div a) * a
Align(i) == IF Size(i) < MaxAlign THEN Size(i) ELSE MaxAlign

\* Where the compiler puts field i, and the size of the struct.
Offset[i \in DOMAIN Fields] ==
  IF i = 1 THEN 0 ELSE RoundUp(Offset[i - 1] + Size(i - 1), Align(i))
SizeOf == RoundUp(Offset[Len(Fields)] + Size(Len(Fields)), MaxAlign)

\* Where parseMessage reads it.
Packed[i \in DOMAIN Fields] == IF i = 1 THEN 0 ELSE Packed[i - 1] + Size(i - 1)
Stride == 88

Padding == <<0, "padding">>
HeaderSize == 4

\* Result k of a message as bytes.
Struct(k) ==
  [b \in 1..SizeOf |->
     LET at == {i \in DOMAIN Fields : b \in (Offset[i] + 1)..(Offset[i] + Size(i))}
     IN IF at = {} THEN Padding ELSE <<k, Fields[CHOOSE i \in at : TRUE]>>]

Init == message = <<>> /\ parsed = <<>>

\* publish_nonblock
Publish ==
  /\ message = <<>>
  /\ \E count \in 1..MaxResults :
       message' = [b \in 1..HeaderSize |-> <<count, "count">>]
                  \o FlattenSeq([k \in 1..count |-> Struct(k)])
  /\ UNCHANGED parsed

\* parseMessage; a message too short for its count gives nothing.
Parse ==
  /\ message # <<>>
  /\ LET count == message[1][1]
     IN parsed' = IF Len(message) < HeaderSize + count * Stride THEN <<>>
                  ELSE [k \in 1..count |->
                         [i \in DOMAIN Fields |->
                            LET base == HeaderSize + (k - 1) * Stride + Packed[i]
                            IN SubSeq(message, base + 1, base + Size(i))]]
  /\ message' = <<>>

Next == Publish \/ Parse

Spec == Init /\ [][Next]_vars
-----------------------------------------------------------------------------
\* ArcResultMsg is 88 bytes, so that what parseMessage reads as a field of a
\* result is what the publisher sent as that field.
WireCompatible ==
  \A k \in DOMAIN parsed : \A i \in DOMAIN Fields :
    \A b \in DOMAIN parsed[k][i] : parsed[k][i][b] = <<k, Fields[i]>>
==============================================================================
