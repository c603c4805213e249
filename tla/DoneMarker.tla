----------------------------- MODULE DoneMarker -----------------------------
(***************************************************************************)
(* Finding the end marker in a stream that arrives in chunks               *)
(* (internal/router/router.go: streamContainsDone, updateStreamTail).      *)
(*                                                                         *)
(* Only the last Len(Marker) - 1 bytes of what went before are kept.  The  *)
(* tail array and its length are modelled by the bytes in use, and the     *)
(* alphabet and the marker are parameters: which bytes they are does not   *)
(* matter to the search, how the marker overlaps itself might.             *)
(***************************************************************************)
EXTENDS Integers, Sequences

CONSTANTS
  Bytes,       \* the alphabet
  Marker,      \* what ends a stream
  MaxStream,   \* bound: length of the stream
  MaxChunk     \* bound: length of a chunk

ASSUME MarkerAssumption == Marker \in Seq(Bytes) /\ Len(Marker) >= 2
ASSUME BoundsAssumption == MaxStream \in Nat /\ MaxChunk \in Nat

VARIABLES
  stream,   \* everything read so far (history)
  tail,     \* the bytes kept of it
  done      \* some call has returned true

vars == <<stream, tail, done>>

keep == Len(Marker) - 1

Leading(s, n)  == SubSeq(s, 1, IF n < Len(s) THEN n ELSE Len(s))
Trailing(s, n) == SubSeq(s, IF n < Len(s) THEN Len(s) - n + 1 ELSE 1, Len(s))

\* bytes.Contains
Within(s) ==
  \E i \in 0 .. Len(s) - Len(Marker) :
    \A k \in DOMAIN Marker : s[i + k] = Marker[k]

\* Mutant: the tail is replaced by a short chunk instead of shifted.
updateStreamTail_Forgets(chunk) == Trailing(chunk, keep)

\* A long chunk replaces the tail; a short one shifts it by what no longer
\* fits.
updateStreamTail(chunk) ==
  IF Len(chunk) >= keep
  THEN Trailing(chunk, keep)
  ELSE Trailing(tail, keep - Len(chunk)) \o chunk

\* The window across the boundary holds the tail and as much of the chunk as
\* an array of 2 * Len(Marker) - 1 bytes has room for.
Combined(chunk) ==
  tail \o Leading(chunk, 2 * Len(Marker) - 1 - Len(tail))

streamContainsDone(chunk) == Within(chunk) \/ Within(Combined(chunk))

Init ==
  /\ stream = <<>>
  /\ tail = <<>>
  /\ done = FALSE

Scan(chunk) ==
  /\ Len(stream) + Len(chunk) <= MaxStream
  /\ stream' = stream \o chunk
  /\ tail' = updateStreamTail(chunk)
  /\ done' = (done \/ streamContainsDone(chunk))

Next == \E n \in 1 .. MaxChunk : \E chunk \in [1 .. n -> Bytes] : Scan(chunk)

Spec == Init /\ [][Next]_vars

-----------------------------------------------------------------------------
\* The tail is what the search needs of the past: the last bytes of the
\* stream, however it was cut into chunks.
TailIsRecent ==
  /\ stream \in Seq(Bytes)
  /\ tail = Trailing(stream, keep)
  /\ done \in BOOLEAN

\* The marker is found exactly when it occurs in the stream, wherever the
\* chunk boundaries fall: neither missed across two or more of them nor
\* reported from bytes that are not adjacent.
DoneIsExact == done <=> Within(stream)
=============================================================================
