----------------------------- MODULE ScanProofs -----------------------------
(***************************************************************************)
(* The marker search is exact for every alphabet, every marker of at least *)
(* two bytes, every stream and every way of cutting it into chunks, and so *)
(* is the usage read from the stream, whatever lines report one.           *)
(*                                                                         *)
(* The search: an occurrence in the stream read so far followed by a chunk *)
(* lies before the boundary, after it, or across it, and in the last case  *)
(* starts within the tail and ends within what the window holds of the     *)
(* chunk.  The usage: a text is parsed up to an empty line, so that no     *)
(* line lies across the cut, and the last line of the whole is the last    *)
(* one of the second piece or, if that has none, of the first.             *)
(***************************************************************************)
EXTENDS UsageScan, SequenceTheorems, WellFoundedInduction, TLAPS

Smaller(a, b) == IF a < b THEN a ELSE b

LEMMA MarkerFacts ==
  /\ Len(Marker) \in Nat
  /\ Len(Marker) >= 2
  /\ keep \in Nat
  /\ keep = Len(Marker) - 1
  /\ DOMAIN Marker = 1 .. Len(Marker)
<1>1. Len(Marker) \in Nat /\ DOMAIN Marker = 1 .. Len(Marker)
  BY MarkerAssumption, LenProperties
<1> QED BY <1>1, MarkerAssumption DEF keep

LEMMA TrailingFacts ==
  ASSUME NEW s \in Seq(Bytes), NEW n \in Nat
  PROVE  /\ Trailing(s, n) \in Seq(Bytes)
         /\ Len(Trailing(s, n)) = Smaller(n, Len(s))
         /\ \A i \in 1 .. Len(Trailing(s, n)) :
              Trailing(s, n)[i] = s[Len(s) - Len(Trailing(s, n)) + i]
<1> DEFINE first == IF n < Len(s) THEN Len(s) - n + 1 ELSE 1
<1>1. Len(s) \in Nat /\ \A i \in 1 .. Len(s) : s[i] \in Bytes
  BY LenProperties, ElementOfSeq
<1>2. first \in Int /\ first >= 1
  BY <1>1
<1>3. /\ SubSeq(s, first, Len(s)) \in Seq(Bytes)
      /\ Len(SubSeq(s, first, Len(s))) =
           IF first <= Len(s) THEN Len(s) - first + 1 ELSE 0
      /\ \A i \in 1 .. Len(s) - first + 1 :
           SubSeq(s, first, Len(s))[i] = s[first + i - 1]
  <2>1. \A i \in first .. Len(s) : s[i] \in Bytes
    BY <1>1, <1>2
  <2> HIDE DEF first
  <2> QED BY <1>1, <1>2, <2>1, SubSeqProperties
<1>4. Trailing(s, n) = SubSeq(s, first, Len(s))
  BY DEF Trailing
<1>5. CASE n < Len(s)
  <2>1. first = Len(s) - n + 1
    BY <1>5
  <2> HIDE DEF first
  <2>2. Len(Trailing(s, n)) = n
    BY <1>1, <1>3, <1>4, <1>5, <2>1
  <2> QED BY <1>1, <1>3, <1>4, <1>5, <2>1, <2>2 DEF Smaller
<1>6. CASE ~(n < Len(s))
  <2>1. first = 1
    BY <1>6
  <2> HIDE DEF first
  <2>2. Len(Trailing(s, n)) = Len(s)
    BY <1>1, <1>3, <1>4, <1>6, <2>1
  <2>3. ASSUME NEW i \in 1 .. Len(s)
        PROVE  Trailing(s, n)[i] = s[Len(s) - Len(Trailing(s, n)) + i]
    <3>1. Trailing(s, n)[i] = s[first + i - 1]
      BY <1>1, <1>3, <1>4, <2>1
    <3>2. first + i - 1 = Len(s) - Len(Trailing(s, n)) + i
      BY <1>1, <2>1, <2>2
    <3> QED BY <3>1, <3>2
  <2>4. Smaller(n, Len(s)) = Len(s)
    BY <1>6 DEF Smaller
  <2> QED BY <1>3, <1>4, <2>2, <2>3, <2>4
<1> QED BY <1>5, <1>6

LEMMA LeadingFacts ==
  ASSUME NEW s \in Seq(Bytes), NEW n \in Nat
  PROVE  /\ Leading(s, n) \in Seq(Bytes)
         /\ Len(Leading(s, n)) = Smaller(n, Len(s))
         /\ \A i \in 1 .. Len(Leading(s, n)) : Leading(s, n)[i] = s[i]
<1> DEFINE last == IF n < Len(s) THEN n ELSE Len(s)
<1>1. Len(s) \in Nat /\ \A i \in 1 .. Len(s) : s[i] \in Bytes
  BY LenProperties, ElementOfSeq
<1>2. last \in Nat /\ last <= Len(s)
  BY <1>1
<1>3. /\ SubSeq(s, 1, last) \in Seq(Bytes)
      /\ Len(SubSeq(s, 1, last)) = IF 1 <= last THEN last - 1 + 1 ELSE 0
      /\ \A i \in 1 .. last - 1 + 1 : SubSeq(s, 1, last)[i] = s[1 + i - 1]
  <2>1. \A i \in 1 .. last : s[i] \in Bytes
    BY <1>1, <1>2
  <2> HIDE DEF last
  <2> QED BY <1>1, <1>2, <2>1, SubSeqProperties
<1>4. Leading(s, n) = SubSeq(s, 1, last)
  BY DEF Leading
<1> QED BY <1>1, <1>3, <1>4 DEF Smaller

-----------------------------------------------------------------------------
\* The tail after a chunk is the end of the stream after the chunk.
LEMMA TailStep ==
  ASSUME NEW s \in Seq(Bytes), NEW chunk \in Seq(Bytes),
         tail = Trailing(s, keep)
  PROVE  updateStreamTail(chunk) = Trailing(s \o chunk, keep)
<1> DEFINE whole == Trailing(s \o chunk, keep)
<1>1. /\ Len(s) \in Nat /\ Len(chunk) \in Nat
      /\ s \o chunk \in Seq(Bytes)
      /\ Len(s \o chunk) = Len(s) + Len(chunk)
      /\ \A i \in 1 .. Len(s) + Len(chunk) :
           (s \o chunk)[i] = IF i <= Len(s) THEN s[i] ELSE chunk[i - Len(s)]
  BY ConcatProperties, LenProperties
<1>2. /\ whole \in Seq(Bytes)
      /\ Len(whole) = Smaller(keep, Len(s) + Len(chunk))
      /\ \A i \in 1 .. Len(whole) :
           whole[i] = (s \o chunk)[Len(s) + Len(chunk) - Len(whole) + i]
  <2> DEFINE joint == s \o chunk
  <2>1. joint \in Seq(Bytes) /\ Len(joint) = Len(s) + Len(chunk)
    BY <1>1
  <2> HIDE DEF joint
  <2>2. /\ Trailing(joint, keep) \in Seq(Bytes)
        /\ Len(Trailing(joint, keep)) = Smaller(keep, Len(joint))
        /\ \A i \in 1 .. Len(Trailing(joint, keep)) :
             Trailing(joint, keep)[i] =
               joint[Len(joint) - Len(Trailing(joint, keep)) + i]
    BY <2>1, MarkerFacts, TrailingFacts
  <2>3. whole = Trailing(joint, keep)
    BY DEF joint
  <2> HIDE DEF whole
  <2>4. /\ whole \in Seq(Bytes)
        /\ Len(whole) = Smaller(keep, Len(s) + Len(chunk))
        /\ \A i \in 1 .. Len(whole) :
             whole[i] = joint[Len(s) + Len(chunk) - Len(whole) + i]
    <3> DEFINE length == Len(joint)
    <3>1. /\ whole \in Seq(Bytes)
          /\ Len(whole) = Smaller(keep, length)
          /\ \A i \in 1 .. Len(whole) : whole[i] = joint[length - Len(whole) + i]
      BY <2>2, <2>3
    <3>2. length = Len(s) + Len(chunk)
      BY <2>1
    <3> HIDE DEF length
    <3> QED BY ONLY <3>1, <3>2
  <2> QED BY <2>4 DEF joint
<1>3. CASE Len(chunk) >= keep
  <2> DEFINE part == Trailing(chunk, keep)
  <2>1. /\ part \in Seq(Bytes)
        /\ Len(part) = Smaller(keep, Len(chunk))
        /\ \A i \in 1 .. Len(part) :
             part[i] = chunk[Len(chunk) - Len(part) + i]
    BY MarkerFacts, TrailingFacts
  <2>2. Len(part) = keep /\ Len(whole) = keep
    BY <1>1, <1>2, <1>3, <2>1, MarkerFacts DEF Smaller
  <2>3. \A i \in 1 .. Len(part) : part[i] = whole[i]
    <3> HIDE DEF part, whole
    <3> SUFFICES ASSUME NEW i \in 1 .. keep PROVE part[i] = whole[i]
      BY <2>2
    <3>1. part[i] = chunk[Len(chunk) - keep + i]
      BY <2>1, <2>2
    <3>2. whole[i] = (s \o chunk)[Len(s) + Len(chunk) - keep + i]
      BY <1>2, <2>2
    <3>3. (s \o chunk)[Len(s) + Len(chunk) - keep + i] =
            chunk[Len(chunk) - keep + i]
      <4> DEFINE n == Len(s) + Len(chunk) - keep + i
      <4>1. n \in 1 .. Len(s) + Len(chunk) /\ ~(n <= Len(s))
        BY <1>1, <1>3, MarkerFacts
      <4>2. n - Len(s) = Len(chunk) - keep + i
        BY <1>1, MarkerFacts
      <4> HIDE DEF n
      <4>3. (s \o chunk)[n] = chunk[n - Len(s)]
        BY <1>1, <4>1
      <4> QED BY <4>2, <4>3 DEF n
    <3> QED BY <3>1, <3>2, <3>3
  <2>4. part = whole
    <3> HIDE DEF part, whole
    <3> QED BY <1>2, <2>1, <2>2, <2>3, SeqEqual
  <2> QED BY <1>3, <2>4 DEF updateStreamTail
<1>4. CASE Len(chunk) < keep
  <2> DEFINE old  == Trailing(tail, keep - Len(chunk))
             part == old \o chunk
  <2>1. /\ tail \in Seq(Bytes)
        /\ Len(tail) = Smaller(keep, Len(s))
        /\ \A i \in 1 .. Len(tail) : tail[i] = s[Len(s) - Len(tail) + i]
    BY MarkerFacts, TrailingFacts
  <2>2. keep - Len(chunk) \in Nat
    BY <1>1, <1>4, MarkerFacts
  <2>3. /\ old \in Seq(Bytes)
        /\ Len(old) = Smaller(keep - Len(chunk), Len(tail))
        /\ \A i \in 1 .. Len(old) :
             old[i] = tail[Len(tail) - Len(old) + i]
    BY <2>1, <2>2, TrailingFacts
  <2> HIDE DEF old
  <2>4. /\ part \in Seq(Bytes)
        /\ Len(part) = Len(old) + Len(chunk)
        /\ \A i \in 1 .. Len(old) + Len(chunk) :
             part[i] = IF i <= Len(old) THEN old[i] ELSE chunk[i - Len(old)]
    BY <2>3, ConcatProperties
  <2> HIDE DEF part, whole
  <2>5. Len(part) = Len(whole)
    BY SMTT(30), <1>1, <1>2, <1>4, <2>1, <2>3, <2>4, MarkerFacts DEF Smaller
  <2>6. Len(old) \in Nat /\ Len(tail) \in Nat /\ Len(old) <= Len(tail)
        /\ Len(tail) <= Len(s)
    BY <1>1, <2>1, <2>2, <2>3, MarkerFacts DEF Smaller
  <2>7. ASSUME NEW i \in 1 .. Len(part) PROVE part[i] = whole[i]
    <3>1. whole[i] = (s \o chunk)[Len(s) - Len(old) + i]
      <4>1. whole[i] = (s \o chunk)[Len(s) + Len(chunk) - Len(whole) + i]
        BY <1>2, <2>5
      <4>2. Len(whole) = Len(old) + Len(chunk)
        BY <2>4, <2>5
      <4>3. Len(s) + Len(chunk) - Len(whole) = Len(s) - Len(old)
        BY <1>1, <2>6, <4>2
      <4> QED BY <4>1, <4>3
    <3>2. CASE i <= Len(old)
      <4>1. part[i] = tail[Len(tail) - Len(old) + i]
        BY <1>1, <2>3, <2>4, <2>6, <3>2
      <4>2. tail[Len(tail) - Len(old) + i] = s[Len(s) - Len(old) + i]
        BY <1>1, <2>1, <2>6, <3>2
      <4>3. whole[i] = s[Len(s) - Len(old) + i]
        BY <1>1, <2>4, <2>6, <3>1, <3>2
      <4> QED BY <4>1, <4>2, <4>3
    <3>3. CASE i > Len(old)
      <4>1. part[i] = chunk[i - Len(old)]
        BY <1>1, <2>4, <2>6, <3>3
      <4>2. whole[i] = chunk[i - Len(old)]
        BY <1>1, <2>4, <2>6, <3>1, <3>3
      <4> QED BY <4>1, <4>2
    <3> QED BY <1>1, <2>6, <3>2, <3>3
  <2>8. part = whole
    BY <1>2, <2>4, <2>5, <2>7, SeqEqual
  <2>9. updateStreamTail(chunk) = part
    BY <1>4, <1>1, MarkerFacts DEF updateStreamTail, part, old
  <2> QED BY <2>8, <2>9 DEF whole
<1> QED BY <1>1, <1>3, <1>4, MarkerFacts

-----------------------------------------------------------------------------
\* An occurrence in the stream and the chunk together is one in the stream,
\* one in the chunk or one in the window, and conversely.
LEMMA Boundary ==
  ASSUME NEW s \in Seq(Bytes), NEW chunk \in Seq(Bytes),
         tail = Trailing(s, keep)
  PROVE  Within(s \o chunk) <=>
           Within(s) \/ Within(chunk) \/ Within(Combined(chunk))
<1> DEFINE whole  == s \o chunk
           width  == Len(Marker)
           room   == 2 * width - 1 - Len(tail)
           start  == Leading(chunk, room)
           window == tail \o start
<1>1. /\ Len(s) \in Nat /\ Len(chunk) \in Nat /\ width \in Nat /\ width >= 2
      /\ Len(whole) = Len(s) + Len(chunk)
      /\ \A i \in 1 .. Len(s) + Len(chunk) :
           whole[i] = IF i <= Len(s) THEN s[i] ELSE chunk[i - Len(s)]
  BY ConcatProperties, LenProperties, MarkerFacts
<1>2. /\ tail \in Seq(Bytes)
      /\ Len(tail) \in Nat
      /\ Len(tail) = Smaller(width - 1, Len(s))
      /\ \A i \in 1 .. Len(tail) : tail[i] = s[Len(s) - Len(tail) + i]
  <2>1. keep = width - 1 /\ keep \in Nat
    BY MarkerFacts
  <2> QED BY <2>1, TrailingFacts, LenProperties
<1>3. room \in Nat /\ room >= width
  BY <1>1, <1>2 DEF Smaller
<1>4. /\ start \in Seq(Bytes)
      /\ Len(start) \in Nat
      /\ Len(start) = Smaller(room, Len(chunk))
      /\ \A i \in 1 .. Len(start) : start[i] = chunk[i]
  <2> HIDE DEF room
  <2> QED BY <1>3, LeadingFacts, LenProperties
<1>5. /\ Len(window) = Len(tail) + Len(start)
      /\ \A i \in 1 .. Len(tail) + Len(start) :
           window[i] = IF i <= Len(tail) THEN tail[i] ELSE start[i - Len(tail)]
  <2> HIDE DEF start, room
  <2>1. /\ Len(tail \o start) = Len(tail) + Len(start)
        /\ \A i \in 1 .. Len(tail) + Len(start) :
             (tail \o start)[i] = IF i <= Len(tail) THEN tail[i]
                                                  ELSE start[i - Len(tail)]
    <3>1. ASSUME NEW a \in Seq(Bytes), NEW b \in Seq(Bytes)
          PROVE  /\ Len(a \o b) = Len(a) + Len(b)
                 /\ \A i \in 1 .. Len(a) + Len(b) :
                      (a \o b)[i] = IF i <= Len(a) THEN a[i] ELSE b[i - Len(a)]
      BY ConcatProperties
    <3> QED BY <1>2, <1>4, <3>1
  <2> QED BY <2>1 DEF window
<1>6. Combined(chunk) = window
  BY DEF Combined
<1>7. ASSUME NEW t
      PROVE  Within(t) <=> \E i \in 0 .. Len(t) - width :
                             \A k \in 1 .. width : t[i + k] = Marker[k]
  BY MarkerFacts DEF Within
<1> HIDE DEF whole, width, room, start, window
\* The window is a stretch of the whole.
<1>8. /\ Len(tail) <= Len(s) /\ Len(start) <= Len(chunk)
      /\ \A i \in 1 .. Len(window) :
           window[i] = whole[Len(s) - Len(tail) + i]
  <2>1. Len(tail) <= Len(s) /\ Len(start) <= Len(chunk)
    BY <1>1, <1>2, <1>3, <1>4 DEF Smaller
  <2>2. ASSUME NEW i \in 1 .. Len(window)
        PROVE  window[i] = whole[Len(s) - Len(tail) + i]
    <3>1. CASE i <= Len(tail)
      BY SMTT(30), <1>1, <1>2, <1>4, <1>5, <2>1, <3>1
    <3>2. CASE i > Len(tail)
      <4>1. window[i] = chunk[i - Len(tail)]
        BY <1>2, <1>4, <1>5, <3>2
      <4>2. whole[Len(s) - Len(tail) + i] = chunk[i - Len(tail)]
        BY SMTT(30), <1>1, <1>2, <1>4, <1>5, <2>1, <3>2
      <4> QED BY <4>1, <4>2
    <3> QED BY <1>2, <1>4, <1>5, <3>1, <3>2
  <2> QED BY <2>1, <2>2
<1>9. ASSUME NEW i \in 0 .. Len(whole) - width,
             \A k \in 1 .. width : whole[i + k] = Marker[k]
      PROVE  Within(s) \/ Within(chunk) \/ Within(window)
  <2>1. CASE i + width <= Len(s)
    <3>1. i \in 0 .. Len(s) - width
      BY <1>1, <1>9, <2>1
    <3>2. \A k \in 1 .. width : s[i + k] = Marker[k]
      BY <1>1, <1>9, <2>1
    <3> QED BY <1>7, <3>1, <3>2
  <2>2. CASE i >= Len(s)
    <3>1. i - Len(s) \in 0 .. Len(chunk) - width
      BY <1>1, <1>9, <2>2
    <3>2. ASSUME NEW k \in 1 .. width PROVE chunk[i - Len(s) + k] = Marker[k]
      <4>1. i + k \in 1 .. Len(s) + Len(chunk) /\ ~(i + k <= Len(s))
        BY <1>1, <1>9, <2>2
      <4>2. whole[i + k] = chunk[(i + k) - Len(s)]
        BY <1>1, <4>1
      <4>3. (i + k) - Len(s) = i - Len(s) + k
        BY <1>1, <1>9
      <4> QED BY <1>9, <4>2, <4>3
    <3> QED BY <1>7, <3>1, <3>2
  <2>3. CASE i < Len(s) /\ i + width > Len(s)
    <3> DEFINE j == i - (Len(s) - Len(tail))
    <3>1. j \in 0 .. Len(window) - width
      <4>1. Len(s) - Len(tail) <= i
        BY <1>1, <1>2, <1>9, <2>3 DEF Smaller
      <4>2. i + width <= Len(s) + Len(start)
        BY <1>1, <1>3, <1>4, <1>9, <2>3 DEF Smaller
      <4> QED BY SMTT(30), <1>1, <1>2, <1>4, <1>5, <1>9, <4>1, <4>2
    <3>2. ASSUME NEW k \in 1 .. width PROVE window[j + k] = Marker[k]
      <4>1. j + k \in 1 .. Len(window)
        <5> HIDE DEF j
        <5>1. Len(window) \in Nat
          BY <1>2, <1>4, <1>5
        <5> QED BY <1>1, <3>1, <5>1
      <4>2. window[j + k] = whole[Len(s) - Len(tail) + (j + k)]
        <5> HIDE DEF j
        <5> QED BY <1>8, <4>1
      <4>3. Len(s) - Len(tail) + (j + k) = i + k
        BY <1>1, <1>2, <1>9
      <4> QED BY <1>9, <4>2, <4>3
    <3> QED BY <1>7, <3>1, <3>2
  <2> QED BY <1>1, <1>9, <2>1, <2>2, <2>3
<1>10. Within(s) => Within(whole)
  <2> SUFFICES ASSUME NEW i \in 0 .. Len(s) - width,
                      \A k \in 1 .. width : s[i + k] = Marker[k]
               PROVE  Within(whole)
    BY <1>7
  <2>1. i \in 0 .. Len(whole) - width
    BY <1>1
  <2>2. \A k \in 1 .. width : whole[i + k] = Marker[k]
    BY <1>1
  <2> QED BY <1>7, <2>1, <2>2
<1>11. Within(chunk) => Within(whole)
  <2> SUFFICES ASSUME NEW i \in 0 .. Len(chunk) - width,
                      \A k \in 1 .. width : chunk[i + k] = Marker[k]
               PROVE  Within(whole)
    BY <1>7
  <2>1. Len(s) + i \in 0 .. Len(whole) - width
    BY <1>1
  <2>2. \A k \in 1 .. width : whole[Len(s) + i + k] = Marker[k]
    BY <1>1
  <2> QED BY <1>7, <2>1, <2>2
<1>12. Within(window) => Within(whole)
  <2> SUFFICES ASSUME NEW i \in 0 .. Len(window) - width,
                      \A k \in 1 .. width : window[i + k] = Marker[k]
               PROVE  Within(whole)
    BY <1>7
  <2>1. Len(s) - Len(tail) + i \in 0 .. Len(whole) - width
    BY SMTT(30), <1>1, <1>2, <1>4, <1>5, <1>8
  <2>2. ASSUME NEW k \in 1 .. width
        PROVE  whole[Len(s) - Len(tail) + i + k] = Marker[k]
    <3>1. i + k \in 1 .. Len(window)
      BY SMTT(30), <1>1, <1>2, <1>4, <1>5
    <3>2. window[i + k] = whole[Len(s) - Len(tail) + (i + k)]
      BY <1>8, <3>1
    <3>3. Len(s) - Len(tail) + (i + k) = Len(s) - Len(tail) + i + k
      BY <1>1, <1>2
    <3> QED BY <3>2, <3>3
  <2> QED BY <1>7, <2>1, <2>2
<1>13. Within(whole) <=> Within(s) \/ Within(chunk) \/ Within(window)
  BY <1>7, <1>9, <1>10, <1>11, <1>12
<1> QED BY <1>6, <1>13 DEF whole

-----------------------------------------------------------------------------
\* The tail is always the end of the stream, and the marker has been reported
\* exactly when the stream contains it.
THEOREM SearchExact == Spec => [](TailIsRecent /\ DoneIsExact)
<1> DEFINE Inv == TailIsRecent /\ DoneIsExact
<1>1. Init => Inv
  <2> SUFFICES ASSUME Init PROVE Inv
    OBVIOUS
  <2>1. stream \in Seq(Bytes) /\ Len(stream) = 0 /\ stream = <<>>
    BY EmptySeq DEF Init
  <2>2. tail = Trailing(stream, keep)
    <3>1. /\ Trailing(stream, keep) \in Seq(Bytes)
          /\ Len(Trailing(stream, keep)) = Smaller(keep, Len(stream))
      BY <2>1, MarkerFacts, TrailingFacts
    <3>2. Len(Trailing(stream, keep)) = 0
      BY <2>1, <3>1, MarkerFacts DEF Smaller
    <3> QED BY <2>1, <3>1, <3>2, SeqEqual DEF Init
  <2>3. ~Within(stream)
    BY <2>1, MarkerFacts DEF Within
  <2> QED BY <2>1, <2>2, <2>3 DEF Init, TailIsRecent, DoneIsExact
<1>2. Inv /\ [Next]_vars => Inv'
  <2> SUFFICES ASSUME Inv, [Next]_vars PROVE Inv'
    OBVIOUS
  <2>1. CASE UNCHANGED vars
    BY <2>1 DEF vars, TailIsRecent, DoneIsExact, Within, Trailing
  <2>2. CASE Next
    <3>1. PICK n \in 1 .. MaxChunk : \E chunk \in [1 .. n -> Bytes] : Scan(chunk)
      BY <2>2 DEF Next
    <3>2. PICK chunk \in [1 .. n -> Bytes] : Scan(chunk)
      BY <3>1
    <3>3. chunk \in Seq(Bytes)
      BY <3>1, <3>2
    <3>4. /\ stream' = stream \o chunk
          /\ stream' \in Seq(Bytes)
      BY <3>2, <3>3, ConcatProperties DEF Scan, TailIsRecent
    <3>5. tail' = Trailing(stream', keep)
      BY <3>2, <3>3, <3>4, TailStep DEF Scan, TailIsRecent
    <3>6. done' <=> Within(stream')
      <4>1. done' = (done \/ streamContainsDone(chunk))
        BY <3>2 DEF Scan
      <4>2. Within(stream') <=>
              Within(stream) \/ Within(chunk) \/ Within(Combined(chunk))
        BY <3>3, <3>4, Boundary DEF TailIsRecent
      <4> QED BY <4>1, <4>2 DEF DoneIsExact, streamContainsDone
    <3>7. done' \in BOOLEAN
      BY <3>2 DEF Scan
    <3>8. TailIsRecent'
      BY <3>4, <3>5, <3>7 DEF TailIsRecent, Trailing, keep
    <3>9. DoneIsExact'
      BY <3>6 DEF DoneIsExact, Within
    <3> QED BY <3>8, <3>9
  <2> QED BY <2>1, <2>2
<1> QED BY <1>1, <1>2, PTL DEF Spec

\* The relay takes the steps of the search, whatever it keeps for the usage.
LEMMA RelayScans == UsageSpec => Spec
<1>1. UsageInit => Init
  BY DEF UsageInit
<1>2. [UsageNext]_<<vars, collected>> => [Next]_vars
  BY DEF UsageNext, Forward, Next
<1> QED BY <1>1, <1>2, PTL DEF UsageSpec, Spec

\* The search is exact in the relay.
THEOREM MarkerIsFound == UsageSpec => [](TailIsRecent /\ DoneIsExact)
BY RelayScans, SearchExact, PTL

-----------------------------------------------------------------------------
\* A set of numbers has a least one, and a bounded one a greatest.
LEMMA LeastNumber ==
  ASSUME NEW T, T \subseteq Nat, T # {}
  PROVE  \E x \in T : \A y \in T : x <= y
<1> DEFINE R == OpToRel(<, Nat)
<1>1. \A x, y \in Nat : <<y, x>> \in R <=> y < x
  BY DEF OpToRel
<1>2. IsWellFoundedOn(R, Nat)
  BY NatLessThanWellFounded
<1> HIDE DEF R
<1>3. PICK x \in T : \A y \in T : ~(<<y, x>> \in R)
  BY <1>2, WFMin
<1>4. ASSUME NEW y \in T PROVE x <= y
  <2>1. x \in Nat /\ y \in Nat
    BY <1>3
  <2>2. <<y, x>> \in R <=> y < x
    BY <1>1, <2>1
  <2>3. ~(y < x)
    BY <1>3, <2>2
  <2> QED BY <2>1, <2>3
<1> QED BY <1>3, <1>4

LEMMA GreatestNumber ==
  ASSUME NEW T, T \subseteq Nat, T # {}, NEW n \in Nat, \A x \in T : x <= n
  PROVE  \E x \in T : \A y \in T : y <= x
<1> DEFINE D == {d \in Nat : n - d \in T}
<1>1. D \subseteq Nat
  OBVIOUS
<1>2. PICK t \in T : TRUE
  OBVIOUS
<1>3. n - t \in D
  <2>1. t \in Nat /\ n - t \in Nat /\ n - (n - t) = t
    BY <1>2
  <2> QED BY <2>1
<1>4. PICK d \in D : \A e \in D : d <= e
  <2> HIDE DEF D
  <2> QED BY <1>1, <1>3, LeastNumber
<1>5. n - d \in T /\ d \in Nat
  BY <1>4
<1>6. ASSUME NEW y \in T PROVE y <= n - d
  <2>1. y \in Nat /\ n - y \in D
    BY n - (n - y) = y
  <2> HIDE DEF D
  <2> QED BY <1>4, <1>5, <2>1
<1> QED BY <1>5, <1>6

\* What a stretch of a text is, and when two stretches are the same.
LEMMA Stretch ==
  ASSUME NEW s \in Seq(Bytes), NEW m \in Nat \ {0}, NEW n \in Nat,
         m <= n + 1, n <= Len(s)
  PROVE  /\ SubSeq(s, m, n) \in Seq(Bytes)
         /\ Len(SubSeq(s, m, n)) = n - m + 1
         /\ \A i \in 1 .. n - m + 1 : SubSeq(s, m, n)[i] = s[m + i - 1]
<1>1. Len(s) \in Nat /\ \A i \in 1 .. Len(s) : s[i] \in Bytes
  BY LenProperties, ElementOfSeq
<1>2. \A i \in m .. n : s[i] \in Bytes
  BY <1>1
<1>3. Len(SubSeq(s, m, n)) = n - m + 1
  <2>1. Len(SubSeq(s, m, n)) = IF m <= n THEN n - m + 1 ELSE 0
    BY <1>2, SubSeqProperties
  <2> QED BY <2>1
<1> QED BY <1>2, <1>3, SubSeqProperties

LEMMA SameStretch ==
  ASSUME NEW s \in Seq(Bytes), NEW m \in Nat \ {0}, NEW n \in Nat,
         m <= n + 1, n <= Len(s),
         NEW t \in Seq(Bytes), NEW p \in Nat \ {0}, NEW q \in Nat,
         p <= q + 1, q <= Len(t),
         n - m = q - p,
         \A j \in m .. n, k \in p .. q : j - m = k - p => s[j] = t[k]
  PROVE  SubSeq(s, m, n) = SubSeq(t, p, q)
<1> DEFINE a == SubSeq(s, m, n)
           b == SubSeq(t, p, q)
<1>1. /\ a \in Seq(Bytes) /\ Len(a) = n - m + 1
      /\ \A i \in 1 .. n - m + 1 : a[i] = s[m + i - 1]
  BY Stretch
<1>2. /\ b \in Seq(Bytes) /\ Len(b) = q - p + 1
      /\ \A i \in 1 .. q - p + 1 : b[i] = t[p + i - 1]
  BY Stretch
<1>3. n - m + 1 = q - p + 1
  OBVIOUS
<1> HIDE DEF a, b
<1>4. Len(a) = Len(b) /\ \A i \in 1 .. Len(a) : a[i] = b[i]
  <2>1. ASSUME NEW i \in 1 .. n - m + 1 PROVE a[i] = b[i]
    <3>1. /\ m + i - 1 \in m .. n /\ p + i - 1 \in p .. q
          /\ (m + i - 1) - m = (p + i - 1) - p
      OBVIOUS
    <3>2. s[m + i - 1] = t[p + i - 1]
      BY <3>1
    <3> QED BY <1>1, <1>2, <1>3, <3>2
  <2> QED BY <1>1, <1>2, <1>3, <2>1
<1>5. a = b
  BY <1>1, <1>2, <1>4, SeqEqual
<1> QED BY <1>5 DEF a, b

\* A text and what follows it, by name: the provers unfold the operator.
Join(a, b) == a \o b

LEMMA Joined ==
  ASSUME NEW a \in Seq(Bytes), NEW b \in Seq(Bytes)
  PROVE  /\ Join(a, b) \in Seq(Bytes)
         /\ Len(a) \in Nat /\ Len(b) \in Nat
         /\ Len(Join(a, b)) = Len(a) + Len(b)
         /\ \A i \in 1 .. Len(a) : Join(a, b)[i] = a[i]
         /\ \A i \in 1 .. Len(b) : Join(a, b)[Len(a) + i] = b[i]
<1>1. /\ Join(a, b) \in Seq(Bytes)
      /\ Len(a) \in Nat /\ Len(b) \in Nat
      /\ Len(Join(a, b)) = Len(a) + Len(b)
      /\ \A i \in 1 .. Len(a) + Len(b) :
           Join(a, b)[i] = IF i <= Len(a) THEN a[i] ELSE b[i - Len(a)]
  BY ConcatProperties, LenProperties DEF Join
<1>2. \A i \in 1 .. Len(a) : Join(a, b)[i] = a[i]
  BY <1>1
<1>3. ASSUME NEW i \in 1 .. Len(b) PROVE Join(a, b)[Len(a) + i] = b[i]
  <2>1. Len(a) + i \in 1 .. Len(a) + Len(b) /\ ~(Len(a) + i <= Len(a))
    BY <1>1
  <2>2. (Len(a) + i) - Len(a) = i
    BY <1>1
  <2> QED BY <1>1, <2>1, <2>2
<1> QED BY <1>1, <1>2, <1>3

-----------------------------------------------------------------------------
\* Pieces of a text, of a piece, and of two texts joined.
Piece(s, m, n) == SubSeq(s, m, n)

LEMMA PieceOfPiece ==
  ASSUME NEW s \in Seq(Bytes), NEW m \in Nat \ {0}, NEW n \in Nat,
         m <= n + 1, n <= Len(s),
         NEW p \in Nat \ {0}, NEW q \in Nat, p <= q + 1, q <= n - m + 1,
         NEW x \in Nat, NEW y \in Nat, x = m + p - 1, y = m + q - 1
  PROVE  Piece(Piece(s, m, n), p, q) = Piece(s, x, y)
<1> DEFINE t == SubSeq(s, m, n)
<1>1. /\ t \in Seq(Bytes) /\ Len(t) = n - m + 1
      /\ \A i \in 1 .. n - m + 1 : t[i] = s[m + i - 1]
  BY Stretch
<1> HIDE DEF t
<1>2. /\ x \in Nat \ {0} /\ y \in Nat /\ x <= y + 1 /\ y <= n /\ y <= Len(s)
      /\ q <= Len(t) /\ q - p = y - x
  <2>1. Len(s) \in Nat
    BY LenProperties
  <2> QED BY <1>1, <2>1
<1>3. ASSUME NEW j \in p .. q, NEW k \in x .. y, j - p = k - x
      PROVE  t[j] = s[k]
  <2>1. j \in 1 .. n - m + 1 /\ k = m + j - 1
    BY <1>3
  <2> QED BY <1>1, <2>1
<1>4. SubSeq(t, p, q) = SubSeq(s, x, y)
  <2>1. \A j \in p .. q, k \in x .. y : j - p = k - x => t[j] = s[k]
    BY <1>3
  <2>2. /\ t \in Seq(Bytes) /\ s \in Seq(Bytes)
        /\ p \in Nat \ {0} /\ q \in Nat /\ p <= q + 1
    BY <1>1
  <2> QED BY ONLY <1>2, <2>1, <2>2, SameStretch
<1> QED BY <1>4 DEF t, Piece

LEMMA PieceOfFirst ==
  ASSUME NEW a \in Seq(Bytes), NEW b \in Seq(Bytes),
         NEW m \in Nat \ {0}, NEW n \in Nat, m <= n + 1, n <= Len(a)
  PROVE  Piece(Join(a, b), m, n) = Piece(a, m, n)
<1> DEFINE whole == Join(a, b)
<1>1. /\ whole \in Seq(Bytes) /\ Len(a) \in Nat /\ Len(b) \in Nat
      /\ Len(whole) = Len(a) + Len(b)
      /\ \A i \in 1 .. Len(a) : whole[i] = a[i]
  BY Joined
<1> HIDE DEF whole
<1>2. ASSUME NEW j \in m .. n, NEW k \in m .. n, j - m = k - m
      PROVE  whole[j] = a[k]
  <2>1. j = k /\ j \in 1 .. Len(a)
    BY <1>1, <1>2
  <2> QED BY <1>1, <2>1
<1>3. SubSeq(whole, m, n) = SubSeq(a, m, n)
  <2>1. n <= Len(whole)
    BY <1>1
  <2> QED BY <1>1, <1>2, <2>1, SameStretch
<1> QED BY <1>3 DEF whole, Piece

LEMMA PieceOfSecond ==
  ASSUME NEW a \in Seq(Bytes), NEW b \in Seq(Bytes),
         NEW u \in Nat \ {0}, NEW v \in Nat, u <= v + 1, v <= Len(b),
         NEW x \in Nat, NEW y \in Nat, x = Len(a) + u, y = Len(a) + v
  PROVE  Piece(Join(a, b), x, y) = Piece(b, u, v)
<1> DEFINE whole == Join(a, b)
<1>1. /\ whole \in Seq(Bytes) /\ Len(a) \in Nat /\ Len(b) \in Nat
      /\ Len(whole) = Len(a) + Len(b)
      /\ \A i \in 1 .. Len(b) : whole[Len(a) + i] = b[i]
  BY Joined
<1> HIDE DEF whole
<1>2. /\ x \in Nat \ {0} /\ x <= y + 1 /\ y <= Len(whole) /\ y - x = v - u
  BY <1>1
<1>3. ASSUME NEW j \in x .. y, NEW k \in u .. v, j - x = k - u
      PROVE  whole[j] = b[k]
  <2>1. k \in 1 .. Len(b) /\ j = Len(a) + k
    BY <1>1, <1>3
  <2> QED BY <1>1, <2>1
<1> DEFINE c == SubSeq(whole, x, y)
           d == SubSeq(b, u, v)
<1>4. /\ c \in Seq(Bytes) /\ Len(c) = y - x + 1
      /\ \A i \in 1 .. y - x + 1 : c[i] = whole[x + i - 1]
  BY <1>1, <1>2, Stretch
<1>5. /\ d \in Seq(Bytes) /\ Len(d) = v - u + 1
      /\ \A i \in 1 .. v - u + 1 : d[i] = b[u + i - 1]
  BY Stretch
<1> HIDE DEF c, d
<1>6. ASSUME NEW i \in 1 .. v - u + 1 PROVE c[i] = d[i]
  <2>1. /\ i \in 1 .. y - x + 1
        /\ x + i - 1 \in x .. y /\ u + i - 1 \in u .. v
        /\ (x + i - 1) - x = (u + i - 1) - u
    BY <1>1, <1>2
  <2>2. whole[x + i - 1] = b[u + i - 1]
    BY <1>3, <2>1
  <2> QED BY <1>4, <1>5, <2>1, <2>2
<1>7. Len(c) = Len(d)
  BY <1>2, <1>4, <1>5
<1>8. c = d
  BY <1>4, <1>5, <1>6, <1>7, SeqEqual
<1> QED BY <1>8 DEF whole, c, d, Piece

LEMMA PieceIsSecond ==
  ASSUME NEW a \in Seq(Bytes), NEW b \in Seq(Bytes)
  PROVE  Piece(Join(a, b), Len(a) + 1, Len(Join(a, b))) = b
<1> DEFINE whole == Join(a, b)
           m == Len(a) + 1
           n == Len(whole)
<1>1. /\ whole \in Seq(Bytes) /\ Len(a) \in Nat /\ Len(b) \in Nat
      /\ n = Len(a) + Len(b)
      /\ \A i \in 1 .. Len(b) : whole[Len(a) + i] = b[i]
  BY Joined
<1>2. m \in Nat \ {0} /\ n \in Nat /\ m <= n + 1 /\ n <= Len(whole)
  BY <1>1
<1>3. n - m + 1 = Len(b) /\ \A i \in 1 .. Len(b) : m + i - 1 = Len(a) + i
  BY <1>1
<1> HIDE DEF whole, m, n
<1>4. /\ SubSeq(whole, m, n) \in Seq(Bytes)
      /\ Len(SubSeq(whole, m, n)) = n - m + 1
      /\ \A i \in 1 .. n - m + 1 : SubSeq(whole, m, n)[i] = whole[m + i - 1]
  BY <1>1, <1>2, Stretch
<1> DEFINE t == SubSeq(whole, m, n)
<1>5. /\ t \in Seq(Bytes) /\ Len(t) = Len(b)
      /\ \A i \in 1 .. Len(b) : t[i] = b[i]
  BY <1>1, <1>3, <1>4
<1> HIDE DEF t
<1>6. t = b
  BY <1>5, SeqEqual
<1> QED BY <1>6 DEF t, whole, m, n, Piece

LEMMA PiecesJoin ==
  ASSUME NEW s \in Seq(Bytes), NEW l \in Nat \ {0}, NEW m \in Nat, NEW n \in Nat,
         l <= m + 1, m <= n, n <= Len(s)
  PROVE  Join(Piece(s, l, m), Piece(s, m + 1, n)) = Piece(s, l, n)
<1> DEFINE a == SubSeq(s, l, m)
           b == SubSeq(s, m + 1, n)
           c == SubSeq(s, l, n)
<1>1. Len(s) \in Nat
  BY LenProperties
<1>2. /\ a \in Seq(Bytes) /\ Len(a) = m - l + 1
      /\ \A i \in 1 .. m - l + 1 : a[i] = s[l + i - 1]
  <2>1. m <= Len(s)
    BY <1>1
  <2> QED BY <2>1, Stretch
<1>3. /\ b \in Seq(Bytes) /\ Len(b) = n - m
      /\ \A i \in 1 .. n - m : b[i] = s[m + i]
  <2> DEFINE p == m + 1
  <2>1. /\ p \in Nat \ {0} /\ p <= n + 1 /\ n - p + 1 = n - m
        /\ \A i \in 1 .. n - m : p + i - 1 = m + i
    OBVIOUS
  <2> HIDE DEF p
  <2>2. /\ SubSeq(s, p, n) \in Seq(Bytes)
        /\ Len(SubSeq(s, p, n)) = n - p + 1
        /\ \A i \in 1 .. n - p + 1 : SubSeq(s, p, n)[i] = s[p + i - 1]
    BY <2>1, Stretch
  <2>3. \A i \in 1 .. n - m : SubSeq(s, p, n)[i] = s[m + i]
    BY <2>1, <2>2
  <2> QED BY <2>1, <2>2, <2>3 DEF p
<1>4. /\ c \in Seq(Bytes) /\ Len(c) = n - l + 1
      /\ \A i \in 1 .. n - l + 1 : c[i] = s[l + i - 1]
  BY Stretch
<1> HIDE DEF a, b, c
<1> DEFINE d == Join(a, b)
<1>5. /\ d \in Seq(Bytes) /\ Len(d) = n - l + 1
      /\ \A i \in 1 .. Len(a) : d[i] = a[i]
      /\ \A i \in 1 .. Len(b) : d[Len(a) + i] = b[i]
  <2>1. Len(a) + Len(b) = n - l + 1
    BY <1>2, <1>3
  <2> QED BY <1>2, <1>3, <2>1, Joined
<1> HIDE DEF d
<1>6. ASSUME NEW i \in 1 .. n - l + 1 PROVE d[i] = c[i]
  <2>1. CASE i <= Len(a)
    <3>1. i \in 1 .. m - l + 1 /\ i \in 1 .. Len(a)
      BY <1>2, <2>1
    <3> QED BY <1>2, <1>4, <1>5, <3>1
  <2>2. CASE i > Len(a)
    <3> DEFINE j == i - Len(a)
    <3>1. /\ j \in 1 .. Len(b) /\ j \in 1 .. n - m /\ Len(a) + j = i
          /\ m + j = l + i - 1
      BY <1>2, <1>3, <2>2
    <3> HIDE DEF j
    <3>2. d[Len(a) + j] = b[j] /\ b[j] = s[m + j] /\ c[i] = s[l + i - 1]
      BY <1>3, <1>4, <1>5, <3>1
    <3> QED BY <3>1, <3>2
  <2> QED BY <1>2, <2>1, <2>2
<1>7. d = c
  BY <1>4, <1>5, <1>6, SeqEqual
<1> QED BY <1>7 DEF a, b, c, d, Piece

LEMMA PieceFacts ==
  ASSUME NEW s \in Seq(Bytes), NEW m \in Nat \ {0}, NEW n \in Nat,
         m <= n + 1, n <= Len(s)
  PROVE  /\ Piece(s, m, n) \in Seq(Bytes)
         /\ Len(Piece(s, m, n)) = n - m + 1
         /\ \A i \in 1 .. n - m + 1 : Piece(s, m, n)[i] = s[m + i - 1]
BY Stretch DEF Piece

-----------------------------------------------------------------------------
\* The lines that report usage.  None contains a new line, so a text that ends
\* in one is cut off from what follows it, and two of them never overlap.
IsLine(s, x, y) ==
  /\ x \in 1 .. Len(s) /\ y \in 1 .. Len(s) /\ x <= y
  /\ x > 1 => s[x - 1] = NewLine
  /\ y < Len(s) => s[y + 1] = NewLine
  /\ SubSeq(s, x, y) \in DOMAIN Usage

\* The usage a line reports.
Reported(s, x, y) == Usage[SubSeq(s, x, y)]

LEMMA LineMembers ==
  ASSUME NEW s
  PROVE  /\ \A span \in UsageLines(s) : /\ span = <<span[1], span[2]>>
                                        /\ IsLine(s, span[1], span[2])
         /\ \A x, y : IsLine(s, x, y) => <<x, y>> \in UsageLines(s)
BY DEF UsageLines, IsLine

LEMMA LineHasNoBreak ==
  ASSUME NEW s \in Seq(Bytes), NEW x, NEW y, IsLine(s, x, y), NEW i \in x .. y
  PROVE  s[i] # NewLine
<1>1. /\ x \in Nat \ {0} /\ y \in Nat /\ x <= y + 1 /\ y <= Len(s)
      /\ Len(s) \in Nat
  BY LenProperties DEF IsLine
<1> DEFINE line == SubSeq(s, x, y)
<1>2. /\ line \in Seq(Bytes) /\ Len(line) = y - x + 1
      /\ \A j \in 1 .. y - x + 1 : line[j] = s[x + j - 1]
  BY <1>1, Stretch
<1>3. line \in DOMAIN Usage
  BY DEF IsLine
<1> HIDE DEF line
<1>4. \A j \in 1 .. Len(line) : line[j] # NewLine
  BY <1>2, <1>3, UsageAssumption, LenProperties
<1>5. i - x + 1 \in 1 .. y - x + 1 /\ x + (i - x + 1) - 1 = i
  BY <1>1
<1> QED BY <1>2, <1>4, <1>5

\* The line that starts last is the one whose usage counts.
LEMMA LastCounts ==
  ASSUME NEW s \in Seq(Bytes), NEW x, NEW y, IsLine(s, x, y),
         \A u, v : IsLine(s, u, v) => u <= x
  PROVE  ParseSSE(s) = Reported(s, x, y)
<1> DEFINE P(span) == \A other \in UsageLines(s) : other[1] <= span[1]
           last == CHOOSE span \in UsageLines(s) : P(span)
<1>1. <<x, y>> \in UsageLines(s) /\ P(<<x, y>>)
  BY LineMembers
<1>2. last \in UsageLines(s) /\ P(last)
  BY <1>1
<1>3. PICK u, v : last = <<u, v>> /\ IsLine(s, u, v) /\ u = x
  <2>1. last = <<last[1], last[2]>> /\ IsLine(s, last[1], last[2])
    BY <1>2, LineMembers
  <2>2. last[1] <= x /\ x <= last[1]
    <3>1. x <= last[1]
      BY <1>1, <1>2
    <3> QED BY <2>1, <3>1
  <2>3. last[1] = x
    BY <2>1, <2>2 DEF IsLine
  <2> QED BY <2>1, <2>3
<1>4. v = y
  <2>1. /\ u \in Nat /\ v \in Nat /\ y \in Nat /\ u <= v /\ u <= y
        /\ v <= Len(s) /\ y <= Len(s) /\ Len(s) \in Nat
    BY <1>3, LenProperties DEF IsLine
  <2>2. ~(v < y)
    <3> SUFFICES ASSUME v < y PROVE FALSE
      OBVIOUS
    <3>1. s[v + 1] = NewLine
      BY <1>3, <2>1 DEF IsLine
    <3>2. v + 1 \in x .. y
      BY <1>3, <2>1
    <3> QED BY <3>1, <3>2, LineHasNoBreak
  <2>3. ~(y < v)
    <3> SUFFICES ASSUME y < v PROVE FALSE
      OBVIOUS
    <3>1. s[y + 1] = NewLine
      BY <2>1 DEF IsLine
    <3>2. y + 1 \in u .. v
      BY <1>3, <2>1
    <3> QED BY <1>3, <3>1, <3>2, LineHasNoBreak
  <2> QED BY <2>1, <2>2, <2>3
<1>5. ParseSSE(s) = Usage[SubSeq(s, last[1], last[2])]
  BY <1>1 DEF ParseSSE
<1> HIDE DEF last
<1>6. last[1] = x /\ last[2] = y
  BY <1>3, <1>4
<1> QED BY <1>5, <1>6 DEF Reported

LEMMA LastExists ==
  ASSUME NEW s \in Seq(Bytes), UsageLines(s) # {}
  PROVE  \E x, y : IsLine(s, x, y) /\ \A u, v : IsLine(s, u, v) => u <= x
<1> DEFINE T == {x \in 1 .. Len(s) : \E y : IsLine(s, x, y)}
<1>1. Len(s) \in Nat
  BY LenProperties
<1>2. T \subseteq Nat /\ T # {} /\ \A x \in T : x <= Len(s)
  <2>1. PICK span \in UsageLines(s) : TRUE
    OBVIOUS
  <2>2. span[1] \in T
    BY <2>1, LineMembers DEF IsLine
  <2> QED BY <1>1, <2>2
<1>3. PICK x \in T : \A u \in T : u <= x
  <2> HIDE DEF T
  <2> QED BY <1>1, <1>2, GreatestNumber
<1>4. PICK y : IsLine(s, x, y)
  BY <1>3
<1>5. \A u, v : IsLine(s, u, v) => u \in T
  BY DEF IsLine
<1> QED BY <1>3, <1>4, <1>5

-----------------------------------------------------------------------------
\* A text may be cut wherever a line has just ended: the lines of the whole are
\* those of the two pieces.
Cuttable(s) == s # <<>> => s[Len(s)] = NewLine

LEMMA LinesBefore ==
  ASSUME NEW a \in Seq(Bytes), NEW b \in Seq(Bytes), Cuttable(a),
         NEW x, NEW y, IsLine(a, x, y)
  PROVE  /\ IsLine(Join(a, b), x, y)
         /\ Reported(Join(a, b), x, y) = Reported(a, x, y)
<1> DEFINE whole == Join(a, b)
<1>1. /\ whole \in Seq(Bytes)
      /\ Len(a) \in Nat /\ Len(b) \in Nat
      /\ Len(whole) = Len(a) + Len(b)
      /\ \A i \in 1 .. Len(a) : whole[i] = a[i]
  BY Joined
<1> HIDE DEF whole
<1>2. /\ x \in Nat \ {0} /\ y \in Nat /\ x <= y /\ y <= Len(a)
      /\ x > 1 => a[x - 1] = NewLine
      /\ y < Len(a) => a[y + 1] = NewLine
      /\ SubSeq(a, x, y) \in DOMAIN Usage
  BY <1>1 DEF IsLine
<1>3. y < Len(a)
  <2> SUFFICES ASSUME y = Len(a) PROVE FALSE
    BY <1>1, <1>2
  <2>1. a # <<>>
    BY <1>1, <1>2, EmptySeq
  <2>2. a[y] = NewLine
    BY <2>1 DEF Cuttable
  <2>3. y \in x .. y
    BY <1>2
  <2> QED BY <2>2, <2>3, LineHasNoBreak
<1>4. SubSeq(whole, x, y) = SubSeq(a, x, y)
  <2>1. x <= y + 1 /\ y <= Len(a)
    BY <1>2
  <2>2. Piece(whole, x, y) = Piece(a, x, y)
    BY <1>2, <2>1, PieceOfFirst DEF whole
  <2> QED BY <2>2 DEF Piece
<1>5. x > 1 => whole[x - 1] = NewLine
  <2>1. x > 1 => x - 1 \in 1 .. Len(a)
    BY <1>1, <1>2
  <2> QED BY <1>1, <1>2, <2>1
<1>6. whole[y + 1] = NewLine
  <2>1. y + 1 \in 1 .. Len(a)
    BY <1>1, <1>2, <1>3
  <2> QED BY <1>1, <1>2, <1>3, <2>1
<1>7. IsLine(whole, x, y)
  <2>1. x \in 1 .. Len(whole) /\ y \in 1 .. Len(whole)
    BY <1>1, <1>2
  <2> QED BY <1>2, <1>4, <1>5, <1>6, <2>1 DEF IsLine
<1>8. Reported(whole, x, y) = Reported(a, x, y)
  BY <1>4 DEF Reported
<1> QED BY <1>7, <1>8 DEF whole

LEMMA LinesAfter ==
  ASSUME NEW a \in Seq(Bytes), NEW b \in Seq(Bytes), Cuttable(a),
         NEW u, NEW v, IsLine(b, u, v)
  PROVE  /\ IsLine(Join(a, b), Len(a) + u, Len(a) + v)
         /\ Reported(Join(a, b), Len(a) + u, Len(a) + v) = Reported(b, u, v)
<1> DEFINE whole == Join(a, b)
<1>1. /\ whole \in Seq(Bytes)
      /\ Len(a) \in Nat /\ Len(b) \in Nat
      /\ Len(whole) = Len(a) + Len(b)
      /\ \A i \in 1 .. Len(a) : whole[i] = a[i]
      /\ \A i \in 1 .. Len(b) : whole[Len(a) + i] = b[i]
  BY Joined
<1> HIDE DEF whole
<1>2. /\ u \in Nat \ {0} /\ v \in Nat /\ u <= v /\ v <= Len(b)
      /\ u > 1 => b[u - 1] = NewLine
      /\ v < Len(b) => b[v + 1] = NewLine
      /\ SubSeq(b, u, v) \in DOMAIN Usage
  BY <1>1 DEF IsLine
<1> DEFINE x == Len(a) + u
           y == Len(a) + v
<1>3. SubSeq(whole, x, y) = SubSeq(b, u, v)
  <2>1. u <= v + 1 /\ x \in Nat /\ y \in Nat
    BY <1>1, <1>2
  <2>2. x = Len(a) + u /\ y = Len(a) + v
    OBVIOUS
  <2> HIDE DEF x, y
  <2>3. Piece(whole, x, y) = Piece(b, u, v)
    BY <1>2, <2>1, <2>2, PieceOfSecond DEF whole
  <2> QED BY <2>3 DEF Piece
<1>4. x > 1 => whole[x - 1] = NewLine
  <2>1. CASE u > 1
    <3>1. u - 1 \in 1 .. Len(b) /\ x - 1 = Len(a) + (u - 1)
      BY <1>1, <1>2, <2>1
    <3> HIDE DEF x
    <3>2. whole[Len(a) + (u - 1)] = b[u - 1]
      BY <1>1, <3>1
    <3> QED BY <1>2, <2>1, <3>1, <3>2
  <2>2. CASE u = 1 /\ Len(a) > 0
    <3>1. x - 1 = Len(a) /\ Len(a) \in 1 .. Len(a)
      BY <1>1, <2>2
    <3>2. a # <<>>
      BY <2>2, EmptySeq
    <3> QED BY <1>1, <3>1, <3>2 DEF Cuttable
  <2>3. CASE u = 1 /\ Len(a) = 0
    BY <2>3
  <2> QED BY <1>1, <1>2, <2>1, <2>2, <2>3
<1>5. y < Len(whole) => whole[y + 1] = NewLine
  <2> SUFFICES ASSUME y < Len(whole) PROVE whole[y + 1] = NewLine
    OBVIOUS
  <2>1. v < Len(b) /\ v + 1 \in 1 .. Len(b) /\ y + 1 = Len(a) + (v + 1)
    BY <1>1, <1>2
  <2>2. whole[Len(a) + (v + 1)] = b[v + 1]
    BY <1>1, <2>1
  <2> QED BY <1>2, <2>1, <2>2
<1>6. x \in 1 .. Len(whole) /\ y \in 1 .. Len(whole) /\ x <= y
  BY <1>1, <1>2
<1> HIDE DEF x, y
<1>7. IsLine(whole, x, y)
  BY <1>2, <1>3, <1>4, <1>5, <1>6 DEF IsLine
<1>8. Reported(whole, x, y) = Reported(b, u, v)
  BY <1>3 DEF Reported
<1> QED BY <1>7, <1>8 DEF whole, x, y

LEMMA LinesSplit ==
  ASSUME NEW a \in Seq(Bytes), NEW b \in Seq(Bytes), Cuttable(a),
         NEW x, NEW y, IsLine(Join(a, b), x, y)
  PROVE  \/ x <= Len(a) /\ IsLine(a, x, y)
         \/ x > Len(a) /\ IsLine(b, x - Len(a), y - Len(a))
<1> DEFINE whole == Join(a, b)
<1>1. /\ whole \in Seq(Bytes)
      /\ Len(a) \in Nat /\ Len(b) \in Nat
      /\ Len(whole) = Len(a) + Len(b)
      /\ \A i \in 1 .. Len(a) : whole[i] = a[i]
      /\ \A i \in 1 .. Len(b) : whole[Len(a) + i] = b[i]
  BY Joined
<1>2. IsLine(whole, x, y)
  OBVIOUS
<1> HIDE DEF whole
<1>3. /\ x \in Nat \ {0} /\ y \in Nat /\ x <= y /\ y <= Len(whole)
      /\ x > 1 => whole[x - 1] = NewLine
      /\ y < Len(whole) => whole[y + 1] = NewLine
      /\ SubSeq(whole, x, y) \in DOMAIN Usage
  BY <1>1, <1>2 DEF IsLine
<1>4. CASE x <= Len(a)
  <2>1. y < Len(a)
    <3> SUFFICES ASSUME Len(a) <= y PROVE FALSE
      BY <1>1, <1>3
    <3>1. Len(a) \in x .. y /\ Len(a) \in 1 .. Len(a)
      BY <1>1, <1>3, <1>4
    <3>2. a # <<>>
      BY <1>1, <1>3, <1>4, EmptySeq
    <3>3. whole[Len(a)] = NewLine
      BY <1>1, <3>1, <3>2 DEF Cuttable
    <3> QED BY <1>1, <1>2, <3>1, <3>3, LineHasNoBreak
  <2>2. SubSeq(whole, x, y) = SubSeq(a, x, y)
    <3>1. x <= y + 1 /\ y <= Len(a)
      BY <1>1, <1>3, <2>1
    <3>2. Piece(whole, x, y) = Piece(a, x, y)
      BY <1>3, <3>1, PieceOfFirst DEF whole
    <3> QED BY <3>2 DEF Piece
  <2>3. x > 1 => a[x - 1] = NewLine
    <3>1. x > 1 => x - 1 \in 1 .. Len(a)
      BY <1>1, <1>3, <1>4
    <3> QED BY <1>1, <1>3, <3>1
  <2>4. a[y + 1] = NewLine
    <3>1. y + 1 \in 1 .. Len(a) /\ y < Len(whole)
      BY <1>1, <1>3, <2>1
    <3> QED BY <1>1, <1>3, <3>1
  <2>5. x \in 1 .. Len(a) /\ y \in 1 .. Len(a)
    BY <1>1, <1>3, <1>4, <2>1
  <2>6. IsLine(a, x, y)
    BY <1>3, <2>2, <2>3, <2>4, <2>5 DEF IsLine
  <2> QED BY <1>4, <2>6
<1>5. CASE x > Len(a)
  <2> DEFINE u == x - Len(a)
             v == y - Len(a)
  <2>1. /\ u \in Nat \ {0} /\ v \in Nat /\ u <= v /\ v <= Len(b)
        /\ x = Len(a) + u /\ y = Len(a) + v
    BY <1>1, <1>3, <1>5
  <2> HIDE DEF u, v
  <2>2. SubSeq(whole, x, y) = SubSeq(b, u, v)
    <3>1. u <= v + 1 /\ x \in Nat /\ y \in Nat
      BY <1>3, <2>1
    <3>2. Piece(whole, x, y) = Piece(b, u, v)
      BY <2>1, <3>1, PieceOfSecond DEF whole
    <3> QED BY <3>2 DEF Piece
  <2>3. u > 1 => b[u - 1] = NewLine
    <3> SUFFICES ASSUME u > 1 PROVE b[u - 1] = NewLine
      OBVIOUS
    <3>1. u - 1 \in 1 .. Len(b) /\ x - 1 = Len(a) + (u - 1) /\ x > 1
      BY <1>1, <1>3, <2>1
    <3>2. whole[Len(a) + (u - 1)] = b[u - 1]
      BY <1>1, <3>1
    <3> QED BY <1>3, <3>1, <3>2
  <2>4. v < Len(b) => b[v + 1] = NewLine
    <3> SUFFICES ASSUME v < Len(b) PROVE b[v + 1] = NewLine
      OBVIOUS
    <3>1. /\ v + 1 \in 1 .. Len(b) /\ y + 1 = Len(a) + (v + 1)
          /\ y < Len(whole)
      BY <1>1, <1>3, <2>1
    <3>2. whole[Len(a) + (v + 1)] = b[v + 1]
      BY <1>1, <3>1
    <3> QED BY <1>3, <3>1, <3>2
  <2>5. u \in 1 .. Len(b) /\ v \in 1 .. Len(b)
    BY <1>1, <2>1
  <2>6. SubSeq(b, u, v) \in DOMAIN Usage
    BY <1>3, <2>2
  <2>7. IsLine(b, u, v)
    BY <2>1, <2>3, <2>4, <2>5, <2>6 DEF IsLine
  <2> QED BY <1>5, <2>7 DEF u, v
<1> QED BY <1>1, <1>3, <1>4, <1>5

\* The usage of a text cut in two is that of the second piece, if it has one.
LEMMA ParseSplit ==
  ASSUME NEW a \in Seq(Bytes), NEW b \in Seq(Bytes), Cuttable(a)
  PROVE  ParseSSE(Join(a, b)) =
           IF ParseSSE(b) # NoUsage THEN ParseSSE(b) ELSE ParseSSE(a)
<1>1. Join(a, b) \in Seq(Bytes) /\ Len(a) \in Nat /\ Len(b) \in Nat
  BY Joined
<1>2. CASE UsageLines(b) # {}
  <2>1. PICK x, y : IsLine(b, x, y) /\ \A u, v : IsLine(b, u, v) => u <= x
    BY <1>2, LastExists
  <2>2. /\ IsLine(Join(a, b), Len(a) + x, Len(a) + y)
        /\ Reported(Join(a, b), Len(a) + x, Len(a) + y) = Reported(b, x, y)
    BY <2>1, LinesAfter
  <2>3. x \in Nat \ {0} /\ SubSeq(b, x, y) \in DOMAIN Usage
    BY <1>1, <2>1 DEF IsLine
  <2>4. ASSUME NEW u, NEW v, IsLine(Join(a, b), u, v) PROVE u <= Len(a) + x
    <3>1. u \in Nat
      BY <1>1, <2>4 DEF IsLine
    <3>2. CASE u <= Len(a)
      BY <1>1, <2>3, <3>1, <3>2
    <3>3. CASE u > Len(a) /\ IsLine(b, u - Len(a), v - Len(a))
      <4>1. u - Len(a) <= x
        BY <2>1, <3>3
      <4> QED BY <1>1, <2>3, <3>1, <4>1
    <3> QED BY <2>4, <3>2, <3>3, LinesSplit
  <2>5. ParseSSE(Join(a, b)) = Reported(b, x, y)
    BY <1>1, <2>2, <2>4, LastCounts
  <2>6. ParseSSE(b) = Reported(b, x, y)
    BY <2>1, LastCounts
  <2>7. ParseSSE(b) # NoUsage
    BY <2>3, <2>6, UsageAssumption DEF Reported
  <2> QED BY <2>5, <2>6, <2>7
<1>3. CASE UsageLines(b) = {} /\ UsageLines(a) # {}
  <2>1. PICK x, y : IsLine(a, x, y) /\ \A u, v : IsLine(a, u, v) => u <= x
    BY <1>3, LastExists
  <2>2. /\ IsLine(Join(a, b), x, y)
        /\ Reported(Join(a, b), x, y) = Reported(a, x, y)
    BY <2>1, LinesBefore
  <2>3. ASSUME NEW u, NEW v, IsLine(Join(a, b), u, v) PROVE u <= x
    <3>1. ~IsLine(b, u - Len(a), v - Len(a))
      BY <1>3, LineMembers
    <3> QED BY <2>1, <2>3, <3>1, LinesSplit
  <2>4. ParseSSE(Join(a, b)) = Reported(a, x, y)
    BY <1>1, <2>2, <2>3, LastCounts
  <2>5. ParseSSE(a) = Reported(a, x, y)
    BY <2>1, LastCounts
  <2>6. ParseSSE(b) = NoUsage
    BY <1>3 DEF ParseSSE
  <2> QED BY <2>4, <2>5, <2>6
<1>4. CASE UsageLines(b) = {} /\ UsageLines(a) = {}
  <2>1. UsageLines(Join(a, b)) = {}
    <3> SUFFICES ASSUME NEW span \in UsageLines(Join(a, b)) PROVE FALSE
      OBVIOUS
    <3>1. IsLine(Join(a, b), span[1], span[2])
      BY LineMembers
    <3>2. /\ ~IsLine(a, span[1], span[2])
          /\ ~IsLine(b, span[1] - Len(a), span[2] - Len(a))
      BY <1>4, LineMembers
    <3> QED BY <3>1, <3>2, LinesSplit
  <2> QED BY <1>4, <2>1 DEF ParseSSE
<1> QED BY <1>2, <1>3, <1>4

-----------------------------------------------------------------------------
\* The last empty line of a text that has one.
LEMMA LastSeparator ==
  ASSUME NEW s \in Seq(Bytes), Separators(s) # {}
  PROVE  /\ Max(Separators(s)) \in Separators(s)
         /\ \A i \in Separators(s) : i <= Max(Separators(s))
<1>1. Len(s) \in Nat
  BY LenProperties
<1>2. Separators(s) \subseteq Nat /\ \A i \in Separators(s) : i <= Len(s)
  BY <1>1 DEF Separators
<1>3. PICK x \in Separators(s) : \A i \in Separators(s) : i <= x
  BY <1>1, <1>2, GreatestNumber
<1>4. \A i \in Separators(s) : x >= i
  BY <1>2, <1>3
<1>5. /\ Max(Separators(s)) \in Separators(s)
      /\ \A i \in Separators(s) : Max(Separators(s)) >= i
  BY <1>3, <1>4 DEF Max
<1> QED BY <1>2, <1>5

-----------------------------------------------------------------------------
\* A chunk is added: what was waiting and the chunk are what now waits, and the
\* last empty line in it ends the part that is read next.
Exact(s, waiting, read, k) ==
  /\ k \in 0 .. Len(s)
  /\ k > 0 => k \in Separators(s)
  /\ waiting = Piece(s, k + 1, Len(s))
  /\ Separators(waiting) = {}
  /\ read = ParseSSE(Piece(s, 1, k))

LEMMA ExactForm ==
  UsageIsExact <=> \E k : Exact(stream, usageTail, streamUsage, k)
BY DEF UsageIsExact, Exact, Piece

LEMMA CollectStep ==
  ASSUME NEW s \in Seq(Bytes), NEW chunk \in Seq(Bytes), NEW k,
         Exact(s, usageTail, streamUsage, k), Collect(chunk)
  PROVE  \E j : Exact(s \o chunk, usageTail', streamUsage', j)
<1> DEFINE whole == Join(s, chunk)
           text  == Piece(whole, k + 1, Len(whole))
<1>1. /\ whole \in Seq(Bytes) /\ Len(s) \in Nat /\ Len(chunk) \in Nat
      /\ Len(whole) = Len(s) + Len(chunk)
      /\ \A i \in 1 .. Len(s) : whole[i] = s[i]
  BY Joined
<1>2. k \in Nat /\ k <= Len(s) /\ k <= Len(whole) /\ Len(whole) \in Nat
  BY <1>1 DEF Exact
<1>3. usageTail \o chunk = text
  <2>1. usageTail = Piece(whole, k + 1, Len(s))
    <3>1. /\ k + 1 \in Nat \ {0} /\ Len(s) \in Nat
          /\ k + 1 <= Len(s) + 1 /\ Len(s) <= Len(s)
      BY <1>1, <1>2
    <3> QED BY <3>1, PieceOfFirst DEF Exact
  <2>2. chunk = Piece(whole, Len(s) + 1, Len(whole))
    BY PieceIsSecond
  <2>3. Join(usageTail, chunk) = text
    <3>1. /\ k + 1 \in Nat \ {0} /\ k + 1 <= Len(s) + 1
          /\ Len(s) <= Len(whole)
      BY <1>1, <1>2
    <3> HIDE DEF whole
    <3> QED BY <1>1, <1>2, <2>1, <2>2, <3>1, PiecesJoin
  <2> QED BY <2>3 DEF Join
<1>4. Piece(whole, 1, k) = Piece(s, 1, k)
  <2>1. 1 \in Nat \ {0} /\ 1 <= k + 1
    BY <1>2
  <2> QED BY <1>2, <2>1, PieceOfFirst
<1>5. k > 0 => k \in Separators(whole)
  <2> SUFFICES ASSUME k > 0 PROVE k \in Separators(whole)
    OBVIOUS
  <2>1. k \in 2 .. Len(s) /\ s[k - 1] = NewLine /\ s[k] = NewLine
    BY DEF Exact, Separators
  <2>2. k - 1 \in 1 .. Len(s) /\ k \in 1 .. Len(s) /\ k \in 2 .. Len(whole)
    BY <1>1, <1>2, <2>1
  <2>3. whole[k - 1] = NewLine /\ whole[k] = NewLine
    BY <1>1, <2>1, <2>2
  <2> HIDE DEF whole
  <2> QED BY <2>2, <2>3 DEF Separators
<1> HIDE DEF whole
<1>6. /\ text \in Seq(Bytes) /\ Len(text) = Len(whole) - k
      /\ \A i \in 1 .. Len(whole) - k : text[i] = whole[k + i]
  <2> DEFINE m == k + 1
  <2>1. /\ m \in Nat \ {0} /\ m <= Len(whole) + 1 /\ Len(whole) <= Len(whole)
        /\ Len(whole) - m + 1 = Len(whole) - k
        /\ \A i \in 1 .. Len(whole) - k : m + i - 1 = k + i
    BY <1>2
  <2> HIDE DEF m
  <2>2. /\ Piece(whole, m, Len(whole)) \in Seq(Bytes)
        /\ Len(Piece(whole, m, Len(whole))) = Len(whole) - m + 1
        /\ \A i \in 1 .. Len(whole) - m + 1 :
             Piece(whole, m, Len(whole))[i] = whole[m + i - 1]
    BY <1>1, <1>2, <2>1, PieceFacts
  <2>3. \A i \in 1 .. Len(whole) - k :
          Piece(whole, m, Len(whole))[i] = whole[k + i]
    BY <2>1, <2>2
  <2> QED BY <2>1, <2>2, <2>3 DEF m
<1>7. CASE Separators(text) = {}
  <2>1. usageTail' = text /\ streamUsage' = streamUsage
    BY <1>3, <1>7 DEF Collect
  <2>2. Exact(whole, usageTail', streamUsage', k)
    BY <1>2, <1>4, <1>5, <1>7, <2>1 DEF Exact
  <2> QED BY <2>2 DEF whole, Join
<1>8. CASE Separators(text) # {}
  <2> DEFINE end    == Max(Separators(text))
             parsed == ParseSSE(Piece(text, 1, end))
             j      == k + end
  <2>1. end \in Separators(text) /\ \A i \in Separators(text) : i <= end
    <3> HIDE DEF text
    <3> QED BY <1>6, <1>8, LastSeparator
  <2>2. /\ streamUsage' = IF parsed # NoUsage THEN parsed ELSE streamUsage
        /\ usageTail' = Piece(text, end + 1, Len(text))
    BY <1>3, <1>8 DEF Collect, Piece
  <2> HIDE DEF text
  <2>3. /\ end \in 2 .. Len(text) /\ end \in Nat
        /\ text[end - 1] = NewLine /\ text[end] = NewLine
    BY <1>2, <1>6, <2>1 DEF Separators
  <2> HIDE DEF end
  <2>4. j \in 0 .. Len(whole) /\ j \in Separators(whole)
    <3>1. /\ end - 1 \in 1 .. Len(whole) - k /\ end \in 1 .. Len(whole) - k
          /\ k + (end - 1) = j - 1 /\ j \in 2 .. Len(whole)
          /\ j \in 0 .. Len(whole)
      BY <1>2, <1>6, <2>3
    <3>2. text[end - 1] = whole[k + (end - 1)] /\ text[end] = whole[k + end]
      BY <1>6, <3>1
    <3>3. whole[j - 1] = NewLine /\ whole[j] = NewLine
      BY <2>3, <3>1, <3>2
    <3> QED BY <3>1, <3>3 DEF Separators
  <2>5. usageTail' = Piece(whole, j + 1, Len(whole))
    <3> DEFINE m == k + 1
               p == end + 1
               q == Len(text)
               x == j + 1
               y == Len(whole)
    <3>1. /\ m \in Nat \ {0} /\ y \in Nat /\ m <= y + 1 /\ y <= Len(whole)
          /\ p \in Nat \ {0} /\ q \in Nat /\ p <= q + 1 /\ q <= y - m + 1
          /\ x \in Nat /\ x = m + p - 1 /\ y = m + q - 1
      BY <1>2, <1>6, <2>3
    <3>2. text = Piece(whole, m, y)
      BY DEF text
    <3> HIDE DEF m, p, q, x, y
    <3>3. Piece(Piece(whole, m, y), p, q) = Piece(whole, x, y)
      BY ONLY <1>1, <3>1, PieceOfPiece, SMTT(30)
    <3> QED BY <2>2, <3>2, <3>3 DEF p, q, x, y
  <2>6. Separators(usageTail') = {}
    <3> SUFFICES ASSUME NEW i \in Separators(usageTail') PROVE FALSE
      OBVIOUS
    <3> DEFINE rest == Piece(text, end + 1, Len(text))
               p    == end + 1
    <3>1. /\ p \in Nat \ {0} /\ p <= Len(text) + 1 /\ Len(text) \in Nat
          /\ Len(text) <= Len(text) /\ Len(text) - p + 1 = Len(text) - end
          /\ \A n \in 1 .. Len(text) - end : p + n - 1 = end + n
      BY <1>2, <1>6, <2>3
    <3>2. /\ Len(rest) = Len(text) - end
          /\ \A n \in 1 .. Len(text) - end : rest[n] = text[end + n]
      <4> HIDE DEF p
      <4>1. /\ Len(Piece(text, p, Len(text))) = Len(text) - p + 1
            /\ \A n \in 1 .. Len(text) - p + 1 :
                 Piece(text, p, Len(text))[n] = text[p + n - 1]
        BY <1>6, <3>1, PieceFacts
      <4>2. \A n \in 1 .. Len(text) - end :
              Piece(text, p, Len(text))[n] = text[end + n]
        BY <3>1, <4>1
      <4> QED BY <3>1, <4>1, <4>2 DEF p
    <3> HIDE DEF rest, p
    <3>3. i \in Separators(rest)
      BY <2>2 DEF rest
    <3>4. i \in 2 .. Len(rest) /\ rest[i - 1] = NewLine /\ rest[i] = NewLine
      BY <3>3 DEF Separators
    <3>5. /\ i - 1 \in 1 .. Len(text) - end /\ i \in 1 .. Len(text) - end
          /\ end + (i - 1) = (end + i) - 1 /\ end + i \in 2 .. Len(text)
      BY <2>3, <3>1, <3>2, <3>4
    <3>6. text[end + (i - 1)] = NewLine /\ text[end + i] = NewLine
      BY <3>2, <3>4, <3>5
    <3>7. end + i \in Separators(text)
      BY <3>5, <3>6 DEF Separators
    <3>8. end + i <= end
      BY <2>1, <3>7
    <3> QED BY <2>3, <3>5, <3>8
  <2>7. streamUsage' = ParseSSE(Piece(whole, 1, j))
    <3> DEFINE a == Piece(s, 1, k)
               b == Piece(text, 1, end)
    <3>1. b = Piece(whole, k + 1, j)
      <4> DEFINE m == k + 1
                 n == Len(whole)
                 p == 1
                 x == k + 1
      <4>1. /\ m \in Nat \ {0} /\ n \in Nat /\ m <= n + 1 /\ n <= Len(whole)
            /\ p \in Nat \ {0} /\ end \in Nat /\ p <= end + 1
            /\ end <= n - m + 1
            /\ x \in Nat /\ j \in Nat /\ x = m + p - 1 /\ j = m + end - 1
        BY <1>2, <1>6, <2>3
      <4>2. text = Piece(whole, m, n)
        BY DEF text
      <4> HIDE DEF m, n, p, x, j
      <4>3. Piece(Piece(whole, m, n), p, end) = Piece(whole, x, j)
        BY ONLY <1>1, <4>1, PieceOfPiece, SMTT(30)
      <4>4. Piece(text, p, end) = Piece(whole, x, j)
        BY <4>2, <4>3
      <4> QED BY <4>4 DEF p, x
    <3>2. Join(a, b) = Piece(whole, 1, j)
      <4>1. /\ 1 \in Nat \ {0} /\ 1 <= k + 1 /\ k <= j /\ j \in Nat
            /\ j <= Len(whole)
        BY <1>2, <2>3, <2>4
      <4>2. Join(Piece(whole, 1, k), Piece(whole, k + 1, j)) = Piece(whole, 1, j)
        BY <1>1, <1>2, <4>1, PiecesJoin
      <4> QED BY <1>4, <3>1, <4>2
    <3>3. a \in Seq(Bytes) /\ Cuttable(a)
      <4>1. /\ 1 \in Nat \ {0} /\ 1 <= k + 1 /\ k - 1 + 1 = k
            /\ 1 + k - 1 = k
        BY <1>2
      <4>2. /\ a \in Seq(Bytes) /\ Len(a) = k - 1 + 1
            /\ \A i \in 1 .. k - 1 + 1 : a[i] = s[1 + i - 1]
        BY <1>2, <4>1, PieceFacts
      <4>3. k > 0 => s[k] = NewLine
        BY DEF Exact, Separators
      <4>4. a # <<>> => k > 0
        BY <1>2, <4>1, <4>2, EmptySeq
      <4>5. k > 0 => a[k] = s[k]
        <5>1. k > 0 => k \in 1 .. k - 1 + 1
          BY <1>2
        <5> QED BY <4>1, <4>2, <5>1
      <4> QED BY <4>1, <4>2, <4>3, <4>4, <4>5 DEF Cuttable
    <3>4. b \in Seq(Bytes)
      <4>1. 1 \in Nat \ {0} /\ 1 <= end + 1 /\ end <= Len(text)
        BY <2>3
      <4> QED BY <1>6, <2>3, <4>1, PieceFacts
    <3>5. streamUsage = ParseSSE(a)
      BY DEF Exact
    <3> HIDE DEF a
    <3>6. streamUsage' = IF ParseSSE(b) # NoUsage THEN ParseSSE(b) ELSE ParseSSE(a)
      BY <2>2, <3>5
    <3> HIDE DEF b
    <3> QED BY <3>2, <3>3, <3>4, <3>6, ParseSplit
  <2> HIDE DEF j
  <2>8. Exact(whole, usageTail', streamUsage', j)
    BY <2>4, <2>5, <2>6, <2>7 DEF Exact
  <2> QED BY <2>8 DEF whole, Join
<1> QED BY <1>7, <1>8

\* Whatever lines report usage, and however the stream is cut into reads, the
\* usage that is kept is that of the text up to the last empty line.
THEOREM UsageIsRead == UsageSpec => []UsageIsExact
<1> DEFINE Inv == stream \in Seq(Bytes) /\ UsageIsExact
<1>1. UsageInit => Inv
  <2> SUFFICES ASSUME UsageInit PROVE Inv
    OBVIOUS
  <2>1. stream = <<>> /\ usageTail = <<>> /\ streamUsage = NoUsage
    BY DEF UsageInit, Init
  <2>2. stream \in Seq(Bytes) /\ Len(stream) = 0
    BY <2>1, EmptySeq
  <2>3. /\ Piece(stream, 1, 0) \in Seq(Bytes) /\ Len(Piece(stream, 1, 0)) = 0
        /\ Piece(stream, 1, 0) = <<>>
    <3> DEFINE m == 1
               n == 0
               t == Piece(stream, m, n)
    <3>1. /\ m \in Nat \ {0} /\ n \in Nat /\ m <= n + 1 /\ n <= Len(stream)
          /\ n - m + 1 = 0
      BY <2>2
    <3> HIDE DEF m, n
    <3>2. t \in Seq(Bytes) /\ Len(t) = n - m + 1
      BY <2>2, <3>1, PieceFacts
    <3>3. t \in Seq(Bytes) /\ Len(t) = 0
      BY <3>1, <3>2
    <3> HIDE DEF t
    <3>4. t = <<>>
      BY <3>3, EmptySeq
    <3> QED BY <3>3, <3>4 DEF t, m, n
  <2>4. Separators(<<>>) = {} /\ ParseSSE(<<>>) = NoUsage
    <3>1. Len(<<>>) = 0
      BY EmptySeq
    <3>2. Separators(<<>>) = {}
      BY <3>1 DEF Separators
    <3>3. UsageLines(<<>>) = {}
      BY <3>1 DEF UsageLines
    <3> QED BY <3>2, <3>3 DEF ParseSSE
  <2>5. 0 + 1 = 1
    OBVIOUS
  <2>6. Exact(stream, usageTail, streamUsage, 0)
    BY <2>1, <2>2, <2>3, <2>4, <2>5 DEF Exact
  <2> QED BY <2>2, <2>6, ExactForm
<1>2. Inv /\ [UsageNext]_<<vars, collected>> => Inv'
  <2> SUFFICES ASSUME Inv, [UsageNext]_<<vars, collected>> PROVE Inv'
    OBVIOUS
  <2>1. PICK k : Exact(stream, usageTail, streamUsage, k)
    BY ExactForm
  <2>2. CASE UNCHANGED <<vars, collected>>
    BY <2>2 DEF vars, collected, UsageIsExact
  <2>3. CASE UsageNext
    <3>0. PICK n \in 1 .. MaxChunk : \E chunk \in [1 .. n -> Bytes] : Forward(chunk)
      BY <2>3 DEF UsageNext
    <3>1. PICK chunk \in [1 .. n -> Bytes] : Forward(chunk)
      BY <3>0
    <3>2. chunk \in Seq(Bytes)
      BY <3>1
    <3>3. stream' = stream \o chunk /\ Collect(chunk)
      BY <3>1 DEF Forward, Scan
    <3>4. stream' \in Seq(Bytes)
      BY <3>2, <3>3, ConcatProperties
    <3>5. \E j : Exact(stream \o chunk, usageTail', streamUsage', j)
      BY <2>1, <3>2, <3>3, CollectStep
    <3>6. PICK j : Exact(stream', usageTail', streamUsage', j)
      BY <3>3, <3>5
    <3>7. UsageIsExact'
      BY <3>6 DEF Exact, UsageIsExact, Piece
    <3> QED BY <3>4, <3>7
  <2> QED BY <2>2, <2>3
<1> QED BY <1>1, <1>2, PTL DEF UsageSpec
=============================================================================
