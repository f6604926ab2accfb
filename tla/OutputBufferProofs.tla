------------------------- MODULE OutputBufferProofs -------------------------
(***************************************************************************)
(* Theorems of OutputBuffer, for every set of bytes, capacity and length   *)
(* of the stream: the window is the end of the stream, every answer is     *)
(* exact, and the buffer implements OutputStream.                          *)
(***************************************************************************)
EXTENDS OutputBuffer, SequenceTheorems, TLAPS

\* What the client was told is a prefix of the stream, up to its cursor.
ClientInv ==
    /\ cursor = Start => received = <<>>
    /\ cursor # Start => cursor = Len(received)
    /\ Len(received) <= Len(sent)

Inv == TypeOK /\ WindowIsSuffix /\ ClientInv

-----------------------------------------------------------------------------
(* The operators.                                                          *)

\* Dropping n entries of a sequence shifts the rest to the front.
LEMMA DropFacts ==
    ASSUME NEW S, NEW s \in Seq(S), NEW n \in 0..Len(s)
    PROVE  /\ Drop(s, n) \in Seq(S)
           /\ Len(Drop(s, n)) = Len(s) - n
           /\ \A i \in 1..(Len(s) - n) : Drop(s, n)[i] = s[n + i]
<1>1. Len(s) \in Nat /\ \A i \in (n + 1)..Len(s) : s[i] \in S
  BY LenProperties, ElementOfSeq
<1>2. /\ SubSeq(s, n + 1, Len(s)) \in Seq(S)
      /\ Len(SubSeq(s, n + 1, Len(s))) =
            IF n + 1 <= Len(s) THEN Len(s) - (n + 1) + 1 ELSE 0
      /\ \A i \in 1..(Len(s) - (n + 1) + 1) :
            SubSeq(s, n + 1, Len(s))[i] = s[(n + 1) + i - 1]
  BY <1>1, SubSeqProperties
<1> QED BY <1>1, <1>2 DEF Drop

\* A chunk of the pipe is a sequence of bytes.
LEMMA DataFacts ==
    ASSUME NEW data \in Data
    PROVE  data \in Seq(Byte)
<1>1. PICK n \in 1..MaxChunk : data \in [1..n -> Byte]
  BY DEF Data
<1> QED BY <1>1, BoundsAssumption DEF BoundsAssumption

\* Appending a chunk to a window of a stream makes the window of the longer stream.
LEMMA AppendKeepsWindow ==
    ASSUME NEW b \in Window, NEW stream \in Seq(Byte), NEW data \in Seq(Byte),
           IsWindow(b, stream), b.end = Len(stream)
    PROVE  /\ Appended(b, data) \in Window
           /\ IsWindow(Appended(b, data), stream \o data)
           /\ Appended(b, data).end = Len(stream \o data)
<1> DEFINE n == Len(stream)
           d == Len(data)
           w == Len(b.bytes)
           cut == Monus(d, Retained)
           kept == Drop(data, cut)
           k == Len(kept)
           room == Monus(w + k, Retained)
           rest == Drop(b.bytes, room)
           new == Appended(b, data)
<1>1. /\ b.bytes \in Seq(Byte) /\ n \in Nat /\ w \in Nat /\ d \in Nat
      /\ Retained \in Nat \ {0}
      /\ b.eof \in BOOLEAN /\ b.error \in BOOLEAN
  BY CapacityAssumption, LenProperties DEF Window, CapacityAssumption
<1>2. cut \in 0..d
  BY <1>1 DEF Monus
<1>3. kept \in Seq(Byte) /\ k = d - cut /\ \A i \in 1..(d - cut) : kept[i] = data[cut + i]
  BY <1>2, DropFacts
<1>4. k \in Nat /\ k = Least(d, Retained)
  <2>1. cut = Monus(d, Retained)
    OBVIOUS
  <2> HIDE DEF kept, cut, d
  <2>2. k = d - cut
    BY <1>3
  <2> HIDE DEF k
  <2> QED BY <1>1, <2>1, <2>2 DEF Monus, Least
<1>5. w = Least(Retained, n) /\ \A i \in 1..w : b.bytes[i] = stream[n - w + i]
  BY DEF IsWindow
<1> HIDE DEF n, d, w, k
<1>6. room \in Nat
  BY <1>1, <1>4 DEF Monus
<1>7. /\ room \in 0..w
      /\ (w - room) + k = Least(Retained, n + d)
      /\ room < w => k = d
      /\ w <= n
  <2>1. room = Monus(w + k, Retained)
    OBVIOUS
  <2> HIDE DEF room
  <2>2. k = Least(d, Retained) /\ w = Least(Retained, n)
    BY <1>4, <1>5
  <2> QED BY <1>1, <1>4, <1>6, <2>1, <2>2 DEF Least, Monus
<1>8. rest \in Seq(Byte) /\ Len(rest) = w - room
      /\ \A i \in 1..(w - room) : rest[i] = b.bytes[room + i]
  BY <1>1, <1>7, DropFacts DEF w
<1>9. /\ rest \o kept \in Seq(Byte)
      /\ Len(rest \o kept) = (w - room) + k
      /\ \A i \in 1..((w - room) + k) :
            (rest \o kept)[i] = IF i <= w - room THEN rest[i] ELSE kept[i - (w - room)]
  <2>1. Len(kept) = k
    BY DEF k
  <2> HIDE DEF room, kept, rest
  <2>2. /\ rest \o kept \in Seq(Byte)
        /\ Len(rest \o kept) = Len(rest) + Len(kept)
        /\ \A i \in 1..(Len(rest) + Len(kept)) :
              (rest \o kept)[i] = IF i <= Len(rest) THEN rest[i] ELSE kept[i - Len(rest)]
    <3>1. kept \in Seq(Byte) /\ rest \in Seq(Byte)
      BY <1>3, <1>8
    <3> QED BY <3>1, ConcatProperties
  <2> QED BY <1>8, <2>1, <2>2
<1>10. /\ stream \o data \in Seq(Byte)
       /\ Len(stream \o data) = n + d
       /\ \A i \in 1..(n + d) :
             (stream \o data)[i] = IF i <= n THEN stream[i] ELSE data[i - n]
  BY ConcatProperties DEF n, d
<1>11. new = [b EXCEPT !.end = b.end + d, !.bytes = rest \o kept]
  BY DEF Appended, d, k, w
<1> HIDE DEF cut, kept, room, rest, new
<1>12. new \in Window /\ new.bytes = rest \o kept /\ new.end = n + d
  <2>1. b.end + d \in Nat /\ b.end + d = n + d
    BY <1>1 DEF n
  <2> DEFINE joined == rest \o kept
  <2>2. joined \in Seq(Byte) /\ new = [b EXCEPT !.end = b.end + d, !.bytes = joined]
    BY <1>9, <1>11
  <2> HIDE DEF joined
  <2>3. new \in Window /\ new.bytes = joined /\ new.end = n + d
    BY <2>1, <2>2 DEF Window
  <2> QED BY <2>3 DEF joined
<1>14. Len(new.bytes) = (w - room) + k
  BY <1>8, <1>9, <1>12
<1>15. ASSUME NEW i \in 1..Len(new.bytes)
       PROVE  new.bytes[i] = (stream \o data)[new.end - Len(new.bytes) + i]
  <2>1. i \in 1..((w - room) + k) /\ w - room \in Nat /\ i \in Nat
    BY <1>1, <1>4, <1>7, <1>14
  <2>2. new.end - Len(new.bytes) + i = (n + d) - ((w - room) + k) + i
    BY <1>12, <1>14
  <2>3. CASE i <= w - room
    <3>1. room < w /\ k = d /\ room + i \in 1..w
      BY <1>1, <1>7, <2>1, <2>3
    <3>2. new.bytes[i] = b.bytes[room + i]
      BY <1>4, <1>8, <1>9, <1>12, <2>1, <2>3
    <3>3. b.bytes[room + i] = stream[n - w + (room + i)]
      BY <1>5, <3>1
    <3>4. (n + d) - ((w - room) + k) + i = n - w + (room + i)
      BY <1>1, <1>7, <2>1, <3>1
    <3>5. n - w + (room + i) \in 1..n
      BY ONLY <1>1, <1>7, <3>1
    <3> QED BY <1>1, <1>10, <2>2, <3>2, <3>3, <3>4, <3>5
  <2>4. CASE i > w - room
    <3> DEFINE j == i - (w - room)
    <3>1. j = i - (w - room) /\ ~(i <= w - room)
      BY <2>1, <2>4
    <3> HIDE DEF j
    <3>2. j \in 1..k
      BY ONLY <1>4, <2>1, <2>4, <3>1
    <3>3. new.bytes[i] = kept[j]
      BY ONLY <1>9, <1>12, <2>1, <3>1
    <3>4. kept[j] = data[cut + j] /\ cut + j \in 1..d
      BY ONLY <1>1, <1>2, <1>3, <3>2
    <3>5. (n + d) - ((w - room) + k) + i = n + (cut + j)
      <4>1. k = d - cut
        BY <1>3
      <4>2. n \in Nat /\ w \in Nat /\ room \in Nat /\ d \in Nat /\ cut \in 0..d /\ i \in Nat
        BY <1>1, <1>2, <1>6, <2>1
      <4>3. j = i - (w - room)
        BY <3>1
      <4> QED BY ONLY <4>1, <4>2, <4>3
    <3>6. n + (cut + j) \in 1..(n + d) /\ n + (cut + j) > n
      <4> DEFINE c == cut + j
      <4>1. n \in Nat /\ d \in Nat /\ c \in 1..d
        BY <1>1, <1>2, <3>4
      <4> HIDE DEF c
      <4>2. n + c \in 1..(n + d) /\ n + c > n
        BY ONLY <4>1
      <4>3. c = cut + j
        BY DEF c
      <4> QED BY ONLY <4>2, <4>3
    <3>7. (stream \o data)[n + (cut + j)] = data[(n + (cut + j)) - n]
      BY <1>1, <1>10, <3>6
    <3>8. (n + (cut + j)) - n = cut + j
      BY <1>1, <1>2, <3>2, <1>4
    <3> QED BY <2>2, <3>3, <3>4, <3>5, <3>7, <3>8
  <2>5. i <= w - room \/ i > w - room
    BY <2>1
  <2> QED BY <2>3, <2>4, <2>5
<1>16. IsWindow(new, stream \o data)
  <2>1. Len(new.bytes) = Least(Retained, new.end)
    BY <1>7, <1>12, <1>14
  <2>2. new.end <= Len(stream \o data)
    BY <1>1, <1>10, <1>12
  <2> QED BY <1>15, <2>1, <2>2 DEF IsWindow
<1> QED BY <1>10, <1>12, <1>16 DEF new
-----------------------------------------------------------------------------
(* Reads.                                                                  *)

\* What one answer is, from where it starts to where it ends.
LEMMA ReadFacts ==
    ASSUME NEW b \in Window, NEW stream, IsWindow(b, stream),
           NEW at \in Nat \cup {Start}, Readable(b, at), NEW max \in Nat \ {0}
    PROVE  LET chunk == Read(b, at, max)
               start == b.end - Len(b.bytes)
           IN  /\ start \in Nat /\ start <= b.end
               /\ chunk.dropped = start
               /\ chunk.gap \in Nat /\ chunk.start \in Nat /\ chunk.next \in Nat
               /\ chunk.start = IF at = Start THEN start ELSE at + chunk.gap
               /\ chunk.gap > 0 => at < start
               /\ chunk.bytes \in Seq(Byte)
               /\ chunk.next = chunk.start + Len(chunk.bytes)
               /\ chunk.next <= b.end
               /\ Len(chunk.bytes) = 0 => chunk.next = b.end
               /\ \A i \in 1..Len(chunk.bytes) : chunk.bytes[i] = stream[chunk.start + i]
<1> DEFINE w == Len(b.bytes)
           start == b.end - w
           requested == IF at = Start THEN start ELSE at
           from == IF requested < start THEN start ELSE requested
           skip == from - start
           count == Least(max, w - skip)
           part == SubSeq(b.bytes, skip + 1, skip + count)
<1>1. /\ b.bytes \in Seq(Byte) /\ b.end \in Nat /\ w \in Nat /\ w <= b.end
      /\ \A i \in 1..w : b.bytes[i] = stream[start + i]
      /\ \A i \in 1..w : b.bytes[i] \in Byte
  <2>1. b.bytes \in Seq(Byte) /\ b.end \in Nat
    BY DEF Window
  <2>2. w \in Nat /\ \A i \in 1..w : b.bytes[i] \in Byte
    BY <2>1, LenProperties, ElementOfSeq
  <2>3. w = Least(Retained, b.end) /\ \A i \in 1..w : b.bytes[i] = stream[start + i]
    BY DEF IsWindow
  <2>4. w <= b.end
    BY <2>1, <2>3, CapacityAssumption DEF Least, CapacityAssumption
  <2> QED BY <2>1, <2>2, <2>3, <2>4
<1> HIDE DEF w
<1>2. start \in Nat /\ start <= b.end /\ start = b.end - w
  BY <1>1
<1>3. at # Start => at \in Nat /\ at <= b.end
  BY DEF Readable
<1> HIDE DEF start
<1>4. /\ requested \in Nat /\ requested <= b.end
      /\ at # Start => requested = at
      /\ at = Start => requested = start
  BY <1>1, <1>2, <1>3
<1> HIDE DEF requested
<1>5. /\ from \in Nat /\ from >= start /\ from <= b.end /\ from >= requested
      /\ from = requested + Monus(start, requested)
      /\ Monus(start, requested) > 0 => requested < start
  <2>1. from = IF requested < start THEN start ELSE requested
    BY DEF from
  <2>2. b.end \in Nat
    BY <1>1
  <2> HIDE DEF from
  <2> QED BY <1>2, <1>4, <2>1, <2>2 DEF Monus
<1> HIDE DEF from
<1>6. skip \in Nat /\ skip <= w /\ skip + start = from
  <2>1. w \in Nat /\ b.end \in Nat
    BY <1>1
  <2>2. skip = from - start
    OBVIOUS
  <2> HIDE DEF skip
  <2> QED BY <1>2, <1>5, <2>1, <2>2
<1> HIDE DEF skip
<1>7. count \in Nat /\ skip + count <= w /\ (count = 0 => skip = w)
  BY <1>1, <1>6 DEF Least
<1> HIDE DEF count
<1>8. /\ part \in Seq(Byte) /\ Len(part) = count
      /\ \A i \in 1..count : part[i] = b.bytes[skip + i]
  <2>1. \A i \in (skip + 1)..(skip + count) : b.bytes[i] \in Byte
    BY <1>1, <1>6, <1>7
  <2>2. /\ part \in Seq(Byte)
        /\ Len(part) =
              IF skip + 1 <= skip + count THEN (skip + count) - (skip + 1) + 1 ELSE 0
        /\ \A i \in 1..((skip + count) - (skip + 1) + 1) :
              part[i] = b.bytes[(skip + 1) + i - 1]
    BY <1>6, <1>7, <2>1, SubSeqProperties
  <2> HIDE DEF part
  <2> QED BY <1>6, <1>7, <2>2
<1> HIDE DEF part
<1>9. \A i \in 1..count : part[i] = stream[from + i]
  <2> SUFFICES ASSUME NEW i \in 1..count PROVE part[i] = stream[from + i]
    OBVIOUS
  <2>1. skip + i \in 1..w /\ start + (skip + i) = from + i
    BY <1>1, <1>2, <1>6, <1>7
  <2> QED BY <1>1, <1>8, <2>1
<1>10. /\ from + count \in Nat /\ from + count <= b.end
       /\ count = 0 => from + count = b.end
  <2>1. b.end \in Nat /\ w \in Nat /\ start + w = b.end
    BY <1>1, <1>2
  <2> QED BY <1>2, <1>5, <1>6, <1>7, <2>1
<1>11. Read(b, at, max) =
          [requested |-> requested, start |-> from, next |-> from + count,
           end |-> b.end, dropped |-> start, gap |-> Monus(start, requested), bytes |-> part]
  BY DEF Read, w, start, requested, from, skip, count, part
<1>12. Monus(start, requested) \in Nat
  BY <1>2, <1>4 DEF Monus
<1>13. from = IF at = Start THEN start ELSE at + Monus(start, requested)
  BY <1>2, <1>4, <1>5 DEF Monus
<1>14. Monus(start, requested) > 0 => at < start
  BY <1>2, <1>4, <1>5 DEF Monus, Start
<1> QED
  BY <1>2, <1>5, <1>8, <1>9, <1>10, <1>11, <1>12, <1>13, <1>14 DEF w, start
-----------------------------------------------------------------------------
(* The invariant.                                                          *)

\* A stream that grows keeps the windows of what was there.
LEMMA WindowOfLonger ==
    ASSUME NEW b \in Window, NEW stream \in Seq(Byte), NEW data \in Seq(Byte),
           IsWindow(b, stream)
    PROVE  IsWindow(b, stream \o data)
<1>1. /\ Len(stream) \in Nat /\ Len(data) \in Nat /\ Len(b.bytes) \in Nat /\ b.end \in Nat
      /\ Len(stream \o data) = Len(stream) + Len(data)
      /\ \A i \in 1..(Len(stream) + Len(data)) :
            (stream \o data)[i] =
               IF i <= Len(stream) THEN stream[i] ELSE data[i - Len(stream)]
  BY LenProperties, ConcatProperties DEF Window
<1>2. /\ Len(b.bytes) = Least(Retained, b.end) /\ b.end <= Len(stream)
      /\ \A i \in 1..Len(b.bytes) : b.bytes[i] = stream[b.end - Len(b.bytes) + i]
  BY DEF IsWindow
<1>3. Len(b.bytes) <= b.end
  BY <1>1, <1>2, CapacityAssumption DEF Least, CapacityAssumption
<1>4. ASSUME NEW i \in 1..Len(b.bytes)
      PROVE  b.bytes[i] = (stream \o data)[b.end - Len(b.bytes) + i]
  <2> DEFINE at == b.end - Len(b.bytes) + i
  <2>1. at \in 1..Len(stream)
    BY <1>1, <1>2, <1>3
  <2>2. b.bytes[i] = stream[at]
    BY <1>2
  <2> HIDE DEF at
  <2>3. (stream \o data)[at] = stream[at]
    BY <1>1, <2>1
  <2> QED BY <2>2, <2>3 DEF at
<1>5. b.end <= Len(stream \o data)
  BY <1>1, <1>2
<1> QED BY <1>2, <1>4, <1>5 DEF IsWindow

\* The initial state.
LEMMA InitInv == Init => Inv
<1> SUFFICES ASSUME Init PROVE Inv
  OBVIOUS
<1>1. Empty \in Window /\ Len(Empty.bytes) = 0 /\ Empty.end = 0
  BY DEF Empty, Window
<1>2. Least(Retained, 0) = 0
  BY CapacityAssumption DEF Least, CapacityAssumption
<1>3. TypeOK
  BY <1>1 DEF Init, TypeOK
<1>4. Len(sent) = 0
  BY DEF Init
<1>5. IsWindow(Empty, sent)
  BY <1>1, <1>2, <1>4 DEF IsWindow
<1>6. WindowIsSuffix
  BY <1>1, <1>4, <1>5 DEF Init, WindowIsSuffix
<1>7. ClientInv
  BY <1>4 DEF Init, ClientInv
<1> QED BY <1>3, <1>6, <1>7 DEF Inv

\* A sequence over a set is one over every larger set.
LEMMA SeqOverLarger ==
    ASSUME NEW S, NEW T, S \subseteq T, NEW s \in Seq(S)
    PROVE  s \in Seq(T)
<1>1. Len(s) \in Nat /\ s \in [1..Len(s) -> S]
  BY LenProperties
<1>2. s \in [1..Len(s) -> T]
  BY <1>1
<1> QED BY <1>1, <1>2

\* A record of the stream goes on with a gap and the bytes that follow it.
LEMMA GapAndBytesExtend ==
    ASSUME NEW old \in Seq(Byte \cup {Lost}), NEW missed \in Nat, NEW bytes \in Seq(Byte),
           sent \in Seq(Byte),
           Len(old) + missed + Len(bytes) <= Len(sent),
           \A i \in 1..Len(bytes) : bytes[i] = sent[Len(old) + missed + i],
           NEW lost \in [1..missed -> {Lost}]
    PROVE  /\ old \o (lost \o bytes) \in Seq(Byte \cup {Lost})
           /\ Len(old \o (lost \o bytes)) = Len(old) + missed + Len(bytes)
           /\ Stream!Extends(old, old \o (lost \o bytes))
<1> DEFINE S == Byte \cup {Lost}
           r == Len(old)
           n == Len(bytes)
           more == lost \o bytes
           new == old \o more
<1>1. r \in Nat /\ n \in Nat /\ Len(sent) \in Nat
  BY LenProperties
<1>2. bytes \in Seq(S)
  BY SeqOverLarger
<1>3. lost \in Seq(S) /\ Len(lost) = missed /\ \A i \in 1..missed : lost[i] = Lost
  <2>1. lost \in [1..missed -> S]
    OBVIOUS
  <2> QED BY <2>1
<1>4. /\ more \in Seq(S) /\ Len(more) = missed + n
      /\ \A i \in 1..(missed + n) :
            more[i] = IF i <= missed THEN lost[i] ELSE bytes[i - missed]
  <2>1. /\ more \in Seq(S) /\ Len(more) = Len(lost) + Len(bytes)
        /\ \A i \in 1..(Len(lost) + Len(bytes)) :
              more[i] = IF i <= Len(lost) THEN lost[i] ELSE bytes[i - Len(lost)]
    BY <1>2, <1>3, ConcatProperties
  <2> QED BY <1>3, <2>1
<1> HIDE DEF more
<1>5. /\ new \in Seq(S) /\ Len(new) = r + (missed + n)
      /\ \A i \in 1..(r + (missed + n)) : new[i] = IF i <= r THEN old[i] ELSE more[i - r]
  <2>1. /\ new \in Seq(S) /\ Len(new) = Len(old) + Len(more)
        /\ \A i \in 1..(Len(old) + Len(more)) :
              new[i] = IF i <= Len(old) THEN old[i] ELSE more[i - Len(old)]
    <3>1. more \in Seq(S) /\ old \in Seq(S)
      BY <1>4
    <3> HIDE DEF S
    <3> QED BY <3>1, ConcatProperties
  <2> QED BY <1>4, <2>1
<1>6. r + missed + n <= Len(sent) /\ \A i \in 1..n : bytes[i] = sent[r + missed + i]
  OBVIOUS
<1>7. \A i \in 1..Len(sent) : sent[i] # Lost
  BY ElementOfSeq, LostAssumption DEF LostAssumption
<1> HIDE DEF S, new, r, n
<1>8. Len(new) = r + missed + n
  BY <1>1, <1>5
<1>9. ASSUME NEW i \in 1..r PROVE new[i] = old[i]
  <2>1. i \in 1..(r + (missed + n)) /\ i <= r
    BY <1>1
  <2> QED BY <1>5, <2>1
<1>10. ASSUME NEW i \in (r + 1)..Len(new)
       PROVE  new[i] = IF i <= r + missed THEN Lost ELSE sent[i]
  <2>1. i \in (r + 1)..(r + missed + n)
    BY <1>8
  <2>2. /\ i - r \in 1..(missed + n) /\ i \in Nat
        /\ i \in 1..(r + (missed + n)) /\ ~(i <= r)
    BY <1>1, <2>1
  <2>3. new[i] = more[i - r]
    BY <1>5, <2>2
  <2>4. CASE i <= r + missed
    <3>1. i - r <= missed /\ i - r \in 1..missed
      BY <1>1, <2>2, <2>4
    <3> QED BY <1>3, <1>4, <2>2, <2>3, <2>4, <3>1
  <2>5. CASE ~(i <= r + missed)
    <3>1. /\ ~(i - r <= missed) /\ (i - r) - missed \in 1..n
          /\ r + missed + ((i - r) - missed) = i
      BY <1>1, <2>1, <2>5
    <3>2. new[i] = bytes[(i - r) - missed]
      BY <1>4, <2>2, <2>3, <3>1
    <3>3. bytes[(i - r) - missed] = sent[r + missed + ((i - r) - missed)]
      BY <1>6, <3>1
    <3> QED BY <2>5, <3>1, <3>2, <3>3
  <2> QED BY <2>4, <2>5
<1>11. ASSUME NEW i \in (r + 1)..Len(new), NEW j \in (r + 1)..Len(new),
              i < j, new[j] = Lost
       PROVE  new[i] = Lost
  <2>1. j \in 1..Len(sent) /\ j \in Nat /\ i \in Nat
    BY <1>1, <1>6, <1>8
  <2>2. new[j] = IF j <= r + missed THEN Lost ELSE sent[j]
    BY <1>10
  <2>3. j <= r + missed
    BY <1>7, <1>11, <2>1, <2>2
  <2>4. i <= r + missed
    BY <1>1, <1>11, <2>1, <2>3
  <2> QED BY <1>10, <2>4
<1>12. Stream!Extends(old, new)
  <2>1. r <= Len(new) /\ Len(new) <= Len(sent)
    BY <1>1, <1>6, <1>8
  <2>2. \A i \in (r + 1)..Len(new) : new[i] \in {Lost, sent[i]}
    BY <1>10
  <2> QED BY <1>9, <1>11, <2>1, <2>2 DEF Stream!Extends, r
<1> QED BY <1>5, <1>8, <1>12 DEF S, new, more, r, n

\* What an answer adds to the client's record of the stream.
LEMMA AnswerExtends ==
    ASSUME Inv, Readable(buffer, cursor), NEW max \in 1..MaxBytes
    PROVE  LET chunk == Read(buffer, cursor, max)
               missed == IF cursor = Start THEN chunk.dropped ELSE chunk.gap
               new == received \o ([i \in 1..missed |-> Lost] \o chunk.bytes)
           IN  /\ new \in Seq(Byte \cup {Lost})
               /\ chunk.next \in Nat /\ chunk.next = Len(new) /\ chunk.next <= Len(sent)
               /\ Stream!Extends(received, new)
<1> DEFINE chunk == Read(buffer, cursor, max)
           start == buffer.end - Len(buffer.bytes)
           missed == IF cursor = Start THEN chunk.dropped ELSE chunk.gap
           r == Len(received)
           n == Len(chunk.bytes)
<1>1. /\ buffer \in Window /\ cursor \in Nat \cup {Start} /\ max \in Nat \ {0}
      /\ IsWindow(buffer, sent)
  BY BoundsAssumption DEF Inv, TypeOK, WindowIsSuffix, BoundsAssumption
<1>2. /\ start \in Nat /\ chunk.dropped = start /\ chunk.gap \in Nat
      /\ chunk.start \in Nat /\ chunk.next \in Nat
      /\ chunk.start = IF cursor = Start THEN start ELSE cursor + chunk.gap
      /\ chunk.next = chunk.start + n
      /\ chunk.next <= buffer.end
      /\ chunk.bytes \in Seq(Byte)
      /\ \A i \in 1..n : chunk.bytes[i] = sent[chunk.start + i]
  BY <1>1, ReadFacts
<1>3. /\ sent \in Seq(Byte) /\ received \in Seq(Byte \cup {Lost})
      /\ r \in Nat /\ Len(sent) \in Nat
      /\ buffer.end <= Len(sent) /\ buffer.end \in Nat
  BY <1>1, LenProperties DEF Inv, TypeOK, IsWindow, Window
<1>4. n \in Nat
  BY <1>2, LenProperties
<1> HIDE DEF chunk, start
<1>5. missed \in Nat /\ r + missed = chunk.start
  <2>1. CASE cursor = Start
    <3>1. r = 0
      BY <2>1 DEF Inv, ClientInv
    <3> HIDE DEF r
    <3> QED BY <1>2, <2>1, <3>1
  <2>2. CASE cursor # Start
    <3>1. cursor = r
      BY <2>2 DEF Inv, ClientInv
    <3> HIDE DEF r
    <3> QED BY <1>2, <1>3, <2>2, <3>1
  <2> QED BY <2>1, <2>2
<1> HIDE DEF missed, r, n
<1>6. r + missed + n = chunk.next /\ r + missed + n <= Len(sent)
  BY <1>2, <1>3, <1>4, <1>5
<1>7. \A i \in 1..n : chunk.bytes[i] = sent[r + missed + i]
  BY <1>2, <1>5
<1> DEFINE lost == [i \in 1..missed |-> Lost]
           new == received \o (lost \o chunk.bytes)
<1>8. /\ new \in Seq(Byte \cup {Lost}) /\ Len(new) = r + missed + n
      /\ Stream!Extends(received, new)
  <2>1. /\ received \in Seq(Byte \cup {Lost}) /\ missed \in Nat
        /\ chunk.bytes \in Seq(Byte) /\ sent \in Seq(Byte)
    BY <1>2, <1>3, <1>5
  <2>2. Len(received) + missed + Len(chunk.bytes) <= Len(sent)
    BY <1>6 DEF r, n
  <2>3. \A i \in 1..Len(chunk.bytes) : chunk.bytes[i] = sent[Len(received) + missed + i]
    BY <1>7 DEF r, n
  <2>4. lost \in [1..missed -> {Lost}]
    OBVIOUS
  <2> DEFINE bytes == chunk.bytes
  <2>5. /\ bytes \in Seq(Byte) /\ Len(received) + missed + Len(bytes) <= Len(sent)
        /\ \A i \in 1..Len(bytes) : bytes[i] = sent[Len(received) + missed + i]
    BY <2>1, <2>2, <2>3
  <2> HIDE DEF lost, bytes
  <2>6. /\ received \o (lost \o bytes) \in Seq(Byte \cup {Lost})
        /\ Len(received \o (lost \o bytes)) = Len(received) + missed + Len(bytes)
        /\ Stream!Extends(received, received \o (lost \o bytes))
    <3>1. /\ received \in Seq(Byte \cup {Lost}) /\ missed \in Nat /\ sent \in Seq(Byte)
      BY <2>1
    <3> QED BY <2>4, <2>5, <3>1, GapAndBytesExtend
  <2> QED BY <2>6 DEF bytes, r, n
<1> HIDE DEF new
<1>9. chunk.next \in Nat /\ chunk.next = Len(new) /\ chunk.next <= Len(sent)
  BY <1>2, <1>6, <1>8
<1> QED BY <1>8, <1>9 DEF new, missed, chunk

\* Every step keeps the invariant.
LEMMA StepInv == Inv /\ [Next]_vars => Inv'
<1> SUFFICES ASSUME Inv, [Next]_vars PROVE Inv'
  OBVIOUS
<1> USE DEF Inv
<1>1. CASE ReaderAppends
  <2>1. PICK data \in Data : buffer' = Appended(buffer, data) /\ sent' = sent \o data
    BY <1>1 DEF ReaderAppends
  <2>2. data \in Seq(Byte) /\ buffer \in Window /\ saved \in Window /\ sent \in Seq(Byte)
    BY DataFacts DEF TypeOK
  <2>3. reading /\ UNCHANGED <<saved, reading, cursor, received>>
    BY <1>1 DEF ReaderAppends
  <2>4. /\ buffer' \in Window /\ IsWindow(buffer', sent') /\ buffer'.end = Len(sent')
        /\ IsWindow(saved, sent')
    BY <2>1, <2>2, <2>3, AppendKeepsWindow, WindowOfLonger DEF WindowIsSuffix
  <2>5. sent' \in Seq(Byte) /\ Len(sent') >= Len(sent)
    BY <2>1, <2>2, ConcatProperties, LenProperties
  <2>6. Len(received) \in Nat /\ Len(sent) \in Nat /\ Len(sent') \in Nat
    BY <2>2, <2>5, LenProperties DEF TypeOK
  <2>7. ClientInv'
    BY <2>3, <2>5, <2>6 DEF ClientInv
  <2> QED BY <2>3, <2>4, <2>5, <2>7 DEF TypeOK, WindowIsSuffix
<1>2. CASE ReaderEnds
  <2>1. /\ buffer' \in Window /\ buffer'.bytes = buffer.bytes /\ buffer'.end = buffer.end
        /\ reading' = FALSE /\ UNCHANGED <<saved, cursor, sent, received>>
    BY <1>2 DEF ReaderEnds, TypeOK, Window
  <2> QED BY <2>1 DEF TypeOK, WindowIsSuffix, IsWindow, ClientInv
<1>3. CASE ClientReads
  <2>1. PICK max \in 1..MaxBytes :
           LET chunk == Read(buffer, cursor, max)
               missed == IF cursor = Start THEN chunk.dropped ELSE chunk.gap
           IN  /\ received' = received \o ([i \in 1..missed |-> Lost] \o chunk.bytes)
               /\ cursor' = chunk.next
    BY <1>3 DEF ClientReads
  <2> DEFINE chunk == Read(buffer, cursor, max)
             missed == IF cursor = Start THEN chunk.dropped ELSE chunk.gap
             gap == [i \in 1..missed |-> Lost]
             more == gap \o chunk.bytes
  <2>2. Readable(buffer, cursor) /\ UNCHANGED <<buffer, saved, reading, sent>>
    BY <1>3 DEF ClientReads
  <2>3. /\ received \o more \in Seq(Byte \cup {Lost})
        /\ chunk.next \in Nat /\ chunk.next = Len(received \o more)
        /\ chunk.next <= Len(sent)
    BY <2>2, AnswerExtends
  <2>4. received' = received \o more /\ cursor' = chunk.next
    BY <2>1
  <2> HIDE DEF chunk, more
  <2>5. cursor' # Start
    BY <2>3, <2>4 DEF Start
  <2> QED BY <2>2, <2>3, <2>4, <2>5 DEF TypeOK, WindowIsSuffix, ClientInv
<1>4. CASE Checkpoint
  BY <1>4 DEF Checkpoint, TypeOK, WindowIsSuffix, ClientInv
<1>5. CASE HostRestart
  BY <1>5 DEF HostRestart, TypeOK, WindowIsSuffix, ClientInv
<1>6. CASE UNCHANGED vars
  BY <1>6 DEF vars, TypeOK, WindowIsSuffix, ClientInv
<1> QED BY <1>1, <1>2, <1>3, <1>4, <1>5, <1>6 DEF Next
-----------------------------------------------------------------------------
(* The theorems.                                                           *)

\* The invariant of every behaviour of the buffer.
THEOREM Invariance == Spec => []Inv
<1>1. Init => Inv
  BY InitInv
<1>2. Inv /\ [Next]_vars => Inv'
  BY StepInv
<1> QED BY <1>1, <1>2, PTL DEF Spec

\* The types of the window, its saved copy and the client's record.
THEOREM TypeCorrect == Spec => []TypeOK
<1>1. Inv => TypeOK
  BY DEF Inv
<1> QED BY <1>1, Invariance, PTL

\* The window and its saved copy are the end of the stream they claim to be.
THEOREM WindowsAreSuffixes == Spec => []WindowIsSuffix
<1>1. Inv => WindowIsSuffix
  BY DEF Inv
<1> QED BY <1>1, Invariance, PTL

\* Every answer a client may get carries the bytes of its cursors and the exact gap.
THEOREM EveryAnswerIsExact == Spec => []AnswersAreExact
<1>1. ASSUME Inv, NEW at \in 0..buffer.end, NEW max \in 1..MaxBytes
      PROVE  LET chunk == Read(buffer, at, max)
             IN  /\ chunk.start = at + chunk.gap
                 /\ chunk.next = chunk.start + Len(chunk.bytes)
                 /\ \A i \in 1..Len(chunk.bytes) :
                       chunk.bytes[i] = sent[chunk.start + i]
                 /\ chunk.gap > 0 => at < chunk.dropped
                 /\ chunk.bytes = <<>> => chunk.next = buffer.end
  <2>1. /\ buffer \in Window /\ IsWindow(buffer, sent) /\ max \in Nat \ {0}
        /\ buffer.end \in Nat
    BY <1>1, BoundsAssumption DEF Inv, TypeOK, WindowIsSuffix, Window, BoundsAssumption
  <2>2. at \in Nat /\ at # Start /\ at <= buffer.end
    BY <2>1 DEF Start
  <2>4. /\ buffer \in Window /\ IsWindow(buffer, sent) /\ max \in Nat \ {0}
        /\ at \in Nat \cup {Start} /\ Readable(buffer, at)
    BY <2>1, <2>2 DEF Readable
  <2> DEFINE chunk == Read(buffer, at, max)
  <2>3. /\ chunk.dropped = buffer.end - Len(buffer.bytes)
        /\ chunk.start = IF at = Start THEN chunk.dropped ELSE at + chunk.gap
        /\ chunk.gap > 0 => at < chunk.dropped
        /\ chunk.next = chunk.start + Len(chunk.bytes)
        /\ Len(chunk.bytes) = 0 => chunk.next = buffer.end
        /\ \A i \in 1..Len(chunk.bytes) : chunk.bytes[i] = sent[chunk.start + i]
    BY <2>4, ReadFacts
  <2> HIDE DEF chunk
  <2> QED BY <2>2, <2>3 DEF chunk
<1>2. Inv => AnswersAreExact
  BY <1>1 DEF AnswersAreExact
<1> QED BY <1>2, Invariance, PTL

\* The buffer implements the stream its clients are promised.
THEOREM BufferImplementsStream == Spec => ImplementsStream
<1>1. Init => Stream!Init
  BY DEF Init, Stream!Init
<1>2. Inv /\ Inv' /\ [Next]_vars => [Stream!Next]_(Stream!vars)
  <2> SUFFICES ASSUME Inv, Inv', [Next]_vars PROVE [Stream!Next]_(Stream!vars)
    OBVIOUS
  <2>1. CASE ReaderAppends
    <3>1. PICK data \in Data : sent' = sent \o data
      BY <2>1 DEF ReaderAppends
    <3>2. data \in Seq(Byte) /\ sent \in Seq(Byte)
      BY DataFacts DEF Inv, TypeOK
    <3>3. /\ sent' \in Seq(Byte) /\ Len(sent') = Len(sent) + Len(data)
          /\ \A i \in 1..(Len(sent) + Len(data)) :
                sent'[i] = IF i <= Len(sent) THEN sent[i] ELSE data[i - Len(sent)]
      BY <3>1, <3>2, ConcatProperties
    <3>4. Len(sent) \in Nat /\ Len(data) \in Nat
      BY <3>2, LenProperties
    <3>5. Len(sent) <= Len(sent') /\ \A i \in 1..Len(sent) : sent'[i] = sent[i]
      BY <3>3, <3>4
    <3>6. UNCHANGED received
      BY <2>1 DEF ReaderAppends
    <3> QED BY <3>3, <3>5, <3>6 DEF Stream!Next, Stream!Produce
  <2>2. CASE ClientReads
    <3>1. PICK max \in 1..MaxBytes :
             LET chunk == Read(buffer, cursor, max)
                 missed == IF cursor = Start THEN chunk.dropped ELSE chunk.gap
             IN  received' = received \o ([i \in 1..missed |-> Lost] \o chunk.bytes)
      BY <2>2 DEF ClientReads
    <3>2. Readable(buffer, cursor) /\ UNCHANGED sent
      BY <2>2 DEF ClientReads
    <3>3. received' \in Seq(Byte \cup {Lost}) /\ Stream!Extends(received, received')
      BY <3>1, <3>2, AnswerExtends
    <3> QED BY <3>2, <3>3 DEF Stream!Next, Stream!Receive
  <2>3. CASE ReaderEnds \/ Checkpoint \/ HostRestart \/ UNCHANGED vars
    BY <2>3 DEF ReaderEnds, Checkpoint, HostRestart, vars, Stream!vars
  <2> QED BY <2>1, <2>2, <2>3 DEF Next
<1>3. Spec => []Inv
  BY Invariance
<1> QED BY <1>1, <1>2, <1>3, PTL DEF Spec, ImplementsStream, Stream!Spec
=============================================================================
