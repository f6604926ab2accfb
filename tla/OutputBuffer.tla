---------------------------- MODULE OutputBuffer ----------------------------
(***************************************************************************)
(* One output stream of an owned process (execution/buffer.rs): the reader *)
(* thread appends what the child writes to a window of the last `capacity' *)
(* bytes, a client reads by cursor, the host saves the window in its       *)
(* checkpoint and restores it after it was lost.                           *)
(*                                                                         *)
(* The bytes keep their values, because an answer must carry the right     *)
(* ones; base64 and the UTF-8 preview are left out.  `sent' and `received' *)
(* are history variables: what the child wrote, and what the client has    *)
(* been told of it.                                                        *)
(***************************************************************************)
EXTENDS OutputBounds, Integers, Sequences

Start == -1     \* the client passes no cursor

VARIABLES
    buffer,    \* [bytes, end, eof, error] of ByteBuffer
    saved,     \* the SavedBuffer in the checkpoint file
    reading,   \* whether the reader thread of the stream still runs
    cursor,    \* the cursor the client will pass: next_cursor of its last answer
    sent,      \* history: all bytes the child wrote
    received   \* history: for each cursor below `cursor', its byte or Lost

vars == <<buffer, saved, reading, cursor, sent, received>>

Empty == [bytes |-> <<>>, end |-> 0, eof |-> FALSE, error |-> FALSE]

Data == UNION {[1..n -> Byte] : n \in 1..MaxChunk}

Least(a, b) == IF a <= b THEN a ELSE b
Monus(a, b) == IF a >= b THEN a - b ELSE 0     \* saturating_sub
Drop(s, n) == SubSeq(s, n + 1, Len(s))

Init ==
    /\ buffer = Empty
    /\ saved = Empty
    /\ reading = TRUE
    /\ cursor = Start
    /\ sent = <<>>
    /\ received = <<>>

-----------------------------------------------------------------------------
(* ByteBuffer.                                                             *)

Appended(b, data) ==
    LET kept == Drop(data, Monus(Len(data), Retained))
    IN  [b EXCEPT !.end = @ + Len(data),
                  !.bytes = Drop(@, Monus(Len(@) + Len(kept), Retained)) \o kept]

\* Seeded fault: the skip is counted from the requested cursor, so that the
\* bytes after a gap are those of a later place.
ReadPastGap(b, at, max) ==
    LET start == b.end - Len(b.bytes)
        requested == IF at = Start THEN start ELSE at
        from == IF requested < start THEN start ELSE requested
        skip == Least(Len(b.bytes), IF requested < start THEN start - requested ELSE from - start)
        count == Least(max, Len(b.bytes) - skip)
    IN  [requested |-> requested, start |-> from, next |-> from + count,
         end |-> b.end, dropped |-> start, gap |-> Monus(start, requested),
         bytes |-> SubSeq(b.bytes, skip + 1, skip + count)]

Read(b, at, max) ==
    LET start == b.end - Len(b.bytes)
        requested == IF at = Start THEN start ELSE at
        from == IF requested < start THEN start ELSE requested
        skip == from - start
        count == Least(max, Len(b.bytes) - skip)
    IN  [requested |-> requested, start |-> from, next |-> from + count,
         end |-> b.end, dropped |-> start, gap |-> Monus(start, requested),
         bytes |-> SubSeq(b.bytes, skip + 1, skip + count)]

\* A cursor beyond the end of the stream is refused.
Readable(b, at) == at = Start \/ at <= b.end

\* What ByteBuffer::restore accepts of a checkpoint.
Restorable(s) == Len(s.bytes) <= Retained /\ s.end >= Len(s.bytes)

-----------------------------------------------------------------------------
(* The reader thread.                                                      *)

ReaderAppends ==
    /\ reading
    /\ \E data \in Data :
          /\ Len(sent) + Len(data) <= MaxBytes
          /\ buffer' = Appended(buffer, data)
          /\ sent' = sent \o data
    /\ UNCHANGED <<saved, reading, cursor, received>>

ReaderEnds ==
    /\ reading
    /\ reading' = FALSE
    /\ \/ buffer' = [buffer EXCEPT !.eof = TRUE]
       \/ buffer' = [buffer EXCEPT !.error = TRUE]
    /\ UNCHANGED <<saved, cursor, sent, received>>

(* The client follows next_cursor; the first answer has no gap_bytes, but  *)
(* dropped_bytes.                                                          *)

ClientReads ==
    /\ Readable(buffer, cursor)
    /\ \E max \in 1..MaxBytes :
          LET chunk == Read(buffer, cursor, max)
              missed == IF cursor = Start THEN chunk.dropped ELSE chunk.gap
          IN  /\ received' = received \o ([i \in 1..missed |-> Lost] \o chunk.bytes)
              /\ cursor' = chunk.next
    /\ UNCHANGED <<buffer, saved, reading, sent>>

(* The checkpoint, and the loss of the host: its successor restores the    *)
(* window, and nobody appends to it any more.                              *)

Checkpoint ==
    /\ saved' = buffer
    /\ UNCHANGED <<buffer, reading, cursor, sent, received>>

HostRestart ==
    /\ Restorable(saved)
    /\ buffer' = saved
    /\ reading' = FALSE
    /\ UNCHANGED <<saved, cursor, sent, received>>

Next == ReaderAppends \/ ReaderEnds \/ ClientReads \/ Checkpoint \/ HostRestart

Spec == Init /\ [][Next]_vars

-----------------------------------------------------------------------------
(* Properties.                                                             *)

Window == [bytes : Seq(Byte), end : Nat, eof : BOOLEAN, error : BOOLEAN]

TypeOK ==
    /\ buffer \in Window
    /\ saved \in Window
    /\ reading \in BOOLEAN
    /\ cursor \in Nat \cup {Start}
    /\ sent \in Seq(Byte)
    /\ received \in Seq(Byte \cup {Lost})

\* A window is the part of the stream that ends at its end, as long as it may be.
IsWindow(b, stream) ==
    /\ Len(b.bytes) = Least(Retained, b.end)
    /\ b.end <= Len(stream)
    /\ \A i \in 1..Len(b.bytes) : b.bytes[i] = stream[b.end - Len(b.bytes) + i]

\* The window and the saved window are parts of what the child wrote, at the
\* cursors they claim, and no byte is dropped early; while the reader runs the
\* window ends where the stream ends.
WindowIsSuffix ==
    /\ IsWindow(buffer, sent)
    /\ IsWindow(saved, sent)
    /\ reading => buffer.end = Len(sent)

\* Every answer, for every cursor a client may still hold and every size: the
\* bytes are those of the stream from start to next, and what the request asked
\* for before start is exactly the reported gap.
AnswersAreExact ==
    \A at \in 0..buffer.end, max \in 1..MaxBytes :
        LET chunk == Read(buffer, at, max)
        IN  /\ chunk.start = at + chunk.gap
            /\ chunk.next = chunk.start + Len(chunk.bytes)
            /\ \A i \in 1..Len(chunk.bytes) : chunk.bytes[i] = sent[chunk.start + i]
            /\ chunk.gap > 0 => at < chunk.dropped
            /\ chunk.bytes = <<>> => chunk.next = buffer.end

Stream == INSTANCE OutputStream WITH produced <- sent

\* A client that follows next_cursor is told of each byte the child wrote
\* exactly once, in order, or of its loss, whatever is dropped, saved and
\* restored in between.
ImplementsStream == Stream!Spec
=============================================================================
