---------------------------- MODULE TraceReader ----------------------------
(***************************************************************************)
(* A compressed trace on its way to the processor: the chunks that         *)
(* inf_streambuf::underflow reads and inflates, the read of inf_istream    *)
(* that collects them, and bulk_tracereader, which keeps one instruction   *)
(* back so that a branch can get the address of the next one as its target.*)
(*                                                                         *)
(* The file is a sequence of units, each with the instructions that become *)
(* known with it; the last is the trailer of the format, which the         *)
(* inflater takes when everything before it was given out.                 *)
(***************************************************************************)
EXTENDS Queues, SequencesExt

CONSTANTS
  Files,          \* what a file can be
  Chunk,          \* units read at once; the sizes of in_buf and out_buf are both CHUNK
  OutSize,        \* instructions that fit in out_buf
  BufferSize      \* instructions of one read and the one kept back; 128 in the code

VARIABLES
  file, src, fail,          \* the file, the next unit, and that a read was short
  in, pending, out,         \* in_buf, inside the inflater, what is left in out_buf
  got, reading, eof,        \* inf_istream: the instructions of this read; its eof
  buffer, delivered

vars == <<file, src, fail, in, pending, out, got, reading, eof, buffer, delivered>>

RefreshThresh == 1
Inflated(units) == FlattenSeq(units)
Content(f) == Inflated(f)

Init ==
  /\ file \in Files /\ src = 1 /\ fail = FALSE
  /\ in = << >> /\ pending = << >> /\ out = << >>
  /\ got = << >> /\ reading = FALSE /\ eof = FALSE
  /\ buffer = << >> /\ delivered = << >>

\* apply_branch_target for each instruction of the buffer that has a next one.
WithTargets(q) ==
  [i \in 1 .. Len(q) |->
     IF i = Len(q) THEN q[i]
     ELSE [q[i] EXCEPT !.target = IF q[i].taken THEN q[i + 1].ip ELSE 0]]

Eof == eof /\ Len(buffer) <= RefreshThresh

\* Mutant of Fresh: nothing is kept back.
FreshAny(q) == q # << >>

Fresh(q) == Len(q) > RefreshThresh

\* csimCore asks for an instruction unless the trace is at its end.
Call ==
  /\ ~ reading /\ ~ Eof
  /\ IF Fresh(buffer)
     THEN /\ delivered' = Append(delivered, Head(buffer))
          /\ buffer' = Tail(buffer)
          /\ UNCHANGED <<got, reading>>
     ELSE /\ reading' = TRUE /\ got' = << >>
          /\ UNCHANGED <<buffer, delivered>>
  /\ UNCHANGED <<file, src, fail, in, pending, out, eof>>

Count == BufferSize - RefreshThresh

\* The read ends: with Count instructions or at the end of the stream.
Refill(end, q) ==
  LET filled == WithTargets(buffer \o q)
  IN  /\ eof' = end
      /\ reading' = FALSE /\ got' = << >>
      /\ delivered' = Append(delivered, Head(filled))
      /\ buffer' = Tail(filled)

Take ==
  LET n == LowerOf(Len(out), Count - Len(got))
      taken == got \o SubSeq(out, 1, n)
  IN  /\ reading /\ out # << >>
      /\ out' = SubSeq(out, n + 1, Len(out))
      /\ IF Len(taken) = Count
         THEN Refill(FALSE, taken)
         ELSE got' = taken /\ UNCHANGED <<reading, eof, buffer, delivered>>
      /\ UNCHANGED <<file, src, fail, in, pending>>

Underflow == reading /\ out = << >>

\* Mutant of NoInput: a short read of the file is taken for its end.
NoInputShort == fail

NoInput == in = << >> /\ fail

\* "Check to see if the input stream is sane"
Ends ==
  /\ Underflow
  /\ NoInput
  /\ Refill(TRUE, got)
  /\ UNCHANGED <<file, src, fail, in, pending, out>>

\* Read data from the stream.
ReadSource ==
  LET n == LowerOf(Chunk, Len(file) + 1 - src)
  IN  /\ Underflow
      /\ in = << >> /\ ~ fail
      /\ in' = SubSeq(file, src, src + n - 1)
      /\ src' = src + n
      /\ fail' = (n < Chunk)
      /\ IF n = 0 THEN Refill(TRUE, got) ELSE UNCHANGED <<got, reading, eof, buffer, delivered>>
      /\ UNCHANGED <<file, pending, out>>

\* Mutant of Inflate: it is not called again for what is still inside the inflater.
InflateMore(m) ==
  LET all == Inflated(SubSeq(in, 1, m))
  IN  /\ Underflow
      /\ in # << >> /\ m \in 1 .. Len(in)
      /\ Len(pending) < OutSize
      /\ out' = SubSeq(pending \o all, 1, LowerOf(OutSize, Len(pending \o all)))
      /\ pending' = SubSeq(pending \o all, LowerOf(OutSize, Len(pending \o all)) + 1, Len(pending \o all))
      /\ in' = SubSeq(in, m + 1, Len(in))
      /\ UNCHANGED <<file, src, fail, got, reading, eof, buffer, delivered>>

\* One call of inflate, which takes m units: it goes on to the next while there is
\* room, and to the trailer when it has given out everything else.
Inflate(m) ==
  LET before == pending \o Inflated(SubSeq(in, 1, m - 1))
      all == pending \o Inflated(SubSeq(in, 1, m))
  IN  /\ Underflow
      /\ in # << >> /\ m <= Len(in)
      /\ m > 0 => Len(before) < OutSize \/ (Len(before) = OutSize /\ m = Len(in) /\ src > Len(file))
      /\ m = 0 => pending # << >>
      /\ out' = SubSeq(all, 1, LowerOf(OutSize, Len(all)))
      /\ pending' = SubSeq(all, LowerOf(OutSize, Len(all)) + 1, Len(all))
      /\ in' = SubSeq(in, m + 1, Len(in))
      /\ UNCHANGED <<file, src, fail, got, reading, eof, buffer, delivered>>

Next == Call \/ Take \/ Ends \/ ReadSource \/ \E m \in 0 .. Chunk : Inflate(m)

Spec == Init /\ [][Next]_vars

-----------------------------------------------------------------------------
\* Whatever the chunks and reads are cut into, the processor gets the instructions
\* of the trace in order, and a taken branch the address of the next as its target.
InOrder ==
  \A i \in 1 .. Len(delivered) :
    LET want == Content(file)
    IN  /\ i <= Len(want)
        /\ delivered[i].ip = want[i].ip
        /\ delivered[i].target = IF want[i].taken /\ i < Len(want) THEN want[i + 1].ip ELSE 0

\* The trace is not at its end before all of it, but for the instruction that is
\* kept back, is delivered.
AllButOne == Eof => Len(delivered) >= Len(Content(file)) - RefreshThresh

\* The end of the trace is found.
FindsEnd == <>Eof
=============================================================================
