---------------------------- MODULE DramAddress ----------------------------
(***************************************************************************)
(* DRAM_ADDRESS_MAPPING: where two addresses are in the DRAM.  The fields  *)
(* that select a channel, a bankgroup and a bank are permuted with the     *)
(* bits of the row, by the loop of swizzle_bits.                           *)
(***************************************************************************)
EXTENDS Integers, Sequences

(* Address slices (address.h, extent.h, msl/bits.h): a slice has an extent  *)
(* [upper, lower) of an address and the value of those bits.  A value is   *)
(* the set of the places of its ones, counted from the lower end of the    *)
(* slice, so that masks are intersections and xor is symmetric difference. *)
Extent(upper, lower) == [upper |-> upper, lower |-> lower]

Size(ext) == ext.upper - ext.lower

Smaller(x, y) == IF x < y THEN x ELSE y

Bitmask(upper, lower) == lower .. upper - 1

\* A shift to the right by n, or to the left by -n.
Shifted(value, n) == {b - n : b \in {b \in value : b >= n}}

Xor(x, y) == (x \ y) \cup (y \ x)

\* The constructor from a value: what does not fit is masked off.
OfValue(ext, value) ==
  [upper |-> ext.upper, lower |-> ext.lower, value |-> value \cap Bitmask(Size(ext), 0)]

\* The constructor from another slice; bits that it does not have are 0.
OfSlice(ext, s) ==
  OfValue(ext, Shifted(Shifted(s.value, - s.lower) \cap Bitmask(ext.upper, ext.lower), ext.lower))

RelativeExtent(super, sub) ==
  Extent(super.lower + Smaller(sub.upper, Size(super)), super.lower + Smaller(sub.lower, Size(super)))

Slice(s, sub) == OfValue(RelativeExtent(s, sub), Shifted(s.value, sub.lower))

\* make_contiguous_extent_set: extents of the given sizes, from bit 0 on.
Contiguous(sizes) ==
  LET lower[i \in 1 .. Len(sizes) + 1] == IF i = 1 THEN 0 ELSE lower[i - 1] + sizes[i - 1]
  IN  [i \in 1 .. Len(sizes) |-> Extent(lower[i + 1], lower[i])]

-----------------------------------------------------------------------------
CONSTANT Bits       \* the widths of the fields, from offset to row

VARIABLES addresses, asked, subextent, permuted, answers

vars == <<addresses, asked, subextent, permuted, answers>>

\* The order of the fields (SLICER_*_IDX).
Offset == 1  Channel == 2  Bankgroup == 3  Bank == 4  Column == 5  Rank == 6  Row == 7

BitsAssumption == Bits \in [Offset .. Row -> Nat]

AddressSlicer == Contiguous(Bits)
Field(a, f) == OfSlice(AddressSlicer[f], OfValue(Extent(AddressSlicer[Row].upper, 0), a))

\* What is asked of whom: the fields that swizzle_bits permutes, for each address.
Questions == << <<1, Channel>>, <<1, Bankgroup>>, <<1, Bank>>, <<2, Channel>>, <<2, Bankgroup>>, <<2, Bank>> >>
Ended == asked > Len(Questions)
Who == Questions[asked][1]
What == Questions[asked][2]

SegmentSize(f) == IF f = Channel THEN 1 ELSE Bits[Bankgroup] + Bits[Bank]
SegmentOffset(f) == IF f = Bank THEN Bits[Bankgroup] ELSE 0

Begin(n) ==
  /\ asked' = n
  /\ IF n > Len(Questions)
     THEN subextent' = Extent(0, 0) /\ permuted' = {}
     ELSE /\ subextent' = Extent(SegmentSize(Questions[n][2]), 0)
          /\ permuted' = Field(addresses[Questions[n][1]], Questions[n][2]).value

Init ==
  /\ addresses \in [1 .. 2 -> SUBSET (0 .. AddressSlicer[Row].upper - 1)]
  /\ asked = 1
  /\ subextent = Extent(SegmentSize(Channel), 0)
  /\ permuted = Field(addresses[1], Channel).value
  /\ answers = << >>

Segment(row) ==
  Slice(Slice(row, subextent), Extent(SegmentOffset(What) + Bits[What], SegmentOffset(What))).value

\* Mutant of Going: the loop stops before the end of an address is reached.
GoingBelow == subextent.upper <= Bits[Row] \div 2

Going == subextent.upper <= AddressSlicer[Row].upper

\* Mutant of Permute: bits are set and not flipped.
PermuteOr ==
  /\ ~ Ended
  /\ Going
  /\ permuted' = permuted \cup Segment(Field(addresses[Who], Row))
  /\ subextent' = Extent(subextent.upper + SegmentSize(What), subextent.upper)
  /\ UNCHANGED <<addresses, asked, answers>>

\* One turn of the loop of swizzle_bits.
Permute ==
  /\ ~ Ended
  /\ Going
  /\ permuted' = Xor(permuted, Segment(Field(addresses[Who], Row)))
  /\ subextent' = Extent(subextent.upper + SegmentSize(What), subextent.upper)
  /\ UNCHANGED <<addresses, asked, answers>>

Return ==
  /\ ~ Ended
  /\ ~ Going
  /\ answers' = Append(answers, permuted)
  /\ Begin(asked + 1)
  /\ UNCHANGED addresses

Next == Permute \/ Return

Spec == Init /\ [][Next]_vars

-----------------------------------------------------------------------------
\* Everything but the offset is equal.
IsCollision(a, b) ==
  LET upper(x) == {i \in x : i >= Bits[Offset]} IN upper(a) = upper(b)

PlaceOf(i) == <<SubSeq(answers, 3 * i - 2, 3 * i),
                [f \in {Column, Rank, Row} |-> Field(addresses[i], f).value]>>

\* Two addresses are at one place of the DRAM exactly if the queues take them for
\* requests of one block: the permutation loses no bit.
PlacesDistinct == Ended => (PlaceOf(1) = PlaceOf(2) <=> IsCollision(addresses[1], addresses[2]))

\* "channel bits should be xor'd with each row bit" (get_channel): a change of one
\* bit of the row, the last one too, moves a block to another channel.
RowSpreads ==
  Ended /\ Bits[Channel] > 0
    /\ (\E b \in Bitmask(AddressSlicer[Row].upper, AddressSlicer[Row].lower) : Xor(addresses[1], addresses[2]) = {b})
  => answers[1] # answers[4]
=============================================================================
