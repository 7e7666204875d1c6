----------------------------- MODULE HelpersProofs -----------------------------
(***************************************************************************)
(* What Update has placed is aligned, tight and stays, for any sizes and   *)
(* alignments and however calls of AddSection and Update follow each other;*)
(* the checked arithmetic is exact, in words of any width; names and       *)
(* formats, and NumPy files of any shape, read back.                       *)
(***************************************************************************)
EXTENDS Helpers, ByteRangesProofs, SequenceTheorems

Added == [offset : Nat, size : SectionSizes, alignment : Alignments, padding : Nat]

End(section) == section.offset + section.size

\* Where t starts, and the padding s has, when t was placed after s.
Follows(s, t) ==
  /\ s.padding = PaddingBefore(t.alignment, End(s))
  /\ t.offset = End(s) + s.padding

\* Some Update came as far as section p, this one or one before it.
PlacedUpTo(p) ==
  /\ current <= p
  /\ updated => p = Len(sections)
  /\ \A i \in 1 .. p : i > 1 => Follows(sections[i - 1], sections[i])
  /\ \A i \in 1 .. Len(sections) : i = 1 \/ i > p => sections[i].offset = 0

\* A section and what comes before the next one have this much room.
Room == U64Max \div MaxSections

TableInv ==
  /\ sections \in Seq(Added)
  /\ Len(sections) <= MaxSections
  /\ current \in 0 .. Len(sections)
  /\ updated \in BOOLEAN
  /\ \A i \in 1 .. Len(sections) : sections[i].offset <= (i - 1) * Room
  /\ \E p \in 0 .. Len(sections) : PlacedUpTo(p)

--------------------------------------------------------------------------------
\* What SectionAssumption says of one alignment and one size.
LEMMA ArgumentLemma ==
  ASSUME NEW n \in SectionSizes, NEW a \in Alignments
  PROVE  /\ n \in U64 /\ n \in Nat
         /\ a \in U64 \ {0} /\ a \in Nat \ {0}
         /\ (U64Max + 1) % a = 0
<1>1. n \in U64 /\ a \in U64 \ {0} /\ (U64Max + 1) % a = 0
  BY SectionAssumption, Zenon
<1>2. QED
  BY <1>1, WordAssumption DEF U64

\* MaxSections sections, each with room for itself and its padding, fit.
LEMMA RoomLemma ==
  ASSUME MaxSections > 0
  PROVE  /\ Room \in Nat
         /\ \A k \in 0 .. MaxSections : k * Room <= U64Max
         /\ \A n \in SectionSizes, a \in Alignments : n + a <= Room
<1>1. U64Max \in Nat /\ MaxSections \in Nat \ {0}
  BY WordAssumption, SectionAssumption
<1>2. /\ Room \in Int /\ U64Max = Room * MaxSections + (U64Max % MaxSections)
      /\ U64Max % MaxSections \in 0 .. MaxSections - 1
  BY <1>1, DivLemma DEF Room
<1>3. Room \in Nat /\ Room * MaxSections <= U64Max
  BY <1>1, <1>2
<1>4. ASSUME NEW k \in 0 .. MaxSections PROVE k * Room <= U64Max
  BY <1>1, <1>3
<1>5. ASSUME NEW n \in SectionSizes, NEW a \in Alignments PROVE n + a <= Room
  <2>1. n \in Nat /\ a \in Nat /\ MaxSections * (n + a) <= U64Max
    BY <1>1, SectionAssumption DEF U64
  <2>2. SUFFICES ASSUME n + a >= Room + 1 PROVE FALSE
    BY <1>3, <2>1
  <2>3. MaxSections * (n + a) >= MaxSections * (Room + 1)
    BY <1>1, <1>3, <2>1, <2>2
  <2>4. QED
    BY <1>1, <1>2, <1>3, <2>1, <2>3
<1>6. QED
  BY <1>3, <1>4, <1>5

\* One iteration of Update, on sections that leave room for it: it pads s to
\* the alignment of t, places t there, and no sum wraps.
LEMMA IterationLemma ==
  ASSUME NEW s \in Added, NEW t \in Added, NEW k \in Nat,
         k < MaxSections, s.offset <= (k - 1) * Room, k > 0
  PROVE  LET padded == UpdatePadding(s, t)
             placed == UpdateOffset(t, padded)
         IN  /\ padded = [s EXCEPT !.padding = PaddingBefore(t.alignment, End(s))]
             /\ padded \in Added
             /\ placed = [t EXCEPT !.offset = End(s) + PaddingBefore(t.alignment, End(s))]
             /\ placed \in Added
             /\ placed.offset <= k * Room
             /\ Follows(padded, placed)
<1> DEFINE a == t.alignment
           pad == PaddingBefore(a, End(s))
<1>1. /\ U64Max \in Nat /\ MaxSections \in Nat /\ Room \in Nat
      /\ k * Room <= U64Max
      /\ s.size + a <= Room
  BY RoomLemma, WordAssumption, SectionAssumption DEF Added
<1>2. /\ s.offset \in Nat /\ s.size \in Nat
      /\ a \in U64 \ {0} /\ a \in Nat /\ (U64Max + 1) % a = 0
  <2>1. s.offset \in Nat /\ s.size \in SectionSizes /\ a \in Alignments
    BY DEF Added
  <2>2. QED
    BY <2>1, ArgumentLemma
<1>3. (k - 1) * Room + Room = k * Room
  BY <1>1
<1>4. End(s) \in Nat /\ End(s) + a <= k * Room
  BY <1>1, <1>2, <1>3 DEF End
<1>5. End(s) \in U64
  BY <1>1, <1>2, <1>4 DEF U64
<1>6. pad \in Nat /\ pad <= a - 1
  BY <1>2, <1>5, PaddingLemma
<1>7. EndOfData(s) = End(s)
  BY <1>1, <1>5 DEF EndOfData, End, Wrap, U64
<1>8. UpdatePadding(s, t) = [s EXCEPT !.padding = pad]
  BY <1>7 DEF UpdatePadding
<1> DEFINE padded == [s EXCEPT !.padding = pad]
<1>9. /\ padded \in Added
      /\ padded.offset = s.offset /\ padded.size = s.size /\ padded.padding = pad
  BY <1>6 DEF Added
<1>10. NextOffset(padded) = End(s) + pad
  <2>1. EndOfData(padded) = End(s) /\ padded.padding = pad
    BY <1>7, <1>9 DEF EndOfData
  <2>2. End(s) + pad \in U64
    <3> DEFINE all == k * Room
    <3>1. all <= U64Max /\ End(s) + a <= all /\ all \in Nat
      BY <1>1, <1>4
    <3> HIDE DEF all, pad, a
    <3>2. QED
      BY <1>1, <1>2, <1>4, <1>6, <3>1 DEF U64
  <2> HIDE DEF padded, pad
  <2>3. QED
    BY <1>1, <2>1, <2>2 DEF NextOffset, Wrap, U64
<1>11. UpdateOffset(t, padded) = [t EXCEPT !.offset = End(s) + pad]
  BY <1>10 DEF UpdateOffset
<1>12. /\ [t EXCEPT !.offset = End(s) + pad] \in Added
       /\ [t EXCEPT !.offset = End(s) + pad].offset = End(s) + pad
       /\ [t EXCEPT !.offset = End(s) + pad].alignment = a
       /\ End(s) + pad <= k * Room
  BY <1>1, <1>2, <1>4, <1>6 DEF Added
<1>13. Follows(padded, [t EXCEPT !.offset = End(s) + pad])
  BY <1>9, <1>12 DEF Follows, End
<1>14. QED
  BY <1>8, <1>9, <1>11, <1>12, <1>13

--------------------------------------------------------------------------------
LEMMA InitInv == Init => TableInv
<1> SUFFICES ASSUME Init PROVE TableInv
  OBVIOUS
<1>1. sections \in Seq(Added) /\ Len(sections) = 0
  BY EmptySeq DEF Init
<1>2. PlacedUpTo(0)
  BY <1>1 DEF Init, PlacedUpTo
<1>3. QED
  <2>1. 0 \in 0 .. Len(sections) /\ Len(sections) <= MaxSections
    BY <1>1, SectionAssumption
  <2>2. \A i \in 1 .. Len(sections) : FALSE
    BY <1>1
  <2>3. QED
    BY <1>1, <1>2, <2>1, <2>2 DEF Init, TableInv

\* A section added is not placed, and nothing is when it is the first.
LEMMA AddSectionStep ==
  ASSUME TableInv, NEW size \in SectionSizes, NEW alignment \in Alignments,
         AddSection(size, alignment)
  PROVE  TableInv'
<1> DEFINE new == SectionIndex(size, alignment)
           n == Len(sections)
<1>1. new \in Added /\ new.offset = 0
  BY DEF SectionIndex, Added
<1>2. /\ sections' = Append(sections, new) /\ updated' = FALSE /\ current' = 0 /\ n < MaxSections
      /\ sections \in Seq(Added) /\ n \in Nat
  BY DEF AddSection, TableInv
<1>3. /\ sections' \in Seq(Added) /\ Len(sections') = n + 1
      /\ \A i \in 1 .. n : sections'[i] = sections[i]
      /\ sections'[n + 1] = new
  BY <1>1, <1>2
<1>4. PICK p \in 0 .. n : PlacedUpTo(p)
  BY DEF TableInv
<1>5. PlacedUpTo(p)'
  <2>1. ASSUME NEW i \in 1 .. p, i > 1 PROVE Follows(sections'[i - 1], sections'[i])
    <3>1. Follows(sections[i - 1], sections[i]) /\ i \in 1 .. n /\ i - 1 \in 1 .. n
      BY <1>2, <1>4, <2>1 DEF PlacedUpTo
    <3>2. QED
      BY <1>3, <3>1
  <2>2. ASSUME NEW i \in 1 .. n + 1, i = 1 \/ i > p PROVE sections'[i].offset = 0
    <3>1. CASE i = n + 1
      BY <1>1, <1>3, <3>1
    <3>2. CASE i # n + 1
      BY <1>2, <1>3, <1>4, <2>2, <3>2 DEF PlacedUpTo
    <3>3. QED
      BY <3>1, <3>2
  <2>3. QED
    BY <1>2, <1>3, <2>1, <2>2 DEF PlacedUpTo
<1>6. ASSUME NEW i \in 1 .. n + 1 PROVE sections'[i].offset <= (i - 1) * Room
  <2>1. CASE i = n + 1
    <3>1. Room \in Nat
      BY <1>2, RoomLemma, SectionAssumption
    <3>2. (i - 1) * Room >= 0
      BY <1>2, <3>1
    <3>3. QED
      BY <1>1, <1>3, <2>1, <3>2
  <2>2. CASE i # n + 1
    BY <1>2, <1>3, <2>2 DEF TableInv
  <2>3. QED
    BY <2>1, <2>2
<1>7. QED
  <2>1. Len(sections') <= MaxSections /\ p \in 0 .. Len(sections') /\ 0 \in 0 .. Len(sections')
    BY <1>2, <1>3, SectionAssumption
  <2>2. QED
    BY <1>2, <1>3, <1>5, <1>6, <2>1 DEF TableInv

\* The first section is where it has to be.
LEMMA BeginUpdateStep ==
  ASSUME TableInv, BeginUpdate
  PROVE  TableInv'
<1>1. /\ sections' = sections /\ updated' = updated /\ current' = 1
      /\ Len(sections) \in Nat /\ Len(sections) >= 1
  BY EmptySeq DEF BeginUpdate, TableInv
<1>2. PICK p \in 0 .. Len(sections) : PlacedUpTo(p)
  BY DEF TableInv
<1>3. CASE p = 0
  <2>1. PlacedUpTo(1)'
    BY <1>1, <1>2, <1>3 DEF PlacedUpTo
  <2>2. QED
    BY <1>1, <2>1 DEF TableInv
<1>4. CASE p # 0
  <2>1. PlacedUpTo(p)'
    BY <1>1, <1>2, <1>4 DEF PlacedUpTo
  <2>2. QED
    BY <1>1, <2>1 DEF TableInv
<1>5. QED
  BY <1>3, <1>4

\* An iteration changes nothing that was placed, or places one more section.
LEMMA UpdateSectionLemma ==
  ASSUME TableInv, UpdateSection, NEW p \in 0 .. Len(sections), PlacedUpTo(p)
  PROVE  /\ current < p => sections' = sections
         /\ current >= p => PlacedUpTo(p + 1)' /\ p = current
         /\ sections' \in Seq(Added) /\ Len(sections') = Len(sections)
         /\ \A i \in 1 .. Len(sections) : sections'[i].offset <= (i - 1) * Room
         /\ current \in 1 .. Len(sections) - 1
         /\ \A i \in 1 .. Len(sections) : i # current + 1 => sections'[i].offset = sections[i].offset
<1> DEFINE n == Len(sections)
           c == current
           s == sections[c]
           t == sections[c + 1]
           padded == UpdatePadding(s, t)
           placed == UpdateOffset(t, padded)
<1>1. /\ sections \in Seq(Added) /\ n \in Nat /\ n <= MaxSections /\ MaxSections \in Nat
      /\ c \in 1 .. n - 1
      /\ sections' = [sections EXCEPT ![c] = padded, ![c + 1] = UpdateOffset(@, padded)]
      /\ current' = c + 1 /\ updated' = updated
  BY SectionAssumption DEF UpdateSection, TableInv
<1>2. s \in Added /\ t \in Added /\ s.offset <= (c - 1) * Room
  BY <1>1 DEF TableInv
<1>3. /\ padded = [s EXCEPT !.padding = PaddingBefore(t.alignment, End(s))]
      /\ c \in Nat /\ c < MaxSections
      /\ placed = [t EXCEPT !.offset = End(s) + PaddingBefore(t.alignment, End(s))]
      /\ padded \in Added /\ placed \in Added
      /\ placed.offset <= c * Room
      /\ Follows(padded, placed)
  <2>1. c \in Nat /\ c < MaxSections /\ c > 0
    BY <1>1
  <2>2. QED
    BY <1>2, <2>1, IterationLemma
<1> HIDE DEF padded, placed
<1>4. /\ Len(sections') = n
      /\ sections'[c] = padded
      /\ sections'[c + 1] = UpdateOffset(t, padded)
      /\ \A i \in 1 .. n : i # c /\ i # c + 1 => sections'[i] = sections[i]
  BY <1>1
<1>5. sections'[c + 1] = placed
  BY <1>4 DEF placed
<1>6. sections' \in Seq(Added)
  <2>1. sections \in [1 .. n -> Added] /\ c \in 1 .. n /\ c + 1 \in 1 .. n
    BY <1>1
  <2>2. sections' \in [1 .. n -> Added]
    <3>1. sections' = [sections EXCEPT ![c] = padded, ![c + 1] = sections'[c + 1]]
      BY <1>1, <1>4, <2>1
    <3>2. QED
      BY <1>3, <1>5, <2>1, <3>1
  <2>3. QED
    BY <1>1, <2>2
<1>7. /\ padded.offset = s.offset /\ padded.size = s.size /\ padded.alignment = s.alignment
      /\ placed.size = t.size /\ placed.alignment = t.alignment /\ placed.padding = t.padding
  BY <1>2, <1>3 DEF Added
<1>8. ASSUME c < p PROVE sections' = sections
  <2>1. Follows(s, t)
    <3>1. c + 1 \in 1 .. p /\ c + 1 > 1 /\ (c + 1) - 1 = c
      BY <1>1, <1>8
    <3>2. QED
      BY <3>1 DEF PlacedUpTo
  <2>2. padded = s
    BY <1>2, <1>3, <2>1 DEF Follows, Added
  <2>3. placed = t
    BY <1>2, <1>3, <2>1 DEF Follows, Added
  <2>4. \A i \in 1 .. n : sections'[i] = sections[i]
    BY <1>4, <1>5, <2>2, <2>3
  <2>5. QED
    BY <1>1, <1>4, <1>6, <2>4
<1>9. ASSUME c >= p PROVE PlacedUpTo(p + 1)' /\ p = c
  <2>1. p = c /\ ~updated
    BY <1>1, <1>9 DEF PlacedUpTo
  <2>2. ASSUME NEW i \in 1 .. p + 1, i > 1 PROVE Follows(sections'[i - 1], sections'[i])
    <3>1. CASE i = c + 1
      <4>1. Follows(sections'[c], sections'[c + 1]) /\ i - 1 = c
        BY <1>1, <1>3, <1>4, <1>5, <3>1
      <4>2. QED
        BY <3>1, <4>1
    <3>2. CASE i = c
      <4>1. Follows(sections[i - 1], s) /\ sections'[i - 1] = sections[i - 1]
        <5>1. i \in 1 .. p /\ i > 1 /\ i - 1 \in 1 .. n /\ i - 1 # c /\ i - 1 # c + 1
          BY <1>1, <2>1, <2>2, <3>2
        <5>2. QED
          BY <1>4, <3>2, <5>1 DEF PlacedUpTo
      <4>2. QED
        BY <1>4, <1>7, <3>2, <4>1 DEF Follows
    <3>3. CASE i < c
      <4>1. /\ Follows(sections[i - 1], sections[i])
            /\ sections'[i - 1] = sections[i - 1] /\ sections'[i] = sections[i]
        <5>1. /\ i \in 1 .. p /\ i > 1 /\ i - 1 \in 1 .. n /\ i - 1 # c /\ i - 1 # c + 1
              /\ i \in 1 .. n /\ i # c /\ i # c + 1
          BY <1>1, <2>1, <2>2, <3>3
        <5>2. QED
          BY <1>4, <5>1 DEF PlacedUpTo
      <4>2. QED
        BY <4>1
    <3>4. QED
      BY <1>1, <2>1, <3>1, <3>2, <3>3
  <2>3. ASSUME NEW i \in 1 .. n, i = 1 \/ i > p + 1 PROVE sections'[i].offset = 0
    <3>1. i \in 1 .. n /\ i # c + 1 /\ (i = 1 \/ i > p)
      BY <1>1, <2>1, <2>3
    <3>2. sections[i].offset = 0
      BY <3>1 DEF PlacedUpTo
    <3>3. CASE i = c
      BY <1>4, <1>7, <3>2, <3>3
    <3>4. CASE i # c
      BY <1>4, <3>1, <3>2, <3>4
    <3>5. QED
      BY <3>3, <3>4
  <2>4. QED
    <3>1. current' <= p + 1 /\ ~updated'
      BY <1>1, <2>1
    <3>2. QED
      BY <1>4, <2>1, <2>2, <2>3, <3>1 DEF PlacedUpTo
<1>10. ASSUME NEW i \in 1 .. n PROVE sections'[i].offset <= (i - 1) * Room
  <2>1. sections[i].offset <= (i - 1) * Room
    BY DEF TableInv
  <2>2. CASE i = c + 1
    <3>1. i - 1 = c
      BY <1>1, <2>2
    <3>2. QED
      BY <1>3, <1>5, <2>2, <3>1
  <2>3. CASE i # c + 1
    BY <1>4, <1>7, <2>1, <2>3
  <2>4. QED
    BY <2>2, <2>3
<1>11. QED
  BY <1>1, <1>4, <1>6, <1>7, <1>8, <1>9, <1>10

LEMMA UpdateSectionStep ==
  ASSUME TableInv, UpdateSection
  PROVE  TableInv'
<1>1. PICK p \in 0 .. Len(sections) : PlacedUpTo(p)
  BY DEF TableInv
<1>2. /\ sections' \in Seq(Added) /\ Len(sections') = Len(sections) /\ Len(sections) \in Nat
      /\ current' = current + 1 /\ updated' = updated
      /\ current \in 1 .. Len(sections) - 1
      /\ \A i \in 1 .. Len(sections) : sections'[i].offset <= (i - 1) * Room
  BY <1>1, UpdateSectionLemma DEF UpdateSection, TableInv
<1>3. \E q \in 0 .. Len(sections) : PlacedUpTo(q)'
  <2>1. CASE current < p
    <3>1. sections' = sections
      BY <1>1, <2>1, UpdateSectionLemma
    <3>2. PlacedUpTo(p)'
      BY <1>1, <1>2, <2>1, <3>1 DEF PlacedUpTo
    <3>3. QED
      BY <3>2
  <2>2. CASE current >= p
    <3>1. PlacedUpTo(p + 1)' /\ p = current
      BY <1>1, <2>2, UpdateSectionLemma
    <3>2. QED
      BY <1>2, <3>1
  <2>3. QED
    BY <1>1, <1>2, <2>1, <2>2
<1>4. QED
  BY <1>2, <1>3 DEF TableInv

\* At the end of the loop every section was placed.
LEMMA EndUpdateStep ==
  ASSUME TableInv, EndUpdate
  PROVE  TableInv'
<1>1. /\ sections' = sections /\ updated' = TRUE /\ current' = 0
      /\ current = Len(sections) /\ Len(sections) \in Nat
  BY DEF EndUpdate, TableInv
<1>2. PICK p \in 0 .. Len(sections) : PlacedUpTo(p)
  BY DEF TableInv
<1>3. PlacedUpTo(p)'
  BY <1>1, <1>2 DEF PlacedUpTo
<1>4. QED
  BY <1>1, <1>3 DEF TableInv

LEMMA StutterStep ==
  ASSUME TableInv, UNCHANGED vars
  PROVE  TableInv'
BY DEF TableInv, PlacedUpTo, vars

LEMMA NextInv == TableInv /\ [Next]_vars => TableInv'
BY AddSectionStep, BeginUpdateStep, UpdateSectionStep, EndUpdateStep, StutterStep DEF Next

LEMMA TableInvariant == Spec => []TableInv
BY InitInv, NextInv, PTL DEF Spec

--------------------------------------------------------------------------------
\* Update (section_index_table.hpp) places each section at the next multiple
\* of its alignment after the one before it, the last one, which no assertion
\* looks at, included: aligned, without overlap, and with less than an
\* alignment between them.
THEOREM SectionsAreLaidOut == Spec => []SectionsLaidOut
<1>1. TableInv => SectionsLaidOut
  <2> SUFFICES ASSUME TableInv, NEW i \in Placed
               PROVE  /\ IsAligned(sections[i])
                      /\ i > 1 =>
                           LET end == sections[i - 1].offset + sections[i - 1].size
                           IN  /\ sections[i].offset = end + sections[i - 1].padding
                               /\ sections[i].offset \in end .. end + sections[i].alignment - 1
    BY DEF SectionsLaidOut, PlacedAligned, PlacedTight
  <2>1. PICK p \in 0 .. Len(sections) : PlacedUpTo(p)
    BY DEF TableInv
  <2>2. i \in 1 .. p /\ i \in 1 .. Len(sections) /\ Len(sections) \in Nat
    BY <2>1 DEF Placed, PlacedUpTo, TableInv
  <2> DEFINE a == sections[i].alignment
  <2>3. a \in U64 \ {0} /\ a \in Nat \ {0} /\ (U64Max + 1) % a = 0
    <3>1. sections[i] \in Added
      BY <2>2 DEF TableInv
    <3>2. a \in Alignments /\ sections[i].size \in SectionSizes
      BY <3>1 DEF Added
    <3>3. QED
      BY <3>2, ArgumentLemma
  <2>4. CASE i = 1
    <3>1. sections[i].offset = 0
      BY <2>1, <2>2, <2>4 DEF PlacedUpTo
    <3>2. 0 % a = 0
      BY <2>3
    <3>3. QED
      BY <2>4, <3>1, <3>2 DEF IsAligned
  <2>5. CASE i > 1
    <3> DEFINE s == sections[i - 1]
               end == s.offset + s.size
    <3>1. Follows(s, sections[i]) /\ i - 1 \in 1 .. Len(sections)
      BY <2>1, <2>2, <2>5 DEF PlacedUpTo
    <3>2. s \in Added /\ s.offset <= (i - 2) * Room
      BY <2>2, <3>1 DEF TableInv
    <3>3. /\ s.offset \in Nat /\ s.size \in Nat /\ end \in Nat
          /\ s.size \in SectionSizes /\ a \in Alignments /\ a \in Nat /\ a > 0
      <4>1. s.offset \in Nat /\ s.size \in SectionSizes /\ sections[i] \in Added
        <5>1. sections[i] \in Added
          BY <2>2 DEF TableInv
        <5>2. QED
          BY <3>2, <5>1 DEF Added
      <4>2. a \in Alignments
        BY <4>1 DEF Added
      <4>3. QED
        BY <4>1, <4>2, ArgumentLemma
    <3>4. end \in U64
      <4>1. /\ MaxSections \in Nat /\ MaxSections > 0 /\ i - 1 \in 0 .. MaxSections
        BY <2>2, <2>5, SectionAssumption DEF TableInv
      <4>2. /\ Room \in Nat /\ (i - 1) * Room <= U64Max /\ s.size + a <= Room
        BY <3>3, <4>1, RoomLemma
      <4>3. (i - 1) * Room = (i - 2) * Room + Room
        BY <2>2, <4>2
      <4>4. QED
        <5> DEFINE before == (i - 2) * Room
                   all == (i - 1) * Room
        <5>1. /\ all <= U64Max /\ all = before + Room /\ s.offset <= before
              /\ all \in Int /\ before \in Int /\ Room \in Nat /\ s.size + a <= Room
          BY <2>2, <3>2, <4>2, <4>3
        <5> HIDE DEF before, all
        <5>2. end <= before + Room
          <6>1. ASSUME NEW o \in Nat, NEW n \in Nat, NEW b \in Int, NEW r \in Nat, NEW m \in Nat,
                       o <= b, n + m <= r
                PROVE  o + n <= b + r
            BY <6>1
          <6>2. QED
            BY <3>3, <5>1, <6>1
        <5>3. end <= U64Max
          BY <2>2, <3>3, <5>1, <5>2, WordAssumption
        <5>4. QED
          BY <3>3, <5>3, WordAssumption DEF U64
    <3>5. /\ sections[i].offset = end + s.padding
          /\ s.padding \in 0 .. a - 1
          /\ sections[i].offset % a = 0
      BY <2>3, <3>1, <3>4, PaddingLemma DEF Follows, End
    <3>6. QED
      <4>1. sections[i].offset \in end .. end + a - 1
        BY <2>2, <3>3, <3>5
      <4>2. QED
        BY <3>5, <4>1 DEF IsAligned
  <2>6. QED
    BY <2>2, <2>4, <2>5
<1>2. QED
  BY <1>1, TableInvariant, PTL

\* What was read from a section once Update placed it stays true, however
\* many sections are added and placed after it.
THEOREM OffsetsAreKept == Spec => OffsetsKept
<1> DEFINE Kept == \A i \in 1 .. Len(sections) :
                     sections[i].offset # 0 => sections'[i].offset = sections[i].offset
<1>1. ASSUME TableInv, [Next]_vars PROVE [Kept]_vars
  <2>1. ASSUME NEW size \in SectionSizes, NEW alignment \in Alignments, AddSection(size, alignment)
        PROVE  Kept
    BY <1>1, <2>1 DEF AddSection, TableInv
  <2>2. CASE BeginUpdate \/ EndUpdate \/ UNCHANGED vars
    BY <2>2 DEF BeginUpdate, EndUpdate, vars
  <2>3. CASE UpdateSection
    <3>1. PICK p \in 0 .. Len(sections) : PlacedUpTo(p)
      BY <1>1 DEF TableInv
    <3>2. CASE current < p
      BY <1>1, <2>3, <3>1, <3>2, UpdateSectionLemma
    <3>3. CASE current >= p
      <4>1. p = current /\ current \in 1 .. Len(sections) - 1 /\ Len(sections) \in Nat
        BY <1>1, <2>3, <3>1, <3>3, UpdateSectionLemma DEF TableInv
      <4>2. sections[current + 1].offset = 0
        BY <3>1, <4>1 DEF PlacedUpTo
      <4>3. QED
        BY <1>1, <2>3, <3>1, <4>2, UpdateSectionLemma
    <3>4. QED
      BY <1>1, <3>1, <3>2, <3>3 DEF TableInv
  <2>4. QED
    BY <1>1, <2>1, <2>2, <2>3 DEF Next
<1>2. QED
  BY <1>1, TableInvariant, PTL DEF Spec, OffsetsKept
--------------------------------------------------------------------------------
\* The arithmetic of utils.hpp, helper by helper, against the integers.

LEMMA AddExact ==
  ASSUME NEW m \in U64, NEW n \in U64
  PROVE  checkedAdd(m, n) = {k \in {m + n} : Fits(k)}
<1>1. m > U64Max - n <=> ~(m + n <= U64Max)
  BY WordAssumption DEF U64
<1>2. QED
  BY <1>1 DEF checkedAdd, Fits

\* A product fits when one factor is at most the quotient by the other.
LEMMA QuotientLemma ==
  ASSUME NEW m \in Nat \ {0}, NEW n \in Nat, NEW limit \in Nat
  PROVE  n <= limit \div m <=> n * m <= limit
<1> DEFINE q == limit \div m  r == limit % m
<1>1. q \in Int /\ r \in 0 .. m - 1 /\ limit = q * m + r
  BY DivLemma
<1> HIDE DEF q, r
<1>2. ASSUME n <= q PROVE n * m <= limit
  <2>1. (q - n) * m >= 0
    BY <1>1, <1>2
  <2>2. (q - n) * m = q * m - n * m
    BY <1>1
  <2>3. q * m \in Int /\ n * m \in Int
    BY <1>1
  <2>4. QED
    BY <1>1, <2>1, <2>2, <2>3
<1>3. ASSUME n > q PROVE n * m > limit
  <2>1. (n - (q + 1)) * m >= 0
    BY <1>1, <1>3
  <2>2. (n - (q + 1)) * m = n * m - (q * m + m)
    BY <1>1
  <2>3. q * m \in Int /\ n * m \in Int
    BY <1>1
  <2>4. QED
    BY <1>1, <2>1, <2>2, <2>3
<1>4. n * m \in Int /\ q \in Int
  BY <1>1
<1>5. n <= q <=> n * m <= limit
  BY <1>2, <1>3, <1>4
<1>6. QED
  BY <1>5 DEF q

LEMMA MulExact ==
  ASSUME NEW m \in U64, NEW n \in U64
  PROVE  checkedMul(m, n) = {k \in {m * n} : Fits(k)}
<1>1. m \in Nat /\ n \in Nat /\ U64Max \in Nat
  BY WordAssumption DEF U64
<1>2. CASE m = 0
  <2>1. m * n = 0
    BY <1>1, <1>2
  <2>2. QED
    BY <1>1, <1>2, <2>1 DEF checkedMul, Fits
<1>3. CASE m # 0
  <2>1. n <= U64Max \div m <=> n * m <= U64Max
    BY <1>1, <1>3, QuotientLemma
  <2>2. n * m = m * n /\ U64Max \div m \in Int
    BY <1>1, <1>3, DivLemma
  <2>3. n > U64Max \div m <=> ~(m * n <= U64Max)
    BY <1>1, <2>1, <2>2
  <2>4. QED
    BY <1>3, <2>3 DEF checkedMul, Fits
<1>4. QED
  BY <1>2, <1>3

LEMMA AlignUpExact ==
  ASSUME NEW size \in U64, NEW alignment \in U64
  PROVE  /\ checkedAlignUp(size, alignment) = {} <=> alignment = 0 \/ ~Fits(size + alignment - 1)
         /\ \A n \in checkedAlignUp(size, alignment) :
              /\ n % alignment = 0
              /\ size <= n
              /\ n < size + alignment
              /\ n \in Nat /\ Fits(n)
<1>1. CASE alignment = 0
  BY <1>1 DEF checkedAlignUp
<1>2. CASE alignment # 0
  <2>1. size \in Nat /\ alignment \in Nat \ {0} /\ U64Max \in Nat /\ alignment - 1 \in U64
    BY <1>2, WordAssumption DEF U64
  <2>2. size + (alignment - 1) = size + alignment - 1
    BY <2>1
  <2>3. checkedAdd(size, alignment - 1) = {k \in {size + alignment - 1} : Fits(k)}
    BY <2>1, <2>2, AddExact
  <2>4. checkedAlignUp(size, alignment) =
          {(sum \div alignment) * alignment : sum \in {k \in {size + alignment - 1} : Fits(k)}}
    BY <1>2, <2>3 DEF checkedAlignUp
  <2>5. checkedAlignUp(size, alignment) = {} <=> ~Fits(size + alignment - 1)
    BY <2>4
  <2>6. ASSUME NEW n \in checkedAlignUp(size, alignment)
        PROVE  /\ n % alignment = 0 /\ size <= n /\ n < size + alignment
               /\ n \in Nat /\ Fits(n)
    <3> DEFINE k == size + alignment - 1  q == k \div alignment  r == k % alignment
    <3>1. n = q * alignment /\ Fits(k)
      BY <2>4
    <3>2. k = size + alignment - 1 /\ k \in Int
      BY <2>1
    <3> HIDE DEF k
    <3>3. q \in Int /\ r \in 0 .. alignment - 1 /\ k = q * alignment + r
      BY <2>1, <3>2, DivLemma
    <3> HIDE DEF q, r
    <3>4. n % alignment = 0 /\ n \in Int
      BY <2>1, <3>1, <3>3, MultipleLemma
    <3>5. n = k - r /\ r \in Nat /\ r < alignment
      BY <2>1, <3>1, <3>3
    <3>6. size <= n /\ n < size + alignment /\ n \in Nat
      BY <2>1, <3>2, <3>4, <3>5
    <3>7. Fits(n)
      BY <2>1, <3>1, <3>3, <3>4, <3>5 DEF Fits
    <3>8. QED
      BY <3>4, <3>6, <3>7
  <2>7. QED
    BY <1>2, <2>5, <2>6
<1>3. QED
  BY <1>1, <1>2

\* The comparisons of byteRangeCanBeAddressed never leave the word.
LEMMA AddressableExact ==
  ASSUME NEW offset \in Nat, NEW size \in Nat
  PROVE  byteRangeCanBeAddressed([offset |-> offset, size |-> size])
           <=> Addressable([offset |-> offset, size |-> size])
<1>1. U64Max \in Nat /\ SizeMax \in Nat /\ SizeMax <= U64Max
  BY WordAssumption
<1>2. SizeMax < U64Max <=> SizeMax # U64Max
  BY <1>1
<1>3. (offset <= SizeMax /\ size <= SizeMax /\ size <= SizeMax - offset) <=> offset + size <= SizeMax
  BY <1>1
<1>4. QED
  BY <1>2, <1>3 DEF byteRangeCanBeAddressed, Addressable

\* What splitFixedRecordTable answers over the integers.
SplitOver(sectionSize, recordsOffset, recordSize, recordCount) ==
  LET records == [offset |-> recordsOffset, size |-> recordCount * recordSize]
      end == records.offset + records.size
      payload == [offset |-> end, size |-> sectionSize - end]
  IN  IF /\ recordSize # 0
         /\ end <= sectionSize
         /\ Addressable(records)
         /\ Addressable(payload)
      THEN {[records |-> records, payload |-> payload]}
      ELSE {}

LEMMA SplitTableExact ==
  ASSUME NEW sectionSize \in U64, NEW recordsOffset \in U64,
         NEW recordSize \in U64, NEW recordCount \in U64
  PROVE  splitFixedRecordTable(sectionSize, recordsOffset, recordSize, recordCount)
           = SplitOver(sectionSize, recordsOffset, recordSize, recordCount)
<1> DEFINE product == recordCount * recordSize
           end == recordsOffset + product
           records == [offset |-> recordsOffset, size |-> product]
           payload == [offset |-> end, size |-> sectionSize - end]
           layout == [records |-> records, payload |-> payload]
           split == splitFixedRecordTable(sectionSize, recordsOffset, recordSize, recordCount)
           over == SplitOver(sectionSize, recordsOffset, recordSize, recordCount)
<1>1. /\ sectionSize \in Nat /\ recordsOffset \in Nat /\ recordSize \in Nat /\ recordCount \in Nat
      /\ U64Max \in Nat /\ sectionSize <= U64Max /\ product \in Nat
  BY WordAssumption DEF U64
<1>2. over = IF /\ recordSize # 0 /\ end <= sectionSize
                /\ Addressable(records) /\ Addressable(payload)
             THEN {layout} ELSE {}
  BY DEF SplitOver
<1>3. CASE recordSize = 0
  BY <1>2, <1>3 DEF splitFixedRecordTable
<1>4. CASE recordSize # 0 /\ ~(end <= sectionSize)
  <2>1. over = {}
    BY <1>2, <1>4
  <2>2. recordsOffset <= sectionSize => recordCount > (sectionSize - recordsOffset) \div recordSize
    <3>1. SUFFICES ASSUME recordsOffset <= sectionSize
                   PROVE  recordCount > (sectionSize - recordsOffset) \div recordSize
      OBVIOUS
    <3>2. sectionSize - recordsOffset \in Nat
      BY <1>1, <3>1
    <3>3. recordCount <= (sectionSize - recordsOffset) \div recordSize
            <=> product <= sectionSize - recordsOffset
      BY <1>1, <1>4, <3>2, QuotientLemma
    <3>4. (sectionSize - recordsOffset) \div recordSize \in Int
      BY <1>1, <1>4, <3>2, DivLemma
    <3>5. ~(product <= sectionSize - recordsOffset)
      BY <1>1, <1>4
    <3>6. QED
      BY <1>1, <3>3, <3>4, <3>5
  <2>3. split = {}
    BY <1>1, <2>2 DEF splitFixedRecordTable
  <2>4. QED
    BY <2>1, <2>3
<1>5. CASE recordSize # 0 /\ end <= sectionSize
  <2>1. recordsOffset <= sectionSize /\ product <= sectionSize - recordsOffset
        /\ sectionSize - recordsOffset \in Nat /\ sectionSize - end \in Nat /\ end \in Nat
    BY <1>1, <1>5
  <2>2. ~(recordCount > (sectionSize - recordsOffset) \div recordSize)
    <3>1. recordCount <= (sectionSize - recordsOffset) \div recordSize
            <=> product <= sectionSize - recordsOffset
      BY <1>1, <1>5, <2>1, QuotientLemma
    <3>2. (sectionSize - recordsOffset) \div recordSize \in Int
      BY <1>1, <1>5, <2>1, DivLemma
    <3>3. QED
      BY <1>1, <2>1, <3>1, <3>2
  <2>3. product <= U64Max /\ end <= U64Max
    BY <1>1, <1>5, <2>1
  <2>4. checkedMul(recordCount, recordSize) = {product}
    BY <2>3, MulExact DEF Fits
  <2>5. checkedAdd(recordsOffset, product) = {end}
    <3>1. product \in U64
      BY <1>1, <2>3 DEF U64
    <3>2. QED
      BY <2>3, <3>1, AddExact DEF Fits
  <2>6. TableLayout(sectionSize, recordsOffset, product, end) = layout
    BY DEF TableLayout
  <2> HIDE DEF end, product
  <2>7. ~(recordSize = 0 \/ recordsOffset > sectionSize
            \/ recordCount > (sectionSize - recordsOffset) \div recordSize)
    BY <1>1, <1>5, <2>1, <2>2
  <2> DEFINE at(size) ==
        {TableLayout(sectionSize, recordsOffset, size, offset) :
           offset \in {p \in checkedAdd(recordsOffset, size) :
                         LET l == TableLayout(sectionSize, recordsOffset, size, p)
                         IN  /\ p <= sectionSize
                             /\ byteRangeCanBeAddressed(l.records)
                             /\ byteRangeCanBeAddressed(l.payload)}}
  <2>8. split = UNION {at(size) : size \in checkedMul(recordCount, recordSize)}
    BY <2>7 DEF splitFixedRecordTable
  <2>9. split = at(product)
    BY <2>4, <2>8
  <2>10. byteRangeCanBeAddressed(records) <=> Addressable(records)
    BY <1>1, AddressableExact
  <2>11. byteRangeCanBeAddressed(payload) <=> Addressable(payload)
    BY <2>1, AddressableExact
  <2>12. layout.records = records /\ layout.payload = payload
    OBVIOUS
  <2> HIDE DEF layout, records, payload
  <2>13. at(product) = IF Addressable(records) /\ Addressable(payload) THEN {layout} ELSE {}
    BY <1>5, <2>5, <2>6, <2>10, <2>11, <2>12
  <2>14. QED
    BY <1>2, <1>5, <2>9, <2>13
<1>6. QED
  BY <1>3, <1>4, <1>5

LEMMA AppendExact ==
  ASSUME NEW size \in U64, NEW alignment \in U64, NEW payloadSize \in U64,
         NEW a \in appendAlignedByteRange(size, alignment, payloadSize)
  PROVE  /\ a.range = [offset |-> payloadSize, size |-> size]
         /\ a.payloadSize = a.range.offset + a.paddedSize
         /\ a.paddedSize \in size .. size + alignment - 1
         /\ a.paddedSize % alignment = 0
         /\ Fits(a.payloadSize)
         /\ Addressable([offset |-> payloadSize, size |-> a.paddedSize])
<1>1. PICK padded \in checkedAlignUp(size, alignment) :
        /\ checkedAdd(payloadSize, padded) # {}
        /\ byteRangeCanBeAddressed([offset |-> payloadSize, size |-> padded])
        /\ a = [range |-> [offset |-> payloadSize, size |-> size],
                paddedSize |-> padded, payloadSize |-> payloadSize + padded]
  BY DEF appendAlignedByteRange
<1>2. /\ padded % alignment = 0 /\ size <= padded /\ padded < size + alignment
      /\ padded \in Nat /\ Fits(padded)
  BY AlignUpExact
<1>3. size \in Nat /\ alignment \in Nat /\ payloadSize \in Nat /\ padded \in U64
  BY <1>2, WordAssumption DEF U64, Fits
<1>4. Fits(payloadSize + padded)
  BY <1>1, <1>3, AddExact
<1>5. Addressable([offset |-> payloadSize, size |-> padded])
  BY <1>1, <1>2, <1>3, AddressableExact
<1>6. padded \in size .. size + alignment - 1
  BY <1>2, <1>3
<1>7. QED
  BY <1>1, <1>2, <1>4, <1>5, <1>6

\* The checked arithmetic, the bounds check, the division of a section and
\* the growth of a payload (utils.hpp) compute over the integers what they
\* say, or say that they cannot, for every width of uint64_t and of size_t
\* and for every argument.
THEOREM ArithmeticIsExact == HelpersSpec => []ArithmeticExact
<1>1. HelpersInit => ArithmeticExact
  BY DEF HelpersInit, ArithmeticExact, SumProductExact, AlignUpLeast, WithinBoundsExact, SplitExact,
         AppendExtends
<1>2. ASSUME ArithmeticExact, [HelpersNext]_helpersVars PROVE ArithmeticExact'
  <2> USE HelpersAssumption
  <2>1. CASE UNCHANGED call
    BY <1>2, <2>1 DEF ArithmeticExact, SumProductExact, AlignUpLeast, WithinBoundsExact, SplitExact,
           AppendExtends
  <2>2. ASSUME NEW lhs \in Arguments, NEW rhs \in Arguments,
               call' = [fn |-> "checkedAdd", lhs |-> lhs, rhs |-> rhs, result |-> checkedAdd(lhs, rhs)]
        PROVE  ArithmeticExact'
    <3>1. checkedAdd(lhs, rhs) = {k \in {lhs + rhs} : Fits(k)}
      BY AddExact
    <3>2. call'.fn = "checkedAdd" /\ call'.result = {k \in {call'.lhs + call'.rhs} : Fits(k)}
      BY <2>2, <3>1
    <3>3. QED
      BY <3>2 DEF ArithmeticExact, SumProductExact, AlignUpLeast, WithinBoundsExact, SplitExact,
             AppendExtends
  <2>3. ASSUME NEW lhs \in Arguments, NEW rhs \in Arguments,
               call' = [fn |-> "checkedMul", lhs |-> lhs, rhs |-> rhs, result |-> checkedMul(lhs, rhs)]
        PROVE  ArithmeticExact'
    <3>1. checkedMul(lhs, rhs) = {k \in {lhs * rhs} : Fits(k)}
      BY MulExact
    <3>2. call'.fn = "checkedMul" /\ call'.result = {k \in {call'.lhs * call'.rhs} : Fits(k)}
      BY <2>3, <3>1
    <3>3. QED
      BY <3>2 DEF ArithmeticExact, SumProductExact, AlignUpLeast, WithinBoundsExact, SplitExact,
             AppendExtends
  <2>4. ASSUME NEW size \in Arguments, NEW alignment \in Arguments,
               call' = [fn |-> "checkedAlignUp", size |-> size, alignment |-> alignment,
                        result |-> checkedAlignUp(size, alignment)]
        PROVE  ArithmeticExact'
    <3>1. /\ checkedAlignUp(size, alignment) = {} <=> alignment = 0 \/ ~Fits(size + alignment - 1)
          /\ \A n \in checkedAlignUp(size, alignment) :
               n % alignment = 0 /\ size <= n /\ n < size + alignment
      BY AlignUpExact
    <3>2. /\ call'.fn = "checkedAlignUp" /\ call'.size = size /\ call'.alignment = alignment
          /\ call'.result = checkedAlignUp(size, alignment)
      BY <2>4
    <3>3. QED
      BY <3>1, <3>2 DEF ArithmeticExact, SumProductExact, AlignUpLeast, WithinBoundsExact, SplitExact,
             AppendExtends
  <2>5. ASSUME NEW range \in [offset : Arguments, size : Arguments], NEW payloadSize \in Arguments,
               call' = [fn |-> "byteRangeWithinBounds", range |-> range, payloadSize |-> payloadSize,
                        result |-> byteRangeWithinBounds(range, payloadSize)]
        PROVE  ArithmeticExact'
    <3>1. range.offset \in U64 /\ range.size \in U64 /\ payloadSize \in U64
      OBVIOUS
    <3>2. byteRangeWithinBounds(range, payloadSize) <=> range.offset + range.size <= payloadSize
      BY <3>1, WordAssumption DEF byteRangeWithinBounds, U64
    <3>3. /\ call'.fn = "byteRangeWithinBounds"
          /\ call'.result <=> call'.range.offset + call'.range.size <= call'.payloadSize
      BY <2>5, <3>2
    <3>4. QED
      BY <3>3 DEF ArithmeticExact, SumProductExact, AlignUpLeast, WithinBoundsExact, SplitExact,
             AppendExtends
  <2>6. ASSUME NEW sectionSize \in Arguments, NEW recordsOffset \in Arguments,
               NEW recordSize \in Arguments, NEW recordCount \in Arguments,
               call' = [fn |-> "splitFixedRecordTable", sectionSize |-> sectionSize,
                        recordsOffset |-> recordsOffset, recordSize |-> recordSize,
                        recordCount |-> recordCount,
                        result |-> splitFixedRecordTable(sectionSize, recordsOffset, recordSize,
                                                         recordCount)]
        PROVE  ArithmeticExact'
    <3>1. splitFixedRecordTable(sectionSize, recordsOffset, recordSize, recordCount)
            = SplitOver(sectionSize, recordsOffset, recordSize, recordCount)
      BY SplitTableExact
    <3>2. /\ call'.fn = "splitFixedRecordTable"
          /\ call'.result = SplitOver(call'.sectionSize, call'.recordsOffset, call'.recordSize,
                                      call'.recordCount)
      BY <2>6, <3>1
    <3>3. SplitExact'
      BY <3>2 DEF SplitExact, SplitOver
    <3>4. QED
      BY <3>2, <3>3 DEF ArithmeticExact, SumProductExact, AlignUpLeast, WithinBoundsExact, AppendExtends
  <2>7. ASSUME NEW size \in Arguments, NEW alignment \in Arguments, NEW payloadSize \in Arguments,
               call' = [fn |-> "appendAlignedByteRange", size |-> size, alignment |-> alignment,
                        payloadSize |-> payloadSize,
                        result |-> appendAlignedByteRange(size, alignment, payloadSize)]
        PROVE  ArithmeticExact'
    <3>1. \A a \in appendAlignedByteRange(size, alignment, payloadSize) :
            /\ a.range = [offset |-> payloadSize, size |-> size]
            /\ a.payloadSize = a.range.offset + a.paddedSize
            /\ a.paddedSize \in size .. size + alignment - 1
            /\ a.paddedSize % alignment = 0
            /\ Fits(a.payloadSize)
            /\ Addressable([offset |-> payloadSize, size |-> a.paddedSize])
      BY AppendExact
    <3>2. /\ call'.fn = "appendAlignedByteRange" /\ call'.size = size /\ call'.alignment = alignment
          /\ call'.payloadSize = payloadSize
          /\ call'.result = appendAlignedByteRange(size, alignment, payloadSize)
      BY <2>7
    <3>3. QED
      BY <3>1, <3>2 DEF ArithmeticExact, SumProductExact, AlignUpLeast, WithinBoundsExact, SplitExact,
             AppendExtends
  <2>8. CASE CallToName \/ CallNumericFormat \/ CallWrite \/ CallParse
    <3>1. call'.fn \in {"ToName", "numpyTypeEncoding", "write", "parse"}
      <4>1. CASE CallToName
        BY <4>1 DEF CallToName
      <4>2. CASE CallNumericFormat
        BY <4>2 DEF CallNumericFormat
      <4>3. CASE CallWrite
        BY <4>3 DEF CallWrite
      <4>4. CASE CallParse
        BY <4>4 DEF CallParse
      <4>5. QED
        BY <2>8, <4>1, <4>2, <4>3, <4>4
    <3>2. QED
      BY <3>1 DEF ArithmeticExact, SumProductExact, AlignUpLeast, WithinBoundsExact, SplitExact,
             AppendExtends
  <2>9. CASE CallNext
    BY <2>2, <2>3, <2>4, <2>5, <2>6, <2>7, <2>8, <2>9
       DEF CallNext, CallAdd, CallMul, CallAlignUp, CallWithin, CallSplit, CallAppend
  <2>10. QED
    BY <1>2, <2>1, <2>9 DEF HelpersNext, helpersVars
<1>3. QED
  BY <1>1, <1>2, PTL DEF HelpersSpec

--------------------------------------------------------------------------------
\* What a format needs and how its numbers are kept.
LEMMA BlockSizes ==
  ASSUME NEW format \in SizedFormats
  PROVE  /\ format # "SBS80_ARM" => blockSize(format) \in {1, 2, 4, 8}
         /\ format = "SBS80_ARM" => blockSize(format) = 10
BY DEF SizedFormats, blockSize, OneByte, TwoBytes, FourBytes, EightBytes

Numerics == {"UNORM", "SNORM", "USCALED", "SSCALED", "UINT", "SINT", "SFLOAT", "BOOL", "SRGB"}

LEMMA NumericFormats ==
  ASSUME NEW format \in SizedFormats
  PROVE  componentNumericFormat(format) \in Numerics
BY DEF SizedFormats, componentNumericFormat, OneByte, TwoBytes, FourBytes, EightBytes, Numerics

LEMMA Encodings ==
  ASSUME NEW numeric \in Numerics
  PROVE  /\ numpyTypeEncoding(numeric) \subseteq {"b", "i", "u", "f"}
         /\ numpyTypeEncoding(numeric) = {} <=> numeric \in {"USCALED", "SSCALED", "SRGB"}
BY DEF Numerics, numpyTypeEncoding

\* One of the enumerations, with what is assumed of all.
LEMMA NamesLemma ==
  ASSUME NEW type \in Enumerations, NEW e \in DOMAIN Names[type]
  PROVE  LET names == Names[type]
         IN  /\ e \in Nat
             /\ names[e] \in Seq(STRING) /\ Len(names[e]) \in Nat /\ Len(names[e]) > 0
             /\ DOMAIN names[e] = 1 .. Len(names[e])
             /\ \A i \in DOMAIN names[e] : names[e][i] # "Unknown"
             /\ \A other \in DOMAIN names : \A i \in DOMAIN names[e], j \in DOMAIN names[other] :
                  names[e][i] = names[other][j] => e = other /\ i = j
<1> DEFINE names == Names[type]
<1>1. /\ DOMAIN names \subseteq Nat
      /\ \A d \in DOMAIN names :
           /\ names[d] \in Seq(STRING) /\ Len(names[d]) > 0
           /\ \A i \in DOMAIN names[d] : names[d][i] # "Unknown"
      /\ \A d, other \in DOMAIN names : \A i \in DOMAIN names[d], j \in DOMAIN names[other] :
           names[d][i] = names[other][j] => d = other /\ i = j
  BY EnumerationAssumption, Zenon
<1>2. e \in DOMAIN names
  OBVIOUS
<1> HIDE DEF names
<1>3. e \in Nat /\ names[e] \in Seq(STRING) /\ Len(names[e]) > 0
  BY <1>1, <1>2
<1>4. Len(names[e]) \in Nat /\ DOMAIN names[e] = 1 .. Len(names[e])
  BY <1>3
<1>5. QED
  BY <1>1, <1>2, <1>3, <1>4 DEF names

\* A name that is tested for is one of the number's, the first one always.
LEMMA TestedLemma ==
  ASSUME NEW type \in Enumerations, NEW e \in DOMAIN Names[type]
  PROVE  LET names == Names[type]
         IN  /\ 1 \in DOMAIN names[e]
             /\ \A name \in NamesTested(type, e) : \E i \in DOMAIN names[e] : name = names[e][i]
             /\ \A i \in DOMAIN names[e] :
                  names[e][i] \in NamesTested(type, e) <=> i = 1 \/ type \notin FirstNameOnly
<1> DEFINE names == Names[type]
           tested == IF type \in FirstNameOnly THEN {1} ELSE DOMAIN names[e]
<1>1. /\ Len(names[e]) \in Nat /\ Len(names[e]) > 0 /\ DOMAIN names[e] = 1 .. Len(names[e])
      /\ \A i, j \in DOMAIN names[e] : names[e][i] = names[e][j] => i = j
  BY NamesLemma
<1>2. NamesTested(type, e) = {names[e][i] : i \in tested}
  BY Zenon DEF NamesTested
<1>3. 1 \in DOMAIN names[e]
  BY <1>1
<1>4. tested \subseteq DOMAIN names[e] /\ \A i \in DOMAIN names[e] : i \in tested <=> i = 1 \/ type \notin FirstNameOnly
  BY <1>3
<1> HIDE DEF tested, names
<1>5. QED
  BY <1>1, <1>2, <1>3, <1>4 DEF names

\* A name reads back as its number if it is tested for.
LEMMA NameReadsBack ==
  ASSUME NEW type \in Enumerations, NEW e \in DOMAIN Names[type], NEW name \in NamesTested(type, e)
  PROVE  NameTo(type, <<name>>) = e
<1> DEFINE names == Names[type]
           named == {d \in DOMAIN names : \E other \in NamesTested(type, d) : <<name>> = <<other>>}
<1>1. e \in named
  OBVIOUS
<1>2. ASSUME NEW d \in named PROVE d = e
  <2>1. d \in DOMAIN names /\ name \in NamesTested(type, d)
    OBVIOUS
  <2>2. PICK i \in DOMAIN names[e] : name = names[e][i]
    BY TestedLemma
  <2>3. PICK j \in DOMAIN names[d] : name = names[d][j]
    BY <2>1, TestedLemma
  <2>4. \A k \in DOMAIN names[e], l \in DOMAIN names[d] : names[e][k] = names[d][l] => e = d
    BY <2>1, NamesLemma
  <2>5. QED
    BY <2>2, <2>3, <2>4
<1>3. named = {e}
  BY <1>1, <1>2
<1>4. NameTo(type, <<name>>) = IF named = {} THEN NoNumber ELSE CHOOSE d \in named : TRUE
  BY DEF NameTo
<1> HIDE DEF named
<1>5. QED
  BY <1>3, <1>4

\* What is not a name that is tested for reads back as nothing.
LEMMA NotAName ==
  ASSUME NEW type \in Enumerations, NEW string,
         \A e \in DOMAIN Names[type] : \A name \in NamesTested(type, e) : string # <<name>>
  PROVE  NameTo(type, string) = NoNumber
BY DEF NameTo

\* A further name of a number is no other number's, so it reads back as
\* nothing if it is not tested for.
LEMMA FurtherName ==
  ASSUME NEW type \in Enumerations, NEW e \in DOMAIN Names[type],
         NEW i \in DOMAIN Names[type][e], i # 1
  PROVE  NameTo(type, <<Names[type][e][i]>>) = IF type \in FirstNameOnly THEN NoNumber ELSE e
<1> DEFINE names == Names[type]
           name == names[e][i]
<1>1. CASE type \notin FirstNameOnly
  BY <1>1, TestedLemma, NameReadsBack
<1>2. CASE type \in FirstNameOnly
  <2>1. ASSUME NEW d \in DOMAIN names, NEW other \in NamesTested(type, d), <<name>> = <<other>>
        PROVE  FALSE
    <3>1. name = other
      BY <2>1
    <3>2. PICK j \in DOMAIN names[d] : other = names[d][j]
      BY TestedLemma
    <3>3. d = e
      BY <3>1, <3>2, NamesLemma
    <3>4. name \in NamesTested(type, e)
      BY <3>1, <3>3
    <3>5. QED
      BY <1>2, <3>4, TestedLemma
  <2>2. NameTo(type, <<name>>) = NoNumber
    BY <2>1, NotAName
  <2>3. QED
    BY <1>2, <2>2
<1>3. QED
  BY <1>1, <1>2

\* What ToName prints, and how it reads back, whole and name by name.
PrintedReadsBack(type, e, printed) ==
  /\ printed = UnknownName <=> ~ValidateDecoded(type, e)
  /\ printed = UnknownName => NameTo(type, printed) = NoNumber
  /\ printed # UnknownName =>
       /\ NameTo(type, printed) = IF Len(printed) = 1 THEN e ELSE NoNumber
       /\ NameTo(type, <<printed[1]>>) = e
       /\ \A i \in 2 .. Len(printed) :
            NameTo(type, <<printed[i]>>) = IF type \in FirstNameOnly THEN NoNumber ELSE e

LEMMA ToNameReadsBack ==
  ASSUME NEW type \in Enumerations, NEW e \in {NoNumber} \cup 0 .. 9
  PROVE  PrintedReadsBack(type, e, ToName(type, e))
<1> DEFINE names == Names[type]
           printed == ToName(type, e)
<1>1. CASE e \notin DOMAIN names
  <2>1. printed = UnknownName /\ ~ValidateDecoded(type, e)
    BY <1>1 DEF ToName, ValidateDecoded
  <2>2. ASSUME NEW d \in DOMAIN names, NEW name \in NamesTested(type, d) PROVE UnknownName # <<name>>
    <3>1. PICK i \in DOMAIN names[d] : name = names[d][i]
      BY TestedLemma
    <3>2. QED
      BY <3>1, NamesLemma DEF UnknownName
  <2>3. NameTo(type, UnknownName) = NoNumber
    BY <2>2, NotAName
  <2>4. QED
    BY <2>1, <2>3 DEF PrintedReadsBack
<1>2. CASE e \in DOMAIN names
  <2>1. printed = names[e] /\ ValidateDecoded(type, e)
    BY <1>2 DEF ToName, ValidateDecoded
  <2>2. /\ names[e] \in Seq(STRING) /\ Len(names[e]) \in Nat \ {0}
        /\ DOMAIN names[e] = 1 .. Len(names[e])
        /\ \A i \in DOMAIN names[e] : names[e][i] # "Unknown"
    BY <1>2, NamesLemma
  <2>3. 1 \in DOMAIN names[e] /\ names[e][1] # "Unknown"
    BY <2>2
  <2>4. printed # UnknownName
    BY <2>1, <2>3 DEF UnknownName
  <2>5. NameTo(type, <<names[e][1]>>) = e
    BY <1>2, <2>3, TestedLemma, NameReadsBack
  <2>6. \A i \in 2 .. Len(names[e]) :
          NameTo(type, <<names[e][i]>>) = IF type \in FirstNameOnly THEN NoNumber ELSE e
    <3>1. \A i \in 2 .. Len(names[e]) : i \in DOMAIN names[e] /\ i # 1
      BY <2>2
    <3>2. QED
      BY <1>2, <3>1, FurtherName
  <2>7. NameTo(type, names[e]) = IF Len(names[e]) = 1 THEN e ELSE NoNumber
    <3>1. CASE Len(names[e]) = 1
      <4>1. names[e] = <<names[e][1]>>
        BY <2>2, <3>1
      <4>2. QED
        BY <2>5, <3>1, <4>1
    <3>2. CASE Len(names[e]) # 1
      <4>1. \A d \in DOMAIN names : \A name \in NamesTested(type, d) : names[e] # <<name>>
        BY <3>2
      <4>2. QED
        BY <3>2, <4>1, NotAName
    <3>3. QED
      BY <3>1, <3>2
  <2>8. QED
    BY <2>1, <2>4, <2>5, <2>6, <2>7 DEF PrintedReadsBack
<1>3. QED
  BY <1>1, <1>2

\* strToShape appends what each token holds.
LEMMA ReadFold ==
  ASSUME NEW n \in Nat, NEW text \in [1 .. n -> Seq(Int)]
  PROVE  \E g : /\ strToShape(text) = g[1 .. n]
                /\ g[1 .. 0] = <<>>
                /\ \A k \in 0 .. n - 1 : g[1 .. k + 1] = g[1 .. k] \o text[k + 1]
<1> DEFINE step == [x \in Seq(Int) \X Seq(Int) |-> x[1] \o x[2]]
           Folds(g) == g = [s \in SUBSET (1 .. n) |->
                              IF s = {} THEN <<>> ELSE LET x == Max(s) IN g[s \ {x}] \o text[x]]
<1>1. \E g : Folds(g)
  <2>1. step \in [Seq(Int) \X Seq(Int) -> Seq(Int)] /\ <<>> \in Seq(Int)
    OBVIOUS
  <2>2. PICK g \in [SUBSET (1 .. n) -> Seq(Int)] : Folding(step, <<>>, text, n, g)
    <3> HIDE DEF step
    <3>1. QED
      BY <2>1, FoldExists
  <2>3. ASSUME NEW s \in SUBSET (1 .. n)
        PROVE  Iterated(step, <<>>, text, s, g) =
                 IF s = {} THEN <<>> ELSE LET x == Max(s) IN g[s \ {x}] \o text[x]
    <3>1. CASE s = {}
      BY <3>1 DEF Iterated
    <3>2. CASE s # {}
      <4>1. Max(s) \in s
        BY <3>2, MaxInSet
      <4>2. g[s \ {Max(s)}] \in Seq(Int) /\ text[Max(s)] \in Seq(Int)
        BY <4>1
      <4>3. step[<<g[s \ {Max(s)}], text[Max(s)]>>] = g[s \ {Max(s)}] \o text[Max(s)]
        BY <4>2
      <4>4. QED
        BY <3>2, <4>3 DEF Iterated
    <3>3. QED
      BY <3>1, <3>2
  <2>4. Folds(g)
    BY <2>2, <2>3 DEF Folding
  <2>5. QED
    BY <2>4
<1>2. PICK g : Folds(g) /\ strToShape(text) = g[1 .. n]
  <2>1. DOMAIN text = 1 .. n
    OBVIOUS
  <2>2. QED
    BY <1>1, <2>1 DEF strToShape, FoldLeft, MapThenFoldSet
<1>3. g[1 .. 0] = <<>>
  <2>1. 1 .. 0 = {} /\ {} \in SUBSET (1 .. n)
    OBVIOUS
  <2>2. QED
    BY <1>2, <2>1
<1>4. ASSUME NEW k \in 0 .. n - 1 PROVE g[1 .. k + 1] = g[1 .. k] \o text[k + 1]
  <2> DEFINE s == 1 .. k + 1
  <2>1. s \in SUBSET (1 .. n) /\ s # {} /\ Max(s) = k + 1 /\ s \ {k + 1} = 1 .. k
    BY PrefixLemma
  <2> HIDE DEF s
  <2>2. g[s] = g[1 .. k] \o text[k + 1]
    BY <1>2, <2>1
  <2>3. QED
    BY <2>2 DEF s
<1>5. QED
  BY <1>2, <1>3, <1>4

\* A tuple that was written is read back.
LEMMA TupleReadsBack ==
  ASSUME NEW shape \in Seq(Int)
  PROVE  strToShape(shapeToStr(shape)) = shape
<1> DEFINE n == Len(shape)
           m == IF n = 1 THEN 2 ELSE n
           text == shapeToStr(shape)
           dims == [i \in 1 .. Len(shape) |-> <<shape[i]>>]
           more == IF n = 1 THEN <<<<>>>> ELSE <<>>
<1>1. n \in Nat /\ m \in Nat /\ n <= m /\ shape \in [1 .. n -> Int]
  <2>1. n \in Nat /\ shape \in [1 .. n -> Int]
    OBVIOUS
  <2> HIDE DEF n
  <2>2. QED
    BY <2>1
<1>2. dims \in Seq(Seq(Int)) /\ Len(dims) = n /\ \A i \in 1 .. n : dims[i] = <<shape[i]>>
  BY <1>1
<1>3. more \in Seq(Seq(Int)) /\ Len(more) = m - n /\ \A i \in 1 .. m - n : more[i] = <<>>
  <2> HIDE DEF n
  <2>1. CASE n = 1
    BY <2>1
  <2>2. CASE n # 1
    BY <2>2, <1>1
  <2>3. QED
    BY <2>1, <2>2
<1>4. text = dims \o more
  BY DEF shapeToStr
<1> HIDE DEF text, dims, more, m
<1>5. /\ text \in [1 .. m -> Seq(Int)]
      /\ \A i \in 1 .. n : text[i] = <<shape[i]>>
      /\ \A i \in n + 1 .. m : text[i] = <<>>
  <2> HIDE DEF n
  <2>0. /\ dims \o more \in Seq(Seq(Int)) /\ Len(dims \o more) = Len(dims) + Len(more)
        /\ \A i \in 1 .. Len(dims) + Len(more) :
             (dims \o more)[i] = IF i <= Len(dims) THEN dims[i] ELSE more[i - Len(dims)]
    <3>1. dims \in Seq(Seq(Int)) /\ more \in Seq(Seq(Int))
      BY <1>2, <1>3
    <3>2. QED
      BY <3>1, ConcatProperties
  <2>1. /\ text \in Seq(Seq(Int)) /\ Len(text) = n + (m - n)
        /\ \A i \in 1 .. n + (m - n) : text[i] = IF i <= n THEN dims[i] ELSE more[i - n]
    BY <2>0, <1>2, <1>3, <1>4
  <2>2. Len(text) = m
    BY <1>1, <2>1
  <2>3. text \in [1 .. m -> Seq(Int)]
    BY <2>1, <2>2
  <2>4. \A i \in 1 .. n : text[i] = <<shape[i]>>
    BY <1>1, <1>2, <2>1
  <2>5. ASSUME NEW i \in n + 1 .. m PROVE text[i] = <<>>
    <3>1. i \in 1 .. n + (m - n) /\ ~(i <= n) /\ i - n \in 1 .. m - n
      BY <1>1
    <3>2. QED
      BY <1>3, <2>1, <3>1
  <2>6. QED
    BY <2>3, <2>4, <2>5
<1>6. PICK g : /\ strToShape(text) = g[1 .. m]
               /\ g[1 .. 0] = <<>>
               /\ \A k \in 0 .. m - 1 : g[1 .. k + 1] = g[1 .. k] \o text[k + 1]
  BY <1>1, <1>5, ReadFold
<1> HIDE DEF n
<1> DEFINE S == {k \in Nat : k <= n => g[1 .. k] = SubSeq(shape, 1, k)}
<1>7. 0 \in S
  <2>1. SubSeq(shape, 1, 0) = <<>>
    OBVIOUS
  <2>2. QED
    BY <1>6, <2>1
<1>8. ASSUME NEW k \in Nat, k \in S PROVE k + 1 \in S
  <2> SUFFICES ASSUME k + 1 <= n PROVE g[1 .. k + 1] = SubSeq(shape, 1, k + 1)
    OBVIOUS
  <2>1. g[1 .. k] = SubSeq(shape, 1, k)
    BY <1>8, <1>1
  <2>2. text[k + 1] = <<shape[k + 1]>> /\ k \in 0 .. m - 1
    BY <1>1, <1>5
  <2>3. g[1 .. k + 1] = g[1 .. k] \o <<shape[k + 1]>>
    BY <1>6, <2>2
  <2>4. SubSeq(shape, 1, k + 1) = SubSeq(shape, 1, k) \o <<shape[k + 1]>>
    BY <1>1 DEF n
  <2>5. QED
    BY <2>1, <2>3, <2>4
<1> HIDE DEF S
<1>9. n \in S
  BY <1>1, <1>7, <1>8, SetInduction
<1>10. g[1 .. n] = shape
  BY <1>1, <1>9 DEF S, n
<1>11. g[1 .. m] = g[1 .. n]
  <2>1. CASE n = 1
    <3>1. m = 2 /\ text[2] = <<>>
      BY <1>5, <2>1 DEF m
    <3>2. g[1 .. 1 + 1] = g[1 .. 1] \o text[1 + 1]
      <4>1. 1 \in 0 .. m - 1
        BY <3>1
      <4>2. QED
        BY <1>6, <4>1
    <3>3. g[1 .. 1] = shape
      BY <1>10, <2>1
    <3>4. shape \o <<>> = shape
      OBVIOUS
    <3>5. text[1 + 1] = <<>> /\ 1 .. 1 + 1 = 1 .. m
      BY <3>1
    <3>6. QED
      BY <2>1, <3>2, <3>3, <3>4, <3>5
  <2>2. CASE n # 1
    BY <2>2 DEF m
  <2>3. QED
    BY <2>1, <2>2
<1>12. QED
  BY <1>6, <1>10, <1>11 DEF text

--------------------------------------------------------------------------------
\* sizeOf of the shapes and items a file can have: in the word.
LEMMA SizeLemma ==
  ASSUME NEW shape \in Seq(Int), NEW itemsize \in U64
  PROVE  /\ Exact(shape, itemsize) \in Int
         /\ sizeOf(shape, itemsize) = Exact(shape, itemsize) % (U64Max + 1)
         /\ sizeOf(shape, itemsize) \in U64
<1>1. Len(shape) \in Nat /\ shape \in [1 .. Len(shape) -> Int]
  OBVIOUS
<1>2. /\ Exact(shape, itemsize) \in Int
      /\ sizeOf(shape, itemsize) = Exact(shape, itemsize) % (U64Max + 1)
  BY <1>1, SizeOfLemma
<1> DEFINE exact == Exact(shape, itemsize)  w == U64Max + 1
<1> HIDE DEF exact
<1>3. w \in Nat \ {0} /\ exact \in Int
  BY <1>2, WordAssumption DEF exact
<1>4. exact % w \in U64
  BY <1>3, WordAssumption DEF U64
<1>5. QED
  BY <1>2, <1>4 DEF exact

\* The remainder of what is not negative is no more, and of what is below
\* the divisor the same.
LEMMA SmallMod ==
  ASSUME NEW n \in Nat, NEW m \in Nat
  PROVE  n % (m + 1) <= n /\ (n <= m => n % (m + 1) = n)
OBVIOUS

\* The header ends with the blank that makes it a multiple of 16 long, of
\* the two bytes of a length.
HeaderOf(header, shape, dtype) ==
  /\ header.version \in {1, 2} /\ header.headerLen \in Nat
  /\ header.size = Prefix(header.version) + header.headerLen
  /\ header.size \in Nat
  /\ header.size % 16 = IF header.version = 1 THEN 0 ELSE 2
  /\ header.dtype = dtype /\ header.fortran = FALSE
  /\ header.shape = shapeToStr(shape)

LEMMA HeaderLemma ==
  ASSUME NEW shape, NEW dtype, NEW textLen \in Nat
  PROVE  HeaderOf(writeHeader(shape, dtype, textLen), shape, dtype)
<1> DEFINE header == writeHeader(shape, dtype, textLen)
           rest == (10 + textLen + 1) % 16
           quotient == (10 + textLen + 1) \div 16
<1>1. rest \in 0 .. 15 /\ quotient \in Int /\ 10 + textLen + 1 = quotient * 16 + rest
  BY DivLemma
<1>2. Padding(textLen) = 16 - rest
  BY DEF Padding
<1> HIDE DEF rest, quotient
<1>3. /\ textLen + Padding(textLen) + 1 \in Nat
      /\ 10 + (textLen + Padding(textLen) + 1) = (quotient + 1) * 16
  BY <1>1, <1>2
<1> DEFINE headerLen == textLen + Padding(textLen) + 1
           version == IF headerLen > HeaderLenMax THEN 2 ELSE 1
<1>4. header = [headerLen |-> headerLen, version |-> version, dtype |-> dtype, fortran |-> FALSE,
                shape |-> shapeToStr(shape), size |-> Prefix(version) + headerLen]
  BY DEF writeHeader
<1>5. version \in {1, 2}
  OBVIOUS
<1>6. headerLen \in Nat /\ 10 + headerLen = (quotient + 1) * 16
  BY <1>3
<1> HIDE DEF version, headerLen
<1>7. (Prefix(version) + headerLen) % 16 = IF version = 1 THEN 0 ELSE 2
  <2>1. CASE version = 1
    <3>1. Prefix(version) + headerLen = (quotient + 1) * 16
      BY <1>6, <2>1 DEF Prefix
    <3>2. QED
      BY <1>1, <2>1, <3>1
  <2>2. CASE version = 2
    <3>1. Prefix(version) + headerLen = (quotient + 1) * 16 + 2
      BY <1>6, <2>2 DEF Prefix
    <3>2. QED
      BY <1>1, <2>2, <3>1
  <2>3. QED
    BY <1>5, <2>1, <2>2
<1>8. Prefix(version) + headerLen \in Nat
  BY <1>5, <1>6 DEF Prefix
<1>9. QED
  BY <1>4, <1>5, <1>6, <1>7, <1>8 DEF HeaderOf

\* What write has written is found by parse.
FoundAsWritten(file, shape, dtype) ==
  LET size == sizeOf(shape, dtype.itemsize)
  IN  /\ (file.size - size) % 16 = IF file.version = 1 THEN 0 ELSE 2
      /\ parse(file) =
           IF size = 0 THEN {} ELSE {[dtype |-> dtype, shape |-> shape, at |-> file.size - size]}

LEMMA WrittenReadsBack ==
  ASSUME NEW shape \in Seq(Int), NEW itemsize \in U64, NEW textLen \in Nat, NEW dtype,
         dtype = [byteorder |-> "native", kind |-> "i", itemsize |-> itemsize]
  PROVE  FoundAsWritten(write(shape, dtype, textLen), shape, dtype)
<1> DEFINE header == writeHeader(shape, dtype, textLen)
           file == write(shape, dtype, textLen)
           size == sizeOf(shape, itemsize)
<1>1. /\ header.version \in {1, 2} /\ header.headerLen \in Nat
      /\ header.size = Prefix(header.version) + header.headerLen
      /\ header.size \in Nat
      /\ header.size % 16 = IF header.version = 1 THEN 0 ELSE 2
      /\ header.dtype = dtype /\ header.fortran = FALSE
      /\ header.shape = shapeToStr(shape)
  <2>1. HeaderOf(header, shape, dtype)
    BY HeaderLemma
  <2> HIDE DEF header
  <2>2. QED
    BY <2>1 DEF HeaderOf
<1>2. dtype.itemsize = itemsize /\ dtype.byteorder = "native"
  OBVIOUS
<1>3. size \in 0 .. U64Max /\ U64Max \in Nat
  BY SizeLemma, WordAssumption DEF U64
<1>4. /\ file.size = header.size + size
      /\ file.version = header.version /\ file.headerLen = header.headerLen
      /\ file.dtype = dtype /\ file.fortran = FALSE /\ file.shape = shapeToStr(shape)
  BY <1>1, <1>2 DEF write, writeHeader
<1>5. strToShape(file.shape) = shape
  BY <1>4, TupleReadsBack
<1> HIDE DEF file, header, size
<1>6. file.size - size = header.size
  BY <1>1, <1>3, <1>4
<1> DEFINE at == Prefix(file.version) + file.headerLen
<1>7. at = header.size
  BY <1>1, <1>4
<1>8. sizeOf(strToShape(file.shape), file.dtype.itemsize) = size
  BY <1>2, <1>4, <1>5 DEF size
<1>9. fits(file, at, size)
  <2>1. at + size \in Nat /\ at + size = file.size
    BY <1>1, <1>3, <1>4, <1>7
  <2>2. (at + size) % (U64Max + 1) <= at + size
    BY <1>3, <2>1, SmallMod
  <2>3. QED
    BY <2>1, <2>2 DEF fits
<1>10. at >= file.size <=> size = 0
  BY <1>1, <1>3, <1>4, <1>7
<1>11. parse(file) = IF \/ file.version \notin {1, 2} \/ file.dtype.byteorder = "foreign"
                        \/ file.fortran \/ at >= file.size
                        \/ ~fits(file, at, size)
                     THEN {} ELSE {[dtype |-> file.dtype, shape |-> shape, at |-> at]}
  BY <1>5, <1>8 DEF parse
<1>12. parse(file) = IF size = 0 THEN {} ELSE {[dtype |-> dtype, shape |-> shape, at |-> header.size]}
  BY <1>1, <1>2, <1>4, <1>7, <1>9, <1>10, <1>11
<1>13. QED
  BY <1>1, <1>2, <1>4, <1>6, <1>12 DEF FoundAsWritten, file, size

\* What parse finds in any file.
LEMMA FoundInFile ==
  ASSUME NEW file, NEW shape \in Seq(Int), file.shape = shapeToStr(shape),
         file.headerLen \in Nat, file.size \in Nat, file.dtype.itemsize \in U64,
         NEW data \in parse(file)
  PROVE  LET size == Exact(data.shape, data.dtype.itemsize)
         IN  /\ data.at < file.size
             /\ size >= 0 /\ data.at + size <= U64Max => data.at + size <= file.size
<1> DEFINE at == Prefix(file.version) + file.headerLen
           itemsize == file.dtype.itemsize
           wrapped == sizeOf(shape, itemsize)
           size == Exact(shape, itemsize)
<1>1. strToShape(file.shape) = shape
  BY TupleReadsBack
<1>2. /\ ~(at >= file.size) /\ fits(file, at, wrapped)
      /\ data = [dtype |-> file.dtype, shape |-> shape, at |-> at]
  BY <1>1 DEF parse
<1>3. size \in Int /\ wrapped = size % (U64Max + 1) /\ U64Max \in Nat
  BY SizeLemma, WordAssumption
<1>4. data.at = at /\ data.shape = shape /\ data.dtype.itemsize = itemsize
  BY <1>2
<1>5. at \in Nat
  BY DEF Prefix
<1>6. (at + wrapped) % (U64Max + 1) <= file.size
  BY <1>2 DEF fits
<1> HIDE DEF at, wrapped, size
<1>7. ASSUME size >= 0, at + size <= U64Max PROVE at + size <= file.size
  <2>1. wrapped = size
    <3>1. size \in Nat /\ size <= U64Max
      BY <1>3, <1>5, <1>7
    <3>2. QED
      BY <1>3, <3>1, SmallMod
  <2>2. (at + size) % (U64Max + 1) = at + size
    <3>1. at + size \in Nat
      BY <1>3, <1>5, <1>7
    <3>2. QED
      BY <1>3, <1>7, <3>1, SmallMod
  <2>3. QED
    BY <1>6, <2>1, <2>2
<1>8. data.at < file.size
  BY <1>2, <1>4, <1>5
<1>9. QED
  BY <1>4, <1>7, <1>8 DEF size, itemsize

--------------------------------------------------------------------------------
\* A call is of one function.
LEMMA OneCall ==
  ASSUME [HelpersNext]_helpersVars, call' # call
  PROVE  \/ call'.fn \in {"checkedAdd", "checkedMul", "checkedAlignUp", "byteRangeWithinBounds",
                          "splitFixedRecordTable", "appendAlignedByteRange"}
         \/ CallToName /\ call'.fn = "ToName"
         \/ CallNumericFormat /\ call'.fn = "numpyTypeEncoding"
         \/ CallWrite /\ call'.fn = "write"
         \/ CallParse /\ call'.fn = "parse"
<1>1. CallNext
  BY DEF HelpersNext, helpersVars
<1>2. CASE CallAdd \/ CallMul
  BY <1>2 DEF CallAdd, CallMul
<1>3. CASE CallAlignUp \/ CallWithin
  BY <1>3 DEF CallAlignUp, CallWithin
<1>4. CASE CallSplit \/ CallAppend
  BY <1>4 DEF CallSplit, CallAppend
<1>5. CASE CallToName
  BY <1>5 DEF CallToName
<1>6. CASE CallNumericFormat
  BY <1>6 DEF CallNumericFormat
<1>7. CASE CallWrite
  BY <1>7 DEF CallWrite
<1>8. CASE CallParse
  <2>1. \E shape, file, result :
          call' = [fn |-> "parse", shape |-> shape, file |-> file, result |-> result]
    BY <1>8, ZenonT(60) DEF CallParse
  <2>2. QED
    BY <1>8, <2>1
<1>9. QED
  BY <1>1, <1>2, <1>3, <1>4, <1>5, <1>6, <1>7, <1>8 DEF CallNext

\* The names of vulkan_helpers.generated.hpp, for any enumerations in which
\* no name is given twice: a number reads back from what is printed exactly
\* when it has one name, from its first name always, and from a further one
\* unless the type is the descriptor or the format type.  And its formats:
\* but for one, the item of a NumPy file is the block, and none is dumped as
\* raw bytes.
THEOREM NamesAndFormatsReadBack == HelpersSpec => []GeneratedHelpersExact
<1>1. HelpersInit => GeneratedHelpersExact
  BY DEF HelpersInit, GeneratedHelpersExact, NamesReadBack, ItemIsBlock
<1>2. ASSUME GeneratedHelpersExact, [HelpersNext]_helpersVars PROVE GeneratedHelpersExact'
  <2>1. CASE call' = call
    BY <1>2, <2>1 DEF GeneratedHelpersExact, NamesReadBack, ItemIsBlock
  <2>2. CASE call' # call /\ call'.fn \notin {"ToName", "numpyTypeEncoding"}
    BY <2>2 DEF GeneratedHelpersExact, NamesReadBack, ItemIsBlock
  <2>3. CASE CallToName /\ call'.fn = "ToName"
    <3>1. PICK type \in Enumerations, e \in {NoNumber} \cup 0 .. 9 :
            call' = [fn |-> "ToName", type |-> type, e |-> e, result |-> ToName(type, e)]
      BY <2>3 DEF CallToName
    <3>2. call'.type = type /\ call'.e = e /\ call'.result = ToName(type, e)
      BY <3>1
    <3>3. PrintedReadsBack(call'.type, call'.e, call'.result)
      BY <3>2, ToNameReadsBack
    <3>4. NamesReadBack'
      BY <3>3 DEF NamesReadBack, PrintedReadsBack, FirstNameOnly
    <3>5. QED
      BY <2>3, <3>4 DEF GeneratedHelpersExact, ItemIsBlock
  <2>4. CASE CallNumericFormat /\ call'.fn = "numpyTypeEncoding"
    <3>1. PICK format \in SizedFormats :
            call' = [fn |-> "numpyTypeEncoding", format |-> format,
                     result |-> numpyTypeEncoding(componentNumericFormat(format))]
      BY <2>4 DEF CallNumericFormat
    <3>2. call'.format = format /\ call'.result = numpyTypeEncoding(componentNumericFormat(format))
      BY <3>1
    <3>3. elementSizeFromBlockSize(blockSize(format)) = blockSize(format) <=> format # "SBS80_ARM"
      BY BlockSizes, ElementSizes
    <3>4. /\ call'.result \subseteq {"b", "i", "u", "f"}
          /\ call'.result = {} <=> componentNumericFormat(format) \in {"USCALED", "SSCALED", "SRGB"}
      BY <3>2, NumericFormats, Encodings
    <3>5. ItemIsBlock'
      BY <3>2, <3>3, <3>4 DEF ItemIsBlock
    <3>6. QED
      BY <2>4, <3>5 DEF GeneratedHelpersExact, NamesReadBack
  <2>5. QED
    BY <1>2, <2>1, <2>2, <2>3, <2>4, OneCall
<1>3. QED
  BY <1>1, <1>2, PTL DEF HelpersSpec

\* numpy::parse gives back the type, the shape and the data of a file that
\* numpy::write wrote, of any shape, item and header, but of one without
\* data; and the data starts on a multiple of 16 bytes after a header of
\* version 1 only.
THEOREM NumpyFilesReadBack == HelpersSpec => []NumpyReadsBack
<1>1. HelpersInit => NumpyReadsBack
  BY DEF HelpersInit, NumpyReadsBack
<1>2. ASSUME NumpyReadsBack, [HelpersNext]_helpersVars PROVE NumpyReadsBack'
  <2>1. CASE call' = call
    BY <1>2, <2>1 DEF NumpyReadsBack
  <2>2. CASE call' # call /\ call'.fn # "write"
    BY <2>2 DEF NumpyReadsBack
  <2>3. CASE CallWrite
    <3>1. PICK shape \in Shapes, itemsize \in ItemSizes, textLen \in TextLens :
            LET dtype == [byteorder |-> "native", kind |-> "i", itemsize |-> itemsize]
                file == write(shape, dtype, textLen)
            IN  call' = [fn |-> "write", shape |-> shape, dtype |-> dtype, file |-> file,
                         result |-> parse(file)]
      BY <2>3 DEF CallWrite
    <3> DEFINE dtype == [byteorder |-> "native", kind |-> "i", itemsize |-> itemsize]
               file == write(shape, dtype, textLen)
    <3>2. /\ call'.shape = shape /\ call'.dtype = dtype /\ call'.file = file
          /\ call'.result = parse(file)
      BY <3>1
    <3>3. shape \in Seq(Int) /\ itemsize \in U64 /\ textLen \in Nat
      BY HelpersAssumption
    <3>4. FoundAsWritten(file, shape, dtype)
      BY <3>3, WrittenReadsBack
    <3> HIDE DEF dtype, file
    <3>5. QED
      BY <3>2, <3>4 DEF NumpyReadsBack, FoundAsWritten
  <2>4. QED
    BY <1>2, <2>1, <2>2, <2>3, OneCall
<1>3. QED
  BY <1>1, <1>2, PTL DEF HelpersSpec

\* numpy::parse hands out data within the file it was given, whatever the
\* header says, if the size of the data and its end do not leave the word.
THEOREM NumpyDataIsInFile == HelpersSpec => []ParsedInFile
<1>1. HelpersInit => ParsedInFile
  BY DEF HelpersInit, ParsedInFile
<1>2. ASSUME ParsedInFile, [HelpersNext]_helpersVars PROVE ParsedInFile'
  <2>1. CASE call' = call
    BY <1>2, <2>1 DEF ParsedInFile
  <2>2. CASE call' # call /\ call'.fn # "parse"
    BY <2>2 DEF ParsedInFile
  <2>3. CASE CallParse
    <3>1. PICK shape \in Shapes, itemsize \in ItemSizes, textLen \in TextLens, size \in FileSizes,
               version \in 1 .. 3, byteorder \in {"native", "foreign"}, fortran \in BOOLEAN :
            LET dtype == [byteorder |-> byteorder, kind |-> "i", itemsize |-> itemsize]
                file == [writeHeader(shape, dtype, textLen) EXCEPT
                           !.size = size, !.version = version, !.fortran = fortran]
            IN  call' = [fn |-> "parse", shape |-> shape, file |-> file, result |-> parse(file)]
      BY <2>3 DEF CallParse
    <3> DEFINE dtype == [byteorder |-> byteorder, kind |-> "i", itemsize |-> itemsize]
               header == writeHeader(shape, dtype, textLen)
               file == [header EXCEPT !.size = size, !.version = version, !.fortran = fortran]
    <3>2. call'.file = file /\ call'.result = parse(file)
      BY <3>1
    <3>3. shape \in Seq(Int) /\ itemsize \in U64 /\ textLen \in Nat /\ size \in Nat
      BY HelpersAssumption
    <3>4. header.headerLen \in Nat
      <4>1. HeaderOf(header, shape, dtype)
        BY <3>3, HeaderLemma
      <4>2. QED
        BY <4>1 DEF HeaderOf
    <3>5. /\ file.shape = shapeToStr(shape) /\ file.headerLen = header.headerLen /\ file.size = size
          /\ file.dtype = dtype
      BY DEF writeHeader
    <3>6. dtype.itemsize = itemsize
      OBVIOUS
    <3> HIDE DEF dtype, header, file
    <3>7. \A data \in parse(file) :
            LET exact == Exact(data.shape, data.dtype.itemsize)
            IN  /\ data.at < file.size
                /\ exact >= 0 /\ data.at + exact <= U64Max => data.at + exact <= file.size
      BY <3>3, <3>4, <3>5, <3>6, FoundInFile
    <3>8. QED
      BY <3>2, <3>7 DEF ParsedInFile
  <2>4. QED
    BY <1>2, <2>1, <2>2, <2>3, OneCall
<1>3. QED
  BY <1>1, <1>2, PTL DEF HelpersSpec
================================================================================
