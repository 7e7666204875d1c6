--------------------------- MODULE SectionIndexTable ---------------------------
(***************************************************************************)
(* class SectionIndexTable of src/section_index_table.hpp: the list of     *)
(* sections and the loop of Update that places them, one iteration a step. *)
(***************************************************************************)
EXTENDS SectionLayout, Sequences

CONSTANTS
  SectionSizes,   \* the sizes AddSection is called with
  Alignments,     \* the alignments AddSection is called with
  MaxSections     \* bound: the number of sections added

\* The callers pass powers of two, which divide 2^64, and sections whose
\* total is far below it (a FlatBuffer is at most 2^31 bytes).
ASSUME SectionAssumption ==
  /\ MaxSections \in Nat
  /\ SectionSizes \subseteq U64
  /\ Alignments \subseteq U64 \ {0}
  /\ \A a \in Alignments : (U64Max + 1) % a = 0
  /\ \A n \in SectionSizes, a \in Alignments : MaxSections * (n + a) <= U64Max

VARIABLES
  sections,   \* sections_, in the order they were added
  current,    \* the iterator of Update's loop; 0 outside Update
  updated     \* no section was added since the last Update returned

vars == <<sections, current, updated>>

Init ==
  /\ sections = <<>>
  /\ current = 0
  /\ updated = FALSE

AddSection(size, alignment) ==
  /\ current = 0
  /\ Len(sections) < MaxSections
  /\ sections' = Append(sections, SectionIndex(size, alignment))
  /\ updated' = FALSE
  /\ UNCHANGED current

\* size() - 1 wraps on an empty table, and the loop would run off the list:
\* the only caller, WriteTo, has added five sections.
BeginUpdate ==
  /\ current = 0
  /\ sections # <<>>
  /\ current' = 1
  /\ UNCHANGED <<sections, updated>>

\* The next section placed before this one is padded.
UpdateOrderBug ==
  /\ current \in 1 .. Len(sections) - 1
  /\ sections' = [sections EXCEPT
       ![current] = UpdatePadding(@, sections[current + 1]),
       ![current + 1] = UpdateOffset(@, sections[current])]
  /\ current' = current + 1
  /\ UNCHANGED updated

\* One iteration: pad this section for the next one, and place the next one.
UpdateSection ==
  /\ current \in 1 .. Len(sections) - 1
  /\ LET section == UpdatePadding(sections[current], sections[current + 1])
     IN  sections' = [sections EXCEPT ![current] = section,
                                      ![current + 1] = UpdateOffset(@, section)]
  /\ current' = current + 1
  /\ UNCHANGED updated

EndUpdate ==
  /\ current # 0
  /\ current = Len(sections)
  /\ current' = 0
  /\ updated' = TRUE
  /\ UNCHANGED sections

Next ==
  \/ \E size \in SectionSizes, alignment \in Alignments : AddSection(size, alignment)
  \/ BeginUpdate
  \/ UpdateSection
  \/ EndUpdate

Spec == Init /\ [][Next]_vars

--------------------------------------------------------------------------------
\* The sections Update has placed: all of them once it has returned.
Placed == IF updated THEN 1 .. Len(sections) ELSE 1 .. current

\* assert(section.IsAligned()) in Update, of every section placed so far and
\* not only of those the loop passes: the last section is never asserted.
PlacedAligned == \A i \in Placed : IsAligned(sections[i])

\* A placed section starts at or after the end of the one before it, and by
\* less than its own alignment: sections neither overlap nor leave room for
\* an aligned byte between them, whatever a previous Update left behind.
PlacedTight ==
  \A i \in Placed : i > 1 =>
    LET end == sections[i - 1].offset + sections[i - 1].size
    IN  /\ sections[i].offset = end + sections[i - 1].padding
        /\ sections[i].offset \in end .. end + sections[i].alignment - 1

\* What Update has placed, at any time and after any number of calls, is
\* aligned and tight.
SectionsLaidOut == PlacedAligned /\ PlacedTight

\* An offset once given is never taken back: when sections are added and
\* Update runs again, it finds every earlier section where it already was,
\* so what was read through AddSection's references stays true.
OffsetsKept ==
  [][\A i \in 1 .. Len(sections) :
       sections[i].offset # 0 => sections'[i].offset = sections[i].offset]_vars
================================================================================
