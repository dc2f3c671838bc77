--------------------------- MODULE ChunkerProofs ---------------------------
(***************************************************************************)
(* Theorems about Chunker, for any documents and any token counts.         *)
(***************************************************************************)
EXTENDS Chunker, SequenceTheorems, NaturalsInduction, WellFoundedInduction, TLAPS

\* Where the loops are: what TypeOK needs to be inductive.
Places ==
    /\ paragraph >= 1
    /\ pc # "sections" => section <= Len(doc) /\ doc[section].tokens > TargetTokens
    /\ pc = "tail" => next <= Len(units) /\ Len(tail) <= Len(current)

\* What the loops have still to put into a chunk is at hand.
Progress ==
    /\ pc = "split" =>
          \A p \in 1 .. paragraph - 1 : UnitsIn(UnitsOf(section, p)) \subseteq UnitsIn(units)
    /\ pc \in {"pack", "tail"} => UnitsOfSection(section) \subseteq UnitsIn(units)
    /\ pc = "pack" =>
          \A k \in 1 .. next - 1 : k \in DOMAIN units =>
              units[k] \in Chunked(chunks) \cup UnitsIn(current)
    /\ pc = "tail" =>
          \A k \in 1 .. next - 1 : units[k] \in Chunked(chunks)

-----------------------------------------------------------------------------
(***************************************************************************)
(* What the operators on groups do.                                        *)
(***************************************************************************)
\* What a group consists of.
LEMMA UnitAt ==
    ASSUME NEW g \in Group, NEW i \in 1 .. Len(g)
    PROVE  g[i] \in Unit /\ g[i].tokens \in Nat
<1>1. g[i] \in Unit
  BY DEF Group
<1> QED BY <1>1 DEF Unit

\* Adding a unit to a group adds it to what the group has.
LEMMA UnitsInAppend ==
    ASSUME NEW g \in Group, NEW u \in Unit
    PROVE  /\ Append(g, u) \in Group
           /\ UnitsIn(Append(g, u)) = UnitsIn(g) \cup {u}
<1>1. Append(g, u) \in Group
  BY DEF Group
<1>2. UnitsIn(Append(g, u)) \subseteq UnitsIn(g) \cup {u}
  BY DEF Group, UnitsIn
<1>3. UnitsIn(g) \subseteq UnitsIn(Append(g, u))
  <2>1. \A i \in DOMAIN g : i \in DOMAIN Append(g, u) /\ Append(g, u)[i] = g[i]
    BY DEF Group
  <2> QED BY <2>1 DEF UnitsIn
<1>4. u \in UnitsIn(Append(g, u))
  <2>1. Len(g) + 1 \in DOMAIN Append(g, u) /\ Append(g, u)[Len(g) + 1] = u
    BY DEF Group
  <2> QED BY <2>1 DEF UnitsIn
<1> QED BY <1>1, <1>2, <1>3, <1>4

\* A concatenation has what its two parts have.
LEMMA UnitsInConcat ==
    ASSUME NEW g \in Group, NEW h \in Group
    PROVE  /\ g \o h \in Group
           /\ UnitsIn(g) \subseteq UnitsIn(g \o h)
           /\ UnitsIn(h) \subseteq UnitsIn(g \o h)
<1>1. g \o h \in Group
  BY DEF Group
<1>2. \A i \in DOMAIN g : i \in DOMAIN (g \o h) /\ (g \o h)[i] = g[i]
  BY DEF Group
<1>3. \A i \in DOMAIN h : Len(g) + i \in DOMAIN (g \o h) /\ (g \o h)[Len(g) + i] = h[i]
  BY DEF Group
<1>4. UnitsIn(g) \subseteq UnitsIn(g \o h)
  BY <1>2 DEF UnitsIn
<1>5. UnitsIn(h) \subseteq UnitsIn(g \o h)
  BY <1>3 DEF UnitsIn
<1> QED BY <1>1, <1>4, <1>5

\* A further chunk adds its units to what is chunked.
LEMMA ChunkedAppend ==
    ASSUME NEW cs \in Seq(Group), NEW g \in Group
    PROVE  /\ Append(cs, g) \in Seq(Group)
           /\ Chunked(cs) \subseteq Chunked(Append(cs, g))
           /\ UnitsIn(g) \subseteq Chunked(Append(cs, g))
<1>1. \A j \in DOMAIN cs : j \in DOMAIN Append(cs, g) /\ Append(cs, g)[j] = cs[j]
  OBVIOUS
<1>2. Len(cs) + 1 \in DOMAIN Append(cs, g) /\ Append(cs, g)[Len(cs) + 1] = g
  OBVIOUS
<1> QED BY <1>1, <1>2 DEF Chunked

\* The units of a paragraph are units.
LEMMA UnitsOfType ==
    ASSUME doc \in Seq(Section), TargetTokens \in Nat,
           NEW s \in DOMAIN doc, NEW p \in DOMAIN doc[s].paragraphs
    PROVE  UnitsOf(s, p) \in Group
<1>1. doc[s] \in Section /\ s \in Nat
  OBVIOUS
<1>2. doc[s].paragraphs[p] \in Paragraph /\ p \in Nat
  BY <1>1 DEF Section
<1> DEFINE text == doc[s].paragraphs[p]
<1>3. text.tokens \in Nat /\ text.sentences \in Seq(Nat)
  BY <1>2 DEF Paragraph
<1>4. CASE text.tokens <= TargetTokens
  <2>1. [section |-> s, paragraph |-> p, sentence |-> 0, tokens |-> text.tokens] \in Unit
    BY <1>1, <1>2, <1>3 DEF Unit
  <2> QED BY <1>4, <2>1 DEF UnitsOf, Group
<1>5. CASE ~ (text.tokens <= TargetTokens)
  <2>1. \A i \in 1 .. Len(text.sentences) :
           [section |-> s, paragraph |-> p, sentence |-> i, tokens |-> text.sentences[i]] \in Unit
    BY <1>1, <1>2, <1>3 DEF Unit
  <2>2. Len(text.sentences) \in Nat
    BY <1>3
  <2> QED BY <1>5, <2>1, <2>2 DEF UnitsOf, Group
<1> QED BY <1>4, <1>5

-----------------------------------------------------------------------------
(***************************************************************************)
(* Types.                                                                  *)
(***************************************************************************)
\* The kinds of the variables the loops count with.
LEMMA Shapes ==
    ASSUME TypeOK
    PROVE  /\ units \in Group /\ current \in Group /\ tail \in Group
           /\ Len(units) \in Nat /\ Len(current) \in Nat /\ Len(tail) \in Nat
           /\ currentTokens \in Nat /\ tailTokens \in Nat
           /\ next \in Nat /\ next >= 1
<1> USE ChunkerAssumption
<1>1. units \in Group /\ current \in Group /\ tail \in Group
  BY DEF TypeOK
<1>2. currentTokens \in Nat /\ tailTokens \in Nat /\ next \in Nat /\ next >= 1
  BY DEF TypeOK
<1> QED BY <1>1, <1>2 DEF Group

\* The unit _pack is at.
LEMMA NextUnit ==
    ASSUME TypeOK, next <= Len(units)
    PROVE  next \in DOMAIN units /\ units[next] \in Unit /\ units[next].tokens \in Nat
<1>1. next \in 1 .. Len(units)
  BY Shapes
<1> QED BY <1>1, Shapes, UnitAt DEF Group

LEMMA InitTyped == Init => TypeOK /\ Places
BY ChunkerAssumption DEF Init, TypeOK, Places, Group

\* The types and places survive every step of the loops.
LEMMA StepTyped ==
    ASSUME TypeOK, Places, [Next]_vars
    PROVE  TypeOK' /\ Places'
<1> USE ChunkerAssumption
<1>0. doc[section] \in Section \/ section = Len(doc) + 1
  BY DEF TypeOK
<1>1. CASE DropSection
  BY <1>1 DEF DropSection, AtSection, TypeOK, Places, packVars
<1>2. CASE TakeSection
  <2>1. section \in DOMAIN doc /\ Whole(section) \in Unit
    BY <1>0, <1>2 DEF TakeSection, AtSection, TypeOK, Whole, Unit, Section
  <2>2. <<Whole(section)>> \in Group
    BY <2>1 DEF Group
  <2>3. chunks' \in Seq(Group)
    BY <1>2, <2>2 DEF TakeSection, TypeOK
  <2> QED BY <1>2, <2>3 DEF TakeSection, AtSection, TypeOK, Places, packVars
<1>3. CASE SplitSection
  <2>1. units' \in Group
    BY <1>3 DEF SplitSection, Group
  <2> QED BY <1>3, <2>1 DEF SplitSection, AtSection, TypeOK, Places, packVars
<1>4. CASE SplitParagraph
  <2>1. section \in DOMAIN doc /\ paragraph \in DOMAIN doc[section].paragraphs
    BY <1>0, <1>4 DEF SplitParagraph, TypeOK, Places, Section
  <2>2. UnitsOf(section, paragraph) \in Group
    BY <2>1, UnitsOfType DEF TypeOK
  <2>3. units' \in Group
    BY <1>4, <2>2, UnitsInConcat DEF SplitParagraph, TypeOK
  <2> QED BY <1>4, <2>3 DEF SplitParagraph, TypeOK, Places, packVars
<1>5. CASE BeginPack
  <2>1. current' \in Group
    BY <1>5 DEF BeginPack, Group
  <2> QED BY <1>5, <2>1 DEF BeginPack, TypeOK, Places
<1>6. CASE AppendUnit
  <2>1. units[next] \in Unit /\ units[next].tokens \in Nat
    BY <1>6, NextUnit DEF AppendUnit, AtUnit
  <2>2. current' \in Group
    BY <1>6, <2>1, Shapes, UnitsInAppend DEF AppendUnit
  <2>3. currentTokens' \in Nat /\ next' \in Nat \ {0}
    <3>1. currentTokens' = currentTokens + units[next].tokens /\ next' = next + 1
      BY <1>6 DEF AppendUnit
    <3> QED BY <2>1, <3>1, Shapes
  <2> QED BY <1>6, <2>2, <2>3 DEF AppendUnit, AtUnit, TypeOK, Places
<1>7. CASE CloseGroup
  <2>1. chunks' \in Seq(Group) /\ tail' \in Group
    BY <1>7, ChunkedAppend DEF CloseGroup, TypeOK, Group
  <2>2. next <= Len(units) /\ Len(tail') <= Len(current)
    BY <1>7, Shapes DEF CloseGroup, AtUnit
  <2> QED BY <1>7, <2>1, <2>2 DEF CloseGroup, AtUnit, TypeOK, Places
<1>8. CASE CarryUnit
  <2>1. Previous \in Unit /\ Previous.tokens \in Nat
    <3>1. Len(current) - Len(tail) \in 1 .. Len(current)
      BY <1>8, Shapes DEF CarryUnit, Fits
    <3> QED BY <3>1, Shapes, UnitAt DEF Previous
  <2>2. tail' \in Group /\ Len(tail') = Len(tail) + 1
    BY <1>8, <2>1, Shapes DEF CarryUnit, Group
  <2>3. tailTokens' \in 0 .. OverlapTokens
    BY <1>8, <2>1, Shapes DEF CarryUnit, Fits
  <2>4. Len(tail') <= Len(current')
    BY <1>8, <2>2, Shapes DEF CarryUnit, Fits
  <2> QED BY <1>8, <2>2, <2>3, <2>4 DEF CarryUnit, TypeOK, Places
<1>9. CASE BeginGroup
  <2>1. units[next] \in Unit /\ units[next].tokens \in Nat
    BY <1>9, NextUnit DEF BeginGroup, Places
  <2>2. current' \in Group
    BY <1>9, <2>1, Shapes, UnitsInAppend DEF BeginGroup
  <2>3. currentTokens' \in Nat /\ next' \in Nat \ {0}
    <3>1. currentTokens' = tailTokens + units[next].tokens /\ next' = next + 1
      BY <1>9 DEF BeginGroup
    <3> QED BY <2>1, <3>1, Shapes
  <2> QED BY <1>9, <2>2, <2>3 DEF BeginGroup, TypeOK, Places
<1>10. CASE LastGroup
  <2>1. chunks' \in Seq(Group)
    BY <1>10, ChunkedAppend DEF LastGroup, TypeOK
  <2> QED BY <1>10, <2>1 DEF LastGroup, TypeOK, Places, packVars
<1>11. CASE UNCHANGED vars
  BY <1>11 DEF vars, packVars, TypeOK, Places
<1> QED BY <1>1, <1>2, <1>3, <1>4, <1>5, <1>6, <1>7, <1>8, <1>9, <1>10, <1>11 DEF Next

(***************************************************************************)
(* The variables of the chunker keep their types; in particular what _pack *)
(* carries forward from a group never exceeds the overlap.                 *)
(***************************************************************************)
THEOREM ChunkerTypeCorrect == Spec => []TypeOK
<1>1. TypeOK /\ Places /\ [Next]_vars => TypeOK' /\ Places'
  BY StepTyped
<1> QED BY InitTyped, <1>1, PTL DEF Spec

-----------------------------------------------------------------------------
(***************************************************************************)
(* Nothing is lost.                                                        *)
(***************************************************************************)
\* A step leaves the document alone, and what is chunked stays chunked.
LEMMA StepKeeps ==
    ASSUME TypeOK, Places, [Next]_vars
    PROVE  /\ doc' = doc
           /\ Chunked(chunks) \subseteq Chunked(chunks')
<1>1. doc' = doc
  BY DEF Next, DropSection, TakeSection, SplitSection, SplitParagraph, BeginPack,
         AppendUnit, CloseGroup, CarryUnit, BeginGroup, LastGroup, vars
<1>2. CASE TakeSection
  <2>1. <<Whole(section)>> \in Group
    <3>1. doc[section] \in Section /\ section \in Nat
      BY <1>2 DEF TakeSection, AtSection, TypeOK
    <3> QED BY <3>1 DEF Whole, Group, Unit, Section
  <2> QED BY <1>1, <1>2, <2>1, ChunkedAppend DEF TakeSection, TypeOK
<1>3. CASE CloseGroup \/ LastGroup
  BY <1>1, <1>3, ChunkedAppend DEF CloseGroup, LastGroup, TypeOK
<1>4. CASE UNCHANGED chunks
  BY <1>1, <1>4
<1> QED BY <1>2, <1>3, <1>4 DEF Next, DropSection, SplitSection, SplitParagraph,
              BeginPack, AppendUnit, CarryUnit, BeginGroup, vars

\* What a section consists of depends on the document alone.
LEMMA SectionsFixed ==
    ASSUME doc' = doc
    PROVE  /\ \A s : UnitsOfSection(s)' = UnitsOfSection(s)
           /\ \A s, p : UnitsOf(s, p)' = UnitsOf(s, p)
BY DEF UnitsOfSection, UnitsOf, Kept, Whole

\* A section is done with when its units are chunked.
LEMMA SectionDone ==
    ASSUME TypeOK, NothingIsLost, doc' = doc, section' = section + 1,
           Chunked(chunks) \subseteq Chunked(chunks'),
           UnitsOfSection(section) \subseteq Chunked(chunks')
    PROVE  NothingIsLost'
<1>1. \A s \in 1 .. section' - 1 : s \in 1 .. section - 1 \/ s = section
  BY DEF TypeOK
<1> QED BY <1>1, SectionsFixed DEF NothingIsLost

\* Until then nothing changes for those behind it.
LEMMA SectionStays ==
    ASSUME NothingIsLost, doc' = doc, section' = section,
           Chunked(chunks) \subseteq Chunked(chunks')
    PROVE  NothingIsLost'
BY SectionsFixed DEF NothingIsLost

LEMMA InitLost == Init => Progress /\ NothingIsLost
BY DEF Init, Progress, NothingIsLost

\* Each step moves units on towards the chunks and leaves none behind.
LEMMA StepLost ==
    ASSUME TypeOK, Places, Progress, NothingIsLost, [Next]_vars
    PROVE  Progress' /\ NothingIsLost'
<1>a. doc' = doc /\ Chunked(chunks) \subseteq Chunked(chunks')
  BY StepKeeps
<1>b. /\ \A s : UnitsOfSection(s)' = UnitsOfSection(s)
      /\ \A s, p : UnitsOf(s, p)' = UnitsOf(s, p)
  BY <1>a, SectionsFixed
<1>1. CASE DropSection
  <2>1. UnitsOfSection(section) = {}
    BY <1>1 DEF DropSection, UnitsOfSection
  <2> QED BY <1>1, <1>a, <2>1, SectionDone DEF DropSection, AtSection, Progress
<1>2. CASE TakeSection
  <2>1. UnitsOfSection(section) = {Whole(section)}
    BY <1>2 DEF TakeSection, UnitsOfSection
  <2>2. <<Whole(section)>> \in Group
    <3>1. doc[section] \in Section /\ section \in Nat
      BY <1>2 DEF TakeSection, AtSection, TypeOK
    <3> QED BY <3>1 DEF Whole, Group, Unit, Section
  <2>3. Whole(section) \in UnitsIn(<<Whole(section)>>)
    BY DEF UnitsIn
  <2>4. UnitsOfSection(section) \subseteq Chunked(chunks')
    BY <1>2, <2>1, <2>2, <2>3, ChunkedAppend DEF TakeSection, TypeOK
  <2> QED BY <1>2, <1>a, <2>4, SectionDone DEF TakeSection, AtSection, Progress
<1>3. CASE SplitSection
  BY <1>3, <1>a, SectionStays DEF SplitSection, Progress
<1>4. CASE SplitParagraph
  <2>1. section \in DOMAIN doc /\ paragraph \in DOMAIN doc[section].paragraphs
    <3>1. section \in DOMAIN doc /\ doc[section] \in Section
      BY <1>4 DEF SplitParagraph, TypeOK, Places
    <3> QED BY <1>4, <3>1 DEF SplitParagraph, TypeOK, Places, Section
  <2>2. UnitsOf(section, paragraph) \in Group
    BY <2>1, UnitsOfType, ChunkerAssumption DEF TypeOK
  <2>3. /\ UnitsIn(units) \subseteq UnitsIn(units')
        /\ UnitsIn(UnitsOf(section, paragraph)) \subseteq UnitsIn(units')
    BY <1>4, <2>2, UnitsInConcat DEF SplitParagraph, TypeOK
  <2>4. \A p \in 1 .. paragraph' - 1 : p \in 1 .. paragraph - 1 \/ p = paragraph
    BY <1>4 DEF SplitParagraph, TypeOK
  <2>5. Progress'
    BY <1>4, <1>b, <2>3, <2>4 DEF SplitParagraph, Progress
  <2> QED BY <1>4, <1>a, <2>5, SectionStays DEF SplitParagraph
<1>5. CASE BeginPack
  <2>1. DOMAIN doc[section].paragraphs \subseteq 1 .. paragraph - 1
    <3>1. doc[section] \in Section
      BY <1>5 DEF BeginPack, TypeOK, Places
    <3> QED BY <1>5, <3>1 DEF BeginPack, TypeOK, Section
  <2>2. doc[section].tokens > TargetTokens /\ doc[section].tokens \in Nat
    <3>1. doc[section] \in Section
      BY <1>5 DEF BeginPack, TypeOK, Places
    <3> QED BY <1>5, <3>1 DEF BeginPack, Places, Section
  <2>3. UnitsOfSection(section) \subseteq UnitsIn(units)
    BY <1>5, <2>1, <2>2, ChunkerAssumption DEF BeginPack, Progress, UnitsOfSection
  <2>4. Progress'
    BY <1>5, <1>b, <2>3 DEF BeginPack, Progress
  <2> QED BY <1>5, <1>a, <2>4, SectionStays DEF BeginPack
<1>6. CASE AppendUnit
  <2>1. units[next] \in Unit
    BY <1>6, NextUnit DEF AppendUnit, AtUnit
  <2>2. UnitsIn(current') = UnitsIn(current) \cup {units[next]}
    BY <1>6, <2>1, Shapes, UnitsInAppend DEF AppendUnit
  <2>3. \A k \in 1 .. next' - 1 : k \in 1 .. next - 1 \/ k = next
    BY <1>6, Shapes DEF AppendUnit
  <2>4. Progress'
    BY <1>6, <1>b, <2>2, <2>3 DEF AppendUnit, AtUnit, Progress
  <2> QED BY <1>6, <1>a, <2>4, SectionStays DEF AppendUnit
<1>7. CASE CloseGroup
  <2>1. UnitsIn(current) \subseteq Chunked(chunks')
    BY <1>7, ChunkedAppend DEF CloseGroup, TypeOK
  <2>2. \A k \in 1 .. next - 1 : k \in DOMAIN units
    BY <1>7, Shapes DEF CloseGroup, AtUnit, Group
  <2>3. Progress'
    BY <1>7, <1>a, <1>b, <2>1, <2>2 DEF CloseGroup, AtUnit, Progress
  <2> QED BY <1>7, <1>a, <2>3, SectionStays DEF CloseGroup
<1>8. CASE CarryUnit
  <2>1. Progress'
    BY <1>8, <1>b DEF CarryUnit, Progress
  <2> QED BY <1>8, <1>a, <2>1, SectionStays DEF CarryUnit
<1>9. CASE BeginGroup
  <2>1. units[next] \in Unit
    BY <1>9, NextUnit DEF BeginGroup, Places
  <2>2. units[next] \in UnitsIn(current')
    BY <1>9, <2>1, Shapes, UnitsInAppend DEF BeginGroup
  <2>3. \A k \in 1 .. next' - 1 : k \in 1 .. next - 1 \/ k = next
    BY <1>9, Shapes DEF BeginGroup
  <2>4. Progress'
    BY <1>9, <1>b, <2>2, <2>3 DEF BeginGroup, Progress
  <2> QED BY <1>9, <1>a, <2>4, SectionStays DEF BeginGroup
<1>10. CASE LastGroup
  <2>1. UnitsIn(current) \subseteq Chunked(chunks')
    <3>1. CASE current # <<>>
      BY <1>10, <3>1, ChunkedAppend DEF LastGroup, TypeOK
    <3>2. CASE current = <<>>
      BY <3>2 DEF UnitsIn
    <3> QED BY <3>1, <3>2
  <2>2. \A k \in DOMAIN units : k \in 1 .. next - 1
    BY <1>10, Shapes DEF LastGroup, Group
  <2>3. UnitsIn(units) \subseteq Chunked(chunks')
    BY <1>10, <1>a, <2>1, <2>2 DEF LastGroup, Progress, UnitsIn
  <2>4. UnitsOfSection(section) \subseteq Chunked(chunks')
    BY <1>10, <2>3 DEF LastGroup, Progress
  <2>5. Progress'
    BY <1>10 DEF LastGroup, Progress
  <2> QED BY <1>10, <1>a, <2>4, <2>5, SectionDone DEF LastGroup
<1>11. CASE UNCHANGED vars
  <2>1. Progress'
    BY <1>11, <1>b DEF vars, packVars, Progress
  <2> QED BY <1>11, <1>a, <2>1, SectionStays DEF vars
<1> QED BY <1>1, <1>2, <1>3, <1>4, <1>5, <1>6, <1>7, <1>8, <1>9, <1>10, <1>11 DEF Next

(***************************************************************************)
(* Every unit of every section behind the chunker is in a chunk, for any   *)
(* target, overlap and token counts, those included that no group can fit. *)
(***************************************************************************)
THEOREM ChunkerLosesNothing == Spec => []NothingIsLost
<1> DEFINE Inv == TypeOK /\ Places /\ Progress /\ NothingIsLost
<1>1. Init => Inv
  BY InitTyped, InitLost
<1>2. Inv /\ [Next]_vars => Inv'
  BY StepTyped, StepLost
<1>3. Inv => NothingIsLost
  OBVIOUS
<1> QED BY <1>1, <1>2, <1>3, PTL DEF Spec

-----------------------------------------------------------------------------
(***************************************************************************)
(* The order of the chunks and what they share.                            *)
(***************************************************************************)
\* The units of a section under way are in the order of the document.
UnitsSorted ==
    pc # "sections" =>
        /\ \A i \in DOMAIN units : units[i].section = section
        /\ pc = "split" => \A i \in DOMAIN units : units[i].paragraph < paragraph
        /\ \A i, j \in DOMAIN units : i < j => Before(units[i], units[j])

\* current is the run of units that ends in front of next, and tail is its end.
Runs ==
    /\ pc \in {"pack", "tail"} =>
          /\ Len(current) < next
          /\ \A i \in 1 .. Len(current) : current[i] = units[next - 1 - Len(current) + i]
          /\ next > 1 => current # <<>>
          /\ next <= Len(units) + 1
    /\ pc = "tail" =>
          \A i \in 1 .. Len(tail) : tail[i] = current[Len(current) - Len(tail) + i]

Latest == chunks[Len(chunks)]

\* The last chunk is behind what the next one will end with.
Ahead ==
    chunks # <<>> =>
        /\ Latest # <<>>
        /\ pc \in {"sections", "split"} => LastOf(Latest).section < section
        /\ pc = "pack" =>
              \/ LastOf(Latest).section < section
              \/ next > 1 /\ Before(LastOf(Latest), units[next - 1])
        /\ pc = "tail" => current # <<>> /\ Latest = current

\* The counters are what they are counters of, and the group is within its bounds.
Counted ==
    /\ pc \in {"pack", "tail"} => currentTokens = Count(current)
    /\ pc = "tail" => tailTokens = Count(tail)
    /\ pc \in {"pack", "tail"} /\ current # <<>> =>
          \/ Count(current) <= TargetTokens
          \/ Count(current) <= OverlapTokens + LastOf(current).tokens

\* Once a chunk of the section is closed, current begins with its end.
Carried ==
    pc = "pack" /\ chunks # <<>> /\ LastOf(Latest).section = section =>
        /\ \A i \in DOMAIN Latest : \E k \in 1 .. next - 1 : Latest[i] = units[k]
        /\ CarriedOver(Latest, current, Len(tail))
        /\ \A i \in 1 .. Len(tail) : current[i] = tail[i]
        /\ Count(tail) <= OverlapTokens
        /\ Len(tail) < Len(Latest) =>
              Count(tail) + Latest[Len(Latest) - Len(tail)].tokens > OverlapTokens

-----------------------------------------------------------------------------
(***************************************************************************)
(* What Count computes: the library's induction theorems take a predicate, *)
(* which the provers cannot supply; this one takes the set where it holds. *)
(***************************************************************************)
\* A set of naturals that has 0 and the successor of each of its elements is Nat.
LEMMA Induction ==
    ASSUME NEW S \in SUBSET Nat, 0 \in S, \A n \in S : n + 1 \in S
    PROVE  S = Nat
<1> SUFFICES ASSUME Nat \ S # {} PROVE FALSE
  OBVIOUS
<1>1. PICK n \in Nat \ S : \A k \in Nat \ S : <<k, n>> \notin OpToRel(<, Nat)
  <2>1. Nat \ S \subseteq Nat
    OBVIOUS
  <2> QED BY <2>1, NatLessThanWellFounded, WFMin
<1>2. n # 0 /\ n - 1 \in Nat
  OBVIOUS
<1>3. n - 1 \in S
  <2> SUFFICES ASSUME n - 1 \in Nat \ S PROVE FALSE
    BY <1>2
  <2>1. <<n - 1, n>> \notin OpToRel(<, Nat)
    BY <1>1
  <2>2. n - 1 < n
    OBVIOUS
  <2> QED BY <1>2, <2>1, <2>2 DEF OpToRel
<1>4. n - 1 + 1 \in S
  BY <1>3
<1> QED BY <1>2, <1>4

\* f has the sums of the first 0, 1, ... units of g.
Sums(f, g) == f = [i \in 0 .. Len(g) |-> IF i = 0 THEN 0 ELSE f[i - 1] + g[i].tokens]

\* Every group has its sums.
LEMMA SumsExist ==
    ASSUME NEW g \in Group
    PROVE  \E f \in [0 .. Len(g) -> Nat] : Sums(f, g)
<1> DEFINE upTo(n, f) == /\ f \in [0 .. n -> Nat]
                         /\ f[0] = 0
                         /\ \A i \in 1 .. n : f[i] = f[i - 1] + g[i].tokens
           S == {n \in Nat : n <= Len(g) => \E f : upTo(n, f)}
<1>1. Len(g) \in Nat
  BY DEF Group
<1>2. 0 \in S
  <2>1. upTo(0, [i \in 0 .. 0 |-> 0])
    OBVIOUS
  <2> QED BY <2>1
<1>3. ASSUME NEW n \in S PROVE n + 1 \in S
  <2>0. n \in Nat /\ n + 1 \in Nat
    OBVIOUS
  <2> HIDE DEF upTo
  <2> SUFFICES ASSUME n + 1 <= Len(g) PROVE \E f : upTo(n + 1, f)
    BY <2>0
  <2>1. PICK f : upTo(n, f)
    BY <1>1, <2>0
  <2> USE DEF upTo
  <2>2. g[n + 1].tokens \in Nat
    <3>1. n + 1 \in 1 .. Len(g)
      BY <1>1
    <3> QED BY <3>1, UnitAt
  <2> DEFINE h == [i \in 0 .. n + 1 |-> IF i = n + 1 THEN f[n] + g[n + 1].tokens ELSE f[i]]
  <2>3. f[n] \in Nat
    BY <2>1
  <2>4. h \in [0 .. n + 1 -> Nat]
    BY <2>1, <2>2, <2>3
  <2>5. \A i \in 1 .. n : h[i] = h[i - 1] + g[i].tokens
    BY <2>1
  <2>6. h[n + 1] = h[n] + g[n + 1].tokens /\ h[0] = 0
    BY <2>1
  <2>7. \A i \in 1 .. n + 1 : h[i] = h[i - 1] + g[i].tokens
    <3>1. \A i \in 1 .. n + 1 : i \in 1 .. n \/ i = n + 1
      BY <2>0
    <3>2. n + 1 - 1 = n
      BY <2>0
    <3> HIDE DEF h
    <3> QED BY <2>5, <2>6, <3>1, <3>2
  <2>8. upTo(n + 1, h)
    BY <2>4, <2>6, <2>7
  <2> QED BY <2>8
<1>4. Len(g) \in S
  <2>1. S \in SUBSET Nat
    OBVIOUS
  <2> HIDE DEF S
  <2> QED BY <1>1, <1>2, <1>3, <2>1, Induction
<1>5. PICK f : upTo(Len(g), f)
  BY <1>1, <1>4
<1>6. \A i \in 0 .. Len(g) : f[i] = IF i = 0 THEN 0 ELSE f[i - 1] + g[i].tokens
  BY <1>1, <1>5
<1>7. f \in [0 .. Len(g) -> Nat] /\ f = [i \in 0 .. Len(g) |-> f[i]]
  BY <1>5
<1>8. f = [i \in 0 .. Len(g) |-> IF i = 0 THEN 0 ELSE f[i - 1] + g[i].tokens]
  BY <1>6, <1>7
<1> QED BY <1>7, <1>8 DEF Sums

\* And no two.
LEMMA SumsUnique ==
    ASSUME NEW g \in Group, NEW f, Sums(f, g), NEW h, Sums(h, g)
    PROVE  f[Len(g)] = h[Len(g)]
<1> DEFINE S == {n \in Nat : n <= Len(g) => f[n] = h[n]}
<1>1. Len(g) \in Nat
  BY DEF Group
<1>2. \A i \in 0 .. Len(g) : f[i] = IF i = 0 THEN 0 ELSE f[i - 1] + g[i].tokens
  BY DEF Sums
<1>3. \A i \in 0 .. Len(g) : h[i] = IF i = 0 THEN 0 ELSE h[i - 1] + g[i].tokens
  BY DEF Sums
<1>4. 0 \in S
  BY <1>1, <1>2, <1>3
<1>5. ASSUME NEW n \in S PROVE n + 1 \in S
  <2> SUFFICES ASSUME n + 1 <= Len(g) PROVE f[n + 1] = h[n + 1]
    OBVIOUS
  <2>1. n \in Nat /\ f[n] = h[n] /\ n + 1 \in 0 .. Len(g) /\ n + 1 # 0 /\ n + 1 - 1 = n
    BY <1>1
  <2>2. f[n + 1] = f[n] + g[n + 1].tokens
    BY <1>2, <2>1
  <2>3. h[n + 1] = h[n] + g[n + 1].tokens
    BY <1>3, <2>1
  <2> QED BY <2>1, <2>2, <2>3
<1>6. Len(g) \in S
  <2>1. S \in SUBSET Nat
    OBVIOUS
  <2> HIDE DEF S
  <2> QED BY <1>1, <1>4, <1>5, <2>1, Induction
<1> QED BY <1>1, <1>6

\* So Count is the last of any sums of the group.
LEMMA CountIs ==
    ASSUME NEW g \in Group, NEW f, Sums(f, g)
    PROVE  Count(g) = f[Len(g)]
<1> DEFINE c == CHOOSE h : Sums(h, g)
<1>1. Sums(c, g)
  OBVIOUS
<1>2. Count(g) = c[Len(g)]
  BY DEF Count, Sums
<1> HIDE DEF c
<1> QED BY <1>1, <1>2, SumsUnique

\* An empty group counts nothing, and a unit more counts its tokens more.
LEMMA CountEmpty == Count(<<>>) = 0
<1>1. <<>> \in Group /\ Len(<<>>) = 0
  BY DEF Group
<1>2. Sums([i \in 0 .. 0 |-> 0], <<>>)
  BY DEF Sums
<1> QED BY <1>1, <1>2, CountIs

LEMMA CountType ==
    ASSUME NEW g \in Group
    PROVE  Count(g) \in Nat
<1>1. PICK f \in [0 .. Len(g) -> Nat] : Sums(f, g)
  BY SumsExist
<1>2. Len(g) \in 0 .. Len(g)
  BY DEF Group
<1> QED BY <1>1, <1>2, CountIs

LEMMA CountAppend ==
    ASSUME NEW g \in Group, NEW u \in Unit
    PROVE  Count(Append(g, u)) = Count(g) + u.tokens
<1>1. PICK f \in [0 .. Len(g) -> Nat] : Sums(f, g)
  BY SumsExist
<1> DEFINE a == Append(g, u)
           n == Len(g)
           h == [i \in 0 .. n + 1 |-> IF i = n + 1 THEN f[n] + u.tokens ELSE f[i]]
<1>2. n \in Nat /\ a \in Group /\ Len(a) = n + 1 /\ a[n + 1] = u
  BY UnitsInAppend DEF Group
<1>3. \A i \in 1 .. n : a[i] = g[i]
  BY DEF Group
<1>4. \A i \in 0 .. n : f[i] = IF i = 0 THEN 0 ELSE f[i - 1] + g[i].tokens
  BY <1>1 DEF Sums
<1> HIDE DEF a
<1>5. \A i \in 0 .. n : h[i] = IF i = 0 THEN 0 ELSE h[i - 1] + a[i].tokens
  BY <1>2, <1>3, <1>4
<1>6. h[n + 1] = h[n] + a[n + 1].tokens
  BY <1>2
<1>7. ASSUME NEW i \in 0 .. n + 1
      PROVE  h[i] = IF i = 0 THEN 0 ELSE h[i - 1] + a[i].tokens
  <2>1. i \in 0 .. n \/ i = n + 1
    BY <1>2
  <2>2. i = n + 1 => i - 1 = n /\ i # 0
    BY <1>2
  <2> HIDE DEF h, n
  <2>3. CASE i \in 0 .. n
    BY <1>5, <2>3
  <2>4. CASE i = n + 1
    BY <1>6, <2>2, <2>4
  <2> QED BY <2>1, <2>3, <2>4
<1>8. h = [i \in 0 .. Len(a) |-> IF i = 0 THEN 0 ELSE h[i - 1] + a[i].tokens]
  <2>1. h = [i \in 0 .. n + 1 |-> h[i]]
    OBVIOUS
  <2> HIDE DEF h, n
  <2> QED BY <1>2, <1>7, <2>1
<1>9. Count(a) = h[n + 1]
  <2> HIDE DEF h
  <2> QED BY <1>2, <1>8, CountIs DEF Sums
<1>10. Count(g) = f[n]
  BY <1>1, CountIs
<1> QED BY <1>2, <1>9, <1>10 DEF a

LEMMA CountPrepend ==
    ASSUME NEW g \in Group, NEW u \in Unit
    PROVE  Count(<<u>> \o g) = u.tokens + Count(g)
<1>1. PICK f \in [0 .. Len(g) -> Nat] : Sums(f, g)
  BY SumsExist
<1> DEFINE a == <<u>> \o g
           n == Len(g)
           h == [i \in 0 .. n + 1 |-> IF i = 0 THEN 0 ELSE u.tokens + f[i - 1]]
<1>2. n \in Nat /\ a \in Group /\ Len(a) = n + 1 /\ a[1] = u
  <2>1. <<u>> \in Group
    BY DEF Group
  <2> QED BY <2>1, UnitsInConcat DEF Group
<1>3. \A i \in 1 .. n : a[i + 1] = g[i]
  BY DEF Group
<1>4. \A i \in 0 .. n : f[i] = IF i = 0 THEN 0 ELSE f[i - 1] + g[i].tokens
  BY <1>1 DEF Sums
<1>5. u.tokens \in Nat /\ \A i \in 1 .. n : g[i].tokens \in Nat
  <2>1. \A i \in 1 .. n : g[i].tokens \in Nat
    BY UnitAt
  <2> QED BY <2>1 DEF Unit
<1> HIDE DEF a
<1>6. ASSUME NEW i \in 0 .. n + 1
      PROVE  h[i] = IF i = 0 THEN 0 ELSE h[i - 1] + a[i].tokens
  <2>1. CASE i = 0
    BY <1>2, <2>1
  <2>2. CASE i = 1
    BY <1>2, <1>4, <1>5, <2>2
  <2>3. CASE i > 1
    <3>1. i - 1 \in 1 .. n /\ i - 1 \in 0 .. n /\ i - 1 # 0 /\ i - 1 + 1 = i /\ i - 1 - 1 \in 0 .. n
      BY <1>2, <2>3
    <3>2. a[i] = g[i - 1]
      BY <1>3, <3>1
    <3>3. f[i - 1] = f[i - 1 - 1] + g[i - 1].tokens
      BY <1>4, <3>1
    <3>4. h[i] = u.tokens + f[i - 1] /\ h[i - 1] = u.tokens + f[i - 1 - 1]
      BY <1>2, <3>1
    <3>5. f[i - 1 - 1] \in Nat /\ g[i - 1].tokens \in Nat
      BY <1>1, <1>5, <3>1
    <3> HIDE DEF h
    <3> QED BY <1>5, <3>2, <3>3, <3>4, <3>5, <2>3
  <2> QED BY <1>2, <2>1, <2>2, <2>3
<1>7. h = [i \in 0 .. Len(a) |-> IF i = 0 THEN 0 ELSE h[i - 1] + a[i].tokens]
  <2>1. h = [i \in 0 .. n + 1 |-> h[i]]
    OBVIOUS
  <2> HIDE DEF h, n
  <2> QED BY <1>2, <1>6, <2>1
<1>8. Count(a) = h[n + 1]
  <2> HIDE DEF h
  <2> QED BY <1>2, <1>7, CountIs DEF Sums
<1>9. h[n + 1] = u.tokens + f[n]
  BY <1>2
<1>10. Count(g) = f[n]
  BY <1>1, CountIs
<1> QED BY <1>8, <1>9, <1>10 DEF a

-----------------------------------------------------------------------------
(***************************************************************************)
(* Order.                                                                  *)
(***************************************************************************)
\* The order of the document is a strict order.
LEMMA BeforeIsStrict ==
    ASSUME NEW u \in Unit, NEW v \in Unit
    PROVE  ~ Before(u, u) /\ (Before(u, v) => ~ Before(v, u))
<1>1. /\ u.section \in Nat /\ u.paragraph \in Nat /\ u.sentence \in Nat
      /\ v.section \in Nat /\ v.paragraph \in Nat /\ v.sentence \in Nat
  BY DEF Unit
<1> QED BY <1>1 DEF Before

LEMMA BeforeIsTransitive ==
    ASSUME NEW u \in Unit, NEW v \in Unit, NEW w \in Unit, Before(u, v), Before(v, w)
    PROVE  Before(u, w)
<1>1. /\ u.section \in Nat /\ u.paragraph \in Nat /\ u.sentence \in Nat
      /\ v.section \in Nat /\ v.paragraph \in Nat /\ v.sentence \in Nat
      /\ w.section \in Nat /\ w.paragraph \in Nat /\ w.sentence \in Nat
  BY DEF Unit
<1> QED BY <1>1 DEF Before

\* Where a unit of a longer group comes from.
LEMMA AppendAt ==
    ASSUME NEW T, NEW g \in Seq(T), NEW u \in T
    PROVE  /\ Append(g, u) \in Seq(T) /\ Len(Append(g, u)) = Len(g) + 1 /\ Len(g) \in Nat
           /\ \A i \in 1 .. Len(g) : Append(g, u)[i] = g[i]
           /\ Append(g, u)[Len(g) + 1] = u
OBVIOUS

LEMMA ConcatAt ==
    ASSUME NEW g \in Group, NEW h \in Group
    PROVE  /\ Len(g \o h) = Len(g) + Len(h) /\ Len(g) \in Nat /\ Len(h) \in Nat
           /\ \A i \in 1 .. Len(g) : (g \o h)[i] = g[i]
           /\ \A i \in 1 .. Len(h) : (g \o h)[Len(g) + i] = h[i]
BY DEF Group

\* The units of a paragraph, in their order.
LEMMA UnitsOfSorted ==
    ASSUME doc \in Seq(Section), NEW s \in DOMAIN doc, NEW p \in DOMAIN doc[s].paragraphs
    PROVE  /\ \A i \in DOMAIN UnitsOf(s, p) :
                 UnitsOf(s, p)[i].section = s /\ UnitsOf(s, p)[i].paragraph = p
           /\ \A i, j \in DOMAIN UnitsOf(s, p) :
                 i < j => Before(UnitsOf(s, p)[i], UnitsOf(s, p)[j])
<1> DEFINE text == doc[s].paragraphs[p]
           one == [section |-> s, paragraph |-> p, sentence |-> 0, tokens |-> text.tokens]
           many == [i \in 1 .. Len(text.sentences) |->
                      [section |-> s, paragraph |-> p, sentence |-> i, tokens |-> text.sentences[i]]]
<1>1. CASE text.tokens <= TargetTokens
  <2>1. UnitsOf(s, p) = <<one>>
    BY <1>1 DEF UnitsOf
  <2>2. DOMAIN <<one>> = {1} /\ <<one>>[1] = one /\ one.section = s /\ one.paragraph = p
    OBVIOUS
  <2> HIDE DEF one
  <2> QED BY <2>1, <2>2
<1>2. CASE ~ (text.tokens <= TargetTokens)
  <2>1. UnitsOf(s, p) = many
    BY <1>2 DEF UnitsOf
  <2>2. DOMAIN many = 1 .. Len(text.sentences)
    OBVIOUS
  <2>3. \A i \in 1 .. Len(text.sentences) :
           many[i].section = s /\ many[i].paragraph = p /\ many[i].sentence = i
    OBVIOUS
  <2> HIDE DEF many, text
  <2>4. \A i, j \in DOMAIN many : i < j => Before(many[i], many[j])
    BY <2>2, <2>3 DEF Before
  <2> QED BY <2>1, <2>2, <2>3, <2>4
<1> QED BY <1>1, <1>2

\* The paragraph at hand.
LEMMA AtParagraph ==
    ASSUME TypeOK, Places, SplitParagraph
    PROVE  /\ section \in DOMAIN doc /\ paragraph \in DOMAIN doc[section].paragraphs
           /\ UnitsOf(section, paragraph) \in Group
<1>1. section \in DOMAIN doc /\ doc[section] \in Section
  BY DEF SplitParagraph, TypeOK, Places
<1>2. paragraph \in DOMAIN doc[section].paragraphs
  BY <1>1 DEF SplitParagraph, TypeOK, Places, Section
<1> QED BY <1>1, <1>2, UnitsOfType, ChunkerAssumption DEF TypeOK

\* The units of a section stay in their order while its paragraphs are split.
LEMMA StepSorted ==
    ASSUME TypeOK, Places, UnitsSorted, [Next]_vars
    PROVE  UnitsSorted'
<1>1. CASE SplitSection
  BY <1>1 DEF SplitSection, UnitsSorted
<1>2. CASE SplitParagraph
  <2> DEFINE U == UnitsOf(section, paragraph)
             n == Len(units)
  <2>1. section \in DOMAIN doc /\ paragraph \in DOMAIN doc[section].paragraphs /\ U \in Group
    BY <1>2, AtParagraph
  <2>2. /\ \A i \in 1 .. Len(U) : U[i].section = section /\ U[i].paragraph = paragraph
        /\ \A i, j \in 1 .. Len(U) : i < j => Before(U[i], U[j])
    <3>1. DOMAIN U = 1 .. Len(U)
      BY <2>1 DEF Group
    <3> QED BY <2>1, <3>1, UnitsOfSorted DEF TypeOK
  <2> HIDE DEF U
  <2>3. /\ units \in Group /\ units' = units \o U /\ paragraph' = paragraph + 1
        /\ section' = section /\ pc = "split" /\ pc' = "split" /\ paragraph \in Nat
    BY <1>2 DEF SplitParagraph, TypeOK, U
  <2>4. /\ n \in Nat /\ Len(U) \in Nat /\ Len(units') = n + Len(U)
        /\ \A i \in 1 .. n : units'[i] = units[i]
        /\ \A i \in 1 .. Len(U) : units'[n + i] = U[i]
    BY <2>1, <2>3, ConcatAt
  <2>5. \A i \in 1 .. n : units[i].section = section /\ units[i].paragraph < paragraph /\ units[i].paragraph \in Nat
    <3>1. \A i \in 1 .. n : units[i] \in Unit
      BY <2>3, UnitAt
    <3> QED BY <2>3, <3>1 DEF UnitsSorted, Group, Unit
  <2>6. \A i \in 1 .. Len(units') : i \in 1 .. n \/ (i - n \in 1 .. Len(U) /\ n + (i - n) = i)
    BY <2>4
  <2>7. \A i \in 1 .. Len(units') : units'[i] = IF i \in 1 .. n THEN units[i] ELSE U[i - n]
    BY <2>4, <2>6
  <2>8. DOMAIN units' = 1 .. Len(units')
    <3>1. units' \in Group
      BY <2>1, <2>3, UnitsInConcat
    <3> QED BY <3>1 DEF Group
  <2> HIDE DEF n
  <2>9. ASSUME NEW i \in 1 .. Len(units')
        PROVE  units'[i].section = section /\ units'[i].paragraph < paragraph + 1
    <3>1. CASE i \in 1 .. n
      <4>1. units'[i] = units[i]
        BY <2>7, <3>1
      <4> QED BY <2>3, <2>5, <3>1, <4>1
    <3>2. CASE i \notin 1 .. n
      <4>1. units'[i] = U[i - n] /\ i - n \in 1 .. Len(U)
        BY <2>6, <2>7, <3>2
      <4> QED BY <2>2, <2>3, <4>1
    <3> QED BY <3>1, <3>2
  <2>10. ASSUME NEW i \in 1 .. Len(units'), NEW j \in 1 .. Len(units'), i < j
         PROVE  Before(units'[i], units'[j])
    <3>1. CASE i \in 1 .. n /\ j \in 1 .. n
      <4>1. Before(units[i], units[j])
        BY <2>3, <2>10, <3>1 DEF UnitsSorted, Group, n
      <4> QED BY <2>7, <3>1, <4>1
    <3>2. CASE i \in 1 .. n /\ j \notin 1 .. n
      <4>1. units'[i] = units[i] /\ units'[j] = U[j - n] /\ j - n \in 1 .. Len(U)
        BY <2>6, <2>7, <3>2
      <4> QED BY <2>2, <2>5, <3>2, <4>1 DEF Before
    <3>3. CASE i \notin 1 .. n /\ j \in 1 .. n
      BY <2>4, <2>10, <3>3 DEF n
    <3>4. CASE i \notin 1 .. n /\ j \notin 1 .. n
      <4>1. units'[i] = U[i - n] /\ units'[j] = U[j - n]
        BY <2>7, <3>4
      <4>2. i - n \in 1 .. Len(U) /\ j - n \in 1 .. Len(U) /\ i - n < j - n
        BY <2>4, <2>6, <2>10, <3>4 DEF n
      <4> QED BY <2>2, <4>1, <4>2
    <3> QED BY <3>1, <3>2, <3>3, <3>4
  <2> QED BY <2>3, <2>8, <2>9, <2>10 DEF UnitsSorted
<1>3. CASE DropSection \/ TakeSection \/ LastGroup
  BY <1>3 DEF DropSection, TakeSection, AtSection, LastGroup, UnitsSorted
<1>4. CASE BeginPack \/ AppendUnit \/ CloseGroup \/ CarryUnit \/ BeginGroup \/ UNCHANGED vars
  <2>1. /\ UNCHANGED <<section, units>>
        /\ pc' # "sections" => pc # "sections"
        /\ pc' = "split" => pc = "split" /\ paragraph' = paragraph
    BY <1>4 DEF BeginPack, AppendUnit, AtUnit, CloseGroup, CarryUnit, BeginGroup, vars
  <2> QED BY <2>1 DEF UnitsSorted
<1> QED BY <1>1, <1>2, <1>3, <1>4 DEF Next

\* current and tail stay runs of the units up to next.
LEMMA StepRuns ==
    ASSUME TypeOK, Places, Runs, [Next]_vars
    PROVE  Runs'
<1>0. /\ units \in Group /\ current \in Group /\ tail \in Group
      /\ Len(units) \in Nat /\ Len(current) \in Nat /\ Len(tail) \in Nat
      /\ next \in Nat /\ next >= 1
  BY Shapes
<1>1. CASE DropSection \/ TakeSection \/ SplitSection \/ SplitParagraph \/ LastGroup
  BY <1>1 DEF DropSection, TakeSection, SplitSection, AtSection, SplitParagraph, LastGroup, Runs
<1>2. CASE BeginPack
  <2>1. current' = <<>> /\ next' = 1 /\ pc' = "pack" /\ units' = units /\ Len(<<>>) = 0
    BY <1>2 DEF BeginPack
  <2> QED BY <1>0, <2>1 DEF Runs
<1>3. CASE AppendUnit
  <2>1. /\ pc = "pack" /\ pc' = "pack" /\ next <= Len(units) /\ units' = units
        /\ current' = Append(current, units[next]) /\ next' = next + 1
    BY <1>3 DEF AppendUnit, AtUnit
  <2>2. units[next] \in Unit
    BY <2>1, NextUnit
  <2>3. /\ Len(current') = Len(current) + 1
        /\ \A i \in 1 .. Len(current) : current'[i] = current[i]
        /\ current'[Len(current) + 1] = units[next]
    BY <1>0, <2>1, <2>2, AppendAt DEF Group
  <2>4. Len(current) < next /\ \A i \in 1 .. Len(current) : current[i] = units[next - 1 - Len(current) + i]
    BY <2>1 DEF Runs
  <2>5. ASSUME NEW i \in 1 .. Len(current')
        PROVE  current'[i] = units'[next' - 1 - Len(current') + i]
    <3>1. CASE i \in 1 .. Len(current)
      <4>1. next' - 1 - Len(current') + i = next - 1 - Len(current) + i
        BY <1>0, <2>1, <2>3, <3>1
      <4> QED BY <2>1, <2>3, <2>4, <3>1, <4>1
    <3>2. CASE i = Len(current) + 1
      <4>1. next' - 1 - Len(current') + i = next
        BY <1>0, <2>1, <2>3, <3>2
      <4> QED BY <2>1, <2>3, <3>2, <4>1
    <3> QED BY <1>0, <2>3, <3>1, <3>2
  <2>6. Len(current') < next' /\ next' <= Len(units') + 1 /\ current' # <<>>
    <3>1. Len(current') < next' /\ next' <= Len(units') + 1 /\ Len(current') # 0
      BY <1>0, <2>1, <2>3, <2>4
    <3> QED BY <3>1
  <2> QED BY <2>1, <2>5, <2>6 DEF Runs
<1>4. CASE CloseGroup
  <2>1. /\ pc = "pack" /\ pc' = "tail" /\ UNCHANGED <<units, current, next>> /\ tail' = <<>>
    BY <1>4 DEF CloseGroup, AtUnit
  <2> QED BY <2>1 DEF Runs
<1>5. CASE CarryUnit
  <2>1. /\ pc = "tail" /\ pc' = "tail" /\ UNCHANGED <<units, current, next>>
        /\ tail' = <<Previous>> \o tail /\ Len(tail) < Len(current)
    BY <1>5 DEF CarryUnit, Fits
  <2>2. Previous \in Unit
    <3>1. Len(current) - Len(tail) \in 1 .. Len(current)
      BY <1>0, <2>1
    <3> QED BY <1>0, <3>1, UnitAt DEF Previous
  <2>3. /\ Len(tail') = Len(tail) + 1 /\ tail'[1] = Previous
        /\ \A i \in 1 .. Len(tail) : tail'[1 + i] = tail[i]
    <3>1. <<Previous>> \in Group /\ Len(<<Previous>>) = 1 /\ <<Previous>>[1] = Previous
      BY <2>2 DEF Group
    <3>2. 1 \in 1 .. Len(<<Previous>>)
      BY <3>1
    <3> QED BY <1>0, <2>1, <3>1, <3>2, ConcatAt
  <2>4. ASSUME NEW i \in 1 .. Len(tail')
        PROVE  tail'[i] = current[Len(current) - Len(tail') + i]
    <3>1. CASE i = 1
      <4>1. Len(current) - Len(tail') + i = Len(current) - Len(tail)
        BY <1>0, <2>3, <3>1
      <4> QED BY <2>3, <3>1, <4>1 DEF Previous
    <3>2. CASE i # 1
      <4>1. i - 1 \in 1 .. Len(tail) /\ 1 + (i - 1) = i
        BY <1>0, <2>3, <3>2
      <4>2. Len(current) - Len(tail') + i = Len(current) - Len(tail) + (i - 1)
        BY <1>0, <2>3, <3>2
      <4>3. tail[i - 1] = current[Len(current) - Len(tail) + (i - 1)]
        BY <2>1, <4>1 DEF Runs
      <4>4. tail'[i] = tail[i - 1]
        BY <2>3, <4>1
      <4> QED BY <4>2, <4>3, <4>4
    <3> QED BY <3>1, <3>2
  <2> QED BY <2>1, <2>4 DEF Runs
<1>6. CASE BeginGroup
  <2>1. /\ pc = "tail" /\ pc' = "pack" /\ units' = units
        /\ current' = Append(tail, units[next]) /\ next' = next + 1
    BY <1>6 DEF BeginGroup
  <2>2. next <= Len(units) /\ Len(tail) <= Len(current)
    BY <2>1 DEF Places
  <2>3. units[next] \in Unit
    BY <2>2, NextUnit
  <2>4. /\ Len(current') = Len(tail) + 1
        /\ \A i \in 1 .. Len(tail) : current'[i] = tail[i]
        /\ current'[Len(tail) + 1] = units[next]
    BY <1>0, <2>1, <2>3, AppendAt DEF Group
  <2>5. /\ Len(current) < next
        /\ \A i \in 1 .. Len(current) : current[i] = units[next - 1 - Len(current) + i]
        /\ \A i \in 1 .. Len(tail) : tail[i] = current[Len(current) - Len(tail) + i]
    BY <2>1 DEF Runs
  <2>6. ASSUME NEW i \in 1 .. Len(current')
        PROVE  current'[i] = units'[next' - 1 - Len(current') + i]
    <3>1. CASE i \in 1 .. Len(tail)
      <4>1. Len(current) - Len(tail) + i \in 1 .. Len(current)
        BY <1>0, <2>2, <3>1
      <4>2. next - 1 - Len(current) + (Len(current) - Len(tail) + i) = next' - 1 - Len(current') + i
        BY <1>0, <2>1, <2>4, <3>1
      <4> QED BY <2>1, <2>4, <2>5, <3>1, <4>1, <4>2
    <3>2. CASE i = Len(tail) + 1
      <4>1. next' - 1 - Len(current') + i = next
        BY <1>0, <2>1, <2>4, <3>2
      <4> QED BY <2>1, <2>4, <3>2, <4>1
    <3> QED BY <1>0, <2>4, <3>1, <3>2
  <2>7. Len(current') < next' /\ next' <= Len(units') + 1 /\ current' # <<>>
    <3>1. Len(current') < next' /\ next' <= Len(units') + 1 /\ Len(current') # 0
      BY <1>0, <2>1, <2>2, <2>4, <2>5
    <3> QED BY <3>1
  <2> QED BY <2>1, <2>6, <2>7 DEF Runs
<1>7. CASE UNCHANGED vars
  BY <1>7 DEF vars, packVars, Runs
<1> QED BY <1>1, <1>2, <1>3, <1>4, <1>5, <1>6, <1>7 DEF Next

\* The units of a section being packed, one by one.
LEMMA PackedUnit ==
    ASSUME TypeOK, UnitsSorted, pc # "sections", NEW k \in 1 .. Len(units)
    PROVE  units[k] \in Unit /\ units[k].section = section /\ units[k].section \in Nat
<1>1. units \in Group /\ DOMAIN units = 1 .. Len(units)
  BY DEF TypeOK, Group
<1>2. units[k] \in Unit
  BY <1>1, UnitAt
<1> QED BY <1>1, <1>2 DEF UnitsSorted, Unit

LEMMA PackedOrder ==
    ASSUME TypeOK, UnitsSorted, pc # "sections",
           NEW i \in 1 .. Len(units), NEW j \in 1 .. Len(units), i < j
    PROVE  Before(units[i], units[j])
<1>1. units \in Group /\ DOMAIN units = 1 .. Len(units)
  BY DEF TypeOK, Group
<1> QED BY <1>1 DEF UnitsSorted

\* The group under way ends with the unit in front of next.
LEMMA CurrentEnds ==
    ASSUME TypeOK, Places, Runs, pc \in {"pack", "tail"}, current # <<>>
    PROVE  /\ LastOf(current) = units[next - 1]
           /\ next - 1 \in 1 .. Len(units)
           /\ Len(current) \in 1 .. next - 1
<1>0. /\ current \in Group /\ Len(current) \in Nat /\ Len(units) \in Nat
      /\ next \in Nat /\ next >= 1
  BY Shapes
<1>1. Len(current) # 0
  BY <1>0 DEF Group
<1>2. Len(current) < next /\ next <= Len(units) + 1
  BY DEF Runs
<1>3. Len(current) \in 1 .. Len(current)
  BY <1>0, <1>1
<1>4. current[Len(current)] = units[next - 1 - Len(current) + Len(current)]
  BY <1>3 DEF Runs
<1>5. next - 1 - Len(current) + Len(current) = next - 1
  BY <1>0
<1> QED BY <1>0, <1>1, <1>2, <1>4, <1>5 DEF LastOf

\* The last of the chunks after another one is added.
LEMMA LatestAppended ==
    ASSUME TypeOK, NEW g \in Group, chunks' = Append(chunks, g)
    PROVE  chunks' # <<>> /\ Latest' = g
<1>1. Len(chunks') = Len(chunks) + 1 /\ Len(chunks) \in Nat /\ chunks'[Len(chunks) + 1] = g
  BY AppendAt DEF TypeOK
<1> QED BY <1>1 DEF Latest

\* The chunk to come ends further on than the last one.
LEMMA CurrentIsAhead ==
    ASSUME TypeOK, Places, UnitsSorted, Runs, Ahead, pc = "pack", chunks # <<>>, current # <<>>
    PROVE  LastOf(Latest) \in Unit /\ Before(LastOf(Latest), LastOf(current))
<1>1. LastOf(current) = units[next - 1] /\ next - 1 \in 1 .. Len(units)
  BY CurrentEnds
<1>2. LastOf(Latest) \in Unit
  <2>1. chunks \in Seq(Group) /\ Len(chunks) \in 1 .. Len(chunks)
    BY DEF TypeOK
  <2>2. Latest \in Group /\ Latest # <<>>
    BY <2>1 DEF Latest, Ahead
  <2>3. Len(Latest) \in 1 .. Len(Latest)
    BY <2>2 DEF Group
  <2> QED BY <2>2, <2>3, UnitAt DEF LastOf
<1>3. units[next - 1].section = section
  BY <1>1, PackedUnit
<1>4. LastOf(Latest).section < section \/ Before(LastOf(Latest), units[next - 1])
  BY DEF Ahead
<1> QED BY <1>1, <1>2, <1>3, <1>4 DEF Before

\* The last chunk stays behind what is still to be chunked.
LEMMA StepAhead ==
    ASSUME TypeOK, Places, UnitsSorted, Runs, Ahead, [Next]_vars
    PROVE  Ahead'
<1>0. /\ next \in Nat /\ next >= 1 /\ Len(units) \in Nat /\ section \in Nat
      /\ current \in Group /\ tail \in Group
  BY Shapes DEF TypeOK
<1>a. chunks # <<>> => LastOf(Latest).section \in Nat
  <2> SUFFICES ASSUME chunks # <<>> PROVE LastOf(Latest).section \in Nat
    OBVIOUS
  <2>1. chunks \in Seq(Group) /\ Len(chunks) \in 1 .. Len(chunks)
    BY DEF TypeOK
  <2>2. Latest \in Group /\ Latest # <<>>
    BY <2>1 DEF Latest, Ahead
  <2>3. Len(Latest) \in 1 .. Len(Latest)
    BY <2>2 DEF Group
  <2>4. LastOf(Latest) \in Unit
    BY <2>2, <2>3, UnitAt DEF LastOf
  <2> QED BY <2>4 DEF Unit
<1>1. CASE DropSection
  <2>1. chunks' = chunks /\ section' = section + 1 /\ pc = "sections" /\ pc' = "sections"
    BY <1>1 DEF DropSection, AtSection
  <2>2. Latest' = Latest
    BY <2>1 DEF Latest
  <2> QED BY <1>0, <1>a, <2>1, <2>2 DEF Ahead
<1>2. CASE TakeSection
  <2>1. /\ chunks' = Append(chunks, <<Whole(section)>>) /\ section' = section + 1
        /\ pc = "sections" /\ pc' = "sections" /\ section \in DOMAIN doc
    BY <1>2 DEF TakeSection, AtSection, TypeOK
  <2>2. <<Whole(section)>> \in Group /\ LastOf(<<Whole(section)>>).section = section
    <3>1. doc[section] \in Section /\ section \in Nat
      BY <2>1 DEF TypeOK
    <3> QED BY <3>1 DEF Whole, Group, Unit, Section, LastOf
  <2>3. Latest' = <<Whole(section)>>
    BY <2>1, <2>2, LatestAppended
  <2>4. LastOf(Latest') = LastOf(Latest)'
    BY DEF LastOf
  <2> QED BY <1>0, <2>1, <2>2, <2>3, <2>4 DEF Ahead
<1>3. CASE SplitSection \/ SplitParagraph \/ BeginPack
  <2>1. /\ UNCHANGED <<chunks, section>> /\ pc \in {"sections", "split"}
        /\ pc' \in {"split", "pack"}
    BY <1>3 DEF SplitSection, AtSection, SplitParagraph, BeginPack
  <2>2. Latest' = Latest
    BY <2>1 DEF Latest
  <2> QED BY <2>1, <2>2 DEF Ahead
<1>4. CASE AppendUnit
  <2>1. /\ UNCHANGED <<chunks, section, units>> /\ pc = "pack" /\ pc' = "pack"
        /\ next' = next + 1 /\ next <= Len(units)
    BY <1>4 DEF AppendUnit, AtUnit
  <2>2. Latest' = Latest
    BY <2>1 DEF Latest
  <2>3. ASSUME chunks # <<>>, ~ (LastOf(Latest).section < section)
        PROVE  Before(LastOf(Latest), units[next])
    <3>1. next > 1 /\ Before(LastOf(Latest), units[next - 1])
      BY <2>1, <2>3 DEF Ahead
    <3>2. next - 1 \in 1 .. Len(units) /\ next \in 1 .. Len(units) /\ next - 1 < next
      BY <1>0, <2>1, <3>1
    <3>3. Before(units[next - 1], units[next]) /\ units[next - 1] \in Unit /\ units[next] \in Unit
      BY <2>1, <3>2, PackedOrder, PackedUnit
    <3>4. current # <<>>
      BY <2>1, <3>1 DEF Runs
    <3>5. LastOf(Latest) \in Unit
      BY <2>1, <2>3, <3>4, CurrentIsAhead
    <3> QED BY <3>1, <3>3, <3>5, BeforeIsTransitive
  <2>4. next' > 1 /\ next' - 1 = next
    BY <1>0, <2>1
  <2> QED BY <2>1, <2>2, <2>3, <2>4 DEF Ahead
<1>5. CASE CloseGroup
  <2>1. /\ chunks' = Append(chunks, current) /\ current' = current
        /\ pc' = "tail" /\ current # <<>>
    BY <1>5 DEF CloseGroup, Overflows
  <2>2. Latest' = current
    BY <1>0, <2>1, LatestAppended
  <2> QED BY <2>1, <2>2 DEF Ahead
<1>6. CASE CarryUnit
  <2>1. UNCHANGED <<chunks, current>> /\ pc = "tail" /\ pc' = "tail"
    BY <1>6 DEF CarryUnit
  <2>2. Latest' = Latest
    BY <2>1 DEF Latest
  <2> QED BY <2>1, <2>2 DEF Ahead
<1>7. CASE BeginGroup
  <2>1. /\ UNCHANGED <<chunks, section, units>> /\ pc = "tail" /\ pc' = "pack"
        /\ next' = next + 1 /\ next <= Len(units)
    BY <1>7 DEF BeginGroup, Places
  <2>2. Latest' = Latest
    BY <2>1 DEF Latest
  <2>3. ASSUME chunks # <<>> PROVE Before(LastOf(Latest), units[next]) /\ Latest # <<>>
    <3>1. current # <<>> /\ Latest = current
      BY <2>1, <2>3 DEF Ahead
    <3>2. LastOf(current) = units[next - 1] /\ next - 1 \in 1 .. Len(units)
      BY <2>1, <3>1, CurrentEnds
    <3>3. next \in 1 .. Len(units) /\ next - 1 < next
      BY <1>0, <2>1
    <3> QED BY <2>1, <3>1, <3>2, <3>3, PackedOrder
  <2>4. next' > 1 /\ next' - 1 = next
    BY <1>0, <2>1
  <2> QED BY <2>1, <2>2, <2>3, <2>4 DEF Ahead
<1>8. CASE LastGroup
  <2>1. /\ chunks' = (IF current # <<>> THEN Append(chunks, current) ELSE chunks)
        /\ pc = "pack" /\ pc' = "sections" /\ section' = section + 1
    BY <1>8 DEF LastGroup
  <2>2. CASE current # <<>>
    <3>1. Latest' = current
      BY <1>0, <2>1, <2>2, LatestAppended
    <3>2. LastOf(current).section = section
      BY <2>1, <2>2, CurrentEnds, PackedUnit
    <3>3. LastOf(Latest)' = LastOf(Latest')
      BY DEF LastOf
    <3> QED BY <1>0, <2>1, <2>2, <3>1, <3>2, <3>3 DEF Ahead
  <2>3. CASE current = <<>>
    <3>1. chunks' = chunks /\ Latest' = Latest
      BY <2>1, <2>3 DEF Latest
    <3>2. ~ (next > 1)
      BY <2>1, <2>3 DEF Runs
    <3> QED BY <1>0, <1>a, <2>1, <3>1, <3>2 DEF Ahead
  <2> QED BY <2>2, <2>3
<1>9. CASE UNCHANGED vars
  <2>1. Latest' = Latest
    BY <1>9 DEF vars, Latest
  <2> QED BY <1>9, <2>1 DEF vars, packVars, Ahead
<1> QED BY <1>1, <1>2, <1>3, <1>4, <1>5, <1>6, <1>7, <1>8, <1>9 DEF Next

\* Which groups are consecutive depends on the document alone.
LEMMA ConsecutiveFixed ==
    ASSUME doc' = doc, NEW g
    PROVE  Consecutive(g)' <=> Consecutive(g)
<1>1. \A s : UnitsOfSection(s)' = UnitsOfSection(s)
  BY SectionsFixed
<1> QED BY <1>1 DEF Consecutive

\* The order of the chunks survives another one that keeps to it.
LEMMA OrderAppend ==
    ASSUME TypeOK, InReadingOrder, doc' = doc,
           NEW g \in Group, Consecutive(g), chunks' = Append(chunks, g),
           chunks # <<>> => Before(LastOf(Latest), LastOf(g))
    PROVE  InReadingOrder'
<1> DEFINE n == Len(chunks)
<1>1. /\ Len(chunks') = n + 1 /\ n \in Nat
      /\ \A j \in 1 .. n : chunks'[j] = chunks[j]
      /\ chunks'[n + 1] = g
      /\ DOMAIN chunks' = 1 .. n + 1 /\ DOMAIN chunks = 1 .. n
  BY AppendAt DEF TypeOK
<1>2. \A h \in Range(chunks') : h \in Range(chunks) \/ h = g
  <2> SUFFICES ASSUME NEW j \in 1 .. n + 1
               PROVE  chunks'[j] \in Range(chunks) \/ chunks'[j] = g
    BY <1>1 DEF Range
  <2>1. j \in 1 .. n \/ j = n + 1
    BY <1>1
  <2> QED BY <1>1, <2>1 DEF Range
<1>3. \A h \in Range(chunks) : Consecutive(h)
  BY DEF InReadingOrder
<1>4. \A h \in Range(chunks') : Consecutive(h)'
  BY <1>2, <1>3, ConsecutiveFixed
<1> HIDE DEF n
<1>5. \A j \in 1 .. n : Before(LastOf(chunks'[j]), LastOf(chunks'[j + 1]))
  <2>1. \A j \in 1 .. n - 1 : Before(LastOf(chunks[j]), LastOf(chunks[j + 1]))
    BY DEF InReadingOrder, n
  <2> SUFFICES ASSUME NEW j \in 1 .. n
               PROVE  Before(LastOf(chunks'[j]), LastOf(chunks'[j + 1]))
    OBVIOUS
  <2>2. CASE j \in 1 .. n - 1
    <3>1. j + 1 \in 1 .. n
      BY <1>1, <2>2
    <3> QED BY <1>1, <2>1, <2>2, <3>1
  <2>3. CASE j = n
    <3>1. chunks # <<>>
      BY <1>1, <2>3
    <3> QED BY <1>1, <2>3, <3>1 DEF Latest, n
  <2>4. j \in 1 .. n - 1 \/ j = n
    BY <1>1
  <2> QED BY <2>2, <2>3, <2>4
<1>6. Len(chunks') - 1 = n
  BY <1>1 DEF n
<1> QED BY <1>1, <1>4, <1>5, <1>6
       DEF InReadingOrder, LastOf

\* What is being packed is a run of consecutive units.
LEMMA CurrentIsConsecutive ==
    ASSUME TypeOK, Places, Progress, UnitsSorted, Runs, pc \in {"pack", "tail"}
    PROVE  Consecutive(current)
<1>0. /\ Len(current) \in Nat /\ Len(units) \in Nat /\ next \in Nat /\ next >= 1
      /\ Len(current) < next /\ next <= Len(units) + 1 /\ DOMAIN units = 1 .. Len(units)
  BY Shapes DEF Runs, Group
<1> SUFFICES ASSUME NEW i \in 1 .. Len(current) - 1
             PROVE  /\ current[i].section = current[i + 1].section
                    /\ Before(current[i], current[i + 1])
                    /\ \A w \in UnitsOfSection(current[i].section) :
                          ~ (Before(current[i], w) /\ Before(w, current[i + 1]))
  BY DEF Consecutive
<1> DEFINE k == next - 1 - Len(current) + i
<1>1. /\ i \in 1 .. Len(current) /\ i + 1 \in 1 .. Len(current)
      /\ k \in 1 .. Len(units) /\ k + 1 \in 1 .. Len(units) /\ k < k + 1
      /\ next - 1 - Len(current) + (i + 1) = k + 1
  BY <1>0
<1>2. current[i] = units[k] /\ current[i + 1] = units[k + 1]
  BY <1>1 DEF Runs
<1> HIDE DEF k
<1>3. units[k].section = section /\ units[k + 1].section = section
  BY <1>1, PackedUnit
<1>4. Before(units[k], units[k + 1])
  BY <1>1, PackedOrder
<1>5. ASSUME NEW w \in UnitsOfSection(section), Before(units[k], w), Before(w, units[k + 1])
      PROVE  FALSE
  <2>1. PICK m \in 1 .. Len(units) : w = units[m]
    BY <1>0 DEF Progress, UnitsIn
  <2>2. units[k] \in Unit /\ units[k + 1] \in Unit /\ w \in Unit
    BY <1>1, <2>1, PackedUnit
  <2>3. CASE m <= k
    <3>1. m = k \/ m < k
      BY <1>1, <2>3
    <3>2. w = units[k] \/ Before(w, units[k])
      BY <1>1, <2>1, <3>1, PackedOrder
    <3> QED BY <1>5, <2>2, <3>2, BeforeIsStrict
  <2>4. CASE m >= k + 1
    <3>1. m = k + 1 \/ k + 1 < m
      BY <1>1, <2>4
    <3>2. w = units[k + 1] \/ Before(units[k + 1], w)
      BY <1>1, <2>1, <3>1, PackedOrder
    <3> QED BY <1>5, <2>2, <3>2, BeforeIsStrict
  <2> QED BY <1>1, <2>3, <2>4
<1> QED BY <1>2, <1>3, <1>4, <1>5

\* What a step does to the chunks: a section that fits, or the group packed.
LEMMA WhatIsAdded ==
    ASSUME [Next]_vars
    PROVE  \/ TakeSection
           \/ chunks' = Append(chunks, current) /\ pc = "pack" /\ current # <<>>
           \/ chunks' = chunks
BY DEF Next, DropSection, SplitSection, SplitParagraph, BeginPack, AppendUnit,
       CloseGroup, AtUnit, Overflows, CarryUnit, BeginGroup, LastGroup, vars

\* Every step keeps the chunks in order.
LEMMA StepOrder ==
    ASSUME TypeOK, Places, Progress, UnitsSorted, Runs, Ahead, InReadingOrder, [Next]_vars
    PROVE  InReadingOrder'
<1>0. doc' = doc
  BY StepKeeps
<1>1. CASE TakeSection
  <2>1. /\ chunks' = Append(chunks, <<Whole(section)>>) /\ pc = "sections"
        /\ section \in DOMAIN doc
    BY <1>1 DEF TakeSection, AtSection, TypeOK
  <2>2. /\ <<Whole(section)>> \in Group
        /\ LastOf(<<Whole(section)>>).section = section
        /\ Len(<<Whole(section)>>) = 1
    <3>1. doc[section] \in Section /\ section \in Nat
      BY <2>1 DEF TypeOK
    <3> QED BY <3>1 DEF Whole, Group, Unit, Section, LastOf
  <2>3. Consecutive(<<Whole(section)>>)
    BY <2>2 DEF Consecutive
  <2>4. chunks # <<>> => Before(LastOf(Latest), LastOf(<<Whole(section)>>))
    BY <2>1, <2>2 DEF Ahead, Before
  <2> QED BY <1>0, <2>1, <2>2, <2>3, <2>4, OrderAppend
<1>2. CASE chunks' = Append(chunks, current) /\ pc = "pack" /\ current # <<>>
  <2>1. current \in Group
    BY Shapes
  <2> QED BY <1>0, <1>2, <2>1, CurrentIsConsecutive, CurrentIsAhead, OrderAppend
<1>3. CASE chunks' = chunks
  <2>1. \A g \in Range(chunks') : Consecutive(g)'
    BY <1>0, <1>3, ConsecutiveFixed DEF InReadingOrder
  <2>2. \A j \in 1 .. Len(chunks') - 1 : Before(LastOf(chunks'[j]), LastOf(chunks'[j + 1]))
    BY <1>3 DEF InReadingOrder
  <2> QED BY <2>1, <2>2 DEF InReadingOrder, LastOf
<1> QED BY <1>1, <1>2, <1>3, WhatIsAdded

LEMMA InitOrder == Init => UnitsSorted /\ Runs /\ Ahead /\ InReadingOrder
<1> SUFFICES ASSUME Init PROVE UnitsSorted /\ Runs /\ Ahead /\ InReadingOrder
  OBVIOUS
<1>1. pc = "sections" /\ chunks = <<>> /\ Len(<<>>) = 0 /\ DOMAIN <<>> = {}
  BY DEF Init
<1>2. UnitsSorted /\ Runs /\ Ahead
  BY <1>1 DEF UnitsSorted, Runs, Ahead
<1>3. InReadingOrder
  BY <1>1 DEF InReadingOrder, Range
<1> QED BY <1>2, <1>3

\* The invariant of the order; what is shared and what is counted build on it.
OrderInv ==
    /\ TypeOK /\ Places
    /\ Progress /\ NothingIsLost
    /\ UnitsSorted /\ Runs /\ Ahead
    /\ InReadingOrder

LEMMA OrderInvariant == Spec => []OrderInv
<1>1. Init => OrderInv
  BY InitTyped, InitLost, InitOrder DEF OrderInv
<1>2. OrderInv /\ [Next]_vars => OrderInv'
  BY StepTyped, StepLost, StepSorted, StepRuns, StepAhead, StepOrder DEF OrderInv
<1> QED BY <1>1, <1>2, PTL DEF Spec

(***************************************************************************)
(* Every chunk is a run of consecutive units of one section in the order   *)
(* of the document, and reaches further than the chunk before it, for any  *)
(* documents and token counts.                                             *)
(***************************************************************************)
THEOREM ChunksFollowTheDocument == Spec => []InReadingOrder
<1>1. OrderInv => InReadingOrder
  BY DEF OrderInv
<1> QED BY <1>1, OrderInvariant, PTL

-----------------------------------------------------------------------------
(***************************************************************************)
(* Sizes.                                                                  *)
(***************************************************************************)
\* A group is within the target, or within what its last unit forces.
Bounded(g) ==
    \/ Count(g) <= TargetTokens
    \/ Count(g) <= OverlapTokens + LastOf(g).tokens

LEMMA LastOfAppend ==
    ASSUME NEW g \in Group, NEW u \in Unit
    PROVE  LastOf(Append(g, u)) = u /\ Append(g, u) # <<>> /\ Append(g, u) \in Group
<1>1. Append(g, u) \in Group /\ Len(Append(g, u)) = Len(g) + 1 /\ Append(g, u)[Len(g) + 1] = u
  BY AppendAt DEF Group
<1>2. Append(g, u) # <<>>
  BY DEF Group
<1> QED BY <1>1, <1>2 DEF LastOf

\* The counters keep up with the groups, and no group outgrows its bounds.
LEMMA StepCounted ==
    ASSUME TypeOK, Places, Counted, [Next]_vars
    PROVE  Counted'
<1>0. /\ current \in Group /\ tail \in Group
      /\ currentTokens \in Nat /\ tailTokens \in Nat
      /\ TargetTokens \in Nat /\ OverlapTokens \in Nat /\ tailTokens <= OverlapTokens
  BY Shapes, ChunkerAssumption DEF TypeOK
<1>a. /\ Counted <=>
            /\ pc \in {"pack", "tail"} => currentTokens = Count(current)
            /\ pc = "tail" => tailTokens = Count(tail)
            /\ pc \in {"pack", "tail"} /\ current # <<>> => Bounded(current)
      /\ Counted' <=>
            /\ pc' \in {"pack", "tail"} => currentTokens' = Count(current')
            /\ pc' = "tail" => tailTokens' = Count(tail')
            /\ pc' \in {"pack", "tail"} /\ current' # <<>> => Bounded(current')
  BY DEF Counted, Bounded
<1>1. CASE DropSection \/ TakeSection \/ SplitSection \/ SplitParagraph \/ LastGroup
  <2>1. pc' \notin {"pack", "tail"}
    BY <1>1 DEF DropSection, TakeSection, SplitSection, AtSection, SplitParagraph, LastGroup
  <2> QED BY <1>a, <2>1
<1>2. CASE BeginPack
  <2>1. current' = <<>> /\ currentTokens' = 0 /\ pc' = "pack"
    BY <1>2 DEF BeginPack
  <2> QED BY <1>a, <2>1, CountEmpty
<1>3. CASE AppendUnit
  <2> DEFINE u == units[next]
  <2>1. /\ pc = "pack" /\ pc' = "pack" /\ next <= Len(units)
        /\ current' = Append(current, u) /\ currentTokens' = currentTokens + u.tokens
        /\ current = <<>> \/ ~ (currentTokens + u.tokens > TargetTokens)
    BY <1>3 DEF AppendUnit, AtUnit, Overflows
  <2>2. u \in Unit /\ u.tokens \in Nat
    BY <2>1, NextUnit
  <2> HIDE DEF u
  <2>3. currentTokens = Count(current)
    BY <1>a, <2>1
  <2>4. Count(current') = currentTokens' /\ LastOf(current') = u
    BY <1>0, <2>1, <2>2, <2>3, CountAppend, LastOfAppend
  <2>5. CASE current = <<>>
    <3>1. Count(current') = u.tokens
      BY <1>0, <2>1, <2>2, <2>3, <2>4, <2>5, CountEmpty
    <3>2. Bounded(current')
      BY <1>0, <2>2, <2>4, <3>1 DEF Bounded
    <3> QED BY <1>a, <2>1, <2>4, <3>2
  <2>6. CASE current # <<>>
    <3>1. Bounded(current')
      BY <1>0, <2>1, <2>2, <2>4, <2>6 DEF Bounded
    <3> QED BY <1>a, <2>1, <2>4, <3>1
  <2> QED BY <2>5, <2>6
<1>4. CASE CloseGroup
  <2>1. /\ pc = "pack" /\ pc' = "tail" /\ UNCHANGED <<current, currentTokens>>
        /\ tail' = <<>> /\ tailTokens' = 0
    BY <1>4 DEF CloseGroup, AtUnit
  <2> QED BY <1>a, <2>1, CountEmpty
<1>5. CASE CarryUnit
  <2>1. /\ pc = "tail" /\ pc' = "tail" /\ UNCHANGED <<current, currentTokens>>
        /\ tail' = <<Previous>> \o tail /\ tailTokens' = tailTokens + Previous.tokens
        /\ Len(tail) < Len(current)
    BY <1>5 DEF CarryUnit, Fits
  <2>2. Previous \in Unit /\ Previous.tokens \in Nat
    <3>1. Len(current) - Len(tail) \in 1 .. Len(current)
      BY <2>1, Shapes
    <3> QED BY <3>1, Shapes, UnitAt DEF Previous
  <2>3. tailTokens' = Count(tail')
    BY <1>0, <1>a, <2>1, <2>2, CountPrepend
  <2> QED BY <1>a, <2>1, <2>3
<1>6. CASE BeginGroup
  <2> DEFINE u == units[next]
  <2>1. /\ pc = "tail" /\ pc' = "pack" /\ next <= Len(units)
        /\ current' = Append(tail, u) /\ currentTokens' = tailTokens + u.tokens
    BY <1>6 DEF BeginGroup, Places
  <2>2. u \in Unit /\ u.tokens \in Nat
    BY <2>1, NextUnit
  <2> HIDE DEF u
  <2>3. tailTokens = Count(tail)
    BY <1>a, <2>1
  <2>4. Count(current') = currentTokens' /\ LastOf(current') = u
    BY <1>0, <2>1, <2>2, <2>3, CountAppend, LastOfAppend
  <2>5. Bounded(current')
    BY <1>0, <2>1, <2>2, <2>4 DEF Bounded
  <2> QED BY <1>a, <2>1, <2>4, <2>5
<1>7. CASE UNCHANGED vars
  <2>1. UNCHANGED <<pc, current, currentTokens, tail, tailTokens>>
    BY <1>7 DEF vars, packVars
  <2> QED BY <1>a, <2>1
<1> QED BY <1>1, <1>2, <1>3, <1>4, <1>5, <1>6, <1>7 DEF Next

\* The units behind next are not the one at it.
LEMMA NextIsNew ==
    ASSUME TypeOK, UnitsSorted, pc # "sections", next <= Len(units),
           NEW k \in 1 .. next - 1
    PROVE  units[k] # units[next]
<1>1. k \in 1 .. Len(units) /\ next \in 1 .. Len(units) /\ k < next
  BY Shapes
<1>2. units[k] \in Unit /\ Before(units[k], units[next])
  BY <1>1, PackedUnit, PackedOrder
<1> QED BY <1>2, BeforeIsStrict

\* What current begins with is settled when the group begins.
LEMMA StepCarried ==
    ASSUME OrderInv, Counted, Carried, [Next]_vars
    PROVE  Carried'
<1>0. /\ TypeOK /\ Places /\ UnitsSorted /\ Runs /\ Ahead
      /\ units \in Group /\ current \in Group /\ tail \in Group
      /\ Len(units) \in Nat /\ Len(current) \in Nat /\ Len(tail) \in Nat
      /\ next \in Nat /\ next >= 1
  BY Shapes DEF OrderInv
<1>1. CASE AppendUnit
  <2> SUFFICES ASSUME chunks # <<>>, LastOf(Latest).section = section
               PROVE  Carried'
    <3>1. Latest' = Latest /\ chunks' = chunks /\ section' = section
      BY <1>1 DEF AppendUnit, Latest
    <3>2. LastOf(Latest)' = LastOf(Latest')
      BY DEF LastOf
    <3> QED BY <3>1, <3>2 DEF Carried
  <2> DEFINE u == units[next]
             n == Len(tail)
  <2>1. /\ pc = "pack" /\ pc' = "pack" /\ next <= Len(units)
        /\ UNCHANGED <<chunks, tail, units, section>>
        /\ current' = Append(current, u) /\ next' = next + 1
    BY <1>1 DEF AppendUnit, AtUnit
  <2>2. u \in Unit /\ \A k \in 1 .. next - 1 : units[k] # u
    BY <1>0, <2>1, NextUnit, NextIsNew
  <2>3. /\ Len(current') = Len(current) + 1
        /\ \A i \in 1 .. Len(current) : current'[i] = current[i]
        /\ current'[Len(current) + 1] = u
    BY <1>0, <2>1, <2>2, AppendAt DEF Group
  <2>4. Latest' = Latest
    BY <2>1 DEF Latest
  <2> HIDE DEF u
  <2>5. /\ \A i \in DOMAIN Latest : \E k \in 1 .. next - 1 : Latest[i] = units[k]
        /\ CarriedOver(Latest, current, n)
        /\ \A i \in 1 .. n : current[i] = tail[i]
        /\ Count(tail) <= OverlapTokens
        /\ n < Len(Latest) => Count(tail) + Latest[Len(Latest) - n].tokens > OverlapTokens
    BY <2>1 DEF Carried
  <2>6. \A i \in DOMAIN Latest : \E k \in 1 .. next' - 1 : Latest[i] = units[k]
    BY <1>0, <2>1, <2>5
  <2>7. u \notin UnitsIn(Latest)
    BY <2>2, <2>5 DEF UnitsIn
  <2>8. n < Len(current) /\ n \in Nat
    BY <1>0, <2>5 DEF CarriedOver
  <2>9. CarriedOver(Latest, current', n)
    <3>1. \A i \in 1 .. n : current'[i] = current[i]
      BY <1>0, <2>3, <2>8
    <3>2. \A i \in n + 1 .. Len(current') : i \in n + 1 .. Len(current) \/ i = Len(current) + 1
      BY <1>0, <2>3, <2>8
    <3>3. \A i \in n + 1 .. Len(current) : current'[i] = current[i]
      BY <1>0, <2>3, <2>8
    <3>4. n < Len(current')
      BY <1>0, <2>3, <2>8
    <3> HIDE DEF n
    <3> QED BY <2>3, <2>5, <2>7, <3>1, <3>2, <3>3, <3>4 DEF CarriedOver
  <2>10. \A i \in 1 .. n : current'[i] = tail[i]
    BY <1>0, <2>3, <2>5, <2>8
  <2>11. Count(tail') = Count(tail) /\ Len(tail') = n
    BY <2>1
  <2> QED BY <2>1, <2>4, <2>5, <2>6, <2>9, <2>10, <2>11 DEF Carried
<1>2. CASE BeginGroup
  <2> SUFFICES ASSUME chunks # <<>>
               PROVE  Carried'
    <3>1. chunks' = chunks
      BY <1>2 DEF BeginGroup
    <3> QED BY <3>1 DEF Carried
  <2> DEFINE u == units[next]
             n == Len(tail)
  <2>1. /\ pc = "tail" /\ pc' = "pack" /\ next <= Len(units)
        /\ UNCHANGED <<chunks, tail, units, section>>
        /\ current' = Append(tail, u) /\ next' = next + 1 /\ ~ Fits
    BY <1>0, <1>2 DEF BeginGroup, Places
  <2>2. u \in Unit /\ \A k \in 1 .. next - 1 : units[k] # u
    BY <1>0, <2>1, NextUnit, NextIsNew
  <2>3. /\ Len(current') = n + 1
        /\ \A i \in 1 .. n : current'[i] = tail[i]
        /\ current'[n + 1] = u
    BY <1>0, <2>1, <2>2, AppendAt DEF Group
  <2>4. Latest' = Latest /\ Latest = current
    BY <1>0, <2>1 DEF Latest, Ahead
  <2>5. /\ n <= Len(current) /\ Len(current) < next
        /\ \A i \in 1 .. Len(current) : current[i] = units[next - 1 - Len(current) + i]
        /\ \A i \in 1 .. n : tail[i] = current[Len(current) - n + i]
    BY <1>0, <2>1 DEF Places, Runs
  <2> HIDE DEF u
  <2>6. ASSUME NEW i \in 1 .. Len(current)
        PROVE  \E k \in 1 .. next - 1 : current[i] = units[k]
    <3>1. next - 1 - Len(current) + i \in 1 .. next - 1
      BY <1>0, <2>5
    <3> QED BY <2>5, <3>1
  <2>7. DOMAIN Latest = 1 .. Len(current)
    BY <1>0, <2>4 DEF Group
  <2>8. \A i \in DOMAIN Latest : \E k \in 1 .. next' - 1 : Latest[i] = units[k]
    BY <1>0, <2>1, <2>4, <2>6, <2>7
  <2>9. u \notin UnitsIn(current)
    BY <2>2, <2>4, <2>6, <2>7 DEF UnitsIn
  <2>10. CarriedOver(Latest, current', n)
    <3>1. n < Len(current') /\ \A i \in n + 1 .. Len(current') : i = n + 1
      BY <1>0, <2>3
    <3> HIDE DEF n
    <3> QED BY <2>3, <2>4, <2>5, <2>9, <3>1 DEF CarriedOver
  <2>11. Count(tail) = tailTokens /\ tailTokens <= OverlapTokens
    BY <1>0, <2>1, ChunkerAssumption DEF Counted, TypeOK
  <2>12. n < Len(Latest) => Count(tail) + Latest[Len(Latest) - n].tokens > OverlapTokens
    <3> SUFFICES ASSUME n < Len(current) PROVE tailTokens + Previous.tokens > OverlapTokens
      BY <2>4, <2>11 DEF Previous
    <3>1. Previous.tokens \in Nat
      <4>1. Len(current) - Len(tail) \in 1 .. Len(current)
        BY <1>0
      <4> QED BY <1>0, <4>1, UnitAt DEF Previous
    <3> QED BY <1>0, <2>1, <3>1, ChunkerAssumption DEF Fits, TypeOK
  <2>13. Count(tail') = Count(tail) /\ Len(tail') = n
    BY <2>1
  <2> QED BY <2>1, <2>3, <2>4, <2>8, <2>10, <2>11, <2>12, <2>13 DEF Carried
<1>3. CASE BeginPack
  <2>1. Latest' = Latest /\ UNCHANGED <<chunks, section>> /\ pc = "split"
    BY <1>3 DEF BeginPack, Latest
  <2>2. LastOf(Latest)' = LastOf(Latest')
    BY DEF LastOf
  <2>3. chunks # <<>> => LastOf(Latest).section # section
    <3> SUFFICES ASSUME chunks # <<>> PROVE LastOf(Latest).section # section
      OBVIOUS
    <3>1. LastOf(Latest).section < section /\ section \in Nat /\ Latest # <<>>
      BY <1>0, <2>1 DEF Ahead, TypeOK
    <3>2. Latest \in Group
      <4>1. chunks \in Seq(Group) /\ Len(chunks) \in 1 .. Len(chunks)
        BY <1>0 DEF TypeOK
      <4> QED BY <4>1 DEF Latest
    <3>3. Len(Latest) \in 1 .. Len(Latest)
      BY <3>1, <3>2 DEF Group
    <3>4. LastOf(Latest).section \in Nat
      <4>1. LastOf(Latest) \in Unit
        BY <3>2, <3>3, UnitAt DEF LastOf
      <4> QED BY <4>1 DEF Unit
    <3> QED BY <3>1, <3>4
  <2> QED BY <2>1, <2>2, <2>3 DEF Carried
<1>4. CASE pc' # "pack"
  BY <1>4 DEF Carried
<1>5. CASE UNCHANGED vars
  <2>1. Latest' = Latest
    BY <1>5 DEF vars, Latest
  <2> QED BY <1>5, <2>1 DEF vars, packVars, Carried, LastOf
<1>6. DropSection \/ TakeSection \/ SplitSection \/ SplitParagraph \/ CloseGroup \/ CarryUnit \/ LastGroup
      => pc' # "pack"
  BY DEF DropSection, TakeSection, SplitSection, AtSection, SplitParagraph, CloseGroup,
         CarryUnit, LastGroup
<1> QED BY <1>1, <1>2, <1>3, <1>4, <1>5, <1>6 DEF Next

\* A section that fits is one unit.
LEMMA WholeSection ==
    ASSUME TypeOK, TakeSection
    PROVE  /\ <<Whole(section)>> \in Group
           /\ LastOf(<<Whole(section)>>).section = section
           /\ Count(<<Whole(section)>>) <= TargetTokens
<1>1. doc[section] \in Section /\ section \in Nat /\ doc[section].tokens <= TargetTokens
  BY DEF TakeSection, AtSection, TypeOK
<1>2. Whole(section) \in Unit /\ Whole(section).section = section
      /\ Whole(section).tokens = doc[section].tokens /\ doc[section].tokens \in Nat
  BY <1>1 DEF Whole, Unit, Section
<1>3. <<>> \in Group /\ Append(<<>>, Whole(section)) = <<Whole(section)>>
  BY DEF Group
<1>4. /\ <<Whole(section)>> \in Group
      /\ LastOf(<<Whole(section)>>) = Whole(section)
      /\ Count(<<Whole(section)>>) = 0 + Whole(section).tokens
  BY <1>2, <1>3, LastOfAppend, CountAppend, CountEmpty
<1> QED BY <1>1, <1>2, <1>4

\* Every step keeps the chunks within their bounds.
LEMMA StepBounded ==
    ASSUME TypeOK, Counted, ChunksAreBounded, [Next]_vars
    PROVE  ChunksAreBounded'
<1>a. /\ ChunksAreBounded <=> \A j \in DOMAIN chunks : Bounded(chunks[j])
      /\ ChunksAreBounded' <=> \A j \in DOMAIN chunks' : Bounded(chunks'[j])
  BY DEF ChunksAreBounded, Bounded, LastOf
<1>1. ASSUME NEW g \in Group, Bounded(g), chunks' = Append(chunks, g)
      PROVE  ChunksAreBounded'
  <2>1. /\ Len(chunks) \in Nat /\ DOMAIN chunks = 1 .. Len(chunks)
        /\ DOMAIN chunks' = 1 .. Len(chunks) + 1
        /\ \A j \in 1 .. Len(chunks) : chunks'[j] = chunks[j]
        /\ chunks'[Len(chunks) + 1] = g
    BY <1>1, AppendAt DEF TypeOK
  <2>2. \A j \in DOMAIN chunks' : j \in DOMAIN chunks \/ j = Len(chunks) + 1
    BY <2>1
  <2> QED BY <1>a, <1>1, <2>1, <2>2
<1>2. CASE TakeSection
  BY <1>1, <1>2, WholeSection DEF TakeSection, Bounded
<1>3. CASE chunks' = Append(chunks, current) /\ pc = "pack" /\ current # <<>>
  BY <1>1, <1>3, Shapes DEF Counted, Bounded
<1>4. CASE chunks' = chunks
  BY <1>a, <1>4
<1> QED BY <1>2, <1>3, <1>4, WhatIsAdded

\* What two neighbouring chunks g and h share is as OverlapCarriesBoundary says.
Overlapping(g, h) ==
    LastOf(g).section = LastOf(h).section =>
        \E n \in 0 .. Len(g) :
            /\ CarriedOver(g, h, n)
            /\ Count(SubSeq(h, 1, n)) <= OverlapTokens
            /\ n < Len(g) => Count(SubSeq(h, 1, n)) + g[Len(g) - n].tokens > OverlapTokens

\* The group packed shares with the last chunk what it was begun with.
LEMMA CurrentOverlaps ==
    ASSUME OrderInv, Carried, pc = "pack", chunks # <<>>, current # <<>>
    PROVE  Overlapping(Latest, current)
<1> SUFFICES ASSUME LastOf(Latest).section = LastOf(current).section
             PROVE  \E n \in 0 .. Len(Latest) :
                        /\ CarriedOver(Latest, current, n)
                        /\ Count(SubSeq(current, 1, n)) <= OverlapTokens
                        /\ n < Len(Latest) =>
                              Count(SubSeq(current, 1, n)) + Latest[Len(Latest) - n].tokens
                                > OverlapTokens
  BY DEF Overlapping
<1>1. LastOf(current).section = section
  <2>1. TypeOK /\ Places /\ UnitsSorted /\ Runs
    BY DEF OrderInv
  <2> QED BY <2>1, CurrentEnds, PackedUnit
<1> DEFINE n == Len(tail)
<1>2. /\ CarriedOver(Latest, current, n)
      /\ \A i \in 1 .. n : current[i] = tail[i]
      /\ Count(tail) <= OverlapTokens
      /\ n < Len(Latest) => Count(tail) + Latest[Len(Latest) - n].tokens > OverlapTokens
  BY <1>1 DEF Carried
<1>3. /\ tail \in Seq(Unit) /\ current \in Seq(Unit) /\ n \in Nat
      /\ Len(current) \in Nat /\ n < Len(current) /\ n <= Len(Latest)
  BY <1>2, Shapes DEF OrderInv, Group, CarriedOver
<1>4. SubSeq(current, 1, n) = tail
  <2>1. SubSeq(current, 1, n) = [i \in 1 .. n |-> current[i]]
    BY <1>3
  <2>2. tail = [i \in 1 .. n |-> tail[i]]
    BY <1>3
  <2> HIDE DEF n
  <2> QED BY <1>2, <2>1, <2>2
<1>5. n \in 0 .. Len(Latest)
  <2>1. Len(Latest) \in Nat
    <3>1. chunks \in Seq(Group) /\ Len(chunks) \in 1 .. Len(chunks)
      BY DEF OrderInv, TypeOK
    <3>2. Latest \in Group
      BY <3>1 DEF Latest
    <3> QED BY <3>2 DEF Group
  <2> QED BY <1>3, <2>1
<1> HIDE DEF n
<1> QED BY <1>2, <1>4, <1>5

\* Every step keeps what neighbouring chunks share as it should be.
LEMMA StepOverlap ==
    ASSUME OrderInv, Carried, OverlapCarriesBoundary, [Next]_vars
    PROVE  OverlapCarriesBoundary'
<1>0. TypeOK /\ Ahead /\ chunks \in Seq(Group)
  BY DEF OrderInv, TypeOK
<1>a. /\ OverlapCarriesBoundary <=>
            \A j \in 1 .. Len(chunks) - 1 : Overlapping(chunks[j], chunks[j + 1])
      /\ OverlapCarriesBoundary' <=>
            \A j \in 1 .. Len(chunks') - 1 : Overlapping(chunks'[j], chunks'[j + 1])
  BY DEF OverlapCarriesBoundary, Overlapping, LastOf
<1>1. ASSUME NEW g \in Group, chunks' = Append(chunks, g),
             chunks # <<>> => Overlapping(Latest, g)
      PROVE  OverlapCarriesBoundary'
  <2> DEFINE n == Len(chunks)
  <2>1. /\ n \in Nat /\ Len(chunks') = n + 1
        /\ \A j \in 1 .. n : chunks'[j] = chunks[j]
        /\ chunks'[n + 1] = g
    BY <1>0, <1>1, AppendAt
  <2>2. n # 0 => chunks # <<>> /\ chunks[n] = Latest
    BY DEF Latest
  <2> HIDE DEF n
  <2>3. ASSUME NEW j \in 1 .. n
        PROVE  Overlapping(chunks'[j], chunks'[j + 1])
    <3>1. CASE j = n
      <4>1. chunks'[j] = Latest /\ chunks'[j + 1] = g /\ chunks # <<>>
        BY <2>1, <2>2, <3>1
      <4> QED BY <1>1, <4>1
    <3>2. CASE j # n
      <4>1. j \in 1 .. n - 1 /\ j + 1 \in 1 .. n
        BY <2>1, <3>2
      <4> QED BY <1>a, <2>1, <4>1 DEF n
    <3> QED BY <3>1, <3>2
  <2>4. Len(chunks') - 1 = n
    BY <2>1
  <2> QED BY <1>a, <2>3, <2>4
<1>2. CASE TakeSection
  <2>1. /\ chunks' = Append(chunks, <<Whole(section)>>) /\ pc = "sections" /\ section \in Nat
        /\ <<Whole(section)>> \in Group /\ LastOf(<<Whole(section)>>).section = section
    BY <1>0, <1>2, WholeSection DEF TakeSection, AtSection, TypeOK
  <2>2. chunks # <<>> => LastOf(Latest).section < section
    BY <1>0, <2>1 DEF Ahead
  <2>3. chunks # <<>> => LastOf(Latest).section # section
    <3> SUFFICES ASSUME chunks # <<>>, LastOf(Latest).section = section PROVE FALSE
      OBVIOUS
    <3> QED BY <2>1, <2>2
  <2>4. chunks # <<>> => Overlapping(Latest, <<Whole(section)>>)
    BY <2>1, <2>3 DEF Overlapping
  <2> QED BY <1>1, <2>1, <2>4
<1>3. CASE chunks' = Append(chunks, current) /\ pc = "pack" /\ current # <<>>
  BY <1>0, <1>1, <1>3, Shapes, CurrentOverlaps
<1>4. CASE chunks' = chunks
  BY <1>a, <1>4
<1> QED BY <1>2, <1>3, <1>4, WhatIsAdded

\* The invariant of the sizes.
SizeInv == OrderInv /\ Counted /\ Carried /\ ChunksAreBounded /\ OverlapCarriesBoundary

LEMMA SizeInvariant == Spec => []SizeInv
<1>1. Init => Counted /\ Carried /\ ChunksAreBounded /\ OverlapCarriesBoundary
  <2> SUFFICES ASSUME Init PROVE Counted /\ Carried /\ ChunksAreBounded /\ OverlapCarriesBoundary
    OBVIOUS
  <2>1. pc = "sections" /\ chunks = <<>> /\ Len(<<>>) = 0 /\ DOMAIN <<>> = {}
    BY DEF Init
  <2> QED BY <2>1 DEF Counted, Carried, ChunksAreBounded, OverlapCarriesBoundary
<1>2. OrderInv /\ Counted /\ Carried /\ ChunksAreBounded /\ OverlapCarriesBoundary /\ [Next]_vars
      => Counted' /\ Carried' /\ ChunksAreBounded' /\ OverlapCarriesBoundary'
  <2>1. OrderInv => TypeOK /\ Places
    BY DEF OrderInv
  <2> QED BY <2>1, StepCounted, StepCarried, StepBounded, StepOverlap
<1> QED BY <1>1, <1>2, OrderInvariant, PTL DEF Spec, SizeInv

(***************************************************************************)
(* A chunk exceeds the target only where one unit does, or by what was     *)
(* carried forward in front of a unit, for any target and overlap.         *)
(***************************************************************************)
THEOREM ChunksStayBounded == Spec => []ChunksAreBounded
<1>1. SizeInv => ChunksAreBounded
  BY DEF SizeInv
<1> QED BY <1>1, SizeInvariant, PTL

(***************************************************************************)
(* Two neighbouring chunks of a section share what the overlap has room    *)
(* for and no more, for any target and overlap.                            *)
(***************************************************************************)
THEOREM BoundariesAreCarried == Spec => []OverlapCarriesBoundary
<1>1. SizeInv => OverlapCarriesBoundary
  BY DEF SizeInv
<1> QED BY <1>1, SizeInvariant, PTL

=============================================================================
