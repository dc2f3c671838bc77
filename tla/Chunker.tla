------------------------------ MODULE Chunker ------------------------------
(***************************************************************************)
(* src/rag/chunker.py: chunk_document with chunk_section and _pack, one    *)
(* iteration of a loop per step.                                           *)
(*                                                                         *)
(* A tokenizer is not additive, so the count of a section, of each of its  *)
(* paragraphs and of each sentence is part of the document.  Section 1 is  *)
(* the text before the first heading; no tokens means no text.             *)
(***************************************************************************)
EXTENDS Integers, SequencesExt

CONSTANTS
    TargetTokens,   \* TARGET_TOKENS
    OverlapTokens,  \* OVERLAP_TOKENS
    Documents       \* the documents that may be chunked

Paragraph == [tokens : Nat, sentences : Seq(Nat)]
Section   == [tokens : Nat, paragraphs : Seq(Paragraph)]

ASSUME ChunkerAssumption ==
    /\ TargetTokens \in Nat
    /\ OverlapTokens \in Nat
    /\ Documents \subseteq Seq(Section)

\* A piece of a section that is not split further: the whole section (0, 0),
\* a paragraph (p, 0) or a sentence (p, s).
Unit == [section : Nat, paragraph : Nat, sentence : Nat, tokens : Nat]

VARIABLES
    doc,            \* the document
    pc,             \* the loop that is running: "sections", "split", "pack", "tail"
    section,        \* the section it is at
    paragraph,      \* and the paragraph of it
    units,          \* chunk_section's units
    next,           \* the unit _pack is at
    current,        \* _pack's current group
    currentTokens,
    tail,           \* what it carries forward from the group it has closed
    tailTokens,
    chunks          \* the chunks; chunk_index is the place in the sequence

packVars == <<next, current, currentTokens, tail, tailTokens>>
vars == <<doc, pc, section, paragraph, units, packVars, chunks>>

Init ==
    /\ doc \in Documents
    /\ pc = "sections"
    /\ section = 1
    /\ paragraph = 1
    /\ units = <<>>
    /\ next = 1
    /\ current = <<>> /\ currentTokens = 0
    /\ tail = <<>> /\ tailTokens = 0
    /\ chunks = <<>>

-----------------------------------------------------------------------------
(***************************************************************************)
(* chunk_document and chunk_section.                                       *)
(***************************************************************************)
\* split_into_sections drops a heading or preamble without text, but returns
\* the body of a document without headings even if there is none.
Kept(s) == doc[s].tokens > 0 \/ Len(doc) = 1

Whole(s) == [section |-> s, paragraph |-> 0, sentence |-> 0, tokens |-> doc[s].tokens]

AtSection == pc = "sections" /\ section <= Len(doc)

DropSection ==
    /\ AtSection
    /\ ~ Kept(section)
    /\ section' = section + 1
    /\ UNCHANGED <<doc, pc, paragraph, units, packVars, chunks>>

\* The section fits the budget: it is one chunk.
TakeSection ==
    /\ AtSection
    /\ Kept(section)
    /\ doc[section].tokens <= TargetTokens
    /\ chunks' = Append(chunks, <<Whole(section)>>)
    /\ section' = section + 1
    /\ UNCHANGED <<doc, pc, paragraph, units, packVars>>

SplitSection ==
    /\ AtSection
    /\ doc[section].tokens > TargetTokens
    /\ pc' = "split"
    /\ paragraph' = 1
    /\ units' = <<>>
    /\ UNCHANGED <<doc, section, packVars, chunks>>

\* The units of paragraph p of section s: itself, or its sentences if it is oversized.
UnitsOf(s, p) ==
    LET text == doc[s].paragraphs[p] IN
    IF text.tokens <= TargetTokens
    THEN <<[section |-> s, paragraph |-> p, sentence |-> 0, tokens |-> text.tokens]>>
    ELSE [i \in 1 .. Len(text.sentences) |->
             [section |-> s, paragraph |-> p, sentence |-> i, tokens |-> text.sentences[i]]]

SplitParagraph ==
    /\ pc = "split"
    /\ paragraph <= Len(doc[section].paragraphs)
    /\ units' = units \o UnitsOf(section, paragraph)
    /\ paragraph' = paragraph + 1
    /\ UNCHANGED <<doc, pc, section, packVars, chunks>>

-----------------------------------------------------------------------------
(***************************************************************************)
(* _pack.                                                                  *)
(***************************************************************************)
BeginPack ==
    /\ pc = "split"
    /\ paragraph > Len(doc[section].paragraphs)
    /\ pc' = "pack"
    /\ next' = 1
    /\ current' = <<>>
    /\ currentTokens' = 0
    /\ UNCHANGED <<doc, section, paragraph, units, tail, tailTokens, chunks>>

AtUnit == pc = "pack" /\ next <= Len(units)

\* Mutant of Overflows: the group is closed only when the budget is used up.
OverflowsLate == current # <<>> /\ currentTokens > TargetTokens

Overflows == current # <<>> /\ currentTokens + units[next].tokens > TargetTokens

AppendUnit ==
    /\ AtUnit
    /\ ~ Overflows
    /\ current' = Append(current, units[next])
    /\ currentTokens' = currentTokens + units[next].tokens
    /\ next' = next + 1
    /\ UNCHANGED <<doc, pc, section, paragraph, units, tail, tailTokens, chunks>>

CloseGroup ==
    /\ AtUnit
    /\ Overflows
    /\ chunks' = Append(chunks, current)
    /\ tail' = <<>>
    /\ tailTokens' = 0
    /\ pc' = "tail"
    /\ UNCHANGED <<doc, section, paragraph, units, next, current, currentTokens>>

\* The unit of the closed group that is in front of the tail, if it may be carried.
Previous == current[Len(current) - Len(tail)]

\* Mutant of Fits: >= for >.
FitsStrictly == Len(tail) < Len(current) /\ tailTokens + Previous.tokens < OverlapTokens

Fits == Len(tail) < Len(current) /\ tailTokens + Previous.tokens <= OverlapTokens

\* Mutant of CarryUnit: tail.append for tail.insert(0, ...).
CarryUnitBehind ==
    /\ pc = "tail"
    /\ Fits
    /\ tail' = Append(tail, Previous)
    /\ tailTokens' = tailTokens + Previous.tokens
    /\ UNCHANGED <<doc, pc, section, paragraph, units, next, current, currentTokens, chunks>>

CarryUnit ==
    /\ pc = "tail"
    /\ Fits
    /\ tail' = <<Previous>> \o tail
    /\ tailTokens' = tailTokens + Previous.tokens
    /\ UNCHANGED <<doc, pc, section, paragraph, units, next, current, currentTokens, chunks>>

\* Mutant of BeginGroup: the unit that did not fit is forgotten.
BeginGroupWithoutUnit ==
    /\ pc = "tail"
    /\ ~ Fits
    /\ current' = tail
    /\ currentTokens' = tailTokens
    /\ next' = next + 1
    /\ pc' = "pack"
    /\ UNCHANGED <<doc, section, paragraph, units, tail, tailTokens, chunks>>

BeginGroup ==
    /\ pc = "tail"
    /\ ~ Fits
    /\ current' = Append(tail, units[next])
    /\ currentTokens' = tailTokens + units[next].tokens
    /\ next' = next + 1
    /\ pc' = "pack"
    /\ UNCHANGED <<doc, section, paragraph, units, tail, tailTokens, chunks>>

LastGroup ==
    /\ pc = "pack"
    /\ next > Len(units)
    /\ chunks' = IF current # <<>> THEN Append(chunks, current) ELSE chunks
    /\ section' = section + 1
    /\ pc' = "sections"
    /\ UNCHANGED <<doc, paragraph, units, packVars>>

Next ==
    \/ DropSection \/ TakeSection \/ SplitSection \/ SplitParagraph
    \/ BeginPack \/ AppendUnit \/ CloseGroup \/ CarryUnit \/ BeginGroup \/ LastGroup

Spec == Init /\ [][Next]_vars

-----------------------------------------------------------------------------
Group == Seq(Unit)

TypeOK ==
    /\ doc \in Seq(Section)
    /\ pc \in {"sections", "split", "pack", "tail"}
    /\ section \in 1 .. Len(doc) + 1
    /\ paragraph \in Nat
    /\ units \in Group
    /\ next \in Nat \ {0}
    /\ current \in Group
    /\ currentTokens \in Nat
    /\ tail \in Group
    /\ tailTokens \in 0 .. OverlapTokens
    /\ chunks \in Seq(Group)

UnitsIn(group)  == {group[i] : i \in DOMAIN group}
Chunked(groups) == UNION {UnitsIn(groups[j]) : j \in DOMAIN groups}

\* What section s consists of, were there no packing.
UnitsOfSection(s) ==
    IF ~ Kept(s) THEN {}
    ELSE IF doc[s].tokens <= TargetTokens THEN {Whole(s)}
    ELSE UNION {UnitsIn(UnitsOf(s, p)) : p \in DOMAIN doc[s].paragraphs}

(***************************************************************************)
(* No text is left out of the index: each unit of the sections behind us   *)
(* is in a chunk, whichever groups were closed and carried in between.     *)
(***************************************************************************)
NothingIsLost ==
    \A s \in 1 .. section - 1 : UnitsOfSection(s) \subseteq Chunked(chunks)

\* u comes before v in the document.
Before(u, v) ==
    \/ u.section < v.section
    \/ u.section = v.section /\ u.paragraph < v.paragraph
    \/ u.section = v.section /\ u.paragraph = v.paragraph /\ u.sentence < v.sentence

LastOf(group) == group[Len(group)]

\* The units of g are of one section, in the order of the document, and none
\* of the section is missing in between.
Consecutive(g) ==
    \A i \in 1 .. Len(g) - 1 :
        /\ g[i].section = g[i + 1].section
        /\ Before(g[i], g[i + 1])
        /\ ~ \E w \in UnitsOfSection(g[i].section) : Before(g[i], w) /\ Before(w, g[i + 1])

(***************************************************************************)
(* A chunk is a run of consecutive units of one section, in the order of   *)
(* the document ("Each chunk lands on a section boundary, so it arrives    *)
(* with its heading attached"), and it reaches further than the chunk      *)
(* before it: none only repeats what was carried forward.                  *)
(***************************************************************************)
InReadingOrder ==
    /\ \A g \in Range(chunks) : Consecutive(g)
    /\ \A j \in 1 .. Len(chunks) - 1 : Before(LastOf(chunks[j]), LastOf(chunks[j + 1]))

\* The tokens of a group, summed from its first unit on.
Count(group) ==
    LET upTo[i \in 0 .. Len(group)] == IF i = 0 THEN 0 ELSE upTo[i - 1] + group[i].tokens
    IN  upTo[Len(group)]

\* Group h begins with the last n units of g, and has no other unit of g.
CarriedOver(g, h, n) ==
    /\ n <= Len(g) /\ n < Len(h)
    /\ \A i \in 1 .. n : h[i] = g[Len(g) - n + i]
    /\ \A i \in n + 1 .. Len(h) : h[i] \notin UnitsIn(g)

(***************************************************************************)
(* Of two neighbouring chunks of a section the second begins with the end  *)
(* of the first and goes on with what is new: what they share is at most   *)
(* OverlapTokens, and as much as fits: the unit in front of it would not   *)
(* ("so a fact split across a boundary is retrievable from either side").  *)
(***************************************************************************)
OverlapCarriesBoundary ==
    \A j \in 1 .. Len(chunks) - 1 :
        LastOf(chunks[j]).section = LastOf(chunks[j + 1]).section =>
            \E n \in 0 .. Len(chunks[j]) :
                LET shared == Count(SubSeq(chunks[j + 1], 1, n)) IN
                /\ CarriedOver(chunks[j], chunks[j + 1], n)
                /\ shared <= OverlapTokens
                /\ n < Len(chunks[j]) =>
                      shared + chunks[j][Len(chunks[j]) - n].tokens > OverlapTokens

(***************************************************************************)
(* A chunk is within the target, or it is one unit that is not, or it is   *)
(* what was carried forward and the unit that did not fit the last chunk:  *)
(* the most an embedding has to take ("<=target-token groups", says _pack, *)
(* which forgets what is carried).                                         *)
(***************************************************************************)
ChunksAreBounded ==
    \A j \in DOMAIN chunks :
        \/ Count(chunks[j]) <= TargetTokens
        \/ Count(chunks[j]) <= OverlapTokens + LastOf(chunks[j]).tokens

=============================================================================
