----------------------------- MODULE MCChunker -----------------------------
(* The documents of a small instance of Chunker. *)
EXTENDS Chunker

\* Paragraphs below, at and above the target; the sentences of one that is
\* above it fit, do not fit, or fit the overlap.
Plain(n) == [tokens |-> n, sentences |-> <<n>>]
Paragraphs ==
    {Plain(n) : n \in 1 .. 4}
        \cup {[tokens |-> 5, sentences |-> s] : s \in {<<2, 3>>, <<1, 1, 1, 1, 1>>, <<5>>, <<4, 1>>}}

Total(ps) ==
    LET upTo[i \in 0 .. Len(ps)] == IF i = 0 THEN 0 ELSE upTo[i - 1] + ps[i].tokens
    IN  upTo[Len(ps)]
SectionOf(ps) == [tokens |-> Total(ps), paragraphs |-> ps]
Sections(n)   == {SectionOf(ps) : ps \in UNION {[1 .. k -> Paragraphs] : k \in 0 .. n}}

\* One long section, or an empty or short one before or after it.
MCDocuments ==
    {<<s>> : s \in Sections(4)}
        \cup {<<s, t>> : s, t \in Sections(1)}
        \cup {<<SectionOf(<<>>), s, t>> : s, t \in Sections(2)}

=============================================================================
