------------------------------ MODULE MCIngest ------------------------------
(* Ingest with the constants its TLC runs share. *)
EXTENDS IngestHandoff, TLC

CONSTANTS p1, p2

MCPartitions == {p1, p2}
\* The partitions of a topic are interchangeable.
Symmetry == Permutations(MCPartitions)

=============================================================================
