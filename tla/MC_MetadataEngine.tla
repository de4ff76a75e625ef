--------------------------- MODULE MC_MetadataEngine ---------------------------
(* Instances of MetadataEngine for TLC. *)
EXTENDS MetadataEngine

Span(from, to) == [start |-> from, end |-> to]

\* Ranges that overlap in every way: equal, nested, shifted, adjacent.
Overlapping == {Span(0, 3), Span(1, 2), Span(1, 3)}
=============================================================================
