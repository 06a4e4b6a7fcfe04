--------------------------- MODULE MCDimRunControl ---------------------------
(* Instances of DimRunControl for TLC. *)
EXTENDS DimRunControl

\* One number of each kind that the client tells apart, and a second positive one, so
\* that an answer can start one run over another.
TwoRunsAndBadOnes == {-2, 0, 1, 2}

=============================================================================
