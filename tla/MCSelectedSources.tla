-------------------------- MODULE MCSelectedSources --------------------------
(* Two iterators over up to three streams, and skips past their end. *)
EXTENDS SelectedSources

MCIterators == {1, 2}
=============================================================================
