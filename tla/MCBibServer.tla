------------------------------ MODULE MCBibServer ------------------------------
(* Model values and symmetry for the runs of BibServer. *)
EXTENDS BibServer, TLC

Symmetry == Permutations(Clients) \cup Permutations(Workers)
=============================================================================
