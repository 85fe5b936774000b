------------------------------ MODULE MC_Journal ------------------------------
(* Instances of the journal: two matches, a few requests of any kind. *)
EXTENDS Journal

=============================================================================
