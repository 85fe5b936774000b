----------------------------- MODULE MC_StateFeed -----------------------------
(* Instances of the document feed: two paths, two commits. *)
EXTENDS StateFeed, TLC

CONSTANTS a, b

PathsAlike == Permutations({a, b})

=============================================================================
