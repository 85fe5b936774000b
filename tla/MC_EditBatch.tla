---------------------------- MODULE MC_EditBatch ----------------------------
(***************************************************************************)
(* Instances of the edit batcher: three writes to a game of two matches    *)
(* with a panic anywhere, and two writes that must be answered.            *)
(***************************************************************************)
EXTENDS EditBatch, TLC

CONSTANTS j1, j2, j3, m1, m2, doc

\* Two edits of a match and the finish of another.
MatchesAndFinish == (j1 :> m1) @@ (j2 :> m1) @@ (j3 :> m2)

\* An edit of a match and one of the flat document.
MatchAndDoc == (j1 :> m1) @@ (j2 :> doc)

FirstTwoAlike == Permutations({j1, j2})

OnlyTheLast == {j3}

=============================================================================
