----------------------------- MODULE MC_Services -----------------------------
(***************************************************************************)
(* Small instances of the parts that run beside the live editing of a      *)
(* game, side by side.                                                     *)
(***************************************************************************)
EXTENDS Services, MC_Bracket

\* A bill over three Members: what each paid and answers for, and its rate.
Amounts(n) == [1..3 -> 0..n]
BillsOf(n, rates) ==
    {b \in {[paid |-> p, share |-> s, num |-> r[1], den |-> r[2]] :
               p \in Amounts(n), s \in Amounts(n), r \in rates} :
       Total(b.share) <= Total(b.paid)}
OneBill == BillsOf(3, {<<2, 3>>})
OneOfTwo == BillsOf(1, {<<1, 1>>, <<2, 3>>, <<1, 2>>})
SomeTabs == {<<>>} \cup {<<b>> : b \in OneBill} \cup {<<b, c>> : b \in OneOfTwo, c \in OneOfTwo}

\* What a Group's bill may say: one for two, one for oneself, one owed in full.
Says(paid, share) == [paid |-> paid, share |-> share, num |-> 1, den |-> 1]
SomeContents == {Says(<<2, 0, 0>>, <<1, 1, 0>>), Says(<<0, 1, 0>>, <<0, 1, 0>>),
                 Says(<<1, 0, 0>>, <<0, 0, 1>>)}

CONSTANTS s1, s2

\* A spectator and a host of one game.
OneGame == (s1 :> 1) @@ (s2 :> 1)
==============================================================================
