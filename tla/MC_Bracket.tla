------------------------------ MODULE MC_Bracket ------------------------------
(* A bracket of three bouts and three teams, every team of which is seeded. *)
EXTENDS Bracket

CONSTANTS t1, t2, t3

\* A bout, the next one, and one fed by it and by the table of both losers.
Ladder == << <<Seeded(t1), Seeded(t2)>>, <<FromMatch(1, 1), Seeded(t3)>>,
             <<FromMatch(2, 1), Reseed(1)>> >>
Losers == {<<1, 2>>, <<2, 2>>}
NoTies == {<<1, 2>>, <<2, 1>>}

===============================================================================
