------------------------------- MODULE Bracket -------------------------------
(***************************************************************************)
(* How results move teams through a game (dope/domain/resolver): a bout is *)
(* finished and scored, and in the same transaction the resolver walks the *)
(* schedule and seats whoever took the place, or holds the rank, a seat    *)
(* names.  A bout unticked for editing holds everything below it; a seat   *)
(* that gets another team reopens its bout; a reseed table moves only when *)
(* the host calculates it.                                                 *)
(***************************************************************************)
EXTENDS Naturals, FiniteSets, SequencesExt

CONSTANTS MaxBout,   \* bouts 1..MaxBout, numbered as the schedule has them
          Seats,     \* a bout's seats
          Teams,
          Source,    \* Source[b][i]: what fills a seat
          Advancing, \* the places, <<bout, place>>, that enter the reseed table
          TableAfter,\* the reseed stage stands right after this bout
          Results,   \* what a finish may score: each seat's place
          NoTeam

Bouts == 1..MaxBout

\* What fills a seat: the seed import, a place of a bout, or a rank of the table.
Seeded(team) == [kind |-> "seed", team |-> team]
FromMatch(bout, place) == [kind |-> "from_match", match |-> bout, place |-> place]
Reseed(rank) == [kind |-> "reseed", rank |-> rank]

\* A seat is fed from above it in the schedule, as a compiled scheme has it.
ASSUME BracketAssumption ==
    /\ MaxBout \in Nat /\ TableAfter \in Bouts /\ NoTeam \notin Teams /\ IsFiniteSet(Seats)
    /\ \A b \in Bouts, i \in Seats :
          LET s == Source[b][i] IN
          \/ s.kind = "seed" /\ s.team \in Teams
          \/ s.kind = "from_match" /\ s.match \in 1..(b - 1)
          \/ s.kind = "reseed" /\ b > TableAfter
    /\ \A from \in Advancing : from[1] \in 1..TableAfter
    /\ Results \subseteq [Seats -> 1..Cardinality(Seats)]

VARIABLES finished, \* the bouts whose status is finished
          seat,     \* match_slots: the team in each seat of each bout
          place,    \* match_results: each bout's row of a team, 0 when it has none
          table     \* stage_standings of the reseed stage, best first

bracketVars == <<finished, seat, place, table>>

Game == [finished |-> finished, seat |-> seat, place |-> place, table |-> table]

BecomesGame(g) ==
    /\ finished' = g.finished /\ seat' = g.seat
    /\ place' = g.place       /\ table' = g.table

------------------------------------------------------------------------------
(* What the resolver reads. *)

\* The team that took a place: of a finished bout, and alone in it.
TeamAtMatchPlace(g, b, p) ==
    LET takers == {t \in Teams : g.place[b][t] = p}
    IN  IF b \in g.finished /\ Cardinality(takers) = 1
        THEN CHOOSE t \in takers : TRUE ELSE NoTeam

TeamAtReseedRank(g, rank) == IF rank \in DOMAIN g.table THEN g.table[rank] ELSE NoTeam

DesiredOccupant(g, s) ==
    CASE s.kind = "from_match" -> TeamAtMatchPlace(g, s.match, s.place)
      [] s.kind = "reseed"     -> TeamAtReseedRank(g, s.rank)
      [] OTHER                 -> NoTeam

\* Mutant of Moves: a seat somebody sits in is never given to another.
Moves_OnlyEmpty(current, desired) == desired # NoTeam /\ current = NoTeam

Moves(current, desired) == desired # NoTeam /\ desired # current

\* Mutant of ResolveStageSlots: the bout stays finished under its new team.
ResolveStageSlots_NoReopen(g, b) ==
    LET want == [i \in Seats |-> DesiredOccupant(g, Source[b][i])]
    IN  [g EXCEPT !.seat[b] =
            [i \in Seats |-> IF Moves(@[i], want[i]) THEN want[i] ELSE @[i]]]

\* One bout's seats brought up to date; it reopens when a sitting team left.
ResolveStageSlots(g, b) ==
    LET want  == [i \in Seats |-> DesiredOccupant(g, Source[b][i])]
        moved == {i \in Seats : Moves(g.seat[b][i], want[i])}
    IN  [finished |-> IF \E i \in moved : g.seat[b][i] # NoTeam
                        THEN g.finished \ {b} ELSE g.finished,
         seat     |-> [g.seat EXCEPT ![b] =
                         [i \in Seats |-> IF i \in moved THEN want[i] ELSE g.seat[b][i]]],
         place    |-> g.place, table |-> g.table]

\* The walk over the schedule; a live edit leaves the table as it is held.
ResolveGameSlots(g) == FoldLeft(ResolveStageSlots, g, [b \in Bouts |-> b])

------------------------------------------------------------------------------
BracketInit ==
    /\ finished = {} /\ table = <<>>
    /\ seat = [b \in Bouts |-> [i \in Seats |->
                 IF Source[b][i].kind = "seed" THEN Source[b][i].team ELSE NoTeam]]
    /\ place = [b \in Bouts |-> [t \in Teams |-> 0]]

Seated(b) == {seat[b][i] : i \in Seats} \ {NoTeam}

\* The scorer writes a row for each team that sits there and deletes none.
Scored(b, r) ==
    [t \in Teams |-> IF \E i \in Seats : seat[b][i] = t
                     THEN r[CHOOSE i \in Seats : seat[b][i] = t] ELSE place[b][t]]

\* A host ticks the bout: scored, then everything below it is resolved.
FinishMatch(b) ==
    /\ b \notin finished
    /\ \E r \in Results : BecomesGame(ResolveGameSlots(
          [Game EXCEPT !.finished = @ \cup {b}, !.place[b] = Scored(b, r)]))

\* A host unticks it to edit it: the rows stay, and read as not final.
ReopenMatch(b) ==
    /\ b \in finished
    /\ BecomesGame(ResolveGameSlots([Game EXCEPT !.finished = @ \ {b}]))

\* Mutant of ReseedReady: the places that do not resolve yet are passed over.
ReseedReady_AnyPlace ==
    \E from \in Advancing : TeamAtMatchPlace(Game, from[1], from[2]) # NoTeam

\* Every bout that feeds the table is finished and every place in it resolves.
ReseedReady ==
    /\ Advancing # {}
    /\ \A from \in Advancing : TeamAtMatchPlace(Game, from[1], from[2]) # NoTeam

Contenders == {TeamAtMatchPlace(Game, from[1], from[2]) : from \in Advancing}

\* The host's «calculate»: any order the scores give, then the seats below.
CalculateReseed ==
    /\ ReseedReady
    /\ \E order \in SetToSeqs(Contenders) :
          BecomesGame(ResolveGameSlots([Game EXCEPT !.table = order]))

BracketNext ==
    \/ \E b \in Bouts : FinishMatch(b) \/ ReopenMatch(b)
    \/ CalculateReseed

BracketSpec == BracketInit /\ [][BracketNext]_bracketVars

------------------------------------------------------------------------------
BracketTypeOK ==
    /\ finished \subseteq Bouts
    /\ seat \in [Bouts -> [Seats -> Teams \cup {NoTeam}]]
    /\ place \in [Bouts -> [Teams -> 0..Cardinality(Seats)]]
    /\ Range(table) \subseteq Teams

(***************************************************************************)
(* One walk is enough: after every write, each derived seat whose source   *)
(* is final holds exactly the team that source names, whatever was         *)
(* corrected above it and in whichever order (resolveGameSlotsWithReseed-  *)
(* ModeTx walks the schedule once).                                        *)
(***************************************************************************)
SeatsAreCurrent ==
    \A b \in Bouts, i \in Seats :
        DesiredOccupant(Game, Source[b][i]) \in {NoTeam, seat[b][i]}

(***************************************************************************)
(* A correction never swaps a team under a result: a bout that stays       *)
(* finished keeps every team that sat in it, and a seat once filled is     *)
(* never emptied (slotTransition holds or reopens).                        *)
(***************************************************************************)
NoSwapUnderAResult ==
    [][\A b \in Bouts, i \in Seats : seat[b][i] # NoTeam =>
          /\ seat'[b][i] # NoTeam
          /\ b \in finished \cap finished' => seat'[b][i] = seat[b][i]]_bracketVars

(***************************************************************************)
(* "fill match_slots.participant_id once the upstream source is final"     *)
(* (dope/domain/resolver/resolver.go): the only team of a finished bout's  *)
(* seats that took a place sits in the seats that place feeds.             *)
(***************************************************************************)
TakersMoveOn ==
    \A b \in Bouts, i \in Seats :
        LET s == Source[b][i] IN s.kind = "from_match" =>
            LET takers == {t \in {seat[s.match][j] : j \in Seats} \ {NoTeam} :
                              place[s.match][t] = s.place}
            IN  s.match \in finished /\ Cardinality(takers) = 1 => seat[b][i] \in takers
==============================================================================
