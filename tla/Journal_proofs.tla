----------------------------- MODULE Journal_proofs ----------------------------
(***************************************************************************)
(* Proofs about Journal, for any matches, requests and older rows.         *)
(*                                                                         *)
(* A transaction is a fold over its statements; Performs is it statement   *)
(* by statement.  The argument for undo: a checkpoint is the game its id   *)
(* left (CheckInv), and every row says what it did to the game, unless it  *)
(* is one a revert wrote, whose event has a checkpoint after it (TellInv). *)
(* The id before a request's first row is never inside those, so from the  *)
(* newest checkpoint on every row tells, and replaying them walks through  *)
(* the games of the history.                                               *)
(***************************************************************************)
EXTENDS Journal, Sums_proofs

\* The games, and the statements, whose values are of the first n requests.
GamesTo(n) == [Matches -> {NoMatch} \cup [blob : 0..n, rows : 0..n]]

Said(n) ==
         [op : {"insert"}, match : Matches, blob : 0..n, rows : 0..n]
    \cup [op : {"update"}, match : Matches, blob : (0..n) \cup {Same}, rows : 0..n]
    \cup [op : {"delete"}, match : Matches, blob : {Same}, rows : {Empty}]
    \cup [op : {"patch"}, match : Matches, blob : 0..n, rows : {Empty}]
    \cup {Event}

Stmts(n) ==
    Said(n) \cup [op : {"unlogged"}, match : Matches, blob : (0..n) \cup {Same}, rows : {Empty}]

LogRows(n) == [does : Said(n), seq : Nat, request : 0..n, unsaid : BOOLEAN]

\* A transaction of statements of the first n requests.
Txs(n) == [game : GamesTo(n), rev : Nat, log : Seq(LogRows(n)), was : Seq(GamesTo(n))]

LEMMA StatementKinds ==
    ASSUME NEW n \in Nat, NEW s \in Stmts(n)
    PROVE  /\ s.op \in {"insert", "update", "delete", "patch", "event", "unlogged"}
           /\ s.op # "unlogged" => s \in Said(n)
           /\ s.op # "event" => s.match \in Matches
           /\ s.op = "event" => s = Event
           /\ s.op = "insert" => s.blob \in 0..n /\ s.rows \in 0..n
           /\ s.op = "update" => s.blob \in (0..n) \cup {Same} /\ s.rows \in 0..n
           /\ s.op = "patch" => s.blob \in 0..n
           /\ s.op = "unlogged" => s.blob \in (0..n) \cup {Same}
BY DEF Stmts, Said, Event

LEMMA StatementsAre ==
    ASSUME NEW n \in Nat
    PROVE  /\ \A m \in Matches, b \in 0..n, r \in 0..n : Insert(m, b, r) \in Said(n)
           /\ \A m \in Matches, b \in (0..n) \cup {Same}, r \in 0..n : Update(m, b, r) \in Said(n)
           /\ \A m \in Matches : Delete(m) \in Said(n)
           /\ \A m \in Matches, b \in 0..n : Patch(m, b) \in Said(n)
           /\ \A m \in Matches, b \in (0..n) \cup {Same} : Unlogged(m, b) \in Stmts(n)
           /\ Event \in Said(n) /\ Said(n) \subseteq Stmts(n)
BY DEF Stmts, Said, Insert, Update, Delete, Patch, Unlogged, Event, Empty

\* What a statement does to a game, match by match.
LEMMA EffectIs ==
    ASSUME NEW n \in Nat, NEW g \in GamesTo(n), NEW s \in Stmts(n)
    PROVE  /\ Effect(g, s) \in GamesTo(n)
           /\ \A m \in Matches : m # s.match => Effect(g, s)[m] = g[m]
           /\ s.op = "insert" => Effect(g, s)[s.match] = [blob |-> s.blob, rows |-> s.rows]
           /\ s.op = "delete" => Effect(g, s)[s.match] = NoMatch
           /\ s.op = "event" => Effect(g, s) = g
           /\ s.op \in {"delete", "update", "patch", "unlogged"} /\ g[s.match] = NoMatch
              => Effect(g, s) = g
           /\ s.op \in {"update", "patch", "unlogged"} /\ g[s.match] # NoMatch
              => Effect(g, s) = [g EXCEPT ![s.match] =
                                   [blob |-> IF s.blob = Same THEN g[s.match].blob ELSE s.blob,
                                    rows |-> IF s.op = "update" THEN s.rows ELSE g[s.match].rows]]
<1>1. /\ s.op \in {"insert", "update", "delete", "patch", "event", "unlogged"}
      /\ s.op # "event" => s.match \in Matches
      /\ s.op = "insert" => s.blob \in 0..n /\ s.rows \in 0..n
      /\ s.op = "update" => s.blob \in (0..n) \cup {Same} /\ s.rows \in 0..n
      /\ s.op = "patch" => s.blob \in 0..n
      /\ s.op = "unlogged" => s.blob \in (0..n) \cup {Same}
  BY StatementKinds
<1> DEFINE G == {NoMatch} \cup [blob : 0..n, rows : 0..n]
<1>2. g \in [Matches -> G]
  BY DEF GamesTo
<1>3. \A b \in 0..n, r \in 0..n : [blob |-> b, rows |-> r] \in G
  OBVIOUS
<1>4. \A h \in G : h # NoMatch => h.blob \in 0..n /\ h.rows \in 0..n
  OBVIOUS
<1>5. NoMatch \in G
  OBVIOUS
<1> HIDE DEF G
<1>6. CASE s.op = "insert"
  <2>1. Effect(g, s) = [g EXCEPT ![s.match] = [blob |-> s.blob, rows |-> s.rows]]
    BY <1>6 DEF Effect
  <2> QED BY <1>1, <1>2, <1>3, <1>6, <2>1 DEF GamesTo, G
<1>7. CASE s.op = "delete"
  <2>1. Effect(g, s) = [g EXCEPT ![s.match] = NoMatch]
    BY <1>7 DEF Effect
  <2> QED BY <1>1, <1>2, <1>5, <1>7, <2>1 DEF GamesTo, G
<1>8. CASE s.op \in {"update", "patch", "unlogged"} /\ g[s.match] # NoMatch
  <2> DEFINE row == [blob |-> IF s.blob = Same THEN g[s.match].blob ELSE s.blob,
                     rows |-> IF s.op = "update" THEN s.rows ELSE g[s.match].rows]
  <2>1. Effect(g, s) = [g EXCEPT ![s.match] = row]
    BY <1>8 DEF Effect
  <2>2. g[s.match] \in G
    BY <1>1, <1>2, <1>8
  <2>3. row \in G
    BY <1>1, <1>3, <1>4, <1>8, <2>2
  <2> HIDE DEF row
  <2>4. /\ Effect(g, s) \in GamesTo(n)
        /\ \A m \in Matches : m # s.match => Effect(g, s)[m] = g[m]
    BY <1>2, <2>1, <2>3 DEF GamesTo, G
  <2> QED BY <1>8, <2>1, <2>4 DEF row
<1>9. CASE s.op = "event" \/ (s.op \in {"update", "patch", "unlogged"} /\ g[s.match] = NoMatch)
  <2>1. Effect(g, s) = g
    BY <1>9 DEF Effect
  <2> QED BY <1>9, <2>1
<1> QED BY <1>1, <1>6, <1>7, <1>8, <1>9

LEMMA EffectElsewhere ==
    ASSUME NEW n \in Nat, NEW g \in GamesTo(n), NEW s \in Stmts(n), NEW m \in Matches,
           s.op = "event" \/ s.match # m
    PROVE  Effect(g, s)[m] = g[m]
<1>1. CASE s.op = "event"
  BY <1>1 DEF Effect
<1>2. CASE s.op # "event" /\ s.match # m
  <2>1. s.match \in Matches /\ g \in [Matches -> {NoMatch} \cup [blob : 0..n, rows : 0..n]]
    BY <1>2, StatementKinds DEF GamesTo
  <2>2. \A v : [g EXCEPT ![s.match] = v][m] = g[m]
    BY <1>2, <2>1
  <2>3. \/ \E v : Effect(g, s) = [g EXCEPT ![s.match] = v]
        \/ Effect(g, s) = g
    BY <1>2 DEF Effect
  <2> QED BY <2>2, <2>3
<1> QED BY <1>1, <1>2

LEMMA NoEffect ==
    ASSUME NEW n \in Nat, NEW g \in GamesTo(n), NEW s \in Stmts(n), g[s.match] = NoMatch,
           s.op \in {"delete", "update", "patch", "unlogged"}
    PROVE  Effect(g, s) = g
<1>1. s.match \in Matches /\ g \in [Matches -> {NoMatch} \cup [blob : 0..n, rows : 0..n]]
  BY StatementKinds DEF GamesTo
<1>2. CASE s.op = "delete"
  <2>1. Effect(g, s) = [g EXCEPT ![s.match] = NoMatch]
    BY <1>2 DEF Effect
  <2> QED BY <1>1, <2>1
<1>3. CASE s.op # "delete"
  BY <1>3 DEF Effect
<1> QED BY <1>2, <1>3

\* The row a statement of request r leaves.
RowOf(t, s, r) ==
    [does |-> Recorded(s), seq |-> Exec(t, s, r).rev,
     request |-> IF s.op = "event" THEN 0 ELSE r,
     unsaid |-> s.op = "update" /\ s.blob \notin {Same, t.game[s.match].blob}]

LEMMA ExecIs ==
    ASSUME NEW n \in Nat, NEW t \in Txs(n), NEW s \in Stmts(n), NEW r \in 0..n
    PROVE  /\ Exec(t, s, r) \in Txs(n)
           /\ Exec(t, s, r).game = Effect(t.game, s)
           /\ ~Journaled(t.game, s) => /\ Exec(t, s, r).log = t.log
                                       /\ Exec(t, s, r).was = t.was
                                       /\ Exec(t, s, r).rev = t.rev
           /\ Journaled(t.game, s) =>
                  /\ s.op # "unlogged" /\ RowOf(t, s, r) \in LogRows(n)
                  /\ Exec(t, s, r).log = Append(t.log, RowOf(t, s, r))
                  /\ Exec(t, s, r).was = Append(t.was, Effect(t.game, s))
                  /\ Exec(t, s, r).rev = IF s.op = "event" THEN t.rev + 1 ELSE t.rev
<1> DEFINE after == Effect(t.game, s)
           next == IF s.op = "event" THEN t.rev + 1 ELSE t.rev
           q == IF s.op = "event" THEN 0 ELSE r
           u == s.op = "update" /\ s.blob \notin {Same, t.game[s.match].blob}
           row == [does |-> Recorded(s), seq |-> next, request |-> q, unsaid |-> u]
           x == Exec(t, s, r)
<1>1. t.game \in GamesTo(n) /\ t.rev \in Nat /\ t.log \in Seq(LogRows(n)) /\ t.was \in Seq(GamesTo(n))
      /\ t = [game |-> t.game, rev |-> t.rev, log |-> t.log, was |-> t.was]
  BY DEF Txs
<1>2. after \in GamesTo(n)
  BY <1>1, EffectIs
<1>3. next \in Nat /\ q \in 0..n
  BY <1>1
<1>u. u \in BOOLEAN
  OBVIOUS
<1>4. CASE ~Journaled(t.game, s)
  <2>1. x = [t EXCEPT !.game = after]
    BY <1>4 DEF Exec
  <2> HIDE DEF x, after
  <2>2. x = [game |-> after, rev |-> t.rev, log |-> t.log, was |-> t.was]
    BY <1>1, <2>1
  <2>3. x \in Txs(n) /\ x.game = after /\ x.log = t.log /\ x.was = t.was /\ x.rev = t.rev
    BY <1>1, <1>2, <2>2 DEF Txs
  <2> QED BY <1>4, <2>3 DEF x, after
<1>5. CASE Journaled(t.game, s)
  <2>1. x = [game |-> after, rev |-> next, log |-> Append(t.log, row), was |-> Append(t.was, after)]
    BY <1>5 DEF Exec
  <2>2. s.op # "unlogged"
    BY <1>5 DEF Journaled
  <2>3. Recorded(s) \in Said(n)
    <3>1. s \in Said(n)
      BY <2>2, StatementKinds
    <3>2. CASE s.op = "update"
      <4>1. s \in [op : {"update"}, match : Matches, blob : (0..n) \cup {Same}, rows : 0..n]
        BY <3>1, <3>2 DEF Said, Event
      <4>2. [s EXCEPT !.blob = Same]
              \in [op : {"update"}, match : Matches, blob : (0..n) \cup {Same}, rows : 0..n]
        BY <4>1
      <4> QED BY <3>2, <4>2 DEF Recorded, Said
    <3>3. CASE s.op # "update"
      BY <3>1, <3>3 DEF Recorded
    <3> QED BY <3>2, <3>3
  <2> HIDE DEF x, after, next, u, q
  <2>4. row \in LogRows(n)
    BY <1>3, <1>u, <2>3 DEF LogRows
  <2> HIDE DEF row
  <2>5. /\ x \in Txs(n) /\ x.game = after /\ x.rev = next
        /\ x.log = Append(t.log, row) /\ x.was = Append(t.was, after)
    BY <1>1, <1>2, <1>3, <2>1, <2>4 DEF Txs
  <2>6. row = RowOf(t, s, r)
    BY <2>5 DEF row, RowOf, x, q, u
  <2> QED BY <1>5, <2>2, <2>4, <2>5, <2>6 DEF x, after, next
<1> QED BY <1>4, <1>5

\* A transaction, statement by statement: w[k] is it after the first k.
Performs(w, t, r, ss, n) ==
    /\ w \in [0..Len(ss) -> Txs(n)] /\ w[0] = t /\ w[Len(ss)] = Perform(t, r, ss)
    /\ \A k \in 1..Len(ss) : w[k] = Exec(w[k - 1], ss[k], r)

LEMMA PerformWalk ==
    ASSUME NEW m \in Nat, NEW t \in Txs(m), NEW ss \in Seq(Stmts(m)), NEW r \in 0..m
    PROVE  \E w : Performs(w, t, r, ss, m)
<1>0. PICK n \in Nat : n = Len(ss)
  OBVIOUS
<1> DEFINE V == Txs(m)
           F == [p \in (1..n) \X V |-> Exec(p[2], ss[p[1]], r)]
           D == DOMAIN ss
           E(it) == it = [d \in SUBSET D |-> IF d = {} THEN t
                                             ELSE Exec(it[d \ {Max(d)}], ss[Max(d)], r)]
           jt == CHOOSE it : E(it)
<1>1. t \in V /\ D = 1..n /\ \A k \in 1..n : ss[k] \in Stmts(m)
  BY <1>0
<1>2. ASSUME NEW v \in V, NEW k \in 1..n
      PROVE  Exec(v, ss[k], r) \in V /\ F[<<k, v>>] = Exec(v, ss[k], r)
  <2>1. Exec(v, ss[k], r) \in V
    BY <1>1, ExecIs
  <2> HIDE DEF V
  <2> QED BY <2>1
<1>3. F \in [(1..n) \X V -> V]
  <2>1. \A p \in (1..n) \X V : Exec(p[2], ss[p[1]], r) \in V
    BY <1>2
  <2> HIDE DEF V
  <2> QED BY <2>1
<1>4. \A d \in SUBSET (1..n) : d # {} => Max(d) \in d /\ d \ {Max(d)} \in SUBSET (1..n)
  BY <1>0, MaxOf
<1> HIDE DEF F, E, jt
<1>5. Perform(t, r, ss) = jt[D]
  BY DEF Perform, FoldLeft, MapThenFoldSet, jt, E
<1> HIDE DEF V, D
<1>6. \E it : E(it)
  <2>0. PICK it : it \in [SUBSET (1..n) -> V] /\ FoldsUp(it, n, t, F)
    BY <1>1, <1>3, WalkExists
  <2>1. \A d \in SUBSET (1..n) : it[d] = IF d = {} THEN t ELSE F[<<Max(d), it[d \ {Max(d)}]>>]
    BY <2>0 DEF FoldsUp
  <2>2. ASSUME NEW d \in SUBSET (1..n), d # {}
        PROVE  it[d] = Exec(it[d \ {Max(d)}], ss[Max(d)], r)
    <3>1. Max(d) \in 1..n /\ it[d \ {Max(d)}] \in V
      BY <1>4, <2>0, <2>2
    <3> QED BY <1>2, <2>1, <2>2, <3>1
  <2> QED BY <1>1, <2>0, <2>1, <2>2 DEF E
<1>7. E(jt)
  BY <1>6 DEF jt
<1>8. jt[{}] = t
  BY <1>7 DEF E
<1>9. ASSUME NEW d \in SUBSET (1..n), d # {}, jt[d \ {Max(d)}] \in V
      PROVE  jt[d] = F[<<Max(d), jt[d \ {Max(d)}]>>]
  <2>1. Max(d) \in 1..n
    BY <1>4, <1>9
  <2>2. jt[d] = Exec(jt[d \ {Max(d)}], ss[Max(d)], r)
    BY <1>1, <1>7, <1>9 DEF E
  <2> QED BY <1>2, <1>9, <2>1, <2>2
<1>10. PICK w : w \in [0..n -> V] /\ Climbs(w, n, t, F) /\ w[n] = jt[1..n]
  <2>1. FoldsIn(jt, n, V, t, F)
    BY <1>8, <1>9 DEF FoldsIn
  <2>2. \A U, a, G, it : a \in U /\ G \in [(1..n) \X U -> U] /\ FoldsIn(it, n, U, a, G)
            => \E w : w \in [0..n -> U] /\ Climbs(w, n, a, G) /\ w[n] = it[1..n]
    BY <1>0, WalkIs
  <2>3. \A a, G, it : a \in V /\ G \in [(1..n) \X V -> V] /\ FoldsIn(it, n, V, a, G)
            => \E w : w \in [0..n -> V] /\ Climbs(w, n, a, G) /\ w[n] = it[1..n]
    BY <2>2, Zenon
  <2>4. \A G, it : t \in V /\ G \in [(1..n) \X V -> V] /\ FoldsIn(it, n, V, t, G)
            => \E w : w \in [0..n -> V] /\ Climbs(w, n, t, G) /\ w[n] = it[1..n]
    BY <2>3, Zenon
  <2>5. \A it : t \in V /\ F \in [(1..n) \X V -> V] /\ FoldsIn(it, n, V, t, F)
            => \E w : w \in [0..n -> V] /\ Climbs(w, n, t, F) /\ w[n] = it[1..n]
    BY <2>4, Zenon
  <2>6. t \in V /\ F \in [(1..n) \X V -> V] /\ FoldsIn(jt, n, V, t, F)
            => \E w : w \in [0..n -> V] /\ Climbs(w, n, t, F) /\ w[n] = jt[1..n]
    BY <2>5, Zenon
  <2>7. \E w : w \in [0..n -> V] /\ Climbs(w, n, t, F) /\ w[n] = jt[1..n]
    BY <1>1, <1>3, <2>1, <2>6, Zenon
  <2> QED BY <2>7, Zenon
<1>11. ASSUME NEW k \in 1..n PROVE w[k] = Exec(w[k - 1], ss[k], r)
  <2>1. k - 1 \in 0..n
    BY <1>0
  <2>2. w[k - 1] \in V /\ w[k] = F[<<k, w[k - 1]>>]
    BY <1>10, <2>1 DEF Climbs
  <2> QED BY <1>2, <2>2
<1> QED BY <1>0, <1>1, <1>5, <1>10, <1>11 DEF Climbs, V, Performs

\* What the journal says between two ids, read row by row: w[k] is it after row k.
Reads(w, id, target, n) ==
    /\ w \in [0..target -> Seq(Said(n))] /\ w[0] = <<>> /\ w[target] = Between(id, target)
    /\ \A k \in 1..target :
          w[k] = IF id < k /\ k \in hot THEN Append(w[k - 1], log[k].does) ELSE w[k - 1]

LEMMA BetweenWalk ==
    ASSUME NEW m \in Nat, log \in Seq(LogRows(m)), NEW id, NEW target \in 0..Len(log)
    PROVE  \E w : Reads(w, id, target, m)
<1>0. PICK n \in Nat : n = target /\ n <= Len(log)
  OBVIOUS
<1>14. PICK none : none = <<>>
  OBVIOUS
<1> DEFINE V == Seq(Said(m))
           s == [i \in 1..target |-> i]
           Step(v, k) == IF id < k /\ k \in hot THEN Append(v, log[k].does) ELSE v
           F == [p \in (1..n) \X V |-> Step(p[2], p[1])]
           D == DOMAIN s
           E(it) == it = [d \in SUBSET D |-> IF d = {} THEN none
                                             ELSE IF id < s[Max(d)] /\ s[Max(d)] \in hot
                                                  THEN Append(it[d \ {Max(d)}], log[s[Max(d)]].does)
                                                  ELSE it[d \ {Max(d)}]]
           jt == CHOOSE it : E(it)
<1>1. none \in V /\ D = 1..n /\ \A k \in 1..n : s[k] = k /\ log[k].does \in Said(m)
  <2>1. \A k \in 1..n : log[k] \in LogRows(m)
    BY <1>0
  <2>2. \A k \in 1..n : log[k].does \in Said(m)
    BY <2>1 DEF LogRows
  <2>3. none \in V /\ D = 1..n /\ \A k \in 1..n : s[k] = k
    BY <1>0, <1>14
  <2> QED BY <2>2, <2>3
<1>2. ASSUME NEW v \in V, NEW k \in 1..n
      PROVE  Step(v, k) \in V /\ F[<<k, v>>] = Step(v, k)
  <2>0. log[k].does \in Said(m)
    BY <1>1
  <2>1. Step(v, k) \in V
    BY <2>0
  <2> HIDE DEF V
  <2> QED BY <2>1
<1>3. F \in [(1..n) \X V -> V]
  <2>1. \A p \in (1..n) \X V : Step(p[2], p[1]) \in V
    BY <1>2
  <2> HIDE DEF V
  <2> QED BY <2>1
<1>4. \A d \in SUBSET (1..n) : d # {} => Max(d) \in d /\ d \ {Max(d)} \in SUBSET (1..n)
  BY <1>0, MaxOf
<1> HIDE DEF F, E, jt
<1>5. Between(id, target) = jt[D]
  BY <1>14 DEF Between, FoldLeft, MapThenFoldSet, jt, E
<1> HIDE DEF V, D, s
<1>6. \E it : E(it)
  <2>0. PICK it : it \in [SUBSET (1..n) -> V] /\ FoldsUp(it, n, none, F)
    BY <1>1, <1>3, WalkExists
  <2>1. \A d \in SUBSET (1..n) : it[d] = IF d = {} THEN none ELSE F[<<Max(d), it[d \ {Max(d)}]>>]
    BY <2>0 DEF FoldsUp
  <2>2. ASSUME NEW d \in SUBSET (1..n), d # {}
        PROVE  it[d] = IF id < s[Max(d)] /\ s[Max(d)] \in hot
                       THEN Append(it[d \ {Max(d)}], log[s[Max(d)]].does)
                       ELSE it[d \ {Max(d)}]
    <3>1. Max(d) \in 1..n /\ it[d \ {Max(d)}] \in V
      BY <1>4, <2>0, <2>2
    <3>2. it[d] = Step(it[d \ {Max(d)}], Max(d))
      BY <1>2, <2>1, <2>2, <3>1
    <3> QED BY <1>1, <3>1, <3>2
  <2>3. it[{}] = none
    BY <2>1
  <2>4. \A d \in SUBSET D : it[d] = IF d = {} THEN none
                                    ELSE IF id < s[Max(d)] /\ s[Max(d)] \in hot
                                         THEN Append(it[d \ {Max(d)}], log[s[Max(d)]].does)
                                         ELSE it[d \ {Max(d)}]
    BY <1>1, <2>2, <2>3
  <2>5. it = [d \in SUBSET D |-> it[d]]
    BY <1>1, <2>0
  <2> QED BY <2>4, <2>5 DEF E
<1>7. E(jt)
  BY <1>6 DEF jt
<1>8. jt[{}] = none
  BY <1>7 DEF E
<1>9. ASSUME NEW d \in SUBSET (1..n), d # {}, jt[d \ {Max(d)}] \in V
      PROVE  jt[d] = F[<<Max(d), jt[d \ {Max(d)}]>>]
  <2>1. Max(d) \in 1..n
    BY <1>4, <1>9
  <2>2. jt[d] = Step(jt[d \ {Max(d)}], Max(d))
    BY <1>1, <1>7, <1>9, <2>1 DEF E
  <2> QED BY <1>2, <1>9, <2>1, <2>2
<1>10. PICK w : w \in [0..n -> V] /\ Climbs(w, n, none, F) /\ w[n] = jt[1..n]
  <2>1. FoldsIn(jt, n, V, none, F)
    BY <1>8, <1>9 DEF FoldsIn
  <2>2. \A U, a, G, it : a \in U /\ G \in [(1..n) \X U -> U] /\ FoldsIn(it, n, U, a, G)
            => \E w : w \in [0..n -> U] /\ Climbs(w, n, a, G) /\ w[n] = it[1..n]
    BY <1>0, WalkIs
  <2>3. \A a, G, it : a \in V /\ G \in [(1..n) \X V -> V] /\ FoldsIn(it, n, V, a, G)
            => \E w : w \in [0..n -> V] /\ Climbs(w, n, a, G) /\ w[n] = it[1..n]
    BY <2>2, Zenon
  <2>4. \A G, it : none \in V /\ G \in [(1..n) \X V -> V] /\ FoldsIn(it, n, V, none, G)
            => \E w : w \in [0..n -> V] /\ Climbs(w, n, none, G) /\ w[n] = it[1..n]
    BY <2>3, Zenon
  <2>5. \A it : none \in V /\ F \in [(1..n) \X V -> V] /\ FoldsIn(it, n, V, none, F)
            => \E w : w \in [0..n -> V] /\ Climbs(w, n, none, F) /\ w[n] = it[1..n]
    BY <2>4, Zenon
  <2>6. none \in V /\ F \in [(1..n) \X V -> V] /\ FoldsIn(jt, n, V, none, F)
            => \E w : w \in [0..n -> V] /\ Climbs(w, n, none, F) /\ w[n] = jt[1..n]
    BY <2>5, Zenon
  <2>7. \E w : w \in [0..n -> V] /\ Climbs(w, n, none, F) /\ w[n] = jt[1..n]
    BY <1>1, <1>3, <2>1, <2>6, Zenon
  <2> QED BY <2>7, Zenon
<1>11. ASSUME NEW k \in 1..n PROVE w[k] = Step(w[k - 1], k)
  <2>1. k - 1 \in 0..n
    BY <1>0
  <2>2. w[k - 1] \in V /\ w[k] = F[<<k, w[k - 1]>>]
    BY <1>10, <2>1 DEF Climbs
  <2> QED BY <1>2, <2>2
<1> QED BY <1>0, <1>1, <1>5, <1>10, <1>11, <1>14 DEF Climbs, V, Reads

\* Every row between the two is hot: all of them are read, in order.
LEMMA BetweenIs ==
    ASSUME NEW m \in Nat, log \in Seq(LogRows(m)), NEW target \in 0..Len(log),
           NEW id \in 0..target
    PROVE  /\ Between(id, target) \in Seq(Said(m))
           /\ (id + 1)..target \subseteq hot =>
                 Between(id, target) = [k \in 1..(target - id) |-> log[id + k].does]
<1>1. PICK w : Reads(w, id, target, m)
  BY BetweenWalk
<1>2. /\ w \in [0..target -> Seq(Said(m))] /\ w[0] = <<>> /\ w[target] = Between(id, target)
      /\ \A k \in 1..target :
          w[k] = IF id < k /\ k \in hot THEN Append(w[k - 1], log[k].does) ELSE w[k - 1]
  BY <1>1 DEF Reads
<1>3. Between(id, target) \in Seq(Said(m))
  BY <1>2
<1>4. ASSUME (id + 1)..target \subseteq hot
      PROVE  Between(id, target) = [k \in 1..(target - id) |-> log[id + k].does]
  <2> DEFINE N == {k \in Nat : k <= target =>
                       /\ Len(w[k]) = IF k <= id THEN 0 ELSE k - id
                       /\ \A i \in 1..Len(w[k]) : w[k][i] = log[id + i].does}
  <2>1. 0 \in N
    BY <1>2
  <2>2. ASSUME NEW k \in Nat, k \in N PROVE k + 1 \in N
    <3> SUFFICES ASSUME k + 1 <= target
                 PROVE  /\ Len(w[k + 1]) = IF k + 1 <= id THEN 0 ELSE k + 1 - id
                        /\ \A i \in 1..Len(w[k + 1]) : w[k + 1][i] = log[id + i].does
      OBVIOUS
    <3>1. /\ k + 1 \in 1..target /\ (k + 1) - 1 = k /\ w[k] \in Seq(Said(m))
          /\ Len(w[k]) = IF k <= id THEN 0 ELSE k - id
          /\ \A i \in 1..Len(w[k]) : w[k][i] = log[id + i].does
      BY <1>2, <2>2
    <3>2. w[k + 1] = IF id < k + 1 /\ k + 1 \in hot THEN Append(w[k], log[k + 1].does) ELSE w[k]
      BY <1>2, <3>1
    <3>3. CASE k + 1 <= id
      BY <3>1, <3>2, <3>3
    <3>4. CASE id < k + 1
      <4>1. k + 1 \in hot /\ w[k + 1] = Append(w[k], log[k + 1].does) /\ Len(w[k]) = k - id
        BY <1>4, <3>1, <3>2, <3>4
      <4>2. Len(w[k + 1]) = k + 1 - id
        BY <3>1, <4>1
      <4>3. ASSUME NEW i \in 1..Len(w[k + 1]) PROVE w[k + 1][i] = log[id + i].does
        <5>1. CASE i <= Len(w[k])
          BY <3>1, <4>1, <4>2, <5>1
        <5>2. CASE i = Len(w[k]) + 1
          <6>1. id + i = k + 1
            BY <3>1, <4>1, <5>2
          <6> QED BY <3>1, <4>1, <5>2, <6>1
        <5> QED BY <3>1, <4>1, <4>2, <5>1, <5>2
      <4> QED BY <3>4, <4>2, <4>3
    <3> QED BY <3>3, <3>4
  <2> HIDE DEF N
  <2>3. target \in N
    BY <2>1, <2>2, SetInduction
  <2>4. Len(w[target]) = target - id /\ \A i \in 1..Len(w[target]) : w[target][i] = log[id + i].does
    BY <2>3 DEF N
  <2>5. w[target] \in Seq(Said(m))
    BY <1>2
  <2>6. PICK q : q = w[target]
    OBVIOUS
  <2>7. q = [k \in 1..Len(q) |-> q[k]]
    <3>1. q \in Seq(Said(m))
      BY <2>5, <2>6
    <3> QED BY <3>1
  <2>8. \A k \in 1..(target - id) : q[k] = log[id + k].does
    BY <2>4, <2>6
  <2> QED BY <1>2, <2>4, <2>6, <2>7, <2>8
<1> QED BY <1>3, <1>4

\* A finite set as a sequence has each element once.
LEMMA Enumerates ==
    ASSUME NEW S, IsFiniteSet(S)
    PROVE  /\ SetToSeq(S) \in Seq(S)
           /\ \A x \in S : \E i \in 1..Len(SetToSeq(S)) : SetToSeq(S)[i] = x
           /\ \A i, j \in 1..Len(SetToSeq(S)) : SetToSeq(S)[i] = SetToSeq(S)[j] => i = j
<1> DEFINE n == Cardinality(S)
           q == SetToSeq(S)
<1>1. n \in Nat
  BY FS_CardinalityType
<1>2. PICK f : f \in [1..n -> S] /\ IsInjective(f)
  <2>1. PICK f : f \in Bijection(1..n, S)
    BY <1>1, FS_NatBijection, FS_CountingElements DEF ExistsBijection
  <2> QED BY <2>1 DEF Bijection, Injection
<1>3. q \in [1..n -> S] /\ IsInjective(q)
  BY <1>2 DEF SetToSeq
<1> HIDE DEF q
<1>4. q \in Surjection(1..n, S)
  <2>1. IsFiniteSet(1..n) /\ Cardinality(1..n) = n
    BY <1>1, FS_Interval
  <2>2. q \in Injection(1..n, S)
    BY <1>3 DEF Injection
  <2> QED BY <2>1, <2>2, FS_Injection
<1>5. q \in Seq(S) /\ Len(q) = n
  BY <1>1, <1>3
<1>6. \A x \in S : \E i \in 1..n : q[i] = x
  BY <1>4 DEF Surjection
<1>7. \A i, j \in 1..n : q[i] = q[j] => i = j
  BY <1>3 DEF IsInjective
<1> QED BY <1>5, <1>6, <1>7 DEF q

\* What was written stays, and what a transaction adds to the journal.
Keeps(s, u) == Len(s) <= Len(u) /\ \A i \in 1..Len(s) : u[i] = s[i]

Follows(t0, t) ==
    /\ Keeps(t0.log, t.log) /\ Keeps(t0.was, t.was)
    /\ Len(t.was) - Len(t.log) = Len(t0.was) - Len(t0.log)
    /\ t0.rev <= t.rev
    /\ \A i \in (Len(t0.log) + 1)..Len(t.log) : t0.rev <= t.log[i].seq /\ t.log[i].seq <= t.rev
    /\ IF Len(t.log) = Len(t0.log) THEN t.rev = t0.rev ELSE t.log[Len(t.log)].seq = t.rev

LEMMA FollowsSelf == \A n \in Nat : \A t \in Txs(n) : Follows(t, t)
BY DEF Follows, Keeps, Txs

LEMMA FollowsOn ==
    ASSUME NEW n \in Nat, NEW t0 \in Txs(n), NEW t1 \in Txs(n), NEW t2 \in Txs(n),
           Follows(t0, t1), Follows(t1, t2)
    PROVE  Follows(t0, t2)
<1>1. /\ t0.log \in Seq(LogRows(n)) /\ t1.log \in Seq(LogRows(n)) /\ t2.log \in Seq(LogRows(n))
      /\ t0.was \in Seq(GamesTo(n)) /\ t1.was \in Seq(GamesTo(n)) /\ t2.was \in Seq(GamesTo(n))
      /\ t0.rev \in Nat /\ t1.rev \in Nat /\ t2.rev \in Nat
  BY DEF Txs
<1>2. /\ \A i \in 1..Len(t1.log) : t1.log[i].seq \in Nat
      /\ \A i \in 1..Len(t2.log) : t2.log[i].seq \in Nat
  <2>1. /\ \A i \in 1..Len(t1.log) : t1.log[i] \in LogRows(n)
        /\ \A i \in 1..Len(t2.log) : t2.log[i] \in LogRows(n)
    BY <1>1
  <2> QED BY <2>1 DEF LogRows
<1>3. /\ Len(t0.log) \in Nat /\ Len(t1.log) \in Nat /\ Len(t2.log) \in Nat
      /\ Len(t0.was) \in Nat /\ Len(t1.was) \in Nat /\ Len(t2.was) \in Nat
  BY <1>1
<1>4. Keeps(t0.log, t2.log) /\ Keeps(t0.was, t2.was)
  BY <1>3 DEF Follows, Keeps
<1>5. ASSUME NEW i \in (Len(t0.log) + 1)..Len(t2.log)
      PROVE  t0.rev <= t2.log[i].seq /\ t2.log[i].seq <= t2.rev
  <2>1. CASE i <= Len(t1.log)
    <3>1. i \in (Len(t0.log) + 1)..Len(t1.log) /\ i \in 1..Len(t1.log)
      BY <1>3, <2>1
    <3>2. t2.log[i] = t1.log[i] /\ t0.rev <= t1.log[i].seq /\ t1.log[i].seq <= t1.rev
          /\ t1.rev <= t2.rev /\ t1.log[i].seq \in Nat
      BY <1>2, <3>1 DEF Follows, Keeps
    <3> QED BY <1>1, <3>2
  <2>2. CASE i > Len(t1.log)
    <3>1. i \in (Len(t1.log) + 1)..Len(t2.log) /\ i \in 1..Len(t2.log)
      BY <1>3, <2>2
    <3>2. t1.rev <= t2.log[i].seq /\ t2.log[i].seq <= t2.rev /\ t0.rev <= t1.rev
          /\ t2.log[i].seq \in Nat
      BY <1>2, <3>1 DEF Follows
    <3> QED BY <1>1, <3>2
  <2> QED BY <1>3, <2>1, <2>2
<1>6. IF Len(t2.log) = Len(t0.log) THEN t2.rev = t0.rev ELSE t2.log[Len(t2.log)].seq = t2.rev
  <2>1. Len(t0.log) <= Len(t1.log) /\ Len(t1.log) <= Len(t2.log)
    BY DEF Follows, Keeps
  <2>2. CASE Len(t2.log) = Len(t1.log)
    <3>1. t2.rev = t1.rev
      BY <2>2 DEF Follows
    <3>2. Len(t1.log) # Len(t0.log) => t1.log[Len(t1.log)].seq = t1.rev
                                       /\ t2.log[Len(t2.log)] = t1.log[Len(t1.log)]
      BY <1>3, <2>1, <2>2 DEF Follows, Keeps
    <3>3. Len(t1.log) = Len(t0.log) => t1.rev = t0.rev
      BY DEF Follows
    <3> QED BY <2>2, <3>1, <3>2, <3>3
  <2>3. CASE Len(t2.log) # Len(t1.log)
    BY <1>3, <2>1, <2>3 DEF Follows
  <2> QED BY <2>2, <2>3
<1>7. Len(t2.was) - Len(t2.log) = Len(t0.was) - Len(t0.log) /\ t0.rev <= t2.rev
  <2>1. /\ Len(t1.was) - Len(t1.log) = Len(t0.was) - Len(t0.log) /\ t0.rev <= t1.rev
        /\ Len(t2.was) - Len(t2.log) = Len(t1.was) - Len(t1.log) /\ t1.rev <= t2.rev
    BY DEF Follows
  <2>2. t0.rev <= t2.rev
    BY <1>1, <2>1
  <2> QED BY <2>1, <2>2
<1> QED BY <1>4, <1>5, <1>6, <1>7 DEF Follows

LEMMA ExecFollows ==
    ASSUME NEW n \in Nat, NEW t \in Txs(n), NEW s \in Stmts(n), NEW r \in 0..n
    PROVE  Follows(t, Exec(t, s, r))
<1> DEFINE x == Exec(t, s, r)
           row == RowOf(t, s, r)
<1>1. t.log \in Seq(LogRows(n)) /\ t.was \in Seq(GamesTo(n)) /\ t.rev \in Nat
  BY DEF Txs
<1>2. CASE ~Journaled(t.game, s)
  <2>1. x.log = t.log /\ x.was = t.was /\ x.rev = t.rev
    BY <1>2, ExecIs
  <2> HIDE DEF x
  <2>2. Follows(t, x)
    BY <1>1, <2>1 DEF Follows, Keeps
  <2> QED BY <2>2 DEF x
<1>3. CASE Journaled(t.game, s)
  <2>1. /\ row \in LogRows(n)
        /\ x.log = Append(t.log, row)
        /\ x.was = Append(t.was, Effect(t.game, s))
        /\ x.rev = IF s.op = "event" THEN t.rev + 1 ELSE t.rev
    BY <1>3, ExecIs
  <2>2. row.seq = x.rev
    BY DEF RowOf
  <2> HIDE DEF x, row
  <2>3. /\ Len(x.log) = Len(t.log) + 1 /\ x.log[Len(t.log) + 1] = row
        /\ \A i \in 1..Len(t.log) : x.log[i] = t.log[i]
        /\ Len(x.was) = Len(t.was) + 1 /\ \A i \in 1..Len(t.was) : x.was[i] = t.was[i]
        /\ Len(t.log) \in Nat /\ Len(t.was) \in Nat
    BY <1>1, <2>1
  <2>4. t.rev <= x.rev /\ x.rev \in Nat
    BY <1>1, <2>1
  <2>5. \A i \in (Len(t.log) + 1)..Len(x.log) : i = Len(t.log) + 1
    BY <2>3
  <2>6. Keeps(t.log, x.log) /\ Keeps(t.was, x.was)
    BY <2>3 DEF Keeps
  <2>7. \A i \in (Len(t.log) + 1)..Len(x.log) : t.rev <= x.log[i].seq /\ x.log[i].seq <= x.rev
    BY <2>2, <2>3, <2>4, <2>5
  <2>8. x.log[Len(x.log)].seq = x.rev /\ Len(x.log) # Len(t.log)
    BY <2>2, <2>3
  <2>9. Len(x.was) - Len(x.log) = Len(t.was) - Len(t.log)
    BY <2>3
  <2>10. Follows(t, x)
    BY <2>4, <2>6, <2>7, <2>8, <2>9 DEF Follows
  <2> QED BY <2>10 DEF x
<1> QED BY <1>2, <1>3

\* However far a transaction is, it follows where it began.
LEMMA PerformFollows ==
    ASSUME NEW n \in Nat, NEW t \in Txs(n), NEW ss \in Seq(Stmts(n)), NEW r \in 0..n, NEW w,
           Performs(w, t, r, ss, n)
    PROVE  \A k \in 0..Len(ss) : w[k] \in Txs(n) /\ Follows(t, w[k])
<1> DEFINE N == {k \in Nat : k <= Len(ss) => Follows(t, w[k])}
<1>1. /\ w \in [0..Len(ss) -> Txs(n)] /\ w[0] = t
      /\ \A k \in 1..Len(ss) : w[k] = Exec(w[k - 1], ss[k], r)
  BY DEF Performs
<1>2. 0 \in N
  BY <1>1, FollowsSelf
<1>3. ASSUME NEW k \in Nat, k \in N PROVE k + 1 \in N
  <2> SUFFICES ASSUME k + 1 <= Len(ss) PROVE Follows(t, w[k + 1])
    OBVIOUS
  <2>1. k + 1 \in 1..Len(ss) /\ (k + 1) - 1 = k /\ k \in 0..Len(ss) /\ k + 1 \in 0..Len(ss)
    OBVIOUS
  <2>2. w[k + 1] = Exec(w[k], ss[k + 1], r) /\ w[k] \in Txs(n) /\ w[k + 1] \in Txs(n)
        /\ ss[k + 1] \in Stmts(n) /\ Follows(t, w[k])
    BY <1>1, <1>3, <2>1
  <2>3. Follows(w[k], w[k + 1])
    BY <2>2, ExecFollows
  <2> QED BY <2>2, <2>3, FollowsOn
<1> HIDE DEF N
<1>4. \A k \in Nat : k \in N
  BY <1>2, <1>3, SetInduction
<1> QED BY <1>1, <1>4 DEF N

\* The game is what the journal's last row left, and row i says what it did.
Sound(t) == Len(t.was) = Len(t.log) + 1 /\ t.was[Len(t.was)] = t.game

Tells(l, w, i) == l[i].unsaid \/ w[i + 1] = Effect(w[i], l[i].does)

\* An update that writes a state document is the first statement of its match,
\* and changes its columns.
Fresh(g, ss) ==
    \A k \in 1..Len(ss) :
        ss[k].op = "update" /\ ss[k].blob # Same =>
            /\ g[ss[k].match] = NoMatch \/ g[ss[k].match].rows # ss[k].rows
            /\ \A j \in 1..(k - 1) : ss[j].op = "event" \/ ss[j].match # ss[k].match

\* Without the document, a row of an update that left it alone says as much.
LEMMA RecordedSays ==
    ASSUME NEW n \in Nat, NEW g \in GamesTo(n), NEW s \in Said(n),
           s.op = "update" => s.blob \in {Same, g[s.match].blob}
    PROVE  Effect(g, Recorded(s)) = Effect(g, s)
<1>1. CASE s.op # "update"
  BY <1>1 DEF Recorded
<1>2. CASE s.op = "update"
  <2>1. s \in [op : {"update"}, match : Matches, blob : (0..n) \cup {Same}, rows : 0..n]
    BY <1>2 DEF Said, Event
  <2>2. Recorded(s) = [op |-> "update", match |-> s.match, blob |-> Same, rows |-> s.rows]
    BY <1>2, <2>1 DEF Recorded
  <2>3. /\ Recorded(s).op = "update" /\ Recorded(s).match = s.match /\ Recorded(s).blob = Same
        /\ Recorded(s).rows = s.rows
    BY <2>2
  <2>4. CASE g[s.match] = NoMatch
    <3>1. Effect(g, s) = g
      BY <1>2, <2>4 DEF Effect
    <3>2. Effect(g, Recorded(s)) = g
      BY <2>3, <2>4 DEF Effect
    <3> QED BY <3>1, <3>2
  <2>5. CASE g[s.match] # NoMatch
    <3>1. Effect(g, s) = [g EXCEPT ![s.match] =
                            [blob |-> IF s.blob = Same THEN g[s.match].blob ELSE s.blob,
                             rows |-> s.rows]]
      BY <1>2, <2>5 DEF Effect
    <3>2. Effect(g, Recorded(s)) = [g EXCEPT ![s.match] =
                                      [blob |-> g[s.match].blob, rows |-> s.rows]]
      BY <2>3, <2>5 DEF Effect
    <3>3. (IF s.blob = Same THEN g[s.match].blob ELSE s.blob) = g[s.match].blob
      BY <1>2
    <3> QED BY <3>1, <3>2, <3>3
  <2> QED BY <2>4, <2>5
<1> QED BY <1>1, <1>2

LEMMA ExecTells ==
    ASSUME NEW n \in Nat, NEW t \in Txs(n), NEW s \in Said(n), NEW r \in 0..n, Sound(t),
           s.op = "update" /\ s.blob # Same =>
               t.game[s.match] = NoMatch \/ t.game[s.match].rows # s.rows
    PROVE  LET x == Exec(t, s, r)
           IN /\ Sound(x)
              /\ Len(x.log) \in {Len(t.log), Len(t.log) + 1}
              /\ Len(x.log) = Len(t.log) + 1 => Tells(x.log, x.was, Len(x.log))
<1> DEFINE x == Exec(t, s, r)
           row == RowOf(t, s, r)
<1>1. t.log \in Seq(LogRows(n)) /\ t.was \in Seq(GamesTo(n)) /\ t.game \in GamesTo(n)
      /\ s \in Stmts(n) /\ s.op # "unlogged" /\ Len(t.was) = Len(t.log) + 1
      /\ t.was[Len(t.was)] = t.game
  BY DEF Txs, Said, Stmts, Event, Sound
<1>2. CASE ~Journaled(t.game, s)
  <2>1. x.log = t.log /\ x.was = t.was /\ x.game = Effect(t.game, s)
    BY <1>1, <1>2, ExecIs
  <2>2. Effect(t.game, s) = t.game
    <3>1. /\ s.op \in {"update", "delete", "patch"}
          /\ s.op \in {"delete", "patch"} => t.game[s.match] = NoMatch
          /\ s.op = "update" => t.game[s.match] = NoMatch \/ t.game[s.match].rows = s.rows
      BY <1>1, <1>2, StatementKinds DEF Journaled
    <3>2. CASE t.game[s.match] = NoMatch
      BY <1>1, <3>1, <3>2, NoEffect
    <3>3. CASE t.game[s.match] # NoMatch
      <4>1. s.op = "update" /\ t.game[s.match].rows = s.rows /\ s.blob = Same
        BY <3>1, <3>3
      <4>2. Effect(t.game, s) = [t.game EXCEPT ![s.match] =
                                   [blob |-> t.game[s.match].blob, rows |-> s.rows]]
        BY <3>3, <4>1 DEF Effect
      <4>3. s.match \in Matches /\ t.game \in [Matches -> {NoMatch} \cup [blob : 0..n, rows : 0..n]]
        BY <1>1, <4>1, StatementKinds DEF GamesTo
      <4>4. t.game[s.match] \in [blob : 0..n, rows : 0..n]
        BY <3>3, <4>3
      <4>5. [blob |-> t.game[s.match].blob, rows |-> s.rows] = t.game[s.match]
        BY <4>1, <4>4
      <4> QED BY <4>2, <4>3, <4>5
    <3> QED BY <3>2, <3>3
  <2> HIDE DEF x
  <2>3. Sound(x) /\ Len(x.log) = Len(t.log)
    BY <1>1, <2>1, <2>2 DEF Sound
  <2>4. Len(t.log) # Len(t.log) + 1
    BY <1>1
  <2> QED BY <2>3, <2>4 DEF x
<1>3. CASE Journaled(t.game, s)
  <2>1. /\ row \in LogRows(n)
        /\ x.log = Append(t.log, row)
        /\ x.was = Append(t.was, Effect(t.game, s))
        /\ x.game = Effect(t.game, s)
    BY <1>1, <1>3, ExecIs
  <2>2. row.unsaid \/ Effect(t.game, row.does) = Effect(t.game, s)
    <3>1. row.does = Recorded(s)
          /\ (~row.unsaid /\ s.op = "update" => s.blob \in {Same, t.game[s.match].blob})
      BY DEF RowOf
    <3> HIDE DEF row
    <3>2. CASE ~row.unsaid
      <4>1. s.op = "update" => s.blob \in {Same, t.game[s.match].blob}
        BY <3>1, <3>2
      <4> QED BY <1>1, <3>1, <4>1, RecordedSays
    <3> QED BY <3>2
  <2> HIDE DEF x, row
  <2>3. /\ Len(x.log) = Len(t.log) + 1 /\ x.log[Len(t.log) + 1] = row
        /\ Len(x.was) = Len(t.was) + 1 /\ x.was[Len(t.was) + 1] = Effect(t.game, s)
        /\ x.was[Len(t.was)] = t.game
    BY <1>1, <2>1
  <2>4. Sound(x)
    BY <1>1, <2>1, <2>3 DEF Sound
  <2>5. Tells(x.log, x.was, Len(x.log))
    BY <1>1, <2>2, <2>3 DEF Tells
  <2> QED BY <2>3, <2>4, <2>5 DEF x
<1> QED BY <1>2, <1>3

\* A transaction that adds rows, each of which says what it did.
Grows(t0, t, n) ==
    /\ t \in Txs(n) /\ Follows(t0, t) /\ Sound(t)
    /\ \A i \in (Len(t0.log) + 1)..Len(t.log) : Tells(t.log, t.was, i)

LEMMA TellsStays ==
    ASSUME NEW n \in Nat, NEW t0 \in Txs(n), NEW t \in Txs(n), Follows(t0, t), Sound(t0),
           NEW i \in 1..Len(t0.log), Tells(t0.log, t0.was, i)
    PROVE  Tells(t.log, t.was, i)
<1>1. /\ t0.log \in Seq(LogRows(n)) /\ t0.was \in Seq(GamesTo(n))
      /\ Len(t0.was) = Len(t0.log) + 1
      /\ \A j \in 1..Len(t0.log) : t.log[j] = t0.log[j]
      /\ \A j \in 1..Len(t0.was) : t.was[j] = t0.was[j]
  BY DEF Txs, Sound, Follows, Keeps
<1>2. i \in 1..Len(t0.was) /\ i + 1 \in 1..Len(t0.was)
  BY <1>1
<1>3. t.log[i] = t0.log[i] /\ t.was[i] = t0.was[i] /\ t.was[i + 1] = t0.was[i + 1]
  BY <1>1, <1>2
<1> QED BY <1>3 DEF Tells

LEMMA GrowsOn ==
    ASSUME NEW n \in Nat, NEW t0 \in Txs(n), NEW t1, NEW t2, Grows(t0, t1, n), Grows(t1, t2, n)
    PROVE  Grows(t0, t2, n)
<1>1. t1 \in Txs(n) /\ t2 \in Txs(n) /\ Follows(t0, t1) /\ Follows(t1, t2) /\ Sound(t1) /\ Sound(t2)
  BY DEF Grows
<1>2. Follows(t0, t2)
  BY <1>1, FollowsOn
<1>3. ASSUME NEW i \in (Len(t0.log) + 1)..Len(t2.log) PROVE Tells(t2.log, t2.was, i)
  <2>1. Len(t0.log) \in Nat /\ Len(t1.log) \in Nat /\ Len(t2.log) \in Nat
    BY <1>1 DEF Txs
  <2>2. CASE i <= Len(t1.log)
    <3>1. i \in (Len(t0.log) + 1)..Len(t1.log) /\ i \in 1..Len(t1.log)
      BY <2>1, <2>2
    <3>2. Tells(t1.log, t1.was, i)
      BY <3>1 DEF Grows
    <3> QED BY <1>1, <3>1, <3>2, TellsStays
  <2>3. CASE i > Len(t1.log)
    <3>1. i \in (Len(t1.log) + 1)..Len(t2.log)
      BY <2>1, <2>3
    <3> QED BY <3>1 DEF Grows
  <2> QED BY <2>1, <2>2, <2>3
<1> QED BY <1>1, <1>2, <1>3 DEF Grows

LEMMA ExecGrows ==
    ASSUME NEW n \in Nat, NEW t \in Txs(n), NEW s \in Said(n), NEW r \in 0..n, Sound(t),
           s.op = "update" /\ s.blob # Same =>
               t.game[s.match] = NoMatch \/ t.game[s.match].rows # s.rows
    PROVE  Grows(t, Exec(t, s, r), n)
<1> DEFINE x == Exec(t, s, r)
<1>1. s \in Stmts(n)
  BY DEF Stmts
<1>2. x \in Txs(n) /\ Follows(t, x)
  BY <1>1, ExecIs, ExecFollows
<1>3. /\ Sound(x) /\ Len(x.log) \in {Len(t.log), Len(t.log) + 1}
      /\ Len(x.log) = Len(t.log) + 1 => Tells(x.log, x.was, Len(x.log))
  BY ExecTells
<1>4. Len(t.log) \in Nat
  BY DEF Txs
<1> HIDE DEF x
<1>5. \A i \in (Len(t.log) + 1)..Len(x.log) : i = Len(x.log) /\ Len(x.log) = Len(t.log) + 1
  BY <1>3, <1>4
<1>6. \A i \in (Len(t.log) + 1)..Len(x.log) : Tells(x.log, x.was, i)
  BY <1>3, <1>5
<1>7. Grows(t, x, n)
  BY <1>2, <1>3, <1>6 DEF Grows
<1> QED BY <1>7 DEF x

\* The first k statements leave a match none of them is of as it was.
Untouched(g0, g, ss, k) ==
    \A m \in Matches : (\A j \in 1..k : ss[j].op = "event" \/ ss[j].match # m) => g[m] = g0[m]

\* What a transaction of fresh statements adds to the journal says what it did.
LEMMA PerformGrows ==
    ASSUME NEW n \in Nat, NEW t \in Txs(n), NEW ss \in Seq(Said(n)), NEW r \in 0..n,
           Sound(t), Fresh(t.game, ss)
    PROVE  Grows(t, Perform(t, r, ss), n)
<1>0. ss \in Seq(Stmts(n))
  BY DEF Stmts
<1>1. PICK w : Performs(w, t, r, ss, n)
  BY <1>0, PerformWalk
<1>2. /\ w \in [0..Len(ss) -> Txs(n)] /\ w[0] = t /\ w[Len(ss)] = Perform(t, r, ss)
      /\ \A k \in 1..Len(ss) : w[k] = Exec(w[k - 1], ss[k], r)
  BY <1>1 DEF Performs
<1> DEFINE N == {k \in Nat : k <= Len(ss) =>
                     Grows(t, w[k], n) /\ Untouched(t.game, w[k].game, ss, k)}
<1>3. 0 \in N
  <2>1. Follows(t, t)
    BY FollowsSelf
  <2>2. \A i \in (Len(t.log) + 1)..Len(t.log) : FALSE
    BY DEF Txs
  <2>3. Grows(t, t, n) /\ Untouched(t.game, t.game, ss, 0)
    BY <2>1, <2>2 DEF Grows, Untouched
  <2> QED BY <1>2, <2>3
<1>4. ASSUME NEW k \in Nat, k \in N PROVE k + 1 \in N
  <2> SUFFICES ASSUME k + 1 <= Len(ss)
               PROVE  Grows(t, w[k + 1], n) /\ Untouched(t.game, w[k + 1].game, ss, k + 1)
    OBVIOUS
  <2>1. PICK u, s : u = w[k] /\ s = ss[k + 1]
    OBVIOUS
  <2>2. k + 1 \in 1..Len(ss) /\ (k + 1) - 1 = k /\ k \in 0..Len(ss)
    OBVIOUS
  <2>3. w[k + 1] = Exec(u, s, r) /\ u \in Txs(n) /\ s \in Said(n) /\ s \in Stmts(n)
    BY <1>0, <1>2, <2>1, <2>2
  <2>4. Grows(t, u, n) /\ Untouched(t.game, u.game, ss, k) /\ Sound(u) /\ u.game \in GamesTo(n)
    BY <1>4, <2>1, <2>3 DEF Grows, Txs
  <2>5. s.op = "update" /\ s.blob # Same =>
            u.game[s.match] = NoMatch \/ u.game[s.match].rows # s.rows
    <3> SUFFICES ASSUME s.op = "update", s.blob # Same
                 PROVE  u.game[s.match] = NoMatch \/ u.game[s.match].rows # s.rows
      OBVIOUS
    <3>1. s.match \in Matches
      BY <2>3, StatementKinds
    <3>2. /\ t.game[s.match] = NoMatch \/ t.game[s.match].rows # s.rows
          /\ \A j \in 1..k : ss[j].op = "event" \/ ss[j].match # s.match
      BY <2>1, <2>2 DEF Fresh
    <3>3. u.game[s.match] = t.game[s.match]
      BY <2>4, <3>1, <3>2 DEF Untouched
    <3> QED BY <3>2, <3>3
  <2>6. Grows(u, w[k + 1], n)
    BY <2>3, <2>4, <2>5, ExecGrows
  <2>7. Grows(t, w[k + 1], n)
    BY <2>4, <2>6, GrowsOn
  <2>8. Untouched(t.game, w[k + 1].game, ss, k + 1)
    <3> SUFFICES ASSUME NEW m \in Matches,
                        \A j \in 1..(k + 1) : ss[j].op = "event" \/ ss[j].match # m
                 PROVE  w[k + 1].game[m] = t.game[m]
      BY DEF Untouched
    <3>1. u.game[m] = t.game[m]
      BY <2>4 DEF Untouched
    <3>2. s.op = "event" \/ s.match # m
      BY <2>1, <2>2
    <3>3. w[k + 1].game = Effect(u.game, s)
      BY <2>3, ExecIs
    <3>4. Effect(u.game, s)[m] = u.game[m]
      BY <2>3, <2>4, <3>2, EffectElsewhere
    <3> QED BY <3>1, <3>3, <3>4
  <2> QED BY <2>7, <2>8
<1> HIDE DEF N
<1>5. Len(ss) \in N
  BY <1>3, <1>4, SetInduction
<1> QED BY <1>2, <1>5 DEF N

\* As long as no revision moves, the rows a request leaves are of one revision.
LEMMA WalkQuiet ==
    ASSUME NEW n \in Nat, NEW t \in Txs(n), NEW ss \in Seq(Stmts(n)), NEW r \in 0..n, NEW w,
           Performs(w, t, r, ss, n), NEW m \in 0..Len(ss), \A k \in 1..m : ss[k].op # "event"
    PROVE  /\ w[m].rev = t.rev
           /\ \A i \in (Len(t.log) + 1)..Len(w[m].log) :
                  w[m].log[i].request = r /\ w[m].log[i].seq = t.rev
<1>1. /\ w \in [0..Len(ss) -> Txs(n)] /\ w[0] = t
      /\ \A k \in 1..Len(ss) : w[k] = Exec(w[k - 1], ss[k], r)
  BY DEF Performs
<1> DEFINE Says(x) == \A i \in (Len(t.log) + 1)..Len(x.log) :
                          x.log[i].request = r /\ x.log[i].seq = t.rev
           N == {k \in Nat : k <= m => w[k].rev = t.rev /\ Says(w[k])}
<1>2. Len(t.log) \in Nat /\ m \in Nat /\ m <= Len(ss)
  BY DEF Txs
<1>3. 0 \in N
  BY <1>1, <1>2
<1>4. ASSUME NEW k \in Nat, k \in N PROVE k + 1 \in N
  <2> SUFFICES ASSUME k + 1 <= m PROVE w[k + 1].rev = t.rev /\ Says(w[k + 1])
    OBVIOUS
  <2>1. k + 1 \in 1..Len(ss) /\ (k + 1) - 1 = k /\ k \in 0..Len(ss) /\ k + 1 \in 1..m
    BY <1>2
  <2>2. PICK u, s, x : u = w[k] /\ s = ss[k + 1] /\ x = w[k + 1]
    OBVIOUS
  <2>3. /\ x = Exec(u, s, r) /\ u \in Txs(n) /\ s \in Stmts(n) /\ s.op # "event"
        /\ u.rev = t.rev /\ Says(u) /\ u.log \in Seq(LogRows(n))
    <3>1. w[k + 1] = Exec(w[k], ss[k + 1], r) /\ w[k] \in Txs(n) /\ ss[k + 1] \in Stmts(n)
      BY <1>1, <2>1
    <3>2. w[k].rev = t.rev /\ Says(w[k])
      BY <1>2, <1>4, <2>1
    <3>3. u.log \in Seq(LogRows(n))
      BY <2>2, <3>1 DEF Txs
    <3> HIDE DEF Says
    <3> QED BY <2>1, <2>2, <3>1, <3>2, <3>3
  <2>4. CASE ~Journaled(u.game, s)
    <3>1. x.log = u.log /\ x.rev = u.rev
      BY <2>3, <2>4, ExecIs
    <3> QED BY <2>2, <2>3, <3>1
  <2>5. CASE Journaled(u.game, s)
    <3>1. /\ x.log = Append(u.log, RowOf(u, s, r)) /\ RowOf(u, s, r) \in LogRows(n)
          /\ x.rev = u.rev
      BY <2>3, <2>5, ExecIs
    <3>2. RowOf(u, s, r).request = r /\ RowOf(u, s, r).seq = x.rev
      BY <2>3 DEF RowOf
    <3>3. PICK row : row = RowOf(u, s, r)
      OBVIOUS
    <3>4. /\ Len(x.log) = Len(u.log) + 1 /\ x.log[Len(u.log) + 1] = row
          /\ \A i \in 1..Len(u.log) : x.log[i] = u.log[i]
          /\ Len(u.log) \in Nat
      BY <2>3, <3>1, <3>3
    <3>5. ASSUME NEW i \in (Len(t.log) + 1)..Len(x.log)
          PROVE  x.log[i].request = r /\ x.log[i].seq = t.rev
      <4>1. CASE i <= Len(u.log)
        <5>1. i \in (Len(t.log) + 1)..Len(u.log) /\ i \in 1..Len(u.log)
          BY <1>2, <3>4, <4>1
        <5> QED BY <2>3, <3>4, <5>1
      <4>2. CASE i = Len(u.log) + 1
        BY <2>3, <3>1, <3>2, <3>3, <3>4, <4>2
      <4> QED BY <1>2, <3>4, <4>1, <4>2
    <3> QED BY <2>2, <2>3, <3>1, <3>5
  <2> QED BY <2>4, <2>5
<1> HIDE DEF N
<1>5. m \in N
  BY <1>2, <1>3, <1>4, SetInduction
<1> QED BY <1>2, <1>5 DEF N

\* What a revert adds: rows of one request and one revision, then the event, at
\* whose id the game is the one the journal leaves.
Rewrites(t0, t, n) ==
    /\ t \in Txs(n) /\ Follows(t0, t) /\ Sound(t) /\ Len(t0.log) < Len(t.log)
    /\ t.log[Len(t.log)].request = 0
    /\ \A i, j \in (Len(t0.log) + 1)..(Len(t.log) - 1) :
           t.log[i].request = t.log[j].request /\ t.log[i].seq = t.log[j].seq

LEMMA PerformRewrites ==
    ASSUME NEW n \in Nat, NEW t \in Txs(n), NEW ss \in Seq(Stmts(n)), NEW r \in 0..n, Sound(t),
           \A k \in 1..Len(ss) : ss[k].op # "event"
    PROVE  Rewrites(t, Perform(t, r, Append(ss, Event)), n)
<1> DEFINE es == Append(ss, Event)
           m == Len(ss)
<1>1. Event \in Stmts(n) /\ Event.op = "event"
  BY DEF Event, Stmts, Said
<1>2. /\ es \in Seq(Stmts(n)) /\ Len(es) = m + 1 /\ m \in 0..Len(es) /\ m + 1 \in 1..Len(es)
      /\ es[m + 1] = Event /\ \A k \in 1..m : es[k].op # "event"
  BY <1>1
<1>3. PICK w : Performs(w, t, r, es, n)
  BY <1>2, PerformWalk
<1> HIDE DEF es, m
<1>4. PICK u, x : u = w[m] /\ x = Perform(t, r, es)
  OBVIOUS
<1>5. x = w[m + 1] /\ x = Exec(u, Event, r) /\ m \in Nat
  <2>1. /\ w[Len(es)] = Perform(t, r, es)
        /\ \A k \in 1..Len(es) : w[k] = Exec(w[k - 1], es[k], r)
    BY <1>3 DEF Performs
  <2>2. (m + 1) - 1 = m /\ m \in Nat
    BY <1>2
  <2>3. w[m + 1] = Exec(w[m], es[m + 1], r)
    BY <1>2, <2>1, <2>2
  <2> QED BY <1>2, <1>4, <2>1, <2>2, <2>3
<1>6. u \in Txs(n) /\ x \in Txs(n) /\ Follows(t, u) /\ Follows(t, x)
  <2>1. \A k \in 0..Len(es) : w[k] \in Txs(n) /\ Follows(t, w[k])
    BY <1>2, <1>3, PerformFollows
  <2>2. m \in 0..Len(es) /\ m + 1 \in 0..Len(es)
    BY <1>2
  <2> QED BY <1>4, <1>5, <2>1, <2>2
<1>7. \A i \in (Len(t.log) + 1)..Len(u.log) : u.log[i].request = r /\ u.log[i].seq = t.rev
  <2>1. \A k \in 1..m : es[k].op # "event"
    BY <1>2
  <2>2. es \in Seq(Stmts(n)) /\ m \in 0..Len(es)
    BY <1>2
  <2>3. \A i \in (Len(t.log) + 1)..Len(w[m].log) :
            w[m].log[i].request = r /\ w[m].log[i].seq = t.rev
    BY <1>3, <2>1, <2>2, WalkQuiet
  <2> QED BY <1>4, <2>3
<1>8. Journaled(u.game, Event)
  BY <1>1 DEF Journaled
<1>9. /\ x.log = Append(u.log, RowOf(u, Event, r)) /\ x.was = Append(u.was, Effect(u.game, Event))
      /\ x.game = Effect(u.game, Event) /\ RowOf(u, Event, r) \in LogRows(n)
  BY <1>1, <1>5, <1>6, <1>8, ExecIs
<1>10. u.log \in Seq(LogRows(n)) /\ u.was \in Seq(GamesTo(n)) /\ t.log \in Seq(LogRows(n))
       /\ t.was \in Seq(GamesTo(n)) /\ x.was \in Seq(GamesTo(n)) /\ x.log \in Seq(LogRows(n))
  BY <1>6 DEF Txs
<1>11. RowOf(u, Event, r).request = 0
  BY <1>1 DEF RowOf
<1>12. PICK row, g : row = RowOf(u, Event, r) /\ g = Effect(u.game, Event)
  OBVIOUS
<1>13. /\ Len(x.log) = Len(u.log) + 1 /\ x.log[Len(x.log)] = row
       /\ \A i \in 1..Len(u.log) : x.log[i] = u.log[i]
       /\ x.was[Len(x.was)] = g
  BY <1>9, <1>10, <1>12
<1>14. Len(t.log) <= Len(u.log) /\ Len(t.log) \in Nat /\ Len(u.log) \in Nat
  BY <1>6, <1>10 DEF Follows, Keeps
<1>15. Sound(x)
  <2>1. Len(x.was) - Len(x.log) = Len(t.was) - Len(t.log) /\ Len(t.was) = Len(t.log) + 1
    BY <1>6 DEF Follows, Sound
  <2>2. Len(x.was) = Len(x.log) + 1
    BY <1>10, <2>1
  <2> QED BY <1>9, <1>12, <1>13, <2>2 DEF Sound
<1>16. \A i, j \in (Len(t.log) + 1)..(Len(x.log) - 1) :
           x.log[i].request = x.log[j].request /\ x.log[i].seq = x.log[j].seq
  <2>1. ASSUME NEW i \in (Len(t.log) + 1)..(Len(x.log) - 1)
        PROVE  x.log[i].request = r /\ x.log[i].seq = t.rev
    <3>1. i \in (Len(t.log) + 1)..Len(u.log) /\ i \in 1..Len(u.log)
      BY <1>13, <1>14
    <3> QED BY <1>7, <1>13, <3>1
  <2> QED BY <2>1
<1>17. Len(t.log) < Len(x.log) /\ x.log[Len(x.log)].request = 0
  BY <1>11, <1>12, <1>13, <1>14
<1> QED BY <1>4, <1>6, <1>15, <1>16, <1>17 DEF Rewrites, es

-----------------------------------------------------------------------------
\* The invariant.

\* Row i is one of those a revert rewrote, which end with an event row at whose id
\* there is a checkpoint.
Rewritten(l, cs, i) ==
    \E a, b \in 1..Len(l) :
        /\ a <= i /\ i <= b /\ l[b].request = 0
        /\ \E c \in cs : c.id = b
        /\ \A j, k \in a..(b - 1) : l[j].request = l[k].request /\ l[j].seq = l[k].seq

\* Nothing holds a value of a request to come.
TypedInv ==
    /\ requests \in Nat /\ requests <= MaxRequests
    /\ Begin \in Txs(requests) /\ Sound(Begin)
    /\ hot \subseteq 1..Top
    /\ checkpoints \subseteq [id : 0..Top, game : GamesTo(requests)]

\* What is folded is older than all that is hot; the newest row is hot.
HotInv ==
    /\ Top > 0 => Top \in hot /\ log[Top].seq = rev
    /\ \A i \in 1..Top : log[i].seq <= rev
    /\ \A i \in hot, j \in 1..Top : log[i].seq <= log[j].seq => j \in hot

\* A checkpoint is the game its id left.
CheckInv == \A c \in checkpoints : c.game = was[c.id + 1]

TellInv == \A i \in 1..Top : Tells(log, was, i) \/ Rewritten(log, checkpoints, i)

JournalInv == TypedInv /\ HotInv /\ CheckInv /\ TellInv

LEMMA MoreValues ==
    ASSUME NEW n \in Nat, NEW m \in Nat, n <= m
    PROVE  /\ GamesTo(n) \subseteq GamesTo(m)
           /\ Said(n) \subseteq Said(m)
           /\ Txs(n) \subseteq Txs(m)
<1>1. 0..n \subseteq 0..m
  OBVIOUS
<1> DEFINE Old == {NoMatch} \cup [blob : 0..n, rows : 0..n]
           New == {NoMatch} \cup [blob : 0..m, rows : 0..m]
<1>2. Old \subseteq New
  BY <1>1
<1> HIDE DEF Old, New
<1>3. GamesTo(n) \subseteq GamesTo(m)
  <2>1. [Matches -> Old] \subseteq [Matches -> New]
    BY <1>2
  <2> QED BY <2>1 DEF GamesTo, Old, New
<1>4. Said(n) \subseteq Said(m)
  <2>1. (0..n) \cup {Same} \subseteq (0..m) \cup {Same}
    BY <1>1
  <2> QED BY <1>1, <2>1 DEF Said
<1>5. LogRows(n) \subseteq LogRows(m)
  BY <1>1, <1>4 DEF LogRows
<1>6. Seq(LogRows(n)) \subseteq Seq(LogRows(m)) /\ Seq(GamesTo(n)) \subseteq Seq(GamesTo(m))
  <2> DEFINE A == LogRows(n)
             B == LogRows(m)
             C == GamesTo(n)
             F == GamesTo(m)
  <2>1. A \subseteq B /\ C \subseteq F
    BY <1>3, <1>5
  <2> HIDE DEF A, B, C, F
  <2>2. Seq(A) \subseteq Seq(B) /\ Seq(C) \subseteq Seq(F)
    BY <2>1
  <2> QED BY <2>2 DEF A, B, C, F
<1> QED BY <1>3, <1>4, <1>6 DEF Txs

\* A transaction whose new rows say what they did, or are a revert's.
LEMMA CommitKeeps ==
    ASSUME JournalInv, NEW taken \in Nat, NEW t \in Txs(requests + taken),
           Follows(Begin, t), Sound(t), Commit(t, taken),
           \A i \in (Top + 1)..Len(t.log) :
               Tells(t.log, t.was, i) \/ Rewritten(t.log, checkpoints', i),
           checkpoints \subseteq checkpoints',
           checkpoints' \subseteq checkpoints \cup {[id |-> Len(t.log), game |-> t.game]}
    PROVE  JournalInv'
<1> DEFINE n == requests + taken
<1>1. /\ requests' = n /\ n <= MaxRequests /\ n \in Nat /\ requests <= n
      /\ game' = t.game /\ rev' = t.rev /\ log' = t.log /\ was' = t.was
      /\ hot' = hot \cup ((Top + 1)..Len(t.log))
  BY DEF Commit, JournalInv, TypedInv, Top
<1>2. /\ t.game \in GamesTo(n) /\ t.rev \in Nat /\ t.log \in Seq(LogRows(n))
      /\ t.was \in Seq(GamesTo(n))
      /\ t = [game |-> t.game, rev |-> t.rev, log |-> t.log, was |-> t.was]
  BY DEF Txs
<1>3. Begin' = t /\ Top' = Len(t.log)
  BY <1>1, <1>2 DEF Begin, Top
<1>4. /\ Begin.log = log /\ Begin.was = was /\ Begin.game = game /\ Begin.rev = rev
      /\ log \in Seq(LogRows(requests)) /\ was \in Seq(GamesTo(requests)) /\ rev \in Nat
      /\ Len(was) = Top + 1 /\ Top \in Nat /\ Begin \in Txs(requests) /\ Sound(Begin)
      /\ game \in GamesTo(requests)
  BY DEF Begin, JournalInv, TypedInv, Txs, Top, Sound
<1>5. /\ Top <= Len(t.log) /\ \A i \in 1..Top : t.log[i] = log[i]
      /\ \A i \in 1..(Top + 1) : t.was[i] = was[i]
      /\ rev <= t.rev /\ Len(t.log) \in Nat
      /\ \A i \in (Top + 1)..Len(t.log) : rev <= t.log[i].seq /\ t.log[i].seq <= t.rev
      /\ IF Len(t.log) = Top THEN t.rev = rev ELSE t.log[Len(t.log)].seq = t.rev
  BY <1>2, <1>4 DEF Follows, Keeps, Top
<1>6. \A i \in 1..Len(t.log) : t.log[i].seq \in Nat
  <2>1. \A i \in 1..Len(t.log) : t.log[i] \in LogRows(n)
    BY <1>2
  <2> QED BY <2>1 DEF LogRows
<1> HIDE DEF n
<1>7. TypedInv'
  <2>1. hot' \subseteq 1..Len(t.log)
    <3>1. hot \subseteq 1..Top
      BY DEF JournalInv, TypedInv
    <3>2. PICK a, b : a = Top /\ b = Len(t.log)
      OBVIOUS
    <3>3. hot \subseteq 1..a /\ hot' = hot \cup ((a + 1)..b) /\ a <= b /\ a \in Nat /\ b \in Nat
      BY <1>1, <1>4, <1>5, <3>1, <3>2
    <3>4. hot' \subseteq 1..b
      BY <3>3
    <3> QED BY <3>2, <3>4
  <2>2. \A c \in checkpoints' : c \in [id : 0..Len(t.log), game : GamesTo(n)]
    <3>1. GamesTo(requests) \subseteq GamesTo(n)
      BY <1>1, MoreValues DEF JournalInv, TypedInv
    <3>2. \A c \in checkpoints : c \in [id : 0..Len(t.log), game : GamesTo(n)]
      BY <1>4, <1>5, <3>1 DEF JournalInv, TypedInv
    <3>3. [id |-> Len(t.log), game |-> t.game] \in [id : 0..Len(t.log), game : GamesTo(n)]
      BY <1>2, <1>5
    <3> QED BY <3>2, <3>3
  <2> QED BY <1>1, <1>3, <2>1, <2>2 DEF TypedInv, n
<1>8. HotInv'
  <2>1. Top' > 0 => Top' \in hot' /\ t.log[Top'].seq = t.rev
    <3>1. CASE Len(t.log) = Top
      BY <1>1, <1>3, <1>4, <1>5, <3>1 DEF JournalInv, HotInv
    <3>2. CASE Len(t.log) # Top
      BY <1>1, <1>3, <1>4, <1>5, <3>2
    <3> QED BY <3>1, <3>2
  <2>2. ASSUME NEW i \in 1..Len(t.log) PROVE t.log[i].seq <= t.rev
    <3>1. CASE i <= Top
      <4>1. i \in 1..Top /\ t.log[i] = log[i]
        BY <1>4, <1>5, <3>1
      <4>2. log[i].seq <= rev
        BY <4>1 DEF JournalInv, HotInv
      <4> QED BY <1>2, <1>4, <1>5, <1>6, <4>1, <4>2
    <3>2. CASE i > Top
      BY <1>4, <1>5, <3>2
    <3> QED BY <1>4, <3>1, <3>2
  <2>3. ASSUME NEW i \in hot', NEW j \in 1..Len(t.log), t.log[i].seq <= t.log[j].seq
        PROVE  j \in hot'
    <3>1. CASE j > Top
      BY <1>1, <1>4, <1>5, <3>1
    <3>2. CASE j <= Top
      <4>1. j \in 1..Top /\ t.log[j] = log[j] /\ Top > 0 /\ Top \in 1..Top
        BY <1>4, <1>5, <3>2
      <4>2. CASE i \in hot
        <5>1. i \in 1..Top /\ t.log[i] = log[i]
          BY <1>5, <4>2 DEF JournalInv, TypedInv
        <5>2. j \in hot
          BY <2>3, <4>1, <4>2, <5>1 DEF JournalInv, HotInv
        <5> QED BY <1>1, <5>2
      <4>3. CASE i \notin hot
        <5>1. i \in (Top + 1)..Len(t.log) /\ i \in 1..Len(t.log)
          BY <1>1, <1>4, <2>3, <4>3
        <5>2. rev <= t.log[i].seq /\ t.log[i].seq \in Nat /\ log[j].seq \in Nat
          BY <1>5, <1>6, <4>1, <5>1
        <5>3. log[Top].seq = rev /\ Top \in hot
          BY <4>1 DEF JournalInv, HotInv
        <5>4. log[Top].seq <= log[j].seq
          BY <1>4, <2>3, <4>1, <5>2, <5>3
        <5>5. j \in hot
          BY <4>1, <5>3, <5>4 DEF JournalInv, HotInv
        <5> QED BY <1>1, <5>5
      <4> QED BY <4>2, <4>3
    <3> QED BY <1>4, <3>1, <3>2
  <2> QED BY <1>1, <1>3, <2>1, <2>2, <2>3 DEF HotInv
<1>9. CheckInv'
  <2>1. ASSUME NEW c \in checkpoints PROVE c.game = t.was[c.id + 1]
    <3>1. c.id \in 0..Top /\ c.game = was[c.id + 1]
      BY DEF JournalInv, TypedInv, CheckInv
    <3>2. c.id + 1 \in 1..(Top + 1)
      BY <1>4, <3>1
    <3> QED BY <1>5, <3>1, <3>2
  <2>2. t.game = t.was[Len(t.log) + 1]
    BY DEF Sound
  <2> QED BY <1>1, <2>1, <2>2 DEF CheckInv
<1>10. TellInv'
  <2>1. ASSUME NEW i \in 1..Len(t.log)
        PROVE  Tells(t.log, t.was, i) \/ Rewritten(t.log, checkpoints', i)
    <3>1. CASE i > Top
      BY <1>4, <1>5, <3>1
    <3>2. CASE i <= Top
      <4>1. i \in 1..Top
        BY <1>4, <3>2
      <4>2. CASE Tells(log, was, i)
        <5>1. i \in 1..(Top + 1) /\ i + 1 \in 1..(Top + 1)
          BY <1>4, <4>1
        <5>2. t.log[i] = log[i] /\ t.was[i] = was[i] /\ t.was[i + 1] = was[i + 1]
          BY <1>5, <4>1, <5>1
        <5> QED BY <4>2, <5>2 DEF Tells
      <4>3. CASE Rewritten(log, checkpoints, i)
        <5>1. PICK a, b \in 1..Top :
                 /\ a <= i /\ i <= b /\ log[b].request = 0
                 /\ \E c \in checkpoints : c.id = b
                 /\ \A j, k \in a..(b - 1) : log[j].request = log[k].request
                                             /\ log[j].seq = log[k].seq
          BY <4>3 DEF Rewritten, Top
        <5>2. a \in 1..Len(t.log) /\ b \in 1..Len(t.log) /\ t.log[b] = log[b]
          BY <1>4, <1>5, <5>1
        <5>3. \A j \in a..(b - 1) : t.log[j] = log[j]
          BY <1>4, <1>5, <5>1
        <5>4. \A j, k \in a..(b - 1) : t.log[j].request = t.log[k].request
                                       /\ t.log[j].seq = t.log[k].seq
          <6> SUFFICES ASSUME NEW j \in a..(b - 1), NEW k \in a..(b - 1)
                       PROVE  t.log[j].request = t.log[k].request /\ t.log[j].seq = t.log[k].seq
            OBVIOUS
          <6>1. t.log[j] = log[j] /\ t.log[k] = log[k]
            BY <5>3
          <6>2. log[j].request = log[k].request /\ log[j].seq = log[k].seq
            BY <5>1
          <6> QED BY <6>1, <6>2
        <5>5. \E c \in checkpoints' : c.id = b
          BY <5>1
        <5> QED BY <5>1, <5>2, <5>4, <5>5 DEF Rewritten
      <4> QED BY <4>1, <4>2, <4>3 DEF JournalInv, TellInv
    <3> QED BY <1>4, <3>1, <3>2
  <2> QED BY <1>1, <1>3, <2>1 DEF TellInv
<1> QED BY <1>7, <1>8, <1>9, <1>10 DEF JournalInv

-----------------------------------------------------------------------------
\* The writes.

LEMMA BeginIs ==
    ASSUME JournalInv, NEW taken \in Nat
    PROVE  /\ requests \in Nat /\ requests + taken \in Nat
           /\ Begin \in Txs(requests + taken) /\ Sound(Begin)
           /\ Begin.game = game /\ Len(Begin.log) = Top
           /\ game \in GamesTo(requests)
<1>1. requests \in Nat /\ requests + taken \in Nat /\ requests <= requests + taken
      /\ Begin \in Txs(requests) /\ Sound(Begin)
  BY DEF JournalInv, TypedInv
<1>2. Begin \in Txs(requests + taken)
  BY <1>1, MoreValues
<1>3. Begin.game = game /\ Len(Begin.log) = Top
  BY DEF Begin, Top
<1>4. game \in GamesTo(requests)
  BY <1>1, <1>3 DEF Txs
<1> QED BY <1>1, <1>2, <1>3, <1>4

LEMMA GrowsCommit ==
    ASSUME JournalInv, NEW taken \in Nat, NEW t, Grows(Begin, t, requests + taken),
           Commit(t, taken), UNCHANGED checkpoints
    PROVE  JournalInv'
<1>1. t \in Txs(requests + taken) /\ Follows(Begin, t) /\ Sound(t)
      /\ \A i \in (Len(Begin.log) + 1)..Len(t.log) : Tells(t.log, t.was, i)
  BY DEF Grows
<1>2. \A i \in (Top + 1)..Len(t.log) :
          Tells(t.log, t.was, i) \/ Rewritten(t.log, checkpoints', i)
  BY <1>1, BeginIs
<1> QED BY <1>1, <1>2, CommitKeeps

\* Statements that write no document by an update are fresh.
LEMMA NoDocument ==
    ASSUME NEW g, NEW ss, \A k \in 1..Len(ss) : ss[k].op = "update" => ss[k].blob = Same
    PROVE  Fresh(g, ss)
BY DEF Fresh

LEMMA SettleGrows ==
    ASSUME NEW n \in Nat, NEW t \in Txs(n), Sound(t), NEW edited \in Seq(Matches),
           NEW advanced \in Seq(Matches), NEW r \in 0..n
    PROVE  Grows(t, Settle(t, edited, advanced, r), n)
<1> DEFINE scored == [i \in 1..2 * Len(edited) |->
                         IF i % 2 = 0 THEN Event ELSE Update(edited[(i + 1) \div 2], Same, r)]
           seated == [i \in 1..Len(advanced) |-> Update(advanced[i], Same, r)]
           ss == scored \o seated
           Good == {s \in Said(n) : s.op = "update" => s.blob = Same}
<1>1. \A m \in Matches : Update(m, Same, r) \in Good
  BY StatementsAre DEF Update
<1>2. Event \in Good
  BY StatementsAre DEF Event
<1>3. scored \in Seq(Good)
  <2>1. ASSUME NEW i \in 1..2 * Len(edited) PROVE scored[i] \in Good
    <3>1. CASE i % 2 = 0
      BY <1>2, <3>1
    <3>2. CASE i % 2 # 0
      <4>1. (i + 1) \div 2 \in 1..Len(edited)
        BY <3>2
      <4>2. scored[i] = Update(edited[(i + 1) \div 2], Same, r)
        BY <3>2
      <4> QED BY <1>1, <4>1, <4>2
    <3> QED BY <3>1, <3>2
  <2>2. 2 * Len(edited) \in Nat
    OBVIOUS
  <2> HIDE DEF Good
  <2> QED BY <2>1, <2>2
<1>4. seated \in Seq(Good)
  <2> HIDE DEF Good
  <2> QED BY <1>1
<1>5. ss \in Seq(Good)
  <2> HIDE DEF Good, scored, seated
  <2> QED BY <1>3, <1>4
<1> HIDE DEF ss
<1>6. ss \in Seq(Said(n)) /\ \A k \in 1..Len(ss) : ss[k].op = "update" => ss[k].blob = Same
  BY <1>5
<1>7. Grows(t, Perform(t, r, ss), n)
  BY <1>6, NoDocument, PerformGrows
<1> QED BY <1>7 DEF Settle, ss

LEMMA PatchGrows ==
    ASSUME NEW n \in Nat, NEW t \in Txs(n), Sound(t), NEW m \in Matches, NEW r \in 0..n
    PROVE  Grows(t, Perform(t, r, <<Patch(m, r)>>), n)
<1> DEFINE s == Patch(m, r)
           ss == <<s>>
<1>1. s \in Said(n) /\ s.op = "patch"
  BY StatementsAre DEF Patch
<1> HIDE DEF s
<1>2. ss \in Seq(Said(n)) /\ \A k \in 1..Len(ss) : ss[k].op = "update" => ss[k].blob = Same
  BY <1>1
<1> HIDE DEF ss
<1>3. Grows(t, Perform(t, r, ss), n)
  BY <1>2, NoDocument, PerformGrows
<1> QED BY <1>3 DEF ss, s

LEMMA WindowKeeps ==
    ASSUME JournalInv, NEW edits \in Seq(Matches), Len(edits) \in {1, 2}, Window(edits)
    PROVE  JournalInv'
<1> DEFINE n == requests + Len(edits)
           first == Perform(Begin, requests + 1, <<Patch(edits[1], requests + 1)>>)
           last == requests + Len(edits)
           patched == IF Len(edits) = 1 THEN first
                      ELSE Perform(first, last, <<Patch(edits[2], last)>>)
           touched == IF Len(edits) = 2 /\ edits[1] = edits[2] THEN <<edits[1]>> ELSE edits
<1>1. PICK moved \in SUBSET (Existing(game) \ ToSet(edits)) :
          Commit(Settle(patched, touched, SetToSeq(moved), last), Len(edits))
  BY DEF Window
<1>2. UNCHANGED checkpoints
  BY DEF Window
<1>3. Len(edits) \in Nat /\ requests \in Nat /\ n \in Nat /\ Begin \in Txs(n) /\ Sound(Begin)
  BY BeginIs
<1>4. requests + 1 \in 0..n /\ last \in 0..n /\ edits[1] \in Matches
      /\ (Len(edits) = 2 => edits[2] \in Matches)
  BY <1>3
<1> HIDE DEF n, first, last
<1>5. Grows(Begin, first, n)
  BY <1>3, <1>4, PatchGrows DEF first
<1>6. first \in Txs(n) /\ Sound(first)
  BY <1>5 DEF Grows
<1>7. Grows(Begin, patched, n)
  <2>1. CASE Len(edits) = 1
    BY <1>5, <2>1
  <2>2. CASE Len(edits) # 1
    <3> DEFINE second == Perform(first, last, <<Patch(edits[2], last)>>)
    <3>1. edits[2] \in Matches /\ patched = second
      BY <1>4, <2>2
    <3>2. Grows(first, second, n)
      BY <1>3, <1>4, <1>6, <3>1, PatchGrows
    <3> HIDE DEF second
    <3>3. Grows(Begin, second, n)
      BY <1>3, <1>5, <3>2, GrowsOn
    <3> QED BY <3>1, <3>3
  <2> QED BY <2>1, <2>2
<1> HIDE DEF patched
<1>8. patched \in Txs(n) /\ Sound(patched)
  BY <1>7 DEF Grows
<1>9. touched \in Seq(Matches)
  BY <1>4
<1>10. SetToSeq(moved) \in Seq(Matches)
  <2>1. moved \subseteq Matches /\ IsFiniteSet(moved)
    BY FS_Subset, JournalAssumption DEF Existing
  <2>2. SetToSeq(moved) \in Seq(moved)
    BY <2>1, Enumerates
  <2> QED BY <2>1, <2>2
<1> HIDE DEF touched
<1>11. Grows(patched, Settle(patched, touched, SetToSeq(moved), last), n)
  BY <1>3, <1>4, <1>8, <1>9, <1>10, SettleGrows
<1>12. Grows(Begin, Settle(patched, touched, SetToSeq(moved), last), n)
  BY <1>3, <1>7, <1>11, GrowsOn
<1> QED BY <1>1, <1>2, <1>3, <1>12, GrowsCommit DEF n

LEMMA ElsewhereKeeps ==
    ASSUME JournalInv, Elsewhere
    PROVE  JournalInv'
<1> DEFINE n == requests + 1
           r == requests + 1
           ss == <<Event>>
<1>1. n \in Nat /\ r \in 0..n /\ Begin \in Txs(n) /\ Sound(Begin)
  BY BeginIs
<1>2. ss \in Seq(Said(n)) /\ \A k \in 1..Len(ss) : ss[k].op = "update" => ss[k].blob = Same
  <2>1. Event \in Said(n) /\ Event.op = "event"
    BY <1>1, StatementsAre DEF Event
  <2> QED BY <2>1
<1> HIDE DEF n, ss, r
<1>3. Grows(Begin, Perform(Begin, r, ss), n)
  BY <1>1, <1>2, NoDocument, PerformGrows
<1>4. Commit(Perform(Begin, r, ss), 1) /\ UNCHANGED checkpoints
  BY DEF Elsewhere, ss, r
<1> QED BY <1>3, <1>4, GrowsCommit DEF n

\* One sequence after another.
LEMMA After ==
    ASSUME NEW S, NEW p \in Seq(S), NEW q \in Seq(S)
    PROVE  /\ p \o q \in Seq(S) /\ Len(p \o q) = Len(p) + Len(q)
           /\ \A i \in 1..Len(p) : (p \o q)[i] = p[i]
           /\ \A i \in 1..Len(q) : (p \o q)[Len(p) + i] = q[i]
           /\ \A i \in 1..Len(p \o q) : i \in 1..Len(p)
                                        \/ (i - Len(p) \in 1..Len(q) /\ i = Len(p) + (i - Len(p)))
<1>1. p \o q \in Seq(S) /\ Len(p \o q) = Len(p) + Len(q) /\ Len(p) \in Nat /\ Len(q) \in Nat
  OBVIOUS
<1>2. \A i \in 1..Len(p) : (p \o q)[i] = p[i]
  OBVIOUS
<1>3. \A i \in 1..Len(q) : (p \o q)[Len(p) + i] = q[i]
  OBVIOUS
<1> QED BY <1>1, <1>2, <1>3

LEMMA ClearKeeps ==
    ASSUME JournalInv, Clear
    PROVE  JournalInv'
<1> DEFINE n == requests + 1
           r == requests + 1
           old == SetToSeq(Existing(game))
           A == [i \in 1..Len(old) |-> Delete(old[i])]
           B == [i \in 1..Len(old) |-> Insert(old[i], Empty, r)]
           ss == A \o B \o <<Event>>
           Good == {s \in Said(n) : s.op # "update"}
<1>1. n \in Nat /\ r \in 0..n /\ 0 \in 0..n /\ Begin \in Txs(n) /\ Sound(Begin)
  BY BeginIs
<1>2. old \in Seq(Matches)
  <2>1. Existing(game) \subseteq Matches /\ IsFiniteSet(Existing(game))
    BY FS_Subset, JournalAssumption DEF Existing
  <2>2. old \in Seq(Existing(game))
    BY <2>1, Enumerates
  <2> QED BY <2>1, <2>2
<1>3. /\ \A m \in Matches : Delete(m) \in Good /\ Insert(m, Empty, r) \in Good
      /\ Event \in Good
  BY <1>1, StatementsAre DEF Delete, Insert, Event, Empty
<1> HIDE DEF n, r, old, Good
<1>4. A \in Seq(Good) /\ B \in Seq(Good) /\ <<Event>> \in Seq(Good)
  BY <1>2, <1>3
<1>5. ss \in Seq(Good)
  <2> HIDE DEF A, B
  <2> QED BY <1>4
<1> HIDE DEF ss
<1>6. ss \in Seq(Said(n)) /\ \A k \in 1..Len(ss) : ss[k].op = "update" => ss[k].blob = Same
  BY <1>5 DEF Good
<1>7. Grows(Begin, Perform(Begin, r, ss), n)
  BY <1>1, <1>6, NoDocument, PerformGrows
<1>8. Commit(Perform(Begin, r, ss), 1) /\ UNCHANGED checkpoints
  BY DEF Clear, ss, r, old
<1> QED BY <1>7, <1>8, GrowsCommit DEF n

LEMMA RecompileKeeps ==
    ASSUME JournalInv, NEW scheme \in SUBSET Matches, NEW begun \in SUBSET Matches,
           NEW grown \in SUBSET Matches, Recompile(scheme, begun, grown)
    PROVE  JournalInv'
<1> DEFINE n == requests + 1
           r == requests + 1
           Written(m) ==
               CASE m \in grown -> Update(m, r, r)
                 [] m \in begun -> Update(m, Same, r)
                 [] m \in Existing(game) \ (begun \cup grown) -> Update(m, Empty, r)
                 [] OTHER -> Insert(m, Empty, r)
           written == SetToSeq(scheme)
           left == SetToSeq(Existing(game) \ scheme)
           A == [i \in 1..Len(written) |-> Written(written[i])]
           B == [i \in 1..Len(left) |-> Delete(left[i])]
           C == <<Event>>
           ss == A \o B \o C
<1>1. n \in Nat /\ r \in 0..n /\ 0 \in 0..n /\ Begin \in Txs(n) /\ Sound(Begin)
      /\ requests \in Nat /\ Begin.game = game /\ game \in GamesTo(requests)
  BY BeginIs
<1>2. /\ written \in Seq(scheme)
      /\ \A i, j \in 1..Len(written) : written[i] = written[j] => i = j
  BY FS_Subset, JournalAssumption, Enumerates
<1>3. left \in Seq(Matches)
  <2>1. Existing(game) \ scheme \subseteq Matches /\ IsFiniteSet(Existing(game) \ scheme)
    BY FS_Subset, JournalAssumption DEF Existing
  <2>2. left \in Seq(Existing(game) \ scheme)
    BY <2>1, Enumerates
  <2> QED BY <2>1, <2>2
<1>4. \A m \in Matches :
          /\ Written(m) \in Said(n) /\ Written(m).match = m
          /\ Written(m).op = "update" => Written(m).rows = r
  <2> SUFFICES ASSUME NEW m \in Matches
               PROVE  /\ Written(m) \in Said(n) /\ Written(m).match = m
                      /\ Written(m).op = "update" => Written(m).rows = r
    OBVIOUS
  <2>1. \/ \E b \in (0..n) \cup {Same} : Written(m) = Update(m, b, r)
        \/ Written(m) = Insert(m, Empty, r)
    BY <1>1 DEF Empty
  <2> HIDE DEF Written
  <2>2. CASE \E b \in (0..n) \cup {Same} : Written(m) = Update(m, b, r)
    <3>1. PICK b \in (0..n) \cup {Same} : Written(m) = Update(m, b, r)
      BY <2>2
    <3>2. Update(m, b, r) \in Said(n)
      BY <1>1, StatementsAre
    <3> QED BY <3>1, <3>2 DEF Update
  <2>3. CASE Written(m) = Insert(m, Empty, r)
    <3>1. Insert(m, Empty, r) \in Said(n)
      BY <1>1, StatementsAre DEF Empty
    <3> QED BY <2>3, <3>1 DEF Insert
  <2> QED BY <2>1, <2>2, <2>3
<1>5. /\ \A m \in Matches : Delete(m) \in Said(n) /\ Delete(m).op = "delete"
      /\ Event \in Said(n) /\ Event.op = "event"
  BY <1>1, StatementsAre DEF Delete, Event
<1>6. \A m \in Matches : game[m] = NoMatch \/ game[m].rows # r
  <2>1. \A m \in Matches : game[m] \in {NoMatch} \cup [blob : 0..requests, rows : 0..requests]
    BY <1>1 DEF GamesTo
  <2>2. \A v \in 0..requests : v # r
    BY <1>1
  <2> HIDE DEF r
  <2> QED BY <2>1, <2>2
<1> HIDE DEF n, r, Written, written, left
<1>7. /\ A \in Seq(Said(n)) /\ B \in Seq(Said(n)) /\ C \in Seq(Said(n))
      /\ Len(A) = Len(written)
      /\ \A i \in 1..Len(A) : A[i] = Written(written[i]) /\ written[i] \in Matches
      /\ \A i \in 1..Len(B) : B[i].op # "update"
      /\ Len(C) = 1 /\ C[1].op # "update"
  BY <1>2, <1>3, <1>4, <1>5
<1> HIDE DEF A, B, C
<1>8. /\ ss \in Seq(Said(n)) /\ Len(ss) = Len(A) + Len(B) + 1
      /\ \A i \in 1..Len(A) : ss[i] = A[i]
      /\ \A i \in 1..Len(ss) : i > Len(A) => ss[i].op # "update"
  <2> DEFINE AB == A \o B
  <2>1. /\ AB \in Seq(Said(n)) /\ Len(AB) = Len(A) + Len(B)
        /\ \A i \in 1..Len(A) : AB[i] = A[i]
        /\ \A i \in 1..Len(B) : AB[Len(A) + i] = B[i]
        /\ \A i \in 1..Len(AB) : i \in 1..Len(A)
                                 \/ (i - Len(A) \in 1..Len(B) /\ i = Len(A) + (i - Len(A)))
    BY <1>7, After
  <2>2. Len(A) \in Nat /\ Len(B) \in Nat
    BY <1>7
  <2>3. \A i \in 1..Len(AB) : i > Len(A) => AB[i].op # "update"
    <3> SUFFICES ASSUME NEW i \in 1..Len(AB), i > Len(A) PROVE AB[i].op # "update"
      OBVIOUS
    <3>1. i - Len(A) \in 1..Len(B) /\ i = Len(A) + (i - Len(A))
      BY <2>1, <2>2
    <3>2. AB[i] = B[i - Len(A)]
      BY <2>1, <3>1
    <3> QED BY <1>7, <3>1, <3>2
  <2> HIDE DEF AB
  <2>4. /\ AB \o C \in Seq(Said(n)) /\ Len(AB \o C) = Len(AB) + Len(C)
        /\ \A i \in 1..Len(AB) : (AB \o C)[i] = AB[i]
        /\ \A i \in 1..Len(C) : (AB \o C)[Len(AB) + i] = C[i]
    <3>1. AB \in Seq(Said(n)) /\ C \in Seq(Said(n))
      BY <1>7, <2>1
    <3> QED BY <3>1, After
  <2>5. ss = AB \o C
    BY DEF AB
  <2> HIDE DEF ss
  <2>6. /\ ss \in Seq(Said(n)) /\ Len(ss) = Len(A) + Len(B) + 1
        /\ ss[Len(AB) + 1] = C[1]
    <3>1. 1 \in 1..Len(C)
      BY <1>7
    <3> QED BY <1>7, <2>1, <2>2, <2>4, <2>5, <3>1
  <2>7. ASSUME NEW i \in 1..Len(A) PROVE ss[i] = A[i]
    <3>1. i \in 1..Len(AB)
      BY <2>1, <2>2
    <3> QED BY <2>1, <2>4, <2>5, <3>1
  <2>8. ASSUME NEW i \in 1..Len(ss), i > Len(A) PROVE ss[i].op # "update"
    <3>1. i \in 1..Len(AB) \/ i = Len(AB) + 1
      BY <2>1, <2>2, <2>6
    <3> QED BY <1>7, <2>3, <2>4, <2>5, <2>6, <2>8, <3>1
  <2> QED BY <2>6, <2>7, <2>8
<1> HIDE DEF ss
<1>9. Fresh(game, ss)
  <2> SUFFICES ASSUME NEW k \in 1..Len(ss), ss[k].op = "update"
               PROVE  /\ game[ss[k].match] = NoMatch \/ game[ss[k].match].rows # ss[k].rows
                      /\ \A j \in 1..(k - 1) : ss[j].op = "event" \/ ss[j].match # ss[k].match
    BY DEF Fresh
  <2>1. k \in 1..Len(A) /\ ss[k] = Written(written[k]) /\ written[k] \in Matches
    BY <1>7, <1>8
  <2>2. ss[k].match = written[k] /\ ss[k].rows = r
    BY <1>4, <2>1
  <2>3. ASSUME NEW j \in 1..(k - 1) PROVE ss[j].match # ss[k].match
    <3>1. j \in 1..Len(A) /\ j # k
      BY <1>7, <2>1
    <3>2. ss[j] = Written(written[j]) /\ written[j] \in Matches
      BY <1>7, <1>8, <3>1
    <3>3. ss[j].match = written[j]
      BY <1>4, <3>2
    <3>4. written[j] # written[k]
      BY <1>2, <1>7, <2>1, <3>1
    <3> QED BY <2>2, <3>3, <3>4
  <2> QED BY <1>6, <2>1, <2>2, <2>3
<1>10. Grows(Begin, Perform(Begin, r, ss), n)
  BY <1>1, <1>8, <1>9, PerformGrows
<1>11. Commit(Perform(Begin, r, ss), 1) /\ UNCHANGED checkpoints
  BY DEF Recompile, ss, r, A, B, C, Written, written, left
<1> QED BY <1>10, <1>11, GrowsCommit DEF n

-----------------------------------------------------------------------------
\* Reverts.

LEMMA Lowest ==
    ASSUME NEW S, S \subseteq Nat, S # {}
    PROVE  \E x \in S : \A y \in S : x <= y
<1>1. IsWellFoundedOn(OpToRel(<,Nat), Nat)
  BY NatLessThanWellFounded
<1>2. PICK x \in S : \A y \in S : ~ (<<y, x>> \in OpToRel(<,Nat))
  BY <1>1, WFMin
<1>3. \A y \in S : ~(y < x)
  BY <1>2 DEF OpToRel
<1>4. \A y \in S : y \in Nat
  OBVIOUS
<1> QED BY <1>3, <1>4

LEMMA Highest ==
    ASSUME NEW n \in Nat, NEW S, S \subseteq 0..n, S # {}
    PROVE  \E x \in S : \A y \in S : y <= x
<1> DEFINE T == {n - x : x \in S}
<1>1. \A x \in S : x \in 0..n /\ n - x \in Nat
  OBVIOUS
<1>2. T \subseteq Nat /\ T # {}
  BY <1>1
<1>3. PICK z \in T : \A y \in T : z <= y
  <2> HIDE DEF T
  <2> QED BY <1>2, Lowest
<1>4. PICK x \in S : z = n - x
  OBVIOUS
<1>5. ASSUME NEW y \in S PROVE y <= x
  <2>1. n - x <= n - y
    BY <1>3, <1>4
  <2> QED BY <1>1, <2>1
<1> QED BY <1>5

\* What the history page offers is the id before a row of a request.
LEMMA OfferedIs ==
    ASSUME JournalInv, NEW target \in Offered
    PROVE  /\ target \in 0..Top /\ target + 1 \in 1..Top
           /\ \E r \in 1..requests :
                 /\ log[target + 1].request = r
                 /\ target \in 1..Top /\ log[target].request = r =>
                        (target + 1 \in hot /\ target \notin hot)
<1>1. PICK r \in 1..requests : target \in Targets(r)
  BY DEF Offered
<1>2. PICK ids \in {RowsOf(r), RowsOf(r) \cap hot} \ {{}} : target = First(ids) - 1
  BY <1>1 DEF Targets
<1>3. ids \subseteq 1..Top /\ ids # {} /\ Top \in Nat
  BY DEF RowsOf, JournalInv, TypedInv, Txs, Begin, Top
<1>4. \E i \in ids : \A k \in ids : i <= k
  <2>1. ids \subseteq Nat
    BY <1>3
  <2> QED BY <1>3, <2>1, Lowest
<1>5. First(ids) \in ids /\ \A k \in ids : First(ids) <= k
  BY <1>4 DEF First
<1>6. target + 1 \in ids /\ target + 1 \in 1..Top /\ target \in 0..Top
      /\ (\A k \in ids : target + 1 <= k)
  <2>1. PICK f : f = First(ids)
    OBVIOUS
  <2>2. f \in ids /\ f \in 1..Top /\ target = f - 1 /\ \A k \in ids : f <= k
    BY <1>2, <1>3, <1>5, <2>1
  <2>3. target + 1 = f /\ target \in 0..Top
    BY <1>3, <2>2
  <2> QED BY <2>2, <2>3
<1>7. log[target + 1].request = r
  BY <1>6 DEF RowsOf
<1>8. ASSUME target \in 1..Top, log[target].request = r
      PROVE  target + 1 \in hot /\ target \notin hot
  <2>1. target \in RowsOf(r) /\ target \notin ids
    BY <1>6, <1>8 DEF RowsOf
  <2>2. ids = RowsOf(r) \cap hot
    BY <2>1
  <2> QED BY <1>6, <2>1, <2>2
<1> QED BY <1>6, <1>7, <1>8

\* The checkpoint a revert starts from is the newest at or before its target.
LEMMA NearestIs ==
    ASSUME JournalInv, NEW target \in 0..Top, Before(target) # {}
    PROVE  /\ Nearest(target) \in checkpoints
           /\ Nearest(target).id \in 0..target
           /\ \A d \in checkpoints : d.id <= target => d.id <= Nearest(target).id
<1> DEFINE ids == {c.id : c \in Before(target)}
<1>0. Top \in Nat
  BY DEF JournalInv, TypedInv, Txs, Begin, Top
<1>1. \A c \in checkpoints : c.id \in 0..Top
  BY DEF JournalInv, TypedInv
<1>2. ids \subseteq 0..target /\ ids # {} /\ target \in Nat
  BY <1>0, <1>1 DEF Before
<1>3. PICK x \in ids : \A y \in ids : y <= x
  <2> HIDE DEF ids
  <2> QED BY <1>2, Highest
<1>4. \E c \in Before(target) : \A d \in Before(target) : d.id <= c.id
  BY <1>3
<1>5. Nearest(target) \in Before(target)
      /\ \A d \in Before(target) : d.id <= Nearest(target).id
  BY <1>4 DEF Nearest
<1>6. Nearest(target) \in checkpoints /\ Nearest(target).id <= target
  BY <1>5 DEF Before
<1>7. Nearest(target).id \in 0..target
  BY <1>0, <1>1, <1>6
<1> QED BY <1>5, <1>6, <1>7 DEF Before

\* Replaying a row is a statement of its own that does what the row says.
LEMMA ReplayedIs ==
    ASSUME NEW n \in Nat, NEW s \in Said(n)
    PROVE  /\ Replayed(s) \in Stmts(n) /\ Replayed(s).op # "event"
           /\ \A g \in GamesTo(n) : Effect(g, Replayed(s)) = Effect(g, s)
<1>0. s \in Stmts(n)
  BY DEF Stmts
<1>1. CASE s.op = "patch"
  <2>1. Replayed(s) = Unlogged(s.match, s.blob) /\ s.match \in Matches /\ s.blob \in 0..n
    BY <1>0, <1>1, StatementKinds DEF Replayed
  <2>2. Replayed(s) \in Stmts(n)
    BY <2>1, StatementsAre
  <2>3. /\ Replayed(s).op = "unlogged" /\ Replayed(s).match = s.match
        /\ Replayed(s).blob = s.blob
    BY <2>1 DEF Unlogged
  <2>4. \A g \in GamesTo(n) : Effect(g, Replayed(s)) = Effect(g, s)
    BY <1>1, <2>3 DEF Effect
  <2> QED BY <2>2, <2>3, <2>4
<1>2. CASE s.op = "event"
  <2>1. PICK m : m = (CHOOSE k \in Matches : TRUE)
    OBVIOUS
  <2>2. m \in Matches
    BY <2>1, JournalAssumption
  <2>3. Replayed(s) = Unlogged(m, Same)
    BY <1>2, <2>1 DEF Replayed
  <2>4. Replayed(s) \in Stmts(n)
    BY <2>2, <2>3, StatementsAre
  <2>5. Replayed(s).op = "unlogged" /\ Replayed(s).match = m /\ Replayed(s).blob = Same
    BY <2>3 DEF Unlogged
  <2>6. ASSUME NEW g \in GamesTo(n) PROVE Effect(g, Replayed(s)) = Effect(g, s)
    <3>1. Effect(g, s) = g
      BY <1>2 DEF Effect
    <3>2. g \in [Matches -> {NoMatch} \cup [blob : 0..n, rows : 0..n]]
      BY DEF GamesTo
    <3>3. CASE g[m] = NoMatch
      BY <2>5, <3>1, <3>3 DEF Effect
    <3>4. CASE g[m] # NoMatch
      <4>1. Effect(g, Replayed(s)) = [g EXCEPT ![m] = [blob |-> g[m].blob, rows |-> g[m].rows]]
        BY <2>5, <3>4 DEF Effect
      <4>2. g[m] \in [blob : 0..n, rows : 0..n]
        BY <2>2, <3>2, <3>4
      <4>3. [blob |-> g[m].blob, rows |-> g[m].rows] = g[m]
        BY <4>2
      <4> QED BY <2>2, <3>1, <3>2, <4>1, <4>3
    <3> QED BY <3>3, <3>4
  <2> QED BY <2>4, <2>5, <2>6
<1>3. CASE s.op \notin {"patch", "event"}
  <2>1. Replayed(s) = s
    BY <1>3 DEF Replayed
  <2> QED BY <1>0, <1>3, <2>1
<1> QED BY <1>1, <1>2, <1>3

\* The statements that put a checkpoint's game back.
Deletes == LET old == SetToSeq(Existing(game)) IN [i \in 1..Len(old) |-> Delete(old[i])]

Inserts(g) ==
    LET new == SetToSeq(Existing(g))
    IN [i \in 1..Len(new) |-> Insert(new[i], g[new[i]].blob, g[new[i]].rows)]

Replays(rows) == [k \in 1..Len(rows) |-> Replayed(rows[k])]

LEMMA DeletesAre ==
    ASSUME NEW n \in Nat
    PROVE  /\ Deletes \in Seq(Stmts(n)) /\ SetToSeq(Existing(game)) \in Seq(Existing(game))
           /\ Len(Deletes) = Len(SetToSeq(Existing(game)))
           /\ \A i \in 1..Len(Deletes) :
                  Deletes[i] = Delete(SetToSeq(Existing(game))[i]) /\ Deletes[i].op = "delete"
           /\ \A m \in Existing(game) :
                  \E i \in 1..Len(Deletes) : SetToSeq(Existing(game))[i] = m
<1> DEFINE old == SetToSeq(Existing(game))
<1>1. Existing(game) \subseteq Matches /\ IsFiniteSet(Existing(game))
  BY FS_Subset, JournalAssumption DEF Existing
<1>2. old \in Seq(Existing(game)) /\ \A m \in Existing(game) : \E i \in 1..Len(old) : old[i] = m
  BY <1>1, Enumerates
<1>3. \A m \in Matches : Delete(m) \in Stmts(n) /\ Delete(m).op = "delete"
  BY StatementsAre DEF Delete
<1> HIDE DEF old
<1>4. Deletes = [i \in 1..Len(old) |-> Delete(old[i])]
  BY DEF Deletes, old
<1>5. /\ Deletes \in Seq(Stmts(n)) /\ Len(Deletes) = Len(old)
      /\ \A i \in 1..Len(Deletes) : Deletes[i] = Delete(old[i]) /\ Deletes[i].op = "delete"
  BY <1>1, <1>2, <1>3, <1>4
<1> QED BY <1>2, <1>5 DEF old

LEMMA InsertsAre ==
    ASSUME NEW n \in Nat, NEW g \in GamesTo(n)
    PROVE  /\ Inserts(g) \in Seq(Stmts(n)) /\ SetToSeq(Existing(g)) \in Seq(Existing(g))
           /\ Len(Inserts(g)) = Len(SetToSeq(Existing(g)))
           /\ \A i \in 1..Len(Inserts(g)) :
                  LET m == SetToSeq(Existing(g))[i]
                  IN /\ m \in Existing(g) /\ Inserts(g)[i] = Insert(m, g[m].blob, g[m].rows)
                     /\ Inserts(g)[i].op = "insert"
           /\ \A m \in Existing(g) :
                  \E i \in 1..Len(Inserts(g)) : SetToSeq(Existing(g))[i] = m
<1> DEFINE new == SetToSeq(Existing(g))
<1>1. Existing(g) \subseteq Matches /\ IsFiniteSet(Existing(g))
  BY FS_Subset, JournalAssumption DEF Existing
<1>2. new \in Seq(Existing(g)) /\ \A m \in Existing(g) : \E i \in 1..Len(new) : new[i] = m
  BY <1>1, Enumerates
<1>3. \A m \in Existing(g) : /\ Insert(m, g[m].blob, g[m].rows) \in Stmts(n)
                             /\ Insert(m, g[m].blob, g[m].rows).op = "insert"
  <2> SUFFICES ASSUME NEW m \in Existing(g)
               PROVE  /\ Insert(m, g[m].blob, g[m].rows) \in Stmts(n)
                      /\ Insert(m, g[m].blob, g[m].rows).op = "insert"
    OBVIOUS
  <2>1. m \in Matches /\ g[m] # NoMatch
    BY DEF Existing
  <2>2. g[m] \in [blob : 0..n, rows : 0..n]
    BY <2>1 DEF GamesTo
  <2>3. g[m].blob \in 0..n /\ g[m].rows \in 0..n
    BY <2>2
  <2> QED BY <2>1, <2>3, StatementsAre DEF Insert
<1> HIDE DEF new
<1>4. Inserts(g) = [i \in 1..Len(new) |-> Insert(new[i], g[new[i]].blob, g[new[i]].rows)]
  BY DEF Inserts, new
<1>5. \A i \in 1..Len(new) : new[i] \in Existing(g)
  BY <1>2
<1>6. \A i \in 1..Len(new) : /\ Insert(new[i], g[new[i]].blob, g[new[i]].rows) \in Stmts(n)
                             /\ Insert(new[i], g[new[i]].blob, g[new[i]].rows).op = "insert"
  BY <1>3, <1>5
<1>7. Inserts(g) \in Seq(Stmts(n)) /\ Len(Inserts(g)) = Len(new)
  BY <1>2, <1>4, <1>6
<1>8. \A i \in 1..Len(Inserts(g)) :
          /\ new[i] \in Existing(g)
          /\ Inserts(g)[i] = Insert(new[i], g[new[i]].blob, g[new[i]].rows)
          /\ Inserts(g)[i].op = "insert"
  BY <1>4, <1>5, <1>6, <1>7
<1> QED BY <1>2, <1>7, <1>8 DEF new

LEMMA ReplaysAre ==
    ASSUME NEW n \in Nat, NEW rows \in Seq(Said(n))
    PROVE  /\ Replays(rows) \in Seq(Stmts(n)) /\ Len(Replays(rows)) = Len(rows)
           /\ \A k \in 1..Len(rows) :
                  Replays(rows)[k] = Replayed(rows[k]) /\ Replays(rows)[k].op # "event"
<1>1. \A k \in 1..Len(rows) : Replayed(rows[k]) \in Stmts(n) /\ Replayed(rows[k]).op # "event"
  BY ReplayedIs
<1>2. Replays(rows) \in Seq(Stmts(n)) /\ Len(Replays(rows)) = Len(rows)
  BY <1>1 DEF Replays
<1> QED BY <1>1, <1>2 DEF Replays

\* A reconstruction: the deletes, the inserts, the rows.
LEMMA ReconstructingIs ==
    ASSUME JournalInv, NEW target \in 0..Top, Before(target) # {}, NEW n \in Nat, requests <= n
    PROVE  LET c == Nearest(target)
               rows == Between(c.id, target)
               a == Len(Deletes)
               b == Len(Inserts(c.game))
               ss == Reconstructing(target)
           IN /\ c.game \in GamesTo(n) /\ rows \in Seq(Said(n))
              /\ ss \in Seq(Stmts(n)) /\ a \in Nat /\ b \in Nat
              /\ Len(ss) = a + b + Len(rows)
              /\ \A i \in 1..a : ss[i] = Deletes[i]
              /\ \A i \in 1..b : ss[a + i] = Inserts(c.game)[i]
              /\ \A i \in 1..Len(rows) : ss[a + b + i] = Replayed(rows[i])
              /\ \A i \in 1..Len(ss) : ss[i].op # "event"
<1> DEFINE c == Nearest(target)
           rows == Between(c.id, target)
           A == Deletes
           B == Inserts(c.game)
           C == Replays(rows)
           S == Stmts(n)
           ss == Reconstructing(target)
<1>1. c \in checkpoints /\ c.id \in 0..target
  BY NearestIs
<1>2. /\ Begin \in Txs(n) /\ Begin.log = log /\ Top \in Nat /\ requests \in Nat
      /\ GamesTo(requests) \subseteq GamesTo(n)
  BY MoreValues DEF JournalInv, TypedInv, Begin, Txs, Top
<1>3. c.game \in GamesTo(n)
  BY <1>1, <1>2 DEF JournalInv, TypedInv
<1>4. log \in Seq(LogRows(n)) /\ target \in 0..Len(log)
  BY <1>2 DEF Txs, Top
<1> HIDE DEF c
<1>5. rows \in Seq(Said(n))
  BY <1>1, <1>4, BetweenIs
<1> HIDE DEF rows
<1>6. ss = (A \o B) \o C
  BY DEF Reconstructing, Restoring, Deletes, Inserts, Replays, c, rows
<1>7. /\ A \in Seq(S) /\ B \in Seq(S) /\ C \in Seq(S) /\ Len(C) = Len(rows)
      /\ \A i \in 1..Len(A) : A[i].op # "event"
      /\ \A i \in 1..Len(B) : B[i].op # "event"
      /\ \A i \in 1..Len(C) : C[i] = Replayed(rows[i]) /\ C[i].op # "event"
  <2>1. A \in Seq(S) /\ \A i \in 1..Len(A) : A[i].op # "event"
    BY DeletesAre
  <2>2. B \in Seq(S) /\ \A i \in 1..Len(B) : B[i].op # "event"
    BY <1>3, InsertsAre
  <2>3. /\ C \in Seq(S) /\ Len(C) = Len(rows)
        /\ \A i \in 1..Len(rows) : C[i] = Replayed(rows[i]) /\ C[i].op # "event"
    BY <1>5, ReplaysAre
  <2> HIDE DEF A, B, C, S
  <2> QED BY <2>1, <2>2, <2>3
<1> HIDE DEF A, B, C, S, ss
<1> DEFINE AB == A \o B
<1>8. /\ AB \in Seq(S) /\ Len(AB) = Len(A) + Len(B)
      /\ \A i \in 1..Len(A) : AB[i] = A[i]
      /\ \A i \in 1..Len(B) : AB[Len(A) + i] = B[i]
      /\ \A i \in 1..Len(AB) : i \in 1..Len(A)
                               \/ (i - Len(A) \in 1..Len(B) /\ i = Len(A) + (i - Len(A)))
  BY <1>7, After
<1>9. Len(A) \in Nat /\ Len(B) \in Nat /\ Len(C) \in Nat
  BY <1>7
<1> HIDE DEF AB
<1>10. /\ AB \o C \in Seq(S) /\ Len(AB \o C) = Len(AB) + Len(C)
       /\ \A i \in 1..Len(AB) : (AB \o C)[i] = AB[i]
       /\ \A i \in 1..Len(C) : (AB \o C)[Len(AB) + i] = C[i]
       /\ \A i \in 1..Len(AB \o C) :
              i \in 1..Len(AB) \/ (i - Len(AB) \in 1..Len(C) /\ i = Len(AB) + (i - Len(AB)))
  <2>1. AB \in Seq(S) /\ C \in Seq(S)
    BY <1>7, <1>8
  <2> QED BY <2>1, After
<1>11. ss = AB \o C
  BY <1>6 DEF AB
<1>12. ss \in Seq(S) /\ Len(ss) = Len(A) + Len(B) + Len(rows)
  BY <1>7, <1>8, <1>9, <1>10, <1>11
<1>13. ASSUME NEW i \in 1..Len(A) PROVE ss[i] = A[i]
  <2>1. i \in 1..Len(AB)
    BY <1>8, <1>9
  <2> QED BY <1>8, <1>10, <1>11, <2>1
<1>14. ASSUME NEW i \in 1..Len(B) PROVE ss[Len(A) + i] = B[i]
  <2>1. Len(A) + i \in 1..Len(AB)
    BY <1>8, <1>9
  <2> QED BY <1>8, <1>10, <1>11, <2>1
<1>15. ASSUME NEW i \in 1..Len(rows) PROVE ss[Len(A) + Len(B) + i] = Replayed(rows[i])
  BY <1>7, <1>8, <1>9, <1>10, <1>11
<1>16. ASSUME NEW i \in 1..Len(AB) PROVE AB[i].op # "event"
  BY <1>7, <1>8, <1>9
<1>17. ASSUME NEW i \in 1..Len(ss) PROVE ss[i].op # "event"
  BY <1>7, <1>8, <1>9, <1>10, <1>11, <1>16
<1> QED BY <1>3, <1>5, <1>9, <1>12, <1>13, <1>14, <1>15, <1>17 DEF c, rows, A, B, S, ss

LEMMA RevertKeeps ==
    ASSUME JournalInv, NEW target \in Offered, Revert(target)
    PROVE  JournalInv'
<1> DEFINE n == requests + 1
           r == requests + 1
           ss == Reconstructing(target)
           t == Perform(Begin, r, Append(ss, Event))
<1>1. /\ Before(target) # {} /\ Commit(t, 1)
      /\ checkpoints' = checkpoints \cup {[id |-> Len(t.log), game |-> t.game]}
  BY DEF Revert, Reverted
<1>2. target \in 0..Top
  BY OfferedIs
<1>3. n \in Nat /\ r \in 0..n /\ requests <= n /\ Begin \in Txs(n) /\ Sound(Begin)
      /\ Len(Begin.log) = Top /\ Top \in Nat
  <2>1. /\ requests \in Nat /\ requests + 1 \in Nat /\ Begin \in Txs(requests + 1)
        /\ Sound(Begin) /\ Len(Begin.log) = Top
    BY BeginIs
  <2>2. Top \in Nat
    <3>1. Begin.log \in Seq(LogRows(n))
      BY <2>1 DEF Txs
    <3> QED BY <2>1, <3>1
  <2> QED BY <2>1, <2>2
<1> HIDE DEF n, r
<1>4. ss \in Seq(Stmts(n)) /\ \A i \in 1..Len(ss) : ss[i].op # "event"
  BY <1>1, <1>2, <1>3, ReconstructingIs
<1> HIDE DEF ss
<1>5. Rewrites(Begin, t, n)
  BY <1>3, <1>4, PerformRewrites
<1> HIDE DEF t
<1>6. /\ t \in Txs(n) /\ Follows(Begin, t) /\ Sound(t) /\ Top < Len(t.log)
      /\ t.log[Len(t.log)].request = 0
      /\ \A i, j \in (Top + 1)..(Len(t.log) - 1) :
             t.log[i].request = t.log[j].request /\ t.log[i].seq = t.log[j].seq
  BY <1>3, <1>5 DEF Rewrites
<1>7. Len(t.log) \in Nat
  BY <1>6 DEF Txs
<1>8. ASSUME NEW i \in (Top + 1)..Len(t.log) PROVE Rewritten(t.log, checkpoints', i)
  <2>0. PICK a \in Nat, b \in Nat : a = Top /\ b = Len(t.log)
    BY <1>3, <1>7
  <2>a. i \in (a + 1)..b
    BY <1>8, <2>0
  <2>b. a < b
    BY <1>6, <2>0
  <2>1. a + 1 \in 1..b /\ b \in 1..b /\ a + 1 <= i /\ i <= b
    BY <2>0, <2>a, <2>b
  <2>2. \E c \in checkpoints' : c.id = b
    <3>1. [id |-> Len(t.log), game |-> t.game] \in checkpoints'
      BY <1>1
    <3>2. [id |-> Len(t.log), game |-> t.game].id = b
      BY <2>0
    <3> QED BY <3>1, <3>2
  <2>3. t.log[b].request = 0
    BY <1>6, <2>0
  <2>4. \A k, j \in (a + 1)..(b - 1) :
           t.log[k].request = t.log[j].request /\ t.log[k].seq = t.log[j].seq
    BY <1>6, <2>0
  <2>5. PICK l : l = t.log
    OBVIOUS
  <2>6. PICK cs : cs = checkpoints'
    OBVIOUS
  <2>7. Rewritten(l, cs, i)
    <3>1. /\ Len(l) = b /\ l[b].request = 0 /\ \E c \in cs : c.id = b
          /\ \A k, j \in (a + 1)..(b - 1) : l[k].request = l[j].request /\ l[k].seq = l[j].seq
      BY <2>0, <2>2, <2>3, <2>4, <2>5, <2>6
    <3> QED BY <2>1, <3>1 DEF Rewritten
  <2> QED BY <2>5, <2>6, <2>7
<1> QED BY <1>1, <1>6, <1>8, CommitKeeps DEF n


-----------------------------------------------------------------------------
\* The archiver, the start, the steps.

\* A fold takes the rows of the oldest revisions, never the newest.
LEMMA FoldKeeps ==
    ASSUME JournalInv, Fold
    PROVE  JournalInv'
<1>1. UNCHANGED <<game, log, rev, checkpoints, requests, was>>
  BY DEF Fold
<1>2. PICK through \in 1..log[Top].seq - KeepRecent :
          hot' = hot \ {i \in hot : log[i].seq <= through}
  BY DEF Fold
<1>3. /\ requests \in Nat /\ requests <= MaxRequests /\ Begin \in Txs(requests) /\ Sound(Begin)
      /\ hot \subseteq 1..Top /\ checkpoints \subseteq [id : 0..Top, game : GamesTo(requests)]
  BY DEF JournalInv, TypedInv
<1>4. \A i \in 1..Top : log[i].seq \in Nat
  <2>1. log \in Seq(LogRows(requests))
    BY <1>3 DEF Begin, Txs
  <2>2. \A i \in 1..Top : log[i] \in LogRows(requests)
    BY <2>1 DEF Top
  <2> QED BY <2>2 DEF LogRows
<1>5. Begin' = Begin /\ Top' = Top
  BY <1>1 DEF Begin, Top
<1>6. TypedInv'
  BY <1>1, <1>2, <1>3, <1>5 DEF TypedInv
<1>7. Top \in Nat
  BY <1>3 DEF Begin, Txs, Top
<1>8. ASSUME Top > 0 PROVE Top \in hot' /\ log[Top].seq = rev
  <2>1. Top \in 1..Top /\ Top \in hot /\ log[Top].seq = rev
    BY <1>7, <1>8 DEF JournalInv, HotInv
  <2>2. ~(log[Top].seq <= through)
    BY <1>2, <1>4, <2>1, JournalAssumption
  <2> QED BY <1>2, <2>1, <2>2
<1>9. ASSUME NEW i \in hot', NEW j \in 1..Top, log[i].seq <= log[j].seq PROVE j \in hot'
  <2>1. i \in hot /\ ~(log[i].seq <= through) /\ i \in 1..Top
    BY <1>2, <1>3, <1>9
  <2>2. j \in hot
    BY <1>9, <2>1 DEF JournalInv, HotInv
  <2>3. log[i].seq \in Nat /\ log[j].seq \in Nat
    BY <1>4, <2>1
  <2>4. Top \in 1..Top
    BY <1>7, <2>1
  <2>5. through \in Int
    BY <1>2, <1>4, <2>4, JournalAssumption
  <2>6. ~(log[j].seq <= through)
    BY <1>9, <2>1, <2>3, <2>5
  <2> QED BY <1>2, <2>2, <2>6
<1>10. HotInv'
  BY <1>1, <1>5, <1>8, <1>9 DEF HotInv, JournalInv
<1>11. CheckInv' /\ TellInv'
  BY <1>1, <1>5 DEF JournalInv, CheckInv, TellInv
<1> QED BY <1>6, <1>10, <1>11 DEF JournalInv

\* A new game's rows are events of other games, which change nothing here.
LEMMA JournalStarts == Init => JournalInv
<1> SUFFICES ASSUME Init PROVE JournalInv
  OBVIOUS
<1> USE DEF Init
<1>1. game \in GamesTo(0)
  <2>1. [blob |-> Empty, rows |-> Empty] \in [blob : 0..0, rows : 0..0]
    BY DEF Empty
  <2> QED BY <2>1 DEF GamesTo
<1>2. Legacy \in Nat /\ requests = 0 /\ rev = Legacy /\ 0 <= MaxRequests
  BY JournalAssumption
<1>3. log \in Seq(LogRows(0)) /\ Len(log) = Legacy /\ Top = Legacy
  <2>1. \A i \in 1..Legacy :
            [does |-> Event, seq |-> i, request |-> 0, unsaid |-> FALSE] \in LogRows(0)
    BY <1>2, StatementsAre DEF LogRows
  <2> QED BY <1>2, <2>1 DEF Top
<1>4. was \in Seq(GamesTo(0)) /\ Len(was) = Legacy + 1
      /\ \A i \in 1..(Legacy + 1) : was[i] = game
  BY <1>1, <1>2
<1>5. TypedInv
  <2>1. Begin \in Txs(requests)
    BY <1>1, <1>2, <1>3, <1>4 DEF Begin, Txs
  <2>2. Sound(Begin)
    BY <1>2, <1>3, <1>4 DEF Begin, Sound
  <2>3. checkpoints \subseteq [id : 0..Top, game : GamesTo(requests)]
    BY <1>1, <1>2, <1>3
  <2> QED BY <1>2, <1>3, <2>1, <2>2, <2>3 DEF TypedInv
<1>6. \A i \in 1..Top : log[i].seq = i /\ log[i].does = Event
  BY <1>3
<1>7. HotInv
  BY <1>2, <1>3, <1>6 DEF HotInv
<1>8. CheckInv
  BY <1>2, <1>4 DEF CheckInv
<1>9. ASSUME NEW i \in 1..Top PROVE Tells(log, was, i)
  <2>1. was[i] = game /\ was[i + 1] = game /\ log[i].does = Event
    BY <1>2, <1>3, <1>4, <1>6
  <2>2. Effect(game, Event) = game
    BY DEF Effect, Event
  <2> QED BY <2>1, <2>2 DEF Tells
<1> QED BY <1>5, <1>7, <1>8, <1>9 DEF JournalInv, TellInv

LEMMA JournalSteps == JournalInv /\ [Next]_vars => JournalInv'
<1> SUFFICES ASSUME JournalInv, [Next]_vars PROVE JournalInv'
  OBVIOUS
<1>1. ASSUME NEW m \in Matches, Window(<<m>>) PROVE JournalInv'
  <2>1. <<m>> \in Seq(Matches) /\ Len(<<m>>) \in {1, 2}
    OBVIOUS
  <2> QED BY <1>1, <2>1, WindowKeeps
<1>2. ASSUME NEW m \in Matches, NEW n \in Matches, Window(<<m, n>>) PROVE JournalInv'
  <2>1. <<m, n>> \in Seq(Matches) /\ Len(<<m, n>>) \in {1, 2}
    OBVIOUS
  <2> QED BY <1>2, <2>1, WindowKeeps
<1>3. ASSUME NEW scheme \in SUBSET Matches \ {{}}, NEW begun \in SUBSET Matches,
             NEW grown \in SUBSET Matches, Recompile(scheme, begun, grown)
      PROVE  JournalInv'
  BY <1>3, RecompileKeeps
<1>4. CASE Clear
  BY <1>4, ClearKeeps
<1>5. CASE Elsewhere
  BY <1>5, ElsewhereKeeps
<1>6. ASSUME NEW target \in Offered, Revert(target) PROVE JournalInv'
  BY <1>6, RevertKeeps
<1>7. CASE Fold
  BY <1>7, FoldKeeps
<1>8. CASE UNCHANGED vars
  <2>1. UNCHANGED <<game, log, hot, rev, checkpoints, requests, was>>
    BY <1>8 DEF vars
  <2>2. Begin' = Begin /\ Top' = Top
    BY <2>1 DEF Begin, Top
  <2> QED BY <2>1, <2>2 DEF JournalInv, TypedInv, HotInv, CheckInv, TellInv
<1> QED BY <1>1, <1>2, <1>3, <1>4, <1>5, <1>6, <1>7, <1>8 DEF Next

\* The invariant holds: writes add rows that tell, reverts theirs and a checkpoint,
\* folds only take from hot.
LEMMA JournalHolds == Spec => []JournalInv
BY JournalStarts, JournalSteps, PTL DEF Spec

\* What the journal, its checkpoints and the game hold stays within its type, each id
\* remembers its game, and the newest row is never folded (journal.go, archive.go).
THEOREM JournalTyped == Spec => []TypeOK
<1>1. JournalInv => TypeOK
  <2> SUFFICES ASSUME JournalInv PROVE TypeOK
    OBVIOUS
  <2>1. /\ requests \in Nat /\ requests <= MaxRequests /\ MaxRequests \in Nat
        /\ Begin \in Txs(requests) /\ Sound(Begin)
        /\ hot \subseteq 1..Top /\ checkpoints \subseteq [id : 0..Top, game : GamesTo(requests)]
    BY JournalAssumption DEF JournalInv, TypedInv
  <2>2. Begin \in Txs(MaxRequests) /\ GamesTo(requests) \subseteq GamesTo(MaxRequests)
    BY <2>1, MoreValues
  <2>3. GamesTo(MaxRequests) = Games
    BY DEF GamesTo, Games, Values
  <2>4. /\ game \in Games /\ rev \in Nat /\ log \in Seq(LogRows(MaxRequests))
        /\ was \in Seq(Games) /\ Len(was) = Top + 1
    BY <2>1, <2>2, <2>3 DEF Begin, Txs, Sound, Top
  <2>5. checkpoints \subseteq [id : 0..Top, game : Games]
    BY <2>1, <2>2, <2>3
  <2>6. LogRows(MaxRequests) \subseteq Rows
    <3> SUFFICES Said(MaxRequests) \subseteq
              [op : {"insert", "update", "delete", "patch", "event"},
               match : Matches \cup {NoMatch}, blob : Values \cup {Same}, rows : Values]
      BY DEF LogRows, Rows, Values
    <3> QED BY <2>1 DEF Said, Event, Values, Empty
  <2> DEFINE L == LogRows(MaxRequests)
             R == Rows
  <2>7. log \in Seq(R)
    <3>1. L \subseteq R /\ log \in Seq(L)
      BY <2>4, <2>6
    <3> HIDE DEF L, R
    <3> QED BY <3>1
  <2>8. requests \in Values
    BY <2>1 DEF Values
  <2>9. Top > 0 => Top \in hot
    BY DEF JournalInv, HotInv
  <2> QED BY <2>1, <2>4, <2>5, <2>7, <2>8, <2>9 DEF TypeOK
<1> QED BY <1>1, JournalHolds, PTL


-----------------------------------------------------------------------------
\* A revert restores what was.

LEMMA EffectHere ==
    ASSUME NEW n \in Nat, NEW g \in GamesTo(n), NEW m \in Matches
    PROVE  /\ Effect(g, Delete(m))[m] = NoMatch
           /\ \A b, r : Effect(g, Insert(m, b, r))[m] = [blob |-> b, rows |-> r]
<1>1. g \in [Matches -> {NoMatch} \cup [blob : 0..n, rows : 0..n]]
  BY DEF GamesTo
<1>2. \A v : [g EXCEPT ![m] = v][m] = v
  BY <1>1
<1>3. Effect(g, Delete(m)) = [g EXCEPT ![m] = NoMatch]
  BY DEF Effect, Delete
<1>4. \A b, r : Effect(g, Insert(m, b, r)) = [g EXCEPT ![m] = [blob |-> b, rows |-> r]]
  BY DEF Effect, Insert
<1> QED BY <1>2, <1>3, <1>4

LEMMA ExecGame ==
    ASSUME NEW n \in Nat, NEW t \in Txs(n), NEW s \in Stmts(n), NEW r \in 0..n
    PROVE  Exec(t, s, r).game = Effect(t.game, s)
BY ExecIs

\* The statements us are those of ss after the first k.
Runs(ss, k, us) == k + Len(us) <= Len(ss) /\ \A i \in 1..Len(us) : ss[k + i] = us[i]

Emptied(g) == \A m \in Matches : g[m] = NoMatch

\* Every row after id, up to the target's, says what it did.
Told(id, target) == \A i \in (id + 1)..target : was[i + 1] = Effect(was[i], log[i].does)

\* Replaying them.
Retold(id, target) == [k \in 1..(target - id) |-> Replayed(log[id + k].does)]

\* The deletes leave no match.
LEMMA DeletesClear ==
    ASSUME NEW n \in Nat, NEW t \in Txs(n), t.game = game, NEW ss \in Seq(Stmts(n)),
           NEW r \in 0..n, NEW w, Performs(w, t, r, ss, n), Runs(ss, 0, Deletes)
    PROVE  Emptied(w[Len(Deletes)].game)
<1>0. PICK a \in Nat : a = Len(Deletes)
  <2>1. Deletes \in Seq(Stmts(n))
    BY DeletesAre
  <2> QED BY <2>1
<1>a. a \in 0..Len(ss) /\ \A i \in 1..a : ss[i] = Deletes[i]
  <2>1. Deletes \in Seq(Stmts(n))
    BY DeletesAre
  <2>2. Len(Deletes) \in Nat /\ Len(ss) \in Nat
    BY <2>1
  <2>3. \A i \in 1..a : ss[0 + i] = Deletes[i] /\ 0 + i = i
    BY <1>0, <2>2 DEF Runs
  <2> QED BY <1>0, <2>2, <2>3 DEF Runs
<1> DEFINE old == SetToSeq(Existing(game))
           N == {k \in Nat : k <= a =>
                    /\ \A i \in 1..k : w[k].game[old[i]] = NoMatch
                    /\ \A m \in Matches : game[m] = NoMatch => w[k].game[m] = NoMatch}
<1>1. /\ w \in [0..Len(ss) -> Txs(n)] /\ w[0] = t
      /\ \A k \in 1..Len(ss) : w[k] = Exec(w[k - 1], ss[k], r)
  BY DEF Performs
<1>2. /\ \A i \in 1..a : ss[i] = Delete(old[i]) /\ ss[i] \in Stmts(n) /\ old[i] \in Matches
      /\ \A m \in Existing(game) : \E i \in 1..a : old[i] = m
  <2>1. /\ Deletes \in Seq(Stmts(n)) /\ old \in Seq(Existing(game)) /\ a = Len(old)
        /\ \A i \in 1..a : Deletes[i] = Delete(old[i])
        /\ \A m \in Existing(game) : \E i \in 1..a : old[i] = m
    BY <1>0, <1>a, DeletesAre
  <2> HIDE DEF old
  <2>2. ASSUME NEW i \in 1..a PROVE old[i] \in Matches /\ Deletes[i] \in Stmts(n)
    <3>1. old[i] \in Existing(game)
      BY <2>1
    <3>2. Existing(game) \subseteq Matches
      BY DEF Existing
    <3>3. i \in 1..Len(Deletes)
      BY <1>0
    <3>4. Deletes[i] \in Stmts(n)
      BY <2>1, <3>3
    <3> QED BY <3>1, <3>2, <3>4
  <2>3. \A i \in 1..a : ss[i] = Deletes[i]
    BY <1>a
  <2> QED BY <2>1, <2>2, <2>3
<1> HIDE DEF old
<1>3. 0 \in N
  BY <1>0, <1>1
<1>4. ASSUME NEW k \in Nat, k \in N PROVE k + 1 \in N
  <2> SUFFICES ASSUME k + 1 <= a
               PROVE  /\ \A i \in 1..(k + 1) : w[k + 1].game[old[i]] = NoMatch
                      /\ \A m \in Matches : game[m] = NoMatch => w[k + 1].game[m] = NoMatch
    OBVIOUS
  <2>1. /\ k + 1 \in 1..a /\ k + 1 \in 1..Len(ss) /\ (k + 1) - 1 = k /\ k \in 0..Len(ss)
        /\ \A i \in 1..k : w[k].game[old[i]] = NoMatch
        /\ \A m \in Matches : game[m] = NoMatch => w[k].game[m] = NoMatch
    BY <1>4, <1>a
  <2>a. w[k] \in Txs(n) /\ w[k + 1] = Exec(w[k], ss[k + 1], r)
    BY <1>1, <2>1
  <2>b. ss[k + 1] = Delete(old[k + 1]) /\ ss[k + 1] \in Stmts(n) /\ old[k + 1] \in Matches
    BY <1>2, <2>1
  <2>c. w[k].game \in GamesTo(n)
    BY <2>a DEF Txs
  <2>2. w[k] \in Txs(n) /\ w[k].game \in GamesTo(n) /\ w[k + 1] = Exec(w[k], ss[k + 1], r)
        /\ ss[k + 1] = Delete(old[k + 1]) /\ ss[k + 1] \in Stmts(n) /\ old[k + 1] \in Matches
    BY <2>a, <2>b, <2>c
  <2>3. w[k + 1].game = Effect(w[k].game, ss[k + 1])
    BY <2>2, ExecGame
  <2>4. w[k + 1].game[old[k + 1]] = NoMatch
    BY <2>2, <2>3, EffectHere
  <2>5. ASSUME NEW m \in Matches, w[k].game[m] = NoMatch PROVE w[k + 1].game[m] = NoMatch
    <3>1. CASE m = old[k + 1]
      BY <2>4, <3>1
    <3>2. CASE m # old[k + 1]
      <4>1. ss[k + 1].match # m
        BY <2>2, <3>2 DEF Delete
      <4> QED BY <2>2, <2>3, <2>5, <4>1, EffectElsewhere
    <3> QED BY <3>1, <3>2
  <2>6. ASSUME NEW i \in 1..(k + 1) PROVE w[k + 1].game[old[i]] = NoMatch
    <3>1. CASE i = k + 1
      BY <2>4, <3>1
    <3>2. CASE i # k + 1
      <4>1. i \in 1..k /\ i \in 1..a
        BY <2>1, <3>2
      <4> QED BY <1>2, <2>1, <2>5, <4>1
    <3> QED BY <3>1, <3>2
  <2> QED BY <2>1, <2>5, <2>6
<1> HIDE DEF N
<1>n. \A k \in Nat : k \in N
  BY <1>3, <1>4, SetInduction
<1>5. a \in N
  BY <1>a, <1>n
<1>6. /\ \A i \in 1..a : w[a].game[old[i]] = NoMatch
      /\ \A m \in Matches : game[m] = NoMatch => w[a].game[m] = NoMatch
  BY <1>5 DEF N
<1> QED BY <1>0, <1>2, <1>6 DEF Existing, Emptied

\* The inserts make the checkpoint's game of none.
LEMMA InsertsRestore ==
    ASSUME NEW n \in Nat, NEW t \in Txs(n), NEW ss \in Seq(Stmts(n)), NEW g \in GamesTo(n),
           NEW r \in 0..n, NEW w, Performs(w, t, r, ss, n), NEW a \in Nat,
           Emptied(w[a].game), Runs(ss, a, Inserts(g))
    PROVE  w[a + Len(Inserts(g))].game = g
<1>0. PICK b \in Nat : b = Len(Inserts(g))
  <2>1. Inserts(g) \in Seq(Stmts(n))
    BY InsertsAre
  <2> QED BY <2>1
<1>a. b \in Nat /\ a + b <= Len(ss) /\ \A i \in 1..b : ss[a + i] = Inserts(g)[i]
  <2>1. Inserts(g) \in Seq(Stmts(n))
    BY InsertsAre
  <2> QED BY <1>0, <2>1 DEF Runs
<1> DEFINE new == SetToSeq(Existing(g))
           N == {k \in Nat : k <= b =>
                    /\ \A i \in 1..k : w[a + k].game[new[i]] = g[new[i]]
                    /\ \A m \in Matches : g[m] = NoMatch => w[a + k].game[m] = NoMatch}
<1>1. /\ w \in [0..Len(ss) -> Txs(n)] /\ \A k \in 1..Len(ss) : w[k] = Exec(w[k - 1], ss[k], r)
  BY DEF Performs
<1>2. /\ \A i \in 1..b : /\ ss[a + i] = Insert(new[i], g[new[i]].blob, g[new[i]].rows)
                         /\ ss[a + i] \in Stmts(n) /\ new[i] \in Matches
                         /\ g[new[i]] # NoMatch
      /\ \A m \in Existing(g) : \E i \in 1..b : new[i] = m
  <2>1. /\ Inserts(g) \in Seq(Stmts(n))
        /\ \A i \in 1..b : LET m == new[i]
                           IN m \in Existing(g) /\ Inserts(g)[i] = Insert(m, g[m].blob, g[m].rows)
        /\ \A m \in Existing(g) : \E i \in 1..b : new[i] = m
    BY <1>0, InsertsAre
  <2> HIDE DEF new
  <2>2. \A i \in 1..b : Inserts(g)[i] \in Stmts(n)
    BY <1>0, <2>1
  <2>3. \A m \in Existing(g) : m \in Matches /\ g[m] # NoMatch
    BY DEF Existing
  <2> QED BY <1>a, <2>1, <2>2, <2>3
<1>3. \A m \in Matches : g[m] # NoMatch => [blob |-> g[m].blob, rows |-> g[m].rows] = g[m]
  BY DEF GamesTo
<1> HIDE DEF new
<1>4. 0 \in N
  BY DEF Emptied
<1>5. ASSUME NEW k \in Nat, k \in N PROVE k + 1 \in N
  <2> SUFFICES ASSUME k + 1 <= b
               PROVE  /\ \A i \in 1..(k + 1) : w[a + (k + 1)].game[new[i]] = g[new[i]]
                      /\ \A m \in Matches : g[m] = NoMatch => w[a + (k + 1)].game[m] = NoMatch
    OBVIOUS
  <2>0. PICK p \in Nat : p = a + k
    OBVIOUS
  <2>1. /\ k + 1 \in 1..b /\ p + 1 \in 1..Len(ss) /\ (p + 1) - 1 = p /\ p \in 0..Len(ss)
        /\ a + (k + 1) = p + 1
    BY <1>a, <2>0
  <2>2. /\ \A i \in 1..k : w[p].game[new[i]] = g[new[i]]
        /\ \A m \in Matches : g[m] = NoMatch => w[p].game[m] = NoMatch
    BY <1>5, <2>0
  <2> DEFINE here == new[k + 1]
  <2>a. w[p] \in Txs(n) /\ w[p + 1] = Exec(w[p], ss[p + 1], r)
    BY <1>1, <2>1
  <2>b. ss[a + (k + 1)] = Insert(here, g[here].blob, g[here].rows)
        /\ ss[a + (k + 1)] \in Stmts(n) /\ here \in Matches /\ g[here] # NoMatch
    BY <1>2, <2>1
  <2>c. w[p].game \in GamesTo(n)
    BY <2>a DEF Txs
  <2>3. w[p] \in Txs(n) /\ w[p].game \in GamesTo(n) /\ w[p + 1] = Exec(w[p], ss[p + 1], r)
        /\ ss[p + 1] = Insert(here, g[here].blob, g[here].rows) /\ ss[p + 1] \in Stmts(n)
        /\ here \in Matches /\ g[here] # NoMatch
    BY <2>1, <2>a, <2>b, <2>c
  <2>4. w[p + 1].game = Effect(w[p].game, ss[p + 1])
    BY <2>3, ExecGame
  <2> HIDE DEF here
  <2>d. w[p + 1].game[here] = [blob |-> g[here].blob, rows |-> g[here].rows]
    <3>1. \A b1, r1 : Effect(w[p].game, Insert(here, b1, r1))[here] = [blob |-> b1, rows |-> r1]
      BY <2>3, EffectHere
    <3> QED BY <2>3, <2>4, <3>1
  <2>5. w[p + 1].game[here] = g[here]
    BY <1>3, <2>3, <2>d
  <2>6. ASSUME NEW m \in Matches, m # here PROVE w[p + 1].game[m] = w[p].game[m]
    <3>1. ss[p + 1].match # m
      BY <2>3, <2>6 DEF Insert
    <3> QED BY <2>3, <2>4, <3>1, EffectElsewhere
  <2>7. ASSUME NEW i \in 1..(k + 1) PROVE w[p + 1].game[new[i]] = g[new[i]]
    <3>1. CASE new[i] = here
      BY <2>5, <3>1
    <3>2. CASE new[i] # here
      <4>1. i \in 1..k /\ i \in 1..b
        BY <2>1, <3>2 DEF here
      <4> QED BY <1>2, <2>2, <2>6, <3>2, <4>1
    <3> QED BY <3>1, <3>2
  <2>8. ASSUME NEW m \in Matches, g[m] = NoMatch PROVE w[p + 1].game[m] = NoMatch
    BY <2>2, <2>3, <2>6, <2>8
  <2> QED BY <2>1, <2>7, <2>8
<1> HIDE DEF N
<1>6. b \in N
  BY <1>4, <1>5, <1>a, SetInduction
<1>7. /\ \A i \in 1..b : w[a + b].game[new[i]] = g[new[i]]
      /\ \A m \in Matches : g[m] = NoMatch => w[a + b].game[m] = NoMatch
  BY <1>6 DEF N
<1>8. ASSUME NEW m \in Matches PROVE w[a + b].game[m] = g[m]
  <2>1. CASE g[m] = NoMatch
    BY <1>7, <2>1
  <2>2. CASE g[m] # NoMatch
    <3>1. PICK i \in 1..b : new[i] = m
      BY <1>2, <2>2 DEF Existing
    <3> QED BY <1>7, <3>1
  <2> QED BY <2>1, <2>2
<1>9. w[a + b].game \in GamesTo(n)
  <2>1. a + b \in 0..Len(ss)
    BY <1>a
  <2>2. w[a + b] \in Txs(n)
    BY <1>1, <2>1
  <2> QED BY <2>2 DEF Txs
<1>10. PICK h : h = w[a + b].game
  OBVIOUS
<1>11. h = g
  <2>1. \A m \in Matches : h[m] = g[m]
    BY <1>8, <1>10
  <2>2. h \in GamesTo(n)
    BY <1>9, <1>10
  <2> QED BY <2>1, <2>2 DEF GamesTo
<1> QED BY <1>0, <1>10, <1>11


\* w is the walk of a transaction of requests so far.
Walks(w, t, r, ss, n) ==
    /\ n \in Nat /\ requests <= n /\ r \in 0..n /\ ss \in Seq(Stmts(n))
    /\ Performs(w, t, r, ss, n)

\* After its first q statements a transaction is at what id left, and up to z it
\* replays the rows from there to the target's.
Replaying(w, ss, q, z, id, target) ==
    /\ q \in Nat /\ z = q + (target - id) /\ z <= Len(ss)
    /\ target \in 0..Top /\ id \in 0..target
    /\ w[q].game = was[id + 1] /\ Runs(ss, q, Retold(id, target)) /\ Told(id, target)

\* The rows after the checkpoint, replayed, make the game each of them left.
LEMMA ReplaysRestore ==
    ASSUME JournalInv, NEW n, NEW r, NEW t, NEW ss, NEW w, Walks(w, t, r, ss, n),
           NEW from, NEW z, NEW start, NEW end, Replaying(w, ss, from, z, start, end)
    PROVE  w[z].game = was[end + 1]
<1>w. /\ n \in Nat /\ requests <= n /\ r \in 0..n /\ ss \in Seq(Stmts(n))
      /\ Performs(w, t, r, ss, n)
  BY DEF Walks
<1>t. PICK q \in Nat, target \in 0..Top : q = from /\ target = end
  BY DEF Replaying
<1>i. PICK id \in 0..target : id = start
  BY <1>t DEF Replaying
<1>q. w[q].game = was[id + 1] /\ Runs(ss, q, Retold(id, target)) /\ Told(id, target)
  BY <1>t, <1>i DEF Replaying
<1>z. z = q + (target - id) /\ q + (target - id) <= Len(ss)
  BY <1>t, <1>i DEF Replaying
<1>n. Top \in Nat
  BY <1>w DEF JournalInv, TypedInv, Begin, Txs, Top
<1> USE <1>w
<1>a. /\ target - id \in Nat /\ q + (target - id) <= Len(ss)
      /\ \A k \in 1..(target - id) : ss[q + k] = Replayed(log[id + k].does)
  <2>1. PICK d \in Nat : d = target - id
    BY <1>n
  <2>2. Len([k \in 1..d |-> Replayed(log[id + k].does)]) = d
    OBVIOUS
  <2>3. Runs(ss, q, [k \in 1..d |-> Replayed(log[id + k].does)])
    BY <1>q, <2>1 DEF Retold
  <2> QED BY <1>z, <2>1, <2>2, <2>3 DEF Runs
<1>1. /\ w \in [0..Len(ss) -> Txs(n)] /\ \A k \in 1..Len(ss) : w[k] = Exec(w[k - 1], ss[k], r)
  BY DEF Performs
<1>2. Begin \in Txs(n) /\ requests \in Nat /\ Top \in Nat
  <2>1. Begin \in Txs(requests) /\ requests \in Nat /\ Top \in Nat
    BY DEF JournalInv, TypedInv, Begin, Txs, Top
  <2> QED BY <2>1, MoreValues
<1>3. \A i \in 1..Top : log[i].does \in Said(n)
  <2>1. \A i \in 1..Top : log[i] \in LogRows(n)
    BY <1>2 DEF Begin, Txs, Top
  <2> QED BY <2>1 DEF LogRows
<1> DEFINE N == {k \in Nat : k <= target - id => w[q + k].game = was[id + k + 1]}
<1>4. 0 \in N
  <2>1. q + 0 = q /\ id + 0 + 1 = id + 1
    OBVIOUS
  <2> QED BY <1>q, <2>1
<1>5. ASSUME NEW k \in Nat, k \in N PROVE k + 1 \in N
  <2> SUFFICES ASSUME k + 1 <= target - id PROVE w[q + (k + 1)].game = was[id + (k + 1) + 1]
    OBVIOUS
  <2>0. PICK p \in Nat, i \in Nat : p = q + k /\ i = id + k + 1
    <3>1. q + k \in Nat /\ id + k + 1 \in Nat
      OBVIOUS
    <3> QED BY <3>1
  <2>1. /\ k + 1 \in 1..(target - id) /\ p + 1 \in 1..Len(ss) /\ (p + 1) - 1 = p
        /\ p \in 0..Len(ss) /\ q + (k + 1) = p + 1 /\ i \in (id + 1)..target /\ i \in 1..Top
        /\ id + (k + 1) = i
    <3>1. PICK l \in Nat, top \in Nat : l = Len(ss) /\ top = Top
      BY <1>2
    <3>2. q + (target - id) <= l /\ target \in 0..top /\ id \in 0..target
      BY <1>a, <3>1
    <3>3. /\ k + 1 \in 1..(target - id) /\ p + 1 \in 1..l /\ (p + 1) - 1 = p /\ p \in 0..l
          /\ q + (k + 1) = p + 1 /\ i \in (id + 1)..target /\ i \in 1..top /\ id + (k + 1) = i
      BY <2>0, <3>2
    <3> QED BY <3>1, <3>3
  <2>2. w[p].game = was[i]
    <3>1. k <= target - id
      BY <2>1
    <3> QED BY <1>5, <2>0, <3>1
  <2>c. ss[p + 1] \in Stmts(n)
    BY <2>1
  <2>a. w[p] \in Txs(n) /\ ss[p + 1] \in Stmts(n)
    BY <1>1, <2>1, <2>c
  <2>b. w[p + 1] = Exec(w[p], ss[p + 1], r)
    <3>1. w[p + 1] = Exec(w[(p + 1) - 1], ss[p + 1], r)
      BY <1>1, <2>1
    <3> QED BY <2>1, <3>1
  <2>3. w[p] \in Txs(n) /\ w[p + 1] = Exec(w[p], ss[p + 1], r) /\ ss[p + 1] \in Stmts(n)
    BY <2>a, <2>b
  <2>4. w[p].game \in GamesTo(n)
    BY <2>3 DEF Txs
  <2>5. ss[p + 1] = Replayed(log[i].does) /\ log[i].does \in Said(n)
    <3>1. ss[q + (k + 1)] = Replayed(log[id + (k + 1)].does)
      BY <1>a, <2>1
    <3> QED BY <1>3, <2>1, <3>1
  <2>6. w[p + 1].game = Effect(w[p].game, ss[p + 1])
    BY <2>3, ExecGame
  <2>7. Effect(w[p].game, ss[p + 1]) = Effect(w[p].game, log[i].does)
    BY <2>4, <2>5, ReplayedIs
  <2>8. was[i + 1] = Effect(was[i], log[i].does)
    BY <1>q, <2>1 DEF Told
  <2> QED BY <2>1, <2>2, <2>6, <2>7, <2>8
<1> HIDE DEF N
<1>6. \A k \in Nat : k \in N
  BY <1>4, <1>5, SetInduction
<1>7. target - id \in Nat /\ target - id \in N
  BY <1>2, <1>6
<1>8. w[q + (target - id)].game = was[id + (target - id) + 1]
  BY <1>7 DEF N
<1>9. id + (target - id) = target
  BY <1>2
<1> QED BY <1>t, <1>z, <1>8, <1>9

\* No row between the checkpoint and an offered target is of a revert's rewriting:
\* that one ends with a checkpoint, at or before the target a newer one, after it one
\* of the target's own request.
LEMMA TellsBetween ==
    ASSUME JournalInv, NEW target \in Offered, Before(target) # {}, ~Folded(target),
           ~Silent(target), NEW i \in (Nearest(target).id + 1)..target
    PROVE  was[i + 1] = Effect(was[i], log[i].does)
<1>1. PICK r \in 1..requests :
          /\ log[target + 1].request = r
          /\ target \in 1..Top /\ log[target].request = r =>
                 (target + 1 \in hot /\ target \notin hot)
  BY OfferedIs
<1>2. target \in 0..Top /\ target + 1 \in 1..Top
  BY OfferedIs
<1>3. /\ Nearest(target).id \in 0..target
      /\ \A d \in checkpoints : d.id <= target => d.id <= Nearest(target).id
  BY <1>2, NearestIs
<1>4. Top \in Nat /\ Top = Len(log) /\ requests \in Nat
  BY DEF JournalInv, TypedInv, Begin, Txs, Top
<1>5. target \in Nat /\ Nearest(target).id \in Nat
  BY <1>2, <1>3, <1>4
<1>6. i \in 1..Top /\ target \in 1..Top /\ i <= target /\ ~(i <= Nearest(target).id)
      /\ target \in (Nearest(target).id + 1)..target
  BY <1>2, <1>3, <1>4, <1>5
<1>7. target \in hot
  BY <1>6 DEF Folded
<1>8. ~log[i].unsaid
  BY DEF Silent
<1>9. ~Rewritten(log, checkpoints, i)
  <2> SUFFICES ASSUME NEW a \in 1..Top, NEW b \in 1..Top, NEW c \in checkpoints,
                      a <= i, i <= b, log[b].request = 0, c.id = b,
                      \A j, k \in a..(b - 1) :
                          log[j].request = log[k].request /\ log[j].seq = log[k].seq
               PROVE  FALSE
    BY <1>4 DEF Rewritten
  <2>1. ~(b <= target)
    <3>1. b <= target => b <= Nearest(target).id
      BY <1>3
    <3> QED BY <1>5, <1>6, <3>1
  <2>2. target + 1 # b
    BY <1>1, <1>4
  <2>3. target \in a..(b - 1) /\ target + 1 \in a..(b - 1)
    BY <1>5, <1>6, <2>1, <2>2
  <2>4. log[target].request = log[target + 1].request
    BY <2>3
  <2> QED BY <1>1, <1>6, <1>7, <2>4
<1> QED BY <1>6, <1>8, <1>9 DEF JournalInv, TellInv, Tells

\* The statements of a revert make the game as it was at its target, in any
\* transaction that starts with them.
LEMMA RevertUndoes ==
    ASSUME JournalInv, NEW target \in Offered, Before(target) # {}, ~Folded(target),
           ~Silent(target), NEW n \in Nat, requests <= n, NEW r \in 0..n,
           NEW t \in Txs(n), t.game = game, NEW us \in Seq(Stmts(n)),
           NEW w, Performs(w, t, r, us, n), Runs(us, 0, Reconstructing(target))
    PROVE  w[Len(Reconstructing(target))].game = was[target + 1]
<1> DEFINE c == Nearest(target)
           rows == Between(c.id, target)
           ss == Reconstructing(target)
           a == Len(Deletes)
           b == Len(Inserts(c.game))
<1>1. target \in 0..Top /\ target + 1 \in 1..Top
  BY OfferedIs
<1>2. c \in checkpoints /\ c.id \in 0..target
  BY <1>1, NearestIs
<1>3. Begin \in Txs(n) /\ Top \in Nat /\ Top = Len(log) /\ log \in Seq(LogRows(n))
  <2>1. Begin \in Txs(requests) /\ requests \in Nat /\ Top \in Nat /\ Top = Len(log)
    BY DEF JournalInv, TypedInv, Begin, Txs, Top
  <2>2. Begin \in Txs(n)
    BY <2>1, MoreValues
  <2> QED BY <2>1, <2>2 DEF Begin, Txs
<1>5. /\ c.game \in GamesTo(n) /\ ss \in Seq(Stmts(n)) /\ a \in Nat /\ b \in Nat
      /\ Len(ss) = a + b + Len(rows)
      /\ \A i \in 1..a : ss[i] = Deletes[i]
      /\ \A i \in 1..b : ss[a + i] = Inserts(c.game)[i]
      /\ \A i \in 1..Len(rows) : ss[a + b + i] = Replayed(rows[i])
  BY <1>1, ReconstructingIs
<1>6. was[c.id + 1] = c.game
  BY <1>2 DEF JournalInv, CheckInv
<1>7. Told(c.id, target)
  BY TellsBetween DEF Told
<1>8. (c.id + 1)..target \subseteq hot
  BY DEF Folded
<1> HIDE DEF c
<1>9. rows = [k \in 1..(target - c.id) |-> log[c.id + k].does]
  BY <1>1, <1>2, <1>3, <1>8, BetweenIs
<1> HIDE DEF rows
<1>10. Len(rows) = target - c.id
       /\ \A k \in 1..(target - c.id) : rows[k] = log[c.id + k].does
  BY <1>1, <1>2, <1>3, <1>9
<1>11. Len(ss) <= Len(us) /\ \A i \in 1..Len(ss) : us[i] = ss[i]
  <2>1. PICK l \in Nat, u \in Nat : l = Len(ss) /\ u = Len(us)
    BY <1>5
  <2>2. 0 + l <= u /\ \A i \in 1..l : us[0 + i] = ss[i] /\ 0 + i = i
    BY <2>1 DEF Runs
  <2> QED BY <2>1, <2>2
<1> HIDE DEF ss, a, b
<1>12. /\ (a + b) + (target - c.id) = Len(ss) /\ a + b \in Nat
       /\ (a + b) + (target - c.id) <= Len(us) /\ a <= Len(us) /\ a + b <= Len(us)
  <2>1. PICK i \in Nat, d \in Nat : i = c.id /\ d = target - i
    BY <1>1, <1>2
  <2>2. Len(rows) = d
    BY <1>10, <2>1
  <2>3. a \in Nat /\ b \in Nat /\ Len(ss) = a + b + d
    BY <1>5, <2>2
  <2>4. PICK u \in Nat : u = Len(us)
    OBVIOUS
  <2>5. Len(ss) <= u
    BY <1>11, <2>4
  <2> QED BY <2>1, <2>3, <2>4, <2>5
<1>a. a = Len(Deletes) /\ b = Len(Inserts(c.game))
  BY DEF a, b
<1>b. Runs(us, 0, Deletes) /\ Runs(us, a, Inserts(c.game))
  <2>0. a \in Nat /\ b \in Nat /\ Len(ss) = a + b + Len(rows) /\ Len(rows) \in Nat
    BY <1>1, <1>2, <1>5, <1>10
  <2>1. \A i \in 1..a : i \in 1..Len(ss) /\ 0 + i = i
    BY <2>0
  <2>2. \A i \in 1..b : a + i \in 1..Len(ss)
    BY <2>0
  <2>3. \A i \in 1..a : us[0 + i] = Deletes[i]
    BY <1>5, <1>11, <2>1
  <2>4. \A i \in 1..b : us[a + i] = Inserts(c.game)[i]
    BY <1>5, <1>11, <2>2
  <2> QED BY <1>12, <1>a, <2>0, <2>3, <2>4 DEF Runs
<1>c. Runs(us, a + b, Retold(c.id, target))
  <2>1. PICK d \in Nat : d = target - c.id
    BY <1>1, <1>2, <1>3
  <2>2. Len([k \in 1..d |-> Replayed(log[c.id + k].does)]) = d
    OBVIOUS
  <2>3. \A k \in 1..d : ss[(a + b) + k] = Replayed(log[c.id + k].does)
    BY <1>5, <1>10, <2>1
  <2>4. PICK l \in Nat, u \in Nat : l = Len(ss) /\ u = Len(us)
    BY <1>5
  <2>5. (a + b) + d = l /\ a + b \in Nat /\ (a + b) + d <= u
    BY <1>12, <2>1, <2>4
  <2>6. \A k \in 1..d : (a + b) + k \in 1..l
    BY <2>5
  <2>7. \A k \in 1..d : us[(a + b) + k] = Replayed(log[c.id + k].does)
    BY <1>11, <2>3, <2>4, <2>6
  <2> QED BY <2>1, <2>2, <2>4, <2>5, <2>7 DEF Runs, Retold
<1>13. Emptied(w[a].game)
  <2>1. Emptied(w[Len(Deletes)].game)
    BY <1>b, DeletesClear
  <2> QED BY <1>a, <2>1
<1>14. w[a + b].game = was[c.id + 1]
  <2>1. PICK g \in GamesTo(n) : g = c.game
    BY <1>5
  <2>2. a \in Nat /\ Emptied(w[a].game) /\ Runs(us, a, Inserts(g))
    BY <1>5, <1>13, <1>b, <2>1
  <2>3. w[a + Len(Inserts(g))].game = g
    BY <2>2, InsertsRestore
  <2> QED BY <1>6, <1>a, <2>1, <2>3
<1>15. w[(a + b) + (target - c.id)].game = was[target + 1]
  <2>1. PICK id, q, z : id = c.id /\ q = a + b /\ z = q + (target - id)
    OBVIOUS
  <2>2. Replaying(w, us, q, z, id, target)
    BY <1>1, <1>2, <1>7, <1>12, <1>14, <1>c, <2>1 DEF Replaying
  <2>3. Walks(w, t, r, us, n)
    BY DEF Walks
  <2>4. w[z].game = was[target + 1]
    BY <2>2, <2>3, ReplaysRestore
  <2> QED BY <2>1, <2>4
<1> QED BY <1>12, <1>15 DEF ss

\* A revert to what the history page offers makes the game as it was there, whatever
\* windows, redraws, clears, folds and reverts came before, as long as the rows from
\* the checkpoint on are hot and told everything (RevertGameToPoint, revert.go).
THEOREM UndoExact == Spec => []UndoIsExact
<1>1. JournalInv => UndoIsExact
  <2> SUFFICES ASSUME JournalInv, NEW target \in Offered, Before(target) # {},
                      ~Folded(target), ~Silent(target)
               PROVE  Reverted(target).game = was[target + 1]
    BY DEF UndoIsExact
  <2> DEFINE n == requests + 1
             r == requests + 1
             ss == Reconstructing(target)
             us == Append(ss, Event)
  <2>1. target \in 0..Top
    BY OfferedIs
  <2>2. n \in Nat /\ r \in 0..n /\ requests <= n /\ Begin \in Txs(n) /\ Begin.game = game
    <3>1. 1 \in Nat
      OBVIOUS
    <3>2. /\ requests \in Nat /\ Begin \in Txs(requests + 1) /\ Begin.game = game
      BY <3>1, BeginIs
    <3> QED BY <3>2
  <2>3. Reverted(target) = Perform(Begin, r, us)
    BY DEF Reverted
  <2> HIDE DEF n, r
  <2>4. ss \in Seq(Stmts(n))
    BY <2>1, <2>2, ReconstructingIs
  <2> HIDE DEF ss
  <2>5. Event \in Stmts(n)
    BY StatementsAre DEF Stmts, Said
  <2>6. /\ us \in Seq(Stmts(n)) /\ Len(us) = Len(ss) + 1 /\ Len(ss) \in Nat
        /\ \A i \in 1..Len(ss) : us[0 + i] = ss[i]
        /\ us[Len(ss) + 1] = Event
    BY <2>4, <2>5
  <2> HIDE DEF us
  <2>7. Runs(us, 0, ss)
    BY <2>6 DEF Runs
  <2>8. PICK w : Performs(w, Begin, r, us, n)
    BY <2>2, <2>6, PerformWalk
  <2>9. w[Len(ss)].game = was[target + 1]
    BY <2>2, <2>6, <2>7, <2>8, RevertUndoes DEF ss
  <2>10. /\ Len(ss) + 1 \in 1..Len(us) /\ (Len(ss) + 1) - 1 = Len(ss)
         /\ Len(ss) \in 0..Len(us)
    BY <2>6
  <2>11. /\ w[Len(ss)] \in Txs(n)
         /\ w[Len(ss) + 1] = Exec(w[Len(ss)], Event, r)
         /\ w[Len(us)] = Perform(Begin, r, us)
    <3>1. /\ w \in [0..Len(us) -> Txs(n)] /\ w[Len(us)] = Perform(Begin, r, us)
          /\ \A k \in 1..Len(us) : w[k] = Exec(w[k - 1], us[k], r)
      BY <2>8 DEF Performs
    <3>2. w[Len(ss) + 1] = Exec(w[(Len(ss) + 1) - 1], us[Len(ss) + 1], r)
      BY <2>10, <3>1
    <3> QED BY <2>6, <2>10, <3>1, <3>2
  <2>12. w[Len(ss) + 1].game = Effect(w[Len(ss)].game, Event)
    BY <2>2, <2>5, <2>11, ExecGame
  <2>13. Effect(w[Len(ss)].game, Event) = w[Len(ss)].game
    BY DEF Effect, Event
  <2> QED BY <2>3, <2>6, <2>9, <2>11, <2>12, <2>13
<1> QED BY <1>1, JournalHolds, PTL
=============================================================================
