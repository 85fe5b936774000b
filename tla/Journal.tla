-------------------------------- MODULE Journal --------------------------------
(***************************************************************************)
(* One game's forward journal and the revert derived from it               *)
(* (dope/dope/storage/journal, dope/dope/domain/core/revert.go).           *)
(*                                                                         *)
(* Every write of the game is one transaction under the write lock.  A     *)
(* change of its rows is journaled by triggers, a change of a match's      *)
(* state document by the write path itself.  The history page offers, for  *)
(* each request, the journal id just before it; a revert to an id restores *)
(* the newest checkpoint at or before it, replays the rows after that one  *)
(* up to the id, and checkpoints what it made.  The archiver folds old     *)
(* rows into segments no revert reads.                                     *)
(*                                                                         *)
(* A match is two values: blob, its state document (matches.state_json),   *)
(* and rows, its other columns with its slots and results.  Values are the *)
(* numbers of the requests that wrote them.                                *)
(***************************************************************************)
EXTENDS Naturals, Sequences, FiniteSets, SequencesExt

CONSTANTS
    Matches,      \* the match codes a scheme of the game may name
    Legacy,       \* journal rows older than the game's first checkpoint
    KeepRecent,   \* ArchiveKeepRecent
    MaxRequests,  \* requests in a run
    NoMatch       \* no such match

ASSUME JournalAssumption ==
    /\ Matches # {} /\ IsFiniteSet(Matches)
    /\ Legacy \in Nat /\ KeepRecent \in Nat \ {0} /\ MaxRequests \in Nat

VARIABLES
    game,         \* the game's tables
    log,          \* every journal row ever written; a row's id is its index
    hot,          \* the ids of the rows still in the journal table
    rev,          \* the fest's revision
    checkpoints,  \* journal_checkpoint: the id a snapshot is keyed at, and it
    requests,     \* requests so far
    was           \* history: the game before any row, then after each id's

vars == <<game, log, hot, rev, checkpoints, requests, was>>

Empty == 0

\* A state document a statement leaves as it is.
Same == MaxRequests + 1

-----------------------------------------------------------------------------
(***************************************************************************)
(* SQL statements, and what the journal keeps of them.                     *)
(***************************************************************************)
Insert(m, blob, rows) == [op |-> "insert", match |-> m, blob |-> blob, rows |-> rows]
Update(m, blob, rows) == [op |-> "update", match |-> m, blob |-> blob, rows |-> rows]
Delete(m) == [op |-> "delete", match |-> m, blob |-> Same, rows |-> Empty]

\* A change of the state document alone: journaled as a patch (JournalMatchPatchTx),
\* or not at all.
Patch(m, blob) == [op |-> "patch", match |-> m, blob |-> blob, rows |-> Empty]
Unlogged(m, blob) == [op |-> "unlogged", match |-> m, blob |-> blob, rows |-> Empty]

\* BumpFestRevisionTx.
Event == [op |-> "event", match |-> NoMatch, blob |-> Same, rows |-> Empty]

\* What a statement does to the game.
Effect(g, s) ==
    CASE s.op = "insert" -> [g EXCEPT ![s.match] = [blob |-> s.blob, rows |-> s.rows]]
      [] s.op = "delete" -> [g EXCEPT ![s.match] = NoMatch]
      [] s.op \in {"update", "patch", "unlogged"} /\ g[s.match] # NoMatch ->
            [g EXCEPT ![s.match] =
               [blob |-> IF s.blob = Same THEN @.blob ELSE s.blob,
                rows |-> IF s.op = "update" THEN s.rows ELSE @.rows]]
      [] OTHER -> g

\* The triggers: an update of the state document alone leaves no row, and the row
\* of any other update does not name the document.
Journaled(g, s) ==
    CASE s.op = "unlogged" -> FALSE
      [] s.op = "update" -> g[s.match] # NoMatch /\ g[s.match].rows # s.rows
      [] s.op \in {"delete", "patch"} -> g[s.match] # NoMatch
      [] OTHER -> TRUE

Recorded(s) == IF s.op = "update" THEN [s EXCEPT !.blob = Same] ELSE s

\* One statement of request r, on the transaction so far.
Exec(tx, s, r) ==
    LET after == Effect(tx.game, s)
        next == IF s.op = "event" THEN tx.rev + 1 ELSE tx.rev
        row == [does |-> Recorded(s), seq |-> next,
                request |-> IF s.op = "event" THEN 0 ELSE r,
                unsaid |-> s.op = "update" /\ s.blob \notin {Same, tx.game[s.match].blob}]
    IN IF Journaled(tx.game, s)
       THEN [game |-> after, rev |-> next, log |-> Append(tx.log, row),
             was |-> Append(tx.was, after)]
       ELSE [tx EXCEPT !.game = after]

Begin == [game |-> game, rev |-> rev, log |-> log, was |-> was]

Perform(tx, r, statements) == FoldLeft(LAMBDA t, s : Exec(t, s, r), tx, statements)

\* The transaction commits; taken is how many requests it answers.
Commit(tx, taken) ==
    /\ requests + taken <= MaxRequests
    /\ requests' = requests + taken
    /\ game' = tx.game /\ rev' = tx.rev /\ log' = tx.log /\ was' = tx.was
    /\ hot' = hot \cup (Len(log) + 1 .. Len(tx.log))

Existing(g) == {m \in Matches : g[m] # NoMatch}

\* max(id): the newest rows are never folded.
Top == Len(log)

-----------------------------------------------------------------------------
\* A game with its matches, older rows no checkpoint covers, and the checkpoint
\* CreateGameTx or BackfillGameCheckpoints keyed at the last id.
Init ==
    /\ game \in [Matches -> {NoMatch, [blob |-> Empty, rows |-> Empty]}]
    /\ Existing(game) # {}
    /\ log = [i \in 1 .. Legacy |->
                [does |-> Event, seq |-> i, request |-> 0, unsaid |-> FALSE]]
    /\ was = [i \in 1 .. Legacy + 1 |-> game]
    /\ hot = 1 .. Legacy
    /\ rev = Legacy
    /\ checkpoints = {[id |-> Legacy, game |-> game]}
    /\ requests = 0

-----------------------------------------------------------------------------
(***************************************************************************)
(* The writes.                                                             *)
(***************************************************************************)

\* SettleTx: each edited match is rescored and its revision moves, then the
\* resolver seats who advanced; the statements are the last request's.
Settle(tx, edited, advanced, r) ==
    LET scored == [i \in 1 .. 2 * Len(edited) |->
                      IF i % 2 = 0 THEN Event ELSE Update(edited[(i + 1) \div 2], Same, r)]
        seated == [i \in 1 .. Len(advanced) |-> Update(advanced[i], Same, r)]
    IN Perform(tx, r, scored \o seated)

\* One window of the edit batcher: one or two requests, each a patch of a match,
\* in one transaction.
Window(edits) ==
    LET first == Perform(Begin, requests + 1, <<Patch(edits[1], requests + 1)>>)
        last == requests + Len(edits)
        patched == IF Len(edits) = 1 THEN first
                   ELSE Perform(first, last, <<Patch(edits[2], last)>>)
        touched == IF Len(edits) = 2 /\ edits[1] = edits[2] THEN <<edits[1]>> ELSE edits
    IN /\ \A i \in DOMAIN edits : game[edits[i]] # NoMatch
       /\ \E moved \in SUBSET (Existing(game) \ ToSet(edits)) :
             Commit(Settle(patched, touched, SetToSeq(moved), last), Len(edits))
       /\ UNCHANGED checkpoints

\* Recompile: of the bouts the new scheme names, those that have begun keep their
\* document or grow it, the others are emptied (document and columns in one UPDATE),
\* and the new ones are made; the bouts it does not name are deleted.
Recompile(scheme, begun, grown) ==
    LET r == requests + 1
        Written(m) ==
            CASE m \in grown -> Update(m, r, r)
              [] m \in begun -> Update(m, Same, r)
              [] m \in Existing(game) \ (begun \cup grown) -> Update(m, Empty, r)
              [] OTHER -> Insert(m, Empty, r)
        written == SetToSeq(scheme)
        left == SetToSeq(Existing(game) \ scheme)
    IN /\ begun \cup grown \subseteq scheme \cap Existing(game)
       /\ begun \cap grown = {}
       /\ Commit(Perform(Begin, r,
                    [i \in 1 .. Len(written) |-> Written(written[i])]
                    \o [i \in 1 .. Len(left) |-> Delete(left[i])]
                    \o <<Event>>), 1)
       /\ UNCHANGED checkpoints

\* Clear: every row goes and the pristine structure is written back.
Clear ==
    LET r == requests + 1
        old == SetToSeq(Existing(game))
    IN /\ Commit(Perform(Begin, r,
                    [i \in 1 .. Len(old) |-> Delete(old[i])]
                    \o [i \in 1 .. Len(old) |-> Insert(old[i], Empty, r)]
                    \o <<Event>>), 1)
       /\ UNCHANGED checkpoints

\* A write of another game of the fest.
Elsewhere ==
    /\ Commit(Perform(Begin, requests + 1, <<Event>>), 1)
    /\ UNCHANGED checkpoints

-----------------------------------------------------------------------------
(***************************************************************************)
(* Revert.                                                                 *)
(***************************************************************************)

\* nearestCheckpointAtOrBefore.
Before(target) == {c \in checkpoints : c.id <= target}

Nearest(target) ==
    CHOOSE c \in Before(target) : \A d \in Before(target) : d.id <= c.id

\* loadGameRowOpsBetween: what the hot rows after id and up to target say.
Between(id, target) ==
    FoldLeft(LAMBDA rows, i : IF id < i /\ i \in hot THEN Append(rows, log[i].does) ELSE rows,
             <<>>, [i \in 1 .. target |-> i])

\* Replaying a row runs a statement of its own: a patch's is not journaled again.
Replayed(s) ==
    CASE s.op = "patch" -> Unlogged(s.match, s.blob)
      [] s.op = "event" -> Unlogged(CHOOSE m \in Matches : TRUE, Same)
      [] OTHER -> s

\* RestoreGameCheckpoint: the game's rows go and the snapshot's come back.
Restoring(c) ==
    LET old == SetToSeq(Existing(game))
        new == SetToSeq(Existing(c.game))
    IN [i \in 1 .. Len(old) |-> Delete(old[i])]
       \o [i \in 1 .. Len(new) |->
             Insert(new[i], c.game[new[i]].blob, c.game[new[i]].rows)]

\* ReconstructGameStateAt, as the statements it runs.
Reconstructing(target) ==
    LET c == Nearest(target)
        rows == Between(c.id, target)
    IN Restoring(c) \o [n \in 1 .. Len(rows) |-> Replayed(rows[n])]

\* The transaction of a revert: the reconstruction and the event.
Reverted(target) == Perform(Begin, requests + 1, Append(Reconstructing(target), Event))

\* A bug: the revert does not snapshot what it made.
Revert_NoCheckpoint(target) ==
    /\ Before(target) # {}
    /\ Commit(Reverted(target), 1)
    /\ UNCHANGED checkpoints

\* RevertGameToPoint: the transaction, and a checkpoint of what it made, keyed at
\* the event.  A target no checkpoint covers is declined.
Revert(target) ==
    LET tx == Reverted(target)
    IN /\ Before(target) # {}
       /\ Commit(tx, 1)
       /\ checkpoints' = checkpoints \cup {[id |-> Len(tx.log), game |-> tx.game]}

\* LoadGameJournal: the page groups the rows by request and offers the id before a
\* group's first; an older page offers what it saw before rows were folded.
RowsOf(r) == {i \in 1 .. Top : log[i].request = r}

First(ids) == CHOOSE i \in ids : \A k \in ids : i <= k

Targets(r) ==
    {First(ids) - 1 : ids \in {RowsOf(r), RowsOf(r) \cap hot} \ {{}}}

Offered == UNION {Targets(r) : r \in 1 .. requests}

-----------------------------------------------------------------------------
\* A bug: the newest rows go too.
Fold_All ==
    /\ Cardinality(hot) > KeepRecent
    /\ hot' = {}
    /\ UNCHANGED <<game, log, rev, checkpoints, requests, was>>

\* The archiver, on a fest with more hot rows than it keeps: the rows of seq up to
\* the newest's less KeepRecent go into segments, chunk by chunk and each chunk at
\* a seq's end, as far as its deadline lets it.
Fold ==
    /\ Cardinality(hot) > KeepRecent
    /\ \E through \in 1 .. log[Top].seq - KeepRecent :
          LET folded == {i \in hot : log[i].seq <= through}
          IN folded # {} /\ hot' = hot \ folded
    /\ UNCHANGED <<game, log, rev, checkpoints, requests, was>>

-----------------------------------------------------------------------------
Next ==
    \/ \E m \in Matches : Window(<<m>>)
    \/ \E m, n \in Matches : Window(<<m, n>>)
    \/ \E scheme \in SUBSET Matches \ {{}}, begun, grown \in SUBSET Matches :
          Recompile(scheme, begun, grown)
    \/ Clear
    \/ Elsewhere
    \/ \E target \in Offered : Revert(target)
    \/ Fold

Spec == Init /\ [][Next]_vars

-----------------------------------------------------------------------------
(***************************************************************************)
(* Properties.                                                             *)
(***************************************************************************)
Values == 0 .. MaxRequests

Games == [Matches -> {NoMatch} \cup [blob : Values, rows : Values]]

Rows == [does : [op : {"insert", "update", "delete", "patch", "event"},
                 match : Matches \cup {NoMatch}, blob : Values \cup {Same},
                 rows : Values],
         seq : Nat, request : Values, unsaid : BOOLEAN]

\* Every variable stays within its type, every journaled id remembers its game, and
\* a fold never takes the newest row (from which max(id) is read).
TypeOK ==
    /\ game \in Games
    /\ log \in Seq(Rows)
    /\ hot \subseteq 1 .. Top
    /\ rev \in Nat
    /\ checkpoints \subseteq [id : 0 .. Top, game : Games]
    /\ requests \in Values
    /\ was \in Seq(Games) /\ Len(was) = Top + 1
    /\ Top > 0 => Top \in hot

\* A row between the checkpoint and the target was folded away, or is of an UPDATE
\* that wrote a state document too, of which the row says nothing.
Folded(target) == (Nearest(target).id + 1 .. target) \ hot # {}

Silent(target) == \E i \in Nearest(target).id + 1 .. target : log[i].unsaid

\* What the history page offers undoes exactly that: a revert to the id before a
\* request makes the game as it was there, matches, documents and results, through
\* any windows, redraws, clears and earlier reverts, reverts of reverts included,
\* as long as the rows from the checkpoint on are hot and told everything.
UndoIsExact ==
    \A target \in Offered :
        Before(target) # {} /\ ~Folded(target) /\ ~Silent(target)
            => Reverted(target).game = was[target + 1]

\* The same whatever was folded: "a checkpoint always sits at or after the last
\* archived point, so revert never needs to read segments" (revert.go:33-35).
RevertNeedsNoSegments ==
    \A target \in Offered :
        Before(target) # {} /\ ~Silent(target) => Reverted(target).game = was[target + 1]

=============================================================================
