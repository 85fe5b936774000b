------------------------------ MODULE BoardCards ------------------------------
(***************************************************************************)
(* The cards of one board of xy and a device that follows them by deltas.  *)
(* The server stamps a card with the board's next number on every change   *)
(* (the triggers of internal/server/db.go), answers a read with what       *)
(* changed after the reader's number (boardrev.go) and destroys tombstones *)
(* after their period (reap.go); the device merges an answer onto the last *)
(* one (web/ts/snapdelta.ts).                                              *)
(*                                                                         *)
(* A handler checks access before it waits for the write lock, so other    *)
(* writes, and nothing longer, come between its check and its transaction: *)
(* admitted is such a handler.  The numbers one transaction gives are one  *)
(* number here: no reader sees it half done.                               *)
(***************************************************************************)
EXTENDS BoardRev

CONSTANTS
    MaxList,    \* bound on the ids of the table lists, from 1
    Marks,      \* the rows of a card's sets: labels, Playings
    NoCard      \* a card the base does not have

ASSUME MaxListAssumption == MaxList \in Nat \ {0}

ListIds == 1..MaxList

VARIABLES
    lists,      \* table lists: st, day
    cards,      \* table cards: st, day, list, text, sets, rev, crev
    admitted,   \* a request admitted and not yet in its transaction
    base,       \* the device's base: the number it was read at, and the cards
    unrecorded  \* cards destroyed with no tombstone of their own expired (history)

cardsVars == <<lists, cards, admitted, base, unrecorded>>

ListRows == [st : {"none", "live", "dead"}, day : Nat]
CardRows == [st : {"none", "live", "dead"}, day : Nat, list : ListIds,
             text : Texts, sets : SUBSET Marks, rev : Nat, crev : Nat]
\* A card as a snapshot carries it, with the rows of its sets.
CardsSeen == [list : ListIds, text : Texts, sets : SUBSET Marks]

Requests ==
         [op : {"createCard"}, list : ListIds, text : Texts]
    \cup [op : {"editCard"}, card : CardIds, text : Texts]
    \cup [op : {"moveCard"}, card : CardIds, list : ListIds]
    \cup [op : {"deleteCard"}, card : CardIds]
    \cup [op : {"setMarks"}, card : CardIds, marks : SUBSET Marks]
    \cup [op : {"deleteList"}, list : ListIds]

BoardTypeOK ==
    /\ RevTypeOK
    /\ lists \in [ListIds -> ListRows]
    /\ cards \in [CardIds -> CardRows]
    /\ admitted \in Requests \cup {NoRequest}
    /\ base \in [rev : Nat \cup {Full}, cards : [CardIds -> CardsSeen \cup {NoCard}]]
    /\ unrecorded \subseteq CardIds

ASSUME NothingIsNoOne == NoCard \notin CardsSeen /\ NoRequest \notin Requests

-----------------------------------------------------------------------------
\* Handlers.

\* A place of the table with no row in it.
NoRow == [st |-> "none", day |-> 0, list |-> 1, text |-> CHOOSE t \in Texts : TRUE,
          sets |-> {}, rev |-> 0, crev |-> 0]

\* requireChildAccess: the child in the path is live; asked outside the
\* transaction.  A board is named by createList, and is never deleted here.
Admitted(q) ==
    IF q.op \in {"createCard", "deleteList"}
    THEN lists[q.list].st = "live"
    ELSE cards[q.card].st = "live"

\* The trigger cards_rev_position: the next number, on the card alone.
Moved(row, n) == [row EXCEPT !.rev = n]

\* The triggers cards_rev_insert and cards_rev_content.
Written(row, n) == [row EXCEPT !.rev = n, !.crev = n]

\* What the transaction itself asks before it writes.  A plain UPDATE by id
\* asks nothing and may find no row; a tombstone is put on a live row only;
\* the list a card moves to is asked after here (onBoard); an insert fails
\* its foreign key when the list's row is destroyed, not when it is deleted.
Takes(q) ==
    CASE q.op = "createCard" -> Present(lists[q.list])
      [] q.op \in {"editCard", "setMarks"} -> Present(cards[q.card])
      [] q.op = "moveCard" -> Present(cards[q.card]) /\ lists[q.list].st = "live"
      [] q.op = "deleteCard" -> cards[q.card].st = "live"
      [] q.op = "deleteList" -> lists[q.list].st = "live"

\* handleCreateCard: an id above every other.  The key is a plain integer, so
\* the highest id comes back once its row is destroyed.
CreateCard(q) ==
    \E c \in CardIds :
        /\ \A d \in CardIds : Present(cards[d]) => d < c
        /\ rev' = rev + 1
        /\ cards' = [cards EXCEPT ![c] =
                Written([st |-> "live", day |-> 0, list |-> q.list, text |-> q.text,
                         sets |-> {}, rev |-> 0, crev |-> 0], rev + 1)]
        /\ unrecorded' = unrecorded \ {c}
        /\ UNCHANGED lists

\* handlePatchCard with a description.
EditCard(q) ==
    /\ rev' = rev + 1
    /\ cards' = [cards EXCEPT ![q.card] = Written([@ EXCEPT !.text = q.text], rev + 1)]
    /\ UNCHANGED <<lists, unrecorded>>

\* handlePatchCard with a list and a rank.
MoveCard(q) ==
    /\ rev' = rev + 1
    /\ cards' = [cards EXCEPT ![q.card] = Moved([@ EXCEPT !.list = q.list], rev + 1)]
    /\ UNCHANGED <<lists, unrecorded>>

\* handleDeleteCard.
DeleteCard(q) ==
    /\ rev' = rev + 1
    /\ cards' = [cards EXCEPT ![q.card] = Moved(Tombstone(@), rev + 1)]
    /\ UNCHANGED <<lists, unrecorded>>

\* handleSetCardLabels: all its rows deleted and all the new ones inserted, each
\* with the card's trigger.  handleSetCardSessions.
SetMarks(q) ==
    /\ IF cards[q.card].sets = {} /\ q.marks = {}
       THEN UNCHANGED <<rev, cards>>
       ELSE /\ rev' = rev + 1
            /\ cards' = [cards EXCEPT ![q.card] = Moved([@ EXCEPT !.sets = q.marks], rev + 1)]
    /\ UNCHANGED <<lists, unrecorded>>

\* handleDeleteList: its tombstone, and one for each live card on it.
DeleteList(q) ==
    LET hit == {c \in CardIds : cards[c].st = "live" /\ cards[c].list = q.list}
    IN /\ rev' = IF hit = {} THEN rev ELSE rev + 1
       /\ cards' = [c \in CardIds |->
                IF c \in hit THEN Moved(Tombstone(cards[c]), rev + 1) ELSE cards[c]]
       /\ lists' = [lists EXCEPT ![q.list] = Tombstone(@)]
       /\ UNCHANGED unrecorded

Writes(q) ==
    \/ q.op = "createCard" /\ CreateCard(q)
    \/ q.op = "editCard" /\ EditCard(q)
    \/ q.op = "moveCard" /\ MoveCard(q)
    \/ q.op = "deleteCard" /\ DeleteCard(q)
    \/ q.op = "setMarks" /\ SetMarks(q)
    \/ q.op = "deleteList" /\ DeleteList(q)

\* A handler whose transaction follows its check at once.
Handle(q) ==
    /\ Admitted(q) /\ Takes(q)
    /\ Writes(q)
    /\ UNCHANGED <<reapedRev, today, admitted, base>>

\* A handler is admitted and waits for the write lock.
Admit(q) ==
    /\ admitted = NoRequest
    /\ Admitted(q)
    /\ admitted' = q
    /\ UNCHANGED <<revVars, lists, cards, base, unrecorded>>

\* It has the lock: it writes, or finds nothing to write or an error.
Commit ==
    /\ admitted # NoRequest
    /\ IF Takes(admitted)
       THEN Writes(admitted)
       ELSE UNCHANGED <<rev, lists, cards, unrecorded>>
    /\ admitted' = NoRequest
    /\ UNCHANGED <<reapedRev, today, base>>

\* handleCreateList: no number; the id is above every other, as for a card.
CreateList ==
    /\ \E l \in ListIds :
        /\ \A k \in ListIds : Present(lists[k]) => k < l
        /\ lists' = [lists EXCEPT ![l] = [st |-> "live", day |-> 0]]
    /\ UNCHANGED <<revVars, cards, admitted, base, unrecorded>>

\* The cards of cs lose the rows of ms, each with the card's trigger.
Unmarked(row, ms) ==
    IF row.sets \cap ms = {} THEN row
    ELSE Moved([row EXCEPT !.sets = @ \ ms], rev + 1)

\* handleDeleteSession: its Playings go, and the labels scoped to them.
DropMark(m) ==
    /\ \E c \in CardIds : m \in cards[c].sets
    /\ rev' = rev + 1
    /\ cards' = [c \in CardIds |-> Unmarked(cards[c], {m})]
    /\ UNCHANGED <<reapedRev, today, lists, admitted, base, unrecorded>>

\* A comment is written, or one is destroyed whose number reapOnce recorded.
CommentsChange ==
    /\ \/ rev' = rev + 1 /\ UNCHANGED reapedRev
       \/ reapedRev' \in reapedRev..rev /\ UNCHANGED rev
    /\ UNCHANGED <<today, cardsVars>>

\* reapOnce: the numbers of the expired cards are recorded, the cards go, and
\* the expired lists go with whatever card is still on them.  The labels that
\* expire (ms) take their rows off every card, by foreign key, with triggers.
Reap(ms) ==
    LET expired  == {c \in CardIds : Expired(cards[c])}
        lost     == {l \in ListIds : Expired(lists[l])}
        cascaded == {c \in CardIds \ expired :
                        Present(cards[c]) /\ cards[c].list \in lost}
        kept     == CardIds \ (expired \cup cascaded)
    IN /\ expired # {} \/ lost # {} \/ \E c \in CardIds : cards[c].sets \cap ms # {}
       /\ reapedRev' = HighestOf({cards[c].rev : c \in expired})
       /\ rev' = IF \E c \in kept : cards[c].sets \cap ms # {} THEN rev + 1 ELSE rev
       /\ cards' = [c \in CardIds |->
                IF c \in kept THEN Unmarked(cards[c], ms)
                ELSE NoRow]
       /\ lists' = [l \in ListIds |->
                IF l \in lost THEN [st |-> "none", day |-> 0] ELSE lists[l]]
       /\ unrecorded' = unrecorded \cup cascaded
       /\ UNCHANGED <<today, admitted, base>>

\* tombstoneTTL passes.  A request does not wait that long for the lock.
NextDay ==
    /\ admitted = NoRequest
    /\ today < MaxDay
    /\ today' = today + 1
    /\ UNCHANGED <<rev, reapedRev, cardsVars>>

-----------------------------------------------------------------------------
\* The snapshot, the delta and the merge.

\* A card as scanCards lists it.
Seen(c) == [list |-> cards[c].list, text |-> cards[c].text, sets |-> cards[c].sets]

\* The full snapshot.
FullRead == [c \in CardIds |-> IF cards[c].st = "live" THEN Seen(c) ELSE NoCard]

\* scanChangedCards: what a delta from since says of a card.
InDelta(c, since) ==
    CASE ~Present(cards[c]) \/ cards[c].rev <= since -> "nothing"
      [] cards[c].st = "dead" /\ cards[c].rev > since -> "gone"
      [] cards[c].st = "live" /\ cards[c].rev > since /\ cards[c].crev > since -> "whole"
      [] OTHER -> "same"

\* The delta keeps a card the base does not have (DeltaMismatch).
Mismatch(held, since) ==
    \E c \in CardIds : InDelta(c, since) = "same" /\ held[c] = NoCard

\* mergeSnapshot, one card: its sets come with it whenever it is in the delta.
MergedCard(c, held, since) ==
    CASE InDelta(c, since) = "nothing" -> held[c]
      [] InDelta(c, since) = "gone" -> NoCard
      [] InDelta(c, since) = "whole" -> Seen(c)
      [] InDelta(c, since) = "same" ->
            [held[c] EXCEPT !.list = cards[c].list, !.sets = cards[c].sets]

\* fetchSnapshot: the base after the answer to ?since=, or after the full read
\* that a full answer and a mismatch both end in.
Fetched ==
    LET since == DeltaBase(base.rev)
    IN IF since = Full \/ Mismatch(base.cards, since)
       THEN FullRead
       ELSE [c \in CardIds |-> MergedCard(c, base.cards, since)]

FetchSnapshot ==
    /\ base' = [rev |-> rev, cards |-> Fetched]
    /\ UNCHANGED <<revVars, lists, cards, admitted, unrecorded>>

-----------------------------------------------------------------------------

CardsInit ==
    /\ RevInit
    /\ lists = [l \in ListIds |-> [st |-> "live", day |-> 0]]
    /\ cards = [c \in CardIds |-> NoRow]
    /\ admitted = NoRequest
    /\ base = [rev |-> Full, cards |-> [c \in CardIds |-> NoCard]]
    /\ unrecorded = {}

CardsNext ==
    \/ \E q \in Requests : rev < MaxRev /\ Handle(q)
    \/ \E q \in Requests : Admit(q)
    \/ rev < MaxRev /\ Commit
    \/ CreateList
    \/ \E m \in Marks : rev < MaxRev /\ DropMark(m)
    \/ rev < MaxRev /\ CommentsChange
    \/ \E ms \in SUBSET Marks : rev < MaxRev /\ Reap(ms)
    \/ NextDay
    \/ FetchSnapshot

CardsSpec == CardsInit /\ [][CardsNext]_<<revVars, cardsVars>>

-----------------------------------------------------------------------------
\* Properties.

\* Whatever the device last read and whatever was written, moved, deleted and
\* reaped since, an answer merged onto its base is the full snapshot, card by
\* card: ADR 0023's claim, for every card but one that a reaped list took
\* along without a number being recorded.
DeltaReadsAsFull ==
    \A c \in CardIds : Fetched[c] = FullRead[c] \/ c \in unrecorded

=============================================================================
