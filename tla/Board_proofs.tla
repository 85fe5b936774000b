---------------------------- MODULE Board_proofs -----------------------------
(***************************************************************************)
(* Proofs about the board of xy, on the server and in the browser.         *)
(***************************************************************************)
EXTENDS BoardCards, BoardComments, BoardSync, NaturalsInduction, WellFoundedInduction, TLAPS

-----------------------------------------------------------------------------
(***************************************************************************)
(* Proofs about BoardCards, for any cards, lists, texts and marks: a delta *)
(* merged onto what a device has reads as the full snapshot.               *)
(*                                                                         *)
(* The argument is one of numbers.  What a device holds of a card is right *)
(* as long as the card's number has not passed the device's; a card's text *)
(* as long as its content number has not; and what it does not hear of, a  *)
(* destroyed card, it has already heard of when its number is not below    *)
(* reaped_rev.  Every write stamps what it changes above all of these.     *)
(***************************************************************************)

\* Numbers never run ahead of the board's, nor contents ahead of their card's;
\* a place without a card is empty.
RevsInv ==
    /\ base.rev <= rev
    /\ \A c \in CardIds :
        /\ cards[c].crev <= cards[c].rev /\ cards[c].rev <= rev
        /\ ~Present(cards[c]) => cards[c] = NoRow
        /\ c \in unrecorded => ~Present(cards[c])

\* What the device holds of a card whose number is not past its own.
HoldsUnchanged ==
    \A c \in CardIds :
        Present(cards[c]) /\ cards[c].rev <= base.rev => base.cards[c] = FullRead[c]

\* The text it holds of a card whose content number is not past its own.
HoldsText ==
    \A c \in CardIds :
        cards[c].st = "live" /\ cards[c].crev <= base.rev /\ base.cards[c] # NoCard
            => base.cards[c].text = cards[c].text

\* It holds no destroyed card, unless its number is below reaped_rev.
HoldsNothingReaped ==
    reapedRev <= base.rev =>
        \A c \in CardIds \ unrecorded : ~Present(cards[c]) => base.cards[c] = NoCard

CardsInv == BoardTypeOK /\ RevsInv /\ HoldsUnchanged /\ HoldsText /\ HoldsNothingReaped

-----------------------------------------------------------------------------
\* A set of numbers up to n that is not empty has a highest one.
LEMMA HasHighest ==
    ASSUME NEW n \in Nat, NEW S, S \subseteq 0..n, S # {}
    PROVE  \E r \in S : \A s \in S : s <= r
<1> DEFINE Below == {n - s : s \in S}
<1>1. Below \subseteq Nat /\ Below # {}
  <2>1. PICK s \in S : TRUE
    OBVIOUS
  <2>2. n - s \in Below
    OBVIOUS
  <2>3. \A t \in S : n - t \in Nat
    OBVIOUS
  <2> QED
    BY <2>2, <2>3
<1>2. \E x \in Below : \A y \in Below : ~(<<y, x>> \in OpToRel(<, Nat))
  BY <1>1, NatLessThanWellFounded, WFMin
<1>3. PICK x \in Below : \A y \in Below : ~(y < x)
  BY <1>1, <1>2 DEF OpToRel
<1>4. PICK r \in S : x = n - r
  OBVIOUS
<1>5. ASSUME NEW s \in S PROVE s <= r
  <2>1. ~(n - s < x)
    BY <1>3
  <2> QED
    BY <2>1, <1>4
<1> QED
  BY <1>5

\* reaped_rev only grows, up to the board's number, and covers what is reaped.
LEMMA HighestCovers ==
    ASSUME rev \in Nat, reapedRev \in 0..rev, NEW S, S \subseteq 0..rev
    PROVE  /\ HighestOf(S) \in reapedRev..rev
           /\ \A r \in S : r <= HighestOf(S)
<1>1. CASE \A r \in S : r <= reapedRev
  BY <1>1 DEF HighestOf
<1>2. CASE ~(\A r \in S : r <= reapedRev)
  <2>1. PICK top \in S : ~(top <= reapedRev)
    BY <1>2
  <2>2. \E r \in S : \A s \in S : s <= r
    BY <2>1, HasHighest
  <2>3. HighestOf(S) \in S /\ \A s \in S : s <= HighestOf(S)
    BY <1>2, <2>2 DEF HighestOf
  <2> DEFINE high == HighestOf(S)
  <2>4. high \in 0..rev /\ top \in 0..rev /\ top <= high
    BY <2>1, <2>3
  <2>5. high \in reapedRev..rev
    <3> HIDE DEF high
    <3> QED
      BY <2>1, <2>4
  <2> QED
    BY <2>3, <2>5
<1> QED
  BY <1>1, <1>2

-----------------------------------------------------------------------------
\* What a write leaves of a row is a row.
LEMMA EditedIsARow ==
    ASSUME NEW row \in CardRows, NEW n \in Nat, NEW t \in Texts
    PROVE  /\ [row EXCEPT !.text = t, !.rev = n, !.crev = n] \in CardRows
           /\ [row EXCEPT !.text = t, !.rev = n, !.crev = n].st = row.st
BY DEF CardRows

LEMMA MovedIsARow ==
    ASSUME NEW row \in CardRows, NEW n \in Nat, NEW l \in ListIds
    PROVE  /\ [row EXCEPT !.list = l, !.rev = n] \in CardRows
           /\ [row EXCEPT !.list = l, !.rev = n].st = row.st
BY DEF CardRows

LEMMA DeadIsARow ==
    ASSUME NEW row \in CardRows, NEW n \in Nat, NEW d \in Nat
    PROVE  /\ [row EXCEPT !.st = "dead", !.day = d, !.rev = n] \in CardRows
           /\ [row EXCEPT !.st = "dead", !.day = d, !.rev = n].st = "dead"
BY DEF CardRows

LEMMA MarkedIsARow ==
    ASSUME NEW row \in CardRows, NEW n \in Nat, NEW ms \in SUBSET Marks
    PROVE  /\ [row EXCEPT !.sets = ms, !.rev = n] \in CardRows
           /\ [row EXCEPT !.sets = ms, !.rev = n].st = row.st
BY DEF CardRows

\* A card a device holds, brought up to date by a delta that has its text.
LEMMA SeenIsItsFields ==
    ASSUME NEW r \in CardsSeen, NEW s \in CardsSeen,
           r.list = s.list, r.text = s.text, r.sets = s.sets
    PROVE  r = s
BY DEF CardsSeen

LEMMA SeenUpdated ==
    ASSUME NEW r \in CardsSeen, NEW l \in ListIds, NEW ms \in SUBSET Marks
    PROVE  [r EXCEPT !.list = l, !.sets = ms] \in CardsSeen
BY DEF CardsSeen

-----------------------------------------------------------------------------
\* What the invariant is for: the answer to a device's ?since= reads, once
\* merged, as the full snapshot.
LEMMA InvReadsAsFull == CardsInv => DeltaReadsAsFull
<1> SUFFICES ASSUME CardsInv, NEW c \in CardIds, c \notin unrecorded
             PROVE  Fetched[c] = FullRead[c]
  BY DEF DeltaReadsAsFull
<1> DEFINE since == DeltaBase(base.rev)
<1>1. CASE since = Full \/ Mismatch(base.cards, since)
  BY <1>1 DEF Fetched
<1>2. CASE ~(since = Full \/ Mismatch(base.cards, since))
  <2>1. since = base.rev /\ reapedRev <= base.rev /\ base.rev \in Nat
    BY <1>2 DEF DeltaBase, Full, CardsInv, BoardTypeOK, RevTypeOK
  <2>2. Fetched[c] = MergedCard(c, base.cards, base.rev)
    BY <1>2, <2>1 DEF Fetched
  <2>3. /\ cards[c] \in CardRows
        /\ base.cards[c] \in CardsSeen \cup {NoCard}
    BY DEF CardsInv, BoardTypeOK
  <2>4. FullRead[c] = IF cards[c].st = "live" THEN Seen(c) ELSE NoCard
    BY DEF FullRead
  <2>5. CASE ~Present(cards[c])
    <3>1. base.cards[c] = NoCard
      BY <2>1, <2>5 DEF CardsInv, HoldsNothingReaped
    <3> QED
      BY <2>2, <2>4, <2>5, <3>1 DEF MergedCard, InDelta, Present
  <2>6. CASE Present(cards[c]) /\ cards[c].rev <= base.rev
    <3>1. base.cards[c] = FullRead[c]
      BY <2>6 DEF CardsInv, HoldsUnchanged
    <3>2. InDelta(c, base.rev) = "nothing"
      BY <2>1, <2>3, <2>6 DEF InDelta, CardRows
    <3> QED
      BY <2>1, <2>2, <2>3, <2>6, <3>1, <3>2 DEF MergedCard
  <2>7. CASE cards[c].st = "dead" /\ cards[c].rev > base.rev
    <3>1. InDelta(c, base.rev) = "gone"
      BY <2>1, <2>3, <2>7 DEF InDelta, Present, CardRows
    <3> QED
      BY <2>2, <2>4, <2>7, <3>1 DEF MergedCard
  <2>8. CASE cards[c].st = "live" /\ cards[c].rev > base.rev /\ cards[c].crev > base.rev
    <3>1. InDelta(c, base.rev) = "whole"
      BY <2>1, <2>3, <2>8 DEF InDelta, Present, CardRows
    <3> QED
      BY <2>2, <2>4, <2>8, <3>1 DEF MergedCard
  <2>9. CASE cards[c].st = "live" /\ cards[c].rev > base.rev /\ cards[c].crev <= base.rev
    <3>1. InDelta(c, base.rev) = "same"
      BY <2>1, <2>3, <2>9 DEF InDelta, Present, CardRows
    <3>2. base.cards[c] # NoCard
      BY <1>2, <2>1, <3>1 DEF Mismatch
    <3>3. base.cards[c] \in CardsSeen /\ base.cards[c].text = cards[c].text
      BY <2>3, <2>9, <3>2 DEF CardsInv, HoldsText
    <3>4. [base.cards[c] EXCEPT !.list = cards[c].list, !.sets = cards[c].sets] = Seen(c)
      <4> DEFINE x == [base.cards[c] EXCEPT !.list = cards[c].list, !.sets = cards[c].sets]
      <4>1. cards[c].list \in ListIds /\ cards[c].text \in Texts /\ cards[c].sets \in SUBSET Marks
        BY <2>3 DEF CardRows
      <4>2. x \in CardsSeen
        BY <3>3, <4>1, SeenUpdated
      <4>3. x.list = cards[c].list /\ x.text = base.cards[c].text /\ x.sets = cards[c].sets
        BY <3>3, <4>1 DEF CardsSeen
      <4>4. /\ Seen(c) \in CardsSeen
            /\ Seen(c).list = cards[c].list /\ Seen(c).text = cards[c].text
            /\ Seen(c).sets = cards[c].sets
        BY <4>1 DEF Seen, CardsSeen
      <4> HIDE DEF x
      <4>5. x = Seen(c)
        BY <3>3, <4>2, <4>3, <4>4, SeenIsItsFields
      <4> QED
        BY <4>5 DEF x
    <3> QED
      BY <2>2, <2>4, <2>9, <3>1, <3>4 DEF MergedCard
  <2> QED
    BY <2>1, <2>3, <2>5, <2>6, <2>7, <2>8, <2>9 DEF Present, CardRows
<1> QED
  BY <1>1, <1>2

-----------------------------------------------------------------------------
\* A card is left alone, or what a step makes of it bears the next number, and
\* bears it as its content number too unless its text is the old one.
Stamped(c) ==
    \/ cards'[c] = cards[c] /\ (c \in unrecorded' <=> c \in unrecorded)
    \/ /\ Present(cards'[c]) /\ c \notin unrecorded'
       /\ rev' = rev + 1 /\ cards'[c].rev = rev + 1
       /\ \/ cards'[c].crev = rev + 1
          \/ /\ cards'[c].crev = cards[c].crev /\ cards'[c].text = cards[c].text
             /\ cards'[c].st = "live" => cards[c].st = "live"

LEMMA StampsKeep ==
    ASSUME CardsInv, BoardTypeOK', base' = base, rev' \in {rev, rev + 1},
           reapedRev <= reapedRev', \A c \in CardIds : Stamped(c)
    PROVE  CardsInv'
<1> USE DEF CardsInv
<1>1. /\ rev \in Nat /\ reapedRev \in Nat /\ reapedRev' \in Nat
      /\ base.rev \in Nat \cup {Full} /\ base.rev <= rev
  BY DEF BoardTypeOK, RevTypeOK, RevsInv
<1>2. ASSUME NEW c \in CardIds
      PROVE  /\ cards[c] \in CardRows /\ cards'[c] \in CardRows
             /\ cards[c].rev \in Nat /\ cards[c].crev \in Nat
             /\ cards'[c].rev \in Nat /\ cards'[c].crev \in Nat
  BY DEF BoardTypeOK, CardRows
<1>3. RevsInv'
  <2>1. ASSUME NEW c \in CardIds
        PROVE  /\ cards'[c].crev <= cards'[c].rev /\ cards'[c].rev <= rev'
               /\ ~Present(cards'[c]) => cards'[c] = NoRow
               /\ c \in unrecorded' => ~Present(cards'[c])
    BY <1>1, <1>2 DEF Stamped, RevsInv
  <2> QED
    BY <1>1, <2>1 DEF RevsInv, Full, NoRow
<1>4. HoldsUnchanged'
  <2>1. ASSUME NEW c \in CardIds, Present(cards'[c]), cards'[c].rev <= base.rev
        PROVE  base.cards[c] = FullRead'[c]
    <3>1. cards'[c] = cards[c]
      BY <1>1, <1>2, <2>1 DEF Stamped, Full
    <3>2. FullRead'[c] = FullRead[c]
      BY <3>1 DEF FullRead, Seen
    <3> QED
      BY <2>1, <3>1, <3>2 DEF HoldsUnchanged
  <2> QED
    BY <2>1 DEF HoldsUnchanged
<1>5. HoldsText'
  <2>1. ASSUME NEW c \in CardIds, cards'[c].st = "live", cards'[c].crev <= base.rev,
               base.cards[c] # NoCard
        PROVE  base.cards[c].text = cards'[c].text
    BY <1>1, <1>2, <2>1 DEF Stamped, HoldsText, Full
  <2> QED
    BY <2>1 DEF HoldsText
<1>6. HoldsNothingReaped'
  <2>1. ASSUME reapedRev' <= base.rev, NEW c \in CardIds, c \notin unrecorded',
               ~Present(cards'[c])
        PROVE  base.cards[c] = NoCard
    <3>1. reapedRev <= base.rev
      BY <1>1, <2>1 DEF Full
    <3>2. c \notin unrecorded /\ ~Present(cards[c])
      BY <2>1 DEF Stamped
    <3> QED
      BY <3>1, <3>2 DEF HoldsNothingReaped
  <2> QED
    BY <2>1 DEF HoldsNothingReaped
<1> QED
  BY <1>3, <1>4, <1>5, <1>6

-----------------------------------------------------------------------------
LEMMA NoRowIsARow == NoRow \in CardRows
  BY RevBounds, MaxListAssumption DEF NoRow, CardRows, ListIds

\* A transaction that writes one card.
LEMMA OneCardStamped ==
    ASSUME CardsInv, NEW c \in CardIds, NEW row \in CardRows,
           cards' = [cards EXCEPT ![c] = row], unrecorded' = unrecorded \ {c},
           rev' = rev + 1, UNCHANGED <<reapedRev, today, lists, base>>,
           admitted' \in Requests \cup {NoRequest},
           Present(row), row.rev = rev + 1,
           \/ row.crev = rev + 1
           \/ /\ row.crev = cards[c].crev /\ row.text = cards[c].text
              /\ row.st = "live" => cards[c].st = "live"
    PROVE  CardsInv'
<1> USE DEF CardsInv, BoardTypeOK, RevTypeOK
<1>1. cards' \in [CardIds -> CardRows] /\ cards'[c] = row
  OBVIOUS
<1>2. BoardTypeOK'
  BY <1>1
<1>3. ASSUME NEW d \in CardIds PROVE Stamped(d)
  <2>1. CASE d = c
    BY <1>1, <2>1 DEF Stamped
  <2>2. CASE d # c
    BY <2>2 DEF Stamped
  <2> QED
    BY <2>1, <2>2
<1> QED
  BY <1>2, <1>3, StampsKeep

\* A card that is in its table, deleted or not, is no destroyed one.
LEMMA PresentIsThere ==
    ASSUME CardsInv, NEW c \in CardIds, Present(cards[c])
    PROVE  unrecorded = unrecorded \ {c} /\ cards[c] \in CardRows
BY DEF CardsInv, RevsInv, BoardTypeOK

\* Each write of a handler's transaction stamps what it changes.
LEMMA WritesStamp ==
    ASSUME CardsInv, NEW q \in Requests, Takes(q), Writes(q),
           UNCHANGED <<reapedRev, today, base>>, admitted' \in Requests \cup {NoRequest}
    PROVE  CardsInv'
<1>0. rev \in Nat /\ today \in Nat /\ rev + 1 \in Nat
  BY DEF CardsInv, BoardTypeOK, RevTypeOK
<1>1. CASE q.op = "createCard" /\ CreateCard(q)
  <2>1. q.list \in ListIds /\ q.text \in Texts
    BY <1>1 DEF Requests
  <2> DEFINE row == [st |-> "live", day |-> 0, list |-> q.list, text |-> q.text,
                     sets |-> {}, rev |-> rev + 1, crev |-> rev + 1]
  <2>2. PICK c \in CardIds :
           /\ rev' = rev + 1
           /\ cards' = [cards EXCEPT ![c] = row]
           /\ unrecorded' = unrecorded \ {c}
           /\ UNCHANGED lists
    BY <1>1 DEF CreateCard, Written
  <2>3. row \in CardRows
    BY <1>0, <2>1 DEF CardRows
  <2> QED
    BY <2>2, <2>3, OneCardStamped DEF Present
<1>2. CASE q.op = "editCard" /\ EditCard(q)
  <2>1. q.card \in CardIds /\ q.text \in Texts
    BY <1>2 DEF Requests
  <2>2. Present(cards[q.card]) /\ cards[q.card] \in CardRows /\ unrecorded = unrecorded \ {q.card}
    BY <1>2, <2>1, PresentIsThere DEF Takes, Present
  <2> DEFINE row == [cards[q.card] EXCEPT !.text = q.text, !.rev = rev + 1, !.crev = rev + 1]
  <2>3. row \in CardRows /\ Present(row)
    <3>1. row \in CardRows /\ row.st = cards[q.card].st
      BY <1>0, <2>1, <2>2, EditedIsARow, Zenon
    <3> QED
      BY <2>2, <3>1 DEF Present
  <2>4. cards' = [cards EXCEPT ![q.card] = row]
    BY <1>2, <2>1, <2>2 DEF EditCard, Written, CardRows
  <2>5. /\ row.rev = rev + 1
        /\ \/ row.crev = rev + 1
           \/ /\ row.crev = cards[q.card].crev /\ row.text = cards[q.card].text
              /\ row.st = "live" => cards[q.card].st = "live"
    BY <2>2 DEF CardRows
  <2> HIDE DEF row
  <2> QED
    BY <1>2, <2>1, <2>2, <2>3, <2>4, <2>5, OneCardStamped DEF EditCard
<1>3. CASE q.op = "moveCard" /\ MoveCard(q)
  <2>1. q.card \in CardIds /\ q.list \in ListIds
    BY <1>3 DEF Requests
  <2>2. Present(cards[q.card]) /\ cards[q.card] \in CardRows /\ unrecorded = unrecorded \ {q.card}
    BY <1>3, <2>1, PresentIsThere DEF Takes, Present
  <2> DEFINE row == [cards[q.card] EXCEPT !.list = q.list, !.rev = rev + 1]
  <2>3. row \in CardRows /\ Present(row)
    <3>1. row \in CardRows /\ row.st = cards[q.card].st
      BY <1>0, <2>1, <2>2, MovedIsARow, Zenon
    <3> QED
      BY <2>2, <3>1 DEF Present
  <2>4. cards' = [cards EXCEPT ![q.card] = row]
    BY <1>3, <2>1, <2>2 DEF MoveCard, Moved, CardRows
  <2>5. /\ row.rev = rev + 1
        /\ \/ row.crev = rev + 1
           \/ /\ row.crev = cards[q.card].crev /\ row.text = cards[q.card].text
              /\ row.st = "live" => cards[q.card].st = "live"
    BY <2>2 DEF CardRows
  <2> HIDE DEF row
  <2> QED
    BY <1>3, <2>1, <2>2, <2>3, <2>4, <2>5, OneCardStamped DEF MoveCard
<1>4. CASE q.op = "deleteCard" /\ DeleteCard(q)
  <2>1. q.card \in CardIds
    BY <1>4 DEF Requests
  <2>2. Present(cards[q.card]) /\ cards[q.card] \in CardRows /\ unrecorded = unrecorded \ {q.card}
    BY <1>4, <2>1, PresentIsThere DEF Takes, Present
  <2> DEFINE row == [cards[q.card] EXCEPT !.st = "dead", !.day = today, !.rev = rev + 1]
  <2>3. row \in CardRows /\ Present(row)
    <3>1. row \in CardRows /\ row.st = "dead"
      BY <1>0, <2>1, <2>2, DeadIsARow, Zenon
    <3> QED
      BY <2>2, <3>1 DEF Present
  <2>4. cards' = [cards EXCEPT ![q.card] = row]
    BY <1>4, <2>1, <2>2 DEF DeleteCard, Moved, Tombstone, CardRows
  <2>5. /\ row.rev = rev + 1
        /\ \/ row.crev = rev + 1
           \/ /\ row.crev = cards[q.card].crev /\ row.text = cards[q.card].text
              /\ row.st = "live" => cards[q.card].st = "live"
    BY <2>2 DEF CardRows
  <2> HIDE DEF row
  <2> QED
    BY <1>4, <2>1, <2>2, <2>3, <2>4, <2>5, OneCardStamped DEF DeleteCard
<1>5. CASE q.op = "setMarks" /\ SetMarks(q)
  <2>1. CASE ~(cards[q.card].sets = {} /\ q.marks = {})
    <3>1. q.card \in CardIds /\ q.marks \in SUBSET Marks
      BY <1>5, <2>1 DEF Requests
    <3>2. Present(cards[q.card]) /\ cards[q.card] \in CardRows /\ unrecorded = unrecorded \ {q.card}
      BY <1>5, <2>1, <3>1, PresentIsThere DEF Takes, Present
    <3> DEFINE row == [cards[q.card] EXCEPT !.sets = q.marks, !.rev = rev + 1]
    <3>3. row \in CardRows /\ Present(row)
      <4>1. row \in CardRows /\ row.st = cards[q.card].st
        BY <1>0, <3>1, <3>2, MarkedIsARow, Zenon
      <4> QED
        BY <3>2, <4>1 DEF Present
    <3>4. cards' = [cards EXCEPT ![q.card] = row]
      BY <1>5, <2>1, <3>1, <3>2 DEF SetMarks, Moved, CardRows
    <3>5. /\ row.rev = rev + 1
          /\ \/ row.crev = rev + 1
             \/ /\ row.crev = cards[q.card].crev /\ row.text = cards[q.card].text
                /\ row.st = "live" => cards[q.card].st = "live"
      BY <3>2 DEF CardRows
    <3> HIDE DEF row
    <3> QED
      BY <1>5, <2>1, <3>1, <3>2, <3>3, <3>4, <3>5, OneCardStamped DEF SetMarks
  <2>2. CASE cards[q.card].sets = {} /\ q.marks = {}
    <3>1. UNCHANGED <<rev, cards, lists, unrecorded>>
      BY <1>5, <2>2 DEF SetMarks
    <3>2. BoardTypeOK'
      BY <3>1 DEF CardsInv, BoardTypeOK, RevTypeOK
    <3> QED
      BY <1>0, <3>1, <3>2, StampsKeep DEF Stamped, CardsInv, BoardTypeOK, RevTypeOK
  <2> QED
    BY <2>1, <2>2
<1>6. CASE q.op = "deleteList" /\ DeleteList(q)
  <2> USE DEF CardsInv, BoardTypeOK, RevTypeOK
  <2>1. q.list \in ListIds /\ lists[q.list] \in ListRows
    BY <1>6 DEF Requests
  <2> DEFINE hit == {c \in CardIds : cards[c].st = "live" /\ cards[c].list = q.list}
  <2>2. /\ rev' = IF hit = {} THEN rev ELSE rev + 1
        /\ cards' = [c \in CardIds |->
                IF c \in hit THEN Moved(Tombstone(cards[c]), rev + 1) ELSE cards[c]]
        /\ lists' = [lists EXCEPT ![q.list] = Tombstone(@)]
        /\ unrecorded' = unrecorded
    BY <1>6 DEF DeleteList
  <2>3. ASSUME NEW c \in hit
        PROVE  /\ cards'[c] = [cards[c] EXCEPT !.st = "dead", !.day = today, !.rev = rev + 1]
               /\ cards'[c] \in CardRows /\ rev' = rev + 1 /\ Present(cards[c])
    <3>1. cards[c] \in CardRows /\ today \in Nat /\ rev \in Nat
      BY <2>3 DEF CardsInv, BoardTypeOK, RevTypeOK
    <3>5. rev + 1 \in Nat
      BY <3>1
    <3>2. cards'[c] = Moved(Tombstone(cards[c]), rev + 1)
      BY <2>2, <2>3
    <3>3. Moved(Tombstone(cards[c]), rev + 1)
             = [cards[c] EXCEPT !.st = "dead", !.day = today, !.rev = rev + 1]
      BY <3>1 DEF Moved, Tombstone, CardRows
    <3>4. [cards[c] EXCEPT !.st = "dead", !.day = today, !.rev = rev + 1] \in CardRows
      BY <3>1, <3>5, DeadIsARow, Zenon
    <3> QED
      BY <2>2, <2>3, <3>2, <3>3, <3>4 DEF Present
  <2>4. BoardTypeOK'
    <3>1. lists' \in [ListIds -> ListRows]
      BY <2>1, <2>2 DEF Tombstone, ListRows
    <3>2. cards' \in [CardIds -> CardRows]
      BY <2>2, <2>3
    <3> QED
      BY <2>2, <3>1, <3>2
  <2>5. ASSUME NEW d \in CardIds PROVE Stamped(d)
    <3>1. CASE d \notin hit
      BY <3>1, <2>2 DEF Stamped
    <3>2. CASE d \in hit
      <4>1. cards[d] \in CardRows /\ d \notin unrecorded
        BY <3>2, <2>3, PresentIsThere
      <4>2. cards'[d].st = "dead" /\ cards'[d].rev = rev + 1 /\ rev' = rev + 1
            /\ cards'[d].crev = cards[d].crev /\ cards'[d].text = cards[d].text
        <5>1. cards'[d] = [cards[d] EXCEPT !.st = "dead", !.day = today, !.rev = rev + 1]
          BY <3>2, <2>3
        <5> QED BY <3>2, <2>3, <4>1, <5>1 DEF CardRows
      <4> QED
        BY <2>2, <4>1, <4>2 DEF Stamped, Present
    <3> QED
      BY <3>1, <3>2
  <2> QED
    BY <2>2, <2>4, <2>5, StampsKeep
<1> QED
  BY <1>1, <1>2, <1>3, <1>4, <1>5, <1>6 DEF Writes

\* A mark taken off a card that has it is stamped.
LEMMA UnmarkStamps ==
    ASSUME CardsInv, NEW c \in CardIds, NEW ms \in SUBSET Marks,
           cards'[c] = Unmarked(cards[c], ms), unrecorded' \cap {c} = unrecorded \cap {c},
           cards[c].sets \cap ms # {} => rev' = rev + 1
    PROVE  cards'[c] \in CardRows /\ Stamped(c)
<1>1. cards[c] \in CardRows /\ rev \in Nat
  BY DEF CardsInv, BoardTypeOK, RevTypeOK
<1>2. CASE cards[c].sets \cap ms = {}
  BY <1>1, <1>2 DEF Unmarked, Stamped
<1>3. CASE cards[c].sets \cap ms # {}
  <2>1. cards'[c] = [cards[c] EXCEPT !.sets = cards[c].sets \ ms, !.rev = rev + 1]
    BY <1>1, <1>3 DEF Unmarked, Moved, CardRows
  <2>2. Present(cards[c]) /\ c \notin unrecorded
    <3>1. cards[c] # NoRow
      <4>1. NoRow.sets = {}
        BY DEF NoRow
      <4> QED
        BY <1>3, <4>1
    <3> QED
      BY <3>1 DEF CardsInv, RevsInv
  <2>3. cards'[c] \in CardRows
    <3>1. cards[c].sets \ ms \in SUBSET Marks /\ rev + 1 \in Nat
      BY <1>1 DEF CardRows
    <3>2. [cards[c] EXCEPT !.sets = cards[c].sets \ ms, !.rev = rev + 1] \in CardRows
      BY <1>1, <3>1, MarkedIsARow, Zenon
    <3> QED
      BY <2>1, <3>2, Zenon
  <2>4. /\ cards'[c].st = cards[c].st /\ cards'[c].rev = rev + 1
        /\ cards'[c].crev = cards[c].crev /\ cards'[c].text = cards[c].text
    BY <1>1, <2>1 DEF CardRows
  <2>5. rev' = rev + 1 /\ c \notin unrecorded'
    BY <1>3, <2>2
  <2> QED
    BY <2>2, <2>3, <2>4, <2>5 DEF Stamped, Present
<1> QED
  BY <1>2, <1>3

\* The reaper: what it destroys the device has heard of or will not trust its
\* number for; what it keeps is stamped or left alone.
LEMMA ReapKeeps ==
    ASSUME CardsInv, NEW ms \in SUBSET Marks, Reap(ms)
    PROVE  CardsInv'
<1> USE DEF CardsInv
<1> DEFINE expired == {c \in CardIds : Expired(cards[c])}
           lost == {l \in ListIds : Expired(lists[l])}
           cascaded == {c \in CardIds \ expired : Present(cards[c]) /\ cards[c].list \in lost}
           kept == CardIds \ (expired \cup cascaded)
<1>1. /\ reapedRev' = HighestOf({cards[c].rev : c \in expired})
      /\ rev' = IF \E c \in kept : cards[c].sets \cap ms # {} THEN rev + 1 ELSE rev
      /\ cards' = [c \in CardIds |-> IF c \in kept THEN Unmarked(cards[c], ms) ELSE NoRow]
      /\ lists' = [l \in ListIds |-> IF l \in lost THEN [st |-> "none", day |-> 0] ELSE lists[l]]
      /\ unrecorded' = unrecorded \cup cascaded
      /\ UNCHANGED <<today, admitted, base>>
  BY DEF Reap
<1>2. /\ rev \in Nat /\ reapedRev \in 0..rev /\ today \in Nat
      /\ base.rev \in Nat \cup {Full} /\ base.rev <= rev
      /\ rev' \in {rev, rev + 1}
  BY <1>1 DEF BoardTypeOK, RevTypeOK, RevsInv
<1>3. ASSUME NEW c \in CardIds
      PROVE  /\ cards[c] \in CardRows /\ cards[c].rev \in 0..rev
             /\ cards[c].rev \in Nat /\ cards[c].crev \in Nat
  BY <1>2 DEF BoardTypeOK, CardRows, RevsInv
<1>4. /\ reapedRev' \in reapedRev..rev
      /\ \A c \in expired : cards[c].rev <= reapedRev'
  <2>1. {cards[c].rev : c \in expired} \subseteq 0..rev
    BY <1>3
  <2> QED
    BY <1>1, <1>2, <2>1, HighestCovers
<1>5. ASSUME NEW c \in kept PROVE cards'[c] \in CardRows /\ Stamped(c)
  <2>1. cards'[c] = Unmarked(cards[c], ms)
    BY <1>1, <1>5
  <2>2. unrecorded' \cap {c} = unrecorded \cap {c}
    BY <1>1, <1>5
  <2>3. cards[c].sets \cap ms # {} => rev' = rev + 1
    BY <1>1, <1>5
  <2> QED
    BY <1>5, <2>1, <2>2, <2>3, UnmarkStamps
<1>6. ASSUME NEW c \in CardIds \ kept
      PROVE  cards'[c] = NoRow /\ ~Present(cards'[c])
  BY <1>1, <1>6 DEF NoRow, Present
<1>7. BoardTypeOK'
  <2>1. cards' \in [CardIds -> CardRows]
    BY <1>1, <1>5, <1>6, NoRowIsARow
  <2>2. lists' \in [ListIds -> ListRows]
    BY <1>1 DEF BoardTypeOK, ListRows
  <2> QED
    BY <1>1, <1>2, <1>4, <2>1, <2>2 DEF BoardTypeOK, RevTypeOK
<1>8. RevsInv'
  <2>1. ASSUME NEW c \in CardIds
        PROVE  /\ cards'[c].crev <= cards'[c].rev /\ cards'[c].rev <= rev'
               /\ ~Present(cards'[c]) => cards'[c] = NoRow
               /\ c \in unrecorded' => ~Present(cards'[c])
    <3>1. CASE c \in kept
      <4>1. cards'[c].rev \in Nat /\ cards'[c].crev \in Nat
        BY <3>1, <1>5 DEF CardRows
      <4>2. c \in unrecorded' <=> c \in unrecorded
        BY <1>1, <3>1
      <4> QED
        BY <3>1, <1>2, <1>3, <1>5, <4>1, <4>2 DEF Stamped, RevsInv
    <3>2. CASE c \notin kept
      BY <3>2, <1>2, <1>6 DEF NoRow
    <3> QED
      BY <3>1, <3>2
  <2> QED
    BY <1>1, <1>2, <2>1 DEF RevsInv, Full
<1>9. HoldsUnchanged'
  <2>1. ASSUME NEW c \in CardIds, Present(cards'[c]), cards'[c].rev <= base.rev
        PROVE  base.cards[c] = FullRead'[c]
    <3>1. c \in kept
      BY <1>6, <2>1
    <3>2. cards'[c] = cards[c]
      BY <1>2, <1>5, <2>1, <3>1 DEF Stamped, Full
    <3>3. FullRead'[c] = FullRead[c]
      BY <3>2 DEF FullRead, Seen
    <3> QED
      BY <2>1, <3>2, <3>3 DEF HoldsUnchanged
  <2> QED
    BY <1>1, <2>1 DEF HoldsUnchanged
<1>10. HoldsText'
  <2>1. ASSUME NEW c \in CardIds, cards'[c].st = "live", cards'[c].crev <= base.rev,
               base.cards[c] # NoCard
        PROVE  base.cards[c].text = cards'[c].text
    <3>1. c \in kept
      BY <1>6, <2>1 DEF Present
    <3> QED
      BY <1>2, <1>3, <1>5, <2>1, <3>1 DEF Stamped, HoldsText, Full
  <2> QED
    BY <1>1, <2>1 DEF HoldsText
<1>11. HoldsNothingReaped'
  <2>1. ASSUME reapedRev' <= base.rev, NEW c \in CardIds, c \notin unrecorded',
               ~Present(cards'[c])
        PROVE  base.cards[c] = NoCard
    <3>1. CASE c \in kept
      <4>1. ~Present(cards[c]) /\ c \notin unrecorded
        BY <3>1, <1>5, <2>1 DEF Stamped
      <4>2. reapedRev <= base.rev
        BY <1>2, <1>4, <2>1 DEF Full
      <4> QED
        BY <4>1, <4>2 DEF HoldsNothingReaped
    <3>2. CASE c \in expired
      <4>1. cards[c].rev <= base.rev
        BY <3>2, <1>2, <1>3, <1>4, <2>1 DEF Full
      <4>2. Present(cards[c]) /\ cards[c].st # "live"
        BY <3>2 DEF Expired, Present
      <4> QED
        BY <4>1, <4>2 DEF HoldsUnchanged, FullRead
    <3>3. CASE c \in cascaded
      BY <3>3, <1>1, <2>1
    <3> QED
      BY <3>1, <3>2, <3>3
  <2> QED
    BY <1>1, <2>1 DEF HoldsNothingReaped
<1> QED
  BY <1>7, <1>8, <1>9, <1>10, <1>11

\* The device takes an answer.
LEMMA FetchKeeps == CardsInv /\ FetchSnapshot => CardsInv'
<1> SUFFICES ASSUME CardsInv, FetchSnapshot PROVE CardsInv'
  OBVIOUS
<1> USE DEF CardsInv
<1>1. /\ base' = [rev |-> rev, cards |-> Fetched]
      /\ UNCHANGED <<revVars, lists, cards, admitted, unrecorded>>
  BY DEF FetchSnapshot
<1>2. rev' = rev /\ reapedRev' = reapedRev /\ today' = today /\ rev \in Nat /\ reapedRev \in 0..rev
  BY <1>1 DEF revVars, BoardTypeOK, RevTypeOK
<1>3. ASSUME NEW c \in CardIds PROVE Fetched[c] \in CardsSeen \cup {NoCard}
  <2>1. Seen(c) \in CardsSeen
    BY DEF BoardTypeOK, CardRows, Seen, CardsSeen
  <2>2. base.cards[c] \in CardsSeen \cup {NoCard} /\ cards[c] \in CardRows
    BY DEF BoardTypeOK
  <2> DEFINE since == DeltaBase(base.rev)
  <2>3. CASE since = Full \/ Mismatch(base.cards, since)
    BY <2>1, <2>3 DEF Fetched, FullRead
  <2>4. CASE ~(since = Full \/ Mismatch(base.cards, since))
    <3>1. Fetched[c] = MergedCard(c, base.cards, since)
      BY <2>4 DEF Fetched
    <3>2. InDelta(c, since) \in {"nothing", "gone", "whole", "same"}
      BY DEF InDelta
    <3>3. CASE InDelta(c, since) = "same"
      <4>1. base.cards[c] \in CardsSeen
        BY <2>2, <2>4, <3>3 DEF Mismatch
      <4>2. [base.cards[c] EXCEPT !.list = cards[c].list, !.sets = cards[c].sets] \in CardsSeen
        BY <2>2, <4>1 DEF CardsSeen, CardRows
      <4> QED
        BY <3>1, <3>3, <4>2 DEF MergedCard
    <3>4. CASE InDelta(c, since) # "same"
      BY <2>1, <2>2, <3>1, <3>2, <3>4 DEF MergedCard
    <3> QED
      BY <3>3, <3>4
  <2> QED
    BY <2>3, <2>4
<1>4. BoardTypeOK'
  <2>1. Fetched \in [CardIds -> CardsSeen \cup {NoCard}]
    BY <1>3 DEF Fetched, FullRead
  <2> QED
    BY <1>1, <1>2, <2>1 DEF BoardTypeOK, RevTypeOK
<1>5. ASSUME NEW c \in CardIds, c \notin unrecorded PROVE Fetched[c] = FullRead[c]
  BY <1>5, InvReadsAsFull DEF DeltaReadsAsFull
<1>6. FullRead' = FullRead
  BY <1>1 DEF FullRead, Seen
<1>7. ASSUME NEW c \in CardIds, Present(cards[c]) PROVE Fetched[c] = FullRead[c]
  BY <1>5, <1>7 DEF RevsInv
<1>8. RevsInv'
  BY <1>1, <1>2 DEF RevsInv
<1>9. HoldsUnchanged'
  BY <1>1, <1>6, <1>7 DEF HoldsUnchanged
<1>10. HoldsText'
  <2>1. ASSUME NEW c \in CardIds, cards[c].st = "live"
        PROVE  Fetched[c].text = cards[c].text
    <3>1. Fetched[c] = Seen(c)
      BY <1>7, <2>1 DEF FullRead, Present
    <3> QED
      BY <3>1 DEF Seen
  <2> QED
    BY <1>1, <2>1 DEF HoldsText
<1>11. HoldsNothingReaped'
  <2>1. ASSUME NEW c \in CardIds, c \notin unrecorded, ~Present(cards[c])
        PROVE  Fetched[c] = NoCard
    BY <1>5, <2>1 DEF FullRead, Present
  <2> QED
    BY <1>1, <2>1 DEF HoldsNothingReaped
<1> QED
  BY <1>4, <1>8, <1>9, <1>10, <1>11

-----------------------------------------------------------------------------
LEMMA CardsInitInv == CardsInit => CardsInv
<1> SUFFICES ASSUME CardsInit PROVE CardsInv
  OBVIOUS
<1> USE DEF CardsInit, RevInit
<1>1. BoardTypeOK
  BY NoRowIsARow DEF BoardTypeOK, RevTypeOK, ListRows, Full
<1>2. RevsInv
  BY DEF RevsInv, NoRow, Full, Present
<1>3. HoldsUnchanged /\ HoldsText /\ HoldsNothingReaped
  BY DEF HoldsUnchanged, HoldsText, HoldsNothingReaped, NoRow, Present
<1> QED
  BY <1>1, <1>2, <1>3 DEF CardsInv

LEMMA CardsStepInv == CardsInv /\ [CardsNext]_<<revVars, cardsVars>> => CardsInv'
<1> SUFFICES ASSUME CardsInv, [CardsNext]_<<revVars, cardsVars>> PROVE CardsInv'
  OBVIOUS
<1>1. ASSUME NEW q \in Requests, Handle(q) PROVE CardsInv'
  BY <1>1, WritesStamp DEF Handle, CardsInv, BoardTypeOK
<1>2. ASSUME NEW q \in Requests, Admit(q) PROVE CardsInv'
  <2>1. BoardTypeOK'
    BY <1>2 DEF Admit, revVars, CardsInv, BoardTypeOK, RevTypeOK
  <2> QED
    BY <1>2, <2>1, StampsKeep DEF Admit, revVars, Stamped, CardsInv, BoardTypeOK, RevTypeOK
<1>3. CASE Commit
  <2>1. CASE Takes(admitted)
    BY <1>3, <2>1, WritesStamp DEF Commit, CardsInv, BoardTypeOK
  <2>2. CASE ~Takes(admitted)
    <3>1. BoardTypeOK'
      BY <1>3, <2>2 DEF Commit, CardsInv, BoardTypeOK, RevTypeOK
    <3> QED
      BY <1>3, <2>2, <3>1, StampsKeep DEF Commit, Stamped, CardsInv, BoardTypeOK, RevTypeOK
  <2> QED
    BY <2>1, <2>2
<1>4. CASE CreateList
  <2>1. BoardTypeOK'
    BY <1>4 DEF CreateList, revVars, CardsInv, BoardTypeOK, RevTypeOK, ListRows
  <2> QED
    BY <1>4, <2>1, StampsKeep DEF CreateList, revVars, Stamped, CardsInv, BoardTypeOK, RevTypeOK
<1>5. ASSUME NEW m \in Marks, DropMark(m) PROVE CardsInv'
  <2>1. ASSUME NEW c \in CardIds PROVE cards'[c] \in CardRows /\ Stamped(c)
    <3>1. cards'[c] = Unmarked(cards[c], {m}) /\ unrecorded' = unrecorded /\ rev' = rev + 1
      BY <1>5 DEF DropMark
    <3> QED
      BY <3>1, UnmarkStamps
  <2>2. BoardTypeOK'
    <3>1. cards' \in [CardIds -> CardRows]
      BY <1>5, <2>1 DEF DropMark
    <3>2. /\ rev' = rev + 1 /\ reapedRev' = reapedRev /\ today' = today /\ lists' = lists
          /\ admitted' = admitted /\ base' = base /\ unrecorded' = unrecorded
      BY <1>5 DEF DropMark
    <3>3. RevTypeOK'
      BY <3>2 DEF CardsInv, BoardTypeOK, RevTypeOK
    <3> QED
      BY <3>1, <3>2, <3>3 DEF CardsInv, BoardTypeOK
  <2>3. base' = base /\ rev' \in {rev, rev + 1} /\ reapedRev <= reapedRev'
    <3>1. rev' = rev + 1 /\ reapedRev' = reapedRev /\ base' = base
      BY <1>5 DEF DropMark
    <3> QED
      BY <3>1 DEF CardsInv, BoardTypeOK, RevTypeOK
  <2>4. \A c \in CardIds : Stamped(c)
    BY <2>1
  <2> QED
    BY <2>2, <2>3, <2>4, StampsKeep
<1>6. CASE CommentsChange
  <2>1. BoardTypeOK' /\ rev' \in {rev, rev + 1} /\ reapedRev <= reapedRev' /\ base' = base
    BY <1>6 DEF CommentsChange, cardsVars, CardsInv, BoardTypeOK, RevTypeOK
  <2>2. \A c \in CardIds : Stamped(c)
    BY <1>6 DEF CommentsChange, cardsVars, Stamped
  <2> QED
    BY <2>1, <2>2, StampsKeep
<1>7. ASSUME NEW ms \in SUBSET Marks, Reap(ms) PROVE CardsInv'
  BY <1>7, ReapKeeps
<1>8. CASE NextDay
  <2>1. BoardTypeOK'
    BY <1>8 DEF NextDay, cardsVars, CardsInv, BoardTypeOK, RevTypeOK
  <2> QED
    BY <1>8, <2>1, StampsKeep DEF NextDay, cardsVars, Stamped, CardsInv, BoardTypeOK, RevTypeOK
<1>9. CASE FetchSnapshot
  BY <1>9, FetchKeeps
<1>10. CASE UNCHANGED <<revVars, cardsVars>>
  <2>1. BoardTypeOK'
    BY <1>10 DEF revVars, cardsVars, CardsInv, BoardTypeOK, RevTypeOK
  <2> QED
    BY <1>10, <2>1, StampsKeep
    DEF revVars, cardsVars, Stamped, CardsInv, BoardTypeOK, RevTypeOK
<1> QED
  BY <1>1, <1>2, <1>3, <1>4, <1>5, <1>6, <1>7, <1>8, <1>9, <1>10 DEF CardsNext

LEMMA Invariance == CardsSpec => []CardsInv
  BY CardsInitInv, CardsStepInv, PTL DEF CardsSpec

\* The board's numbers, cards, lists and the device's base have their types.
THEOREM TypeCorrect == CardsSpec => []BoardTypeOK
  BY Invariance, PTL DEF CardsInv

\* ADR 0023: at every moment, whatever was written, raced, deleted and reaped,
\* the device's next fetch makes of its base the full snapshot, for every card
\* but one that fell with a reaped list unrecorded.
THEOREM DeltaIsTheBoard == CardsSpec => []DeltaReadsAsFull
<1>1. CardsInv => DeltaReadsAsFull
  BY InvReadsAsFull
<1> QED
  BY Invariance, <1>1, PTL

-----------------------------------------------------------------------------
(***************************************************************************)
(* Proofs about BoardComments, for any cards, sessions, comments and       *)
(* bounds: a reply never loses the root it answers.                        *)
(*                                                                         *)
(* A reply is checked before its transaction, when its root may yet be     *)
(* deleted and destroyed.  It is safe all the same: an id is never given   *)
(* twice, so a destroyed root fails the foreign key, and a root that is    *)
(* still there is the one that was checked, as no handler changes what a   *)
(* comment answers or the card it is on.  The reaper takes a root by its   *)
(* card, which takes its replies too, by its session, where the foreign    *)
(* key stops it, or by its age, when no reply stays.                       *)
(***************************************************************************)

TablesOK ==
    /\ rev \in Nat
    /\ today \in Nat
    /\ lastId \in 0..MaxEvent
    /\ events \in [EventIds -> EventRows]
    /\ asked \in CommentRequests \cup {NoRequest}

\* AUTOINCREMENT: nothing is there above the last id.
NothingAbove == \A e \in EventIds : e > lastId => ~Present(events[e])

\* A reply that waits for the lock was checked: its root, if still there, is a
\* root on its card.
AskedWasChecked ==
    (asked # NoRequest /\ asked.op = "add" /\ asked.root # None) =>
        /\ asked.root <= lastId
        /\ Present(events[asked.root]) =>
               events[asked.root].root = None /\ events[asked.root].card = asked.card

CommentsInv == TablesOK /\ NothingAbove /\ AskedWasChecked /\ RepliesHaveTheirRoot

-----------------------------------------------------------------------------
LEMMA NoEventIsARow == NoEvent \in EventRows /\ ~Present(NoEvent)
  BY DEF NoEvent, EventRows, Present

\* A step that leaves every comment in its table, on its card, answering what
\* it answered.
LEMMA RewritesKeep ==
    ASSUME CommentsInv, TablesOK', lastId' = lastId, asked' \in {asked, NoRequest},
           \A e \in EventIds : /\ Present(events'[e]) <=> Present(events[e])
                               /\ events'[e].card = events[e].card
                               /\ events'[e].root = events[e].root
    PROVE  CommentsInv'
<1> USE DEF CommentsInv
<1>1. NothingAbove'
  BY DEF NothingAbove
<1>2. AskedWasChecked'
  <2> SUFFICES ASSUME asked' # NoRequest, asked'.op = "add", asked'.root # None
               PROVE  /\ asked'.root <= lastId'
                      /\ Present(events'[asked'.root]) =>
                            /\ events'[asked'.root].root = None
                            /\ events'[asked'.root].card = asked'.card
    BY DEF AskedWasChecked
  <2>1. asked' = asked
    OBVIOUS
  <2>2. asked.root \in EventIds
    BY <2>1 DEF TablesOK, CommentRequests
  <2> QED
    BY <2>1, <2>2 DEF AskedWasChecked
<1>3. RepliesHaveTheirRoot'
  <2> SUFFICES ASSUME NEW r \in EventIds, Present(events'[r]), events'[r].root # None
               PROVE  /\ IsRoot(events[r].root)'
                      /\ events'[events'[r].root].card = events'[r].card
    BY DEF RepliesHaveTheirRoot
  <2>1. events[r].root \in EventIds /\ IsRoot(events[r].root)
        /\ events[events[r].root].card = events[r].card
    BY DEF RepliesHaveTheirRoot, TablesOK, EventRows
  <2> QED
    BY <2>1 DEF IsRoot
<1> QED
  BY <1>1, <1>2, <1>3

\* A step that adds one comment, whose root is checked and still there.
LEMMA AddingKeeps ==
    ASSUME CommentsInv, lastId < MaxEvent, lastId' = lastId + 1, NEW row \in EventRows,
           events' = [events EXCEPT ![lastId'] = row],
           rev' \in Nat, today' = today, asked' \in {asked, NoRequest},
           row.root # None =>
               /\ Present(events[row.root]) /\ events[row.root].root = None
               /\ events[row.root].card = row.card
    PROVE  CommentsInv'
<1> USE DEF CommentsInv
<1>1. lastId \in 0..MaxEvent /\ lastId' \in EventIds /\ MaxEvent \in Nat
  BY CommentBounds DEF TablesOK, EventIds
<1>2. TablesOK'
  BY <1>1 DEF TablesOK
<1>3. /\ events'[lastId'] = row
      /\ ~Present(events[lastId'])
      /\ \A e \in EventIds : e # lastId' => events'[e] = events[e]
  <2>1. lastId' > lastId
    BY <1>1
  <2> QED
    BY <1>1, <2>1 DEF TablesOK, NothingAbove
<1>4. NothingAbove'
  <2> SUFFICES ASSUME NEW e \in EventIds, e > lastId' PROVE ~Present(events'[e])
    BY DEF NothingAbove
  <2>1. e > lastId /\ e # lastId'
    BY <1>1 DEF EventIds
  <2> QED
    BY <1>3, <2>1 DEF NothingAbove
<1>5. AskedWasChecked'
  <2> SUFFICES ASSUME asked' # NoRequest, asked'.op = "add", asked'.root # None
               PROVE  /\ asked'.root <= lastId'
                      /\ Present(events'[asked'.root]) =>
                            /\ events'[asked'.root].root = None
                            /\ events'[asked'.root].card = asked'.card
    BY DEF AskedWasChecked
  <2>1. asked' = asked
    OBVIOUS
  <2>2. asked.root \in EventIds /\ asked.root <= lastId
    BY <2>1 DEF TablesOK, CommentRequests, AskedWasChecked
  <2>3. asked.root # lastId' /\ asked.root <= lastId'
    BY <1>1, <2>2 DEF EventIds
  <2> QED
    BY <1>3, <2>1, <2>2, <2>3 DEF AskedWasChecked
<1>6. RepliesHaveTheirRoot'
  <2> SUFFICES ASSUME NEW r \in EventIds, Present(events'[r]), events'[r].root # None
               PROVE  /\ IsRoot(events[r].root)'
                      /\ events'[events'[r].root].card = events'[r].card
    BY DEF RepliesHaveTheirRoot
  <2> DEFINE root == events'[r].root
  <2>1. events'[r] \in EventRows
    BY <1>2 DEF TablesOK
  <2>2. root \in EventIds
    BY <2>1 DEF EventRows
  <2>3. Present(events[root]) /\ events[root].root = None
        /\ events[root].card = events'[r].card
    <3>1. CASE r = lastId'
      BY <1>3, <3>1
    <3>2. CASE r # lastId'
      BY <1>3, <3>2 DEF RepliesHaveTheirRoot, IsRoot
    <3> QED
      BY <3>1, <3>2
  <2>4. events'[root] = events[root]
    BY <1>3, <2>2, <2>3
  <2> QED
    BY <2>3, <2>4 DEF IsRoot
<1> QED
  BY <1>2, <1>4, <1>5, <1>6

-----------------------------------------------------------------------------
\* A handler's transaction, however long after its checks.
LEMMA WritesKeep ==
    ASSUME CommentsInv, NEW q \in CommentRequests, CommentTakes(q), CommentWrites(q),
           today' = today, asked' \in {asked, NoRequest},
           (q.op = "add" /\ q.root # None) =>
               (Present(events[q.root]) =>
                    events[q.root].root = None /\ events[q.root].card = q.card)
    PROVE  CommentsInv'
<1>1. /\ rev \in Nat /\ rev + 1 \in Nat /\ today \in Nat
      /\ events \in [EventIds -> EventRows]
      /\ asked' \in CommentRequests \cup {NoRequest}
  BY DEF CommentsInv, TablesOK
<1>2. CASE q.op = "add" /\ AddComment(q)
  <2>1. /\ q.card \in CardIds /\ q.root \in EventIds \cup {None}
        /\ q.sess \in SessionIds \cup {None} /\ q.text \in Texts
    BY <1>2 DEF CommentRequests
  <2> DEFINE row == [NoEvent EXCEPT !.st = "live", !.card = q.card, !.root = q.root,
                                    !.sess = q.sess, !.text = q.text, !.rev = rev']
  <2>3. rev' = rev + 1 /\ lastId' = lastId + 1 /\ events' = [events EXCEPT ![lastId'] = row]
    BY <1>2 DEF AddComment
  <2>2. row \in EventRows /\ row.root = q.root /\ row.card = q.card
    BY <1>1, <2>1, <2>3, NoEventIsARow DEF EventRows
  <2>4. lastId < MaxEvent /\ (q.root # None => Present(events[q.root]))
    BY <1>2 DEF CommentTakes
  <2> HIDE DEF row
  <2> QED
    BY <1>1, <1>2, <2>2, <2>3, <2>4, AddingKeeps
<1>3. CASE q.op = "note" /\ AddNote(q)
  <2>1. q.sess \in SessionIds /\ q.text \in Texts
    BY <1>3 DEF CommentRequests
  <2> DEFINE row == [NoEvent EXCEPT !.st = "live", !.sess = q.sess, !.text = q.text]
  <2>2. row \in EventRows /\ row.root = None
    <3>1. NoEvent.root = None
      BY DEF NoEvent
    <3> QED
      BY <2>1, <3>1, NoEventIsARow DEF EventRows
  <2>3. rev' = rev /\ lastId' = lastId + 1 /\ events' = [events EXCEPT ![lastId'] = row]
    BY <1>3 DEF AddNote
  <2>4. lastId < MaxEvent
    BY <1>3 DEF CommentTakes
  <2> HIDE DEF row
  <2> QED
    BY <1>1, <2>2, <2>3, <2>4, AddingKeeps
<1>4. CASE q.op = "edit" /\ EditComment(q)
  <2>1. q.event \in EventIds /\ q.text \in Texts /\ rev' = rev + 1 /\ lastId' = lastId
    BY <1>4 DEF CommentRequests, EditComment
  <2>2. events' = [events EXCEPT ![q.event].text = q.text, ![q.event].rev = rev + 1]
    BY <1>4 DEF EditComment
  <2>3. ASSUME NEW e \in EventIds
        PROVE  /\ events'[e] \in EventRows /\ events'[e].st = events[e].st
               /\ events'[e].card = events[e].card /\ events'[e].root = events[e].root
    BY <1>1, <2>1, <2>2 DEF EventRows
  <2>4. TablesOK'
    BY <1>1, <2>1, <2>2, <2>3 DEF TablesOK, CommentsInv
  <2> QED
    BY <2>1, <2>3, <2>4, RewritesKeep DEF Present
<1>5. CASE q.op = "tag" /\ TagComment(q)
  <2>1. q.event \in EventIds /\ q.sess \in SessionIds \cup {None}
        /\ rev' = rev /\ lastId' = lastId
    BY <1>5 DEF CommentRequests, TagComment
  <2>2. events' = [events EXCEPT ![q.event].sess = q.sess]
    BY <1>5 DEF TagComment
  <2>3. ASSUME NEW e \in EventIds
        PROVE  /\ events'[e] \in EventRows /\ events'[e].st = events[e].st
               /\ events'[e].card = events[e].card /\ events'[e].root = events[e].root
    BY <1>1, <2>1, <2>2 DEF EventRows
  <2>4. TablesOK'
    BY <1>1, <2>1, <2>2, <2>3 DEF TablesOK, CommentsInv
  <2> QED
    BY <2>1, <2>3, <2>4, RewritesKeep DEF Present
<1>6. CASE q.op = "delete" /\ DeleteComment(q)
  <2>1. q.event \in EventIds /\ rev' = rev + 1 /\ lastId' = lastId
        /\ events[q.event].st = "live"
    BY <1>6 DEF CommentRequests, DeleteComment, CommentTakes
  <2>2. events' = [events EXCEPT ![q.event] =
                [[@ EXCEPT !.st = "dead", !.day = today] EXCEPT !.text = Blank, !.rev = rev + 1]]
    BY <1>6 DEF DeleteComment, Tombstone
  <2>3. ASSUME NEW e \in EventIds
        PROVE  /\ events'[e] \in EventRows
               /\ (events'[e].st # "none") = (events[e].st # "none")
               /\ events'[e].card = events[e].card /\ events'[e].root = events[e].root
    BY <1>1, <2>1, <2>2 DEF EventRows
  <2>4. TablesOK'
    BY <1>1, <2>1, <2>2, <2>3 DEF TablesOK, CommentsInv
  <2> QED
    BY <2>1, <2>3, <2>4, RewritesKeep DEF Present
<1>7. CASE q.op = "deleteSession" /\ DeleteSession(q)
  <2> DEFINE notes == {e \in EventIds : events[e].st = "live" /\ events[e].sess = q.sess
                                        /\ events[e].card = None}
  <2>1. /\ rev' = IF notes = {} THEN rev ELSE rev + 1
        /\ lastId' = lastId
        /\ events' = [e \in EventIds |->
                IF e \in notes THEN [Tombstone(events[e]) EXCEPT !.rev = rev'] ELSE events[e]]
    BY <1>7 DEF DeleteSession
  <2>2. rev' \in Nat
    BY <1>1, <2>1
  <2>3. ASSUME NEW e \in EventIds
        PROVE  /\ events'[e] \in EventRows
               /\ (events'[e].st # "none") = (events[e].st # "none")
               /\ events'[e].card = events[e].card /\ events'[e].root = events[e].root
    <3>1. CASE e \notin notes
      BY <1>1, <2>1, <3>1
    <3>2. CASE e \in notes
      <4>1. events'[e] = [[events[e] EXCEPT !.st = "dead", !.day = today] EXCEPT !.rev = rev']
        BY <2>1, <3>2 DEF Tombstone
      <4>2. events[e] \in EventRows /\ events[e].st = "live"
        BY <1>1, <3>2
      <4> QED
        BY <1>1, <2>2, <4>1, <4>2 DEF EventRows
    <3> QED
      BY <3>1, <3>2
  <2>4. TablesOK'
    BY <1>1, <2>1, <2>2, <2>3 DEF TablesOK, CommentsInv
  <2> QED
    BY <2>1, <2>3, <2>4, RewritesKeep DEF Present
<1>8. CASE q.op = "deleteHome" /\ DeleteHome(q)
  <2>1. rev' = rev + 1 /\ UNCHANGED <<events, lastId>>
    BY <1>8 DEF DeleteHome
  <2>2. TablesOK'
    BY <1>1, <2>1 DEF TablesOK, CommentsInv
  <2> QED
    BY <2>1, <2>2, RewritesKeep
<1> QED
  BY <1>2, <1>3, <1>4, <1>5, <1>6, <1>7, <1>8 DEF CommentWrites

-----------------------------------------------------------------------------
\* The reaper destroys no root of a reply it keeps.
LEMMA ReapKeepsRoots ==
    ASSUME CommentsInv, ReapComments
    PROVE  CommentsInv'
<1> USE DEF CommentsInv
<1>1. /\ ~Dangling
      /\ events' = [e \in EventIds |-> IF e \in Destroyed THEN NoEvent ELSE events[e]]
      /\ UNCHANGED <<rev, today, lastId, asked>>
  BY DEF ReapComments
<1>2. NoEvent \in EventRows /\ ~Present(NoEvent)
  BY NoEventIsARow
<1>3. TablesOK'
  BY <1>1, <1>2 DEF TablesOK
<1>4. \A e \in EventIds : Present(events'[e]) => e \notin Destroyed /\ events'[e] = events[e]
  BY <1>1, <1>2
<1>5. NothingAbove'
  BY <1>1, <1>4 DEF NothingAbove
<1>6. AskedWasChecked'
  <2>1. (asked # NoRequest /\ asked.op = "add" /\ asked.root # None) => asked.root \in EventIds
    BY DEF TablesOK, CommentRequests
  <2> QED
    BY <1>1, <1>4, <2>1 DEF AskedWasChecked
<1>7. RepliesHaveTheirRoot'
  <2> SUFFICES ASSUME NEW r \in EventIds, Present(events'[r]), events'[r].root # None
               PROVE  /\ IsRoot(events[r].root)'
                      /\ events'[events'[r].root].card = events'[r].card
    BY DEF RepliesHaveTheirRoot
  <2> DEFINE root == events[r].root
  <2>1. r \notin Destroyed /\ events'[r] = events[r] /\ Present(events[r]) /\ root # None
    BY <1>4
  <2>2. /\ root \in EventIds /\ Present(events[root])
        /\ events[root].root = None /\ events[root].card = events[r].card
    BY <2>1 DEF RepliesHaveTheirRoot, IsRoot, TablesOK, EventRows
  <2>3. root \notin WithACard
    BY <2>1, <2>2 DEF Destroyed, WithACard
  <2>4. root \notin WithASession
    BY <1>1, <2>1 DEF Dangling, Destroyed
  <2>5. root \notin ExpiredComments
    <3>1. r \in EventIds \ (WithACard \cup WithASession)
      BY <2>1 DEF Destroyed
    <3>2. CASE Expired(events[r])
      \* An expired reply that stays is kept by a reply of its own, and has none.
      <4>1. r \notin ExpiredComments
        BY <2>1 DEF Destroyed
      <4>2. PICK s \in EventIds : Present(events[s]) /\ events[s].root = r
        BY <3>1, <3>2, <4>1 DEF ExpiredComments
      <4>3. r # None
        BY DEF EventIds, None
      <4>4. IsRoot(r)
        BY <4>2, <4>3 DEF RepliesHaveTheirRoot
      <4> QED
        BY <2>1, <4>4 DEF IsRoot
    <3>3. CASE ~Expired(events[r])
      BY <2>1, <3>1, <3>3 DEF ExpiredComments
    <3> QED
      BY <3>2, <3>3
  <2>6. events'[root] = events[root]
    BY <1>1, <2>2, <2>3, <2>4, <2>5 DEF Destroyed
  <2> QED
    BY <2>1, <2>2, <2>6 DEF IsRoot
<1> QED
  BY <1>3, <1>5, <1>6, <1>7

-----------------------------------------------------------------------------
LEMMA CommentsInitInv == CommentsInit => CommentsInv
<1> SUFFICES ASSUME CommentsInit PROVE CommentsInv
  OBVIOUS
<1>1. NoEvent \in EventRows /\ ~Present(NoEvent)
  BY NoEventIsARow
<1>2. TablesOK
  BY <1>1, CommentBounds DEF CommentsInit, RevInit, TablesOK
<1>3. \A e \in EventIds : ~Present(events[e])
  BY <1>1 DEF CommentsInit
<1> QED
  BY <1>2, <1>3 DEF CommentsInv, NothingAbove, AskedWasChecked, RepliesHaveTheirRoot,
                    CommentsInit

LEMMA CommentsStepInv == CommentsInv /\ [CommentsNext]_<<revVars, commentsVars>> => CommentsInv'
<1> SUFFICES ASSUME CommentsInv, [CommentsNext]_<<revVars, commentsVars>> PROVE CommentsInv'
  OBVIOUS
<1>1. ASSUME NEW q \in CommentRequests, HandleComment(q) PROVE CommentsInv'
  <2>1. (q.op = "add" /\ q.root # None) =>
            events[q.root].root = None /\ events[q.root].card = q.card
    BY <1>1 DEF HandleComment, CommentAdmitted, IsRoot
  <2> QED
    BY <1>1, <2>1, WritesKeep DEF HandleComment
<1>2. ASSUME NEW q \in CommentRequests, AdmitComment(q) PROVE CommentsInv'
  <2>1. UNCHANGED <<rev, today, lastId, events>> /\ asked' = q
    BY <1>2 DEF AdmitComment, revVars, tableVars
  <2>2. TablesOK' /\ NothingAbove' /\ RepliesHaveTheirRoot'
    BY <2>1 DEF CommentsInv, TablesOK, NothingAbove, RepliesHaveTheirRoot, IsRoot
  <2>3. AskedWasChecked'
    <3> SUFFICES ASSUME q.op = "add", q.root # None
                 PROVE  /\ q.root <= lastId
                        /\ events[q.root].root = None /\ events[q.root].card = q.card
      BY <2>1 DEF AskedWasChecked
    <3>1. q.root \in EventIds
      BY DEF CommentRequests
    <3>2. Present(events[q.root]) /\ events[q.root].root = None /\ events[q.root].card = q.card
      BY <1>2 DEF AdmitComment, CommentAdmitted, IsRoot
    <3>3. q.root <= lastId
      BY <3>1, <3>2, CommentBounds DEF CommentsInv, NothingAbove, TablesOK, EventIds
    <3> QED
      BY <3>2, <3>3
  <2> QED
    BY <2>2, <2>3 DEF CommentsInv
<1>3. CASE CommitComment
  <2>1. CASE CommentTakes(asked)
    <3>1. asked \in CommentRequests
      BY <1>3 DEF CommitComment, CommentsInv, TablesOK
    <3>2. CommentWrites(asked) /\ today' = today /\ asked' = NoRequest
      BY <1>3, <2>1 DEF CommitComment
    <3>3. (asked.op = "add" /\ asked.root # None) =>
              (Present(events[asked.root]) =>
                   events[asked.root].root = None /\ events[asked.root].card = asked.card)
      BY <1>3 DEF CommitComment, CommentsInv, AskedWasChecked
    <3> QED
      BY <2>1, <3>1, <3>2, <3>3, WritesKeep
  <2>2. CASE ~CommentTakes(asked)
    <3>1. UNCHANGED <<rev, today, lastId, events>> /\ asked' = NoRequest
      BY <1>3, <2>2 DEF CommitComment, tableVars
    <3>2. TablesOK'
      BY <3>1 DEF CommentsInv, TablesOK
    <3> QED
      BY <3>1, <3>2, RewritesKeep
  <2> QED
    BY <2>1, <2>2
<1>4. ASSUME NEW c \in CardIds, CreateHome(c) PROVE CommentsInv'
  <2>1. rev' = rev + 1 /\ UNCHANGED <<today, lastId, events, asked>>
    BY <1>4 DEF CreateHome
  <2>2. TablesOK'
    BY <2>1 DEF CommentsInv, TablesOK
  <2> QED
    BY <2>1, <2>2, RewritesKeep
<1>5. CASE ReapComments
  BY <1>5, ReapKeepsRoots
<1>6. CASE NextPeriod
  <2>1. today' = today + 1 /\ UNCHANGED <<rev, lastId, events, asked>>
    BY <1>6 DEF NextPeriod, commentsVars, tableVars
  <2>2. TablesOK'
    BY <2>1 DEF CommentsInv, TablesOK
  <2> QED
    BY <2>1, <2>2, RewritesKeep
<1>7. CASE UNCHANGED <<revVars, commentsVars>>
  <2>1. UNCHANGED <<rev, today, lastId, events, asked>>
    BY <1>7 DEF revVars, commentsVars, tableVars
  <2>2. TablesOK'
    BY <2>1 DEF CommentsInv, TablesOK
  <2> QED
    BY <2>1, <2>2, RewritesKeep
<1> QED
  BY <1>1, <1>2, <1>3, <1>4, <1>5, <1>6, <1>7 DEF CommentsNext

\* comments.go and reap.go, with the foreign keys of db.go: whatever is added,
\* tagged, deleted and destroyed, and however long a reply waits for its
\* transaction, what a reply answers is there, a root on the reply's card.
THEOREM RootsStay == CommentsSpec => []RepliesHaveTheirRoot
<1>1. CommentsInv => RepliesHaveTheirRoot
  BY DEF CommentsInv
<1> QED
  BY <1>1, CommentsInitInv, CommentsStepInv, PTL DEF CommentsSpec

-----------------------------------------------------------------------------
(***************************************************************************)
(* The Search Index, for a device whose tables IndexSpec moves.            *)
(*                                                                         *)
(* What the index or an answer on its way holds of a comment is right as   *)
(* long as the comment's number has not passed theirs; of a destroyed one  *)
(* it holds nothing, as its number was not below reaped_rev.  An answer    *)
(* that says nothing of a comment vouches for what the index has of it,    *)
(* as long as the index stands where the answer began.                     *)
(***************************************************************************)

\* What is held of comment e is of that comment: ids are never given twice.
Its(e, row, last, h) ==
    h # NoComment => /\ h \in IndexedComments /\ e <= last
                     /\ Present(row) => h.card = row.card

\* What is held reads as the row, for who has heard of everything up to n.  A
\* comment whose card is deleted may still be held.
Reads(row, hs, reaped, h, n) ==
    IF Present(row)
    THEN row.rev <= n =>
            IF row.st = "live" /\ row.card # None
            THEN hs[row.card].st = "live" => h = [card |-> row.card, text |-> row.text]
            ELSE h = NoComment
    ELSE reaped <= n => h = NoComment

\* The tables as handlers that run whole, with no session, leave them.
RowsInv ==
    /\ asked = NoRequest
    /\ \A c \in CardIds : homes[c].rev <= rev
    /\ \A s \in SessionIds : sessions[s].st = "live"
    /\ \A e \in EventIds :
          /\ events[e].rev <= rev
          /\ events[e].st = "live" => events[e].text \in Texts
          /\ Present(events[e]) /\ events[e].card # None => Present(homes[events[e].card])
          /\ Present(events[e]) => e <= lastId

HeldInv ==
    /\ index.rev <= rev
    /\ \A e \in EventIds :
          /\ Its(e, events[e], lastId, index.comments[e])
          /\ index.rev # Full =>
                \/ e \in swept \cup dropped
                \/ Reads(events[e], homes, reapedRev, index.comments[e], index.rev)

AnswerInv ==
    answer # NoRequest =>
        /\ answer.since <= answer.rev /\ answer.rev <= rev
        /\ \A e \in EventIds :
              IF answer.comments[e] = Kept
              THEN answer.since = index.rev =>
                      \/ e \in swept \cup dropped
                      \/ Reads(events[e], homes, reapedRev, index.comments[e], answer.rev)
              ELSE /\ Its(e, events[e], lastId, answer.comments[e])
                   /\ \/ e \in swept
                      \/ Reads(events[e], homes, reapedRev, answer.comments[e], answer.rev)

IndexInv == CommentsTypeOK /\ RowsInv /\ HeldInv /\ AnswerInv

-----------------------------------------------------------------------------
\* A comment the step leaves, renumbers or destroys.  One it leaves does not find
\* its card back: a deleted card stays deleted.
Stays(e) ==
    \/ /\ events'[e] = events[e]
       /\ (events[e].st = "live" /\ events[e].card # None
             /\ homes'[events[e].card].st = "live") => homes[events[e].card].st = "live"
    \/ /\ Present(events'[e]) /\ events'[e].rev = rev + 1
       /\ Present(events[e]) => events'[e].card = events[e].card
       /\ ~Present(events[e]) => e > lastId
    \/ /\ ~Present(events'[e])
       /\ e \in swept' \/ (events[e].st = "dead" /\ events[e].rev <= reapedRev')

\* Then what was held of it still is what it was.
LEMMA StillReads ==
    ASSUME NEW e \in EventIds, Stays(e), rev \in Nat, lastId \in Nat, lastId' \in Nat,
           lastId <= lastId', reapedRev \in Nat, reapedRev' \in Nat, reapedRev <= reapedRev',
           events[e].rev \in Nat,
           NEW h, NEW n \in 0..rev, Its(e, events[e], lastId, h)
    PROVE  /\ Its(e, events'[e], lastId', h)
           /\ Reads(events[e], homes, reapedRev, h, n)
                => e \in swept' \/ Reads(events'[e], homes', reapedRev', h, n)
<1>1. n \in Nat /\ n <= rev /\ e \in Nat
  BY DEF EventIds
<1>2. CASE /\ events'[e] = events[e]
           /\ (events[e].st = "live" /\ events[e].card # None
                 /\ homes'[events[e].card].st = "live") => homes[events[e].card].st = "live"
  <2>1. Its(e, events'[e], lastId', h)
    BY <1>1, <1>2 DEF Its
  <2>2. ASSUME Reads(events[e], homes, reapedRev, h, n)
        PROVE  Reads(events'[e], homes', reapedRev', h, n)
    BY <1>1, <1>2, <2>2 DEF Reads
  <2> QED
    BY <2>1, <2>2
<1>3. CASE /\ Present(events'[e]) /\ events'[e].rev = rev + 1
           /\ Present(events[e]) => events'[e].card = events[e].card
           /\ ~Present(events[e]) => e > lastId
  BY <1>1, <1>3 DEF Its, Reads
<1>4. CASE /\ ~Present(events'[e])
           /\ e \in swept' \/ (events[e].st = "dead" /\ events[e].rev <= reapedRev')
  BY <1>1, <1>4 DEF Its, Reads, Present
<1> QED
  BY <1>2, <1>3, <1>4 DEF Stays

\* A step of the tables that leaves the device alone.
TablesMove ==
    /\ CommentsTypeOK' /\ RowsInv'
    /\ \A e \in EventIds : Stays(e)
    /\ rev <= rev' /\ reapedRev <= reapedRev' /\ lastId <= lastId'
    /\ swept \subseteq swept'
    /\ UNCHANGED deviceVars

LEMMA TablesKeep == IndexInv /\ TablesMove => IndexInv'
<1> SUFFICES ASSUME IndexInv, TablesMove PROVE IndexInv'
  OBVIOUS
<1>1. /\ rev \in Nat /\ rev' \in Nat /\ rev <= rev'
      /\ lastId \in Nat /\ lastId' \in Nat /\ lastId <= lastId'
      /\ reapedRev \in Nat /\ reapedRev' \in Nat /\ reapedRev <= reapedRev'
      /\ swept \subseteq swept'
      /\ index' = index /\ answer' = answer /\ dropped' = dropped
  BY CommentBounds DEF IndexInv, TablesMove, CommentsTypeOK, RevTypeOK, deviceVars
<1>2. ASSUME NEW e \in EventIds
      PROVE  \A h : \A n \in 0..rev : Its(e, events[e], lastId, h) =>
                /\ Its(e, events'[e], lastId', h)
                /\ Reads(events[e], homes, reapedRev, h, n)
                     => e \in swept' \/ Reads(events'[e], homes', reapedRev', h, n)
  <2>1. Stays(e) /\ events[e].rev \in Nat
    BY DEF IndexInv, TablesMove, CommentsTypeOK, EventRows
  <2> QED
    BY <1>1, <2>1, StillReads
<1>3. HeldInv'
  <2>1. index.rev \in Nat \cup {Full} /\ index.rev <= rev
    BY DEF IndexInv, CommentsTypeOK, HeldInv
  <2>2. index'.rev <= rev'
    BY <1>1, <2>1 DEF Full
  <2>3. ASSUME NEW e \in EventIds
        PROVE  /\ Its(e, events'[e], lastId', index.comments[e])
               /\ index.rev # Full =>
                     \/ e \in swept' \cup dropped'
                     \/ Reads(events'[e], homes', reapedRev', index.comments[e], index.rev)
    <3>1. Its(e, events[e], lastId, index.comments[e])
      BY DEF IndexInv, HeldInv
    <3>2. 0 \in 0..rev
      BY <1>1
    <3>3. Its(e, events'[e], lastId', index.comments[e])
      BY <1>2, <3>1, <3>2
    <3>4. ASSUME index.rev # Full
          PROVE  \/ e \in swept' \cup dropped'
                 \/ Reads(events'[e], homes', reapedRev', index.comments[e], index.rev)
      <4>1. index.rev \in 0..rev
        BY <2>1, <3>4, <1>1
      <4>2. \/ e \in swept \cup dropped
            \/ Reads(events[e], homes, reapedRev, index.comments[e], index.rev)
        BY <3>4 DEF IndexInv, HeldInv
      <4> QED
        BY <1>1, <1>2, <3>1, <4>1, <4>2
    <3> QED
      BY <3>3, <3>4
  <2> QED
    BY <1>1, <2>2, <2>3 DEF HeldInv
<1>4. AnswerInv'
  <2> SUFFICES ASSUME answer # NoRequest
               PROVE  /\ answer.since <= answer.rev /\ answer.rev <= rev'
                      /\ \A e \in EventIds :
                            IF answer.comments[e] = Kept
                            THEN answer.since = index.rev =>
                                    \/ e \in swept' \cup dropped
                                    \/ Reads(events'[e], homes', reapedRev',
                                             index.comments[e], answer.rev)
                            ELSE /\ Its(e, events'[e], lastId', answer.comments[e])
                                 /\ \/ e \in swept'
                                    \/ Reads(events'[e], homes', reapedRev',
                                             answer.comments[e], answer.rev)
    BY <1>1 DEF AnswerInv
  <2>1. answer.rev \in Nat /\ answer.rev <= rev /\ answer.since <= answer.rev
    BY DEF IndexInv, CommentsTypeOK, AnswerInv
  <2>2. answer.rev \in 0..rev /\ answer.rev <= rev'
    BY <1>1, <2>1
  <2>3. ASSUME NEW e \in EventIds, answer.comments[e] = Kept, answer.since = index.rev
        PROVE  \/ e \in swept' \cup dropped
               \/ Reads(events'[e], homes', reapedRev', index.comments[e], answer.rev)
    <3>1. Its(e, events[e], lastId, index.comments[e])
      BY DEF IndexInv, HeldInv
    <3>2. \/ e \in swept \cup dropped
          \/ Reads(events[e], homes, reapedRev, index.comments[e], answer.rev)
      BY <2>3 DEF IndexInv, AnswerInv
    <3> QED
      BY <1>1, <1>2, <2>2, <3>1, <3>2
  <2>4. ASSUME NEW e \in EventIds, answer.comments[e] # Kept
        PROVE  /\ Its(e, events'[e], lastId', answer.comments[e])
               /\ \/ e \in swept'
                  \/ Reads(events'[e], homes', reapedRev', answer.comments[e], answer.rev)
    <3>1. /\ Its(e, events[e], lastId, answer.comments[e])
          /\ e \in swept \/ Reads(events[e], homes, reapedRev, answer.comments[e], answer.rev)
      BY <2>4 DEF IndexInv, AnswerInv
    <3> QED
      BY <1>1, <1>2, <2>2, <3>1
  <2> QED
    BY <2>1, <2>2, <2>3, <2>4
<1> QED
  BY <1>3, <1>4 DEF IndexInv, TablesMove

-----------------------------------------------------------------------------
LEMMA AddMoves ==
    ASSUME IndexInv, NEW q \in ListedRequests, q.op = "add", CommentAdmitted(q),
           CommentTakes(q), AddComment(q), UNCHANGED <<reapedRev, today, asked, deviceVars>>
    PROVE  TablesMove
<1>1. /\ rev \in Nat /\ reapedRev \in 0..rev /\ lastId \in 0..MaxEvent /\ MaxEvent \in Nat
      /\ events \in [EventIds -> EventRows] /\ homes \in [CardIds -> HomeRows]
  BY CommentBounds DEF IndexInv, CommentsTypeOK, RevTypeOK
<1>2. /\ q.card \in CardIds /\ q.root \in EventIds \cup {None} /\ q.sess = None
      /\ q.text \in Texts
  BY DEF ListedRequests, CommentRequests
<1>3. lastId < MaxEvent /\ homes[q.card].st = "live"
  BY DEF CommentTakes, CommentAdmitted
<1> DEFINE row == [NoEvent EXCEPT !.st = "live", !.card = q.card, !.root = q.root,
                                  !.sess = q.sess, !.text = q.text, !.rev = rev']
<1>4. /\ rev' = rev + 1 /\ lastId' = lastId + 1 /\ events' = [events EXCEPT ![lastId'] = row]
      /\ homes' = homes /\ sessions' = sessions /\ swept' = swept /\ reapedRev' = reapedRev
  BY DEF AddComment
<1>5. row \in EventRows
  <2>1. rev' \in Nat /\ q.sess \in SessionIds \cup {None}
    BY <1>1, <1>2, <1>4
  <2> QED
    BY <1>2, <2>1, NoEventIsARow DEF EventRows
<1>6. /\ row.st = "live" /\ row.rev = rev + 1 /\ row.card = q.card /\ row.text = q.text
  BY <1>4, NoEventIsARow DEF EventRows
<1> HIDE DEF row
<1>7. lastId' \in EventIds /\ lastId' \in Nat /\ lastId' \in 0..MaxEvent
  BY <1>1, <1>3, <1>4 DEF EventIds
<1>8. /\ events'[lastId'] = row
      /\ \A e \in EventIds : e # lastId' => events'[e] = events[e]
      /\ events' \in [EventIds -> EventRows]
  BY <1>1, <1>4, <1>5, <1>7
<1>9. CommentsTypeOK'
  BY <1>1, <1>4, <1>7, <1>8 DEF IndexInv, CommentsTypeOK, RevTypeOK, deviceVars
<1>10. RowsInv'
  <2>1. ASSUME NEW e \in EventIds
        PROVE  /\ events'[e].rev <= rev'
               /\ events'[e].st = "live" => events'[e].text \in Texts
               /\ Present(events'[e]) /\ events'[e].card # None
                     => Present(homes'[events'[e].card])
               /\ Present(events'[e]) => e <= lastId'
    <3>1. CASE e = lastId'
      BY <1>1, <1>2, <1>3, <1>4, <1>6, <1>7, <1>8, <3>1 DEF Present
    <3>2. CASE e # lastId'
      <4>1. events[e].rev \in Nat /\ e \in Nat
        BY <1>1 DEF EventRows, EventIds
      <4>2. /\ events[e].rev <= rev
            /\ events[e].st = "live" => events[e].text \in Texts
            /\ Present(events[e]) /\ events[e].card # None => Present(homes[events[e].card])
            /\ Present(events[e]) => e <= lastId
        BY DEF IndexInv, RowsInv
      <4> QED
        BY <1>1, <1>4, <1>8, <3>2, <4>1, <4>2
    <3> QED
      BY <3>1, <3>2
  <2>2. ASSUME NEW c \in CardIds PROVE homes'[c].rev <= rev'
    BY <1>1, <1>4 DEF IndexInv, RowsInv, HomeRows
  <2> QED
    BY <1>4, <2>1, <2>2 DEF IndexInv, RowsInv
<1>11. ASSUME NEW e \in EventIds PROVE Stays(e)
  <2>1. CASE e = lastId'
    <3>1. Present(events'[e]) /\ events'[e].rev = rev + 1 /\ e > lastId
      BY <1>1, <1>4, <1>6, <1>8, <2>1 DEF Present
    <3>2. ~Present(events[e])
      BY <1>1, <1>4, <1>7, <2>1 DEF IndexInv, RowsInv
    <3> QED
      BY <3>1, <3>2 DEF Stays
  <2>2. CASE e # lastId'
    BY <1>4, <1>8, <2>2 DEF Stays
  <2> QED
    BY <2>1, <2>2
<1> QED
  BY <1>1, <1>4, <1>9, <1>10, <1>11 DEF TablesMove, deviceVars

\* An edit or a deletion: a comment gets the next number and stays on its card.
LEMMA StampMoves ==
    ASSUME IndexInv, NEW d \in EventIds, Present(events[d]), rev' = rev + 1,
           events' \in [EventIds -> EventRows],
           \A e \in EventIds : e # d => events'[e] = events[e],
           events'[d].st = events[d].st \/ events'[d].st = "dead",
           events'[d].st = "live" => events'[d].text \in Texts,
           events'[d].card = events[d].card, events'[d].rev = rev + 1,
           UNCHANGED <<homes, sessions, lastId, swept, reapedRev, today, asked, deviceVars>>
    PROVE  TablesMove
<1>1. /\ rev \in Nat /\ reapedRev \in 0..rev /\ lastId \in Nat
      /\ events \in [EventIds -> EventRows] /\ homes \in [CardIds -> HomeRows]
  BY CommentBounds DEF IndexInv, CommentsTypeOK, RevTypeOK
<1>2. /\ homes' = homes /\ sessions' = sessions /\ swept' = swept /\ reapedRev' = reapedRev
      /\ lastId' = lastId /\ asked' = asked
  OBVIOUS
<1>3. Present(events'[d])
  BY DEF Present
<1>4. CommentsTypeOK'
  BY <1>1, <1>2, <1>3 DEF IndexInv, CommentsTypeOK, RevTypeOK, deviceVars
<1>5. RowsInv'
  <2>1. ASSUME NEW e \in EventIds
        PROVE  /\ events'[e].rev <= rev'
               /\ events'[e].st = "live" => events'[e].text \in Texts
               /\ Present(events'[e]) /\ events'[e].card # None
                     => Present(homes'[events'[e].card])
               /\ Present(events'[e]) => e <= lastId'
    <3>1. events[e].rev \in Nat
      BY <1>1 DEF EventRows
    <3>2. /\ events[e].rev <= rev
          /\ events[e].st = "live" => events[e].text \in Texts
          /\ Present(events[e]) /\ events[e].card # None => Present(homes[events[e].card])
          /\ Present(events[e]) => e <= lastId
      BY DEF IndexInv, RowsInv
    <3>3. CASE e = d
      BY <1>1, <1>2, <1>3, <3>2, <3>3
    <3>4. CASE e # d
      BY <1>1, <1>2, <1>3, <3>1, <3>2, <3>4
    <3> QED
      BY <3>3, <3>4
  <2>2. ASSUME NEW c \in CardIds PROVE homes'[c].rev <= rev'
    BY <1>1, <1>2 DEF IndexInv, RowsInv, HomeRows
  <2> QED
    BY <1>2, <2>1, <2>2 DEF IndexInv, RowsInv
<1>6. ASSUME NEW e \in EventIds PROVE Stays(e)
  BY <1>2, <1>3 DEF Stays
<1> QED
  BY <1>1, <1>2, <1>4, <1>5, <1>6 DEF TablesMove

\* A step on the cards alone, that makes none of those comments hang off live.
LEMMA HomesMove ==
    ASSUME IndexInv, NEW d \in CardIds, NEW home \in HomeRows, home.rev = rev + 1,
           home.st # "none", home.st = "live" => homes[d].st = "none",
           rev' = rev + 1, homes' = [homes EXCEPT ![d] = home],
           UNCHANGED <<events, sessions, lastId, swept, reapedRev, today, asked, deviceVars>>
    PROVE  TablesMove
<1>1. /\ rev \in Nat /\ reapedRev \in 0..rev /\ lastId \in Nat
      /\ events \in [EventIds -> EventRows] /\ homes \in [CardIds -> HomeRows]
  BY CommentBounds DEF IndexInv, CommentsTypeOK, RevTypeOK
<1>2. /\ events' = events /\ sessions' = sessions /\ swept' = swept /\ reapedRev' = reapedRev
      /\ lastId' = lastId /\ asked' = asked
  OBVIOUS
<1>3. /\ homes'[d] = home
      /\ \A c \in CardIds : c # d => homes'[c] = homes[c]
      /\ homes' \in [CardIds -> HomeRows]
  BY <1>1
<1>4. CommentsTypeOK'
  BY <1>1, <1>2, <1>3 DEF IndexInv, CommentsTypeOK, RevTypeOK, deviceVars
<1>5. ASSUME NEW e \in EventIds
      PROVE  /\ events[e].rev <= rev + 1
             /\ events[e].st = "live" => events[e].text \in Texts
             /\ Present(events[e]) /\ events[e].card # None
                   => Present(homes[events[e].card]) /\ Present(homes'[events[e].card])
             /\ Present(events[e]) => e <= lastId
  <2>1. events[e].rev \in Nat /\ events[e].card \in CardIds \cup {None}
    BY <1>1 DEF EventRows
  <2> QED
    BY <1>1, <1>3, <2>1 DEF IndexInv, RowsInv, Present
<1>6. RowsInv'
  <2>2. ASSUME NEW c \in CardIds PROVE homes'[c].rev <= rev + 1
    BY <1>1, <1>3 DEF IndexInv, RowsInv, HomeRows
  <2> QED
    BY <1>2, <1>5, <2>2 DEF IndexInv, RowsInv
<1>7. ASSUME NEW e \in EventIds PROVE Stays(e)
  <2>1. events[e].card \in CardIds \cup {None}
    BY <1>1 DEF EventRows
  <2> QED
    BY <1>2, <1>3, <1>5, <2>1 DEF Stays, Present
<1> QED
  BY <1>1, <1>2, <1>4, <1>6, <1>7 DEF TablesMove

LEMMA DeadEventIsARow ==
    ASSUME NEW row \in EventRows, today \in Nat
    PROVE  /\ Tombstone(row) \in EventRows /\ Tombstone(row).st = "dead"
           /\ Tombstone(row).card = row.card
  BY DEF EventRows, Tombstone

LEMMA ListedMoves ==
    ASSUME IndexInv, NEW q \in ListedRequests, HandleComment(q)
    PROVE  TablesMove
<1>1. /\ rev \in Nat /\ today \in Nat
      /\ events \in [EventIds -> EventRows] /\ homes \in [CardIds -> HomeRows]
  BY DEF IndexInv, CommentsTypeOK, RevTypeOK
<1>2. /\ CommentAdmitted(q) /\ CommentTakes(q)
      /\ UNCHANGED <<reapedRev, today, asked, deviceVars>>
  BY DEF HandleComment
<1>3. CASE q.op = "add" /\ AddComment(q)
  BY <1>2, <1>3, AddMoves
<1>4. CASE q.op = "edit" /\ EditComment(q)
  <2>1. q.event \in EventIds /\ q.text \in Texts
    BY <1>4 DEF ListedRequests, CommentRequests
  <2>2. Present(events[q.event])
    BY <1>2, <1>4 DEF CommentTakes
  <2>3. /\ rev' = rev + 1 /\ rev + 1 \in Nat
        /\ events' = [events EXCEPT ![q.event].text = q.text, ![q.event].rev = rev + 1]
        /\ UNCHANGED <<homes, sessions, lastId, swept>>
    BY <1>1, <1>4 DEF EditComment
  <2>4. /\ events' \in [EventIds -> EventRows]
        /\ \A e \in EventIds : e # q.event => events'[e] = events[e]
        /\ events'[q.event].st = events[q.event].st /\ events'[q.event].text \in Texts
        /\ events'[q.event].card = events[q.event].card /\ events'[q.event].rev = rev + 1
    BY <1>1, <2>1, <2>3 DEF EventRows
  <2> QED
    BY <1>2, <2>1, <2>2, <2>3, <2>4, StampMoves
<1>5. CASE q.op = "delete" /\ DeleteComment(q)
  <2>1. q.event \in EventIds
    BY <1>5 DEF ListedRequests, CommentRequests
  <2>2. Present(events[q.event])
    BY <1>2, <1>5 DEF CommentTakes, Present
  <2> DEFINE dead == Tombstone(events[q.event])
             row == [dead EXCEPT !.text = Blank, !.rev = rev + 1]
  <2>3. /\ rev' = rev + 1 /\ rev + 1 \in Nat
        /\ events' = [events EXCEPT ![q.event] = row]
        /\ UNCHANGED <<homes, sessions, lastId, swept>>
    BY <1>1, <1>5 DEF DeleteComment
  <2>5. dead \in EventRows /\ dead.st = "dead" /\ dead.card = events[q.event].card
    BY <1>1, <2>1, DeadEventIsARow
  <2> HIDE DEF dead
  <2>6. row \in EventRows /\ row.st = "dead" /\ row.card = dead.card /\ row.rev = rev + 1
    BY <2>3, <2>5 DEF EventRows
  <2> HIDE DEF row
  <2>4. /\ events' \in [EventIds -> EventRows]
        /\ \A e \in EventIds : e # q.event => events'[e] = events[e]
        /\ events'[q.event].st = "dead"
        /\ events'[q.event].card = events[q.event].card /\ events'[q.event].rev = rev + 1
    BY <1>1, <2>1, <2>3, <2>5, <2>6
  <2> QED
    BY <1>2, <2>1, <2>2, <2>3, <2>4, StampMoves
<1>6. CASE q.op = "deleteHome" /\ DeleteHome(q)
  <2>1. q.card \in CardIds
    BY <1>6 DEF ListedRequests, CommentRequests
  <2> DEFINE dead == Tombstone(homes[q.card])
             home == [dead EXCEPT !.rev = rev + 1]
  <2>2. /\ rev' = rev + 1 /\ homes' = [homes EXCEPT ![q.card] = home]
        /\ UNCHANGED <<events, sessions, lastId, swept>>
    BY <1>6 DEF DeleteHome
  <2>4. dead \in HomeRows /\ dead.st = "dead"
    BY <1>1, <2>1 DEF HomeRows, Tombstone
  <2> HIDE DEF dead
  <2>3. home \in HomeRows /\ home.rev = rev + 1 /\ home.st = "dead"
    BY <1>1, <2>4 DEF HomeRows
  <2> HIDE DEF home
  <2> QED
    BY <1>2, <2>1, <2>2, <2>3, HomesMove
<1> QED
  <2>1. q.op \in {"add", "edit", "delete", "deleteHome"}
    BY DEF ListedRequests
  <2>2. CommentWrites(q)
    BY DEF HandleComment
  <2> QED
    BY <1>3, <1>4, <1>5, <1>6, <2>1, <2>2 DEF CommentWrites

LEMMA CreateMoves ==
    ASSUME IndexInv, NEW c \in CardIds, CreateHome(c) PROVE TablesMove
<1> DEFINE home == [st |-> "live", day |-> 0, rev |-> rev + 1]
<1>1. /\ rev' = rev + 1 /\ homes' = [homes EXCEPT ![c] = home] /\ homes[c].st = "none"
      /\ UNCHANGED <<events, sessions, lastId, swept, reapedRev, today, asked, deviceVars>>
  BY DEF CreateHome
<1>2. home \in HomeRows /\ home.rev = rev + 1 /\ home.st = "live"
  BY DEF IndexInv, CommentsTypeOK, RevTypeOK, HomeRows
<1> HIDE DEF home
<1> QED
  BY <1>1, <1>2, HomesMove

LEMMA PeriodMoves ==
    ASSUME IndexInv, NextPeriod PROVE TablesMove
<1>1. /\ rev \in Nat /\ today + 1 \in Nat /\ lastId \in Nat /\ reapedRev \in Nat
  BY CommentBounds DEF IndexInv, CommentsTypeOK, RevTypeOK
<1>2. today' = today + 1 /\ UNCHANGED <<rev, reapedRev, commentsVars>>
  BY DEF NextPeriod
<1>3. CommentsTypeOK'
  BY <1>1, <1>2 DEF IndexInv, CommentsTypeOK, RevTypeOK, commentsVars, tableVars, deviceVars
<1>4. RowsInv'
  BY <1>2 DEF IndexInv, RowsInv, commentsVars, tableVars
<1>5. \A e \in EventIds : Stays(e)
  BY <1>2 DEF Stays, commentsVars, tableVars
<1> QED
  BY <1>1, <1>2, <1>3, <1>4, <1>5 DEF TablesMove, commentsVars, tableVars

\* What expired itself is below the new reaped_rev; what went with its card is
\* in swept.
LEMMA ReapMoves ==
    ASSUME IndexInv, ReapComments PROVE TablesMove
<1> DEFINE S == {homes[c].rev : c \in {c \in CardIds : Expired(homes[c])}}
                   \cup {events[e].rev : e \in {e \in EventIds : Expired(events[e])}}
<1>1. /\ rev \in Nat /\ reapedRev \in 0..rev /\ lastId \in Nat
      /\ events \in [EventIds -> EventRows] /\ homes \in [CardIds -> HomeRows]
      /\ sessions \in [SessionIds -> SessionRows] /\ swept \subseteq EventIds
  BY CommentBounds DEF IndexInv, CommentsTypeOK, RevTypeOK
<1>2. /\ reapedRev' = HighestOf(S)
      /\ homes' = [c \in CardIds |->
            IF Expired(homes[c]) THEN [st |-> "none", day |-> 0, rev |-> 0] ELSE homes[c]]
      /\ sessions' = [s \in SessionIds |->
            IF Expired(sessions[s]) THEN [st |-> "none", day |-> 0] ELSE sessions[s]]
      /\ events' = [e \in EventIds |-> IF e \in Destroyed THEN NoEvent ELSE events[e]]
      /\ swept' = swept \cup {e \in Destroyed : ~Expired(events[e])}
      /\ UNCHANGED <<rev, today, lastId, asked, deviceVars>>
  BY DEF ReapComments
<1>3. S \subseteq 0..rev
  <2>1. ASSUME NEW c \in CardIds PROVE homes[c].rev \in 0..rev
    BY <1>1 DEF IndexInv, RowsInv, HomeRows
  <2>2. ASSUME NEW e \in EventIds PROVE events[e].rev \in 0..rev
    BY <1>1 DEF IndexInv, RowsInv, EventRows
  <2> QED
    BY <2>1, <2>2
<1>4. reapedRev' \in reapedRev..rev /\ \A r \in S : r <= reapedRev'
  <2> HIDE DEF S
  <2> QED
    BY <1>1, <1>2, <1>3, HighestCovers
<1>5. \A e \in EventIds : Expired(events[e]) => events[e].rev <= reapedRev'
  BY <1>4
<1>6. sessions' = sessions
  BY <1>1, <1>2 DEF IndexInv, RowsInv, Expired
<1>7. ASSUME NEW e \in EventIds
      PROVE  /\ e \in Destroyed => events'[e] = NoEvent /\ (e \in swept' \/ Expired(events[e]))
             /\ e \notin Destroyed => events'[e] = events[e]
             /\ (e \notin Destroyed /\ Present(events[e]) /\ events[e].card # None)
                  => ~Expired(homes[events[e].card])
  BY <1>2 DEF Destroyed, WithACard
<1> HIDE DEF S
<1>8. ASSUME NEW c \in CardIds
      PROVE  /\ homes'[c] \in HomeRows /\ homes'[c].rev <= rev
             /\ ~Expired(homes[c]) => homes'[c] = homes[c]
             /\ homes'[c].st = "live" => homes[c].st = "live"
  <2>1. homes[c] \in HomeRows /\ homes[c].rev <= rev
    BY <1>1 DEF IndexInv, RowsInv
  <2>2. CASE Expired(homes[c])
    <3>1. homes'[c] = [st |-> "none", day |-> 0, rev |-> 0]
      BY <1>2, <2>2
    <3> QED
      BY <1>1, <2>2, <3>1 DEF HomeRows
  <2>3. CASE ~Expired(homes[c])
    BY <1>2, <2>1, <2>3
  <2> QED
    BY <2>2, <2>3
<1>9. CommentsTypeOK'
  <2>1. events' \in [EventIds -> EventRows]
    BY <1>1, <1>2, <1>7, NoEventIsARow
  <2>2. homes' \in [CardIds -> HomeRows]
    BY <1>2, <1>8
  <2>3. swept' \subseteq EventIds
    <3>1. Destroyed \subseteq EventIds
      BY DEF Destroyed, WithACard, WithASession, ExpiredComments
    <3> QED
      BY <1>1, <1>2, <3>1
  <2>4. RevTypeOK'
    BY <1>1, <1>2, <1>4 DEF IndexInv, CommentsTypeOK, RevTypeOK
  <2> QED
    BY <1>1, <1>2, <1>6, <2>1, <2>2, <2>3, <2>4 DEF IndexInv, CommentsTypeOK, deviceVars
<1>10. RowsInv'
  <2>1. ASSUME NEW e \in EventIds
        PROVE  /\ events'[e].rev <= rev
               /\ events'[e].st = "live" => events'[e].text \in Texts
               /\ Present(events'[e]) /\ events'[e].card # None
                     => Present(homes'[events'[e].card])
               /\ Present(events'[e]) => e <= lastId
    <3>1. CASE e \in Destroyed
      <4>1. events'[e] = NoEvent /\ NoEvent.rev = 0 /\ NoEvent.st = "none"
        BY <1>7, <3>1 DEF NoEvent
      <4> QED
        BY <1>1, <4>1 DEF Present
    <3>2. CASE e \notin Destroyed
      <4>1. events'[e] = events[e] /\ events[e].card \in CardIds \cup {None}
        BY <1>1, <1>7, <3>2 DEF EventRows
      <4>2. /\ events[e].rev <= rev
            /\ events[e].st = "live" => events[e].text \in Texts
            /\ Present(events[e]) /\ events[e].card # None => Present(homes[events[e].card])
            /\ Present(events[e]) => e <= lastId
        BY DEF IndexInv, RowsInv
      <4>3. Present(events[e]) /\ events[e].card # None
              => homes'[events[e].card] = homes[events[e].card]
        BY <1>7, <1>8, <3>2, <4>1
      <4> QED
        BY <4>1, <4>2, <4>3
    <3> QED
      BY <3>1, <3>2
  <2> QED
    BY <1>2, <1>6, <1>8, <2>1 DEF IndexInv, RowsInv
<1>11. ASSUME NEW e \in EventIds PROVE Stays(e)
  <2>1. CASE e \in Destroyed
    BY <1>5, <1>7, <2>1, NoEventIsARow DEF Stays, Expired
  <2>2. CASE e \notin Destroyed
    <3>1. events[e].card \in CardIds \cup {None}
      BY <1>1 DEF EventRows
    <3> QED
      BY <1>7, <1>8, <2>2, <3>1 DEF Stays
  <2> QED
    BY <2>1, <2>2
<1> QED
  BY <1>1, <1>2, <1>4, <1>9, <1>10, <1>11 DEF TablesMove

-----------------------------------------------------------------------------
\* What the server lists of a comment is of it, and reads as its row.
LEMMA ListedReads ==
    ASSUME IndexInv, NEW e \in EventIds
    PROVE  /\ ServerComments[e] \in IndexedComments \cup {NoComment}
           /\ ServerComments[e] # Kept
           /\ Its(e, events[e], lastId, ServerComments[e])
           /\ \A n : Reads(events[e], homes, reapedRev, ServerComments[e], n)
<1>1. events[e] \in EventRows
  BY DEF IndexInv, CommentsTypeOK
<1>2. CASE Listed(e)
  <2>1. ServerComments[e] = [card |-> events[e].card, text |-> events[e].text]
    BY <1>2 DEF ServerComments
  <2>2. /\ events[e].card \in CardIds /\ events[e].text \in Texts /\ Present(events[e])
        /\ events[e].st = "live" /\ events[e].card # None /\ e <= lastId
    BY <1>1, <1>2 DEF Listed, EventRows, IndexInv, RowsInv, Present
  <2>3. ServerComments[e] \in IndexedComments
    BY <2>1, <2>2 DEF IndexedComments
  <2> QED
    BY <2>1, <2>2, <2>3, AnswerWords DEF Its, Reads
<1>3. CASE ~Listed(e)
  <2>1. ServerComments[e] = NoComment
    BY <1>3 DEF ServerComments
  <2>2. NoComment # Kept
    BY AnswerWords
  <2> QED
    BY <1>3, <2>1, <2>2 DEF Its, Reads, Listed
<1> QED
  BY <1>2, <1>3

\* What an answer names reads as its row; what it does not name, the index it
\* starts from has.
LEMMA DeltaReads ==
    ASSUME IndexInv, NEW e \in EventIds
    PROVE  LET d == CommentsDelta(DeltaBase(index.rev))[e] IN
           IF d = Kept
           THEN \/ e \in swept \cup dropped
                \/ Reads(events[e], homes, reapedRev, index.comments[e], rev)
           ELSE /\ d \in IndexedComments \cup {NoComment}
                /\ Its(e, events[e], lastId, d)
                /\ Reads(events[e], homes, reapedRev, d, rev)
<1> DEFINE since == DeltaBase(index.rev)
           d == CommentsDelta(since)[e]
<1>1. /\ rev \in Nat /\ reapedRev \in 0..rev /\ index.rev \in Nat \cup {Full}
      /\ index.rev <= rev /\ events[e].rev \in Nat
  BY DEF IndexInv, CommentsTypeOK, RevTypeOK, HeldInv, EventRows
<1>2. NoComment # Kept /\ ServerComments[e] # Kept
  BY AnswerWords, ListedReads
<1>3. CASE d = ServerComments[e]
  BY <1>2, <1>3, ListedReads
<1>4. CASE /\ d = NoComment /\ Present(events[e])
           /\ events[e].st = "dead" \/ events[e].card = None
  <2>1. Its(e, events[e], lastId, d) /\ Reads(events[e], homes, reapedRev, d, rev)
    BY <1>4 DEF Its, Reads
  <2> QED
    BY <1>2, <1>4, <2>1, Zenon
<1>5. CASE /\ d = Kept /\ since # Full
           /\ ~(Listed(e) /\ events[e].rev > since)
           /\ ~(Present(events[e]) /\ events[e].rev > since
                  /\ (events[e].st = "dead" \/ events[e].card = None))
  <2>1. since = index.rev /\ index.rev >= reapedRev /\ index.rev # Full
    BY <1>5 DEF DeltaBase
  <2>2. CASE e \in swept \cup dropped
    BY <1>5, <2>2
  <2>3. CASE Reads(events[e], homes, reapedRev, index.comments[e], index.rev)
    <3>1. Reads(events[e], homes, reapedRev, index.comments[e], rev)
      <4> HIDE DEF d, since
      <4>1. events[e].st \in {"none", "live", "dead"}
        BY DEF IndexInv, CommentsTypeOK, EventRows
      <4>2. CASE ~Present(events[e])
        BY <1>1, <2>1, <2>3, <4>2 DEF Reads
      <4>3. CASE Present(events[e]) /\ events[e].rev <= index.rev
        BY <1>1, <2>1, <2>3, <4>3 DEF Reads
      <4>4. CASE Present(events[e]) /\ ~(events[e].rev <= index.rev)
        <5>1. events[e].rev > since
          BY <1>1, <2>1, <4>4 DEF Full
        <5>2. ~Listed(e) /\ events[e].st = "live" /\ events[e].card # None
          BY <1>5, <4>1, <4>4, <5>1 DEF Present
        <5> QED
          BY <4>4, <5>2 DEF Listed, Reads
      <4> QED
        BY <4>2, <4>3, <4>4
    <3> QED
      BY <1>5, <3>1
  <2> QED
    BY <2>1, <2>2, <2>3 DEF IndexInv, HeldInv
<1> QED
  BY <1>3, <1>4, <1>5 DEF CommentsDelta

\* A step of the device leaves the tables.
LEMMA TablesStill ==
    ASSUME IndexInv, UNCHANGED <<revVars, tableVars, asked>>
    PROVE  /\ rev' = rev /\ reapedRev' = reapedRev /\ today' = today /\ homes' = homes
           /\ sessions' = sessions /\ events' = events /\ lastId' = lastId
           /\ asked' = asked /\ swept' = swept /\ RowsInv'
  BY DEF IndexInv, RowsInv, revVars, tableVars

LEMMA AskKeeps == IndexInv /\ AskComments => IndexInv'
<1> SUFFICES ASSUME IndexInv, AskComments PROVE IndexInv'
  OBVIOUS
<1> DEFINE delta == CommentsDelta(DeltaBase(index.rev))
<1>1. /\ rev' = rev /\ reapedRev' = reapedRev /\ today' = today /\ homes' = homes
      /\ sessions' = sessions /\ events' = events /\ lastId' = lastId
      /\ asked' = asked /\ swept' = swept /\ RowsInv'
  BY TablesStill DEF AskComments
<1>2. /\ page' = page /\ index' = index /\ dropped' = dropped
      /\ answer' = [since |-> index.rev, rev |-> rev, comments |-> delta]
  BY DEF AskComments
<1>3. ASSUME NEW e \in EventIds
      PROVE  IF delta[e] = Kept
             THEN \/ e \in swept \cup dropped
                  \/ Reads(events[e], homes, reapedRev, index.comments[e], rev)
             ELSE /\ delta[e] \in IndexedComments \cup {NoComment}
                  /\ Its(e, events[e], lastId, delta[e])
                  /\ Reads(events[e], homes, reapedRev, delta[e], rev)
  BY DeltaReads
<1>4. delta \in [EventIds -> IndexedComments \cup {NoComment, Kept}]
  <2>1. delta = [e \in EventIds |-> delta[e]]
    BY DEF CommentsDelta
  <2> HIDE DEF delta
  <2>2. ASSUME NEW e \in EventIds PROVE delta[e] \in IndexedComments \cup {NoComment, Kept}
    BY <1>3
  <2> QED
    BY <2>1, <2>2
<1> HIDE DEF delta
<1>5. rev \in Nat /\ index.rev \in Nat \cup {Full} /\ index.rev <= rev
  BY DEF IndexInv, CommentsTypeOK, RevTypeOK, HeldInv
<1>6. CommentsTypeOK'
  <2>1. answer' \in [since : Nat \cup {Full}, rev : Nat,
                     comments : [EventIds -> IndexedComments \cup {NoComment, Kept}]]
    BY <1>2, <1>4, <1>5
  <2> QED
    BY <1>1, <1>2, <2>1 DEF IndexInv, CommentsTypeOK, RevTypeOK
<1>7. HeldInv'
  BY <1>1, <1>2 DEF IndexInv, HeldInv
<1>8. AnswerInv'
  <2>1. answer'.since = index.rev /\ answer'.rev = rev /\ answer'.comments = delta
    BY <1>2
  <2> QED
    BY <1>1, <1>2, <1>3, <1>5, <2>1 DEF AnswerInv
<1> QED
  BY <1>1, <1>6, <1>7, <1>8 DEF IndexInv

LEMMA TakeKeeps == IndexInv /\ TakeComments => IndexInv'
<1> SUFFICES ASSUME IndexInv, TakeComments PROVE IndexInv'
  OBVIOUS
<1>1. /\ rev' = rev /\ reapedRev' = reapedRev /\ today' = today /\ homes' = homes
      /\ sessions' = sessions /\ events' = events /\ lastId' = lastId
      /\ asked' = asked /\ swept' = swept /\ RowsInv'
  BY TablesStill DEF TakeComments
<1>2. page' = page /\ answer # NoRequest /\ answer' = NoRequest
  BY DEF TakeComments
<1>3. AnswerInv'
  BY <1>2 DEF AnswerInv
<1>4. CASE answer.since = index.rev
  <2> DEFINE merged == MergedComments(index.comments, answer.comments)
  <2>1. /\ index' = [rev |-> answer.rev, comments |-> merged]
        /\ dropped' = {e \in dropped : answer.comments[e] = Kept}
    BY <1>4 DEF TakeComments
  <2>2. /\ answer.rev \in Nat /\ answer.rev <= rev
        /\ answer.comments \in [EventIds -> IndexedComments \cup {NoComment, Kept}]
        /\ index.comments \in [EventIds -> IndexedComments \cup {NoComment}]
        /\ dropped \subseteq EventIds
    BY <1>2 DEF IndexInv, CommentsTypeOK, AnswerInv
  <2>3. ASSUME NEW e \in EventIds
        PROVE  merged[e] = IF answer.comments[e] = Kept THEN index.comments[e]
                           ELSE answer.comments[e]
    BY DEF MergedComments
  <2>4. merged = [e \in EventIds |-> merged[e]]
    BY DEF MergedComments
  <2> HIDE DEF merged
  <2>5. merged \in [EventIds -> IndexedComments \cup {NoComment}]
    <3>1. ASSUME NEW e \in EventIds PROVE merged[e] \in IndexedComments \cup {NoComment}
      BY <2>2, <2>3
    <3> QED
      BY <2>4, <3>1
  <2>6. index'.rev = answer.rev /\ index'.comments = merged
    BY <2>1
  <2>7. CommentsTypeOK'
    BY <1>1, <1>2, <2>1, <2>2, <2>5 DEF IndexInv, CommentsTypeOK, RevTypeOK
  <2>8. ASSUME NEW e \in EventIds
        PROVE  /\ Its(e, events[e], lastId, merged[e])
               /\ \/ e \in swept \cup dropped'
                  \/ Reads(events[e], homes, reapedRev, merged[e], answer.rev)
    <3>1. CASE answer.comments[e] = Kept
      <4>1. /\ Its(e, events[e], lastId, index.comments[e])
            /\ \/ e \in swept \cup dropped
               \/ Reads(events[e], homes, reapedRev, index.comments[e], answer.rev)
        BY <1>2, <1>4, <3>1 DEF IndexInv, HeldInv, AnswerInv
      <4> QED
        BY <2>1, <2>3, <3>1, <4>1
    <3>2. CASE answer.comments[e] # Kept
      <4>1. /\ Its(e, events[e], lastId, answer.comments[e])
            /\ \/ e \in swept
               \/ Reads(events[e], homes, reapedRev, answer.comments[e], answer.rev)
        BY <1>2, <3>2 DEF IndexInv, AnswerInv
      <4> QED
        BY <2>3, <3>2, <4>1
    <3> QED
      BY <3>1, <3>2
  <2>9. HeldInv'
    BY <1>1, <2>2, <2>6, <2>8 DEF HeldInv
  <2> QED
    BY <1>1, <1>3, <2>7, <2>9 DEF IndexInv
<1>5. CASE answer.since # index.rev
  <2>1. index' = index /\ dropped' = dropped
    BY <1>5 DEF TakeComments
  <2>2. CommentsTypeOK'
    BY <1>1, <1>2, <2>1 DEF IndexInv, CommentsTypeOK, RevTypeOK
  <2>3. HeldInv'
    BY <1>1, <2>1 DEF IndexInv, HeldInv
  <2> QED
    BY <1>1, <1>3, <2>2, <2>3 DEF IndexInv
<1> QED
  BY <1>4, <1>5

\* Another page's refresh leaves an answer on its way, which is then applied
\* only if the board had not moved on since it was asked for.
LEMMA RefreshKeeps == IndexInv /\ RefreshComments => IndexInv'
<1> SUFFICES ASSUME IndexInv, RefreshComments PROVE IndexInv'
  OBVIOUS
<1> DEFINE delta == CommentsDelta(DeltaBase(index.rev))
           merged == MergedComments(index.comments, delta)
<1>1. /\ rev' = rev /\ reapedRev' = reapedRev /\ today' = today /\ homes' = homes
      /\ sessions' = sessions /\ events' = events /\ lastId' = lastId
      /\ asked' = asked /\ swept' = swept /\ RowsInv'
  BY TablesStill DEF RefreshComments
<1>2. /\ page' = page /\ answer' = answer
      /\ index' = [rev |-> rev, comments |-> merged]
      /\ dropped' = {e \in dropped : delta[e] = Kept}
  BY DEF RefreshComments, Refreshed
<1>3. ASSUME NEW e \in EventIds
      PROVE  IF delta[e] = Kept
             THEN \/ e \in swept \cup dropped
                  \/ Reads(events[e], homes, reapedRev, index.comments[e], rev)
             ELSE /\ delta[e] \in IndexedComments \cup {NoComment}
                  /\ Its(e, events[e], lastId, delta[e])
                  /\ Reads(events[e], homes, reapedRev, delta[e], rev)
  BY DeltaReads
<1> HIDE DEF delta
<1>4. ASSUME NEW e \in EventIds
      PROVE  merged[e] = IF delta[e] = Kept THEN index.comments[e] ELSE delta[e]
  BY DEF MergedComments
<1>5. merged = [e \in EventIds |-> merged[e]]
  BY DEF MergedComments
<1> HIDE DEF merged
<1>6. /\ rev \in Nat /\ index.comments \in [EventIds -> IndexedComments \cup {NoComment}]
      /\ dropped \subseteq EventIds
  BY DEF IndexInv, CommentsTypeOK, RevTypeOK
<1>7. merged \in [EventIds -> IndexedComments \cup {NoComment}]
  <2>1. ASSUME NEW e \in EventIds PROVE merged[e] \in IndexedComments \cup {NoComment}
    BY <1>3, <1>4, <1>6
  <2> QED
    BY <1>5, <2>1
<1>8. ASSUME NEW e \in EventIds
      PROVE  /\ Its(e, events[e], lastId, merged[e])
             /\ \/ e \in swept \cup dropped'
                \/ Reads(events[e], homes, reapedRev, merged[e], rev)
  <2>1. Its(e, events[e], lastId, index.comments[e])
    BY DEF IndexInv, HeldInv
  <2> QED
    BY <1>2, <1>3, <1>4, <2>1
<1>9. index'.rev = rev /\ index'.comments = merged
  BY <1>2
<1>10. CommentsTypeOK'
  BY <1>1, <1>2, <1>6, <1>7 DEF IndexInv, CommentsTypeOK, RevTypeOK
<1>11. HeldInv'
  BY <1>1, <1>6, <1>8, <1>9 DEF HeldInv
<1>12. AnswerInv'
  <2> SUFFICES ASSUME answer # NoRequest
               PROVE  /\ answer.since <= answer.rev /\ answer.rev <= rev
                      /\ \A e \in EventIds :
                            IF answer.comments[e] = Kept
                            THEN answer.since = rev =>
                                    \/ e \in swept \cup dropped'
                                    \/ Reads(events[e], homes, reapedRev, merged[e], answer.rev)
                            ELSE /\ Its(e, events[e], lastId, answer.comments[e])
                                 /\ \/ e \in swept
                                    \/ Reads(events[e], homes, reapedRev,
                                             answer.comments[e], answer.rev)
    BY <1>1, <1>2, <1>9 DEF AnswerInv
  <2>1. answer.since <= answer.rev /\ answer.rev <= rev /\ answer.rev \in Nat
    BY DEF IndexInv, AnswerInv, CommentsTypeOK
  <2>2. answer.since = rev => answer.rev = rev
    BY <1>6, <2>1
  <2> QED
    BY <1>8, <2>1, <2>2 DEF IndexInv, AnswerInv
<1> QED
  BY <1>1, <1>10, <1>11, <1>12 DEF IndexInv

LEMMA LoadKeeps == IndexInv /\ LoadPage => IndexInv'
<1> SUFFICES ASSUME IndexInv, LoadPage PROVE IndexInv'
  OBVIOUS
<1>1. /\ rev' = rev /\ reapedRev' = reapedRev /\ today' = today /\ homes' = homes
      /\ sessions' = sessions /\ events' = events /\ lastId' = lastId
      /\ asked' = asked /\ swept' = swept /\ RowsInv'
  BY TablesStill DEF LoadPage
<1>2. page' \subseteq CardIds /\ index' = index /\ answer' = answer /\ dropped' = dropped
  BY DEF LoadPage
<1> QED
  BY <1>1, <1>2 DEF IndexInv, CommentsTypeOK, RevTypeOK, HeldInv, AnswerInv

\* What putCards drops early it owes to dropped; what it drops of a card that is
\* deleted, or of a comment that is, nobody misses.
LEMMA PutKeeps == IndexInv /\ PutCards => IndexInv'
<1> SUFFICES ASSUME IndexInv, PutCards PROVE IndexInv'
  OBVIOUS
<1> DEFINE out == {e \in EventIds : index.comments[e] # NoComment
                                    /\ index.comments[e].card \notin page}
           left == [e \in EventIds |-> IF e \in out THEN NoComment ELSE index.comments[e]]
<1>1. /\ rev' = rev /\ reapedRev' = reapedRev /\ today' = today /\ homes' = homes
      /\ sessions' = sessions /\ events' = events /\ lastId' = lastId
      /\ asked' = asked /\ swept' = swept /\ RowsInv'
  BY TablesStill DEF PutCards
<1>2. /\ index.rev \in Nat \cup {Full}
      /\ index.comments \in [EventIds -> IndexedComments \cup {NoComment}]
      /\ index \in [rev : Nat \cup {Full},
                    comments : [EventIds -> IndexedComments \cup {NoComment}]]
      /\ dropped \subseteq EventIds
  BY DEF IndexInv, CommentsTypeOK
<1>3. /\ page' = page /\ answer' = answer
      /\ index' = [index EXCEPT !.comments = left]
      /\ dropped' = dropped \cup {e \in out : homes[index.comments[e].card].st = "live"}
  BY DEF PutCards
<1>4. index'.rev = index.rev /\ index'.comments = left
  BY <1>2, <1>3
<1>5. left \in [EventIds -> IndexedComments \cup {NoComment}]
  BY <1>2
<1>6. CommentsTypeOK'
  BY <1>1, <1>2, <1>3, <1>5 DEF IndexInv, CommentsTypeOK, RevTypeOK
<1>7. ASSUME NEW e \in EventIds
      PROVE  /\ Its(e, events[e], lastId, left[e])
             /\ \A n : (\/ e \in swept \cup dropped
                        \/ Reads(events[e], homes, reapedRev, index.comments[e], n))
                    => \/ e \in swept \cup dropped'
                       \/ Reads(events[e], homes, reapedRev, left[e], n)
  <2>1. Its(e, events[e], lastId, index.comments[e])
    BY DEF IndexInv, HeldInv
  <2>2. CASE e \in out
    <3>1. left[e] = NoComment /\ index.comments[e] # NoComment
      BY <2>2
    <3>2. CASE homes[index.comments[e].card].st = "live"
      <4>1. e \in dropped'
        BY <1>3, <2>2, <3>2
      <4> QED
        BY <3>1, <4>1 DEF Its
    <3>3. CASE homes[index.comments[e].card].st # "live"
      BY <2>1, <3>1, <3>3 DEF Its, Reads
    <3> QED
      BY <3>2, <3>3
  <2>3. CASE e \notin out
    <3>1. left[e] = index.comments[e]
      BY <2>3
    <3> HIDE DEF left, out
    <3> QED
      BY <1>3, <2>1, <3>1
  <2> QED
    BY <2>2, <2>3
<1> HIDE DEF left, out
<1>8. HeldInv'
  BY <1>1, <1>4, <1>7 DEF IndexInv, HeldInv
<1>9. AnswerInv'
  BY <1>1, <1>3, <1>4, <1>7 DEF IndexInv, AnswerInv
<1> QED
  BY <1>1, <1>6, <1>8, <1>9 DEF IndexInv

LEMMA IndexInitInv == CommentsInit => IndexInv
<1> SUFFICES ASSUME CommentsInit PROVE IndexInv
  OBVIOUS
<1> USE DEF CommentsInit
<1>1. CommentsTypeOK
  BY CommentBounds, NoEventIsARow
     DEF CommentsTypeOK, RevTypeOK, RevInit, HomeRows, SessionRows, Full
<1>2. NoEvent.rev = 0 /\ NoEvent.st = "none"
  BY DEF NoEvent
<1>3. RowsInv
  BY <1>2 DEF RowsInv, RevInit, Present
<1>4. HeldInv
  BY <1>2 DEF HeldInv, RevInit, Full, Its
<1>5. AnswerInv
  BY DEF AnswerInv
<1> QED
  BY <1>1, <1>3, <1>4, <1>5 DEF IndexInv

LEMMA IndexStepInv == IndexInv /\ [IndexNext]_<<revVars, commentsVars>> => IndexInv'
<1> SUFFICES ASSUME IndexInv, [IndexNext]_<<revVars, commentsVars>> PROVE IndexInv'
  OBVIOUS
<1>1. CASE \E q \in ListedRequests : rev < MaxRev /\ HandleComment(q)
  BY <1>1, ListedMoves, TablesKeep
<1>2. CASE \E c \in CardIds : rev < MaxRev /\ CreateHome(c)
  BY <1>2, CreateMoves, TablesKeep
<1>3. CASE ReapComments
  BY <1>3, ReapMoves, TablesKeep
<1>4. CASE NextPeriod
  BY <1>4, PeriodMoves, TablesKeep
<1>5. CASE AskComments \/ TakeComments \/ RefreshComments \/ LoadPage \/ PutCards
  BY <1>5, AskKeeps, TakeKeeps, RefreshKeeps, LoadKeeps, PutKeeps
<1>6. CASE UNCHANGED <<revVars, commentsVars>>
  <2>1. /\ UNCHANGED <<revVars, tableVars, asked>>
        /\ page' = page /\ index' = index /\ answer' = answer /\ dropped' = dropped
    BY <1>6 DEF commentsVars, deviceVars
  <2>2. /\ rev' = rev /\ reapedRev' = reapedRev /\ today' = today /\ homes' = homes
        /\ sessions' = sessions /\ events' = events /\ lastId' = lastId
        /\ asked' = asked /\ swept' = swept /\ RowsInv'
    BY <2>1, TablesStill
  <2> QED
    BY <2>1, <2>2 DEF IndexInv, CommentsTypeOK, RevTypeOK, HeldInv, AnswerInv
<1> QED
  BY <1>1, <1>2, <1>3, <1>4, <1>5, <1>6 DEF IndexNext

LEMMA IndexInvariance == IndexSpec => []IndexInv
  BY IndexInitInv, IndexStepInv, PTL DEF IndexSpec

\* The comments, the Search Index and the answer on its way keep their types.
THEOREM IndexTyped == IndexSpec => []CommentsTypeOK
<1>1. IndexInv => CommentsTypeOK
  BY DEF IndexInv
<1> QED
  BY <1>1, IndexInvariance, PTL

\* After one more refresh the Search Index holds the comments the server lists,
\* whatever was written and reaped, whichever refreshes crossed and whatever
\* putCards dropped, but for what a cascade destroyed, what putCards dropped too
\* early, and what waits for the page to drop its card
\* (internal/server/comments.go:71-135, web/ts/searchindex.ts).
THEOREM IndexReadsAsServer == IndexSpec => []CommentIndexReadsAsServer
<1>1. IndexInv => CommentIndexReadsAsServer
  <2> SUFFICES ASSUME IndexInv, NEW e \in EventIds
               PROVE  \/ Refreshed[e] = ServerComments[e]
                      \/ e \in swept \cup dropped
                      \/ Refreshed[e] # NoComment /\ homes[Refreshed[e].card].st = "dead"
    BY DEF CommentIndexReadsAsServer
  <2> DEFINE since == DeltaBase(index.rev)
             d == CommentsDelta(since)[e]
             had == index.comments[e]
  <2>1. /\ Refreshed[e] = IF d = Kept THEN had ELSE d
        /\ events[e] \in EventRows /\ homes \in [CardIds -> HomeRows]
    BY DEF Refreshed, MergedComments, IndexInv, CommentsTypeOK
  <2>2. /\ ServerComments[e] # Kept /\ NoComment # Kept
        /\ Its(e, events[e], lastId, had)
        /\ Present(events[e]) /\ events[e].card # None => Present(homes[events[e].card])
    BY ListedReads, AnswerWords DEF IndexInv, HeldInv, RowsInv
  <2>3. CASE d = ServerComments[e]
    BY <2>1, <2>2, <2>3
  <2>4. CASE /\ d = NoComment /\ Present(events[e])
             /\ events[e].st = "dead" \/ events[e].card = None
    <3>1. ServerComments[e] = NoComment
      BY <2>4 DEF ServerComments, Listed
    <3> QED
      BY <2>1, <2>2, <2>4, <3>1
  <2>5. CASE /\ d = Kept /\ since # Full
             /\ ~(Listed(e) /\ events[e].rev > since)
             /\ ~(Present(events[e]) /\ events[e].rev > since
                    /\ (events[e].st = "dead" \/ events[e].card = None))
    <3>1. since = index.rev /\ index.rev >= reapedRev /\ index.rev # Full
      BY <2>5 DEF DeltaBase
    <3>2. Refreshed[e] = had
      BY <2>1, <2>5
    <3>3. \/ e \in swept \cup dropped
          \/ Reads(events[e], homes, reapedRev, had, index.rev)
      BY <3>1 DEF IndexInv, HeldInv
    <3>4. /\ index.rev \in Nat /\ reapedRev \in Nat /\ events[e].rev \in Nat
          /\ events[e].st \in {"none", "live", "dead"} /\ events[e].card \in CardIds \cup {None}
      BY <2>1, <3>1 DEF IndexInv, CommentsTypeOK, RevTypeOK, EventRows
    <3> HIDE DEF since, d, had
    <3>5. CASE ~Present(events[e])
      <4>1. ServerComments[e] = NoComment
        BY <3>5 DEF ServerComments, Listed, Present
      <4> QED
        BY <3>1, <3>2, <3>3, <3>4, <3>5, <4>1 DEF Reads
    <3>6. CASE Present(events[e]) /\ ~Listed(e)
      <4>1. ServerComments[e] = NoComment
        BY <3>6 DEF ServerComments
      <4>2. CASE events[e].st = "live" /\ events[e].card # None
        <5>1. homes[events[e].card].st = "dead"
          BY <2>1, <2>2, <3>4, <3>6, <4>2 DEF Listed, HomeRows, Present
        <5> QED
          BY <2>2, <3>2, <3>6, <4>1, <5>1 DEF Its
      <4>3. CASE ~(events[e].st = "live" /\ events[e].card # None)
        <5>1. events[e].rev <= index.rev
          BY <2>5, <3>1, <3>4, <3>6, <4>3 DEF Present
        <5> QED
          BY <3>2, <3>3, <3>6, <4>1, <4>3, <5>1 DEF Reads
      <4> QED
        BY <4>2, <4>3
    <3>7. CASE Listed(e)
      <4>1. /\ events[e].rev <= index.rev /\ Present(events[e])
            /\ ServerComments[e] = [card |-> events[e].card, text |-> events[e].text]
        BY <2>5, <3>1, <3>4, <3>7 DEF Listed, ServerComments, Present
      <4> QED
        BY <3>2, <3>3, <3>7, <4>1 DEF Reads, Listed
    <3> QED
      BY <3>5, <3>6, <3>7
  <2> QED
    BY <2>3, <2>4, <2>5 DEF CommentsDelta
<1> QED
  BY <1>1, IndexInvariance, PTL

-----------------------------------------------------------------------------
\* The numbers of the tables, whatever the handlers' checks have missed.
CountedInv ==
    /\ RevTypeOK
    /\ homes \in [CardIds -> HomeRows] /\ sessions \in [SessionIds -> SessionRows]
    /\ \A c \in CardIds : homes[c].rev <= rev
    /\ \A e \in EventIds : events[e].rev <= rev
    /\ swept \subseteq EventIds

LEMMA WritesCount ==
    ASSUME CommentsInv, CountedInv, NEW q \in CommentRequests, CommentWrites(q),
           CommentTakes(q), reapedRev' = reapedRev, today' = today
    PROVE  CountedInv'
<1>1. /\ rev \in Nat /\ rev + 1 \in Nat /\ today \in Nat /\ reapedRev \in 0..rev
      /\ events \in [EventIds -> EventRows] /\ lastId \in Nat
      /\ homes \in [CardIds -> HomeRows] /\ sessions \in [SessionIds -> SessionRows]
  BY CommentBounds DEF CommentsInv, TablesOK, CountedInv, RevTypeOK
<1>2. /\ \A c \in CardIds : homes[c].rev \in Nat /\ homes[c].rev <= rev
      /\ \A e \in EventIds : events[e].rev \in Nat /\ events[e].rev <= rev
  BY <1>1 DEF CountedInv, HomeRows, EventRows
<1>3. ASSUME rev' \in {rev, rev + 1}, homes' = homes, sessions' = sessions, swept' = swept,
             \A e \in EventIds : events'[e].rev <= rev'
      PROVE  CountedInv'
  BY <1>1, <1>2, <1>3 DEF CountedInv, RevTypeOK
<1>4. CASE q.op = "add" /\ AddComment(q)
  <2>1. rev' = rev + 1 /\ homes' = homes /\ sessions' = sessions /\ swept' = swept
    BY <1>4 DEF AddComment
  <2>2. lastId + 1 \in EventIds
    BY <1>1, <1>4, CommentBounds DEF CommentTakes, EventIds
  <2> DEFINE row == [NoEvent EXCEPT !.st = "live", !.card = q.card, !.root = q.root,
                                    !.sess = q.sess, !.text = q.text, !.rev = rev']
  <2>3. row.rev = rev + 1
    BY <2>1, NoEventIsARow DEF EventRows
  <2>4. events' = [events EXCEPT ![lastId + 1] = row]
    BY <1>4 DEF AddComment
  <2> HIDE DEF row
  <2> QED
    BY <1>1, <1>2, <1>3, <2>1, <2>2, <2>3, <2>4
<1>5. CASE q.op = "edit" /\ EditComment(q)
  <2>1. /\ rev' = rev + 1 /\ homes' = homes /\ sessions' = sessions /\ swept' = swept
        /\ events' = [events EXCEPT ![q.event].text = q.text, ![q.event].rev = rev + 1]
    BY <1>5 DEF EditComment
  <2>2. ASSUME NEW e \in EventIds PROVE events'[e].rev \in {events[e].rev, rev + 1}
    BY <1>1, <2>1 DEF EventRows
  <2> QED
    BY <1>1, <1>2, <1>3, <2>1, <2>2
<1>6. CASE q.op = "tag" /\ TagComment(q)
  <2>1. /\ rev' = rev /\ homes' = homes /\ sessions' = sessions /\ swept' = swept
        /\ events' = [events EXCEPT ![q.event].sess = q.sess]
    BY <1>6 DEF TagComment
  <2>2. ASSUME NEW e \in EventIds PROVE events'[e].rev = events[e].rev
    BY <1>1, <2>1 DEF EventRows
  <2> QED
    BY <1>1, <1>2, <1>3, <2>1, <2>2
<1>7. CASE q.op = "delete" /\ DeleteComment(q)
  <2> DEFINE dead == Tombstone(events[q.event])
             row == [dead EXCEPT !.text = Blank, !.rev = rev + 1]
  <2>1. /\ rev' = rev + 1 /\ homes' = homes /\ sessions' = sessions /\ swept' = swept
        /\ events' = [events EXCEPT ![q.event] = row] /\ q.event \in EventIds
    BY <1>7 DEF DeleteComment, CommentRequests
  <2>2. dead \in EventRows
    BY <1>1, <2>1, DeadEventIsARow
  <2> HIDE DEF dead
  <2>3. row.rev = rev + 1
    BY <2>2 DEF EventRows
  <2> HIDE DEF row
  <2> QED
    BY <1>1, <1>2, <1>3, <2>1, <2>3
<1>8. CASE q.op = "note" /\ AddNote(q)
  <2>1. rev' = rev /\ homes' = homes /\ sessions' = sessions /\ swept' = swept
    BY <1>8 DEF AddNote
  <2>2. lastId + 1 \in EventIds
    BY <1>1, <1>8, CommentBounds DEF CommentTakes, EventIds
  <2> DEFINE row == [NoEvent EXCEPT !.st = "live", !.sess = q.sess, !.text = q.text]
  <2>3. row.rev = 0
    <3>1. NoEvent.rev = 0
      BY DEF NoEvent
    <3> QED
      BY <3>1, NoEventIsARow DEF EventRows
  <2>4. events' = [events EXCEPT ![lastId + 1] = row]
    BY <1>8 DEF AddNote
  <2> HIDE DEF row
  <2> QED
    BY <1>1, <1>2, <1>3, <2>1, <2>2, <2>3, <2>4
<1>9. CASE q.op = "deleteSession" /\ DeleteSession(q)
  <2> DEFINE notes == {e \in EventIds : events[e].st = "live" /\ events[e].sess = q.sess
                                        /\ events[e].card = None}
  <2>1. /\ rev' = (IF notes = {} THEN rev ELSE rev + 1) /\ homes' = homes /\ swept' = swept
        /\ sessions' = [sessions EXCEPT ![q.sess] = Tombstone(@)]
        /\ events' = [e \in EventIds |->
                IF e \in notes THEN [Tombstone(events[e]) EXCEPT !.rev = rev'] ELSE events[e]]
        /\ q.sess \in SessionIds
    BY <1>9 DEF DeleteSession, CommentRequests
  <2>2. Tombstone(sessions[q.sess]) \in SessionRows
    BY <1>1, <2>1 DEF SessionRows, Tombstone
  <2>3. sessions' \in [SessionIds -> SessionRows]
    BY <1>1, <2>1, <2>2
  <2>4. ASSUME NEW e \in EventIds PROVE events'[e].rev <= rev'
    <3>1. CASE e \in notes
      <4> DEFINE dead == Tombstone(events[e])
      <4>1. dead \in EventRows
        BY <1>1 DEF EventRows, Tombstone
      <4>2. events'[e] = [dead EXCEPT !.rev = rev']
        BY <2>1, <3>1
      <4> HIDE DEF dead, notes
      <4>3. events'[e].rev = rev'
        BY <4>1, <4>2 DEF EventRows
      <4> QED
        BY <1>1, <2>1, <4>3
    <3>2. CASE e \notin notes
      <4>1. events'[e] = events[e]
        BY <2>1, <3>2
      <4> HIDE DEF notes
      <4> QED
        BY <1>1, <1>2, <2>1, <4>1
    <3> QED
      BY <3>1, <3>2
  <2> HIDE DEF notes
  <2>5. rev' \in {rev, rev + 1}
    BY <2>1
  <2>6. \A c \in CardIds : homes[c].rev <= rev'
    BY <1>1, <1>2, <2>5
  <2> QED
    BY <1>1, <2>1, <2>3, <2>4, <2>5, <2>6 DEF CountedInv, RevTypeOK
<1>10. CASE q.op = "deleteHome" /\ DeleteHome(q)
  <2> DEFINE dead == Tombstone(homes[q.card])
             home == [dead EXCEPT !.rev = rev + 1]
  <2>1. /\ rev' = rev + 1 /\ homes' = [homes EXCEPT ![q.card] = home]
        /\ events' = events /\ sessions' = sessions /\ swept' = swept /\ q.card \in CardIds
    BY <1>10 DEF DeleteHome, CommentRequests
  <2>2. dead \in HomeRows
    BY <1>1, <2>1 DEF HomeRows, Tombstone
  <2> HIDE DEF dead
  <2>3. home \in HomeRows /\ home.rev = rev + 1
    BY <1>1, <2>2 DEF HomeRows
  <2> HIDE DEF home
  <2>4. homes' \in [CardIds -> HomeRows]
    BY <1>1, <2>1, <2>3
  <2>5. \A c \in CardIds : homes'[c].rev <= rev'
    BY <1>1, <1>2, <2>1, <2>3
  <2>6. \A e \in EventIds : events'[e].rev <= rev'
    BY <1>1, <1>2, <2>1
  <2> QED
    BY <1>1, <2>1, <2>4, <2>5, <2>6 DEF CountedInv, RevTypeOK
<1> QED
  BY <1>4, <1>5, <1>6, <1>7, <1>8, <1>9, <1>10 DEF CommentWrites

LEMMA CountedStep ==
    CommentsInv /\ CountedInv /\ [CommentsNext]_<<revVars, commentsVars>> => CountedInv'
<1> SUFFICES ASSUME CommentsInv, CountedInv, [CommentsNext]_<<revVars, commentsVars>>
             PROVE  CountedInv'
  OBVIOUS
<1>1. /\ rev \in Nat /\ today \in Nat /\ reapedRev \in 0..rev
      /\ events \in [EventIds -> EventRows]
      /\ homes \in [CardIds -> HomeRows] /\ sessions \in [SessionIds -> SessionRows]
      /\ \A c \in CardIds : homes[c].rev \in Nat /\ homes[c].rev <= rev
      /\ \A e \in EventIds : events[e].rev \in Nat /\ events[e].rev <= rev
  BY DEF CommentsInv, TablesOK, CountedInv, RevTypeOK, HomeRows, EventRows
<1>2. ASSUME NEW q \in CommentRequests, HandleComment(q) PROVE CountedInv'
  BY <1>2, WritesCount DEF HandleComment
<1>3. ASSUME UNCHANGED <<rev, tableVars>>, reapedRev' = reapedRev,
             today' = today \/ today' = today + 1
      PROVE  CountedInv'
  BY <1>1, <1>3 DEF CountedInv, RevTypeOK, tableVars
<1>4. ASSUME NEW q \in CommentRequests, AdmitComment(q) PROVE CountedInv'
  BY <1>3, <1>4 DEF AdmitComment, revVars
<1>5. CASE CommitComment
  <2>1. asked \in CommentRequests
    BY <1>5 DEF CommitComment, CommentsInv, TablesOK
  <2>2. CASE CommentTakes(asked)
    BY <1>5, <2>1, <2>2, WritesCount DEF CommitComment
  <2>3. CASE ~CommentTakes(asked)
    BY <1>3, <1>5, <2>3 DEF CommitComment
  <2> QED
    BY <2>2, <2>3
<1>6. ASSUME NEW c \in CardIds, CreateHome(c) PROVE CountedInv'
  <2> DEFINE home == [st |-> "live", day |-> 0, rev |-> rev + 1]
  <2>1. /\ rev' = rev + 1 /\ homes' = [homes EXCEPT ![c] = home] /\ sessions' = sessions
        /\ events' = events /\ swept' = swept /\ reapedRev' = reapedRev /\ today' = today
    BY <1>6 DEF CreateHome
  <2>2. home \in HomeRows /\ home.rev = rev + 1
    BY <1>1 DEF HomeRows
  <2> HIDE DEF home
  <2>3. \A d \in CardIds : homes'[d] \in HomeRows /\ homes'[d].rev <= rev'
    BY <1>1, <2>1, <2>2
  <2>4. homes' \in [CardIds -> HomeRows]
    BY <1>1, <2>1, <2>2
  <2> QED
    BY <1>1, <2>1, <2>3, <2>4 DEF CountedInv, RevTypeOK
<1>7. CASE ReapComments
  <2> DEFINE S == {homes[c].rev : c \in {c \in CardIds : Expired(homes[c])}}
                     \cup {events[e].rev : e \in {e \in EventIds : Expired(events[e])}}
  <2>1. /\ reapedRev' = HighestOf(S) /\ rev' = rev /\ today' = today
        /\ homes' = [c \in CardIds |->
              IF Expired(homes[c]) THEN [st |-> "none", day |-> 0, rev |-> 0] ELSE homes[c]]
        /\ sessions' = [s \in SessionIds |->
              IF Expired(sessions[s]) THEN [st |-> "none", day |-> 0] ELSE sessions[s]]
        /\ events' = [e \in EventIds |-> IF e \in Destroyed THEN NoEvent ELSE events[e]]
        /\ swept' = swept \cup {e \in Destroyed : ~Expired(events[e])}
    BY <1>7 DEF ReapComments
  <2>2. S \subseteq 0..rev
    BY <1>1
  <2> HIDE DEF S
  <2>3. reapedRev' \in 0..rev
    <3>1. HighestOf(S) \in reapedRev..rev
      BY <1>1, <2>2, HighestCovers
    <3> DEFINE high == HighestOf(S)
    <3>2. high \in reapedRev..rev /\ reapedRev' = high
      BY <2>1, <3>1
    <3> HIDE DEF high
    <3> QED
      BY <1>1, <3>2
  <2>4. ASSUME NEW c \in CardIds PROVE homes'[c] \in HomeRows /\ homes'[c].rev <= rev
    <3>1. CASE Expired(homes[c])
      <4>1. homes'[c] = [st |-> "none", day |-> 0, rev |-> 0]
        BY <2>1, <3>1
      <4> QED
        BY <1>1, <4>1 DEF HomeRows
    <3>2. CASE ~Expired(homes[c])
      BY <1>1, <2>1, <3>2
    <3> QED
      BY <3>1, <3>2
  <2>5. ASSUME NEW s \in SessionIds PROVE sessions'[s] \in SessionRows
    <3>1. CASE Expired(sessions[s])
      <4>1. sessions'[s] = [st |-> "none", day |-> 0]
        BY <2>1, <3>1
      <4> QED
        BY <4>1 DEF SessionRows
    <3>2. CASE ~Expired(sessions[s])
      BY <1>1, <2>1, <3>2
    <3> QED
      BY <3>1, <3>2
  <2>6. ASSUME NEW e \in EventIds PROVE events'[e].rev <= rev
    <3>1. NoEvent.rev = 0
      BY DEF NoEvent
    <3> QED
      BY <1>1, <2>1, <3>1
  <2>7. swept' \subseteq EventIds
    <3>1. Destroyed \subseteq EventIds
      BY DEF Destroyed, WithACard, WithASession, ExpiredComments
    <3> QED
      BY <2>1, <3>1 DEF CountedInv
  <2>8. homes' \in [CardIds -> HomeRows] /\ sessions' \in [SessionIds -> SessionRows]
    BY <2>1, <2>4, <2>5
  <2> QED
    BY <1>1, <2>1, <2>3, <2>4, <2>6, <2>7, <2>8 DEF CountedInv, RevTypeOK
<1>8. CASE NextPeriod
  BY <1>3, <1>8 DEF NextPeriod, commentsVars
<1>9. CASE UNCHANGED <<revVars, commentsVars>>
  BY <1>3, <1>9 DEF revVars, commentsVars
<1> QED
  BY <1>2, <1>4, <1>5, <1>6, <1>7, <1>8, <1>9 DEF CommentsNext

\* A device that does not move.
DeviceOK ==
    /\ page = {} /\ answer = NoRequest /\ dropped = {}
    /\ index = [rev |-> Full, comments |-> [e \in EventIds |-> NoComment]]

LEMMA DeviceStep == DeviceOK /\ [CommentsNext]_<<revVars, commentsVars>> => DeviceOK'
<1> SUFFICES ASSUME DeviceOK, [CommentsNext]_<<revVars, commentsVars>> PROVE DeviceOK'
  OBVIOUS
<1>1. UNCHANGED deviceVars
  BY DEF CommentsNext, HandleComment, AdmitComment, CommitComment, CreateHome, ReapComments,
         NextPeriod, commentsVars
<1> QED
  BY <1>1 DEF DeviceOK, deviceVars

\* The tables keep their types when a handler's checks and its transaction come
\* apart: a row that is gone is not updated, and reaped_rev stays below rev.
THEOREM CommentsTyped == CommentsSpec => []CommentsTypeOK
<1>1. CommentsInit => CountedInv /\ DeviceOK
  <2> SUFFICES ASSUME CommentsInit PROVE CountedInv /\ DeviceOK
    OBVIOUS
  <2>1. NoEvent.rev = 0
    BY DEF NoEvent
  <2>2. CountedInv
    BY <2>1 DEF CommentsInit, CountedInv, RevInit, RevTypeOK, HomeRows, SessionRows
  <2> QED
    BY <2>2 DEF CommentsInit, DeviceOK
<1>2. CommentsInv /\ CountedInv /\ DeviceOK => CommentsTypeOK
  <2> SUFFICES ASSUME CommentsInv, CountedInv, DeviceOK PROVE CommentsTypeOK
    OBVIOUS
  <2>1. index \in [rev : Nat \cup {Full},
                  comments : [EventIds -> IndexedComments \cup {NoComment}]]
    BY DEF DeviceOK
  <2> QED
    BY <2>1 DEF CommentsInv, TablesOK, CountedInv, DeviceOK, CommentsTypeOK
<1> QED
  BY <1>1, <1>2, CommentsInitInv, CommentsStepInv, CountedStep, DeviceStep, PTL DEF CommentsSpec

-----------------------------------------------------------------------------
(***************************************************************************)
(* Proofs about the offline engine of an xy page: no queued op is lost, an *)
(* edit follows its card's create, and an op is not put back by an older   *)
(* one whose call was over.                                                *)
(***************************************************************************)

Creates == [key : Keys, kind : {"create"}]
Edits == [key : Keys, kind : {"edit"}, ref : Refs]
CallPlaces == {"check", "send", "queue", "added", "counted"}
FlushPlaces == {"idle", "read", "send", "answered", "deleted", "clear"}
ServedCards == [last : 0..MaxOp, newest : 0..MaxOp]
IdMaps == [Keys -> 1..MaxServed \cup {Nothing}]

\* An edit that names its card by the op that created it.
ByTemp(op) == op.kind = "edit" /\ "temp" \in DOMAIN op.ref

\* A call whose op is neither queued nor over.
CallWaits(c) == c.pc \in {"check", "send", "queue"}

\* Op k may be sent after op n: it is no older, or its call was under way then.
After(pairs, k, n) == n <= k \/ <<k, n>> \in pairs

\* A key is that of one call and of one place in the queue, the call's own op.
KeysInv ==
    /\ \A c \in calls : c.op.key <= lastOp
    /\ \A c, d \in calls : c.op.key = d.op.key => c = d
    /\ \A i \in DOMAIN outbox : outbox[i].key <= lastOp
    /\ \A i, j \in DOMAIN outbox : outbox[i].key = outbox[j].key => i = j
    /\ \A c \in calls : \A i \in DOMAIN outbox :
          outbox[i].key = c.op.key => outbox[i] = c.op /\ ~CallWaits(c)

\* What is queued or sent comes after what it is queued or sent behind.
OrderInv ==
    /\ \A c, d \in calls : After(beside, c.op.key, d.op.key)
    /\ \A i, j \in DOMAIN outbox : i < j => After(beside, outbox[j].key, outbox[i].key)
    /\ \A c \in calls : \A i \in DOMAIN outbox :
          /\ CallWaits(c) => After(beside, c.op.key, outbox[i].key)
          /\ c.pc = "send" => After(beside, outbox[i].key, c.op.key)

\* No edit is queued under key k.
CreateOnly(k) == \A j \in DOMAIN outbox : outbox[j].key = k => outbox[j].kind = "create"

\* Key k is that of a create whose call is over.
Past(k) == k <= lastOp /\ CreateOnly(k) /\ \A c \in calls : c.op.key # k

\* A temp id is that of a create whose call is over.
TempInv ==
    /\ \A ref \in held : "temp" \in DOMAIN ref => Past(ref.temp)
    /\ \A i \in DOMAIN outbox : ByTemp(outbox[i]) => Past(outbox[i].ref.temp)
    /\ \A c \in calls : ByTemp(c.op) => Past(c.op.ref.temp)

\* The flush has the head of the queue in hand, and reads the map as it is stored.
FlushInv ==
    /\ flusher.pc \in {"send", "answered"} => outbox # <<>> /\ flusher.op = Head(outbox)
    /\ flusher.pc # "idle" => flusher.ids = idmap
    /\ flusher.pc = "answered" =>
          /\ flusher.op.key \notin owed
          /\ flusher.op.kind = "create" =>
                idmap[flusher.op.key] # Nothing \/ flusher.op.key \in refused

\* When nothing is counted, what is queued was added by calls that have yet to
\* count it, and nothing of it waits behind its card's create.
CountInv ==
    pending = 0 =>
        \A i \in DOMAIN outbox :
            /\ \E c \in calls : c.pc = "added" /\ c.op.key = outbox[i].key
            /\ ByTemp(outbox[i]) => outbox[i].key \in late

\* An op before the i-th of the queue has key k.
Before(i, k) == \E j \in DOMAIN outbox : j < i /\ outbox[j].key = k

\* A queued edit's card has its real id, or gets it first.
FollowInv ==
    \A i \in DOMAIN outbox : ByTemp(outbox[i]) =>
        \/ outbox[i].key \in late \/ outbox[i].ref.temp \in refused
        \/ Before(i, outbox[i].ref.temp)
        \/ flusher.pc # "clear" /\ idmap[outbox[i].ref.temp] # Nothing

\* What the server holds is not put back by what is still to be sent.
NewestInv ==
  /\ Len(served) <= MaxServed
  /\ \A r \in Cards :
        /\ served[r].last <= served[r].newest /\ served[r].newest <= lastOp
        /\ After(beside, served[r].last, served[r].newest)
        /\ \A i \in DOMAIN outbox : After(beside, outbox[i].key, served[r].newest)
        /\ \A c \in calls : CallWaits(c) => After(beside, c.op.key, served[r].newest)

SyncInv ==
    /\ SyncTypeOK /\ KeysInv /\ OrderInv /\ TempInv /\ FlushInv /\ CountInv
    /\ QueuedOpsAreKept /\ FollowInv /\ NewestInv

-----------------------------------------------------------------------------
LEMMA OpKinds ==
    ASSUME NEW op \in Ops
    PROVE  /\ op.key \in Keys /\ op.key \in Nat /\ op.kind \in {"create", "edit"}
           /\ op.kind = "create" => op \in Creates
           /\ op.kind = "edit" => op \in Edits /\ op.ref \in Refs
           /\ ByTemp(op) => op.ref.temp \in Keys
BY SyncBounds DEF Ops, Creates, Edits, ByTemp, Refs, Keys

LEMMA QueueTyped ==
    ASSUME SyncTypeOK
    PROVE  /\ DOMAIN outbox = 1..Len(outbox) /\ Len(outbox) \in Nat
           /\ \A i \in DOMAIN outbox : outbox[i] \in Ops /\ outbox[i].key \in Nat
           /\ \A c \in calls : c \in Calls /\ c.op \in Ops /\ c.op.key \in Nat
           /\ lastOp \in Nat
<1>1. DOMAIN outbox = 1..Len(outbox) /\ Len(outbox) \in Nat
      /\ \A i \in DOMAIN outbox : outbox[i] \in Ops
  BY DEF SyncTypeOK
<1>2. \A c \in calls : c \in Calls /\ c.op \in Ops
  BY DEF SyncTypeOK, Calls
<1>3. lastOp \in Nat
  BY SyncBounds DEF SyncTypeOK
<1> QED BY <1>1, <1>2, <1>3, OpKinds

\* The op deleted is the head of the queue.
LEMMA DeletesHead ==
    ASSUME SyncTypeOK, KeysInv, FlushInv, DeleteOp
    PROVE  outbox # <<>> /\ outbox' = Tail(outbox)
<1>1. outbox # <<>> /\ flusher.op = outbox[1]
  BY QueueTyped DEF DeleteOp, FlushInv
<1>2. outbox' = RemoveFirstMatch(outbox, LAMBDA op : op.key = outbox[1].key)
  BY <1>1 DEF DeleteOp
<1>3. \E i \in 1..Len(outbox) : outbox[i].key = outbox[1].key
  BY <1>1, QueueTyped
<1>4. SelectInSeq(outbox, LAMBDA op : op.key = outbox[1].key) = 1
  <2> DEFINE I == {i \in 1..Len(outbox) : outbox[i].key = outbox[1].key}
  <2>1. I = {1}
    <3>1. ASSUME NEW i \in 1..Len(outbox), i # 1 PROVE outbox[i].key # outbox[1].key
      <4>1. 1 \in DOMAIN outbox /\ i \in DOMAIN outbox
        BY <1>1, <3>1, QueueTyped
      <4> QED BY <3>1, <4>1 DEF KeysInv
    <3>2. 1 \in 1..Len(outbox)
      BY <1>1, QueueTyped
    <3> QED BY <3>1, <3>2
  <2>2. Min(I) = 1
    BY <2>1 DEF Min
  <2> QED BY <2>1, <2>2 DEF SelectInSeq
<1>5. outbox' = RemoveAt(outbox, 1)
  BY <1>2, <1>3, <1>4 DEF RemoveFirstMatch
<1> QED BY <1>1, <1>5, QueueTyped DEF RemoveAt, SyncTypeOK

\* The queue with its head gone, place by place.
LEMMA TailPlaces ==
    ASSUME SyncTypeOK, KeysInv, FlushInv, DeleteOp
    PROVE  /\ flusher.op = outbox[1] /\ 1 \in DOMAIN outbox
           /\ DOMAIN outbox' = 1..(Len(outbox) - 1)
           /\ \A i \in DOMAIN outbox' : i + 1 \in DOMAIN outbox /\ outbox'[i] = outbox[i + 1]
           /\ flusher.pc = "answered" /\ flusher'.pc = "deleted"
<1>1. outbox # <<>> /\ outbox' = Tail(outbox) /\ outbox \in Seq(Ops)
  BY DeletesHead DEF SyncTypeOK
<1>2. flusher.pc = "answered" /\ flusher.op = Head(outbox)
  BY DEF DeleteOp, FlushInv
<1>3. flusher'.pc = "deleted"
  BY DEF DeleteOp, SyncTypeOK
<1> QED BY <1>1, <1>2, <1>3

\* The queue with one op more, place by place.
LEMMA AddedPlaces ==
    ASSUME SyncTypeOK, NEW c \in calls, AddOp(c)
    PROVE  /\ DOMAIN outbox' = 1..(Len(outbox) + 1)
           /\ \A i \in DOMAIN outbox : outbox'[i] = outbox[i]
           /\ outbox'[Len(outbox) + 1] = c.op /\ c.op \in Ops /\ CallWaits(c)
           /\ \A i \in DOMAIN outbox' : i \in DOMAIN outbox \/ i = Len(outbox) + 1
<1>1. outbox' = Append(outbox, c.op) /\ outbox \in Seq(Ops) /\ c.op \in Ops /\ c.pc = "queue"
  BY QueueTyped DEF AddOp, SyncTypeOK
<1> QED BY <1>1 DEF CallWaits

\* Writing one place of a sequence, or none.
LEMMA Overwritten ==
    ASSUME NEW S, NEW s \in Seq(S), NEW r, NEW c, r \in 1..Len(s) => c \in S
    PROVE  /\ [s EXCEPT ![r] = c] \in Seq(S) /\ Len([s EXCEPT ![r] = c]) = Len(s)
           /\ \A q \in 1..Len(s) : [s EXCEPT ![r] = c][q] = IF q = r THEN c ELSE s[q]
<1>1. CASE r \in 1..Len(s)
  BY <1>1
<1>2. CASE r \notin 1..Len(s)
  <2>1. [s EXCEPT ![r] = c] = s
    BY <1>2
  <2> QED BY <1>2, <2>1
<1> QED BY <1>1, <1>2

\* What the server has after it took an op: one card more, or one written.
LEMMA Taken ==
    ASSUME SyncTypeOK, Len(served) <= MaxServed, NEW op \in Ops, NEW ids, ServerTakes(op, ids)
    PROVE  /\ served' \in Seq(ServedCards) /\ Len(served') <= MaxServed
           /\ op.kind = "create" =>
                 /\ Len(served') = Len(served) + 1 /\ Len(served') \in 1..MaxServed
                 /\ \A r \in 1..Len(served) : served'[r] = served[r]
                 /\ served'[Len(served')].last = 0 /\ served'[Len(served')].newest = 0
           /\ op.kind # "create" =>
                 /\ Len(served') = Len(served)
                 /\ \A r \in 1..Len(served) : served'[r] = served[r] \/
                       /\ served'[r].last = op.key
                       /\ served'[r].newest = IF op.key > served[r].newest THEN op.key
                                              ELSE served[r].newest
<1> USE SyncBounds
<1>1. served \in Seq(ServedCards) /\ Len(served) \in Nat /\ op.key \in Keys
  BY OpKinds DEF SyncTypeOK, ServedCards
<1>2. served' = AfterOp(op, ids) /\ CanTake(op, ids)
  BY DEF ServerTakes
<1>3. CASE op.kind = "create"
  <2> DEFINE card == [last |-> 0, newest |-> 0]
  <2>1. card \in ServedCards /\ card.last = 0 /\ card.newest = 0
    BY <1>1 DEF ServedCards, Keys
  <2>2. served' = Append(served, card) /\ Len(served) < MaxServed
    BY <1>2, <1>3 DEF AfterOp, CanTake
  <2> HIDE DEF card
  <2> QED BY <1>1, <1>2, <1>3, <2>1, <2>2
<1>4. CASE op.kind # "create"
  <2> DEFINE r0 == Resolved(op.ref, ids).real
             card == Edited(served[r0], op.key)
  <2>1. served' = [served EXCEPT ![r0] = card]
    BY <1>2, <1>4 DEF AfterOp
  <2>2. ASSUME r0 \in 1..Len(served)
        PROVE  /\ card \in ServedCards /\ card.last = op.key
               /\ card.newest = IF op.key > served[r0].newest THEN op.key ELSE served[r0].newest
    <3> HIDE DEF r0
    <3>1. served[r0] \in ServedCards
      BY <1>1, <2>2
    <3> QED BY <1>1, <3>1 DEF ServedCards, Keys, Edited
  <2> HIDE DEF card, r0
  <2>3. /\ served' \in Seq(ServedCards) /\ Len(served') = Len(served)
        /\ \A r \in 1..Len(served) : served'[r] = IF r = r0 THEN card ELSE served[r]
    BY <1>1, <2>1, <2>2, Overwritten
  <2> QED BY <1>1, <1>2, <1>4, <2>2, <2>3
<1> QED BY <1>3, <1>4

\* Only these steps change the queue, what was got, or what the server holds.
LEMMA Frames ==
    ASSUME [SyncNext]_syncVars
    PROVE  /\ (\E c \in calls : AddOp(c)) \/ DeleteOp \/ UNCHANGED outbox
           /\ Mutate \/ UNCHANGED <<lastOp, beside>>
           /\ (\E c \in calls : AddOp(c)) \/ FlushTaken \/ FlushRejected \/ UNCHANGED owed
           /\ (\E c \in calls : AddOp(c)) \/ UNCHANGED late
           /\ \/ \E c \in calls : SendTaken(c) \/ SendLost(c)
              \/ FlushTaken \/ FlushLost \/ UNCHANGED served
           /\ FlushRejected \/ UNCHANGED refused
           /\ FlushTaken \/ ClearIdMap \/ UNCHANGED idmap
           /\ (\E c \in calls : CountAdded(c)) \/ CountDeleted \/ Reopen \/ UNCHANGED pending
           /\ \/ \E c \in calls : SendTaken(c) \/ WakeFlush(c)
              \/ LoadBoard \/ UNCHANGED held
<1> USE DEF historyVars
<1>1. CASE Mutate
  BY <1>1 DEF Mutate, Gets
<1>2. CASE \E c \in calls : \/ Check(c) \/ SendTaken(c) \/ SendRejected(c) \/ SendLost(c)
                            \/ AddOp(c) \/ CountAdded(c) \/ WakeFlush(c)
  BY <1>2 DEF Check, SendTaken, SendRejected, SendLost, AddOp, CountAdded, WakeFlush
<1>3. CASE ReadOps \/ FlushTaken \/ FlushRejected \/ FlushLost \/ DeleteOp \/ CountDeleted
  BY <1>3 DEF ReadOps, FlushTaken, FlushRejected, FlushLost, DeleteOp, CountDeleted
<1>4. CASE ClearIdMap \/ LoadBoard \/ Reopen \/ GoOnline \/ GoOffline
  BY <1>4 DEF ClearIdMap, LoadBoard, Reopen, GoOnline, GoOffline
<1>5. CASE UNCHANGED syncVars
  BY <1>5 DEF syncVars
<1> QED BY <1>1, <1>2, <1>3, <1>4, <1>5 DEF SyncNext

\* How a call of mutate goes on.
CallMoves == {<<"check", "send">>, <<"check", "queue">>, <<"send", "queue">>,
          <<"queue", "added">>, <<"added", "counted">>}

LEMMA CallForms ==
    ASSUME SyncTypeOK, [SyncNext]_syncVars
    PROVE  \/ Mutate \/ calls' \subseteq calls
           \/ \E c \in calls, pc \in CallPlaces :
                 GoesOn(c, pc) /\ <<c.pc, pc>> \in CallMoves /\ (pc = "send" => outbox' = <<>>)
<1> USE DEF CallPlaces, CallMoves
<1>1. CASE \E c \in calls : Check(c)
  BY <1>1 DEF Check
<1>2. CASE \E c \in calls : SendLost(c)
  BY <1>2 DEF SendLost
<1>3. CASE \E c \in calls : AddOp(c)
  BY <1>3 DEF AddOp
<1>4. CASE \E c \in calls : CountAdded(c)
  BY <1>4 DEF CountAdded
<1>5. CASE \E c \in calls : SendTaken(c) \/ SendRejected(c) \/ WakeFlush(c)
  BY <1>5 DEF SendTaken, SendRejected, WakeFlush, IsOver
<1>6. CASE Reopen \/ UNCHANGED calls
  BY <1>6 DEF Reopen
<1> QED
  BY <1>1, <1>2, <1>3, <1>4, <1>5, <1>6
     DEF SyncNext, ReadOps, FlushTaken, FlushRejected, FlushLost, DeleteOp, CountDeleted,
         ClearIdMap, LoadBoard, GoOnline, GoOffline, syncVars

\* A call that has gone on is the same call.
LEMMA GoneOn ==
    ASSUME SyncTypeOK, NEW c \in calls, NEW pc \in CallPlaces, GoesOn(c, pc)
    PROVE  \E e \in Calls : /\ e.op = c.op /\ e.pc = pc /\ e \in calls'
                            /\ \A d \in calls' : d = e \/ (d \in calls /\ d # c)
<1>1. c \in [pc : CallPlaces, op : Ops]
  BY DEF SyncTypeOK, Calls, CallPlaces
<1>2. /\ [c EXCEPT !.pc = pc] \in [pc : CallPlaces, op : Ops]
      /\ [c EXCEPT !.pc = pc].op = c.op /\ [c EXCEPT !.pc = pc].pc = pc
  BY <1>1
<1> QED BY <1>2 DEF GoesOn, Calls, CallPlaces

\* Where a call of the next state comes from.
LEMMA CallComes ==
    ASSUME SyncTypeOK, [SyncNext]_syncVars, ~Mutate, NEW d \in calls'
    PROVE  \E c \in calls : /\ d.op = c.op /\ (CallWaits(d) => CallWaits(c))
                            /\ d.pc = "send" => d = c \/ outbox' = <<>>
<1>1. CASE calls' \subseteq calls
  BY <1>1
<1>2. ASSUME NEW c \in calls, NEW pc \in CallPlaces, GoesOn(c, pc), <<c.pc, pc>> \in CallMoves,
             pc = "send" => outbox' = <<>>
      PROVE  \E e \in calls : /\ d.op = e.op /\ (CallWaits(d) => CallWaits(e))
                              /\ d.pc = "send" => d = e \/ outbox' = <<>>
  <2>1. CASE d \in calls
    BY <2>1
  <2>2. CASE d.op = c.op /\ d.pc = pc
    BY <1>2, <2>2 DEF CallMoves, CallWaits
  <2>3. d \in calls \/ (d.op = c.op /\ d.pc = pc)
    BY <1>2, GoneOn
  <2> QED BY <2>1, <2>2, <2>3
<1> QED BY <1>1, <1>2, CallForms

LEMMA CallsAreOne ==
    ASSUME SyncTypeOK, KeysInv, [SyncNext]_syncVars, ~Mutate,
           NEW c \in calls', NEW d \in calls', c.op.key = d.op.key
    PROVE  c = d
<1>1. CASE calls' \subseteq calls
  BY <1>1 DEF KeysInv
<1>2. ASSUME NEW e \in calls, NEW pc \in CallPlaces, GoesOn(e, pc) PROVE c = d
  <2>1. PICK f \in Calls : f.op = e.op /\ \A g \in calls' : g = f \/ (g \in calls /\ g # e)
    BY <1>2, GoneOn
  <2> QED BY <2>1 DEF KeysInv
<1> QED BY <1>1, <1>2, CallForms

\* The call whose op was added waits no more; the others are as they were.
LEMMA AddedCalls ==
    ASSUME SyncTypeOK, NEW c \in calls, AddOp(c)
    PROVE  /\ \A d \in calls' : \/ d \in calls /\ d # c
                                \/ d.op = c.op /\ d.pc = "added" /\ ~CallWaits(d)
           /\ \E d \in calls' : d.op = c.op /\ d.pc = "added"
           /\ \A d \in calls : d # c => d \in calls'
<1>1. GoesOn(c, "added") /\ "added" \in CallPlaces
  BY DEF AddOp, CallPlaces
<1>2. [c EXCEPT !.pc = "added"] \in calls' /\ \A d \in calls : d # c => d \in calls'
  BY <1>1 DEF GoesOn
<1>3. c \in [pc : CallPlaces, op : Ops]
  BY DEF SyncTypeOK, Calls, CallPlaces
<1>4. [c EXCEPT !.pc = "added"].op = c.op /\ [c EXCEPT !.pc = "added"].pc = "added"
  BY <1>3
<1> QED BY <1>1, <1>2, <1>4, GoneOn DEF CallWaits

\* A call that has added its op counts it, unless the page goes first.
LEMMA AddedStays ==
    ASSUME SyncTypeOK, [SyncNext]_syncVars, NEW d \in calls, d.pc = "added"
    PROVE  d \in calls' \/ CountAdded(d) \/ Reopen
<1>1. CASE Mutate
  BY <1>1 DEF Mutate, Gets
<1>2. ASSUME NEW c \in calls, c.pc # "added", calls' = calls \ {c} \/ \E pc : GoesOn(c, pc)
      PROVE  d \in calls'
  BY <1>2 DEF GoesOn
<1>3. CASE \E c \in calls : Check(c)
  BY <1>2, <1>3 DEF Check
<1>4. CASE \E c \in calls : SendTaken(c) \/ SendRejected(c) \/ SendLost(c)
  BY <1>2, <1>4 DEF SendTaken, SendRejected, SendLost, IsOver
<1>5. CASE \E c \in calls : AddOp(c) \/ WakeFlush(c)
  BY <1>2, <1>5 DEF AddOp, WakeFlush, IsOver
<1>6. CASE \E c \in calls : CountAdded(c)
  BY <1>6 DEF CountAdded, GoesOn
<1>7. CASE Reopen \/ UNCHANGED calls
  BY <1>7
<1> QED
  BY <1>1, <1>3, <1>4, <1>5, <1>6, <1>7
     DEF SyncNext, ReadOps, FlushTaken, FlushRejected, FlushLost, DeleteOp, CountDeleted,
         ClearIdMap, LoadBoard, GoOnline, GoOffline, syncVars

\* The op mutate has got: its key is new, and an edit's card is on the page.
LEMMA MutateGets ==
    ASSUME SyncTypeOK, Mutate
    PROVE  /\ lastOp' = lastOp + 1 /\ lastOp' \in Keys
           /\ beside' = beside \cup {<<d.op.key, lastOp'>> : d \in calls}
           /\ UNCHANGED <<outbox, served, held, pending, late>>
           /\ \E c \in Calls : /\ calls' = calls \cup {c} /\ c.op \in Ops /\ c.op.key = lastOp'
                               /\ c.pc \in {"check", "queue"}
                               /\ c.op.kind = "edit" => c.op.ref \in held
<1>1. /\ lastOp' = lastOp + 1 /\ lastOp' \in Keys
      /\ beside' = beside \cup {<<d.op.key, lastOp'>> : d \in calls}
      /\ UNCHANGED <<outbox, served, held, pending, late>>
  BY SyncBounds DEF Mutate, Gets, SyncTypeOK, Keys
<1>2. PICK op \in [key : {lastOp'}, kind : {"create"}]
                   \cup [key : {lastOp'}, kind : {"edit"}, ref : held] :
          calls' = calls \cup {[pc |-> IF pending = 0 THEN "check" ELSE "queue", op |-> op]}
  BY DEF Mutate, Gets
<1>3. op \in Ops /\ op.key = lastOp' /\ (op.kind = "edit" => op.ref \in held)
  BY <1>1, <1>2 DEF Ops, SyncTypeOK
<1>4. [pc |-> IF pending = 0 THEN "check" ELSE "queue", op |-> op] \in Calls
  BY <1>3 DEF Calls
<1> QED BY <1>1, <1>2, <1>3, <1>4

\* What was beside stays so.
LEMMA AfterStays ==
    ASSUME [SyncNext]_syncVars
    PROVE  \A k, n : After(beside, k, n) => After(beside', k, n)
<1>1. beside \subseteq beside'
  BY Frames DEF Mutate, Gets
<1> QED BY <1>1 DEF After

LEMMA KeysStep == SyncInv /\ [SyncNext]_syncVars => KeysInv'
<1> SUFFICES ASSUME SyncInv, [SyncNext]_syncVars PROVE KeysInv'
  OBVIOUS
<1>1. /\ SyncTypeOK /\ KeysInv /\ FlushInv /\ lastOp \in Nat
      /\ DOMAIN outbox = 1..Len(outbox) /\ Len(outbox) \in Nat
      /\ \A i \in DOMAIN outbox : outbox[i].key \in Nat
      /\ \A c \in calls : c.op.key \in Nat
  BY QueueTyped DEF SyncInv
<1>2. CASE Mutate
  <2>1. UNCHANGED outbox /\ lastOp' = lastOp + 1
    BY <1>1, <1>2, MutateGets
  <2>2. PICK c : calls' = calls \cup {c} /\ c.op.key = lastOp'
    BY <1>1, <1>2, MutateGets
  <2> QED BY <1>1, <2>1, <2>2 DEF KeysInv
<1>3. ASSUME NEW c \in calls, AddOp(c) PROVE KeysInv'
  <2>1. /\ DOMAIN outbox' = 1..(Len(outbox) + 1)
        /\ \A i \in DOMAIN outbox : outbox'[i] = outbox[i]
        /\ outbox'[Len(outbox) + 1] = c.op /\ CallWaits(c)
        /\ \A i \in DOMAIN outbox' : i \in DOMAIN outbox \/ i = Len(outbox) + 1
    BY <1>1, <1>3, AddedPlaces
  <2>2. /\ \A d \in calls' : (d \in calls /\ d # c) \/ (d.op = c.op /\ ~CallWaits(d))
        /\ lastOp' = lastOp
    <3>1. lastOp' = lastOp
      BY <1>3 DEF AddOp
    <3> QED BY <1>1, <1>3, <3>1, AddedCalls
  <2>3. \A i \in DOMAIN outbox : outbox[i].key # c.op.key
    BY <1>1, <2>1 DEF KeysInv
  <2>4. \A i \in DOMAIN outbox' : outbox'[i].key <= lastOp
    BY <1>1, <2>1 DEF KeysInv
  <2>5. \A i, j \in DOMAIN outbox' : outbox'[i].key = outbox'[j].key => i = j
    BY <1>1, <2>1, <2>3 DEF KeysInv
  <2>6. \A d \in calls' : d.op.key <= lastOp
    BY <1>1, <2>2 DEF KeysInv
  <2>7. \A d, e \in calls' : d.op.key = e.op.key => d = e
    <3>1. ~Mutate
      BY <1>1, <1>3, <2>2, MutateGets
    <3> QED BY <1>1, <3>1, CallsAreOne
  <2>8. ASSUME NEW d \in calls', NEW i \in DOMAIN outbox', outbox'[i].key = d.op.key
        PROVE  outbox'[i] = d.op /\ ~CallWaits(d)
    <3>1. CASE i \in DOMAIN outbox
      BY <1>1, <2>1, <2>2, <2>3, <2>8, <3>1 DEF KeysInv
    <3>2. CASE i = Len(outbox) + 1
      <4>1. d \in calls => d = c
        BY <1>1, <2>1, <2>8, <3>2 DEF KeysInv
      <4> QED BY <2>1, <2>2, <3>2, <4>1
    <3> QED BY <2>1, <3>1, <3>2
  <2> QED BY <2>2, <2>4, <2>5, <2>6, <2>7, <2>8 DEF KeysInv, CallWaits
<1>4. ASSUME ~Mutate, UNCHANGED lastOp,
             \A i \in DOMAIN outbox' : \E j \in DOMAIN outbox : outbox'[i] = outbox[j],
             \A i, j \in DOMAIN outbox' : outbox'[i].key = outbox'[j].key => i = j
      PROVE  KeysInv'
  <2>1. \A d \in calls' : \E c \in calls : d.op = c.op /\ (CallWaits(d) => CallWaits(c))
    BY <1>1, <1>4, CallComes
  <2>2. \A d, e \in calls' : d.op.key = e.op.key => d = e
    BY <1>1, <1>4, CallsAreOne
  <2>3. \A d \in calls' : d.op.key <= lastOp
    BY <1>1, <2>1 DEF KeysInv
  <2>4. ASSUME NEW d \in calls', NEW i \in DOMAIN outbox', outbox'[i].key = d.op.key
        PROVE  outbox'[i] = d.op /\ ~CallWaits(d)
    BY <1>1, <1>4, <2>1, <2>4 DEF KeysInv
  <2>5. \A i \in DOMAIN outbox' : outbox'[i].key <= lastOp
    BY <1>1, <1>4 DEF KeysInv
  <2> QED BY <1>4, <2>2, <2>3, <2>4, <2>5 DEF KeysInv, CallWaits
<1>5. CASE DeleteOp
  <2>1. /\ DOMAIN outbox' = 1..(Len(outbox) - 1)
        /\ \A i \in DOMAIN outbox' : i + 1 \in DOMAIN outbox /\ outbox'[i] = outbox[i + 1]
    BY <1>1, <1>5, TailPlaces
  <2>2. ASSUME NEW i \in DOMAIN outbox', NEW j \in DOMAIN outbox', outbox'[i].key = outbox'[j].key
        PROVE  i = j
    <3>1. i + 1 = j + 1 /\ i \in Int /\ j \in Int
      BY <1>1, <2>1, <2>2 DEF KeysInv
    <3> QED BY <3>1
  <2>3. ~Mutate /\ UNCHANGED lastOp
    <3>1. UNCHANGED lastOp
      BY <1>5 DEF DeleteOp
    <3> QED BY <1>1, <3>1, MutateGets
  <2> QED BY <1>4, <2>1, <2>2, <2>3
<1>6. CASE UNCHANGED <<outbox, lastOp>>
  <2>1. ~Mutate
    BY <1>1, <1>6, MutateGets
  <2> QED BY <1>1, <1>4, <1>6, <2>1 DEF KeysInv
<1> QED BY <1>2, <1>3, <1>5, <1>6, Frames

LEMMA OrderStep == SyncInv /\ [SyncNext]_syncVars => OrderInv'
<1> SUFFICES ASSUME SyncInv, [SyncNext]_syncVars PROVE OrderInv'
  OBVIOUS
<1>1. /\ SyncTypeOK /\ KeysInv /\ OrderInv /\ FlushInv /\ lastOp \in Nat
      /\ DOMAIN outbox = 1..Len(outbox) /\ Len(outbox) \in Nat
      /\ \A i \in DOMAIN outbox : outbox[i].key \in Nat
      /\ \A c \in calls : c.op.key \in Nat
  BY QueueTyped DEF SyncInv
<1>2. CASE Mutate
  <2>1. /\ UNCHANGED outbox /\ lastOp' = lastOp + 1
        /\ \A d \in calls : <<d.op.key, lastOp'>> \in beside'
    BY <1>1, <1>2, MutateGets
  <2>2. PICK c : calls' = calls \cup {c} /\ c.op.key = lastOp' /\ c.pc \in {"check", "queue"}
    BY <1>1, <1>2, MutateGets
  <2>3. ASSUME NEW n \in Nat, n <= lastOp PROVE After(beside', lastOp', n)
    BY <1>1, <2>1, <2>3 DEF After
  <2>4. After(beside', lastOp', lastOp') /\ \A d \in calls : After(beside', d.op.key, lastOp')
    BY <1>1, <2>1 DEF After
  <2>5. ASSUME NEW d \in calls', NEW e \in calls' PROVE After(beside', d.op.key, e.op.key)
    BY <1>1, <2>2, <2>3, <2>4, AfterStays DEF OrderInv, KeysInv
  <2>6. \A i, j \in DOMAIN outbox : i < j => After(beside', outbox[j].key, outbox[i].key)
    BY <1>1, AfterStays DEF OrderInv
  <2>7. ASSUME NEW d \in calls', NEW i \in DOMAIN outbox
        PROVE  /\ CallWaits(d) => After(beside', d.op.key, outbox[i].key)
               /\ d.pc = "send" => After(beside', outbox[i].key, d.op.key)
    <3>1. CASE d \in calls
      BY <1>1, <3>1, AfterStays DEF OrderInv
    <3>2. CASE d = c
      BY <1>1, <2>2, <2>3, <3>2 DEF KeysInv
    <3> QED BY <2>2, <3>1, <3>2
  <2> QED BY <2>1, <2>5, <2>6, <2>7 DEF OrderInv, CallWaits, After
<1>3. ASSUME ~Mutate, NEW d \in calls', NEW e \in calls' PROVE After(beside', d.op.key, e.op.key)
  <2>1. PICK c1 \in calls : d.op = c1.op
    BY <1>1, <1>3, CallComes
  <2>2. PICK c2 \in calls : e.op = c2.op
    BY <1>1, <1>3, CallComes
  <2> QED BY <1>1, <2>1, <2>2, AfterStays DEF OrderInv
<1>4. ASSUME NEW c \in calls, AddOp(c) PROVE OrderInv'
  <2>1. /\ DOMAIN outbox' = 1..(Len(outbox) + 1)
        /\ \A i \in DOMAIN outbox : outbox'[i] = outbox[i]
        /\ outbox'[Len(outbox) + 1] = c.op /\ CallWaits(c)
        /\ \A i \in DOMAIN outbox' : i \in DOMAIN outbox \/ i = Len(outbox) + 1
    BY <1>1, <1>4, AddedPlaces
  <2>2. /\ \A d \in calls' : d \in calls \/ (d.pc = "added" /\ ~CallWaits(d))
        /\ lastOp' = lastOp
    <3>1. lastOp' = lastOp
      BY <1>4 DEF AddOp
    <3> QED BY <1>1, <1>4, <3>1, AddedCalls
  <2>3. ~Mutate
    BY <1>1, <2>2, MutateGets
  <2>4. ASSUME NEW i \in DOMAIN outbox', NEW j \in DOMAIN outbox', i < j
        PROVE  After(beside', outbox'[j].key, outbox'[i].key)
    <3>1. i \in DOMAIN outbox
      BY <1>1, <2>1, <2>4
    <3>2. After(beside, c.op.key, outbox[i].key)
      BY <1>1, <2>1, <3>1 DEF OrderInv
    <3> QED BY <1>1, <2>1, <2>4, <3>1, <3>2, AfterStays DEF OrderInv
  <2>5. ASSUME NEW d \in calls', NEW i \in DOMAIN outbox'
        PROVE  /\ CallWaits(d) => After(beside', d.op.key, outbox'[i].key)
               /\ d.pc = "send" => After(beside', outbox'[i].key, d.op.key)
    <3>1. CASE d \in calls /\ i \in DOMAIN outbox
      BY <1>1, <2>1, <3>1, AfterStays DEF OrderInv
    <3>2. CASE d \in calls /\ i = Len(outbox) + 1
      BY <1>1, <2>1, <3>2, AfterStays DEF OrderInv
    <3> QED BY <2>1, <2>2, <3>1, <3>2
  <2> QED BY <1>3, <2>3, <2>4, <2>5 DEF OrderInv, CallWaits, After
<1>5. ASSUME ~Mutate,
             \A i \in DOMAIN outbox' : \E j \in DOMAIN outbox : outbox'[i] = outbox[j],
             \A i, j \in DOMAIN outbox' : i < j => After(beside, outbox'[j].key, outbox'[i].key)
      PROVE  OrderInv'
  <2>1. ASSUME NEW d \in calls', NEW i \in DOMAIN outbox'
        PROVE  /\ CallWaits(d) => After(beside', d.op.key, outbox'[i].key)
               /\ d.pc = "send" => After(beside', outbox'[i].key, d.op.key)
    <3>1. PICK j \in DOMAIN outbox : outbox'[i] = outbox[j]
      BY <1>5
    <3>2. PICK c \in calls : /\ d.op = c.op /\ (CallWaits(d) => CallWaits(c))
                             /\ d.pc = "send" => d = c \/ outbox' = <<>>
      BY <1>1, <1>5, CallComes
    <3>3. outbox' # <<>>
      OBVIOUS
    <3> QED BY <1>1, <3>1, <3>2, <3>3, AfterStays DEF OrderInv
  <2>2. \A i, j \in DOMAIN outbox' : i < j => After(beside', outbox'[j].key, outbox'[i].key)
    BY <1>5, AfterStays
  <2> QED BY <1>3, <1>5, <2>1, <2>2 DEF OrderInv, CallWaits, After
<1>6. CASE DeleteOp
  <2>1. /\ DOMAIN outbox' = 1..(Len(outbox) - 1)
        /\ \A i \in DOMAIN outbox' : i + 1 \in DOMAIN outbox /\ outbox'[i] = outbox[i + 1]
    BY <1>1, <1>6, TailPlaces
  <2>2. ASSUME NEW i \in DOMAIN outbox', NEW j \in DOMAIN outbox', i < j
        PROVE  After(beside, outbox'[j].key, outbox'[i].key)
    <3>1. i + 1 < j + 1
      BY <1>1, <2>1, <2>2
    <3> QED BY <1>1, <2>1, <2>2, <3>1 DEF OrderInv
  <2>3. ~Mutate
    <3>1. UNCHANGED lastOp
      BY <1>6 DEF DeleteOp
    <3> QED BY <1>1, <3>1, MutateGets
  <2> QED BY <1>5, <2>1, <2>2, <2>3
<1>7. CASE UNCHANGED <<outbox, lastOp>>
  <2>1. ~Mutate
    BY <1>1, <1>7, MutateGets
  <2> QED BY <1>1, <1>5, <1>7, <2>1 DEF OrderInv
<1> QED BY <1>2, <1>4, <1>6, <1>7, Frames

LEMMA FlushStep == SyncInv /\ [SyncNext]_syncVars => FlushInv'
<1> SUFFICES ASSUME SyncInv, [SyncNext]_syncVars PROVE FlushInv'
  OBVIOUS
<1> USE SyncBounds
<1>1. /\ SyncTypeOK /\ FlushInv /\ KeysInv /\ outbox \in Seq(Ops) /\ idmap \in IdMaps
      /\ flusher \in [pc : FlushPlaces, op : Ops \cup {Nothing}, ids : IdMaps]
  BY DEF SyncInv, SyncTypeOK, FlushPlaces, IdMaps
<1>2. CASE UNCHANGED <<flusher, outbox, idmap, refused, owed>>
  BY <1>1, <1>2 DEF FlushInv
<1>3. ASSUME NEW c \in calls, AddOp(c) PROVE FlushInv'
  <2>1. outbox' = Append(outbox, c.op) /\ c.op \in Ops /\ c.pc = "queue"
        /\ owed' = owed \cup {c.op.key} /\ UNCHANGED <<flusher, idmap, refused>>
    BY <1>1, <1>3, QueueTyped DEF AddOp
  <2>2. outbox' # <<>> /\ (outbox # <<>> => Head(outbox') = Head(outbox))
    BY <1>1, <2>1
  <2>3. outbox # <<>> => Head(outbox).key # c.op.key
    <3>1. outbox # <<>> => 1 \in DOMAIN outbox /\ Head(outbox) = outbox[1]
      BY <1>1
    <3> QED BY <1>1, <2>1, <3>1 DEF KeysInv, CallWaits
  <2> QED BY <1>1, <2>1, <2>2, <2>3 DEF FlushInv
<1>4. CASE \/ flusher' = FlushIdle
           \/ flusher'.pc = "read" /\ flusher'.ids = idmap /\ UNCHANGED idmap
  BY <1>1, <1>4 DEF FlushInv, FlushIdle
<1>5. ASSUME flusher.pc # "idle", UNCHANGED idmap, NEW n, flusher' = Leaving(n) PROVE FlushInv'
  BY <1>1, <1>5 DEF Leaving, FlushInv, FlushIdle
<1>6. CASE ReadOps
  <2>1. CASE outbox # <<>>
    BY <1>1, <1>6, <2>1 DEF ReadOps, FlushInv
  <2>2. CASE outbox = <<>>
    BY <1>5, <1>6, <2>2 DEF ReadOps
  <2> QED BY <2>1, <2>2
<1>7. CASE FlushTaken
  <2>1. /\ outbox # <<>> /\ flusher.op = Head(outbox) /\ flusher.op \in Ops
        /\ ServerTakes(flusher.op, flusher.ids) /\ flusher.ids = idmap
        /\ UNCHANGED <<outbox, refused>> /\ owed' = owed \ {flusher.op.key}
    BY <1>1, <1>7 DEF FlushTaken, FlushInv
  <2>2. CASE flusher.op.kind = "create"
    <3>1. Len(served') \in 1..MaxServed /\ flusher.op.key \in Keys
      BY <2>1, <2>2, Taken, OpKinds DEF SyncInv, NewestInv
    <3>2. /\ idmap' = [idmap EXCEPT ![flusher.op.key] = Len(served')]
          /\ flusher' = [flusher EXCEPT !.pc = "answered", !.ids[flusher.op.key] = Len(served')]
      BY <1>7, <2>2 DEF FlushTaken
    <3>3. /\ flusher'.pc = "answered" /\ flusher'.op = flusher.op
          /\ flusher'.ids = [flusher.ids EXCEPT ![flusher.op.key] = Len(served')]
      BY <1>1, <3>2
    <3>4. flusher'.ids = idmap' /\ idmap'[flusher.op.key] # Nothing
      BY <1>1, <2>1, <3>1, <3>2, <3>3 DEF IdMaps
    <3> QED BY <2>1, <3>3, <3>4 DEF FlushInv
  <2>3. CASE flusher.op.kind # "create"
    <3>1. flusher' = [flusher EXCEPT !.pc = "answered"] /\ UNCHANGED idmap
      BY <1>7, <2>3 DEF FlushTaken
    <3>2. flusher'.pc = "answered" /\ flusher'.op = flusher.op /\ flusher'.ids = flusher.ids
      BY <1>1, <3>1
    <3> QED BY <2>1, <2>3, <3>1, <3>2 DEF FlushInv
  <2> QED BY <2>2, <2>3
<1>8. CASE FlushRejected
  BY <1>1, <1>8 DEF FlushRejected, FlushInv
<1>9. CASE FlushLost
  BY <1>5, <1>9 DEF FlushLost
<1>10. CASE DeleteOp
  <2>1. flusher'.pc = "deleted" /\ flusher'.ids = flusher.ids /\ UNCHANGED idmap
        /\ flusher.pc # "idle"
    BY <1>1, <1>10 DEF DeleteOp
  <2> QED BY <1>1, <2>1 DEF FlushInv
<1>11. CASE CountDeleted
  <2>1. flusher.pc = "deleted" /\ UNCHANGED idmap
        /\ flusher' = IF network THEN [flusher EXCEPT !.pc = "read"] ELSE Leaving(pending')
    BY <1>11 DEF CountDeleted
  <2>2. CASE network
    BY <1>1, <1>4, <2>1, <2>2 DEF FlushInv
  <2>3. CASE ~network
    BY <1>5, <2>1, <2>3
  <2> QED BY <2>2, <2>3
<1>12. CASE ClearIdMap
  BY <1>4, <1>12 DEF ClearIdMap
<1>13. CASE \E c \in calls : WakeFlush(c)
  BY <1>2, <1>4, <1>13 DEF WakeFlush, Begun, Beginning, historyVars
<1>14. CASE Reopen
  <2>1. flusher' = FlushIdle \/ (flusher'.pc = "read" /\ flusher'.ids = idmap)
    BY <1>14 DEF Reopen, Beginning
  <2> QED BY <1>4, <1>14, <2>1 DEF Reopen
<1>15. CASE GoOnline
  <2>1. flusher' = flusher \/ (flusher'.pc = "read" /\ flusher'.ids = idmap)
    BY <1>15 DEF GoOnline, Beginning
  <2> QED BY <1>2, <1>4, <1>15, <2>1 DEF GoOnline, historyVars
<1>16. CASE Mutate
  BY <1>2, <1>16 DEF Mutate, Gets
<1>17. CASE \E c \in calls : \/ Check(c) \/ SendTaken(c) \/ SendRejected(c) \/ SendLost(c)
                             \/ CountAdded(c)
  BY <1>2, <1>17 DEF Check, SendTaken, SendRejected, SendLost, CountAdded, historyVars
<1>18. CASE LoadBoard \/ GoOffline \/ UNCHANGED syncVars
  BY <1>2, <1>18 DEF LoadBoard, GoOffline, historyVars, syncVars
<1> QED
  BY <1>3, <1>6, <1>7, <1>8, <1>9, <1>10, <1>11, <1>12, <1>13, <1>14, <1>15, <1>16, <1>17, <1>18
     DEF SyncNext

LEMMA CountStep == SyncInv /\ [SyncNext]_syncVars => CountInv'
<1> SUFFICES ASSUME SyncInv, [SyncNext]_syncVars PROVE CountInv'
  OBVIOUS
<1> USE SyncBounds
<1>1. /\ SyncTypeOK /\ KeysInv /\ TempInv /\ CountInv /\ FlushInv
      /\ DOMAIN outbox = 1..Len(outbox) /\ Len(outbox) \in Nat
  BY QueueTyped DEF SyncInv
<1>2. late \subseteq late'
  BY Frames DEF AddOp
<1>3. CASE (\E c \in calls : CountAdded(c)) \/ CountDeleted \/ Reopen
  <2>1. pending' = Len(outbox) /\ UNCHANGED outbox
    BY <1>3 DEF CountAdded, CountDeleted, Reopen
  <2>2. pending' = 0 => DOMAIN outbox = {}
    BY <1>1, <2>1
  <2> QED BY <1>1, <2>1, <2>2 DEF CountInv
<1>4. ASSUME NEW c \in calls, AddOp(c) PROVE CountInv'
  <2>1. /\ UNCHANGED pending
        /\ late' = IF ByTemp(c.op) /\ c.op.ref.temp \notin KeysOf(outbox)
                   THEN late \cup {c.op.key} ELSE late
    BY <1>1, <1>4 DEF AddOp, ByTemp
  <2>2. /\ DOMAIN outbox' = 1..(Len(outbox) + 1)
        /\ \A i \in DOMAIN outbox : outbox'[i] = outbox[i]
        /\ outbox'[Len(outbox) + 1] = c.op /\ CallWaits(c)
        /\ \A i \in DOMAIN outbox' : i \in DOMAIN outbox \/ i = Len(outbox) + 1
    BY <1>1, <1>4, AddedPlaces
  <2>3. /\ \E d \in calls' : d.op = c.op /\ d.pc = "added"
        /\ \A d \in calls : d # c => d \in calls'
    BY <1>1, <1>4, AddedCalls
  <2>4. ASSUME pending = 0, ByTemp(c.op) PROVE c.op.ref.temp \notin KeysOf(outbox)
    <3>1. \A d \in calls : d.op.key # c.op.ref.temp
      BY <1>1, <2>4 DEF TempInv, Past
    <3>2. \A i \in DOMAIN outbox : outbox[i].key # c.op.ref.temp
      BY <1>1, <2>4, <3>1 DEF CountInv
    <3> QED BY <3>2 DEF KeysOf, ToSet
  <2>5. ASSUME pending = 0, NEW i \in DOMAIN outbox'
        PROVE  /\ \E d \in calls' : d.pc = "added" /\ d.op.key = outbox'[i].key
               /\ ByTemp(outbox'[i]) => outbox'[i].key \in late'
    <3>1. CASE i \in DOMAIN outbox
      <4>1. PICK d \in calls : d.pc = "added" /\ d.op.key = outbox[i].key
        BY <1>1, <2>5, <3>1 DEF CountInv
      <4>2. d # c
        BY <2>2, <4>1 DEF CallWaits
      <4> QED BY <1>1, <1>2, <2>2, <2>3, <2>5, <3>1, <4>1, <4>2 DEF CountInv
    <3>2. CASE i = Len(outbox) + 1
      BY <2>1, <2>2, <2>3, <2>4, <2>5, <3>2
    <3> QED BY <2>2, <2>5, <3>1, <3>2
  <2> QED BY <2>1, <2>5 DEF CountInv, ByTemp
<1>5. ASSUME UNCHANGED pending, ~\E c \in calls : CountAdded(c), ~Reopen,
             \A i \in DOMAIN outbox' : \E j \in DOMAIN outbox : outbox'[i] = outbox[j]
      PROVE  CountInv'
  <2>1. \A c \in calls : c.pc = "added" => c \in calls'
    BY <1>1, <1>5, AddedStays
  <2>2. ASSUME pending = 0, NEW i \in DOMAIN outbox'
        PROVE  /\ \E d \in calls' : d.pc = "added" /\ d.op.key = outbox'[i].key
               /\ ByTemp(outbox'[i]) => outbox'[i].key \in late'
    <3>1. PICK j \in DOMAIN outbox : outbox'[i] = outbox[j]
      BY <1>5, <2>2
    <3>2. PICK d \in calls : d.pc = "added" /\ d.op.key = outbox[j].key
      BY <1>1, <2>2 DEF CountInv
    <3> QED BY <1>1, <1>2, <2>1, <2>2, <3>1, <3>2 DEF CountInv
  <2> QED BY <1>5, <2>2 DEF CountInv, ByTemp
<1>6. CASE DeleteOp /\ UNCHANGED pending
  <2>1. \A i \in DOMAIN outbox' : i + 1 \in DOMAIN outbox /\ outbox'[i] = outbox[i + 1]
    BY <1>1, <1>6, TailPlaces
  <2> QED BY <1>3, <1>5, <1>6, <2>1
<1>7. CASE UNCHANGED <<outbox, pending>>
  BY <1>3, <1>5, <1>7
<1> QED BY <1>3, <1>4, <1>6, <1>7, Frames DEF DeleteOp

LEMMA KeptStep == SyncInv /\ [SyncNext]_syncVars => QueuedOpsAreKept'
<1> SUFFICES ASSUME SyncInv, [SyncNext]_syncVars PROVE QueuedOpsAreKept'
  OBVIOUS
<1>1. /\ SyncTypeOK /\ QueuedOpsAreKept /\ KeysInv /\ FlushInv
      /\ DOMAIN outbox = 1..Len(outbox) /\ Len(outbox) \in Nat
  BY QueueTyped DEF SyncInv
<1>2. ASSUME NEW c \in calls, AddOp(c) PROVE QueuedOpsAreKept'
  <2>1. owed' = owed \cup {c.op.key}
    BY <1>2 DEF AddOp
  <2>2. /\ \A i \in DOMAIN outbox : outbox'[i] = outbox[i] /\ i \in DOMAIN outbox'
        /\ outbox'[Len(outbox) + 1] = c.op /\ Len(outbox) + 1 \in DOMAIN outbox'
    BY <1>1, <1>2, AddedPlaces
  <2>3. KeysOf(outbox) \subseteq KeysOf(outbox') /\ c.op.key \in KeysOf(outbox')
    BY <2>2 DEF KeysOf, ToSet
  <2> QED BY <1>1, <2>1, <2>3 DEF QueuedOpsAreKept
<1>3. CASE DeleteOp
  <2>1. /\ flusher.op = outbox[1] /\ DOMAIN outbox' = 1..(Len(outbox) - 1)
        /\ \A i \in DOMAIN outbox' : outbox'[i] = outbox[i + 1]
        /\ flusher.pc = "answered"
    BY <1>1, <1>3, TailPlaces
  <2>2. flusher.op.key \notin owed /\ UNCHANGED owed
    BY <1>1, <1>3, <2>1 DEF DeleteOp, FlushInv, historyVars
  <2>3. ASSUME NEW i \in DOMAIN outbox PROVE outbox[i].key \in KeysOf(outbox') \cup {flusher.op.key}
    <3>1. CASE i = 1
      BY <2>1, <3>1
    <3>2. CASE i # 1
      <4>1. i - 1 \in DOMAIN outbox' /\ outbox'[i - 1] = outbox[i]
        BY <1>1, <2>1, <3>2
      <4> QED BY <4>1 DEF KeysOf, ToSet
    <3> QED BY <3>1, <3>2
  <2>4. KeysOf(outbox) \subseteq KeysOf(outbox') \cup {flusher.op.key}
    BY <2>3 DEF KeysOf, ToSet
  <2> QED BY <1>1, <2>2, <2>4 DEF QueuedOpsAreKept
<1>4. CASE UNCHANGED outbox /\ owed' \subseteq owed
  BY <1>1, <1>4 DEF QueuedOpsAreKept, KeysOf, ToSet
<1>5. CASE FlushTaken \/ FlushRejected
  BY <1>4, <1>5 DEF FlushTaken, FlushRejected
<1> QED BY <1>2, <1>3, <1>4, <1>5, Frames

\* The page comes by a temp id only when it has queued the create.
LEMMA HeldMoves ==
    ASSUME [SyncNext]_syncVars, NEW ref \in held', "temp" \in DOMAIN ref
    PROVE  \/ ref \in held
           \/ \E c \in calls : WakeFlush(c) /\ c.op.kind = "create" /\ ref.temp = c.op.key
<1>1. \A r : ~("temp" \in DOMAIN [real |-> r])
  OBVIOUS
<1>2. CASE \E c \in calls : SendTaken(c)
  BY <1>1, <1>2 DEF SendTaken
<1>3. CASE LoadBoard
  BY <1>1, <1>3 DEF LoadBoard
<1>4. ASSUME NEW c \in calls, WakeFlush(c)
      PROVE  ref \in held \/ (c.op.kind = "create" /\ ref.temp = c.op.key)
  BY <1>4 DEF WakeFlush
<1>5. CASE UNCHANGED held
  BY <1>5
<1> QED BY <1>2, <1>3, <1>4, <1>5, Frames

\* A create whose call is over stays so.
LEMMA PastStays ==
    ASSUME SyncTypeOK, KeysInv, FlushInv, [SyncNext]_syncVars, NEW k \in Nat, Past(k)
    PROVE  Past(k)'
<1>1. /\ lastOp \in Nat /\ k <= lastOp /\ CreateOnly(k) /\ \A c \in calls : c.op.key # k
      /\ DOMAIN outbox = 1..Len(outbox) /\ Len(outbox) \in Nat
  BY QueueTyped DEF Past
<1>2. CASE Mutate
  BY <1>1, <1>2, MutateGets DEF Past, CreateOnly
<1>3. CASE ~Mutate
  <2>1. UNCHANGED lastOp
    BY <1>3, Frames
  <2>2. \A c \in calls' : c.op.key # k
    BY <1>1, <1>3, CallComes
  <2>3. \A i \in DOMAIN outbox' : outbox'[i].key = k => outbox'[i].kind = "create"
    <3>1. ASSUME NEW c \in calls, AddOp(c), NEW i \in DOMAIN outbox', outbox'[i].key = k
          PROVE  outbox'[i].kind = "create"
      <4>1. /\ \A j \in DOMAIN outbox : outbox'[j] = outbox[j]
            /\ outbox'[Len(outbox) + 1] = c.op
            /\ i \in DOMAIN outbox \/ i = Len(outbox) + 1
        BY <3>1, AddedPlaces
      <4> QED BY <1>1, <3>1, <4>1 DEF CreateOnly
    <3>2. CASE DeleteOp
      <4>1. \A i \in DOMAIN outbox' : i + 1 \in DOMAIN outbox /\ outbox'[i] = outbox[i + 1]
        BY <3>2, TailPlaces
      <4> QED BY <1>1, <4>1 DEF CreateOnly
    <3>3. CASE UNCHANGED outbox
      BY <1>1, <3>3 DEF CreateOnly
    <3> QED BY <3>1, <3>2, <3>3, Frames
  <2> QED BY <1>1, <2>1, <2>2, <2>3 DEF Past, CreateOnly
<1> QED BY <1>2, <1>3

LEMMA TempStep == SyncInv /\ [SyncNext]_syncVars => TempInv'
<1> SUFFICES ASSUME SyncInv, [SyncNext]_syncVars PROVE TempInv'
  OBVIOUS
<1> USE SyncBounds
<1>1. /\ SyncTypeOK /\ KeysInv /\ TempInv /\ FlushInv /\ lastOp \in Nat
      /\ DOMAIN outbox = 1..Len(outbox) /\ Len(outbox) \in Nat
      /\ \A i \in DOMAIN outbox : ByTemp(outbox[i]) => outbox[i].ref.temp \in Nat
      /\ \A c \in calls : ByTemp(c.op) => c.op.ref.temp \in Nat
      /\ \A ref \in held : "temp" \in DOMAIN ref => ref.temp \in Nat
  <2>1. \A ref \in Refs : "temp" \in DOMAIN ref => ref.temp \in Nat
    BY DEF Refs, Keys
  <2> QED BY <2>1, QueueTyped, OpKinds DEF SyncInv, SyncTypeOK, Keys
<1>2. \A k \in Nat : Past(k) => Past(k)'
  BY <1>1, PastStays
<1>3. ASSUME NEW ref \in held', "temp" \in DOMAIN ref PROVE Past(ref.temp)'
  <2>1. CASE ref \in held
    BY <1>1, <1>2, <1>3, <2>1 DEF TempInv
  <2>2. ASSUME NEW c \in calls, WakeFlush(c), c.op.kind = "create", ref.temp = c.op.key
        PROVE  Past(ref.temp)'
    <3>1. UNCHANGED <<outbox, lastOp>> /\ calls' = calls \ {c}
      BY <2>2 DEF WakeFlush, IsOver
    <3>2. \A d \in calls' : d.op.key # c.op.key
      BY <1>1, <3>1 DEF KeysInv
    <3>3. \A i \in DOMAIN outbox : outbox[i].key = c.op.key => outbox[i].kind = "create"
      BY <1>1, <2>2 DEF KeysInv
    <3>4. c.op.key <= lastOp
      BY <1>1 DEF KeysInv
    <3> QED BY <2>2, <3>1, <3>2, <3>3, <3>4 DEF Past, CreateOnly
  <2> QED BY <1>3, <2>1, <2>2, HeldMoves
<1>4. ASSUME NEW c \in calls', ByTemp(c.op) PROVE Past(c.op.ref.temp)'
  <2>1. CASE Mutate
    <3>1. c \in calls \/ (c.op.kind = "edit" => c.op.ref \in held)
      BY <1>1, <2>1, MutateGets
    <3>2. CASE c \in calls
      BY <1>1, <1>2, <1>4, <3>2 DEF TempInv
    <3>3. CASE c.op.kind = "edit" => c.op.ref \in held
      BY <1>1, <1>2, <1>4, <3>3 DEF TempInv, ByTemp
    <3> QED BY <3>1, <3>2, <3>3
  <2>2. CASE ~Mutate
    <3>1. PICK d \in calls : c.op = d.op
      BY <1>1, <2>2, CallComes
    <3> QED BY <1>1, <1>2, <1>4, <3>1 DEF TempInv
  <2> QED BY <2>1, <2>2
<1>5. ASSUME NEW i \in DOMAIN outbox', ByTemp(outbox'[i]) PROVE Past(outbox[i].ref.temp)'
  <2>1. CASE \E j \in DOMAIN outbox : outbox'[i] = outbox[j]
    BY <1>1, <1>2, <1>5, <2>1 DEF TempInv
  <2>2. ASSUME NEW c \in calls, AddOp(c) PROVE Past(outbox[i].ref.temp)'
    <3>1. /\ \A j \in DOMAIN outbox : outbox'[j] = outbox[j]
          /\ outbox'[Len(outbox) + 1] = c.op
          /\ i \in DOMAIN outbox \/ i = Len(outbox) + 1
      BY <1>1, <2>2, AddedPlaces
    <3> QED BY <1>1, <1>2, <1>5, <2>1, <3>1 DEF TempInv
  <2>3. CASE DeleteOp
    BY <1>1, <2>1, <2>3, TailPlaces
  <2> QED BY <1>5, <2>1, <2>2, <2>3, Frames
<1> QED BY <1>3, <1>4, <1>5 DEF TempInv, ByTemp

LEMMA FollowStep == SyncInv /\ [SyncNext]_syncVars => FollowInv'
<1> SUFFICES ASSUME SyncInv, [SyncNext]_syncVars PROVE FollowInv'
  OBVIOUS
<1> USE SyncBounds
<1>1. /\ SyncTypeOK /\ KeysInv /\ TempInv /\ FlushInv /\ FollowInv /\ CountInv
      /\ DOMAIN outbox = 1..Len(outbox) /\ Len(outbox) \in Nat /\ idmap \in IdMaps
      /\ \A i \in DOMAIN outbox : ByTemp(outbox[i]) => outbox[i].ref.temp \in Keys
      /\ flusher \in [pc : FlushPlaces, op : Ops \cup {Nothing}, ids : IdMaps]
  BY QueueTyped, OpKinds DEF SyncInv, SyncTypeOK, IdMaps, FlushPlaces
<1>2. late \subseteq late' /\ refused \subseteq refused'
  BY Frames DEF AddOp, FlushRejected
<1>3. ASSUME NEW c \in calls, AddOp(c) PROVE FollowInv'
  <2>1. /\ UNCHANGED <<flusher, idmap, refused>>
        /\ late' = IF ByTemp(c.op) /\ c.op.ref.temp \notin KeysOf(outbox)
                   THEN late \cup {c.op.key} ELSE late
    BY <1>3 DEF AddOp, ByTemp
  <2>2. /\ DOMAIN outbox' = 1..(Len(outbox) + 1)
        /\ \A i \in DOMAIN outbox : outbox'[i] = outbox[i]
        /\ outbox'[Len(outbox) + 1] = c.op
        /\ \A i \in DOMAIN outbox' : i \in DOMAIN outbox \/ i = Len(outbox) + 1
    BY <1>1, <1>3, AddedPlaces
  <2>3. ASSUME NEW i \in DOMAIN outbox, NEW k, Before(i, k) PROVE Before(i, k)'
    BY <1>1, <2>2, <2>3 DEF Before
  <2>4. ASSUME NEW i \in DOMAIN outbox', ByTemp(outbox'[i])
        PROVE  (\/ outbox[i].key \in late \/ outbox[i].ref.temp \in refused
                \/ Before(i, outbox[i].ref.temp)
                \/ flusher.pc # "clear" /\ idmap[outbox[i].ref.temp] # Nothing)'
    <3>1. CASE i \in DOMAIN outbox
      <4>1. outbox'[i] = outbox[i]
        BY <2>2, <3>1
      <4> QED BY <1>1, <1>2, <2>1, <2>3, <2>4, <3>1, <4>1 DEF FollowInv
    <3>2. CASE i = Len(outbox) + 1
      <4>1. outbox'[i] = c.op
        BY <2>2, <3>2
      <4>2. CASE c.op.ref.temp \in KeysOf(outbox)
        <5>1. PICK j \in DOMAIN outbox : outbox[j].key = c.op.ref.temp
          BY <4>2 DEF KeysOf, ToSet
        <5>2. j < i /\ j \in DOMAIN outbox' /\ outbox'[j] = outbox[j]
          BY <1>1, <2>2, <3>2
        <5> QED BY <4>1, <5>1, <5>2 DEF Before
      <4>3. CASE c.op.ref.temp \notin KeysOf(outbox)
        BY <2>1, <2>4, <4>1, <4>3
      <4> QED BY <4>2, <4>3
    <3> QED BY <2>2, <2>4, <3>1, <3>2
  <2> QED BY <2>4 DEF FollowInv, ByTemp
<1>4. CASE DeleteOp
  <2>1. /\ UNCHANGED <<idmap, late, refused>> /\ flusher.op = outbox[1]
        /\ flusher.pc = "answered" /\ flusher'.pc = "deleted"
        /\ DOMAIN outbox' = 1..(Len(outbox) - 1)
        /\ \A i \in DOMAIN outbox' : i + 1 \in DOMAIN outbox /\ outbox'[i] = outbox[i + 1]
    <3>1. UNCHANGED <<idmap, late, refused>>
      BY <1>4 DEF DeleteOp, historyVars
    <3> QED BY <1>1, <1>4, <3>1, TailPlaces
  <2>2. flusher.op.kind = "create" =>
            idmap[flusher.op.key] # Nothing \/ flusher.op.key \in refused
    BY <1>1, <2>1 DEF FlushInv
  <2>3. ASSUME NEW i \in DOMAIN outbox', NEW k, Before(i + 1, k), CreateOnly(k)
        PROVE  Before(i, k)' \/ idmap[k] # Nothing \/ k \in refused
    <3>1. PICK j \in DOMAIN outbox : j < i + 1 /\ outbox[j].key = k
      BY <2>3 DEF Before
    <3>2. CASE j = 1
      BY <2>1, <2>2, <2>3, <3>1, <3>2 DEF CreateOnly
    <3>3. CASE j # 1
      <4>1. j - 1 \in DOMAIN outbox' /\ j - 1 < i /\ outbox'[j - 1] = outbox[j]
        BY <1>1, <2>1, <3>1, <3>3
      <4> QED BY <3>1, <4>1 DEF Before
    <3> QED BY <3>2, <3>3
  <2>4. ASSUME NEW i \in DOMAIN outbox', ByTemp(outbox'[i])
        PROVE  (\/ outbox[i].key \in late \/ outbox[i].ref.temp \in refused
                \/ Before(i, outbox[i].ref.temp)
                \/ flusher.pc # "clear" /\ idmap[outbox[i].ref.temp] # Nothing)'
    <3>1. i + 1 \in DOMAIN outbox /\ outbox'[i] = outbox[i + 1]
      BY <2>1
    <3>2. CreateOnly(outbox[i + 1].ref.temp)
      BY <1>1, <2>4, <3>1 DEF TempInv, Past
    <3> QED BY <1>1, <2>1, <2>3, <2>4, <3>1, <3>2 DEF FollowInv
  <2> QED BY <2>4 DEF FollowInv, ByTemp
<1>5. ASSUME UNCHANGED outbox,
             \A k \in Keys : flusher.pc # "clear" /\ idmap[k] # Nothing =>
                 flusher'.pc # "clear" /\ idmap'[k] # Nothing
      PROVE  FollowInv'
  <2>1. ASSUME NEW i, NEW k, Before(i, k) PROVE Before(i, k)'
    BY <1>5, <2>1 DEF Before
  <2>2. ASSUME NEW i \in DOMAIN outbox', ByTemp(outbox'[i])
        PROVE  (\/ outbox[i].key \in late \/ outbox[i].ref.temp \in refused
                \/ Before(i, outbox[i].ref.temp)
                \/ flusher.pc # "clear" /\ idmap[outbox[i].ref.temp] # Nothing)'
    BY <1>1, <1>2, <1>5, <2>1, <2>2 DEF FollowInv
  <2> QED BY <2>2 DEF FollowInv, ByTemp
<1>6. CASE FlushTaken
  <2>1. UNCHANGED outbox /\ flusher'.pc = "answered"
    BY <1>1, <1>6 DEF FlushTaken
  <2>2. ASSUME NEW k \in Keys, idmap[k] # Nothing PROVE idmap'[k] # Nothing
    <3>1. CASE UNCHANGED idmap
      BY <2>2, <3>1
    <3>2. CASE flusher.op.kind = "create"
      <4>1. /\ idmap' = [idmap EXCEPT ![flusher.op.key] = Len(served')]
            /\ ServerTakes(flusher.op, flusher.ids) /\ flusher.op \in Ops
        BY <1>1, <1>6, <3>2, QueueTyped DEF FlushTaken, FlushInv
      <4>2. Len(served') \in 1..MaxServed
        BY <1>1, <3>2, <4>1, Taken DEF SyncInv, NewestInv
      <4> QED BY <1>1, <2>2, <4>1, <4>2 DEF IdMaps
    <3> QED BY <1>6, <3>1, <3>2 DEF FlushTaken
  <2> QED BY <1>5, <2>1, <2>2
<1>7. CASE ClearIdMap
  BY <1>5, <1>7 DEF ClearIdMap
<1>8. CASE (ReadOps \/ FlushLost) /\ pending = 0
  <2>1. UNCHANGED <<outbox, late>>
    BY <1>8 DEF ReadOps, FlushLost, historyVars
  <2>2. \A i \in DOMAIN outbox : ByTemp(outbox[i]) => outbox[i].key \in late
    BY <1>1, <1>8 DEF CountInv
  <2> QED BY <2>1, <2>2 DEF FollowInv, ByTemp
<1>9. CASE CountDeleted /\ outbox = <<>>
  <2>1. UNCHANGED outbox
    BY <1>9 DEF CountDeleted
  <2> QED BY <1>9, <2>1 DEF FollowInv
<1>10. ASSUME flusher.pc # "clear", ~((ReadOps \/ FlushLost) /\ pending = 0),
              ~(CountDeleted /\ outbox = <<>>)
       PROVE  flusher'.pc # "clear"
  <2>1. ASSUME NEW n \in Nat, n # 0 PROVE Leaving(n).pc = "idle"
    BY <2>1 DEF Leaving, FlushIdle
  <2>2. pending \in Nat /\ (outbox # <<>> => Len(outbox) # 0)
    BY <1>1 DEF SyncTypeOK
  <2>3. Beginning.pc = "read" /\ FlushIdle.pc = "idle"
    BY DEF Beginning, FlushIdle
  <2>4. CASE ReadOps
    <3>1. flusher'.pc \in {"send", "idle"}
      BY <1>1, <1>10, <2>1, <2>2, <2>4 DEF ReadOps
    <3> QED BY <3>1
  <2>5. CASE FlushTaken \/ FlushRejected \/ DeleteOp
    <3>1. flusher'.pc \in {"answered", "deleted"}
      BY <1>1, <2>5 DEF FlushTaken, FlushRejected, DeleteOp
    <3> QED BY <3>1
  <2>6. CASE FlushLost
    BY <1>10, <2>1, <2>2, <2>6 DEF FlushLost
  <2>7. CASE CountDeleted
    <3>1. flusher'.pc \in {"read", "idle"}
      BY <1>1, <1>10, <2>1, <2>2, <2>7 DEF CountDeleted
    <3> QED BY <3>1
  <2>8. CASE \/ ClearIdMap \/ Reopen \/ GoOnline \/ (\E c \in calls : WakeFlush(c))
             \/ UNCHANGED flusher
    BY <1>10, <2>3, <2>8 DEF ClearIdMap, Reopen, GoOnline, WakeFlush, Begun
  <2>9. CASE \E c \in calls : \/ Check(c) \/ SendTaken(c) \/ SendRejected(c) \/ SendLost(c)
                              \/ AddOp(c) \/ CountAdded(c)
    BY <2>8, <2>9 DEF Check, SendTaken, SendRejected, SendLost, AddOp, CountAdded
  <2> QED
    BY <2>4, <2>5, <2>6, <2>7, <2>8, <2>9
       DEF SyncNext, Mutate, Gets, LoadBoard, GoOffline, syncVars
<1>11. CASE UNCHANGED <<outbox, idmap>>
  BY <1>5, <1>8, <1>9, <1>10, <1>11
<1> QED BY <1>3, <1>4, <1>6, <1>7, <1>11, Frames

LEMMA NewestStep == SyncInv /\ [SyncNext]_syncVars => NewestInv'
<1> SUFFICES ASSUME SyncInv, [SyncNext]_syncVars PROVE NewestInv'
  OBVIOUS
<1> USE SyncBounds
<1>1. /\ SyncTypeOK /\ KeysInv /\ OrderInv /\ FlushInv /\ NewestInv /\ lastOp \in Nat
      /\ DOMAIN outbox = 1..Len(outbox) /\ Len(outbox) \in Nat
      /\ \A i \in DOMAIN outbox : outbox[i] \in Ops /\ outbox[i].key \in Nat
      /\ \A c \in calls : c.op \in Ops /\ c.op.key \in Nat
      /\ served \in Seq(ServedCards)
      /\ \A r \in Cards : served[r].newest \in Nat /\ served[r].last \in Nat
  <2>1. served \in Seq(ServedCards)
    BY DEF SyncInv, SyncTypeOK, ServedCards
  <2>2. ASSUME NEW r \in Cards PROVE served[r].newest \in Nat /\ served[r].last \in Nat
    <3>1. served[r] \in ServedCards
      BY <2>1, <2>2 DEF Cards
    <3> QED BY <3>1 DEF ServedCards
  <2> QED BY <2>1, <2>2, QueueTyped DEF SyncInv
<1>2. \A k, n : After(beside, k, n) => After(beside', k, n)
  BY AfterStays
<1>3. CASE Mutate
  <2>1. UNCHANGED <<outbox, served>> /\ lastOp' = lastOp + 1
    BY <1>1, <1>3, MutateGets
  <2>2. PICK c \in Calls : calls' = calls \cup {c} /\ c.op.key = lastOp'
    BY <1>1, <1>3, MutateGets
  <2>3. ASSUME NEW r \in Cards PROVE After(beside', c.op.key, served[r].newest)
    <3>1. served[r].newest <= lastOp /\ served[r].newest \in Nat
      BY <1>1 DEF NewestInv
    <3>2. served[r].newest <= c.op.key
      BY <1>1, <2>1, <2>2, <3>1
    <3> QED BY <3>2 DEF After
  <2> QED BY <1>1, <1>2, <2>1, <2>2, <2>3 DEF NewestInv, Cards, CallWaits
<1>4. ASSUME NEW c \in calls, AddOp(c) PROVE NewestInv'
  <2>1. /\ \A i \in DOMAIN outbox : outbox'[i] = outbox[i]
        /\ outbox'[Len(outbox) + 1] = c.op /\ CallWaits(c)
        /\ \A i \in DOMAIN outbox' : i \in DOMAIN outbox \/ i = Len(outbox) + 1
    BY <1>1, <1>4, AddedPlaces
  <2>2. \A d \in calls' : d \in calls \/ ~CallWaits(d)
    BY <1>1, <1>4, AddedCalls
  <2>3. UNCHANGED <<served, lastOp, beside>>
    BY <1>4 DEF AddOp
  <2>4. ASSUME NEW r \in Cards, NEW i \in DOMAIN outbox'
        PROVE  After(beside, outbox'[i].key, served[r].newest)
    BY <1>1, <2>1 DEF NewestInv
  <2>5. ASSUME NEW r \in Cards, NEW d \in calls', CallWaits(d)
        PROVE  After(beside, d.op.key, served[r].newest)
    BY <1>1, <2>2, <2>5 DEF NewestInv
  <2> QED BY <1>1, <2>3, <2>4, <2>5 DEF NewestInv, Cards, CallWaits
<1>5. ASSUME ~Mutate, UNCHANGED <<served, lastOp>>,
             \A i \in DOMAIN outbox' : \E j \in DOMAIN outbox : outbox'[i] = outbox[j]
      PROVE  NewestInv'
  <2>1. ASSUME NEW r \in Cards, NEW i \in DOMAIN outbox'
        PROVE  After(beside', outbox'[i].key, served[r].newest)
    <3>1. PICK j \in DOMAIN outbox : outbox'[i] = outbox[j]
      BY <1>5
    <3> QED BY <1>1, <1>2, <3>1 DEF NewestInv
  <2>2. ASSUME NEW r \in Cards, NEW d \in calls', CallWaits(d)
        PROVE  After(beside', d.op.key, served[r].newest)
    <3>1. PICK c \in calls : d.op = c.op /\ CallWaits(c)
      BY <1>1, <1>5, <2>2, CallComes
    <3> QED BY <1>1, <1>2, <3>1 DEF NewestInv
  <2>3. ASSUME NEW r \in Cards PROVE After(beside', served[r].last, served[r].newest)
    BY <1>1, <1>2 DEF NewestInv
  <2> QED BY <1>1, <1>5, <2>1, <2>2, <2>3 DEF NewestInv, Cards, CallWaits
\* The server takes an op that was to come after what it holds, and before
\* what is still to be sent.
<1>6. ASSUME UNCHANGED <<outbox, lastOp, beside>>,
             NEW op \in Ops, NEW ids, ServerTakes(op, ids), op.key <= lastOp,
             \A r \in Cards : After(beside, op.key, served[r].newest),
             \A i \in DOMAIN outbox : After(beside, outbox[i].key, op.key),
             \A d \in calls' : CallWaits(d) =>
                 /\ After(beside, d.op.key, op.key)
                 /\ \A r \in Cards : After(beside, d.op.key, served[r].newest)
      PROVE  NewestInv'
  <2>1. op.key \in Nat
    BY OpKinds
  <2>2. ASSUME NEW r \in 1..Len(served')
        PROVE  \/ r \in Cards /\ served'[r] = served[r]
               \/ served'[r].last = op.key /\ served'[r].newest = op.key
               \/ /\ r \in Cards /\ served'[r].last = op.key /\ op.key <= served[r].newest
                  /\ served'[r].newest = served[r].newest
               \/ served'[r].last = 0 /\ served'[r].newest = 0
    <3>1. \/ r \in Cards /\ served'[r] = served[r]
          \/ /\ r \in Cards /\ served'[r].last = op.key
             /\ served'[r].newest = IF op.key > served[r].newest THEN op.key
                                    ELSE served[r].newest
          \/ served'[r].last = 0 /\ served'[r].newest = 0
      BY <1>1, <1>6, <2>2, Taken DEF Cards, NewestInv
    <3>2. CASE /\ r \in Cards /\ served'[r].last = op.key
               /\ served'[r].newest = IF op.key > served[r].newest THEN op.key
                                      ELSE served[r].newest
      <4>1. CASE op.key > served[r].newest
        BY <3>2, <4>1
      <4>2. CASE ~(op.key > served[r].newest)
        <5>1. op.key <= served[r].newest
          BY <1>1, <2>1, <3>2, <4>2
        <5> QED BY <3>2, <4>2, <5>1
      <4> QED BY <4>1, <4>2
    <3> QED BY <3>1, <3>2
  <2>3. \A r \in Cards : /\ served[r].last <= served[r].newest /\ served[r].newest <= lastOp
                         /\ After(beside, served[r].last, served[r].newest)
    BY <1>1 DEF NewestInv
  <2>4. ASSUME NEW r \in 1..Len(served')
        PROVE  /\ served'[r].last <= served'[r].newest /\ served'[r].newest <= lastOp
               /\ After(beside, served'[r].last, served'[r].newest)
    <3>1. CASE r \in Cards /\ served'[r] = served[r]
      BY <2>3, <3>1
    <3>2. CASE served'[r].last = op.key /\ served'[r].newest = op.key
      BY <1>6, <2>1, <3>2 DEF After
    <3>3. CASE /\ r \in Cards /\ served'[r].last = op.key /\ op.key <= served[r].newest
               /\ served'[r].newest = served[r].newest
      BY <1>6, <2>3, <3>3
    <3>4. CASE served'[r].last = 0 /\ served'[r].newest = 0
      BY <1>1, <3>4 DEF After
    <3> QED BY <2>2, <3>1, <3>2, <3>3, <3>4
  <2>5. ASSUME NEW r \in 1..Len(served'), NEW k \in Nat, After(beside, k, op.key),
               \A q \in Cards : After(beside, k, served[q].newest)
        PROVE  After(beside, k, served'[r].newest)
    <3>1. CASE r \in Cards /\ served'[r].newest = served[r].newest
      BY <2>5, <3>1
    <3>2. CASE served'[r].newest = op.key
      BY <2>5, <3>2
    <3>3. CASE served'[r].newest = 0
      BY <3>3 DEF After
    <3> QED BY <2>2, <3>1, <3>2, <3>3
  <2>6. ASSUME NEW d \in calls' PROVE d.op.key \in Nat
    <3>1. ~Mutate
      BY <1>1, <1>6, MutateGets
    <3> QED BY <1>1, <3>1, CallComes
  <2>7. ASSUME NEW r \in 1..Len(served'), NEW i \in DOMAIN outbox
        PROVE  After(beside, outbox[i].key, served'[r].newest)
    <3>1. \A q \in Cards : After(beside, outbox[i].key, served[q].newest)
      BY <1>1 DEF NewestInv
    <3> QED BY <1>1, <1>6, <2>5, <3>1
  <2>8. ASSUME NEW r \in 1..Len(served'), NEW d \in calls', CallWaits(d)
        PROVE  After(beside, d.op.key, served'[r].newest)
    BY <1>6, <2>5, <2>6, <2>8
  <2>9. Len(served') <= MaxServed
    BY <1>1, <1>6, Taken DEF NewestInv
  <2> QED BY <1>6, <2>4, <2>7, <2>8, <2>9 DEF NewestInv, Cards, CallWaits
\* Sent by the call of mutate itself.
<1>7. ASSUME NEW c \in calls, c.pc = "send", ServerTakes(c.op, NoMap), ~Mutate,
             UNCHANGED <<outbox, lastOp, beside>>
      PROVE  NewestInv'
  <2>1. ASSUME NEW d \in calls', CallWaits(d)
        PROVE  /\ After(beside, d.op.key, c.op.key)
               /\ \A r \in Cards : After(beside, d.op.key, served[r].newest)
    <3>1. PICK e \in calls : d.op = e.op /\ CallWaits(e)
      BY <1>1, <1>7, <2>1, CallComes
    <3> QED BY <1>1, <3>1 DEF OrderInv, NewestInv
  <2>2. c.op.key <= lastOp /\ \A r \in Cards : After(beside, c.op.key, served[r].newest)
    BY <1>1, <1>7 DEF KeysInv, NewestInv, CallWaits
  <2>3. \A i \in DOMAIN outbox : After(beside, outbox[i].key, c.op.key)
    BY <1>1, <1>7 DEF OrderInv
  <2> QED BY <1>1, <1>6, <1>7, <2>1, <2>2, <2>3
\* Sent by the flush.
<1>8. ASSUME flusher.pc = "send", ServerTakes(flusher.op, flusher.ids), ~Mutate,
             UNCHANGED <<outbox, lastOp, beside>>
      PROVE  NewestInv'
  <2>1. flusher.op = outbox[1] /\ 1 \in DOMAIN outbox
    <3>1. outbox # <<>> /\ flusher.op = Head(outbox)
      BY <1>1, <1>8 DEF FlushInv
    <3> QED BY <1>1, <3>1 DEF SyncTypeOK
  <2>2. ASSUME NEW d \in calls', CallWaits(d)
        PROVE  /\ After(beside, d.op.key, flusher.op.key)
               /\ \A r \in Cards : After(beside, d.op.key, served[r].newest)
    <3>1. PICK e \in calls : d.op = e.op /\ CallWaits(e)
      BY <1>1, <1>8, <2>2, CallComes
    <3> QED BY <1>1, <2>1, <3>1 DEF OrderInv, NewestInv
  <2>3. \A i \in DOMAIN outbox : After(beside, outbox[i].key, flusher.op.key)
    <3>1. ASSUME NEW i \in DOMAIN outbox PROVE After(beside, outbox[i].key, outbox[1].key)
      <4>1. CASE i = 1
        BY <1>1, <4>1 DEF After
      <4>2. CASE i # 1
        <5>1. 1 < i
          BY <1>1, <4>2
        <5> QED BY <1>1, <2>1, <5>1 DEF OrderInv
      <4> QED BY <4>1, <4>2
    <3> QED BY <2>1, <3>1
  <2>4. flusher.op \in Ops /\ flusher.op.key <= lastOp
        /\ \A r \in Cards : After(beside, flusher.op.key, served[r].newest)
    BY <1>1, <2>1 DEF KeysInv, NewestInv
  <2> QED BY <1>6, <1>8, <2>2, <2>3, <2>4
<1>9. CASE ~Mutate /\ UNCHANGED <<outbox, lastOp, served>>
  BY <1>5, <1>9
<1>10. CASE DeleteOp
  <2>1. UNCHANGED <<served, lastOp>>
    BY <1>10 DEF DeleteOp
  <2>2. ~Mutate
    BY <1>1, <2>1, MutateGets
  <2> QED BY <1>1, <1>5, <1>10, <2>1, <2>2, TailPlaces
<1>11. ASSUME NEW c \in calls, SendTaken(c) \/ SendLost(c) PROVE NewestInv'
  <2>1. UNCHANGED <<outbox, lastOp, beside>> /\ c.pc = "send"
        /\ (ServerTakes(c.op, NoMap) \/ UNCHANGED served)
    BY <1>11 DEF SendTaken, SendLost, historyVars
  <2>2. ~Mutate
    BY <1>1, <2>1, MutateGets
  <2> QED BY <1>7, <1>9, <2>1, <2>2
<1>12. CASE FlushTaken \/ FlushLost
  <2>1. UNCHANGED <<outbox, lastOp, beside>> /\ flusher.pc = "send"
        /\ (ServerTakes(flusher.op, flusher.ids) \/ UNCHANGED served)
    BY <1>12 DEF FlushTaken, FlushLost, historyVars
  <2>2. ~Mutate
    BY <1>1, <2>1, MutateGets
  <2> QED BY <1>8, <1>9, <2>1, <2>2
<1> QED BY <1>3, <1>4, <1>9, <1>10, <1>11, <1>12, Frames

LEMMA SyncTypeStep == SyncInv /\ [SyncNext]_syncVars => SyncTypeOK'
<1> SUFFICES ASSUME SyncInv, [SyncNext]_syncVars PROVE SyncTypeOK'
  OBVIOUS
<1> USE SyncBounds
<1>1. /\ SyncTypeOK /\ KeysInv /\ FlushInv /\ Len(served) <= MaxServed
      /\ outbox \in Seq(Ops) /\ idmap \in IdMaps /\ served \in Seq(ServedCards)
      /\ flusher \in [pc : FlushPlaces, op : Ops \cup {Nothing}, ids : IdMaps]
      /\ DOMAIN outbox = 1..Len(outbox) /\ Len(outbox) \in Nat
      /\ owed \cup refused \cup late \subseteq Keys /\ beside \subseteq Keys \X Keys
      /\ \A c \in calls : c \in Calls /\ c.op \in Ops /\ c.op.key \in Keys
  BY QueueTyped, OpKinds
     DEF SyncInv, SyncTypeOK, NewestInv, IdMaps, ServedCards, FlushPlaces
<1>2. NoMap \in IdMaps
      /\ FlushIdle \in [pc : FlushPlaces, op : Ops \cup {Nothing}, ids : IdMaps]
      /\ Beginning \in [pc : FlushPlaces, op : Ops \cup {Nothing}, ids : IdMaps]
      /\ \A n : Leaving(n) \in [pc : FlushPlaces, op : Ops \cup {Nothing}, ids : IdMaps]
  BY <1>1 DEF NoMap, IdMaps, FlushIdle, Beginning, Leaving, FlushPlaces
<1>3. flusher.pc \in {"send", "answered"} => flusher.op \in Ops /\ flusher.op.key \in Keys
  <2>1. outbox # <<>> => Head(outbox) \in Ops
    BY <1>1
  <2> QED BY <1>1, <2>1, OpKinds DEF FlushInv
<1>4. network' \in BOOLEAN
  <2>1. CASE \E c \in calls : \/ Check(c) \/ SendTaken(c) \/ SendRejected(c) \/ SendLost(c)
                              \/ AddOp(c) \/ CountAdded(c) \/ WakeFlush(c)
    BY <1>1, <2>1
       DEF SyncTypeOK, Check, SendTaken, SendRejected, SendLost, AddOp, CountAdded, WakeFlush
  <2> QED
    BY <1>1, <2>1
       DEF SyncTypeOK, SyncNext, Mutate, Gets, ReadOps, FlushTaken, FlushRejected, FlushLost,
           DeleteOp, CountDeleted, ClearIdMap, LoadBoard, Reopen, GoOnline, GoOffline, syncVars
<1>5. outbox' \in Seq(Ops)
  <2>1. ASSUME NEW c \in calls, AddOp(c) PROVE outbox' \in Seq(Ops)
    <3>1. outbox' = Append(outbox, c.op) /\ c.op \in Ops
      BY <1>1, <2>1 DEF AddOp
    <3> QED BY <1>1, <3>1
  <2>2. CASE DeleteOp
    <3>1. outbox # <<>> /\ outbox' = Tail(outbox)
      BY <1>1, <2>2, DeletesHead
    <3>2. outbox \in Seq(Ops)
      BY <1>1
    <3> QED BY <3>1, <3>2
  <2> QED BY <1>1, <2>1, <2>2, Frames
<1>6. UNCHANGED served \/ \E op \in Ops, ids \in IdMaps : ServerTakes(op, ids)
  BY <1>1, <1>2, <1>3, Frames DEF SendTaken, SendLost, FlushTaken, FlushLost
<1>7. served' \in Seq(ServedCards) /\ Len(served') <= MaxServed
  BY <1>1, <1>6, Taken
<1>8. idmap' \in IdMaps
  <2>1. CASE FlushTaken
    <3>1. CASE flusher.op.kind = "create"
      <4>1. Len(served') \in 1..MaxServed
        BY <1>1, <1>3, <2>1, <3>1, Taken DEF FlushTaken
      <4>2. idmap' = [idmap EXCEPT ![flusher.op.key] = Len(served')]
        BY <2>1, <3>1 DEF FlushTaken
      <4> QED BY <1>1, <4>1, <4>2 DEF IdMaps
    <3> QED BY <1>1, <2>1, <3>1 DEF FlushTaken
  <2>2. CASE ClearIdMap
    BY <1>2, <2>2 DEF ClearIdMap
  <2> QED BY <1>1, <2>1, <2>2, Frames
<1>9. held' \subseteq Refs
  <2>1. ASSUME NEW c \in calls, SendTaken(c) PROVE held' \subseteq Refs
    <3>1. CASE c.op.kind = "create"
      <4>1. Len(served') \in 1..MaxServed
        BY <1>1, <2>1, <3>1, Taken DEF SendTaken
      <4> QED BY <2>1, <3>1, <4>1, <1>1 DEF SendTaken, SyncTypeOK, Refs
    <3> QED BY <1>1, <2>1, <3>1 DEF SendTaken, SyncTypeOK
  <2>2. CASE \E c \in calls : WakeFlush(c)
    BY <1>1, <2>2 DEF WakeFlush, SyncTypeOK, Refs
  <2>3. CASE LoadBoard
    BY <1>1, <2>3 DEF LoadBoard, Refs, Cards
  <2> QED BY <1>1, <2>1, <2>2, <2>3, Frames DEF SyncTypeOK
<1>10. lastOp' \in 0..MaxOp
  BY <1>1, MutateGets, Frames DEF SyncTypeOK, Keys
<1>11. pending' \in Nat
  BY <1>1, Frames DEF SyncTypeOK, CountAdded, CountDeleted, Reopen
<1>12. calls' \subseteq Calls
  <2>1. CASE Mutate
    BY <1>1, <2>1, MutateGets
  <2>2. ASSUME NEW c \in calls, NEW pc \in CallPlaces, GoesOn(c, pc) PROVE calls' \subseteq Calls
    BY <1>1, <2>2, GoneOn
  <2> QED BY <1>1, <2>1, <2>2, CallForms
<1>13. flusher' \in [pc : FlushPlaces, op : Ops \cup {Nothing}, ids : IdMaps]
  <2>1. CASE ReadOps
    <3>1. outbox # <<>> => Head(outbox) \in Ops
      BY <1>1
    <3> QED BY <1>1, <1>2, <2>1, <3>1 DEF ReadOps, FlushPlaces
  <2>2. CASE FlushTaken
    <3>1. CASE flusher.op.kind = "create"
      <4>1. Len(served') \in 1..MaxServed
        BY <1>1, <1>3, <2>2, <3>1, Taken DEF FlushTaken
      <4>2. flusher' = [flusher EXCEPT !.pc = "answered", !.ids[flusher.op.key] = Len(served')]
        BY <2>2, <3>1 DEF FlushTaken
      <4>3. [flusher.ids EXCEPT ![flusher.op.key] = Len(served')] \in IdMaps
        BY <1>1, <4>1 DEF IdMaps
      <4> QED BY <1>1, <4>2, <4>3 DEF FlushPlaces
    <3>2. CASE flusher.op.kind # "create"
      BY <1>1, <2>2, <3>2 DEF FlushTaken, FlushPlaces
    <3> QED BY <3>1, <3>2
  <2>3. CASE FlushRejected \/ FlushLost
    BY <1>1, <1>2, <2>3 DEF FlushRejected, FlushLost, FlushPlaces
  <2>4. CASE DeleteOp
    BY <1>1, <2>4 DEF DeleteOp, FlushPlaces
  <2>5. CASE CountDeleted
    BY <1>1, <1>2, <2>5 DEF CountDeleted, FlushPlaces
  <2>6. CASE flusher' \in {flusher, Beginning, FlushIdle}
    BY <1>1, <1>2, <2>6
  <2>7. CASE (\E c \in calls : WakeFlush(c)) \/ Reopen \/ GoOnline \/ ClearIdMap
    BY <2>6, <2>7 DEF WakeFlush, Begun, Reopen, GoOnline, ClearIdMap
  <2>8. CASE \E c \in calls : \/ Check(c) \/ SendTaken(c) \/ SendRejected(c) \/ SendLost(c)
                              \/ AddOp(c) \/ CountAdded(c)
    BY <2>6, <2>8 DEF Check, SendTaken, SendRejected, SendLost, AddOp, CountAdded
  <2> QED
    BY <2>1, <2>2, <2>3, <2>4, <2>5, <2>6, <2>7, <2>8
       DEF SyncNext, Mutate, Gets, LoadBoard, GoOffline, syncVars
<1>14. owed' \cup refused' \cup late' \subseteq Keys
  <2>1. owed' \subseteq Keys
    <3>1. CASE FlushTaken \/ FlushRejected
      BY <1>1, <3>1 DEF FlushTaken, FlushRejected
    <3>2. CASE \E c \in calls : AddOp(c)
      BY <1>1, <3>2 DEF AddOp
    <3> QED BY <1>1, <3>1, <3>2, Frames
  <2>2. late' \subseteq Keys
    BY <1>1, Frames DEF AddOp
  <2>3. refused' \subseteq Keys
    BY <1>1, <1>3, Frames DEF FlushRejected
  <2> QED BY <2>1, <2>2, <2>3
<1>15. beside' \subseteq Keys \X Keys
  BY <1>1, MutateGets, Frames
<1> QED
  BY <1>4, <1>5, <1>7, <1>8, <1>9, <1>10, <1>11, <1>12, <1>13, <1>14, <1>15
     DEF SyncTypeOK, IdMaps, ServedCards, FlushPlaces

LEMMA SyncInductive == SyncSpec => []SyncInv
<1>1. SyncInit => SyncInv
  <2> SUFFICES ASSUME SyncInit PROVE SyncInv
    OBVIOUS
  <2> USE SyncBounds DEF SyncInit
  <2>1. SyncTypeOK
    BY DEF SyncTypeOK, NoMap, FlushIdle
  <2>2. KeysInv /\ OrderInv /\ TempInv
    BY DEF KeysInv, OrderInv, TempInv
  <2>3. FlushInv /\ CountInv
    BY DEF FlushInv, CountInv, FlushIdle
  <2>4. QueuedOpsAreKept /\ FollowInv /\ NewestInv
    BY DEF QueuedOpsAreKept, FollowInv, NewestInv, Cards
  <2> QED BY <2>1, <2>2, <2>3, <2>4 DEF SyncInv
<1>2. SyncInv /\ [SyncNext]_syncVars => SyncInv'
  BY SyncTypeStep, KeysStep, OrderStep, TempStep, FlushStep, CountStep, KeptStep, FollowStep,
     NewestStep
     DEF SyncInv
<1> QED BY <1>1, <1>2, PTL DEF SyncSpec

-----------------------------------------------------------------------------
\* Every step of the calls, the flush and the network keeps the types.
THEOREM SyncTyped == SyncSpec => []SyncTypeOK
BY SyncInductive, PTL DEF SyncInv

\* An op that was queued is never lost: the outbox has it until a flush has the
\* server's answer to it, taken or refused.
THEOREM NoOpIsLost == SyncSpec => []QueuedOpsAreKept
BY SyncInductive, PTL DEF SyncInv

\* An edit that waited behind its card's create is sent with the real id, or
\* the server refused that create.
THEOREM EditsFollow == SyncSpec => []EditsFollowTheirCreate
<1>1. ASSUME SyncInv PROVE EditsFollowTheirCreate
  <2> SUFFICES ASSUME flusher.pc = "send", flusher.op.kind = "edit",
                      "temp" \in DOMAIN Resolved(flusher.op.ref, flusher.ids)
               PROVE  flusher.op.key \in late \/ flusher.op.ref.temp \in refused
    BY DEF EditsFollowTheirCreate
  <2>1. /\ outbox # <<>> /\ flusher.op = Head(outbox) /\ flusher.ids = idmap
        /\ outbox \in Seq(Ops)
    BY <1>1 DEF SyncInv, FlushInv, SyncTypeOK
  <2>2. 1 \in DOMAIN outbox /\ flusher.op = outbox[1]
    BY <2>1
  <2>3. ByTemp(outbox[1]) /\ idmap[outbox[1].ref.temp] = Nothing
    <3>1. \A r : ~("temp" \in DOMAIN [real |-> r])
      OBVIOUS
    <3> QED BY <2>1, <2>2, <3>1 DEF Resolved, ByTemp
  <2>4. ~Before(1, outbox[1].ref.temp)
    BY <2>1 DEF Before
  <2> QED BY <1>1, <2>2, <2>3, <2>4 DEF SyncInv, FollowInv
<1> QED BY <1>1, SyncInductive, PTL

\* However many calls of mutate are under way at once, an op is put back on the
\* server only by one whose own call had not ended when its call began.
THEOREM NewestStays == SyncSpec => []NewestEditStays
<1>1. ASSUME SyncInv, NEW r \in Cards, served[r].last # served[r].newest
      PROVE  <<served[r].last, served[r].newest>> \in beside
  <2>1. served[r] \in ServedCards
    <3>1. served \in Seq(ServedCards)
      BY <1>1 DEF SyncInv, SyncTypeOK, ServedCards
    <3> QED BY <3>1 DEF Cards
  <2>2. served[r].last \in Nat /\ served[r].newest \in Nat
    BY <2>1 DEF ServedCards
  <2> QED BY <1>1, <2>2 DEF SyncInv, NewestInv, After
<1>2. SyncInv => NewestEditStays
  BY <1>1 DEF NewestEditStays
<1> QED BY <1>2, SyncInductive, PTL

=============================================================================
