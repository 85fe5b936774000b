------------------------------- MODULE BoardRev -------------------------------
(***************************************************************************)
(* The numbering of a board of xy (docs/adr/0023): boards.rev counts the   *)
(* changes to its cards and comments, boards.reaped_rev is the highest     *)
(* number of a row the reaper has recorded before destroying it, and a     *)
(* reader that holds the board as of one number asks for what came after   *)
(* it.  BoardCards and BoardComments are the two feeds that share them.    *)
(***************************************************************************)
EXTENDS Integers

CONSTANTS
    MaxRev,     \* bound on the number of changes
    MaxDay,     \* bound on the periods of tombstoneTTL that pass
    MaxCard,    \* bound on the ids of the table cards, from 1
    Texts,      \* what a card or a comment can say
    NoRequest   \* no handler waiting for the write lock

ASSUME RevBounds == MaxRev \in Nat /\ MaxDay \in Nat /\ MaxCard \in Nat /\ Texts # {}

CardIds == 1..MaxCard

VARIABLES
    rev,        \* boards.rev
    reapedRev,  \* boards.reaped_rev
    today       \* the reaper's clock: a row deleted before today has expired

revVars == <<rev, reapedRev, today>>

\* fullSnapshot: the since of a reader that holds nothing, and of a full read.
Full == -1

\* Mutant of DeltaBase: reaped_rev is not asked.
DeltaBase_Reaped(since) == IF since <= rev THEN since ELSE Full

\* boardRev.deltaBase: the number a delta can start from.
DeltaBase(since) ==
    IF since >= reapedRev /\ since <= rev THEN since ELSE Full

\* tombstone(): the row stays, marked with when it was deleted.
Tombstone(row) == [row EXCEPT !.st = "dead", !.day = today]

\* `deleted_at < ?1` with the cutoff tombstoneTTL ago.
Expired(row) == row.st = "dead" /\ row.day < today

\* The row is in its table, deleted or not: what a foreign key looks for.
Present(row) == row.st # "none"

\* `max(reaped_rev, ...)` over the revs of the rows about to be destroyed.
HighestOf(revs) ==
    IF \A r \in revs : r <= reapedRev
    THEN reapedRev
    ELSE CHOOSE r \in revs : \A s \in revs : s <= r

RevInit == rev = 0 /\ reapedRev = 0 /\ today = 0

RevTypeOK == rev \in Nat /\ reapedRev \in 0..rev /\ today \in Nat

=============================================================================
