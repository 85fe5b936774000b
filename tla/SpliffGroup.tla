----------------------------- MODULE SpliffGroup -----------------------------
(***************************************************************************)
(* One Spliff Group (spliff/domain/group over storage/store): its member   *)
(* rows, its Owner and its Transactions ("bills").  A row is a place at    *)
(* the table: it may have an account behind it or none (a Phantom), it     *)
(* stays when its Member leaves, and it is what a bill names.              *)
(*                                                                         *)
(* Every operation is one write transaction, with its rule and what the    *)
(* rule reads inside it.  Outside is only the dispatcher's question        *)
(* whether the caller may ask: it is answered from the pool before the     *)
(* transaction opens, and the answer may be old when it commits.  So any   *)
(* former Member's write and any former Owner's can still come, and since  *)
(* the Founder is both, who asks narrows nothing: no action names a        *)
(* caller.                                                                 *)
(***************************************************************************)
EXTENDS SpliffLedger

CONSTANTS MaxRow,       \* member rows the Group ever has
          MaxBill,      \* Transactions recorded
          Accounts,     \* people with an account
          Founder,      \* the account that creates the Group
          Phantom,      \* the missing account of a Phantom's row
          Contents,     \* what a bill may say: [paid, share, num, den]
          NoBill        \* a Transaction id nobody has recorded

Rows == 1..MaxRow
Bills == 1..MaxBill

ASSUME GroupAssumption ==
    /\ MaxRow \in Nat \ {0} /\ MaxBill \in Nat
    /\ Founder \in Accounts /\ Phantom \notin Accounts
    /\ NoBill \notin [says : Contents, live : BOOLEAN]

VARIABLES row,          \* member row -> [user, at]
          owner,        \* groups.owner_id
          bill,         \* Transaction -> NoBill or [says, live]
          exists,       \* the groups row is there
          fresh         \* no Rate table was stored when the run began

groupVars == <<row, owner, bill, exists, fresh>>

FreeRow == [user |-> Phantom, at |-> "free"]

GroupTypeOK ==
    /\ row \in [Rows -> [user : Accounts \cup {Phantom}, at : {"free", "in", "left"}]]
    /\ owner \in Accounts
    /\ bill \in [Bills -> {NoBill} \cup [says : Contents, live : BOOLEAN]]
    /\ exists \in BOOLEAN /\ fresh \in BOOLEAN

\* store.Members: the rows without a left_at stamp.
Current == {r \in Rows : row[r].at = "in"}

\* store.IsMember and store.HasLeft.
IsMember(u) == \E r \in Current : row[r].user = u
HasLeft(u) == \E r \in Rows : row[r] = [user |-> u, at |-> "left"]

\* The rows a bill names; an entry of zero is not kept.
Names(says) ==
    {r \in DOMAIN says.paid : says.paid[r] > 0} \cup {r \in DOMAIN says.share : says.share[r] > 0}

Live == {b \in Bills : bill[b] # NoBill /\ bill[b].live}
Dead == {b \in Bills : bill[b] # NoBill /\ ~bill[b].live}
Named == UNION {Names(bill[b].says) : b \in Live}

\* The Book of Rate tables a request loaded before its transaction.  On an
\* instance that began with none it may be the empty one.
LoadedBooks == IF fresh THEN {"empty", "stored"} ELSE {"stored"}

\* balanceOf is zero for each of rs.  Somebody a live bill names who is not
\* there is an error; without any Rate table there are no balances and the
\* question is passed over (rates.ErrNoTable).
AreLevel(rs, book) ==
    book = "stored" =>
        LET balance == Balances(Current, [b \in Live |-> bill[b].says])
        IN Named \subseteq Current /\ \A r \in rs : balance[r] = 0

-----------------------------------------------------------------------------
\* group.Create and store.CreateGroup: the Owner sits down first.
GroupInit ==
    /\ row = [r \in Rows |-> IF r = 1 THEN [user |-> Founder, at |-> "in"] ELSE FreeRow]
    /\ owner = Founder
    /\ bill = [b \in Bills |-> NoBill]
    /\ exists = TRUE
    /\ fresh \in BOOLEAN

\* The next row id: no row goes while the Group exists.
NextRow(r) == row[r] = FreeRow /\ \A k \in Rows : k < r => row[k] # FreeRow

Seat(r, u) ==
    /\ row' = [row EXCEPT ![r] = [user |-> u, at |-> "in"]]
    /\ UNCHANGED <<owner, bill, exists, fresh>>

\* group.AddPhantom.
AddPhantom(r) == exists /\ NextRow(r) /\ Seat(r, Phantom)

\* store.AddMember as Join and Decide reach it: a Former Member gets the old
\* row back, a stranger a new one.
JoinGroup(u) ==
    /\ exists /\ ~IsMember(u)
    /\ \E r \in Rows :
           /\ IF HasLeft(u) THEN row[r] = [user |-> u, at |-> "left"] ELSE NextRow(r)
           /\ Seat(r, u)

\* Mutant of ClaimPhantom: a Former Member may claim as well.
ClaimPhantom_Former(u, r) ==
    /\ exists /\ ~IsMember(u)
    /\ row[r] = [user |-> Phantom, at |-> "in"]
    /\ Seat(r, u)

\* checkClaimable and store.ClaimPhantom: "I am ..." takes a Phantom's row.
ClaimPhantom(u, r) ==
    /\ exists /\ ~IsMember(u) /\ ~HasLeft(u)
    /\ row[r] = [user |-> Phantom, at |-> "in"]
    /\ Seat(r, u)

\* checkLevel: nobody goes who owes, is owed, or is named on a live bill.
MayLeave(r) ==
    /\ \E book \in LoadedBooks : AreLevel({r}, book)
    /\ r \notin Named

\* group.RemoveMember and group.Leave.
RemoveMember(r) ==
    /\ exists /\ r \in Current
    /\ row[r].user # owner
    /\ MayLeave(r)
    /\ row' = [row EXCEPT ![r].at = "left"]
    /\ UNCHANGED <<owner, bill, exists, fresh>>

\* group.HandOver.
HandOver(u) ==
    /\ exists /\ IsMember(u)
    /\ owner' = u
    /\ UNCHANGED <<row, bill, exists, fresh>>

\* validate: a bill names current rows, is paid exactly and not overdrawn.
Valid(says) ==
    /\ Names(says) \subseteq Current
    /\ Total(says.paid) > 0
    /\ Total(says.share) <= Total(says.paid)

Keep(b, says, live) ==
    /\ bill' = [bill EXCEPT ![b] = [says |-> says, live |-> live]]
    /\ UNCHANGED <<row, owner, exists, fresh>>

\* group.Record and group.Edit; a tombstone is not edited.
Record(b, says) ==
    /\ exists /\ Valid(says)
    /\ bill[b] = NoBill /\ \A k \in Bills : k < b => bill[k] # NoBill
    /\ Keep(b, says, TRUE)

Edit(b, says) == exists /\ Valid(says) /\ b \in Live /\ Keep(b, says, TRUE)

\* group.SetDeleted: the tombstone, and the way back, for which everybody the
\* bill names must still be there (checkStillMembers).
DeleteBill(b) == exists /\ b \in Live /\ Keep(b, bill[b].says, FALSE)

\* Mutant of RestoreBill: nobody asks whether those it names are still there.
RestoreBill_Unasked(b) == exists /\ b \in Dead /\ Keep(b, bill[b].says, TRUE)

RestoreBill(b) ==
    /\ exists /\ b \in Dead
    /\ Names(bill[b].says) \subseteq Current
    /\ Keep(b, bill[b].says, TRUE)

\* group.Delete, and what falls with the groups row by its foreign keys.
DeleteGroup ==
    /\ exists
    /\ \E book \in LoadedBooks : AreLevel(Current, book)
    /\ exists' = FALSE
    /\ row' = [r \in Rows |-> FreeRow]
    /\ bill' = [b \in Bills |-> NoBill]
    /\ UNCHANGED <<owner, fresh>>

GroupNext ==
    \/ \E r \in Rows : AddPhantom(r) \/ RemoveMember(r)
    \/ \E u \in Accounts : JoinGroup(u) \/ HandOver(u)
    \/ \E u \in Accounts, r \in Rows : ClaimPhantom(u, r)
    \/ \E b \in Bills, says \in Contents : Record(b, says) \/ Edit(b, says)
    \/ \E b \in Bills : DeleteBill(b) \/ RestoreBill(b)
    \/ DeleteGroup

GroupSpec == GroupInit /\ [][GroupNext]_groupVars

-----------------------------------------------------------------------------
\* Whoever a live bill names is a Member, whatever joins, leaves, edits,
\* deletions, restores and hand-overs came in between: what ledger.go:103-106
\* says nothing in the app may break (ErrStranger).
LiveBillsNameMembers == Named \subseteq Current

\* The Owner of a Group that exists is one of its Members, so somebody can
\* still hand it on, decide about requests and delete it (group.go:131-142).
OwnerIsAMember == exists => IsMember(owner)

\* One account has one row: a Former Member who could also claim a Phantom's
\* row would have two, and unique(group_id, user_id) would fail the join with
\* an error nobody wrote (server/invites.go:367-375).
OneRowEach ==
    \A r, k \in Rows : row[r].user = row[k].user /\ row[r].user # Phantom => r = k
=============================================================================
