---------------------------- MODULE Spliff_proofs ----------------------------
(***************************************************************************)
(* Proofs about a Group of spliff: its people, its links, its money.       *)
(***************************************************************************)
EXTENDS SpliffGroup, InviteLink, SpliffDebts, Sums_proofs

-----------------------------------------------------------------------------
(***************************************************************************)
(* Proofs about SpliffGroup, for any number of rows, bills and accounts    *)
(* and whatever bills may say.  What a bill does to the balances is never  *)
(* expanded: who may leave rests on the second half of checkLevel alone.   *)
(***************************************************************************)

\* A place nobody sat at has no account, which is what makes a stranger's new
\* row the only one of that account.
FreeIsNobody == \A r \in Rows : row[r].at = "free" => row[r].user = Phantom

GroupInv ==
    /\ GroupTypeOK
    /\ FreeIsNobody
    /\ LiveBillsNameMembers
    /\ OwnerIsAMember
    /\ OneRowEach

\* Nobody is named by a Group that has recorded nothing.
LEMMA GroupInitInv == GroupInit => GroupInv
<1> SUFFICES ASSUME GroupInit PROVE GroupInv
  OBVIOUS
<1> USE GroupAssumption DEF GroupInit
<1>1. 1 \in Rows
  BY DEF Rows
<1>2. GroupTypeOK
  BY DEF GroupTypeOK, FreeRow
<1>3. Live = {}
  BY DEF Live, Bills
<1>4. LiveBillsNameMembers
  BY <1>3 DEF LiveBillsNameMembers, Named
<1>5. OwnerIsAMember
  BY <1>1 DEF OwnerIsAMember, IsMember, Current
<1>6. FreeIsNobody /\ OneRowEach
  BY DEF FreeIsNobody, OneRowEach, FreeRow
<1> QED
  BY <1>2, <1>4, <1>5, <1>6 DEF GroupInv

\* What a step that changes no bill and no row leaves as it was.
LEMMA SameRowsSameMembers ==
    row' = row /\ bill' = bill
        => /\ Current' = Current
           /\ Named' = Named
           /\ \A u : IsMember(u)' <=> IsMember(u)
  BY DEF Current, Named, Live, IsMember

\* A seat taken by u: everybody who sat stays, and u sits.
LEMMA SeatKeeps ==
    ASSUME GroupInv, NEW r \in Rows, NEW u \in Accounts \cup {Phantom}, Seat(r, u),
           exists,
           \* the row is new, u's own, or a Phantom's
           row[r].at = "in" => row[r].user = Phantom,
           \A k \in Rows : row[k].user = u /\ u # Phantom => k = r
    PROVE  GroupInv'
<1> USE GroupAssumption DEF GroupInv, Seat
<1>1. GroupTypeOK'
  BY DEF GroupTypeOK
<1>2. FreeIsNobody'
  BY DEF FreeIsNobody, GroupTypeOK
<1>3. Current' = Current \cup {r}
  BY DEF Current, GroupTypeOK
<1>4. Named' = Named
  BY DEF Named, Live
<1>5. LiveBillsNameMembers'
  BY <1>3, <1>4 DEF LiveBillsNameMembers
<1>6. OwnerIsAMember'
  <2>1. PICK k \in Current : row[k].user = owner
    BY DEF OwnerIsAMember, IsMember
  <2>2. k # r
    BY <2>1 DEF GroupTypeOK, Current
  <2>3. k \in Current' /\ row'[k].user = owner'
    BY <2>1, <2>2, <1>3 DEF Current, GroupTypeOK
  <2> QED
    BY <2>3 DEF OwnerIsAMember, IsMember
<1>7. OneRowEach'
  BY DEF OneRowEach, GroupTypeOK
<1> QED
  BY <1>1, <1>2, <1>5, <1>6, <1>7

\* A bill kept: whoever it names, if it is live, sits there.
LEMMA KeepKeeps ==
    ASSUME GroupInv, NEW b \in Bills, NEW says \in Contents, NEW live \in BOOLEAN,
           Keep(b, says, live), live => Names(says) \subseteq Current
    PROVE  GroupInv'
<1> USE DEF GroupInv, Keep
<1>1. GroupTypeOK'
  BY DEF GroupTypeOK
<1>2. Current' = Current
  BY DEF Current
<1>3. ASSUME NEW c \in Live'
      PROVE  Names(bill'[c].says) \subseteq Current
  <2>1. CASE c = b
    BY <1>3, <2>1, GroupAssumption DEF Live, GroupTypeOK
  <2>2. CASE c # b
    <3>1. c \in Live /\ bill'[c] = bill[c]
      BY <1>3, <2>2 DEF Live, GroupTypeOK
    <3> QED
      BY <3>1 DEF LiveBillsNameMembers, Named
  <2> QED
    BY <2>1, <2>2
<1>4. LiveBillsNameMembers'
  BY <1>2, <1>3 DEF LiveBillsNameMembers, Named
<1>5. OwnerIsAMember' /\ FreeIsNobody' /\ OneRowEach'
  BY <1>2 DEF OwnerIsAMember, IsMember, FreeIsNobody, OneRowEach
<1> QED
  BY <1>1, <1>4, <1>5

\* Every operation keeps the invariant.
LEMMA StepInv == GroupInv /\ [GroupNext]_groupVars => GroupInv'
<1> SUFFICES ASSUME GroupInv, [GroupNext]_groupVars PROVE GroupInv'
  OBVIOUS
<1> USE GroupAssumption
<1>1. ASSUME NEW r \in Rows, AddPhantom(r) PROVE GroupInv'
  BY <1>1, SeatKeeps DEF AddPhantom, NextRow, FreeRow
<1>2. ASSUME NEW u \in Accounts, JoinGroup(u) PROVE GroupInv'
  <2>1. PICK r \in Rows :
           /\ IF HasLeft(u) THEN row[r] = [user |-> u, at |-> "left"] ELSE NextRow(r)
           /\ Seat(r, u)
    BY <1>2 DEF JoinGroup
  <2>2. row[r].at # "in"
    BY <2>1 DEF NextRow, FreeRow
  <2>3. ASSUME NEW k \in Rows, row[k].user = u
        PROVE  k = r
    <3>1. row[k].at # "in"
      BY <1>2, <2>3 DEF JoinGroup, IsMember, Current
    <3>2. row[k].at # "free"
      BY <2>3 DEF GroupInv, FreeIsNobody
    <3>3. row[k] = [user |-> u, at |-> "left"]
      BY <2>3, <3>1, <3>2 DEF GroupInv, GroupTypeOK
    <3>4. row[r].user = u
      BY <2>1, <3>3 DEF HasLeft
    <3> QED
      BY <2>3, <3>4 DEF GroupInv, OneRowEach
  <2> QED
    BY <1>2, <2>1, <2>2, <2>3, SeatKeeps DEF JoinGroup
<1>3. ASSUME NEW u \in Accounts, NEW r \in Rows, ClaimPhantom(u, r) PROVE GroupInv'
  <2>1. ASSUME NEW k \in Rows, row[k].user = u
        PROVE  FALSE
    <3>1. row[k].at # "in"
      BY <1>3, <2>1 DEF ClaimPhantom, IsMember, Current
    <3>2. row[k].at # "free"
      BY <2>1 DEF GroupInv, FreeIsNobody
    <3>3. row[k] = [user |-> u, at |-> "left"]
      BY <2>1, <3>1, <3>2 DEF GroupInv, GroupTypeOK
    <3> QED
      BY <1>3, <3>3 DEF ClaimPhantom, HasLeft
  <2> QED
    BY <1>3, <2>1, SeatKeeps DEF ClaimPhantom
<1>4. ASSUME NEW r \in Rows, RemoveMember(r) PROVE GroupInv'
  <2> USE <1>4 DEF RemoveMember, GroupInv
  <2>1. GroupTypeOK'
    BY DEF GroupTypeOK
  <2>2. Current' = Current \ {r}
    BY DEF Current, GroupTypeOK
  <2>3. Named' = Named
    BY DEF Named, Live
  <2>4. LiveBillsNameMembers'
    BY <2>2, <2>3 DEF LiveBillsNameMembers, MayLeave
  <2>5. OwnerIsAMember'
    <3>1. PICK k \in Current : row[k].user = owner
      BY DEF OwnerIsAMember, IsMember
    <3>2. k \in Current' /\ row'[k].user = owner'
      BY <3>1, <2>2 DEF Current, GroupTypeOK
    <3> QED
      BY <3>2 DEF OwnerIsAMember, IsMember
  <2>6. FreeIsNobody' /\ OneRowEach'
    BY DEF FreeIsNobody, OneRowEach, GroupTypeOK, Current
  <2> QED
    BY <2>1, <2>4, <2>5, <2>6
<1>5. ASSUME NEW u \in Accounts, HandOver(u) PROVE GroupInv'
  <2>1. row' = row /\ bill' = bill
    BY <1>5 DEF HandOver
  <2> QED
    BY <1>5, <2>1, SameRowsSameMembers
    DEF HandOver, GroupInv, GroupTypeOK, FreeIsNobody, LiveBillsNameMembers,
        OwnerIsAMember, OneRowEach
<1>6. ASSUME NEW b \in Bills, NEW says \in Contents, Record(b, says) \/ Edit(b, says)
      PROVE  GroupInv'
  BY <1>6, KeepKeeps DEF Record, Edit, Valid
<1>7. ASSUME NEW b \in Bills, DeleteBill(b) \/ RestoreBill(b) PROVE GroupInv'
  <2>1. bill[b].says \in Contents
    BY <1>7 DEF DeleteBill, RestoreBill, Live, Dead, GroupInv, GroupTypeOK
  <2> QED
    BY <1>7, <2>1, KeepKeeps DEF DeleteBill, RestoreBill
<1>8. CASE DeleteGroup
  <2> USE <1>8 DEF DeleteGroup
  <2>1. GroupTypeOK'
    BY DEF GroupInv, GroupTypeOK, FreeRow
  <2>2. Named' = {}
    BY DEF Named, Live
  <2>3. LiveBillsNameMembers' /\ OwnerIsAMember'
    BY <2>2 DEF LiveBillsNameMembers, OwnerIsAMember
  <2>4. FreeIsNobody' /\ OneRowEach'
    BY DEF FreeIsNobody, OneRowEach, FreeRow
  <2> QED
    BY <2>1, <2>3, <2>4 DEF GroupInv
<1>9. CASE UNCHANGED groupVars
  <2>1. row' = row /\ bill' = bill /\ owner' = owner /\ exists' = exists /\ fresh' = fresh
    BY <1>9 DEF groupVars
  <2> QED
    BY <2>1, SameRowsSameMembers
    DEF GroupInv, GroupTypeOK, FreeIsNobody, LiveBillsNameMembers, OwnerIsAMember, OneRowEach
<1> QED
  BY <1>1, <1>2, <1>3, <1>4, <1>5, <1>6, <1>7, <1>8, <1>9 DEF GroupNext

\* The invariant at every moment.
LEMMA GroupInvariance == GroupSpec => []GroupInv
  BY GroupInitInv, StepInv, PTL DEF GroupSpec

\* A Group's rows, Owner and bills have their types, always.
THEOREM GroupTyped == GroupSpec => []GroupTypeOK
  BY GroupInvariance, PTL DEF GroupInv

\* Whatever joins, leaves, edits, deletions, restores and hand-overs come, in
\* any order and on any answer about who may ask: a live bill names Members
\* (ledger.go:112-116, checkLevel, checkStillMembers).
THEOREM BillsNameMembers == GroupSpec => []LiveBillsNameMembers
  BY GroupInvariance, PTL DEF GroupInv

\* The Owner is one of the Members while the Group is there (Leave, HandOver,
\* RemoveMember).
THEOREM OwnerStays == GroupSpec => []OwnerIsAMember
  BY GroupInvariance, PTL DEF GroupInv

\* No account has two rows, so unique(group_id, user_id) never fails a join
\* (AddMember, checkClaimable).
THEOREM OneRow == GroupSpec => []OneRowEach
  BY GroupInvariance, PTL DEF GroupInv

-----------------------------------------------------------------------------
(***************************************************************************)
(* Proofs about InviteLink, for any links, caps and people: a cap is never *)
(* overrun, and what a link answered somebody stays answered.              *)
(***************************************************************************)

\* Who a link let in; Used counts them.
LetIn(l) == {p \in People : uses[l][p] = "joined"}

\* A link not minted or deleted counts nobody in.
LostCountsNobody == \A l \in Links : ~Found(l) => \A p \in People : uses[l][p] = "none"

InviteInv == InviteTypeOK /\ LostCountsNobody /\ SeatsWithinCap

LEMMA UsedIsANumber == \A l \in Links : IsFiniteSet(LetIn(l)) /\ Used(l) \in Nat
<1> SUFFICES ASSUME NEW l \in Links PROVE IsFiniteSet(LetIn(l)) /\ Used(l) \in Nat
  OBVIOUS
<1>1. IsFiniteSet(LetIn(l))
  BY InviteAssumption, FS_Subset DEF LetIn
<1> QED
  BY <1>1, FS_CardinalityType DEF LetIn, Used

LEMMA InviteInitInv == InviteInit => InviteInv
<1> SUFFICES ASSUME InviteInit PROVE InviteInv
  OBVIOUS
<1> USE DEF InviteInit
<1>1. InviteTypeOK
  BY DEF InviteTypeOK, NotMinted
<1>2. LostCountsNobody
  BY DEF LostCountsNobody
<1>3. SeatsWithinCap
  BY DEF SeatsWithinCap, NotMinted
<1> QED
  BY <1>1, <1>2, <1>3 DEF InviteInv

\* Every step keeps the types.
LEMMA InviteTypeStep == InviteTypeOK /\ [InviteNext]_inviteVars => InviteTypeOK'
<1> SUFFICES ASSUME InviteTypeOK, [InviteNext]_inviteVars PROVE InviteTypeOK'
  OBVIOUS
<1> USE InviteAssumption DEF InviteTypeOK
<1>1. ASSUME NEW l \in Links, Mint(l) PROVE InviteTypeOK'
  BY <1>1 DEF Mint, Shut
<1>2. ASSUME NEW l \in Links, Revoke(l) \/ LinkExpires(l) PROVE InviteTypeOK'
  <2>1. link[l] \in [cap : Caps, approval : BOOLEAN, shut : Shut]
    BY <1>2 DEF Revoke, LinkExpires, Found, Shut, NotMinted, Gone
  <2> QED
    BY <1>2, <2>1 DEF Revoke, LinkExpires, Shut
<1>3. ASSUME NEW l \in Links, DeleteLink(l) PROVE InviteTypeOK'
  BY <1>3 DEF DeleteLink
<1>4. ASSUME NEW l \in Links, NEW p \in People, Follow(l, p) \/ Approve(l, p) \/ Decline(l, p)
      PROVE  InviteTypeOK'
  <2>1. CASE Follow(l, p)
    <3>1. PICK s \in {"pending", "joined"} : uses' = [uses EXCEPT ![l][p] = s]
      BY <2>1 DEF Follow
    <3>2. link' = link /\ insiders' \subseteq People
      BY <2>1 DEF Follow
    <3> QED
      BY <3>1, <3>2
  <2>2. CASE Approve(l, p)
    BY <2>2 DEF Approve
  <2>3. CASE Decline(l, p)
    BY <2>3 DEF Decline
  <2> QED
    BY <1>4, <2>1, <2>2, <2>3
<1>5. ASSUME NEW p \in People, AddedByName(p) \/ GoesOut(p) PROVE InviteTypeOK'
  BY <1>5 DEF AddedByName, GoesOut
<1>6. CASE UNCHANGED inviteVars
  BY <1>6 DEF inviteVars
<1> QED
  BY <1>1, <1>2, <1>3, <1>4, <1>5, <1>6 DEF InviteNext

\* One more person let in takes at most one seat.
LEMMA OneMore ==
    ASSUME InviteTypeOK, NEW l \in Links, NEW p \in People, NEW s,
           uses' = [uses EXCEPT ![l][p] = s], link' = link
    PROVE  /\ \A k \in Links : k # l => Used(k)' = Used(k)
           /\ s # "joined" /\ uses[l][p] # "joined" => Used(l)' = Used(l)
           /\ Used(l)' <= Used(l) + 1
<1> USE DEF InviteTypeOK
<1>1. ASSUME NEW k \in Links, k # l PROVE Used(k)' = Used(k)
  <2>1. LetIn(k)' = LetIn(k)
    BY <1>1 DEF LetIn
  <2> QED
    BY <2>1 DEF Used, LetIn
<1>2. ASSUME s # "joined", uses[l][p] # "joined" PROVE Used(l)' = Used(l)
  <2>1. LetIn(l)' = LetIn(l)
    BY <1>2 DEF LetIn
  <2> QED
    BY <2>1 DEF Used, LetIn
<1>3. Used(l)' <= Used(l) + 1
  <2>1. LetIn(l)' \subseteq LetIn(l) \cup {p}
    BY DEF LetIn
  <2>2. /\ IsFiniteSet(LetIn(l) \cup {p})
        /\ Cardinality(LetIn(l) \cup {p}) \in {Used(l), Used(l) + 1}
    BY UsedIsANumber, FS_AddElement DEF Used, LetIn
  <2>3. IsFiniteSet(LetIn(l)') /\ Cardinality(LetIn(l)') <= Cardinality(LetIn(l) \cup {p})
    BY <2>1, <2>2, FS_Subset
  <2>4. Cardinality(LetIn(l)') \in Nat
    BY <2>3, FS_CardinalityType
  <2>5. Used(l)' = Cardinality(LetIn(l)')
    BY DEF Used, LetIn
  <2> QED
    BY <2>2, <2>3, <2>4, <2>5, UsedIsANumber
<1> QED
  BY <1>1, <1>2, <1>3

\* Every step keeps the caps.
LEMMA CapStep == InviteInv /\ [InviteNext]_inviteVars => LostCountsNobody' /\ SeatsWithinCap'
<1> SUFFICES ASSUME InviteInv, [InviteNext]_inviteVars
             PROVE  LostCountsNobody' /\ SeatsWithinCap'
  OBVIOUS
<1> USE InviteAssumption DEF InviteInv
<1>1. \A k \in Links : uses' = uses => Used(k)' = Used(k)
  BY DEF Used
<1>2. ASSUME NEW l \in Links, Mint(l) PROVE LostCountsNobody' /\ SeatsWithinCap'
  <2>1. LostCountsNobody'
    <3>1. \A k \in Links : k # l => link'[k] = link[k]
      BY <1>2 DEF Mint, InviteTypeOK
    <3>2. link'[l].shut = "no"
      BY <1>2 DEF Mint, InviteTypeOK
    <3> QED
      BY <1>2, <3>1, <3>2 DEF Mint, LostCountsNobody, Found, Shut
  <2>2. LetIn(l) = {}
    BY <1>2 DEF Mint, NotMinted, Found, Shut, LostCountsNobody, LetIn
  <2>3. Used(l) = 0
    BY <2>2, FS_EmptySet DEF Used, LetIn
  <2>4. ASSUME NEW k \in Links, link'[k].cap # 0 PROVE Used(k)' <= link'[k].cap
    <3>1. CASE k = l
      BY <3>1, <2>3, <1>1, <1>2 DEF Mint, InviteTypeOK
    <3>2. CASE k # l
      BY <3>2, <2>4, <1>1, <1>2 DEF Mint, InviteTypeOK, SeatsWithinCap
    <3> QED
      BY <3>1, <3>2
  <2> QED
    BY <2>1, <2>4 DEF SeatsWithinCap
<1>3. ASSUME NEW l \in Links, Revoke(l) \/ LinkExpires(l)
      PROVE  LostCountsNobody' /\ SeatsWithinCap'
  <2>1. /\ link[l] \in [cap : Caps, approval : BOOLEAN, shut : Shut]
        /\ uses' = uses
    BY <1>3 DEF Revoke, LinkExpires, Found, Shut, NotMinted, Gone, InviteTypeOK
  <2>2. \A k \in Links : link'[k].cap = link[k].cap /\ (k # l => link'[k] = link[k])
    BY <1>3, <2>1 DEF Revoke, LinkExpires, InviteTypeOK
  <2>3. Found(l)'
    BY <1>3, <2>1 DEF Revoke, LinkExpires, Found, Shut, InviteTypeOK
  <2>4. LostCountsNobody'
    BY <2>1, <2>2, <2>3 DEF LostCountsNobody, Found
  <2>5. SeatsWithinCap'
    BY <2>1, <2>2, <1>1 DEF SeatsWithinCap
  <2> QED
    BY <2>4, <2>5
<1>4. ASSUME NEW l \in Links, DeleteLink(l) PROVE LostCountsNobody' /\ SeatsWithinCap'
  <2>1. LostCountsNobody'
    BY <1>4 DEF DeleteLink, LostCountsNobody, Found, InviteTypeOK
  <2>2. ASSUME NEW k \in Links, link'[k].cap # 0 PROVE Used(k)' <= link'[k].cap
    <3>1. k # l
      BY <1>4, <2>2 DEF DeleteLink, Gone, InviteTypeOK
    <3>2. Used(k)' = Used(k) /\ link'[k] = link[k]
      BY <1>4, <3>1 DEF DeleteLink, Used, InviteTypeOK
    <3> QED
      BY <2>2, <3>2 DEF SeatsWithinCap
  <2> QED
    BY <2>1, <2>2 DEF SeatsWithinCap
<1>5. ASSUME NEW l \in Links, NEW p \in People, Follow(l, p) \/ Approve(l, p) \/ Decline(l, p)
      PROVE  LostCountsNobody' /\ SeatsWithinCap'
  <2>1. Found(l)
    BY <1>5 DEF Follow, Admits, Approve, Decline, Request, LostCountsNobody, Found, Shut
  <2>2. LostCountsNobody'
    BY <1>5, <2>1 DEF Follow, Approve, Decline, LostCountsNobody, Found, InviteTypeOK
  <2>3. PICK s \in {"pending", "joined", "declined"} :
           /\ uses' = [uses EXCEPT ![l][p] = s] /\ link' = link
           /\ s = "joined" => ~AtCap(l)
           /\ uses[l][p] # "joined"
    BY <1>5 DEF Follow, Admits, Approve, Decline, Request
  <2>4. ASSUME NEW k \in Links, link'[k].cap # 0 PROVE Used(k)' <= link'[k].cap
    <3>1. CASE k # l \/ s # "joined"
      BY <3>1, <2>3, <2>4, OneMore DEF SeatsWithinCap
    <3>2. CASE k = l /\ s = "joined"
      <4>1. link[l].cap \in Nat
        <5>1. link[l] \in [cap : Caps, approval : BOOLEAN, shut : Shut]
          BY <2>1 DEF Found, Shut, InviteTypeOK, NotMinted, Gone
        <5> QED
          BY <5>1
      <4>2. Used(l) < link[l].cap
        BY <3>2, <2>3, <2>4, <4>1, UsedIsANumber DEF AtCap
      <4>3. Used(l)' <= Used(l) + 1
        BY <2>3, OneMore
      <4>4. Used(l)' \in Nat
        BY UsedIsANumber, InviteTypeStep, FS_Subset, FS_CardinalityType DEF Used
      <4> QED
        BY <3>2, <2>3, <4>1, <4>2, <4>3, <4>4, UsedIsANumber
    <3> QED
      BY <3>1, <3>2
  <2> QED
    BY <2>2, <2>4 DEF SeatsWithinCap
<1>6. ASSUME NEW p \in People, AddedByName(p) \/ GoesOut(p)
      PROVE  LostCountsNobody' /\ SeatsWithinCap'
  BY <1>6, <1>1 DEF AddedByName, GoesOut, LostCountsNobody, Found, SeatsWithinCap
<1>7. CASE UNCHANGED inviteVars
  BY <1>7, <1>1 DEF inviteVars, LostCountsNobody, Found, SeatsWithinCap
<1> QED
  BY <1>2, <1>3, <1>4, <1>5, <1>6, <1>7 DEF InviteNext

\* No step takes an answer back.
LEMMA FinalStep ==
    ASSUME InviteTypeOK, LostCountsNobody, [InviteNext]_inviteVars,
           NEW l \in Links, NEW p \in People,
           uses[l][p] \in {"joined", "declined"}, link'[l] # Gone
    PROVE  uses'[l][p] = uses[l][p]
<1> USE DEF InviteTypeOK
<1>1. ASSUME NEW k \in Links, DeleteLink(k) PROVE uses'[l][p] = uses[l][p]
  BY <1>1 DEF DeleteLink
<1>2. ASSUME NEW k \in Links, NEW q \in People, Follow(k, q) \/ Approve(k, q) \/ Decline(k, q)
      PROVE  uses'[l][p] = uses[l][p]
  <2>1. uses[k][q] \in {"none", "pending"}
    BY <1>2 DEF Follow, Admits, Approve, Decline, Request
  <2>2. k # l \/ q # p
    BY <2>1
  <2> QED
    BY <1>2, <2>2 DEF Follow, Approve, Decline
<1>3. ASSUME NEW k \in Links, Mint(k) \/ Revoke(k) \/ LinkExpires(k)
      PROVE  uses'[l][p] = uses[l][p]
  BY <1>3 DEF Mint, Revoke, LinkExpires
<1>4. ASSUME NEW q \in People, AddedByName(q) \/ GoesOut(q) PROVE uses'[l][p] = uses[l][p]
  BY <1>4 DEF AddedByName, GoesOut
<1>5. CASE UNCHANGED inviteVars
  BY <1>5 DEF inviteVars
<1> QED
  BY <1>1, <1>2, <1>3, <1>4, <1>5 DEF InviteNext

LEMMA InviteInvariance == InviteSpec => []InviteInv
<1>1. InviteInv /\ [InviteNext]_inviteVars => InviteInv'
  BY InviteTypeStep, CapStep DEF InviteInv
<1> QED
  BY InviteInitInv, <1>1, PTL DEF InviteSpec

\* A scope's links, uses and insiders have their types, always.
THEOREM InviteTyped == InviteSpec => []InviteTypeOK
  BY InviteInvariance, PTL DEF InviteInv

\* However direct joins, requests, decisions, removals and deletions of links
\* interleave, a capped link has let in at most its cap (invitelink.go:387-390).
THEOREM WithinCap == InviteSpec => []SeatsWithinCap
  BY InviteInvariance, PTL DEF InviteInv

\* LetIn and declined are for good, as long as the link is there
\* (invitelink.go:463-466).
THEOREM AnswersStand == InviteSpec => AnswersAreFinal
<1>1. InviteInv /\ [InviteNext]_inviteVars
        => [\A l \in Links, p \in People :
               uses[l][p] \in {"joined", "declined"} /\ link'[l] # Gone
                   => uses'[l][p] = uses[l][p]]_inviteVars
  BY FinalStep DEF InviteInv
<1> QED
  BY InviteInvariance, <1>1, PTL DEF InviteSpec, AnswersAreFinal

-----------------------------------------------------------------------------
(***************************************************************************)
(* The arithmetic of a Group's page, for any members and any legal bills:  *)
(* what largest remainder hands out, what a bill does to the column, what  *)
(* rounding the column once leaves, and how many lines settle everybody.   *)
(* The order of the steps is the code's: HandOut, Absorbed, Nets, AddNets, *)
(* Rounded, Largest, Transfer.                                             *)
(***************************************************************************)

LEMMA TotalIsSum == \A f : Total(f) = Sum(f, DOMAIN f)
BY DEF Total, Sum

LEMMA DivMod ==
    ASSUME NEW a \in Int, NEW d \in Nat \ {0}
    PROVE  /\ a = (a \div d) * d + (a % d)
           /\ a % d \in 0..(d - 1) /\ a \div d \in Int
OBVIOUS

LEMMA DivModZero ==
    ASSUME NEW d \in Nat \ {0}
    PROVE  0 \div d = 0 /\ 0 % d = 0
<1>1. 0 % d \in 0..(d - 1) /\ 0 = (0 \div d) * d + (0 % d) /\ 0 \div d \in Int
  BY DivMod
<1>2. ASSUME NEW q \in Int, NEW r \in 0..(d - 1), 0 = q * d + r PROVE q = 0 /\ r = 0
  <2>1. q >= 0
    <3>1. SUFFICES ASSUME q <= -1 PROVE FALSE
      OBVIOUS
    <3>2. q * d <= -1 * d
      BY <3>1
    <3> QED BY <3>2, <1>2
  <2>2. q <= 0
    <3>1. SUFFICES ASSUME q >= 1 PROVE FALSE
      OBVIOUS
    <3>2. q * d >= 1 * d
      BY <3>1
    <3> QED BY <3>2, <1>2
  <2> QED BY <2>1, <2>2, <1>2
<1> QED BY <1>1, <1>2

\* The order HandOut is given: strict, any two compare, and a bigger remainder
\* comes first.
Order(D, exact, den, ahead) ==
    /\ ahead \in [D -> SUBSET D]
    /\ \A m \in D : m \notin ahead[m]
    /\ \A j, k, m \in D : j \in ahead[k] /\ k \in ahead[m] => j \in ahead[m]
    /\ \A k, m \in D : k # m => k \in ahead[m] \/ m \in ahead[k]
    /\ \A k, m \in D : exact[k] % den > exact[m] % den => k \in ahead[m]

\* What is given is within a unit of what is exact, and nothing where that is nothing.
Near(give, exact, den, m) ==
    /\ give[m] * den - exact[m] < den /\ -(give[m] * den - exact[m]) < den
    /\ exact[m] = 0 => give[m] = 0

\* Largest remainder gives out the target, and nobody a unit more or less than
\* is exact; who has nothing coming gets nothing.
LEMMA HandsOut ==
    \A D, exact, den, target, ahead :
        /\ IsFiniteSet(D) /\ exact \in [D -> Int] /\ den \in Nat \ {0} /\ target \in Int
        /\ Sum(exact, D) = target * den /\ Order(D, exact, den, ahead)
        => /\ HandOut(exact, den, target, ahead) \in [D -> Int]
           /\ Sum(HandOut(exact, den, target, ahead), D) = target
           /\ \A m \in D : Near(HandOut(exact, den, target, ahead), exact, den, m)
<1> SUFFICES ASSUME NEW D, IsFiniteSet(D), NEW exact \in [D -> Int], NEW den \in Nat \ {0},
                    NEW target \in Int, Sum(exact, D) = target * den,
                    NEW ahead, Order(D, exact, den, ahead)
             PROVE  /\ HandOut(exact, den, target, ahead) \in [D -> Int]
                    /\ Sum(HandOut(exact, den, target, ahead), D) = target
                    /\ \A m \in D : Near(HandOut(exact, den, target, ahead), exact, den, m)
  OBVIOUS
<1> DEFINE floor == [m \in D |-> exact[m] \div den]
           whole == [m \in D |-> floor[m] * den]
           rem == [m \in D |-> exact[m] % den]
           spare == target - Sum(floor, D)
           Low == {m \in D : Cardinality(ahead[m]) < spare}
           one == [m \in D |-> IF m \in Low THEN 1 ELSE 0]
           NZ == {m \in D : rem[m] # 0}
           nz == [m \in D |-> IF m \in NZ THEN 1 ELSE 0]
           most == [m \in D |-> nz[m] * den]
           give == HandOut(exact, den, target, ahead)
<1>1. \A m \in D : /\ exact[m] \in Int /\ floor[m] \in Int /\ rem[m] \in 0..(den - 1)
                   /\ whole[m] \in Int /\ exact[m] = whole[m] + rem[m]
                   /\ exact[m] = 0 => floor[m] = 0 /\ rem[m] = 0
  <2>1. ASSUME NEW m \in D
        PROVE  /\ exact[m] \in Int
               /\ exact[m] = (exact[m] \div den) * den + (exact[m] % den)
               /\ exact[m] % den \in 0..(den - 1) /\ exact[m] \div den \in Int
               /\ exact[m] = 0 => exact[m] \div den = 0 /\ exact[m] % den = 0
    <3>1. exact[m] \in Int
      OBVIOUS
    <3>2. /\ exact[m] = (exact[m] \div den) * den + (exact[m] % den)
          /\ exact[m] % den \in 0..(den - 1) /\ exact[m] \div den \in Int
      BY <3>1, DivMod
    <3> QED BY <3>1, <3>2, DivModZero
  <2>2. \A m \in D : /\ floor[m] = exact[m] \div den /\ rem[m] = exact[m] % den
                     /\ whole[m] = floor[m] * den
    OBVIOUS
  <2> HIDE DEF floor, rem, whole
  <2>3. ASSUME NEW m \in D
        PROVE  /\ floor[m] \in Int /\ rem[m] \in 0..(den - 1) /\ whole[m] \in Int
               /\ exact[m] = whole[m] + rem[m]
    <3>1. floor[m] \in Int /\ rem[m] \in 0..(den - 1)
      BY <2>1, <2>2
    <3>2. whole[m] = floor[m] * den /\ whole[m] \in Int
      BY <2>2, <3>1
    <3>3. exact[m] = floor[m] * den + rem[m]
      BY <2>1, <2>2
    <3> QED BY <3>1, <3>2, <3>3
  <2> QED BY <2>1, <2>2, <2>3
<1>2. give = [m \in D |-> floor[m] + one[m]]
  BY TotalIsSum DEF HandOut
<1>3. Sum(exact, D) = Sum(whole, D) + Sum(rem, D)
  <2> HIDE DEF whole, rem, floor
  <2>1. \A m \in D : rem[m] \in Int
    BY <1>1
  <2> QED BY <1>1, <2>1, SumPlus
<1>4. Sum(whole, D) = Sum(floor, D) * den
  <2>1. \A m \in D : whole[m] = floor[m] * den
    OBVIOUS
  <2> HIDE DEF whole, floor
  <2> QED BY <1>1, <2>1, SumTimes
<1>5. Sum(floor, D) \in Int /\ Sum(rem, D) \in Int
  <2> HIDE DEF floor, rem
  <2>1. \A m \in D : rem[m] \in Int
    BY <1>1
  <2> QED BY <1>1, <2>1, SumIsInt
<1>6. spare \in Int /\ spare * den = Sum(rem, D)
  <2> HIDE DEF floor, rem, whole
  <2>1. \A a, b \in Int : (a - b) * den = a * den - b * den
    OBVIOUS
  <2> QED BY <1>3, <1>4, <1>5, <2>1
<1>7. 0 <= Sum(rem, D) /\ Sum(rem, D) <= Cardinality(NZ) * den
  <2> DEFINE none == [m \in D |-> 0 * den]
  <2>1. \A m \in D : /\ none[m] \in Int /\ rem[m] \in Int /\ most[m] \in Int /\ nz[m] \in Int
                     /\ none[m] <= rem[m] /\ rem[m] <= most[m]
                     /\ none[m] = none[m] * 0
                     /\ most[m] = nz[m] * den /\ nz[m] = IF m \in NZ THEN 1 ELSE 0
    <3>1. ASSUME NEW m \in D
          PROVE  /\ none[m] = 0 /\ rem[m] \in 0..(den - 1) /\ most[m] = nz[m] * den
                 /\ nz[m] = (IF m \in NZ THEN 1 ELSE 0) /\ (m \notin NZ => rem[m] = 0)
      BY <1>1
    <3> HIDE DEF none, rem, most, nz, NZ
    <3>2. ASSUME NEW m \in D PROVE rem[m] <= most[m] /\ most[m] \in Int /\ nz[m] \in Int
      <4>1. CASE m \in NZ
        <5>1. most[m] = den
          BY <3>1, <4>1
        <5> QED BY <3>1, <4>1, <5>1
      <4>2. CASE m \notin NZ
        <5>1. most[m] = 0
          BY <3>1, <4>2
        <5> QED BY <3>1, <4>2, <5>1
      <4> QED BY <4>1, <4>2
    <3> QED BY <3>1, <3>2
  <2>2. NZ \in SUBSET D
    OBVIOUS
  <2> HIDE DEF none, rem, most, nz, NZ
  <2>3. Sum(none, D) <= Sum(rem, D) /\ Sum(rem, D) <= Sum(most, D)
    BY <2>1, SumLeq
  <2>4. Sum(none, D) \in Int /\ Sum(none, D) = Sum(none, D) * 0
    BY <2>1, SumTimes, SumIsInt
  <2>5. Sum(most, D) = Sum(nz, D) * den
    BY <2>1, SumTimes
  <2>6. Sum(nz, D) = Cardinality(NZ)
    BY <2>1, <2>2, SumCounts
  <2> QED BY <2>3, <2>4, <2>5, <2>6
<1>8. /\ IsFiniteSet(NZ) /\ Cardinality(NZ) \in Nat /\ Cardinality(NZ) <= Cardinality(D)
      /\ Cardinality(D) \in Nat
  BY FS_Subset, FS_CardinalityType
<1>9. spare \in Nat /\ spare <= Cardinality(NZ)
  <2> HIDE DEF spare, rem, NZ
  <2>1. ASSUME NEW n \in Nat, NEW s \in Int, 0 <= s * den, s * den <= n * den
        PROVE  s \in Nat /\ s <= n
    <3>1. s >= 0
      <4>1. SUFFICES ASSUME s <= -1 PROVE FALSE
        OBVIOUS
      <4>2. s * den <= -1 * den
        BY <4>1
      <4> QED BY <2>1, <4>2
    <3>2. s <= n
      <4>1. SUFFICES ASSUME s >= n + 1 PROVE FALSE
        BY <2>1
      <4>2. s * den >= (n + 1) * den
        BY <4>1
      <4>3. (n + 1) * den = n * den + den
        OBVIOUS
      <4> QED BY <2>1, <4>2, <4>3
    <3> QED BY <3>1, <3>2
  <2> QED BY <1>6, <1>7, <1>8, <2>1
<1>10. Cardinality(Low) = spare
  <2> HIDE DEF spare
  <2>1. spare <= Cardinality(D)
    BY <1>8, <1>9
  <2> QED BY <1>9, <2>1, Ranks DEF Order
<1>11. ASSUME NEW m \in Low PROVE rem[m] # 0
  <2>1. SUFFICES ASSUME rem[m] = 0 PROVE FALSE
    OBVIOUS
  <2>2. NZ \subseteq ahead[m]
    <3> SUFFICES ASSUME NEW k \in NZ PROVE k \in ahead[m]
      OBVIOUS
    <3>1. exact[k] % den > exact[m] % den
      BY <1>1, <2>1
    <3> QED BY <3>1 DEF Order
  <2>3. IsFiniteSet(ahead[m]) /\ Cardinality(NZ) <= Cardinality(ahead[m])
        /\ Cardinality(ahead[m]) \in Nat
    <3>1. ahead[m] \in SUBSET D
      BY DEF Order
    <3>2. IsFiniteSet(ahead[m])
      BY <3>1, FS_Subset
    <3> HIDE DEF NZ
    <3> QED BY <2>2, <3>2, FS_Subset, FS_CardinalityType
  <2>4. Cardinality(ahead[m]) < spare
    OBVIOUS
  <2> HIDE DEF spare, NZ, Low
  <2> QED BY <1>8, <1>9, <2>3, <2>4
<1>12. give \in [D -> Int]
  <2>1. \A m \in D : floor[m] + one[m] \in Int
    <3>1. \A m \in D : one[m] \in Int
      OBVIOUS
    <3> HIDE DEF floor, one
    <3> QED BY <1>1, <3>1
  <2> HIDE DEF give, floor, one
  <2> QED BY <1>2, <2>1
<1>13. Sum(give, D) = target
  <2>1. \A m \in D : /\ one[m] \in Int /\ one[m] = IF m \in Low THEN 1 ELSE 0
                     /\ give[m] = floor[m] + one[m]
    BY <1>2
  <2>2. Low \in SUBSET D
    OBVIOUS
  <2>3. Sum(one, D) = spare
    <3> HIDE DEF one, Low, spare
    <3> QED BY <1>10, <2>1, <2>2, SumCounts
  <2>4. Sum(give, D) = Sum(floor, D) + Sum(one, D)
    <3> HIDE DEF one, Low, floor, give
    <3>1. \A m \in D : floor[m] \in Int /\ one[m] \in Int /\ give[m] = floor[m] + one[m]
      BY <1>1, <2>1
    <3> QED BY <3>1, SumPlus
  <2> HIDE DEF give, floor, one
  <2> QED BY <1>5, <2>3, <2>4
<1>14. ASSUME NEW m \in D
       PROVE  /\ give[m] * den - exact[m] < den /\ -(give[m] * den - exact[m]) < den
              /\ exact[m] = 0 => give[m] = 0
  <2>1. give[m] = floor[m] + (IF m \in Low THEN 1 ELSE 0)
    BY <1>2
  <2>2. m \in Low => rem[m] # 0
    BY <1>11
  <2>3. exact[m] = floor[m] * den + rem[m] /\ rem[m] \in 0..(den - 1) /\ floor[m] \in Int
        /\ (exact[m] = 0 => floor[m] = 0 /\ rem[m] = 0)
    BY <1>1
  <2> HIDE DEF give, floor, rem, Low
  <2>4. CASE m \in Low
    <3>1. give[m] * den = floor[m] * den + den
      <4>1. \A q \in Int : (q + 1) * den = q * den + den
        OBVIOUS
      <4> QED BY <2>1, <2>3, <2>4, <4>1
    <3>2. floor[m] * den \in Int /\ rem[m] \in 1..(den - 1)
      BY <2>2, <2>3, <2>4
    <3>3. give[m] * den - exact[m] = den - rem[m]
      BY <2>3, <3>1, <3>2
    <3> QED BY <2>2, <2>3, <2>4, <3>2, <3>3
  <2>5. CASE m \notin Low
    BY <2>1, <2>3, <2>5
  <2> QED BY <2>4, <2>5
<1> HIDE DEF give
<1>15. \A m \in D : Near(give, exact, den, m)
  BY <1>14 DEF Near
<1> QED BY <1>12, <1>13, <1>15 DEF give

-----------------------------------------------------------------------------
\* The part of a bill nobody claimed is absorbed whole, by those who paid.
LEMMA Absorbs ==
    ASSUME NEW this, IsABill(this)
    PROVE  /\ Absorbed(this) \in [Table -> Int]
           /\ Sum(Absorbed(this), Table) = Sum(this.paid, Table) - Sum(this.share, Table)
           /\ \A m \in Table : this.paid[m] = 0 => Absorbed(this)[m] = 0
<1> DEFINE u == Unclaimed(this)
           P == Total(this.paid)
           payers == {m \in DOMAIN this.paid : this.paid[m] > 0}
           exact == [m \in payers |-> u * this.paid[m]]
           First(k, m) ==
               \/ exact[k] % P > exact[m] % P
               \/ exact[k] % P = exact[m] % P /\ this.paid[k] > this.paid[m]
               \/ exact[k] % P = exact[m] % P /\ this.paid[k] = this.paid[m] /\ k < m
           ahead == [m \in payers |-> {k \in payers : First(k, m)}]
           part == HandOut(exact, P, u, ahead)
           absorbed == Absorbed(this)
<1> USE DebtAssumption
<1>1. /\ DOMAIN this.paid = Table /\ DOMAIN this.share = Table
      /\ \A m \in Table : this.paid[m] \in Nat /\ this.share[m] \in Nat
      /\ Total(this.share) <= P
  BY DEF IsABill
<1>2. P = Sum(this.paid, Table) /\ Total(this.share) = Sum(this.share, Table)
  BY <1>1, TotalIsSum
<1>3. P \in Int /\ Total(this.share) \in Int
  <2> HIDE DEF P
  <2>1. \A m \in Table : this.paid[m] \in Int /\ this.share[m] \in Int
    BY <1>1
  <2> QED BY <1>2, <2>1, SumIsInt
<1>4. u = P - Total(this.share) /\ u \in Nat
  BY <1>1, <1>3 DEF Unclaimed
<1>5. absorbed = [m \in Table |-> IF u > 0 /\ m \in payers THEN part[m] ELSE 0]
  BY <1>1 DEF Absorbed
<1>6. payers \in SUBSET Table /\ IsFiniteSet(payers)
      /\ \A m \in Table : m \notin payers => this.paid[m] = 0
  BY <1>1, FS_Subset
<1>7. CASE u = 0
  <2>1. absorbed = [m \in Table |-> 0]
    <3> HIDE DEF absorbed, part, payers, u
    <3> QED BY <1>5, <1>7
  <2>2. {} \in SUBSET Table /\ \A m \in Table : absorbed[m] \in Int /\ absorbed[m] = 0
    BY <2>1
  <2> HIDE DEF absorbed, u, P
  <2>3. Sum(absorbed, Table) = Sum(absorbed, {})
    BY <2>2, SumPart
  <2> QED BY <1>2, <1>3, <1>4, <1>7, <2>1, <2>3, SumEmpty DEF absorbed
<1>8. CASE u > 0
  <2>1. P \in Nat \ {0}
    <3>1. Sum(this.share, Table) >= 0
      <4> DEFINE none == [m \in Table |-> 0]
      <4>1. /\ {} \in SUBSET Table
            /\ \A m \in Table : /\ none[m] \in Int /\ none[m] = 0 /\ this.share[m] \in Int
                                /\ none[m] <= this.share[m]
        BY <1>1
      <4> HIDE DEF none
      <4>2. Sum(none, Table) <= Sum(this.share, Table) /\ Sum(none, Table) = Sum(none, {})
        BY <4>1, SumLeq, SumPart
      <4> QED BY <4>2, SumEmpty
    <3> HIDE DEF u, P
    <3> QED BY <1>2, <1>3, <1>4, <1>8, <3>1
  <2>2. exact \in [payers -> Int] /\ \A m \in payers : exact[m] = this.paid[m] * u
    <3>1. \A m \in payers : this.paid[m] \in Nat
      BY <1>1
    <3> HIDE DEF payers, u
    <3>2. ASSUME NEW m \in payers
          PROVE  u * this.paid[m] \in Int /\ u * this.paid[m] = this.paid[m] * u
      BY <1>4, <3>1
    <3> QED BY <3>2
  <2>3. Sum(exact, payers) = u * P
    <3> HIDE DEF exact, payers, u
    <3>1. u \in Int /\ \A m \in payers : this.paid[m] \in Int /\ exact[m] = this.paid[m] * u
      BY <1>1, <1>4, <1>6, <2>2
    <3>2. Sum(exact, payers) = Sum(this.paid, payers) * u
      BY <1>6, <3>1, SumTimes
    <3>3. Sum(this.paid, Table) = Sum(this.paid, payers)
      <4>1. \A m \in Table : this.paid[m] \in Int /\ (m \notin payers => this.paid[m] = 0)
        BY <1>1, <1>6
      <4> QED BY <1>6, <4>1, SumPart
    <3> HIDE DEF P
    <3> QED BY <1>2, <1>3, <1>4, <3>2, <3>3
  <2>4. Order(payers, exact, P, ahead)
    <3>1. \A m \in payers : m \in Nat /\ this.paid[m] \in Nat /\ exact[m] % P \in Int
      <4>1. \A m \in payers : m \in Nat /\ this.paid[m] \in Nat
        BY <1>1, <1>6
      <4> HIDE DEF exact, payers, P
      <4> QED BY <2>1, <2>2, <4>1, DivMod
    <3>2. \A m, k \in payers : k \in ahead[m] <=> First(k, m)
      OBVIOUS
    <3>3. ahead \in [payers -> SUBSET payers]
      OBVIOUS
    <3> DEFINE r == [m \in payers |-> exact[m] % P]
    <3>4. \A m, k \in payers : k \in ahead[m] <=>
              \/ r[k] > r[m]
              \/ r[k] = r[m] /\ this.paid[k] > this.paid[m]
              \/ r[k] = r[m] /\ this.paid[k] = this.paid[m] /\ k < m
      BY <3>2
    <3>5. \A m \in payers : m \in Nat /\ this.paid[m] \in Nat /\ r[m] \in Int
      BY <3>1
    <3>6. \A k, m \in payers : exact[k] % P > exact[m] % P => k \in ahead[m]
      BY <3>2
    <3> HIDE DEF r, ahead, exact, payers, P, u
    <3>7. \A m \in payers : m \notin ahead[m]
      BY <3>4, <3>5
    <3>8. \A j, k, m \in payers : j \in ahead[k] /\ k \in ahead[m] => j \in ahead[m]
      BY <3>4, <3>5
    <3>9. \A k, m \in payers : k # m => k \in ahead[m] \/ m \in ahead[k]
      BY <3>4, <3>5
    <3> QED BY <3>3, <3>6, <3>7, <3>8, <3>9 DEF Order
  <2>5. part \in [payers -> Int] /\ Sum(part, payers) = u
    <3>1. u \in Int
      BY <1>4
    <3> HIDE DEF ahead, exact, payers, P, u, First, part
    <3>2. /\ IsFiniteSet(payers) /\ exact \in [payers -> Int] /\ P \in Nat \ {0} /\ u \in Int
          /\ Sum(exact, payers) = u * P /\ Order(payers, exact, P, ahead)
          => /\ HandOut(exact, P, u, ahead) \in [payers -> Int]
             /\ Sum(HandOut(exact, P, u, ahead), payers) = u
      BY HandsOut
    <3>3. /\ HandOut(exact, P, u, ahead) \in [payers -> Int]
          /\ Sum(HandOut(exact, P, u, ahead), payers) = u
      BY <1>6, <2>1, <2>2, <2>3, <2>4, <3>1, <3>2, Zenon
    <3> QED BY <3>3 DEF part
  <2>6. /\ \A m \in Table : absorbed[m] = IF m \in payers THEN part[m] ELSE 0
        /\ absorbed \in [Table -> Int]
    <3> HIDE DEF absorbed, part, payers, u
    <3> QED BY <1>5, <1>6, <1>8, <2>5
  <2>7. Sum(absorbed, Table) = u
    <3> HIDE DEF absorbed, part, payers, u
    <3>1. Sum(absorbed, Table) = Sum(absorbed, payers)
      <4>1. \A m \in Table : absorbed[m] \in Int /\ (m \notin payers => absorbed[m] = 0)
        BY <2>6
      <4> QED BY <1>6, <4>1, SumPart
    <3>2. Sum(absorbed, payers) = Sum(part, payers)
      <4>1. \A m \in payers : part[m] \in Int /\ absorbed[m] = part[m]
        BY <1>6, <2>5, <2>6
      <4> QED BY <1>6, <4>1, SumSame
    <3> QED BY <2>5, <3>1, <3>2
  <2>8. \A m \in Table : this.paid[m] = 0 => absorbed[m] = 0
    <3>1. \A m \in Table : this.paid[m] = 0 => m \notin payers
      BY <1>1
    <3> HIDE DEF absorbed, part, payers, u
    <3> QED BY <2>6, <3>1
  <2> HIDE DEF absorbed, P, u
  <2> QED BY <1>2, <1>4, <2>6, <2>7, <2>8 DEF absorbed
<1> HIDE DEF u
<1> QED BY <1>4, <1>7, <1>8

\* What a bill does to the balances adds up to nothing.
LEMMA NetsSumToZero ==
    ASSUME NEW this, IsABill(this)
    PROVE  /\ Nets(this) \in [Table -> Int] /\ Sum(Nets(this), Table) = 0
           /\ \A m \in Table : this.paid[m] = 0 /\ this.share[m] = 0 => Nets(this)[m] = 0
<1> DEFINE nets == Nets(this)
           absorbed == Absorbed(this)
           less == [m \in Table |-> this.share[m] + absorbed[m]]
<1> USE DebtAssumption
<1>1. /\ DOMAIN this.paid = Table
      /\ \A m \in Table : this.paid[m] \in Int /\ this.share[m] \in Int
  BY DEF IsABill
<1>2. /\ absorbed \in [Table -> Int]
      /\ Sum(absorbed, Table) = Sum(this.paid, Table) - Sum(this.share, Table)
      /\ \A m \in Table : this.paid[m] = 0 => absorbed[m] = 0
  BY Absorbs
<1>3. nets = [m \in Table |-> this.paid[m] - this.share[m] - absorbed[m]]
  BY <1>1 DEF Nets
<1> HIDE DEF nets, absorbed
<1>4. ASSUME NEW m \in Table
      PROVE  /\ nets[m] \in Int /\ absorbed[m] \in Int /\ less[m] \in Int
             /\ less[m] = this.share[m] + absorbed[m]
             /\ this.paid[m] = nets[m] + less[m]
  <2>1. this.paid[m] \in Int /\ this.share[m] \in Int /\ absorbed[m] \in Int
    BY <1>1, <1>2
  <2>2. /\ nets[m] = this.paid[m] - this.share[m] - absorbed[m]
        /\ less[m] = this.share[m] + absorbed[m]
    BY <1>3
  <2> QED
    BY <2>1, <2>2
<1>5. nets \in [Table -> Int]
  BY <1>3, <1>4
<1>6. \A m \in Table : this.paid[m] = 0 /\ this.share[m] = 0 => nets[m] = 0
  BY <1>2, <1>3
<1> HIDE DEF less
<1>7. Sum(less, Table) = Sum(this.share, Table) + Sum(absorbed, Table)
  BY <1>1, <1>4, SumPlus
<1>8. Sum(this.paid, Table) = Sum(nets, Table) + Sum(less, Table)
  BY <1>4, SumPlus
<1>9. /\ Sum(this.paid, Table) \in Int /\ Sum(this.share, Table) \in Int
      /\ Sum(nets, Table) \in Int /\ Sum(absorbed, Table) \in Int
  BY <1>1, <1>4, SumIsInt
<1>10. Sum(nets, Table) = 0
  BY <1>2, <1>7, <1>8, <1>9
<1> QED BY <1>5, <1>6, <1>10 DEF nets

\* Adding a bill keeps the sum, and leaves alone who it does not name.
LEMMA BillKeepsSum ==
    ASSUME NEW c \in [Table -> Int], Sum(c, Table) = 0, NEW den \in Nat \ {0},
           NEW this, IsABill(this)
    PROVE  /\ AddNets(c, den, this) \in [Table -> Int]
           /\ Sum(AddNets(c, den, this), Table) = 0
           /\ \A m \in Table : this.paid[m] = 0 /\ this.share[m] = 0
                              => AddNets(c, den, this)[m] = c[m]
<1> DEFINE nets == Nets(this)
           q == den \div this.den
           k == this.num * q
           more == [m \in Table |-> nets[m] * k]
           d == AddNets(c, den, this)
<1> USE DebtAssumption
<1>1. /\ nets \in [Table -> Int] /\ Sum(nets, Table) = 0
      /\ \A m \in Table : this.paid[m] = 0 /\ this.share[m] = 0 => nets[m] = 0
  BY NetsSumToZero
<1>2. this.num \in Int /\ this.den \in Nat \ {0}
  <2> HIDE DebtAssumption
  <2> QED BY DEF IsABill
<1>3. q \in Int
  <2> HIDE DebtAssumption
  <2>1. den \in Int
    OBVIOUS
  <2> QED BY <1>2, <2>1, DivMod
<1>4. k \in Int
  <2> HIDE DEF q
  <2> QED BY <1>2, <1>3
<1>5. d = [m \in Table |-> c[m] + nets[m] * this.num * q]
  BY DEF AddNets
<1>6. ASSUME NEW m \in Table
      PROVE  more[m] = nets[m] * k /\ more[m] \in Int /\ d[m] = c[m] + more[m]
  <2>1. more[m] = nets[m] * k /\ d[m] = c[m] + nets[m] * this.num * q
    BY <1>5
  <2>2. nets[m] \in Int
    BY <1>1
  <2> HIDE DEF nets, q, d, more
  <2>3. nets[m] * this.num * q = nets[m] * k /\ nets[m] * k \in Int
    <3>1. \A x, y, z \in Int : x * y * z = x * (y * z) /\ x * (y * z) \in Int
      OBVIOUS
    <3> QED BY <1>2, <1>3, <2>2, <3>1
  <2> HIDE DEF k
  <2> QED BY <2>1, <2>3
<1> HIDE DEF nets, q, k, more
<1>7. d \in [Table -> Int]
  <2>1. \A m \in Table : c[m] + nets[m] * this.num * q \in Int
    BY <1>5, <1>6
  <2> QED BY <1>5, <2>1
<1> HIDE DEF d
<1>8. Sum(more, Table) = Sum(nets, Table) * k
  <2>1. \A m \in Table : nets[m] \in Int /\ more[m] = nets[m] * k
    BY <1>1, <1>6
  <2> QED BY <1>4, <2>1, SumTimes
<1>9. Sum(d, Table) = Sum(c, Table) + Sum(more, Table)
  <2>1. \A m \in Table : c[m] \in Int /\ more[m] \in Int /\ d[m] = c[m] + more[m]
    BY <1>6
  <2> QED BY <2>1, SumPlus
<1>10. Sum(d, Table) = 0
  <2>1. 0 * k = 0
    BY <1>4
  <2> QED BY <1>1, <1>8, <1>9, <2>1
<1>11. ASSUME NEW m \in Table, this.paid[m] = 0, this.share[m] = 0 PROVE d[m] = c[m]
  <2>1. nets[m] = 0 /\ 0 * k = 0
    BY <1>1, <1>4, <1>11
  <2> QED BY <1>6, <2>1
<1> QED BY <1>7, <1>10, <1>11 DEF d

\* The common denominator of a tab is above zero.
LEMMA DenIsPositive == ASSUME NEW t \in Tabs PROVE CommonDen(t) \in Nat \ {0}
<1> DEFINE S == DOMAIN t
           V == Nat \ {0}
           F == [p \in S \X V |-> t[p[1]].den * p[2]]
           c == [s \in SUBSET S |-> Some(s)]
           Dens(it) == it = [s \in SUBSET S |->
                                IF s = {} THEN 1 ELSE t[Some(s)].den * it[s \ {Some(s)}]]
<1>1. IsFiniteSet(S) /\ \A b \in S : t[b].den \in V
  BY DebtAssumption DEF IsABill
<1>2. CommonDen(t) = (CHOOSE it : Dens(it))[S]
  BY DEF CommonDen, FoldFunction, FoldFunctionOnSet, MapThenFoldSet, Some
<1>3. F \in [S \X V -> V] /\ \A s \in SUBSET S : s # {} => c[s] \in s
  <2>1. \A p \in S \X V : t[p[1]].den * p[2] \in V
    <3>1. \A x, y \in Nat \ {0} : x * y \in Nat \ {0}
      OBVIOUS
    <3> QED BY <1>1, <3>1
  <2> HIDE DEF S, V
  <2> QED BY <2>1, SomeIsIn
<1>4. PICK it \in [SUBSET S -> V] : Folds(it, SUBSET S, 1, F, c)
  <2>1. 1 \in V
    OBVIOUS
  <2> HIDE DEF S, V, F, c
  <2> QED BY <1>1, <1>3, <2>1, FoldExists
<1>5. Dens(it)
  <2>1. ASSUME NEW s \in SUBSET S
        PROVE  it[s] = IF s = {} THEN 1 ELSE t[Some(s)].den * it[s \ {Some(s)}]
    <3>1. it[s] = IF s = {} THEN 1 ELSE F[<<c[s], it[s \ {c[s]}]>>]
      BY <1>4 DEF Folds
    <3>2. CASE s # {}
      <4>1. Some(s) \in S /\ s \ {Some(s)} \in SUBSET S /\ c[s] = Some(s)
        BY <3>2, SomeIsIn
      <4> DEFINE p == <<Some(s), it[s \ {Some(s)}]>>
      <4>2. p \in S \X V /\ p[1] = Some(s) /\ p[2] = it[s \ {Some(s)}]
        BY <4>1
      <4>3. F[p] = t[p[1]].den * p[2]
        BY <4>2
      <4> HIDE DEF F, c, S, V
      <4> QED BY <3>1, <3>2, <4>1, <4>2, <4>3
    <3> QED BY <3>1, <3>2
  <2> HIDE DEF S, V, F, c
  <2> QED BY <2>1
<1> DEFINE jt == CHOOSE i : Dens(i)
<1>6. Dens(jt)
  BY <1>5
<1>7. SUBSET S \subseteq {s \in SUBSET S : jt[s] \in V}
  <2> DEFINE N == {n \in Nat : \A s \in SUBSET S : Cardinality(s) = n => jt[s] \in V}
  <2>1. \A s \in SUBSET S : IsFiniteSet(s) /\ Cardinality(s) \in Nat
    BY <1>1, FS_Subset, FS_CardinalityType
  <2>2. \A s \in SUBSET S : jt[s] = IF s = {} THEN 1 ELSE t[Some(s)].den * jt[s \ {Some(s)}]
    <3> HIDE DEF jt, S
    <3> QED BY <1>6
  <2> HIDE DEF jt, S
  <2>3. 0 \in N
    <3>1. ASSUME NEW s \in SUBSET S, Cardinality(s) = 0 PROVE jt[s] \in V
      <4>1. s = {}
        BY <2>1, <3>1, FS_EmptySet
      <4>2. jt[s] = 1
        BY <2>2, <4>1
      <4> QED BY <4>2
    <3> QED BY <3>1
  <2>4. ASSUME NEW n \in Nat, n \in N PROVE n + 1 \in N
    <3> SUFFICES ASSUME NEW s \in SUBSET S, Cardinality(s) = n + 1 PROVE jt[s] \in V
      OBVIOUS
    <3>1. /\ s # {} /\ Some(s) \in s /\ s \ {Some(s)} \in SUBSET S
          /\ Cardinality(s \ {Some(s)}) = n
      BY <2>1, OneLess, FS_EmptySet
    <3>2. jt[s \ {Some(s)}] \in V /\ t[Some(s)].den \in V
      BY <1>1, <2>4, <3>1
    <3>3. \A x, y \in Nat \ {0} : x * y \in Nat \ {0}
      OBVIOUS
    <3>4. t[Some(s)].den * jt[s \ {Some(s)}] \in V
      BY <3>2, <3>3
    <3>5. jt[s] = t[Some(s)].den * jt[s \ {Some(s)}]
      BY <2>2, <3>1
    <3> HIDE DEF V
    <3> QED BY <3>4, <3>5
  <2> HIDE DEF N
  <2>5. Nat \subseteq N
    BY <2>3, <2>4, SetInduction
  <2> QED BY <2>1, <2>5 DEF N
<1>8. CommonDen(t) = jt[S]
  BY <1>2
<1> HIDE DEF jt
<1> QED BY <1>7, <1>8

LEMMA TableIs == IsFiniteSet(Table) /\ \A m \in Table : m \in Nat
BY DebtAssumption

\* Rounding a column that sums to nothing gives out nothing.
LEMMA RoundsToZero ==
    ASSUME NEW c \in [Table -> Int], Sum(c, Table) = 0, NEW den \in Nat \ {0}
    PROVE  /\ Rounded(c, den) \in [Table -> Int] /\ Sum(Rounded(c, den), Table) = 0
           /\ \A m \in Table : Near(Rounded(c, den), c, den, m)
<1> DEFINE r == [m \in Table |-> c[m] % den]
           First(k, m) ==
               \/ c[k] % den > c[m] % den
               \/ c[k] % den = c[m] % den /\ k < m
           ahead == [m \in Table |-> {k \in Table : First(k, m)}]
<1> USE TableIs
<1>1. \A m \in Table : m \in Nat /\ r[m] \in Int /\ r[m] = c[m] % den
  <2>1. \A m \in Table : c[m] % den \in Int
    BY DivMod
  <2> QED BY <2>1
<1>2. \A m, k \in Table : k \in ahead[m] <=> (r[k] > r[m] \/ (r[k] = r[m] /\ k < m))
  <2>1. ASSUME NEW m \in Table, NEW k \in Table PROVE k \in ahead[m] <=> First(k, m)
    OBVIOUS
  <2>2. ASSUME NEW m \in Table, NEW k \in Table
        PROVE  First(k, m) <=> (r[k] > r[m] \/ (r[k] = r[m] /\ k < m))
    BY <1>1
  <2> HIDE DEF ahead, First, r
  <2> QED BY <2>1, <2>2
<1>3. ahead \in [Table -> SUBSET Table]
  OBVIOUS
<1>4. Order(Table, c, den, ahead)
  <2> HIDE DEF r, ahead, First
  <2>1. \A m \in Table : m \notin ahead[m]
    BY <1>1, <1>2
  <2>2. \A j, k, m \in Table : j \in ahead[k] /\ k \in ahead[m] => j \in ahead[m]
    BY <1>1, <1>2
  <2>3. \A k, m \in Table : k # m => k \in ahead[m] \/ m \in ahead[k]
    BY <1>1, <1>2
  <2>4. \A k, m \in Table : c[k] % den > c[m] % den => k \in ahead[m]
    BY <1>1, <1>2
  <2> QED BY <1>3, <2>1, <2>2, <2>3, <2>4 DEF Order
<1>5. Rounded(c, den) = HandOut(c, den, 0, ahead)
  <2>1. DOMAIN c = Table
    OBVIOUS
  <2> QED BY <2>1 DEF Rounded
<1> HIDE DEF ahead
<1> DEFINE nil == 0
           give == HandOut(c, den, nil, ahead)
<1>6. nil \in Int /\ Sum(c, Table) = nil * den
  OBVIOUS
<1> HIDE DEF nil
<1>7. /\ IsFiniteSet(Table) /\ c \in [Table -> Int] /\ den \in Nat \ {0} /\ nil \in Int
      /\ Sum(c, Table) = nil * den /\ Order(Table, c, den, ahead)
      => /\ give \in [Table -> Int] /\ Sum(give, Table) = nil
         /\ \A m \in Table : Near(give, c, den, m)
  BY HandsOut
<1> HIDE DEF give
<1>8. /\ give \in [Table -> Int] /\ Sum(give, Table) = nil
      /\ \A m \in Table : Near(give, c, den, m)
  BY <1>4, <1>6, <1>7
<1> QED BY <1>5, <1>8 DEF give, nil

\* Somebody has the biggest amount, the earliest of them.
LEMMA LargestIsThere ==
    ASSUME NEW a, DOMAIN a = Table, \A m \in Table : a[m] \in Int, Table # {}
    PROVE  /\ Largest(a) \in Table
           /\ \A k \in Table : a[k] <= a[Largest(a)]
<1> DEFINE Best(T, m) == \A k \in T : a[k] < a[m] \/ (a[k] = a[m] /\ m <= k)
           P == {T \in SUBSET Table : T # {} => \E m \in T : Best(T, m)}
<1> USE TableIs
<1>1. {} \in P
  OBVIOUS
<1>2. ASSUME NEW T \in SUBSET Table, NEW x \in Table \ T, T \in P PROVE T \cup {x} \in P
  <2>0. T \cup {x} \in SUBSET Table /\ \A m \in Table : m \in Nat /\ a[m] \in Int
    OBVIOUS
  <2>1. CASE T = {}
    <3>1. Best(T \cup {x}, x)
      BY <2>0, <2>1
    <3> HIDE DEF Best
    <3> QED BY <2>0, <3>1
  <2>2. CASE T # {}
    <3>1. PICK m \in T : Best(T, m)
      BY <1>2, <2>2
    <3>2. m \in Table
      OBVIOUS
    <3>3. CASE a[x] < a[m] \/ (a[x] = a[m] /\ m <= x)
      <4>1. Best(T \cup {x}, m)
        BY <3>1, <3>3
      <4> HIDE DEF Best
      <4> QED BY <2>0, <4>1
    <3>4. CASE ~(a[x] < a[m] \/ (a[x] = a[m] /\ m <= x))
      <4>1. a[m] < a[x] \/ (a[m] = a[x] /\ x <= m)
        BY <2>0, <3>2, <3>4
      <4>2. \A k \in T \cup {x} : a[k] < a[x] \/ (a[k] = a[x] /\ x <= k)
        BY <2>0, <3>1, <3>2, <4>1
      <4>3. Best(T \cup {x}, x)
        BY <4>2
      <4> HIDE DEF Best
      <4> QED BY <2>0, <4>3
    <3> QED BY <3>3, <3>4
  <2> QED BY <2>1, <2>2
<1> HIDE DEF P
<1>3. SUBSET Table \subseteq P
  <2>1. IsFiniteSet(Table)
    OBVIOUS
  <2>2. \A T \in SUBSET Table : \A x \in Table \ T : T \in P => T \cup {x} \in P
    BY <1>2
  <2> HIDE TableIs
  <2> QED BY <1>1, <2>1, <2>2, SubsetInduction
<1>4. \E m \in Table : Best(Table, m)
  BY <1>3 DEF P
<1>5. Largest(a) = CHOOSE m \in Table : Best(Table, m)
  BY DEF Largest
<1>6. Largest(a) \in Table /\ Best(Table, Largest(a))
  BY <1>4, <1>5, Zenon
<1> QED BY <1>6

-----------------------------------------------------------------------------
NotLevel(b) == {m \in Table : b[m] # 0}

\* A line of the Debt graph: somebody who owes pays somebody who is owed, and
\* one of them is level after it.
LEMMA LineLevels ==
    ASSUME NEW b \in [Table -> Int], Sum(b, Table) = 0, NotLevel(b) # {}
    PROVE  LET t == Transfer(b)
               a == AfterTransfer(b, t)
           IN /\ t.to \in NotLevel(b) /\ t.from \in NotLevel(b) /\ t.to # t.from
              /\ a \in [Table -> Int] /\ Sum(a, Table) = 0
              /\ NotLevel(a) \subseteq NotLevel(b) \ {t.to} \/ NotLevel(a) \subseteq NotLevel(b) \ {t.from}
<1> DEFINE neg == [m \in Table |-> -b[m]]
           to == Largest(b)
           from == Largest(neg)
           minor == IF b[to] <= -b[from] THEN b[to] ELSE -b[from]
           t == Transfer(b)
           a == AfterTransfer(b, t)
           Rest == (Table \ {from}) \ {to}
<1> USE TableIs
<1>1. Table # {} /\ \A m \in Table : b[m] \in Int /\ neg[m] \in Int /\ neg[m] = -b[m]
  BY DEF NotLevel
<1>2. t = [from |-> from, to |-> to, minor |-> minor]
  BY DEF Transfer
<1>3. to \in Table /\ \A k \in Table : b[k] <= b[to]
  <2> HIDE DEF neg
  <2> QED BY <1>1, LargestIsThere
<1>4. from \in Table /\ \A k \in Table : neg[k] <= neg[from]
  <2>1. DOMAIN neg = Table
    OBVIOUS
  <2> HIDE DEF neg
  <2> QED BY <1>1, <2>1, LargestIsThere
<1> HIDE DEF to, from, neg
<1>5. b[to] > 0
  <2>1. SUFFICES ASSUME b[to] <= 0 PROVE FALSE
    BY <1>1, <1>3
  <2>2. \A m \in Table : b[m] \in Int /\ b[m] <= 0
    BY <1>1, <1>3, <2>1
  <2>3. \A m \in Table : 0 <= b[m]
    BY <2>2, SumSign
  <2>4. \A m \in Table : b[m] = 0
    BY <2>2, <2>3
  <2> QED BY <2>4 DEF NotLevel
<1>6. b[from] < 0
  <2>1. SUFFICES ASSUME neg[from] <= 0 PROVE FALSE
    BY <1>1, <1>4
  <2>2. \A m \in Table : neg[m] \in Int /\ neg[m] <= 0
    BY <1>1, <1>4, <2>1
  <2> DEFINE minus == -1
  <2>3. minus \in Int /\ \A m \in Table : b[m] \in Int /\ neg[m] = b[m] * minus
    BY <1>1
  <2>4. Sum(neg, Table) = 0
    <3>1. 0 * minus = 0
      OBVIOUS
    <3> HIDE DEF minus
    <3>2. Sum(neg, Table) = Sum(b, Table) * minus
      BY <2>3, SumTimes
    <3> QED BY <3>1, <3>2
  <2>5. \A m \in Table : 0 <= neg[m]
    BY <2>2, <2>4, SumSign
  <2>6. \A m \in Table : b[m] = 0
    BY <1>1, <2>2, <2>5
  <2> QED BY <2>6 DEF NotLevel
<1>7. to # from /\ minor \in Int /\ t.to = to /\ t.from = from /\ t.minor = minor
  BY <1>1, <1>2, <1>3, <1>4, <1>5, <1>6
<1>8. /\ DOMAIN a = Table /\ a[from] = b[from] + minor /\ a[to] = b[to] - minor
      /\ \A m \in Table : m # from /\ m # to => a[m] = b[m]
  <2>1. a = [b EXCEPT ![from] = @ + minor, ![to] = @ - minor]
    BY <1>7 DEF AfterTransfer
  <2> HIDE DEF a, t, minor
  <2> QED BY <1>3, <1>4, <1>7, <2>1
<1>9. a \in [Table -> Int]
  <2>1. a = [m \in Table |-> a[m]]
    BY DEF AfterTransfer
  <2>2. \A m \in Table : a[m] \in Int
    <3> HIDE DEF a, t, minor
    <3>1. ASSUME NEW m \in Table PROVE a[m] \in Int
      <4>1. CASE m = from
        BY <1>1, <1>7, <1>8, <4>1
      <4>2. CASE m = to
        BY <1>1, <1>7, <1>8, <4>2
      <4>3. CASE m # from /\ m # to
        BY <1>1, <1>8, <4>3
      <4> QED BY <4>1, <4>2, <4>3
    <3> QED BY <3>1
  <2> HIDE DEF a
  <2> QED BY <2>1, <2>2
<1>10. Sum(a, Table) = 0
  <2> HIDE DEF a, t
  <2>1. /\ \A m \in Table : a[m] \in Int
        /\ IsFiniteSet(Table \ {from}) /\ IsFiniteSet(Rest) /\ to \in Table \ {from}
    BY <1>3, <1>4, <1>7, <1>9, FS_RemoveElement
  <2>2. Sum(a, Table) = a[from] + Sum(a, Table \ {from})
    BY <1>4, <2>1, SumRemove
  <2>3. Sum(a, Table \ {from}) = a[to] + Sum(a, Rest)
    <3>1. \A m \in Table \ {from} : a[m] \in Int
      BY <2>1
    <3> QED BY <2>1, <3>1, SumRemove
  <2>4. Sum(b, Table) = b[from] + Sum(b, Table \ {from})
    BY <1>1, <1>4, SumRemove
  <2>5. Sum(b, Table \ {from}) = b[to] + Sum(b, Rest)
    <3>1. \A m \in Table \ {from} : b[m] \in Int
      BY <1>1
    <3> QED BY <2>1, <3>1, SumRemove
  <2>6. Sum(a, Rest) = Sum(b, Rest) /\ Sum(b, Rest) \in Int
    <3>1. \A m \in Rest : b[m] \in Int /\ a[m] = b[m]
      BY <1>1, <1>8
    <3> HIDE DEF Rest
    <3> QED BY <2>1, <3>1, SumSame, SumIsInt
  <2> HIDE DEF Rest, minor
  <2>7. b[from] \in Int /\ b[to] \in Int
    BY <1>1, <1>3, <1>4
  <2> QED BY <1>7, <1>8, <2>2, <2>3, <2>4, <2>5, <2>6, <2>7
<1>11. to \in NotLevel(b) /\ from \in NotLevel(b)
  BY <1>3, <1>4, <1>5, <1>6 DEF NotLevel
<1>12. \/ NotLevel(a) \subseteq NotLevel(b) \ {to}
       \/ NotLevel(a) \subseteq NotLevel(b) \ {from}
  <2>1. a[to] = 0 \/ a[from] = 0
    <3> HIDE DEF a, t
    <3>1. b[from] \in Int /\ b[to] \in Int
      BY <1>1, <1>3, <1>4
    <3> QED BY <1>8, <3>1
  <2> HIDE DEF a, t, minor
  <2>2. \A m \in Table : a[m] # 0 => b[m] # 0
    BY <1>5, <1>6, <1>8
  <2> QED BY <2>1, <2>2 DEF NotLevel
<1> HIDE DEF a
<1> QED BY <1>7, <1>9, <1>10, <1>11, <1>12 DEF a

-----------------------------------------------------------------------------
\* What each bill of a tab moves m's balance by, in units of one over its
\* common denominator.
Dues(t, m) ==
    [b \in DOMAIN t |-> Nets(t[b])[m] * t[b].num * (CommonDen(t) \div t[b].den)]

\* Adding a bill moves each balance by what is due for it.
LEMMA BillAdds ==
    ASSUME NEW t \in Tabs, NEW b \in DOMAIN t, NEW c \in [Table -> Int]
    PROVE  /\ AddNets(c, CommonDen(t), t[b]) \in [Table -> Int]
           /\ \A m \in Table : /\ Dues(t, m)[b] \in Int
                               /\ AddNets(c, CommonDen(t), t[b])[m] = c[m] + Dues(t, m)[b]
<1> DEFINE this == t[b]
           nets == Nets(this)
           q == CommonDen(t) \div this.den
<1>1. IsABill(this)
  BY DebtAssumption
<1>2. nets \in [Table -> Int]
  BY <1>1, NetsSumToZero
<1>3. this.num \in Int /\ this.den \in Nat \ {0}
  BY <1>1 DEF IsABill
<1>4. q \in Int
  <2>1. CommonDen(t) \in Int
    BY DenIsPositive
  <2> QED BY <1>3, <2>1, DivMod
<1>5. AddNets(c, CommonDen(t), this) = [m \in Table |-> c[m] + nets[m] * this.num * q]
  BY DEF AddNets
<1>6. \A m \in Table : Dues(t, m)[b] = nets[m] * this.num * q
  BY DEF Dues
<1> HIDE DEF this, nets, q
<1>7. \A m \in Table : nets[m] * this.num * q \in Int
  <2>1. \A x, y, z \in Int : x * y * z \in Int
    OBVIOUS
  <2>2. \A m \in Table : nets[m] \in Int
    BY <1>2
  <2> QED BY <1>3, <1>4, <2>1, <2>2
<1>8. \A m \in Table : c[m] + nets[m] * this.num * q \in Int
  BY <1>7
<1>9. AddNets(c, CommonDen(t), this) \in [Table -> Int]
  BY <1>5, <1>8
<1>10. \A m \in Table : AddNets(c, CommonDen(t), this)[m] = c[m] + Dues(t, m)[b]
  BY <1>5, <1>6
<1> QED BY <1>6, <1>7, <1>9, <1>10 DEF this

\* The column Balances rounds, of all the bills at once.
WholeColumn(t) ==
    FoldFunction(LAMBDA b, c : AddNets(c, CommonDen(t), b), [m \in Table |-> 0], t)

LEMMA BalancesRounds == \A t : Balances(Table, t) = Rounded(WholeColumn(t), CommonDen(t))
BY DEF Balances, WholeColumn

\* The fold takes the bills in an order it chooses: each balance is the sum of what
\* is due for them.
LEMMA WholeColumnIs ==
    ASSUME NEW t \in Tabs
    PROVE  /\ WholeColumn(t) \in [Table -> Int]
           /\ \A m \in Table : WholeColumn(t)[m] = Sum(Dues(t, m), DOMAIN t)
<1> DEFINE S == DOMAIN t
           V == [Table -> Int]
           den == CommonDen(t)
           zero == [m \in Table |-> 0]
           F == [p \in S \X V |-> AddNets(p[2], den, t[p[1]])]
           c == [s \in SUBSET S |-> Some(s)]
           Columns(it) == it = [s \in SUBSET S |->
                                   IF s = {} THEN zero
                                   ELSE AddNets(it[s \ {Some(s)}], den, t[Some(s)])]
<1>1. IsFiniteSet(S) /\ zero \in V
  BY DebtAssumption
<1>2. WholeColumn(t) = (CHOOSE it : Columns(it))[S]
  BY DEF WholeColumn, FoldFunction, FoldFunctionOnSet, MapThenFoldSet, Some
<1>3. \A b \in S, v \in V : AddNets(v, den, t[b]) \in V
  BY BillAdds
<1> HIDE DEF zero, den
<1>4. F \in [S \X V -> V] /\ \A s \in SUBSET S : s # {} => c[s] \in s
  <2>1. \A p \in S \X V : AddNets(p[2], den, t[p[1]]) \in V
    <3> HIDE DEF S, V
    <3> QED BY <1>3
  <2> HIDE DEF S, V
  <2> QED BY <2>1, SomeIsIn
<1>5. PICK it \in [SUBSET S -> V] : Folds(it, SUBSET S, zero, F, c)
  <2> HIDE DEF S, V, F, c
  <2> QED BY <1>1, <1>4, FoldExists
<1>6. Columns(it)
  <2>1. ASSUME NEW s \in SUBSET S
        PROVE  it[s] = IF s = {} THEN zero ELSE AddNets(it[s \ {Some(s)}], den, t[Some(s)])
    <3>1. it[s] = IF s = {} THEN zero ELSE F[<<c[s], it[s \ {c[s]}]>>]
      BY <1>5 DEF Folds
    <3>2. CASE s # {}
      <4>1. Some(s) \in S /\ s \ {Some(s)} \in SUBSET S /\ c[s] = Some(s)
        BY <3>2, SomeIsIn
      <4> DEFINE p == <<Some(s), it[s \ {Some(s)}]>>
      <4>2. p \in S \X V /\ p[1] = Some(s) /\ p[2] = it[s \ {Some(s)}]
        <5> HIDE DEF S, V
        <5> QED BY <1>5, <4>1
      <4>3. F[p] = AddNets(p[2], den, t[p[1]])
        BY <4>2
      <4> HIDE DEF F, c, S, V
      <4> QED BY <3>1, <3>2, <4>1, <4>2, <4>3
    <3> QED BY <3>1, <3>2
  <2> HIDE DEF S, V, F, c
  <2> QED BY <1>5, <2>1
<1> DEFINE jt == CHOOSE i : Columns(i)
<1>7. Columns(jt)
  BY <1>6
<1>8. WholeColumn(t) = jt[S]
  BY <1>2
<1>9. ASSUME NEW s \in SUBSET S
      PROVE  /\ IsFiniteSet(s) /\ Cardinality(s) \in Nat
             /\ jt[s] = IF s = {} THEN zero ELSE AddNets(jt[s \ {Some(s)}], den, t[Some(s)])
  <2>1. IsFiniteSet(s) /\ Cardinality(s) \in Nat
    BY <1>1, FS_Subset, FS_CardinalityType
  <2> HIDE DEF jt, S
  <2> QED BY <1>7, <2>1
<1> HIDE DEF jt, F, c
<1> DEFINE AddsUp(s) == jt[s] \in V /\ \A m \in Table : jt[s][m] = Sum(Dues(t, m), s)
           N == {n \in Nat : \A s \in SUBSET S : Cardinality(s) = n => AddsUp(s)}
<1>10. 0 \in N
  <2>1. ASSUME NEW s \in SUBSET S, Cardinality(s) = 0 PROVE AddsUp(s)
    <3>1. s = {}
      BY <1>9, <2>1, FS_EmptySet
    <3>2. jt[s] = zero
      BY <1>9, <3>1
    <3> QED BY <1>1, <3>1, <3>2, SumEmpty DEF zero
  <2> QED BY <2>1
<1>11. ASSUME NEW n \in Nat, n \in N PROVE n + 1 \in N
  <2>1. ASSUME NEW s \in SUBSET S, Cardinality(s) = n + 1 PROVE AddsUp(s)
    <3> DEFINE x == Some(s)
               r == s \ {x}
    <3>1. /\ s # {} /\ x \in s /\ x \in S /\ r \in SUBSET S
          /\ Cardinality(r) = n
      <4>1. IsFiniteSet(s) /\ Cardinality(s) = n + 1 /\ Cardinality(s) # 0
        <5>1. IsFiniteSet(s)
          BY <1>9
        <5>2. n + 1 # 0
          BY <1>11
        <5> QED BY <2>1, <5>1, <5>2
      <4>2. s # {}
        BY <4>1, FS_EmptySet
      <4>3. x \in s /\ Cardinality(s \ {x}) = Cardinality(s) - 1
        BY <4>1, OneLess
      <4> QED BY <4>1, <4>2, <4>3
    <3>2. AddsUp(r)
      BY <1>11, <3>1
    <3>3. jt[s] = AddNets(jt[r], den, t[x])
      BY <1>9, <3>1
    <3> HIDE DEF r, x
    <3>4. /\ AddNets(jt[r], den, t[x]) \in V
          /\ \A m \in Table : /\ Dues(t, m)[x] \in Int
                              /\ AddNets(jt[r], den, t[x])[m] = jt[r][m] + Dues(t, m)[x]
      BY <3>1, <3>2, BillAdds DEF den
    <3>5. ASSUME NEW m \in Table PROVE Sum(Dues(t, m), s) = Dues(t, m)[x] + Sum(Dues(t, m), r)
      <4>1. \A b \in s : Dues(t, m)[b] \in Int
        <5> PICK v : v \in V
          BY <1>1
        <5> QED BY BillAdds
      <4> QED BY <1>9, <3>1, <4>1, SumChosen DEF r, x
    <3>6. ASSUME NEW m \in Table PROVE jt[s][m] = Sum(Dues(t, m), s)
      <4>1. jt[r][m] \in Int /\ jt[r][m] = Sum(Dues(t, m), r) /\ Dues(t, m)[x] \in Int
        BY <3>2, <3>4
      <4> QED BY <3>3, <3>4, <3>5, <4>1
    <3> QED BY <3>3, <3>4, <3>6
  <2> QED BY <2>1
<1>12. AddsUp(S)
  <2> HIDE DEF AddsUp
  <2>1. S \in SUBSET S /\ Cardinality(S) \in Nat
    BY <1>9
  <2> HIDE DEF N
  <2>2. Nat \subseteq N
    BY <1>10, <1>11, SetInduction
  <2> QED BY <2>1, <2>2 DEF N
<1> QED BY <1>8, <1>12

-----------------------------------------------------------------------------
\* What holds of the column, of the balances and of the lines, at every step.
DebtInv ==
    /\ DebtTypeOK /\ tab \in Tabs
    /\ Sum(column, Table) = 0
    /\ \A m \in Table :
           (\A b \in DOMAIN tab : tab[b].paid[m] = 0 /\ tab[b].share[m] = 0) => column[m] = 0
    /\ ~rounded => lines = 0 /\ NotLevel(due) = {}
    /\ rounded => unread = {}
    /\ Sum(due, Table) = 0
    /\ rounded /\ lines = 0 => due = Rounded(column, CommonDen(tab))
    /\ Cardinality(NotLevel(due)) + lines <= Cardinality(Table)

LEMMA CountsLevel ==
    \A d : /\ IsFiniteSet(NotLevel(d)) /\ Cardinality(NotLevel(d)) \in Nat
           /\ Cardinality(NotLevel(d)) <= Cardinality(Table) /\ Cardinality(Table) \in Nat
BY TableIs, FS_Subset, FS_CardinalityType DEF NotLevel

LEMMA AllZero ==
    ASSUME NEW z, \A m \in Table : z[m] = 0
    PROVE  Sum(z, Table) = 0 /\ NotLevel(z) = {}
<1>1. {} \in SUBSET Table /\ \A m \in Table : z[m] \in Int /\ (m \notin {} => z[m] = 0)
  OBVIOUS
<1>2. Sum(z, Table) = Sum(z, {})
  BY <1>1, TableIs, SumPart
<1> QED BY <1>2, SumEmpty DEF NotLevel

LEMMA InitDebt == DebtInit => DebtInv
<1> SUFFICES ASSUME DebtInit PROVE DebtInv
  OBVIOUS
<1> USE DEF DebtInit
<1>1. DebtTypeOK
  <2>1. column \in [Table -> Int] /\ due \in [Table -> Int]
    OBVIOUS
  <2>2. rounded \in BOOLEAN /\ lines \in Nat /\ unread \subseteq DOMAIN tab
    OBVIOUS
  <2> QED BY <2>1, <2>2 DEF DebtTypeOK
<1>2. /\ Sum(column, Table) = 0 /\ NotLevel(column) = {}
      /\ Sum(due, Table) = 0 /\ NotLevel(due) = {}
  BY AllZero
<1>3. Cardinality(NotLevel(due)) + lines <= Cardinality(Table)
  BY <1>2, CountsLevel, FS_EmptySet
<1> QED BY <1>1, <1>2, <1>3 DEF DebtInv

LEMMA NextDebt == DebtInv /\ [DebtNext]_debtVars => DebtInv'
<1> SUFFICES ASSUME DebtInv, [DebtNext]_debtVars PROVE DebtInv'
  OBVIOUS
<1>1. /\ column \in [Table -> Int] /\ due \in [Table -> Int] /\ rounded \in BOOLEAN
      /\ lines \in Nat /\ unread \subseteq DOMAIN tab /\ tab \in Tabs
      /\ Sum(column, Table) = 0 /\ Sum(due, Table) = 0
  BY DEF DebtInv, DebtTypeOK
<1>2. CommonDen(tab) \in Nat \ {0}
  BY <1>1, DenIsPositive
<1>3. ASSUME NEW b \in DOMAIN tab, ReadBill(b) PROVE DebtInv'
  <2>1. IsABill(tab[b])
    BY <1>1, DebtAssumption
  <2> DEFINE c == AddNets(column, CommonDen(tab), tab[b])
  <2>2. /\ c \in [Table -> Int] /\ Sum(c, Table) = 0
        /\ \A m \in Table : tab[b].paid[m] = 0 /\ tab[b].share[m] = 0 => c[m] = column[m]
    BY <1>1, <1>2, <2>1, BillKeepsSum
  <2>3. column' = c /\ UNCHANGED <<tab, rounded, due, lines>> /\ unread' \subseteq unread
        /\ unread # {}
    BY <1>3 DEF ReadBill
  <2> HIDE DEF c
  <2>4. DebtTypeOK'
    BY <1>1, <2>2, <2>3 DEF DebtTypeOK
  <2>5. Sum(column, Table)' = 0
    BY <2>2, <2>3
  <2>6. (\A m \in Table : (\A k \in DOMAIN tab : tab[k].paid[m] = 0 /\ tab[k].share[m] = 0)
                          => column[m] = 0)'
    BY <2>2, <2>3 DEF DebtInv
  <2>7. ~rounded
    BY <1>3 DEF ReadBill, DebtInv
  <2> QED BY <2>3, <2>4, <2>5, <2>6, <2>7 DEF DebtInv
<1>4. CASE RoundColumn
  <2> DEFINE r == Rounded(column, CommonDen(tab))
  <2>1. r \in [Table -> Int] /\ Sum(r, Table) = 0
    BY <1>1, <1>2, RoundsToZero
  <2>2. /\ due' = r /\ rounded' = TRUE /\ UNCHANGED <<tab, unread, column, lines>>
        /\ lines = 0 /\ unread = {}
    BY <1>4 DEF RoundColumn, DebtInv
  <2>3. DebtTypeOK'
    BY <1>1, <2>1, <2>2 DEF DebtTypeOK
  <2>4. (due = Rounded(column, CommonDen(tab)))'
    BY <2>2
  <2> HIDE DEF r
  <2>5. Cardinality(NotLevel(r)) + 0 <= Cardinality(Table)
    BY CountsLevel
  <2>6. Sum(due, Table)' = 0 /\ (Cardinality(NotLevel(due)) + lines)' <= Cardinality(Table)
    BY <2>1, <2>2, <2>5
  <2> QED BY <2>2, <2>3, <2>4, <2>6 DEF DebtInv
<1>5. CASE WriteLine
  <2> DEFINE t == Transfer(due)
             a == AfterTransfer(due, t)
  <2>1. NotLevel(due) # {}
    BY <1>1, <1>5 DEF WriteLine, Settled, NotLevel
  <2>2. /\ t.to \in NotLevel(due) /\ t.from \in NotLevel(due)
        /\ a \in [Table -> Int] /\ Sum(a, Table) = 0
        /\ \/ NotLevel(a) \subseteq NotLevel(due) \ {t.to}
           \/ NotLevel(a) \subseteq NotLevel(due) \ {t.from}
    BY <1>1, <2>1, LineLevels
  <2>3. due' = a /\ lines' = lines + 1 /\ UNCHANGED <<tab, unread, column, rounded>> /\ rounded
    BY <1>5 DEF WriteLine
  <2> HIDE DEF a, t
  <2>4. DebtTypeOK'
    BY <1>1, <2>2, <2>3 DEF DebtTypeOK
  <2>5. Cardinality(NotLevel(a)) <= Cardinality(NotLevel(due)) - 1
    <3>1. ASSUME NEW x \in NotLevel(due), NotLevel(a) \subseteq NotLevel(due) \ {x}
          PROVE  Cardinality(NotLevel(a)) <= Cardinality(NotLevel(due)) - 1
      <4>1. /\ IsFiniteSet(NotLevel(due) \ {x})
            /\ Cardinality(NotLevel(due) \ {x}) = Cardinality(NotLevel(due)) - 1
        BY CountsLevel, OneLess
      <4> QED BY <3>1, <4>1, FS_Subset
    <3> QED BY <2>2, <3>1
  <2>6. Cardinality(NotLevel(a)) + (lines + 1) <= Cardinality(Table)
    <3>1. Cardinality(NotLevel(due)) + lines <= Cardinality(Table)
      BY DEF DebtInv
    <3> QED BY <1>1, <2>5, <3>1, CountsLevel
  <2>7. Sum(due, Table)' = 0 /\ (Cardinality(NotLevel(due)) + lines)' <= Cardinality(Table)
    BY <2>2, <2>3, <2>6
  <2>8. lines' # 0
    BY <1>1, <2>3
  <2> QED BY <2>3, <2>4, <2>7, <2>8 DEF DebtInv
<1>6. CASE UNCHANGED debtVars
  BY <1>6 DEF DebtInv, DebtTypeOK, debtVars
<1> QED BY <1>3, <1>4, <1>5, <1>6 DEF DebtNext

\* However the ledger is read, entry by entry, rounded and settled, each step keeps
\* the column at zero in sum and pays for each line by somebody who is level
\* (domain/ledger: Balances, Round, Settle).
THEOREM DebtsHold == DebtSpec => []DebtInv
BY InitDebt, NextDebt, PTL DEF DebtSpec

\* What is read so far is what is due for it.
ReadSoFar == \A m \in Table : column[m] = Sum(Dues(tab, m), DOMAIN tab \ unread)

LEMMA DuesAreWhole ==
    ASSUME NEW t \in Tabs
    PROVE  IsFiniteSet(DOMAIN t) /\ \A m \in Table : \A b \in DOMAIN t : Dues(t, m)[b] \in Int
<1>1. [m \in Table |-> 0] \in [Table -> Int]
  OBVIOUS
<1> QED BY <1>1, BillAdds, DebtAssumption

LEMMA ReadSoFarStep == DebtInv /\ ReadSoFar /\ [DebtNext]_debtVars => ReadSoFar'
<1> SUFFICES ASSUME DebtInv, ReadSoFar, [DebtNext]_debtVars PROVE ReadSoFar'
  OBVIOUS
<1>1. tab \in Tabs /\ column \in [Table -> Int] /\ unread \subseteq DOMAIN tab
  BY DEF DebtInv, DebtTypeOK
<1>2. ASSUME NEW b \in DOMAIN tab, ReadBill(b) PROVE ReadSoFar'
  <2> DEFINE read == DOMAIN tab \ unread
  <2>1. /\ tab' = tab /\ column' = AddNets(column, CommonDen(tab), tab[b])
        /\ b \in unread /\ unread' = unread \ {b}
    BY <1>2 DEF ReadBill
  <2>2. read \in SUBSET DOMAIN tab /\ b \in DOMAIN tab \ read
        /\ DOMAIN tab \ (unread \ {b}) = read \cup {b}
    BY <2>1
  <2> HIDE DEF read
  <2>3. ASSUME NEW m \in Table
        PROVE  column'[m] = Sum(Dues(tab, m), read \cup {b})
    <3>1. Sum(Dues(tab, m), read \cup {b}) = Dues(tab, m)[b] + Sum(Dues(tab, m), read)
          /\ Sum(Dues(tab, m), read) \in Int /\ Dues(tab, m)[b] \in Int
      BY <1>1, <2>2, DuesAreWhole, SumGrow
    <3>2. column[m] = Sum(Dues(tab, m), read)
      BY DEF ReadSoFar, read
    <3>3. column'[m] = column[m] + Dues(tab, m)[b]
      BY <1>1, <2>1, BillAdds
    <3> QED BY <3>1, <3>2, <3>3
  <2> QED BY <2>1, <2>2, <2>3 DEF ReadSoFar
<1>3. CASE UNCHANGED <<tab, unread, column>>
  BY <1>3 DEF ReadSoFar
<1> QED BY <1>2, <1>3 DEF DebtNext, RoundColumn, WriteLine, debtVars

LEMMA ReadSoFarHolds == DebtSpec => [](DebtInv /\ ReadSoFar)
<1>1. DebtInit => ReadSoFar
  <2> SUFFICES ASSUME DebtInit, NEW m \in Table
               PROVE  column[m] = Sum(Dues(tab, m), DOMAIN tab \ unread)
    BY DEF ReadSoFar
  <2>1. column[m] = 0 /\ DOMAIN tab \ unread = {}
    BY DEF DebtInit
  <2> QED BY <2>1, SumEmpty
<1> QED BY <1>1, InitDebt, NextDebt, ReadSoFarStep, PTL DEF DebtSpec

\* A column read to the end is the one Balances adds up at once.
LEMMA ReadIsWhole == DebtInv /\ ReadSoFar /\ unread = {} => column = WholeColumn(tab)
<1> SUFFICES ASSUME DebtInv, ReadSoFar, unread = {} PROVE column = WholeColumn(tab)
  OBVIOUS
<1>1. tab \in Tabs /\ column \in [Table -> Int] /\ DOMAIN tab \ unread = DOMAIN tab
  BY DEF DebtInv, DebtTypeOK
<1>2. \A m \in Table : column[m] = WholeColumn(tab)[m]
  BY <1>1, WholeColumnIs DEF ReadSoFar
<1>3. WholeColumn(tab) \in [Table -> Int]
  BY <1>1, WholeColumnIs
<1> QED BY <1>1, <1>2, <1>3

\* Reading a group's page keeps its types: an exact column and balances that
\* are whole units for every member (ledger.go:60-200).
THEOREM DebtTyped == DebtSpec => []DebtTypeOK
<1>1. DebtInv => DebtTypeOK
  BY DEF DebtInv
<1> QED BY <1>1, DebtsHold, PTL

\* For every group and every legal bills, at any rates: the column sums to
\* zero exactly and rounded, no balance is a unit away from its exact value,
\* somebody no bill names is level, and what is read bill by bill is what
\* Balances gives of them all (ledger.go:75-125, 139-141, 196-199).
THEOREM BalancesFair == DebtSpec => []BalancesAreFair
<1>1. DebtInv /\ ReadSoFar => BalancesAreFair
  <2> SUFFICES ASSUME DebtInv, ReadSoFar PROVE BalancesAreFair
    OBVIOUS
  <2>1. /\ column \in [Table -> Int] /\ due \in [Table -> Int] /\ tab \in Tabs
        /\ Sum(column, Table) = 0 /\ Sum(due, Table) = 0
        /\ rounded /\ lines = 0 => due = Rounded(column, CommonDen(tab))
    BY DEF DebtInv, DebtTypeOK
  <2>2. Total(column) = 0 /\ Total(due) = 0
    BY <2>1, TotalIsSum
  <2>3. CommonDen(tab) \in Nat \ {0}
    BY <2>1, DenIsPositive
  <2>4. ASSUME rounded, lines = 0, NEW m \in Table
        PROVE  Near(due, column, CommonDen(tab), m)
    BY <2>1, <2>3, <2>4, RoundsToZero
  <2>5. rounded /\ lines = 0 => due = Balances(Table, tab)
    <3>1. rounded => unread = {}
      BY DEF DebtInv
    <3> QED BY <2>1, <3>1, ReadIsWhole, BalancesRounds
  <2> QED BY <2>2, <2>4, <2>5 DEF BalancesAreFair, Near, DebtInv
<1> QED BY <1>1, ReadSoFarHolds, PTL

\* However many they are and whatever they owe, the list settles everybody in
\* at most one line less than there are members (ledger.go:234-237).
THEOREM FewLines == DebtSpec => []SettlesInFewLines
<1>1. DebtInv => SettlesInFewLines
  <2> SUFFICES ASSUME DebtInv, ~Settled(due) PROVE lines < Cardinality(Table) - 1
    BY DEF SettlesInFewLines
  <2>1. /\ due \in [Table -> Int] /\ lines \in Nat /\ Sum(due, Table) = 0
        /\ Cardinality(NotLevel(due)) + lines <= Cardinality(Table)
    BY DEF DebtInv, DebtTypeOK
  <2>2. NotLevel(due) # {}
    BY <2>1 DEF Settled, NotLevel
  <2>3. PICK x, y \in NotLevel(due) : x # y
    BY <2>1, <2>2, LineLevels
  <2>4. Cardinality(NotLevel(due)) >= 2
    <3> DEFINE R == NotLevel(due) \ {x}
    <3>1. IsFiniteSet(R) /\ Cardinality(R) = Cardinality(NotLevel(due)) - 1 /\ y \in R
      BY <2>3, CountsLevel, OneLess
    <3> HIDE DEF R
    <3>2. Cardinality(R) # 0 /\ Cardinality(R) \in Nat
      BY <3>1, FS_EmptySet, FS_CardinalityType
    <3> QED BY <3>1, <3>2, CountsLevel
  <2> QED BY <2>1, <2>4, CountsLevel
<1> QED BY <1>1, DebtsHold, PTL

=============================================================================
