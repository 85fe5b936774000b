----------------------------- MODULE InviteLink -----------------------------
(***************************************************************************)
(* The Invite Links of one scope (dopecore/invitelink): an xy board, a     *)
(* Spliff Group, a fest's jury.  Every operation is one write transaction  *)
(* of the app, so every action here is atomic; what the package has to get *)
(* right is how the uses of several links and several people add up.       *)
(*                                                                         *)
(* Ids are never used twice: a link that was deleted stays Gone.  A cap of *)
(* 0 is a link without one.                                                *)
(***************************************************************************)
EXTENDS Naturals, FiniteSets

CONSTANTS MaxLink,      \* links the owner mints
          Caps,         \* max_uses a link may be minted with; 0 is none
          People        \* who follows links; the owner is not among them

ASSUME InviteAssumption == MaxLink \in Nat /\ Caps \subseteq Nat /\ IsFiniteSet(People)

VARIABLES link,         \* id -> NotMinted, Gone or the row
          uses,         \* link -> person -> status of the use row, or "none"
          insiders      \* the people the scope's IsMember answers yes for

inviteVars == <<link, uses, insiders>>

Links == 1..MaxLink
NotMinted == [cap |-> 0, approval |-> FALSE, shut |-> "unminted"]
Gone == [cap |-> 0, approval |-> FALSE, shut |-> "gone"]

\* Link.State without the cap: revoked overrides expired.
Shut == {"no", "expired", "revoked"}

InviteTypeOK ==
    /\ link \in [Links -> {NotMinted, Gone} \cup
                          [cap : Caps, approval : BOOLEAN, shut : Shut]]
    /\ uses \in [Links -> [People -> {"none", "pending", "joined", "declined"}]]
    /\ insiders \subseteq People

\* A link ByCode and ByID find.
Found(l) == link[l].shut \in Shut

\* The subselect of selectSQL: only a use that reached 'joined' counts.
Used(l) == Cardinality({p \in People : uses[l][p] = "joined"})

AtCap(l) == link[l].cap # 0 /\ Used(l) >= link[l].cap

\* stateFor's second question: one person is one Join Request, whatever the link.
Waiting(p) == \E l \in Links : uses[l][p] = "pending"

\* Mutant of Admits: what the link said before is not asked.
Admits_Again(l, p) ==
    p \notin insiders /\ ~Waiting(p) /\ link[l].shut = "no" /\ ~AtCap(l)

\* stateFor answers Active.
Admits(l, p) ==
    /\ p \notin insiders
    /\ ~Waiting(p)
    /\ uses[l][p] = "none"
    /\ link[l].shut = "no"
    /\ ~AtCap(l)

InviteInit ==
    /\ link = [l \in Links |-> NotMinted]
    /\ uses = [l \in Links |-> [p \in People |-> "none"]]
    /\ insiders = {}

Mint(l) ==
    /\ link[l] = NotMinted
    /\ \A k \in Links : k < l => link[k] # NotMinted
    /\ \E cap \in Caps, approval \in BOOLEAN :
           link' = [link EXCEPT ![l] = [cap |-> cap, approval |-> approval, shut |-> "no"]]
    /\ UNCHANGED <<uses, insiders>>

Revoke(l) ==
    /\ Found(l)
    /\ link' = [link EXCEPT ![l].shut = "revoked"]
    /\ UNCHANGED <<uses, insiders>>

\* The moment in expires_at comes; a revoked link stays revoked.
LinkExpires(l) ==
    /\ link[l].shut = "no"
    /\ link' = [link EXCEPT ![l].shut = "expired"]
    /\ UNCHANGED <<uses, insiders>>

\* Links.Delete: the row and its use history; whoever came in stays in.
DeleteLink(l) ==
    /\ Found(l)
    /\ link' = [link EXCEPT ![l] = Gone]
    /\ uses' = [uses EXCEPT ![l] = [p \in People |-> "none"]]
    /\ UNCHANGED insiders

\* Links.Join that is not refused and is not already answered.
Follow(l, p) ==
    /\ Admits(l, p)
    /\ uses' = [uses EXCEPT ![l][p] = IF link[l].approval THEN "pending" ELSE "joined"]
    /\ insiders' = IF link[l].approval THEN insiders ELSE insiders \cup {p}
    /\ UNCHANGED link

\* Links.pending: the use a decision is about.
Request(l, p) == uses[l][p] = "pending"

\* Mutant of Approve: the cap is asked at the door only.
Approve_OverCap(l, p) ==
    /\ Request(l, p)
    /\ uses' = [uses EXCEPT ![l][p] = "joined"]
    /\ insiders' = insiders \cup {p}
    /\ UNCHANGED link

\* Approving must still fit under the cap; a revoked or expired link's queue
\* can be approved all the same.
Approve(l, p) ==
    /\ Request(l, p)
    /\ ~AtCap(l)
    /\ uses' = [uses EXCEPT ![l][p] = "joined"]
    /\ insiders' = insiders \cup {p}
    /\ UNCHANGED link

Decline(l, p) ==
    /\ Request(l, p)
    /\ uses' = [uses EXCEPT ![l][p] = "declined"]
    /\ UNCHANGED <<link, insiders>>

\* The scope's own business: the owner adds somebody by username (an xy board),
\* somebody leaves or is removed.  The uses stay as they are.
AddedByName(p) == insiders' = insiders \cup {p} /\ UNCHANGED <<link, uses>>
GoesOut(p) == p \in insiders /\ insiders' = insiders \ {p} /\ UNCHANGED <<link, uses>>

InviteNext ==
    \/ \E l \in Links : Mint(l) \/ Revoke(l) \/ LinkExpires(l) \/ DeleteLink(l)
    \/ \E l \in Links, p \in People : Follow(l, p) \/ Approve(l, p) \/ Decline(l, p)
    \/ \E p \in People : AddedByName(p) \/ GoesOut(p)

InviteSpec == InviteInit /\ [][InviteNext]_inviteVars

-----------------------------------------------------------------------------
\* However the queue, the direct joins, removals and decisions interleave, a
\* capped link never admits more people than its cap (invitelink.go:14-17,
\* 388-390: the queue may outgrow the cap, the approvals may not).
SeatsWithinCap == \A l \in Links : link[l].cap # 0 => Used(l) <= link[l].cap

\* What a link said to somebody it never takes back, short of being deleted: a
\* declined person cannot be approved later, and somebody it admitted who is
\* out again does not get to ask it a second time (invitelink.go:465-468).
AnswersAreFinal ==
    [][\A l \in Links, p \in People :
           uses[l][p] \in {"joined", "declined"} /\ link'[l] # Gone
               => uses'[l][p] = uses[l][p]]_inviteVars
=============================================================================
