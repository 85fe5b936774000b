-------------------------------- MODULE Services --------------------------------
(***************************************************************************)
(* The parts that run beside the live editing of a game, side by side:     *)
(* which of them moves is chosen at the start and the others stay at their *)
(* initial state, so what is reached is the sum of what they reach.        *)
(***************************************************************************)
EXTENDS BoardCards, BoardComments, BoardSync, SpliffDebts, SpliffGroup,
        InviteLink, Outbox, Bracket, Viewers, HostPresence, Snapshots

VARIABLE which

boardVars == <<revVars, cardsVars, commentsVars, syncVars>>
spliffVars == <<debtVars, groupVars>>
dopeVars == <<outboxVars, bracketVars>>
liveVars == <<viewerVars, hostPresenceVars, snapshotVars>>

Init ==
    /\ which \in {"cards", "comments", "index", "sync", "debts", "group",
                  "invites", "outbox", "bracket", "viewers", "hosts", "snapshots"}
    /\ CardsInit /\ CommentsInit
    /\ SyncInit /\ (which # "sync" => network)
    /\ DebtInit /\ (which # "debts" => tab = <<>>)
    /\ GroupInit /\ (which # "group" => ~fresh)
    /\ InviteInit /\ OutboxInit /\ BracketInit
    /\ ViewersInit /\ HostInit /\ SnapshotsInit

Next ==
    /\ UNCHANGED which
    /\ \/ which = "cards" /\ CardsNext
          /\ UNCHANGED <<commentsVars, syncVars, spliffVars, inviteVars, dopeVars, liveVars>>
       \/ which = "comments" /\ CommentsNext
          /\ UNCHANGED <<cardsVars, syncVars, spliffVars, inviteVars, dopeVars, liveVars>>
       \/ which = "index" /\ IndexNext
          /\ UNCHANGED <<cardsVars, syncVars, spliffVars, inviteVars, dopeVars, liveVars>>
       \/ which = "sync" /\ SyncNext
          /\ UNCHANGED <<revVars, cardsVars, commentsVars, spliffVars, inviteVars, dopeVars, liveVars>>
       \/ which = "debts" /\ DebtNext
          /\ UNCHANGED <<boardVars, groupVars, inviteVars, dopeVars, liveVars>>
       \/ which = "group" /\ GroupNext
          /\ UNCHANGED <<boardVars, debtVars, inviteVars, dopeVars, liveVars>>
       \/ which = "invites" /\ InviteNext
          /\ UNCHANGED <<boardVars, spliffVars, dopeVars, liveVars>>
       \/ which = "outbox" /\ OutboxNext
          /\ UNCHANGED <<boardVars, spliffVars, inviteVars, bracketVars, liveVars>>
       \/ which = "bracket" /\ BracketNext
          /\ UNCHANGED <<boardVars, spliffVars, inviteVars, outboxVars, liveVars>>
       \/ which = "viewers" /\ ViewersNext
          /\ UNCHANGED <<boardVars, spliffVars, inviteVars, dopeVars, hostPresenceVars, snapshotVars>>
       \/ which = "hosts" /\ HostNext
          /\ UNCHANGED <<boardVars, spliffVars, inviteVars, dopeVars, viewerVars, snapshotVars>>
       \/ which = "snapshots" /\ SnapshotsNext
          /\ UNCHANGED <<boardVars, spliffVars, inviteVars, dopeVars, viewerVars, hostPresenceVars>>

Spec == Init /\ [][Next]_<<which, boardVars, spliffVars, inviteVars, dopeVars, liveVars>>

\* Every variable of every part has its type, in the part that moves.
TypesOK ==
    CASE which = "cards" -> BoardTypeOK
      [] which \in {"comments", "index"} -> CommentsTypeOK
      [] which = "sync" -> SyncTypeOK
      [] which = "debts" -> DebtTypeOK
      [] which = "group" -> GroupTypeOK
      [] which = "invites" -> InviteTypeOK
      [] which = "outbox" -> OutboxTypeOK
      [] which = "bracket" -> BracketTypeOK
      [] which = "viewers" -> ViewersTypeOK
      [] which = "hosts" -> HostTypeOK
      [] which = "snapshots" -> SnapshotsTypeOK
=================================================================================
