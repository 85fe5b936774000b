-------------------------------- MODULE Outbox --------------------------------
(***************************************************************************)
(* The venue page's outbox (dope/web/ts/offline.ts, venue-page.ts and the  *)
(* team handlers of web/hostpages over domain/imports): what a host does   *)
(* to a venue's teams waits in localStorage and goes to the server one     *)
(* change at a time, in order, while the host goes on working.             *)
(*                                                                         *)
(* Reads and writes of localStorage are synchronous, so an enqueue and a   *)
(* settle are atomic; what may come between is anything while a change is  *)
(* on its way.  An answer can be lost after the server took the change     *)
(* (the network, a proxy's 5xx, a reload of the page), and the change is   *)
(* then sent again.  A team's name, city and people are one Body; a set of *)
(* the venue's numbers is its version.                                     *)
(***************************************************************************)
EXTENDS Naturals, Sequences, SequencesExt

CONSTANTS HandTeams,    \* client ids of the teams made on the device
          Bodies,       \* what a team may be saved as
          MaxAct,       \* things the host does
          NoBody        \* no body, no request on its way

ASSUME OutboxAssumption ==
    MaxAct \in Nat /\ NoBody \notin Bodies /\ NoBody # "gone" /\ "gone" \notin Bodies

VARIABLES ops,          \* Outbox.ops
          ids,          \* the client ids Outbox.ids has a server id for
          sending,      \* NoBody, or the change on its way and its answer
          ref,          \* what the page names a team by: "cid" or "id"
          editor,       \* NoBody, or the row its open dialog was opened on
          server,       \* team -> its body, "gone" or NoBody
          numbers,      \* version of the numbers the server has
          want,         \* team -> what the host last made it, "gone" or NoBody
          wantNumbers,
          shown,        \* teams and "numbers" a refusal was shown for
          blurred,      \* teams the device's word may not reach the server about
          acts

outboxVars == <<ops, ids, sending, ref, editor, server, numbers, want, wantNumbers,
                shown, blurred, acts>>
hostVars == <<ids, sending, ref, editor, server, numbers, shown>>

CreateOp(t, b) == [kind |-> "create", team |-> t, by |-> "cid", body |-> b]
SaveOp(t, by, b) == [kind |-> "save", team |-> t, by |-> by, body |-> b]
RemoveOp(t, by) == [kind |-> "remove", team |-> t, by |-> by, body |-> NoBody]
NumbersOp(v) == [kind |-> "numbers", team |-> NoBody, by |-> "id", body |-> v]

Changes == [kind : {"create", "save", "remove", "numbers"}, team : HandTeams \cup {NoBody},
        by : {"cid", "id"}, body : Bodies \cup {NoBody} \cup 1..MaxAct]

OutboxTypeOK ==
    /\ ops \in Seq(Changes) /\ Len(ops) <= 2 * MaxAct
    /\ ids \subseteq HandTeams
    /\ sending # NoBody => sending.op \in Changes /\ sending.answer \in {"none", "done", "refused"}
    /\ ref \in [HandTeams -> {"cid", "id"}]
    /\ editor \in {NoBody} \cup [team : HandTeams, by : {"cid", "id"}]
    /\ server \in [HandTeams -> Bodies \cup {"gone", NoBody}]
    /\ want \in [HandTeams -> Bodies \cup {"gone", NoBody}]
    /\ numbers \in 0..MaxAct /\ wantNumbers \in 0..MaxAct
    /\ shown \subseteq HandTeams \cup {"numbers"} /\ blurred \subseteq HandTeams
    /\ acts \in 0..MaxAct

OutboxInit ==
    /\ ops = <<>> /\ ids = {} /\ sending = NoBody /\ editor = NoBody
    /\ ref = [t \in HandTeams |-> "cid"]
    /\ server = [t \in HandTeams |-> NoBody] /\ want = server
    /\ numbers = 0 /\ wantNumbers = 0
    /\ shown = {} /\ blurred = {} /\ acts = 0

-----------------------------------------------------------------------------
\* enqueue.

\* Where the creation of t waits, for a change that names t by its cid.
PendingCreate(t, by) ==
    {i \in DOMAIN ops : ops[i].kind = "create" /\ ops[i].team = t /\ by = "cid"}

\* What filter leaves of the changes, in order.
Without(s, gone) ==
    FoldLeft(LAMBDA left, op : IF op \in gone THEN left ELSE Append(left, op), <<>>, s)

\* mentions: the saves and the removal that name t by its client id.
Mentions(op, t) == op.kind \in {"save", "remove"} /\ op.team = t /\ op.by = "cid"

WithSave(t, by, b) ==
    IF PendingCreate(t, by) = {} THEN Append(ops, SaveOp(t, by, b))
    ELSE [i \in DOMAIN ops |-> IF i \in PendingCreate(t, by) THEN CreateOp(t, b) ELSE ops[i]]

WithRemove(t, by) ==
    IF PendingCreate(t, by) = {} THEN Append(ops, RemoveOp(t, by))
    ELSE Without(ops, {op \in ToSet(ops) : op = ops[CHOOSE i \in PendingCreate(t, by) : TRUE]
                                           \/ Mentions(op, t)})

WithNumbers(v) ==
    Append(Without(ops, {op \in ToSet(ops) : op.kind = "numbers"}), NumbersOp(v))

\* Three ways the device's word for a team does not reach the server (Lapses):
\* its creation is taken back after it was, or may have been, sent; the row, or
\* the dialog opened on it before the flush and the refresh, names it by a
\* client id the outbox has forgotten; its creation, sent again, says more than
\* the one the server took (StaleCreate).
Made(t) == server[t] # NoBody
OnItsWay(t) == sending # NoBody /\ sending.op.kind = "create" /\ sending.op.team = t
TakesBack(t, by) == PendingCreate(t, by) # {} /\ (Made(t) \/ OnItsWay(t))
Forgotten(t, by) == PendingCreate(t, by) = {} /\ by = "cid" /\ t \notin ids
StaleCreate(op) == op.kind = "create" /\ Made(op.team) /\ server[op.team] # op.body
Lapses(t, way) == blurred' = IF way THEN blurred \cup {t} ELSE blurred

Acts == acts < MaxAct /\ acts' = acts + 1

\* The dialogs are modal: while one is open the page under it takes no click.
Opened(t) == editor # NoBody /\ editor.team = t

\* The "new team" dialog of the venue page; its save makes the client id.
HostCreates(t, b) ==
    /\ Acts /\ want[t] = NoBody /\ editor = NoBody
    /\ ops' = Append(ops, CreateOp(t, b))
    /\ want' = [want EXCEPT ![t] = b]
    /\ UNCHANGED <<hostVars, wantNumbers, blurred>>

\* The dialog takes the row as the page names it now and keeps it, whatever is
\* flushed and redrawn under it, over refusals too, until it is closed.
OpenEditor(t) ==
    /\ acts < MaxAct /\ editor = NoBody /\ want[t] \in Bodies
    /\ editor' = [team |-> t, by |-> ref[t]]
    /\ UNCHANGED <<ops, ids, sending, ref, server, numbers, want, wantNumbers, shown, blurred, acts>>

CloseEditor ==
    /\ editor # NoBody
    /\ editor' = NoBody
    /\ UNCHANGED <<ops, ids, sending, ref, server, numbers, want, wantNumbers, shown, blurred, acts>>

HostSaves(t, b) ==
    /\ Acts /\ Opened(t) /\ want[t] \in Bodies /\ want[t] # b
    /\ ops' = WithSave(t, editor.by, b)
    /\ want' = [want EXCEPT ![t] = b]
    /\ Lapses(t, Forgotten(t, editor.by))
    /\ UNCHANGED <<hostVars, wantNumbers>>

HostRemoves(t) ==
    /\ Acts /\ Opened(t) /\ want[t] \in Bodies
    /\ ops' = WithRemove(t, editor.by)
    /\ want' = [want EXCEPT ![t] = "gone"]
    /\ Lapses(t, TakesBack(t, editor.by) \/ Forgotten(t, editor.by))
    /\ UNCHANGED <<hostVars, wantNumbers>>

HostNumbers ==
    /\ Acts /\ editor = NoBody
    /\ ops' = WithNumbers(wantNumbers + 1)
    /\ wantNumbers' = wantNumbers + 1
    /\ UNCHANGED <<hostVars, want, blurred>>

-----------------------------------------------------------------------------
\* flushOutbox.

\* sendHead; a change wireOf has no server id for is not sent and is done.
SendHead ==
    /\ sending = NoBody /\ ops # <<>>
    /\ LET op == Head(ops)
           unsent == op.kind \in {"save", "remove"} /\ op.by = "cid" /\ op.team \notin ids
       IN sending' = [op |-> op, answer |-> IF unsent THEN "done" ELSE "none"]
    /\ UNCHANGED <<ops, ids, ref, editor, server, numbers, want, wantNumbers, shown, blurred, acts>>

\* apiCreateTeam: a create sent again answers with the team the first one made.
\* apiSaveTeam and apiRemoveTeam refuse a team that is not there.  Anything may
\* be refused for what it says (a name taken, a number taken).
Applied(op) ==
    IF op.kind = "create" THEN (IF Made(op.team) THEN server[op.team] ELSE op.body)
    ELSE IF op.kind = "remove" THEN "gone" ELSE op.body

Accepts(op) ==
    op.kind \in {"save", "remove"} => server[op.team] \in Bodies

ServerAccepts ==
    /\ sending # NoBody /\ sending.answer = "none"
    /\ Accepts(sending.op)
    /\ sending' = [sending EXCEPT !.answer = "done"]
    /\ IF sending.op.kind = "numbers"
         THEN numbers' = sending.op.body /\ UNCHANGED server
         ELSE /\ server' = [server EXCEPT ![sending.op.team] = Applied(sending.op)]
              /\ UNCHANGED numbers
    /\ Lapses(sending.op.team, StaleCreate(sending.op))
    /\ UNCHANGED <<ops, ids, ref, editor, want, wantNumbers, shown, acts>>

ServerRefuses ==
    /\ sending # NoBody /\ sending.answer = "none"
    /\ ~(sending.op.kind = "create" /\ Made(sending.op.team))
    /\ sending' = [sending EXCEPT !.answer = "refused"]
    /\ UNCHANGED <<ops, ids, ref, editor, server, numbers, want, wantNumbers, shown, blurred, acts>>

\* The request or its answer is lost, the proxy says dope is down, dope itself
\* fails (a 5xx), or the page is reloaded: the change stays at the head.
Lose ==
    /\ sending # NoBody
    /\ sending' = NoBody
    /\ UNCHANGED <<ops, ids, ref, editor, server, numbers, want, wantNumbers, shown, blurred, acts>>

\* settle: is the change that was sent still the head?
StillHead(op) ==
    /\ ops # <<>>
    /\ IF op.kind = "create" THEN Head(ops).kind = "create" /\ Head(ops).team = op.team
                             ELSE Head(ops) = op

\* Mutant of Rest: an edit folded into a creation on its way goes with it.
Rest_NoFollowUp(op, answer) ==
    IF answer = "refused" /\ op.kind = "create"
      THEN Without(Tail(ops), {o \in ToSet(Tail(ops)) : Mentions(o, op.team)})
    ELSE Tail(ops)

\* What is left of the outbox: without what needs a team the server refused to
\* make, or with an edit that came in meanwhile as a change of the team it made.
Rest(op, answer) ==
    IF answer = "refused" /\ op.kind = "create"
      THEN Without(Tail(ops), {o \in ToSet(Tail(ops)) : Mentions(o, op.team)})
    ELSE IF answer = "done" /\ op.kind = "create" /\ Head(ops).body # op.body
      THEN <<[kind |-> "save", team |-> op.team, by |-> "cid", body |-> Head(ops).body]>>
           \o Tail(ops)
    ELSE Tail(ops)

\* The loop turns: the settled outbox is written, its ids dropped once it is
\* empty.
Settle ==
    /\ sending # NoBody /\ sending.answer # "none"
    /\ LET op == sending.op
           left == IF StillHead(op) THEN Rest(op, sending.answer) ELSE ops
           known == IF StillHead(op) /\ op.kind = "create" /\ sending.answer = "done"
                      THEN ids \cup {op.team} ELSE ids
       IN /\ ops' = left
          /\ ids' = IF left = <<>> THEN {} ELSE known
          /\ shown' = IF StillHead(op) /\ sending.answer = "refused"
                          THEN shown \cup {IF op.kind = "numbers" THEN "numbers" ELSE op.team}
                          ELSE shown
    /\ sending' = NoBody
    /\ UNCHANGED <<ref, editor, server, numbers, want, wantNumbers, blurred, acts>>

\* sync, after a flush that emptied the outbox: the page draws the server's
\* teams, by their server ids.
Refresh ==
    /\ ops = <<>> /\ sending = NoBody
    /\ ref' = [t \in HandTeams |-> IF server[t] \in Bodies THEN "id" ELSE ref[t]]
    /\ UNCHANGED <<ops, ids, sending, editor, server, numbers, want, wantNumbers, shown, blurred, acts>>

OutboxNext ==
    \/ \E t \in HandTeams, b \in Bodies : HostCreates(t, b) \/ HostSaves(t, b)
    \/ \E t \in HandTeams : OpenEditor(t) \/ HostRemoves(t)
    \/ CloseEditor \/ HostNumbers
    \/ SendHead \/ ServerAccepts \/ ServerRefuses \/ Lose \/ Settle \/ Refresh

OutboxSpec == OutboxInit /\ [][OutboxNext]_outboxVars

-----------------------------------------------------------------------------
Sent == ops = <<>> /\ sending = NoBody

\* Once the outbox is sent, the server's venue is what the host made it, apart
\* from teams a refusal was shown for and the three lapses: a creation edited on
\* its way is followed by its edit, a change sent again does no harm, and the
\* newest numbers win (offline.ts:398-401).
OutboxArrives ==
    Sent =>
        /\ \A t \in HandTeams \ (shown \cup blurred) :
               server[t] = want[t] \/ (want[t] = "gone" /\ server[t] = NoBody)
        /\ "numbers" \notin shown => numbers = wantNumbers
=============================================================================
