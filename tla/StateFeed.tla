------------------------------ MODULE StateFeed ------------------------------
(***************************************************************************)
(* One game's document, from the write lock to one open page.              *)
(*                                                                         *)
(* A write commits under the lock and is fanned out after it, as a delta   *)
(* or as a whole document, under the next seq of the game-state scope      *)
(* (dope/dope/domain/core/broadcast.go).  The page (web/ts/state-sync.ts   *)
(* createLiveEvents, web/ts/game-shell.ts mountGameDocument) applies the   *)
(* deltas that chain, adopts the documents that are newer, and refetches   *)
(* the document when a delta does not chain, the server's epoch changed,   *)
(* or its stream died.                                                     *)
(*                                                                         *)
(* A commit is known by its number; a document is, at each path, the last  *)
(* commit that wrote it.  Numbers grow, so a document that is behind at a  *)
(* path holds a smaller number there.                                      *)
(***************************************************************************)
EXTENDS Naturals, Sequences

CONSTANTS
    Paths,        \* the paths of the document
    MaxCommits,   \* commits in a run
    MaxLosses,    \* events dropped from the page's buffer, and broken streams
    MaxRestarts,  \* server restarts
    Snapshots,    \* BOOLEAN: some writes replace the whole document
    Editing,      \* BOOLEAN: some writes are this page's own
    Revalidates,  \* BOOLEAN: the page refetches once behind its first render
    BootRace      \* BOOLEAN: an event may fall between the init payload's reads

ASSUME StateFeedAssumption ==
    /\ MaxCommits \in Nat /\ MaxLosses \in Nat /\ MaxRestarts \in Nat
    /\ {Snapshots, Editing, Revalidates, BootRace} \subseteq BOOLEAN

VARIABLES
    made,      \* the commits: which paths, whether wholesale, the document then
    shipping,  \* the commits of this process not fanned out yet
    log,       \* the commits this process fanned out, by seq
    epoch,     \* the process (Engine.Epoch); 0 is the page's empty epoch
    stream,    \* "up": the page's EventSource is open
    wire,      \* the events on their way to it
    losses,    \* dropped events and broken streams so far
    view,      \* the page's document
    stateSeq,  \* the seq the page's document is at
    lastEpoch, \* the page's epoch tracker
    astray,    \* the document may be behind stateSeq: since its last resync the
               \* page took one without a seq or passed over a new process's first
    boot,      \* "doc": the init payload's document is read, its seq is not
    fetch,     \* the resync in flight
    waking,    \* wake recovery wants the stream back
    answers,   \* this page's own commits whose response is on its way
    reval      \* the revalidation in flight

server == <<made, shipping, log, epoch>>
link == <<stream, wire, losses>>
page == <<view, stateSeq, lastEpoch, astray, boot, fetch, waking>>
vars == <<made, shipping, log, epoch, stream, wire, losses, view, stateSeq,
          lastEpoch, astray, boot, fetch, waking, answers, reval>>

Docs == [Paths -> 0 .. MaxCommits]

Blank == [p \in Paths |-> 0]

\* The committed document.
Db == IF made = <<>> THEN Blank ELSE made[Len(made)].doc

NoFetch == [at |-> "no", why |-> "gap", seq |-> 0, epoch |-> 0, doc |-> Blank]

NoReval == [at |-> "no", before |-> Blank, doc |-> Blank]

-----------------------------------------------------------------------------
Init ==
    /\ made = <<>> /\ shipping = {} /\ log = <<>> /\ epoch = 1
    /\ stream = "down" /\ wire = <<>> /\ losses = 0
    /\ view = Blank /\ stateSeq = 0 /\ lastEpoch = 0 /\ boot = "doc"
    /\ astray = FALSE
    /\ fetch = NoFetch /\ waking = FALSE
    /\ answers = {}
    /\ reval = NoReval

-----------------------------------------------------------------------------
(***************************************************************************)
(* The server.                                                             *)
(***************************************************************************)

\* A write of some paths (PatchGameTx) or of the whole document (a PUT), by
\* this page or by another; the page's own PATCH is answered with the document.
Commit(ps, whole, mine) ==
    LET n == Len(made) + 1
    IN /\ n <= MaxCommits
       /\ whole => Snapshots /\ ps = Paths
       /\ mine => Editing /\ boot = "done" /\ ~whole
       /\ made' = Append(made, [paths |-> ps, whole |-> whole,
                                doc |-> [p \in Paths |-> IF p \in ps THEN n ELSE Db[p]]])
       /\ shipping' = shipping \cup {n}
       /\ answers' = IF mine THEN answers \cup {n} ELSE answers
       /\ UNCHANGED <<log, epoch, link, page, reval>>

\* A bug: the seq is taken before it is bumped.
Message_Unbumped(n) ==
    [seq |-> Len(log), epoch |-> epoch, commit |-> n, delta |-> ~made[n].whole]

\* BroadcastBatchedDelta, BroadcastState: the next seq, to whoever is connected.
Message(n) ==
    [seq |-> Len(log) + 1, epoch |-> epoch, commit |-> n,
     delta |-> ~made[n].whole]

Broadcast(n) ==
    /\ n \in shipping
    /\ boot = "doc" => BootRace
    /\ shipping' = shipping \ {n}
    /\ log' = Append(log, n)
    /\ wire' = IF stream = "up" THEN Append(wire, Message(n)) ELSE wire
    /\ UNCHANGED <<made, epoch, stream, losses, page, answers, reval>>

\* Engine.Epoch is fresh and every seq starts over; what was committed stays.
\* A request the process was serving dies with it, the first page's included.
Restart ==
    /\ epoch <= MaxRestarts
    /\ boot = "done"
    /\ epoch' = epoch + 1
    /\ log' = <<>> /\ shipping' = {}
    /\ stream' = "down" /\ wire' = <<>>
    /\ fetch' = IF fetch.at \in {"asked", "read"} THEN NoFetch ELSE fetch
    /\ UNCHANGED <<made, losses, view, stateSeq, lastEpoch, astray, boot, waking,
                   answers, reval>>

-----------------------------------------------------------------------------
(***************************************************************************)
(* The stream.                                                             *)
(***************************************************************************)

\* The subscriber's buffer is full: its oldest event goes (realtime.Manager).
DropOldest ==
    /\ losses < MaxLosses
    /\ wire # <<>>
    /\ wire' = Tail(wire)
    /\ losses' = losses + 1
    /\ UNCHANGED <<server, stream, page, answers, reval>>

Disconnect ==
    /\ losses < MaxLosses
    /\ stream = "up"
    /\ stream' = "down" /\ wire' = <<>>
    /\ losses' = losses + 1
    /\ UNCHANGED <<server, page, answers, reval>>

\* connect() after the first render, or the browser's own reconnect.
Open ==
    /\ boot = "done"
    /\ stream = "down"
    /\ stream' = "up" /\ wire' = <<>>
    /\ UNCHANGED <<server, losses, page, answers, reval>>

-----------------------------------------------------------------------------
(***************************************************************************)
(* The page: its first state.                                              *)
(***************************************************************************)

\* buildGameInit reads the document first, then the seq and the epoch.
InitSeq ==
    /\ boot = "doc"
    /\ boot' = "done"
    /\ stateSeq' = Len(log)
    /\ lastEpoch' = epoch
    /\ reval' = IF Revalidates THEN [reval EXCEPT !.at = "wanted"] ELSE reval
    /\ UNCHANGED <<server, link, view, astray, fetch, waking, answers>>

\* revalidate: what the page shows is remembered, the document is fetched ...
RevalAsk ==
    /\ reval.at = "wanted"
    /\ reval' = [reval EXCEPT !.at = "asked", !.before = view]
    /\ UNCHANGED <<server, link, page, answers>>

RevalRead ==
    /\ reval.at = "asked"
    /\ reval' = [reval EXCEPT !.at = "back", !.doc = Db]
    /\ UNCHANGED <<server, link, page, answers>>

\* ... and adopted if it is not what the page showed when it asked.
RevalAdopt ==
    /\ reval.at = "back"
    /\ view' = IF reval.doc = reval.before THEN view ELSE reval.doc
    /\ astray' = (astray \/ reval.doc # reval.before)
    /\ reval' = NoReval
    /\ UNCHANGED <<server, link, stateSeq, lastEpoch, boot, fetch, waking, answers>>

-----------------------------------------------------------------------------
(***************************************************************************)
(* The page: dispatch.                                                     *)
(***************************************************************************)
Resyncing == fetch.at # "no"

\* A bug: the gap is noticed and nothing is done.
Ask_Never(why) == UNCHANGED fetch

Ask(why) == fetch' = [NoFetch EXCEPT !.at = "asked", !.why = why]

\* Bugs: an epoch is never compared; a delta that skips others is applied.
NewEpoch_Never(m) == FALSE

Chains_Loosely(m) == stateSeq < m.seq

\* One "state" event.  A snapshot's epoch is adopted, a first epoch is the
\* baseline, a delta of another epoch starts a resync.
NewEpoch(m) ==
    m.delta /\ lastEpoch # 0 /\ m.epoch # lastEpoch

Applied(m) ==
    IF m.delta
    THEN [p \in Paths |-> IF p \in made[m.commit].paths THEN m.commit ELSE view[p]]
    ELSE made[m.commit].doc

Chains(m) == m.delta => stateSeq = m.seq - 1

Ignored(m) == Resyncing \/ m.seq <= stateSeq

Receive ==
    /\ wire # <<>>
    /\ wire' = Tail(wire)
    /\ LET m == Head(wire)
       IN \/ /\ NewEpoch(m)
             /\ IF Resyncing THEN UNCHANGED fetch ELSE Ask("gap")
             /\ UNCHANGED <<view, stateSeq, lastEpoch, astray>>
          \/ /\ ~NewEpoch(m)
             /\ lastEpoch' = m.epoch
             /\ \/ /\ Ignored(m)
                   /\ astray' = (astray \/ m.epoch # lastEpoch)
                   /\ UNCHANGED <<view, stateSeq, fetch>>
                \/ /\ ~Ignored(m) /\ ~Chains(m)
                   /\ Ask("gap")
                   /\ UNCHANGED <<view, stateSeq, astray>>
                \/ /\ ~Ignored(m) /\ Chains(m)
                   /\ view' = Applied(m)
                   /\ stateSeq' = m.seq
                   /\ UNCHANGED <<astray, fetch>>
    /\ UNCHANGED <<server, stream, losses, boot, waking, answers, reval>>

-----------------------------------------------------------------------------
(***************************************************************************)
(* The page: resync and wake recovery.                                     *)
(***************************************************************************)

\* A bug: the answer's seq header is missing, and 0 is taken for it.
FetchSeq_NoHeader ==
    /\ fetch.at = "asked"
    /\ fetch' = [fetch EXCEPT !.at = "read", !.seq = 0, !.epoch = epoch]
    /\ UNCHANGED <<server, link, view, stateSeq, lastEpoch, astray, boot, waking,
                   answers, reval>>

\* scopedGameState reads the seq ...
FetchSeq ==
    /\ fetch.at = "asked"
    /\ fetch' = [fetch EXCEPT !.at = "read", !.seq = Len(log), !.epoch = epoch]
    /\ UNCHANGED <<server, link, view, stateSeq, lastEpoch, astray, boot, waking,
                   answers, reval>>

\* ... and then the document.
FetchDoc ==
    /\ fetch.at = "read"
    /\ fetch' = [fetch EXCEPT !.at = "back", !.doc = Db]
    /\ UNCHANGED <<server, link, view, stateSeq, lastEpoch, astray, boot, waking,
                   answers, reval>>

\* The answer is adopted whole; a wake recovery then opens the stream again.
FetchAdopt ==
    /\ fetch.at = "back"
    /\ view' = fetch.doc
    /\ stateSeq' = fetch.seq
    /\ lastEpoch' = fetch.epoch
    /\ astray' = FALSE
    /\ fetch' = NoFetch
    /\ IF fetch.why = "wake"
       THEN stream' = "up" /\ wire' = <<>> /\ waking' = FALSE
       ELSE UNCHANGED <<stream, wire, waking>>
    /\ UNCHANGED <<server, losses, boot, answers, reval>>

\* The network, an error status or the deadline; wake recovery will try again.
FetchFail ==
    /\ Resyncing
    /\ losses < MaxLosses
    /\ losses' = losses + 1
    /\ fetch' = NoFetch
    /\ UNCHANGED <<server, stream, wire, view, stateSeq, lastEpoch, astray, boot,
                   waking, answers, reval>>

\* The tab or the network comes back and the stream is not open.
Wake ==
    /\ boot = "done" /\ stream = "down" /\ ~waking
    /\ waking' = TRUE
    /\ UNCHANGED <<server, link, view, stateSeq, lastEpoch, astray, boot, fetch,
                   answers, reval>>

\* recover(): resync, unless one is running, in which case connect right away.
Recover ==
    /\ waking
    /\ IF Resyncing
       THEN /\ fetch.why = "gap"
            /\ stream' = "up" /\ wire' = <<>> /\ waking' = FALSE
            /\ UNCHANGED fetch
       ELSE /\ Ask("wake")
            /\ UNCHANGED <<stream, wire, waking>>
    /\ UNCHANGED <<server, losses, view, stateSeq, lastEpoch, astray, boot, answers,
                   reval>>

\* The response of the page's own PATCH: the document that write left, taken
\* without a seq (createScopedWriter's adopt).
Answer(n) ==
    /\ n \in answers
    /\ answers' = answers \ {n}
    /\ view' = made[n].doc
    /\ astray' = TRUE
    /\ UNCHANGED <<server, link, stateSeq, lastEpoch, boot, fetch, waking, reval>>

-----------------------------------------------------------------------------
Server ==
    \/ \E ps \in SUBSET Paths \ {{}}, whole, mine \in BOOLEAN : Commit(ps, whole, mine)
    \/ \E n \in shipping : Broadcast(n)
    \/ Restart

Page ==
    \/ InitSeq \/ RevalAsk \/ RevalRead \/ RevalAdopt \/ Receive
    \/ FetchSeq \/ FetchDoc \/ FetchAdopt \/ FetchFail \/ Wake \/ Recover
    \/ \E n \in answers : Answer(n)

Next == Server \/ DropOldest \/ Disconnect \/ Open \/ Page

Spec == Init /\ [][Next]_vars

\* Commits are the hosts' choice and losses the network's; the server fans out
\* what it committed and the page's callbacks run.
Fairness ==
    /\ \A n \in 1 .. MaxCommits : WF_vars(Broadcast(n))
    /\ WF_vars(InitSeq) /\ WF_vars(Open) /\ WF_vars(Receive)
    /\ WF_vars(FetchSeq) /\ WF_vars(FetchDoc) /\ WF_vars(FetchAdopt)
    /\ WF_vars(Recover)

FairSpec == Spec /\ Fairness

-----------------------------------------------------------------------------
(***************************************************************************)
(* Properties.                                                             *)
(***************************************************************************)
Commits == [paths : SUBSET Paths, whole : BOOLEAN, doc : [Paths -> Nat]]
Fetches == [at : {"no", "asked", "read", "back"}, why : {"gap", "wake"},
            seq : Nat, epoch : Nat, doc : [Paths -> Nat]]
Messages == [seq : Nat \ {0}, epoch : Nat \ {0}, commit : Nat \ {0}, delta : BOOLEAN]

\* Every variable stays within its type.
TypeOK ==
    /\ made \in Seq(Commits)
    /\ shipping \subseteq 1 .. Len(made)
    /\ log \in Seq(1 .. Len(made))
    /\ epoch \in Nat \ {0}
    /\ stream \in {"up", "down"}
    /\ wire \in Seq(Messages)
    /\ losses \in Nat
    /\ view \in [Paths -> Nat]
    /\ stateSeq \in Nat
    /\ lastEpoch \in Nat
    /\ astray \in BOOLEAN
    /\ boot \in {"doc", "done"}
    /\ fetch \in Fetches
    /\ waking \in BOOLEAN
    /\ answers \subseteq 1 .. Len(made)
    /\ reval \in [at : {"no", "wanted", "asked", "back"}, before : [Paths -> Nat],
                  doc : [Paths -> Nat]]

\* The broadcasts of this process went out in the order of their commits.
InOrder == \A i, k \in DOMAIN log : i < k => log[i] < log[k]

\* A document holds every commit of a set, or something newer.
Holds(doc, ns) == \A n \in ns : \A p \in made[n].paths : doc[p] >= n

Upto(s) == {log[i] : i \in 1 .. s}

\* stateSeq is "the scope seq the page's state is at" (game-shell.ts:248): as long
\* as events go out in commit order, the document of a page that is in the server's
\* epoch and has not gone astray holds everything fanned out up to its stateSeq,
\* whatever was lost, dropped while resyncing, applied twice or refetched.
PageHoldsItsSeq ==
    InOrder /\ lastEpoch = epoch /\ ~astray
        => stateSeq <= Len(log) /\ Holds(view, Upto(stateSeq))

\* Such a page, at the scope's last seq and with nothing left to fan out, shows
\* exactly what is committed.
UpToDateShowsDb ==
    InOrder /\ lastEpoch = epoch /\ ~astray /\ stateSeq = Len(log) /\ shipping = {}
        => view = Db

\* Within a process's seq space the page only moves forward: a resync is in flight
\* while events come (dispatch drops them, state-sync.ts:1097), and the document it
\* brings never takes the page back behind one it has applied.
SeqNeverBack ==
    [][lastEpoch = epoch /\ lastEpoch' = lastEpoch /\ epoch' = epoch /\ ~astray
       => stateSeq' >= stateSeq]_<<stateSeq, lastEpoch, epoch>>

\* What a page hears it shows: once no more is lost, after an event has reached a
\* page that is not resyncing, the page's document holds that event's commit and
\* everything fanned out before it, whether the event is applied, lies behind a
\* gap, comes from a new process or is overtaken by a refetch.  As long as events
\* go out in commit order, the server is not restarted again, and the page has not
\* gone astray: only a resync makes up for a document that came without a seq.
HeardIsShown ==
    \A s \in 1 .. MaxCommits, e \in 1 .. MaxRestarts + 1 :
        /\ losses = MaxLosses /\ ~Resyncing
        /\ wire # <<>> /\ Head(wire).seq = s /\ Head(wire).epoch = e
        ~> \/ epoch # e \/ ~InOrder \/ astray
           \/ lastEpoch = e /\ stateSeq >= s /\ Holds(view, Upto(s))

=============================================================================
