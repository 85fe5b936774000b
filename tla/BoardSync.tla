------------------------------ MODULE BoardSync ------------------------------
(***************************************************************************)
(* The offline engine of an xy page (web/ts/sync.ts over store.ts): every  *)
(* change is an op, sent at once when the device is online and nothing is  *)
(* queued, and otherwise appended to the outbox and flushed in order.  A   *)
(* card created offline goes by a temporary id until the answer to its     *)
(* create maps it to a real one.                                           *)
(*                                                                         *)
(* outbox, idmap and the temp ids are in IndexedDB and outlive the page;   *)
(* pending, the calls and the flush do not.  Every await of mutate,        *)
(* enqueue and flush is a point where another step may come, and nothing   *)
(* keeps two calls of mutate apart.  One page; the mirror is not modelled  *)
(* but for the ids a page opened from it holds.  What an op writes is the  *)
(* op itself.                                                              *)
(***************************************************************************)
EXTENDS Naturals, Sequences, SequencesExt

CONSTANTS
    MaxOp,      \* bound on the ops, numbered in the order mutate got them
    MaxCalls,   \* bound on the calls of mutate under way at once
    MaxServed,  \* bound on the cards the server makes; none is asked for beyond it
    Nothing     \* no op, no card, no mapping

ASSUME SyncBounds ==
    MaxOp \in Nat /\ MaxServed \in Nat /\ Nothing \notin 1..MaxServed

Keys == 1..MaxOp
\* A card as the page knows it: by its real id or by the op that created it,
\* which stands for the temp id minted for it.
Refs == [real : 1..MaxServed] \cup [temp : Keys]
Ops == [key : Keys, kind : {"create"}] \cup [key : Keys, kind : {"edit"}, ref : Refs]

VARIABLES
    network,    \* the device reaches the server
    outbox,     \* the queue, in the order of seq
    idmap,      \* temp to real
    served,     \* the server's cards: their last and their newest edit
    held,       \* the ids on the page, in its mirror when it is closed
    lastOp,     \* the ops mutate has got
    pending,    \* the page's cached length of the outbox
    calls,      \* the calls of mutate under way: pc, op
    flusher,    \* flush: pc, op, ids
    owed,       \* the ops queued that no flush has had an answer for (history)
    refused,    \* the creates among the dead letters (history)
    late,       \* edits queued when their create had left the outbox (history)
    beside      \* <<older, newer>>: the older was under way when the newer
                \* was got (history)

syncVars == <<network, outbox, idmap, served, held, lastOp, pending, calls, flusher,
              owed, refused, late, beside>>
historyVars == <<owed, refused, late, beside>>

Cards == 1..Len(served)
NoMap == [k \in Keys |-> Nothing]
Calls == [pc : {"check", "send", "queue", "added", "counted"}, op : Ops]
FlushIdle == [pc |-> "idle", op |-> Nothing, ids |-> NoMap]
KeysOf(ops) == {op.key : op \in ToSet(ops)}

SyncTypeOK ==
    /\ network \in BOOLEAN
    /\ outbox \in Seq(Ops)
    /\ idmap \in [Keys -> 1..MaxServed \cup {Nothing}]
    /\ served \in Seq([last : 0..MaxOp, newest : 0..MaxOp])
    /\ held \subseteq Refs
    /\ lastOp \in 0..MaxOp
    /\ pending \in Nat
    /\ calls \subseteq Calls
    /\ flusher \in [pc : {"idle", "read", "send", "answered", "deleted", "clear"},
                    op : Ops \cup {Nothing}, ids : [Keys -> 1..MaxServed \cup {Nothing}]]
    /\ owed \cup refused \cup late \subseteq Keys
    /\ beside \subseteq Keys \X Keys

-----------------------------------------------------------------------------
\* The server.

\* substitutePath, substituteValue: a temp id with no mapping stays as it is.
Resolved(ref, ids) ==
    IF "temp" \in DOMAIN ref /\ ids[ref.temp] # Nothing
    THEN [real |-> ids[ref.temp]] ELSE ref

\* The op reaches the server: a create makes a card, an edit of a real one
\* writes it, and an edit of a temp id finds nothing.
CanTake(op, ids) ==
    IF op.kind = "create" THEN Len(served) < MaxServed
    ELSE "real" \in DOMAIN Resolved(op.ref, ids)

Edited(card, key) ==
    [last |-> key, newest |-> IF key > card.newest THEN key ELSE card.newest]

AfterOp(op, ids) ==
    IF op.kind = "create" THEN Append(served, [last |-> 0, newest |-> 0])
    ELSE [served EXCEPT ![Resolved(op.ref, ids).real] = Edited(@, op.key)]

ServerTakes(op, ids) == CanTake(op, ids) /\ served' = AfterOp(op, ids)

-----------------------------------------------------------------------------
\* mutate and enqueue.

\* A call of mutate gets the next op, from a page where other calls may be
\* under way.
Gets(pc) ==
    /\ Cardinality(calls) < MaxCalls /\ lastOp < MaxOp
    /\ lastOp' = lastOp + 1
    /\ \E op \in [key : {lastOp'}, kind : {"create"}]
                 \cup [key : {lastOp'}, kind : {"edit"}, ref : held] :
        /\ op.kind = "create" => Len(served) < MaxServed
        /\ calls' = calls \cup {[pc |-> pc, op |-> op]}
    /\ beside' = beside \cup {<<c.op.key, lastOp'>> : c \in calls}
    /\ UNCHANGED <<network, outbox, idmap, served, held, pending, flusher, owed, refused, late>>

\* The call goes on to pc, or is over.
GoesOn(c, pc) == calls' = (calls \ {c}) \cup {[c EXCEPT !.pc = pc]}
IsOver(c) == calls' = calls \ {c}

\* Mutant of Mutate: what is queued is not looked at.
Mutate_PastTheQueue == Gets(IF network THEN "send" ELSE "queue")

\* A change on the page.  If anything is queued it is queued too: the cached
\* length is read at once, and only when that is 0 is the outbox asked.
Mutate == Gets(IF pending = 0 THEN "check" ELSE "queue")

\* countOps, then isOnline.
Check(c) ==
    /\ c.pc = "check"
    /\ GoesOn(c, IF network /\ outbox = <<>> THEN "send" ELSE "queue")
    /\ UNCHANGED <<network, outbox, idmap, served, held, lastOp, pending, flusher, historyVars>>

\* rawSend answers: the page gets a real id, or nothing to add.
SendTaken(c) ==
    /\ c.pc = "send" /\ network
    /\ ServerTakes(c.op, NoMap)
    /\ held' = IF c.op.kind = "create" THEN held \cup {[real |-> Len(served')]} ELSE held
    /\ IsOver(c)
    /\ UNCHANGED <<network, outbox, idmap, lastOp, pending, flusher, historyVars>>

\* The server rejects it, and the caller is told.
SendRejected(c) ==
    /\ c.pc = "send" /\ network
    /\ IsOver(c)
    /\ UNCHANGED <<network, outbox, idmap, served, held, lastOp, pending, flusher, historyVars>>

\* An OfflineError: the request or its answer was lost.
SendLost(c) ==
    /\ c.pc = "send"
    /\ UNCHANGED served \/ (network /\ ServerTakes(c.op, NoMap))
    /\ network' = FALSE
    /\ GoesOn(c, "queue")
    /\ UNCHANGED <<outbox, idmap, held, lastOp, pending, flusher, historyVars>>

\* enqueue: addOp.
AddOp(c) ==
    /\ c.pc = "queue"
    /\ outbox' = Append(outbox, c.op)
    /\ owed' = owed \cup {c.op.key}
    /\ late' = IF c.op.kind = "edit" /\ "temp" \in DOMAIN c.op.ref
                  /\ c.op.ref.temp \notin KeysOf(outbox)
               THEN late \cup {c.op.key} ELSE late
    /\ GoesOn(c, "added")
    /\ UNCHANGED <<network, idmap, served, held, lastOp, pending, flusher, refused, beside>>

\* enqueue: countOps.
CountAdded(c) ==
    /\ c.pc = "added"
    /\ pending' = Len(outbox)
    /\ GoesOn(c, "counted")
    /\ UNCHANGED <<network, outbox, idmap, served, held, lastOp, flusher, historyVars>>

\* flush begins: not twice, not offline; it reads the whole map.
Beginning == [pc |-> "read", op |-> Nothing, ids |-> idmap]
Begun == IF flusher.pc = "idle" /\ network THEN Beginning ELSE flusher

\* enqueue: applyToMirror, scheduleFlush; the page has its temp id.
WakeFlush(c) ==
    /\ c.pc = "counted"
    /\ held' = IF c.op.kind = "create" THEN held \cup {[temp |-> c.op.key]} ELSE held
    /\ flusher' = Begun
    /\ IsOver(c)
    /\ UNCHANGED <<network, outbox, idmap, served, lastOp, pending, historyVars>>

-----------------------------------------------------------------------------
\* flush.

\* Mutant of Leaving: the map is cleared whatever is left.
Leaving_AlwaysClears(n) == [pc |-> "clear", op |-> Nothing, ids |-> flusher.ids]

\* Out of the loop, with n ops counted last: the map is cleared if none is
\* left, and the flush is over.
Leaving(n) ==
    IF n = 0 THEN [pc |-> "clear", op |-> Nothing, ids |-> flusher.ids] ELSE FlushIdle

\* allOps: the first of the queue, or out of the loop.
ReadOps ==
    /\ flusher.pc = "read"
    /\ flusher' = IF outbox # <<>> THEN [flusher EXCEPT !.pc = "send", !.op = Head(outbox)]
                  ELSE Leaving(pending)
    /\ UNCHANGED <<network, outbox, idmap, served, held, lastOp, pending, calls, historyVars>>

\* The server takes the op; a create's real id goes into both maps.
FlushTaken ==
    /\ flusher.pc = "send" /\ network
    /\ ServerTakes(flusher.op, flusher.ids)
    /\ IF flusher.op.kind = "create"
       THEN /\ idmap' = [idmap EXCEPT ![flusher.op.key] = Len(served')]
            /\ flusher' = [flusher EXCEPT !.pc = "answered",
                                          !.ids[flusher.op.key] = Len(served')]
       ELSE /\ flusher' = [flusher EXCEPT !.pc = "answered"]
            /\ UNCHANGED idmap
    /\ owed' = owed \ {flusher.op.key}
    /\ UNCHANGED <<network, outbox, held, lastOp, pending, calls, refused, late, beside>>

\* The server rejects it, for any reason and whatever the status: it is
\* dropped and goes to the dead letters.
FlushRejected ==
    /\ flusher.pc = "send" /\ network
    /\ refused' = IF flusher.op.kind = "create" THEN refused \cup {flusher.op.key} ELSE refused
    /\ owed' = owed \ {flusher.op.key}
    /\ flusher' = [flusher EXCEPT !.pc = "answered"]
    /\ UNCHANGED <<network, outbox, idmap, served, held, lastOp, pending, calls, late, beside>>

\* Mutant of FlushLost: what could not be sent is deleted as if it was.
FlushLost_Deletes ==
    /\ flusher.pc = "send"
    /\ network' = FALSE
    /\ flusher' = [flusher EXCEPT !.pc = "answered"]
    /\ UNCHANGED <<outbox, idmap, served, held, lastOp, pending, calls, historyVars>>

\* The request or its answer is lost: out of the loop.
FlushLost ==
    /\ flusher.pc = "send"
    /\ UNCHANGED served \/ (network /\ ServerTakes(flusher.op, flusher.ids))
    /\ network' = FALSE
    /\ flusher' = Leaving(pending)
    /\ UNCHANGED <<outbox, idmap, held, lastOp, pending, calls, historyVars>>

\* deleteOp, by its seq.
DeleteOp ==
    /\ flusher.pc = "answered"
    /\ outbox' = RemoveFirstMatch(outbox, LAMBDA op : op.key = flusher.op.key)
    /\ flusher' = [flusher EXCEPT !.pc = "deleted", !.op = Nothing]
    /\ UNCHANGED <<network, idmap, served, held, lastOp, pending, calls, historyVars>>

\* countOps, and round the loop while the device is online.
CountDeleted ==
    /\ flusher.pc = "deleted"
    /\ pending' = Len(outbox)
    /\ flusher' = IF network THEN [flusher EXCEPT !.pc = "read"] ELSE Leaving(pending')
    /\ UNCHANGED <<network, outbox, idmap, served, held, lastOp, calls, historyVars>>

\* clearIdMap, and the flush is over.
ClearIdMap ==
    /\ flusher.pc = "clear"
    /\ idmap' = NoMap
    /\ flusher' = FlushIdle
    /\ UNCHANGED <<network, outbox, served, held, lastOp, pending, calls, historyVars>>

-----------------------------------------------------------------------------
\* The page and the network.

\* load(): with nothing of the board queued, the server's cards and real ids.
LoadBoard ==
    /\ network /\ outbox = <<>>
    /\ held' = {[real |-> r] : r \in Cards}
    /\ UNCHANGED <<network, outbox, idmap, served, lastOp, pending, calls, flusher, historyVars>>

\* The page closes and opens again: start() counts the outbox and flushes it.
Reopen ==
    /\ calls' = {}
    /\ pending' = Len(outbox)
    /\ flusher' = IF network THEN Beginning ELSE FlushIdle
    /\ UNCHANGED <<network, outbox, idmap, served, held, lastOp, historyVars>>

GoOnline ==
    /\ ~network
    /\ network' = TRUE
    /\ flusher' = IF flusher.pc = "idle" THEN Beginning ELSE flusher
    /\ UNCHANGED <<outbox, idmap, served, held, lastOp, pending, calls, historyVars>>

GoOffline ==
    /\ network
    /\ network' = FALSE
    /\ UNCHANGED <<outbox, idmap, served, held, lastOp, pending, calls, flusher, historyVars>>

SyncInit ==
    /\ network \in BOOLEAN
    /\ outbox = <<>>
    /\ idmap = NoMap
    /\ served = <<>>
    /\ held = {}
    /\ lastOp = 0
    /\ pending = 0
    /\ calls = {}
    /\ flusher = FlushIdle
    /\ owed = {} /\ refused = {} /\ late = {} /\ beside = {}

SyncNext ==
    \/ Mutate
    \/ \E c \in calls :
          \/ Check(c) \/ SendTaken(c) \/ SendRejected(c) \/ SendLost(c)
          \/ AddOp(c) \/ CountAdded(c) \/ WakeFlush(c)
    \/ ReadOps \/ FlushTaken \/ FlushRejected \/ FlushLost
    \/ DeleteOp \/ CountDeleted \/ ClearIdMap
    \/ LoadBoard \/ Reopen \/ GoOnline \/ GoOffline

SyncSpec == SyncInit /\ [][SyncNext]_syncVars

-----------------------------------------------------------------------------
\* Properties.

\* Once queued, an op is in the outbox until a flush has the server's answer to
\* it, through lost answers, reloads and flushes that give up halfway.
QueuedOpsAreKept == owed \subseteq KeysOf(outbox)

\* An edit that was queued behind its card's create reaches the server with
\* the card's real id, unless the server refused that create.
EditsFollowTheirCreate ==
    (flusher.pc = "send" /\ flusher.op.kind = "edit"
        /\ "temp" \in DOMAIN Resolved(flusher.op.ref, flusher.ids)) =>
            \/ flusher.op.key \in late
            \/ flusher.op.ref.temp \in refused

\* What the server holds of a card is the newest edit it has seen, whichever
\* were sent at once, queued or sent again: an op is never put back by an
\* older one, unless the older one's call of mutate was still under way when
\* the newer one's began.
NewestEditStays ==
    \A r \in Cards :
        served[r].last # served[r].newest => <<served[r].last, served[r].newest>> \in beside

=============================================================================
