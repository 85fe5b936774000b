----------------------------- MODULE ScopedWriter -----------------------------
(***************************************************************************)
(* The edits of one scope (a bout or a game's document) from a host's page *)
(* to the server: web/ts/state-sync.ts createScopedWriter over             *)
(* createPendingOps.                                                       *)
(*                                                                         *)
(* An edit is queued, mirrored to localStorage and sent with its           *)
(* neighbours as one PATCH, one at a time; an answer acks the PATCH, a     *)
(* failure queues it again under whatever was queued since, a refusal      *)
(* drops it.  A page that is loaded again takes up what localStorage       *)
(* holds.  Tabs of one browser share the storage key.                      *)
(*                                                                         *)
(* An edit is known by its number.  A batch is a function from paths to    *)
(* edits, 0 where it has none; paths do not contain each other, so their   *)
(* order in a batch does not matter.                                       *)
(***************************************************************************)
EXTENDS Naturals, FiniteSets

CONSTANTS
    Tabs,         \* the tabs that have the scope open for editing
    Paths,        \* the paths edited
    MaxEdits,     \* edits in a run
    MaxFailures,  \* PATCHes without an answer, and sends held back
    MaxRefusals,  \* PATCHes the server refuses
    MaxReloads,   \* pages loaded again
    Gated,        \* BOOLEAN: the page asks before it sends (od.ts before)
    Encodes,      \* BOOLEAN: the page translates its edits (options.encode)
    Overtakes     \* BOOLEAN: a PATCH may reach the server after a later one

ASSUME ScopedWriterAssumption ==
    /\ {MaxEdits, MaxFailures, MaxRefusals, MaxReloads} \subseteq Nat
    /\ {Gated, Encodes, Overtakes} \subseteq BOOLEAN

VARIABLES
    queue,     \* each tab's edits not sent yet
    inFlight,  \* each tab's edits sent and not answered
    sent,      \* its PATCH: "no", "asking", "sent", "done", "refused", or
               \* "held": encode had no base for it
    timer,     \* whether a send is scheduled
    storage,   \* the un-acked edits in localStorage
    doc,       \* the server's document
    orphans,   \* PATCHes on their way that no page waits for
    last,      \* the last edit made to each path
    stored,    \* the edits the server has applied
    dropped,   \* the edits refused, untranslatable, or too old after a reload
    bounds     \* edits, failures, refusals and reloads so far

pages == <<queue, inFlight, sent, timer>>
fate == <<last, stored, dropped>>
writerVars == <<queue, inFlight, sent, timer, storage, doc, orphans, last, stored,
                dropped, bounds>>

Nothing == [p \in Paths |-> 0]

\* The second batch laid over the first.
LaidOver(b, c) == [p \in Paths |-> IF c[p] # 0 THEN c[p] ELSE b[p]]

Edits(b) == {b[p] : p \in Paths} \ {0}

\* What a tab shows of its own un-acked edits, and mirrors to storage.
All(t) == LaidOver(inFlight[t], queue[t])

\* persist
Mirror(t) == storage' = All(t)'

Count(k) == bounds' = [bounds EXCEPT ![k] = @ + 1]

WriterInit ==
    /\ queue = [t \in Tabs |-> Nothing] /\ inFlight = [t \in Tabs |-> Nothing]
    /\ sent = [t \in Tabs |-> "no"] /\ timer = [t \in Tabs |-> FALSE]
    /\ storage = Nothing /\ doc = Nothing /\ orphans = {}
    /\ last = Nothing /\ stored = {} /\ dropped = {}
    /\ bounds = [edits |-> 0, failures |-> 0, refusals |-> 0, reloads |-> 0]

-----------------------------------------------------------------------------
\* The host edits a path.
Patch(t, p) ==
    LET n == bounds.edits + 1
    IN /\ n <= MaxEdits /\ Count("edits")
       /\ queue' = [queue EXCEPT ![t][p] = n]
       /\ timer' = [timer EXCEPT ![t] = TRUE]
       /\ last' = [last EXCEPT ![p] = n]
       /\ UNCHANGED <<inFlight, sent, doc, orphans, stored, dropped>>
       /\ Mirror(t)

\* take, and the PATCH goes out.  Storage keeps what it had.
Send(t) ==
    /\ inFlight' = [inFlight EXCEPT ![t] = queue[t]]
    /\ queue' = [queue EXCEPT ![t] = Nothing]
    /\ sent' = [sent EXCEPT ![t] = "sent"]

\* A bug: the edits go out while a PATCH is on its way.
Flush_Overlaps(t) ==
    /\ timer[t] \/ queue[t] # Nothing
    /\ timer' = [timer EXCEPT ![t] = FALSE]
    /\ IF queue[t] = Nothing
       THEN UNCHANGED <<queue, inFlight, sent>>
       ELSE IF Gated
            THEN sent' = [sent EXCEPT ![t] = "asking"] /\ UNCHANGED <<queue, inFlight>>
            ELSE Send(t)
    /\ UNCHANGED <<storage, doc, orphans, fate, bounds>>

\* The debounce ran out, or the tab is hidden: the edits go out unless a PATCH
\* is already on its way.
Flush(t) ==
    /\ timer[t] \/ queue[t] # Nothing
    /\ timer' = [timer EXCEPT ![t] = FALSE]
    /\ IF sent[t] \notin {"no", "held"} \/ queue[t] = Nothing
       THEN UNCHANGED <<queue, inFlight, sent>>
       ELSE IF Gated
            THEN sent' = [sent EXCEPT ![t] = "asking"] /\ UNCHANGED <<queue, inFlight>>
            ELSE Send(t)
    /\ UNCHANGED <<storage, doc, orphans, fate, bounds>>

\* mayFlush: the page may send, or asks again later.
MaySend(t) ==
    /\ sent[t] = "asking"
    /\ Send(t)
    /\ UNCHANGED <<timer, storage, doc, orphans, fate, bounds>>

HoldBack(t) ==
    /\ sent[t] = "asking"
    /\ bounds.failures < MaxFailures /\ Count("failures")
    /\ sent' = [sent EXCEPT ![t] = "no"]
    /\ timer' = [timer EXCEPT ![t] = TRUE]
    /\ UNCHANGED <<queue, inFlight, storage, doc, orphans, fate>>

\* flushScope once it may send, up to encode's answer.
Encode(t) ==
    /\ Encodes /\ queue[t] # Nothing
    /\ IF Gated
       THEN sent[t] = "asking" /\ UNCHANGED timer
       ELSE /\ sent[t] \in {"no", "held"}
            /\ timer' = [timer EXCEPT ![t] = FALSE]

\* null: no base to translate against.  The edits stay queued and nothing is
\* scheduled: another edit, a hidden tab or a reload tries again.
NoBase(t) ==
    /\ Encode(t)
    /\ sent' = [sent EXCEPT ![t] = "held"]
    /\ UNCHANGED <<queue, inFlight, doc, orphans, fate, bounds>>
    /\ Mirror(t)

\* []: the edits translate to nothing, and are acked without being sent.
Unsendable(t) ==
    /\ Encode(t)
    /\ sent' = [sent EXCEPT ![t] = "no"]
    /\ queue' = [queue EXCEPT ![t] = Nothing]
    /\ dropped' = dropped \cup Edits(queue[t])
    /\ UNCHANGED <<inFlight, doc, orphans, last, stored, bounds>>
    /\ Mirror(t)

-----------------------------------------------------------------------------
Reaches(batch) ==
    /\ doc' = LaidOver(doc, batch)
    /\ stored' = stored \cup Edits(batch)

InOrder == Overtakes \/ orphans = {}

\* The window of a PATCH commits (EditBatch).
Apply(t) ==
    /\ sent[t] = "sent" /\ InOrder
    /\ Reaches(inFlight[t])
    /\ sent' = [sent EXCEPT ![t] = "done"]
    /\ UNCHANGED <<queue, inFlight, timer, storage, orphans, last, dropped, bounds>>

\* A 4xx: a bad edit and its neighbours in the PATCH, or whatever failed in the
\* window (routes_api.go answers a PATCH's failure through BadUser).
Refuse(t) ==
    /\ sent[t] = "sent" /\ InOrder
    /\ bounds.refusals < MaxRefusals /\ Count("refusals")
    /\ sent' = [sent EXCEPT ![t] = "refused"]
    /\ UNCHANGED <<queue, inFlight, timer, storage, doc, orphans, fate>>

\* A PATCH no page waits for reaches the server, or does not.
ApplyOrphan(o) ==
    /\ o \in orphans
    /\ orphans' = orphans \ {o}
    /\ \/ Reaches(o)
       \/ UNCHANGED <<doc, stored>>
    /\ UNCHANGED <<pages, storage, last, dropped, bounds>>

-----------------------------------------------------------------------------
\* flushScope's finally: send what was queued meanwhile.
Again(t) == timer' = [timer EXCEPT ![t] = @ \/ queue'[t] # Nothing]

\* A bug: nobody sends what was queued while the PATCH was out.
Answered_Forgets(t) ==
    /\ sent[t] \in {"done", "refused"}
    /\ inFlight' = [inFlight EXCEPT ![t] = Nothing]
    /\ sent' = [sent EXCEPT ![t] = "no"]
    /\ dropped' = IF sent[t] = "refused" THEN dropped \cup Edits(inFlight[t]) ELSE dropped
    /\ UNCHANGED <<queue, timer, doc, orphans, last, stored, bounds>>
    /\ Mirror(t)

\* The answer: ack the PATCH; a refused one is dropped loudly.
Answered(t) ==
    /\ sent[t] \in {"done", "refused"}
    /\ inFlight' = [inFlight EXCEPT ![t] = Nothing]
    /\ sent' = [sent EXCEPT ![t] = "no"]
    /\ dropped' = IF sent[t] = "refused" THEN dropped \cup Edits(inFlight[t]) ELSE dropped
    /\ queue' = queue /\ Again(t)
    /\ UNCHANGED <<doc, orphans, last, stored, bounds>>
    /\ Mirror(t)

\* A bug: the requeued edits replace what was queued since.
Requeue_Clobbers(t) ==
    queue' = [queue EXCEPT ![t] = LaidOver(@, inFlight[t])]

\* ack and requeue: under what was queued since.
Requeue(t) ==
    queue' = [queue EXCEPT ![t] = LaidOver(inFlight[t], @)]

\* Offline, a broken connection or a 5xx.  The server may have applied the
\* PATCH, or may yet.
NoAnswer(t) ==
    /\ sent[t] \in {"sent", "done"}
    /\ bounds.failures < MaxFailures /\ Count("failures")
    /\ Requeue(t)
    /\ inFlight' = [inFlight EXCEPT ![t] = Nothing]
    /\ sent' = [sent EXCEPT ![t] = "no"]
    /\ Again(t)
    /\ \/ sent[t] = "sent" /\ orphans' = orphans \cup {inFlight[t]}
       \/ UNCHANGED orphans
    /\ UNCHANGED <<doc, fate>>
    /\ Mirror(t)

-----------------------------------------------------------------------------
\* A bug: only what is queued is mirrored, so a reload loses what is in flight.
Kept_QueueOnly(t) == queue[t]

\* What a page that is loaded again finds.
Kept(t) == storage

\* The page is loaded again, past the time to live of some edits, and recover
\* schedules a send.  keepalive lets its PATCH finish.
ReloadPage(t, old) ==
    /\ bounds.reloads < MaxReloads /\ Count("reloads")
    /\ queue' = [queue EXCEPT ![t] = [p \in Paths |-> IF p \in old THEN 0 ELSE Kept(t)[p]]]
    /\ inFlight' = [inFlight EXCEPT ![t] = Nothing]
    /\ sent' = [sent EXCEPT ![t] = "no"]
    /\ timer' = [timer EXCEPT ![t] = queue'[t] # Nothing]
    /\ dropped' = dropped \cup ({storage[p] : p \in old} \ {0})
    /\ orphans' = IF sent[t] = "sent" THEN orphans \cup {inFlight[t]} ELSE orphans
    /\ UNCHANGED <<doc, last, stored>>
    /\ Mirror(t)

-----------------------------------------------------------------------------
\* What the page and the network do by themselves.
Page(t) ==
    \/ timer[t] /\ Flush(t)
    \/ (timer[t] \/ sent[t] = "asking") /\ (NoBase(t) \/ Unsendable(t))
    \/ MaySend(t) \/ HoldBack(t)
    \/ Apply(t) \/ Refuse(t) \/ Answered(t) \/ NoAnswer(t)

WriterNext ==
    \/ \E t \in Tabs :
          \/ \E p \in Paths : Patch(t, p)
          \/ \E old \in SUBSET Paths : ReloadPage(t, old)
          \/ Flush(t) \/ NoBase(t) \/ Unsendable(t)
          \/ Page(t)
    \/ \E o \in orphans : ApplyOrphan(o)

WriterSpec == WriterInit /\ [][WriterNext]_writerVars

\* Timers fire, requests are answered or fail, and one on its way arrives or
\* is lost; the bounded failures are the network's, which comes back.
WriterFairSpec ==
    /\ WriterSpec
    /\ \A t \in Tabs : WF_writerVars(Page(t))
    /\ WF_writerVars(\E o \in orphans : ApplyOrphan(o))

-----------------------------------------------------------------------------
Batches == [Paths -> Nat]

\* Every part has its type, and a PATCH is out exactly while edits are in flight.
WriterTypeOK ==
    /\ queue \in [Tabs -> Batches] /\ inFlight \in [Tabs -> Batches]
    /\ sent \in [Tabs -> {"no", "asking", "sent", "done", "refused", "held"}]
    /\ timer \in [Tabs -> BOOLEAN]
    /\ {storage, doc, last} \subseteq Batches /\ orphans \subseteq Batches
    /\ stored \subseteq Nat /\ dropped \subseteq Nat
    /\ bounds \in [{"edits", "failures", "refusals", "reloads"} -> Nat]
    /\ \A t \in Tabs : sent[t] \in {"sent", "done", "refused"} <=> inFlight[t] # Nothing

\* An edit the server never confirmed is not silently dropped by a failure or a
\* reload (state-sync.ts:243-249): the last edit of each path was applied, refused,
\* or is still with a tab.
NoEditLost ==
    \A p \in Paths :
        last[p] \in {0} \cup stored \cup dropped \cup {All(t)[p] : t \in Tabs}

\* While a path has an un-acked edit its cell shows the last one made, across
\* failures, retries and reloads (state-sync.ts:234-241, overlay).
PendingShowsLast ==
    \A t \in Tabs, p \in Paths : All(t)[p] # 0 => All(t)[p] = last[p]

\* Once a path has nothing un-acked, the server holds its last edit, unless that
\* was refused or given up.
LastEditStands ==
    \A p \in Paths :
        (\A t \in Tabs : All(t)[p] = 0) => doc[p] = last[p] \/ last[p] \in dropped

\* The page keeps what it promises of its edits (WriterPromise): what a path shows
\* of the host's own is its last edit, until the server holds that or it is given
\* up, and no PATCH sent before then takes it back (state-sync.ts:225-249).  A path
\* shows what its tabs have un-acked; with one tab, what that tab has.
Shown == [p \in Paths |-> LET of == {All(t)[p] : t \in Tabs} \ {0}
                         IN IF of = {} THEN 0 ELSE CHOOSE n \in of : TRUE]

Promise == INSTANCE WriterPromise
             WITH newest <- last, shown <- Shown, held <- doc, givenUp <- dropped

KeepsEdits == Promise!Spec

\* Every un-acked edit is applied, refused or given up in the end, whatever was
\* queued, held back or lost meanwhile, unless the page could not translate it yet.
\* Such edits "stay queued for a later flush" (state-sync.ts:441), which only a new
\* edit, a hidden tab or a reload brings: once one does, they settle or are held
\* again.
Held(t) == sent[t] = "held" /\ ~timer[t]

EditsSettle == \A t \in Tabs : All(t) # Nothing ~> All(t) = Nothing \/ Held(t)

=============================================================================
