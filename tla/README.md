# dopesuite in TLA+

A verification development kept beside the code of dopesuite: TLA+ modules that
follow the source, TLC configurations that check them on small instances, and
TLAPS proofs of what should hold for every instance. Paths below are relative
to the repository; `PROJECT.json` maps each definition to the lines it stands
for.

1. [The system](#1-the-system)
2. [Modules](#2-modules)
3. [Runs](#3-runs)
4. [Fairness](#4-fairness)
5. [Proofs](#5-proofs)
6. [What the models show about the code](#6-what-the-models-show-about-the-code)
7. [What is not modelled](#7-what-is-not-modelled)
8. [Plan](#8-plan)

## 1. The system

dopesuite is four small web services and the libraries under them, each a Go
process with one SQLite database and browser pages in TypeScript:

| part | what it is |
|---|---|
| `dope/` | tournaments: hosts enter results on live pages, viewers watch them |
| `xy/` | boards of cards (question editing), polled by deltas |
| `spliff/` | shared expenses of a group |
| `qy/` | a contest of questions: nominations, reviews, votes |
| `dopecore/` | what they share: SQLite pool, sessions, login by telegram, blobs, invites |
| `chgksuite*`, `dopeuikit`, `scripts` | document tools, markup kit, build |

`dope` carries the concurrency the others do not have, and its live path is the
core of this development:

```
 host page                        server process                     viewer page
 ---------                        --------------                     -----------
 createPendingOps                 edit batcher (per game)            createLiveEvents
   queue / in flight  --PATCH-->    window -> goroutine                 seq, epoch
   localStorage mirror              | connection, write lock            resync, wake
 createScopedWriter  <--answer--    | one transaction, savepoints       ^
                                    | journal rows (triggers, patches)  |
                                    | unlock                            | SSE
                                    +-> broadcast, under the next seq --+
                                    +-> fest view rebuilt, cached
 history page  --revert-->        checkpoint + replay of the journal
                                  archiver: folds old journal rows
```

### Components: state, operations, what makes them right

**Edit batcher** (`dope/dope/web/editbatch/editbatch.go`). State: the open
window of each game, the goroutine of every flushed one, the write lock, what a
window ran and kept, each job's answer channel. Operations: enqueue, hang up,
flush, take a connection, lock, run a job in a savepoint, settle, commit, load
post-images, unlock, broadcast, answer, recover from a panic. Hard: a second
window opens while the first is applied; one job of a shared transaction fails;
the answer lies between two series of broadcasts; a panic under the lock. Right
when 200 means committed and an error means not committed, windows do not mix,
an editor's event precedes its answer, viewers hear of everything and of
nothing uncommitted, and every request is answered.

**Document feed** (`domain/core/broadcast.go`, `web/ts/state-sync.ts`,
`web/ts/game-shell.ts`). State: the document, the scope's seq and the process's
epoch, the subscriber's buffer, the page's document, `stateSeq` and epoch, a
resync in flight. Operations: broadcast of a delta or a document, drop of the
oldest event, disconnect, server restart, dispatch of an event, resync, wake
recovery, revalidation, adoption of a PATCH's response. Hard: events lost,
events during a resync, a document and its seq being two reads, a restart that
starts every seq over. Right when a page's document holds everything up to the
seq it claims, and a page at the last seq shows the database.

**Write path** (`storage/store`'s pool, `domain/core/writetx.go`, `commit.go`,
`server/scoped_api.go`, `matchview.go`). State: pooled connections, the global
write lock, the fest revision, the cached fest view. Operations: take and give
back connections, lock, commit, reload under the lock, rebuild the view after
it, fill and invalidate the cache, fold the journal. Hard: a request that holds
a connection needs a second one; a wait for a connection under the lock; a
cache filled by who read before the write. Right when nobody waits in a circle,
the lock is always freed, and a write reloads its own revision.

**Scoped writer** (`createScopedWriter` and `createPendingOps` in
`web/ts/state-sync.ts`). State: edits queued and in flight, the localStorage
mirror, the debounce timer. Operations: edit, flush, hold back, answer, refusal,
failure and requeue, reload of the page. Hard: a PATCH whose fate is unknown, a
page closed while one is out, two tabs on one key. Right when no edit is lost, a
cell shows the last edit while it is un-acked, and the server ends up with it.

**Journal and revert** (`storage/journal`, `domain/core/revert.go`,
`web/pages/journal.go`). State: the game's rows and documents, the journal, the
checkpoints, which rows are still hot. Operations: windows, redraws, clears,
reverts, folds. Hard: a revert journals its own statements, but not its
patches; reverts of reverts; the archiver removes rows between an edit and its
undo. Right when undo makes the game exactly what it was.

**Slot resolver** (`dope/dope/domain/resolver`, `domain/scoring`,
`domain/matchedit`). State: which bouts are finished, who sits where, the rows
of `match_results`, the reseed table. Operations: tick, untick, calculate; each
ends in one walk over the schedule. Hard: a correction upstream, in any order,
after bouts downstream have results. Right when each seat whose source is final
has the team that source names, and no team is swapped under a result.

**Venue outbox** (`web/ts/offline.ts`, `venue-page.ts`, the team handlers).
State: the queued changes, client ids with a server id, the one on its way.
Operations: create, save, remove, number, send, answer, lose, settle, refresh.
Hard: the head changes while it is on its way; an answer lost after the server
took the change. Right when the sent outbox leaves the server as the host made
it.

**xy board** (`xy/internal/server`: `boardrev.go`, `cards.go`, `comments.go`,
`sessions.go`, `reap.go`, the triggers of `db.go`). State: cards, lists, sessions
and comments with tombstones, `boards.rev`, `boards.reaped_rev`; a device's base,
its board page, its search index. Operations: all writes of those rows, the
reaper, full and delta reads, the index's refreshes. Hard: checks outside the
transaction, a cursor older than what the reaper destroyed, foreign keys that
cascade past the tombstones, refreshes that cross. Right when a delta gives what
a full read gives, and a reply keeps its root.

**xy offline engine** (`xy/web/ts/sync.ts`, `store.ts`). State: the outbox, the
temporary ids' map, the cached queue length, the calls and the flush under way.
Operations: mutate, enqueue, flush with its awaits one by one, load, reopen,
network changes. Hard: every await, and that calls of mutate overlap. Right when
a queued op is kept until answered, an edit reaches the card its create made,
and no op overtakes one whose call of mutate had ended before its own began.

**Spliff** (`spliff/spliff/domain/group`, `domain/ledger`, `storage/store`,
`server/invites.go`). State: member rows, owner, bills with tombstones; the
exact column and the transfer list. Operations: join, claim, leave, remove, hand
over, record, edit, delete, restore, delete the group; add up, round, settle.
Hard: a restored bill names somebody who has left; rounding. Right when every
live bill names members and the balances sum to zero.

**Invite links** (`dopecore/invitelink`, used by dope, xy and spliff). State: the
links, their uses, who is in. Operations: mint, revoke, expire, delete, follow,
approve, decline, and who comes and goes by other ways. Hard: a cap over a
queue, several links and one person. Right when a cap holds and an answer stands.

**Realtime manager** (`dope/dope/platform/realtime/manager.go`, the stream
handlers of `server/main.go`). State: the subscriber table, a bounded channel per
stream, the tally's last time and timer, the hosts' presence streams. Operations:
admit, subscribe, pump, unsubscribe, fan out to an audience, tell the tally, tell
a cursor. Hard: sends that come after the lock they were listed under, streams
that leave meanwhile, full channels, a throttle with a leading and a trailing
edge. Right when a page at rest shows the true number of viewers, and nothing is
sent on a closed channel.

**Static mode governor** (`server/static_mode.go`). State: the mode and its
counters, the page snapshots, the builds in flight. Operations: flip, shed the
viewers, build a snapshot on a miss, share a build, refresh, evict. Hard: builds
read the database with no lock held. Right when a snapshot is not replaced by an
older one.

How they meet: everything a service keeps is behind one write lock or one write
transaction, pages reach it by HTTP only, and the realtime manager is the only
way back from dope's server to a page. An invite link admits into a fest, a
board or a group through `Scope` callbacks inside the caller's transaction. The
resolver runs inside the transaction of an edit window. xy's engine sends to the
same handlers the board page reads from; its outbox and its mirror are in
IndexedDB, the venue's outbox in localStorage.

**Not modelled**: *festival operations and game building*, *games and scoring rules*,
*imports and exports*, *access*, *qy*, *login codes and the blob store*.
`PROJECT.json` lists them all with the reason, and under `hazards` what can go
wrong at which line.

## 2. Modules

| module | models | checked by | proofs |
|---|---|---|---|
| `EditBatch` | one game's windows | `MC_EditBatch` | `EditBatch_proofs` |
| `EditPromise` | what the batcher promises its editors, abstractly | refined by `EditBatch` | `EditBatch_proofs` |
| `StateFeed` | one scope, server to one page | `MC_StateFeed` | `StateFeed_proofs` |
| `WritePool` | connections, write lock, cached view | under `Writes` | `Writes_proofs` |
| `ScopedWriter` | one scope's edits, page to server | under `Writes` | `Writes_proofs` |
| `WriterPromise` | what a page promises about those edits, abstractly | refined by `ScopedWriter` | `Writes_proofs` |
| `Writes` | the two ends of a host's write, side by side | `MC_Writes.cfg` | `Writes_proofs` |
| `Journal` | one game's journal and reverts | `MC_Journal` | `Journal_proofs` |
| `Bracket` | a game's slots, results and reseed table | `MC_Services`, `MC_Bracket` | `Services_proofs` |
| `Outbox` | a venue's team changes, page to server | `MC_Services` | `Services_proofs` |
| `BoardRev` | the numbering of an xy board | under the next two | with the next two |
| `BoardCards` | cards, lists, a device's base | `MC_Services` | `Board_proofs` |
| `BoardComments` | comments, sessions, the reaper, a device's index | `MC_Services` | `Board_proofs` |
| `BoardSync` | one device's outbox of ops and its flush | `MC_Services` | `Board_proofs` |
| `SpliffLedger` | the ledger's arithmetic, as operators | through the next two | with the next two |
| `SpliffDebts` | reading a group to the end, step by step | `MC_Services` | `Spliff_proofs` |
| `SpliffGroup` | members, owner, bills | `MC_Services` | `Spliff_proofs` |
| `InviteLink` | one scope's links and their uses | `MC_Services` | `Spliff_proofs` |
| `Viewers` | one fest's streams, tally and lockdown | `MC_Services` | `Services_proofs` |
| `HostPresence` | the hosts' streams and cursors | `MC_Services`, `MC_HostPresence.cfg` | `Services_proofs` |
| `Snapshots` | one route's static page | `MC_Services` | `Services_proofs` |
| `Services` | the smaller parts, `Bracket` to `Snapshots`, side by side | `MC_Services` | `Services_proofs` |

`Writes` puts `WritePool` and `ScopedWriter` side by side, and `Services` the eleven
modules of smaller parts; `MC_Services` gives those their instances. A module of
proofs takes the modules of one part of the system together; `Sums_proofs` holds
only the lemmas they share.

The modules meet at these seams. `ScopedWriter`'s `Apply` is one window of
`EditBatch` as the page sees it. `EditBatch`'s `TellTouched` and `TellRest` are
`StateFeed`'s `Broadcast`. `EditBatch`'s connection, lock and fest broadcast are
told in detail, for all kinds of requests at once, by `WritePool`. A window of
`Journal` is the transaction between `EditBatch`'s `TakeLock` and `Commit`, and
`Bracket`'s `ResolveGameSlots` is part of it. `BoardCards` and `BoardComments`
share `BoardRev`'s numbers: each lets the other's writes happen, as changes of
the number it does not look into. `Viewers` has the channels `StateFeed` sees as
one lossy step, and the mode under which `Snapshots` are served. `SpliffGroup` asks `SpliffLedger` whether
somebody is level, `SpliffDebts` follows its loops.

### EditBatch, EditPromise

A window is named by the job that opened it, so `batch`, `pc`, `ran`, `kept` are
functions over jobs: the local variables of `applyEditBatch`. `Submit` is
`submit`/`enqueueEdit`, `HangUp` the `reqCtx.Done()` branch; one action for each
stretch of `applyEditBatch` between two points where another goroutine may run.
`Abandon` is each error path's unlock and `failBatch`. What a job writes is left
out: the batcher itself looks only at whether it was kept. `EditPromise` has no
windows: writes are committed several at a time, each at most once, and told
"ok" only if committed and "refused" only if never to be; `KeepsPromise` is the
refinement with `log <- db` and `told <- Told`.

### StateFeed

A commit is a number and a document is, at each path, the number of the last
commit that wrote it; so "behind" and "ahead" can be compared. `Message` is one
SSE event. `Receive` is `dispatch` in `createLiveEvents`: epoch check, duplicate,
gap, apply. `FetchSeq`/`FetchDoc` are `scopedGameState`'s two reads in their
order, `InitSeq` is `buildGameInit`'s second read, and `BootRace` allows a
broadcast between the two. `Snapshots`, `Editing` and `Revalidates` switch on
whole-document writes, the page's own PATCHes and the revalidation of a
cached first render. `astray` is history: the page took a document that came
without a seq (a PATCH's response, a revalidation), or passed over a whole
document of a new process for its old seq, and no resync has set it right since.

### WritePool

`at` is where a request is, `held` which connections it holds. Windows close
their connection last (`editbatch.go:326` defers it), structural writes reload
under the lock with a deadline, archivers take the lock before a connection,
readers rebuild the view. A view is the revision it was read at.

### ScopedWriter

An edit is a number; a batch is a function from paths to edits. `storage` is the
`localStorage` key all tabs of the browser share. `orphans` are PATCHes no page
waits for any more. `Gated` is a page that passes `mayFlush` (`od.ts`),
`Overtakes` lets a PATCH arrive after a later one. `Encodes` is a page with an
`encode` option: `NoBase` is its `null`, after which the edits are back in the
queue, the timer is not set and `sent` is `"held"`; `Unsendable` is its empty list,
which acks edits that are never sent. `last`, `stored` and
`dropped` are history. `WriterPromise` has no queue, PATCH, timer or storage: a
path has its newest edit, what it shows of the host's own, and what the server
holds. `KeepsEdits` is the refinement, with `newest <- last`, `held <- doc`,
`givenUp <- dropped`, and `shown <- Shown`, what the overlay of the un-acked edits
puts at the path.

### Journal

A match is its state document (`blob`) and its other columns with slots and
results (`rows`), valued by the request that wrote them. `Exec` is one SQL
statement with what the triggers keep of it; `Perform` a transaction of them.
`Reverted` is the transaction of a revert, the statements `ReconstructGameStateAt`
runs and the event, journaled as the triggers journal them; `Revert` commits it. `was` is history: the game before any journal row and after
each, which a revert to that row should bring back. `Offered` are the targets the history
page offers.

### BoardRev, BoardCards

`rev` and `reapedRev` are the columns of `boards`; a row's `rev` and `crev` are
what the triggers stamp. A handler asks `requireChildAccess` before it waits for
the write lock: `Handle` is one whose transaction follows at once, `Admit` and
`Commit` are one with other writes between. Several numbers given by one
transaction are one number: nobody reads between them. `Fetched` is the whole
answer and merge, so `DeltaReadsAsFull` is stated of every state, for whatever
the device holds in it. `unrecorded` is history: cards a reaped list took along
(section 6).

### BoardComments

A comment has a card or a session, a root or none. `ReapComments` is `reapOnce`'s
transaction with the cascades of the foreign keys: `WithACard`, `WithASession`,
then `ExpiredComments`; it cannot be taken when a reply would dangle
(`Dangling`). `AskComments` and `TakeComments` are one refresh with the answer on
its way, `RefreshComments` another page's whole one between. The tables with
their half-run handlers (`CommentsNext`) and the tables with a device
(`IndexNext`) are two next-state relations over the same actions. `swept` and
`dropped` are history.

### BoardSync

`calls` is the set of `mutate`s under way and `flusher` the flush, each with the
await it stands at; nothing in the code keeps two calls apart, and nothing does
here. `Reopen` is a page that closed anywhere and opened again. A card is known by
its real id or by the op that created it. The history is for the properties:
`owed`, the ops queued that no flush has an answer for; `refused`; `late`; and
`beside`, which op's call was still under way when which other's began.

### SpliffLedger, SpliffDebts, SpliffGroup

A rational of the ledger is a numerator over a denominator common to its column,
and `HandOut` is the largest remainder method both `roundColumn` and
`split.Allocate` use. `SpliffDebts` takes the loops of `Balances` and `Transfers`
a step at a time. In `SpliffGroup` every operation is one transaction; the
dispatcher's check comes before it and may be old, so no action names a caller.

### InviteLink

One action per operation of `Links`. `uses` keeps what a link said to each
person. `AddedByName` and `GoesOut` are how the scope's own business changes who
is in.

### Outbox

`ops` is the queue, `sending` the change on its way with its answer; `want` is
what the host last made of each team. `OpenEditor` takes the row as the page
names it then, `HostSaves` and `HostRemoves` use what the dialog holds, whatever
was flushed and redrawn under it. `Lose` is every way an answer does not
come, after which the change is sent again. `blurred` marks the teams of the
three lapses of section 6, where the device's word does not reach the server.

### Bracket

`Source` says what fills each seat; `ResolveGameSlots` folds `ResolveStageSlots`
over the schedule. `place` keeps what the scorer wrote, also of teams that have
left the bout. `CalculateReseed` leaves the order open: the scores can give any.

### Viewers, HostPresence, Snapshots

`standing` is where the handler of a stream is, one action for each stretch
between two points where another goroutine may run: the mode is looked at, the
table entered, the tally scheduled, the pump started, and the same back. `telling`
counts the `BroadcastViewerCount`s that are to run, `quiet` and `timer` are the
throttle. Fan-outs that hold `subMu` are one action; `BroadcastTo` lists and then
sends. `HostPresence` has the same two halves for the hosts, whose channels are
closed when they leave. In `Snapshots` a request is known by how far it is in
`staticSnapshot`, a snapshot by the version of the document it was built from.

## 3. Runs

| run | expect | question | bounds | states |
|---|---|---|---|---|
| `editbatch` | pass | types, windows whole, answers after events, everything told, the promise | 3 jobs, 2 matches, 1 panic, symmetry of the two like jobs | 1.0 M |
| `editbatch_live` | pass | every job is answered | a match edit and a document edit, one client may leave, no panic | 850 |
| `statefeed` | pass | a page holds its seq, shows the database, never goes back | 2 paths, 2 commits, 2 losses, 1 restart, whole documents, the page's own PATCHes, a revalidation | 2.1 M |
| `statefeed_live` | pass | what a page hears its document holds | 2 paths, 2 commits, 1 loss, 1 restart, whole documents, the page's own PATCHes | 223 k |
| `statefeed_boot` | violation | the same with an event between the init payload's reads | 1 path, 2 commits | |
| `writes` | pass | types of both ends; no wedge, lock freed, writes end, reload is own; no edit lost, cells do not regress, last edit stands, edits settle, the page's promise | 2 connections, 1 window, 2 structural writes, an archiver; 1 tab that encodes, 2 paths, 3 edits, 2 failures, 1 refusal, 1 reload | 77 k |
| `writepool_wedge` | violation | writes end, with as many finishing windows as connections | 2 connections, 2 windows | |
| `journal` | pass | undo is exact | 2 matches, 4 requests | 565 k |
| `journal_folded` | violation | the same with folded rows | as above | |
| `services` | pass | the other twelve machines, below | below | 1.24 M |
| `bracket_stuck` | violation | who took a place moves on | 3 bouts, 3 teams | |
| `host_channel` | violation | no send on a closed channel | 2 streams, 2 hosts, 1 POST each | |

Why the bounds are enough to be interesting:

* `editbatch`: three jobs give two windows of one game of which one has two
  jobs, a third window behind, a job that fails beside one that does not, a
  cascade to the other match, a finish, and a panic in any place with the other
  windows waiting behind the lock it leaves taken.
* `editbatch_live`: two windows contend for the lock; a longer queue adds no
  place to wait. A panic is left out because it is exactly what takes the
  property away (section 6).
* `statefeed`: two paths tell a delta applied from a document adopted; two
  commits and two losses give a gap, a late event and a duplicate, before and
  after a resync; the restart makes an old page's seq larger than the new
  process's. All the ways a page takes a document are on, so that `astray` is put
  to the test: a way that does not mark the page makes it show less than its seq.
* `statefeed_live`: the same without the revalidation, which liveness checking
  makes too large; it marks the page as the PATCH's response does.
* `writes`: two machines that share no state, one chosen at the start. Two
  connections is the smallest pool in which one request can hold one and wait for
  another while a third request has the rest; the code's is eight, and `PoolMoves`
  proves the property for every size. On the page: an edit over an edit in flight,
  a failure after it, a second failure, and a reload between; the second path makes a PATCH of two edits of
  which one is older than the time to live.
* `journal`: four requests are an edit, something across it (redraw, clear, a
  second window, a revert), a revert, and a revert of that; `Legacy = 1` puts a
  row before the first checkpoint.

`services` is a sum, not a product: twelve machines that share no state, one of
which is chosen in the initial state while the others rest, so each has its
whole state space and its properties are checked in all of it.

| machine | properties | bounds | states |
|---|---|---|---|
| `BoardCards` | `DeltaReadsAsFull` | 1 card id, 2 lists, 2 texts, 1 label, 3 changes, 1 reaping period, 1 handler waiting | 265 k |
| `BoardComments`, tables | `RepliesHaveTheirRoot` | 2 events, 1 card, 1 session, the same periods and changes | 55 k |
| `BoardComments`, index | `CommentIndexReadsAsServer` | the same with a device, a refresh under way and others between | 20 k |
| `BoardSync` | `QueuedOpsAreKept`, `EditsFollowTheirCreate`, `NewestEditStays` | 3 ops, 2 calls at once, 1 server card, the network at will, a reopening anywhere | 542 k |
| `SpliffDebts` | `BalancesAreFair`, `SettlesInFewLines` | 3 members; every bill of amounts up to 3 at rate 2/3, every pair of bills of amounts up to 1 at rates 1, 2/3 and 1/2 | 83 k |
| `SpliffGroup` | `LiveBillsNameMembers`, `OneRowEach` | 3 rows, 2 bills of 3 kinds, 3 accounts, with and without a rate table | 3.5 k |
| `InviteLink` | `SeatsWithinCap`, `AnswersAreFinal` | 2 links, cap none or 1, 2 people | 49 k |
| `Outbox` | `OutboxArrives` | 2 teams, 2 bodies, 4 things the host does, a dialog over any flush, losses unbounded | 134 k |
| `Bracket` | `SeatsAreCurrent`, `NoSwapUnderAResult` | 3 bouts of 2 seats, 3 teams, a reseed table of both losers | 27 k |
| `Viewers` | `FinalCountIsShown` | a viewer and a host of one game, channels of 2, 1 event, 1 flip | 43 k |
| `HostPresence` | (types; `host_channel`) | 2 streams, 2 hosts, 1 POST each | 352 |
| `Snapshots` | `SnapshotNeverOlder` | 3 requests, 3 writes | 1.0 k |

The bounds give each its hard case: a list reaped with its cards and an id used
again; a root and its reply expiring one period apart; a create queued offline
with two edits behind it, each await interruptible; two bills with different
denominators; a member who leaves, returns and meets a Phantom; a queue longer
than the cap; a creation edited while its answer is lost; a correction two rounds
above a bout that has a result; a viewer that comes and goes within one cooldown
of the tally; a request that missed before another's build was stored and asks
again after it. A stream is one connection, so two of them are enough for one to
leave while the other is told, and a channel of two fills with a tally and an
event.

Deadlock checking is off where every submitted request is answered, or every
machine has used up its bounds, and the run is simply over.

Each property of a passing run has a mutant: a definition `X_Something` beside
the action `X`, with the bug a hurried edit of that code could make, under which
the run finds the property violated.

## 4. Fairness

`Writes` states that of `WritePool` and of `ScopedWriter` for the machine that
moves.

* `EditBatch`: weak fairness of each window's step is that a timer fires and a
  goroutine that can run runs. `TakeLock` has strong fairness: Go's
  `sync.Mutex` hands itself to a waiter that has starved for a millisecond, so a
  lock that is free again and again is got. `Submit`, `HangUp` and `Panic` have
  none.
* `StateFeed`: weak fairness of broadcasts (the same goroutine), of the page's
  callbacks and of a reconnect. Losses are bounded by `MaxLosses`, and
  `HeardIsShown` speaks only of the time after the last one; commits have none.
  It is given up where the server restarts again, events go out of commit order,
  or the page goes astray: what a resync would put right, and nothing else has to.
* `WritePool`: weak fairness of a request's own work, strong fairness of getting
  the mutex and of getting a connection (`database/sql` gives what is
  returned to a waiter picked at random, before new callers).
* `ScopedWriter`: weak fairness of what the page and the network do by
  themselves. `Page` contains `Flush` only under a set timer: that an edit gets
  sent must come from a timer the code set, not from a flush when the tab is
  hidden. Where no timer is set, after `encode` found no base, `EditsSettle`
  says so: the edits settle or are `Held`.
* `services`: none. Its properties are safety; of a device that may stay offline
  for ever the code promises no progress.

## 5. Proofs

Every theorem is checked by `tlapm` to the last leaf, for every value of the
constants its module's `ASSUME` admits.

| theorem | says | argument |
|---|---|---|
| `EditBatch_proofs!TypeCorrect` | `[]TypeOK`, with the lock held only by a window inside its transaction or dead in it | the type invariant is inductive once a window's place says what it may hold |
| `EditBatch_proofs!BatcherKeepsPromise` | `Spec => KeepsPromise` | below |
| `EditBatch_proofs!AnswersComeAfter`, `!AllIsTold`, `!WindowsNeverMix` | `AnswerFollowsBroadcast`, `EverythingTold`, `WindowsStayWhole` | below |
| `EditBatch_proofs!NoneForgotten` | `[]NoJobForgotten`: a request without an answer is in the open window, whose timer runs, or in one whose goroutine has yet to answer it | below |
| `StateFeed_proofs!TypeCorrect`, `!NeverAstray`, `!SeqIsTrue`, `!LastSeqIsDb`, `!NeverBack` | types; a page never goes astray, `PageHoldsItsSeq`, `UpToDateShowsDb`, `SeqNeverBack`, for a plain viewer (`PlainViewer`: it does not edit or revalidate, no event falls between the init reads, and no whole-document write if the server restarts) | below |
| `Writes_proofs!PoolTyped`, `!ReloadsItsOwn`, `!PoolMoves` | types and one lock holder; `ReloadIsOwn`; `PoolNotWedged`, if there are fewer windows than connections (`FewWindows`) | below |
| `Writes_proofs!WriterTyped`, `!NoneLost`, `!ShowsLast`, `!LastStands` | types; for one tab (`OneTab`) `NoEditLost`, `PendingShowsLast`; with PATCHes in order (`~Overtakes`) `LastEditStands` | below |
| `Writes_proofs!PageKeepsEdits` | for one tab and PATCHes in order, `WriterSpec => KeepsEdits` | below |
| `Writes_proofs!WritesImplement`, `!WritesTyped` | `WritesSpec => Spec /\ WriterSpec`; `[]WritesTypeOK` | below |
| `Journal_proofs!JournalTyped`, `!UndoExact` | types, the newest row hot; `UndoIsExact` | below |
| `Services_proofs!BracketTyped`, `!SeatsCurrent`, `!NoSwap` | types; `SeatsAreCurrent`; `NoSwapUnderAResult` | below |
| `Board_proofs!TypeCorrect`, `!DeltaIsTheBoard` | types of the cards; `DeltaReadsAsFull` | below |
| `Board_proofs!CommentsTyped`, `!RootsStay` | types of the comments; `RepliesHaveTheirRoot` | below |
| `Board_proofs!IndexTyped`, `!IndexReadsAsServer` | types with a device; `CommentIndexReadsAsServer` | below |
| `Board_proofs!SyncTyped`, `!NoOpIsLost`, `!EditsFollow`, `!NewestStays` | types; `QueuedOpsAreKept`, `EditsFollowTheirCreate`, `NewestEditStays` | below |
| `Spliff_proofs!GroupTyped`, `!BillsNameMembers`, `!OwnerStays`, `!OneRow` | types; `LiveBillsNameMembers`, `OwnerIsAMember`, `OneRowEach` | below |
| `Spliff_proofs!DebtTyped`, `!BalancesFair`, `!FewLines` | types; `BalancesAreFair`; `SettlesInFewLines` | below |
| `Spliff_proofs!InviteTyped`, `!WithinCap`, `!AnswersStand` | types; `SeatsWithinCap`, `AnswersAreFinal` | below |
| `Services_proofs!OutboxTyped`, `!VenueArrives` | types; `OutboxArrives` | below |
| `Services_proofs!ViewersTyped`, `!CountIsShown` | types, channels within their bound; `FinalCountIsShown` | below |
| `Services_proofs!HostTyped` | types of the hosts' streams | inductive as they stand |
| `Services_proofs!SnapshotsTyped`, `!NeverOlder` | types; `SnapshotNeverOlder` | below |
| `Services_proofs!ServicesImplement`, `!ServicesTyped`, `!ServicesHold` | side by side, each service runs as specified; `[]TypesOK`; every property of `services` | below |

**The batcher's promise.** "Refused means not committed and never to be" is not
inductive: it must be known that a window that answered has nothing left to
commit, that no two windows hold one job, and that what a window kept is
committed exactly in its places after the commit. The invariant has these as
named parts: `NewInv`, a job not submitted has left no trace; `OpenInv`, the open
window has no job twice and none of another's; `WindowInv`, the lock, how far a
window has run and that what it kept is from its batch; `BatchInv`, a window
before its commit has none of its jobs answered or in `db`, and after it exactly
those it kept; `AnswerInv`, what an answer says of `db`. Each action then maps to `Ask`, `Apply`,
`Tell` or a stutter. On top of that invariant, `TellInv` keeps each window's
account of its events (what it has to tell is told or in `toTell`; it is told of
only once its kept jobs are committed), and `PlaceInv` says that a window keeps
its jobs in arrival order and that they lie together in `db`. `NoJobForgotten` is
the safety half of `EveryJobAnswered`, with panics in: no step takes a job out of
the open window or out of a batch before it has its answer, `recover`'s included.
What liveness adds is that the goroutine gets on.

**The feed.** `PageHoldsItsSeq` speaks of a page at rest; what keeps it true is
what a message on the wire and a fetch in flight hold. A message of this process
with seq `s` is the `s`-th of the log; a fetched document holds everything the
scope had sent up to the seq read before it, and everything whose broadcast died
with an earlier process (`Lost`); no document is ahead of the database
(`Behind`). `PageHoldsItsSeq` excepts a page that is `astray`; a plain viewer never
is (`NeverAstray`), so that of it the theorems say it always. A page of an older epoch is exempt, and the epoch check puts it back
through a fetch. `SeqNeverBack` rests on `ForwardInv`: a fetch in flight has a seq
no lower than the page's, which stands still until the fetch is over, and a page in
the process's epoch is not beyond its log.

**The pool.** `HeldInv` says which place holds how many connections: a
window that waits for its second one holds one, anyone else that waits without a
bound holds none; `LockInv` and `KindInv` say where the lock is held and who can
be where. If all connections were held by requests waiting for
another, there would be as many windows as connections: a cardinality argument
over an injection from connections to windows. `ReloadIsOwn` needs
`OwnInv`: between its commit and its unlock a structural write's revision is the
last.

**The page.** With one tab the storage equals what the tab has un-acked
(`Mirrored`). `DoneIsStored`:
an applied PATCH is in `stored`. `DoneStands` and `SettledStands`: what the
server's document holds at a path is the newest of what it was sent, so once
nothing is un-acked it is the last edit.

**The page's promise.** `PageKeepsEdits` maps each action of the writer to `Edit`,
`Store`, `Settle` or a stutter of `WriterPromise`. It needs `Numbered`: nothing the
page sends and nothing the server holds is newer than the path's last edit, so a new
edit has a number above all. An answer settles a path only if
the PATCH's edit is its last (`LastEditStands`); a failure moves edits between
the queue and the wire, which `Shown` does not see. With two tabs a
path shows two values, and with PATCHes out of order an old edit reaches a settled
path: both hypotheses are needed, and the code ensures neither (section 6).

**The journal.** `UndoIsExact` needs to know what a row is worth to a replay.
`JournalInv` has it in four parts. `TypedInv`: the types, and no value of a
request to come anywhere. `HotInv`: the newest row is hot, and what is folded is
older than all that is hot. `CheckInv`: a checkpoint is the game its id left.
`TellInv`: each row either says what it did (`Tells`: replayed on the game before
it, it gives the game after it, unless it is `unsaid`) or is `Rewritten`, one of
those a revert wrote, whose patches were not journaled; these end with an event
row that has a checkpoint. The page offers the id before the first row of a
request, and such an id is never inside a revert's rows, so the nearest checkpoint
is at or after the last `Rewritten` row before it. From there on the deletes of
the restore clear the game, its inserts bring back the checkpoint, and each
replayed row takes the game to the next one of `was`; the event after them changes
nothing. So it is of `Reverted`, the transaction the revert commits. A transaction is a fold of
`Exec` over its statements; the proofs take it as a walk, the transaction after each
statement, and show once what a walk keeps.

**The bracket.** `SeatsAreCurrent` is kept by every operation because each ends in
the resolver. Its two folds, over the stages and the slots of a stage, are walks
too: each bout is touched once, all that feeds it comes earlier in the schedule
and is not touched afterwards, so at the end of the walk each seat agrees with
its source, and the bouts before the one edited have not moved.
`NoSwapUnderAResult` needs only what one visit of a bout does.

**The board.** `DeltaReadsAsFull` follows from what the numbers mean. A row's
`crev` is at most its `rev`, and both at most the board's; a card the device's
base disagrees with in text has a `crev`, and one it disagrees with in anything a
`rev`, above the base's number; a card the base has and the table has not was
recorded in `reapedRev` above that number, or is in `unrecorded`. Each write gives
a number above every base's, and the reaper raises `reapedRev` to the highest
number it destroys. The three cases of the merge then each agree with the full
read.

**The comments.** A reply's root could go by a cascade, by the reaper or by being
overwritten. Ids are never used twice (`lastId`), a reply is on its root's card,
so what cascades with the card takes both; the reaper keeps a root some unexpired
reply anchors, and does not run when a session's cascade would leave a reply.
What a waiting handler was admitted on is part of the invariant: an answer to a
root that has gone meanwhile is refused by the foreign key.

**The comment index.** `RowsInv` says what the tables keep when handlers run
whole, `HeldInv` that each comment the index holds reads as its row does for
somebody who has heard of everything up to the index's number: the row has a
higher number and will be sent, or it was reaped above that number and the next
answer is a full one, or the two agree. `AnswerInv` says the same of the answer on
its way for what it carries. What it is silent about it vouches for only while the index
stands where it was asked from; when another page's refresh has moved the index,
taking the older answer does no harm, since a number only grows. `swept` and
`dropped` exempt the comments of section 6.

**The offline engine.** Eight conjuncts beside the types. `KeysInv`: an op is in one
call and in one place of the queue. `OrderInv`: whatever is queued or sent behind
something else comes `After` it, that is, is newer or was under way beside it; a
call that has passed the check has only such ops queued ahead of it, because the
queue was empty then and later ones were beside it or newer. `TempInv`: a
temporary id is that of a create whose call is over. `FlushInv`: the op on its
way is the head of the queue, and the flush has the map that is stored.
`CountInv`: while the cached length is 0, what is queued was added by calls that
have yet to count it. `FollowInv`: a queued edit's card has its real id or gets it
first. `NewestInv`: what is still to be sent comes `After` what the server holds.
`QueuedOpsAreKept` is the eighth: each await of `flush` and `mutate` leaves an op
in the outbox, in hand or answered.

**The group.** `LiveBillsNameMembers` is kept by `Valid`, by what a restore asks,
and by `MayLeave`, whose second condition does not depend on the rate table.
`OneRowEach` needs that a row is free only beyond the last one seated and that
who joins has no row, `OwnerIsAMember` that the owner's row is not the one that
leaves.

**The debts.** `DebtInv`: the column and the rounded balances sum to zero, and
each line levels somebody, so those not level and the lines together are never
more than the members. Largest remainders stay within a unit of the exact
balance because the units missing after rounding down are fewer than the members
with a remainder, and `HandOut` gives those at most one each before anyone else:
a matter of sums over finite sets and of counting who comes first. `SpliffDebts`
reads the bills one by one, in any order, and leaving or archiving asks
`SpliffGroup`'s `AreLevel`, which adds each column at once: that both come to the
same (`due = Balances(Table, tab)`) rests on `ReadSoFar`, the sum of what was read
so far over the bills that are read.

**The links.** `SeatsWithinCap` is a cardinality argument: `Used` grows by at most
one, and only below the cap. A person with a use at a link never gets a second
one, so `AnswersAreFinal` is an action property that needs only the types.

**The venue outbox.** `WireInv` bounds the queue by what the host did, and has it
that a row named by its server id, in a dialog too, stays so. `TeamInv` says of each team, unless it is `blurred` or shown an error, that the server with
the waiting changes applied comes to what the host made of it (`Right`), that
each of them can be sent, and that the one on its way is still at the head; and
always that a creation waits alone (`Alone`). `NumbersInv` is the same for the
numbers. An answer that settled a change leaves the rest right, and an empty
queue is `OutboxArrives`.

**The viewers.** `TallyInv`: when no tally is due and nobody comes or goes, a page
that lost no event either shows how many watch, or will once it has read its
channel to its end. `ChanInv` bounds the channels.

**The snapshots.** `FlightInv`: one request builds at a time and nothing is cached
meanwhile, and what the ticker has built is not older than what is cached;
`WrittenInv`: nobody holds a version that is not written yet.

**Side by side.** The properties of `services` and `writes` are those of the single
modules, and so are the theorems. That the one is the other is a theorem too: a
step of the composition changes the state of a service only by that service's own
next-state relation, and leaves it as it is otherwise, so each of the nine
services that share no counter has its own specification (`ServicesImplement`), and so have the two ends of a write
(`WritesImplement`). The feeds of a board share `boards.rev`; what is proved
of each holds when it is the one that moves. From there `ServicesTyped`,
`ServicesHold` and `WritesTyped` follow from the theorems above.

**Sums and walks.** The library's induction theorems take an operator as a
parameter, which the installed provers cannot instantiate. `Sums_proofs` states
induction over the naturals and over the subsets of a finite set of a set (the
elements a fact holds of), derived from the well-foundedness of `<`, and proves from it that the recursive
functions under `MapThenSumSet` and `FoldLeft` exist and what they keep. The
proofs of the ledger, the resolver and the journal rest on it.

**Only model-checked.** Liveness (`EveryJobAnswered`, `HeardIsShown`,
`WritesEnd`, `EditsSettle`) is out of the prover's reach. Every other property of a
passing run is a theorem. The other way round, `OwnerIsAMember` and
`NoJobForgotten` are only proved.

What the proofs showed of the models: `was` has to start with the game before any
row, or a revert to id zero has no game to compare with; and some parameters need
what was left unsaid, as that a bill's shares are within its total
(`DebtAssumption`), or that the marks for "no team", "kept" and "gone" are none
of the values they stand beside.

## 6. What the models show about the code

Five runs find the code at odds with what its comments say:

* `statefeed_boot`: `buildGameInit` reads the document before its seq
  (`server/serve_html.go:235,246`), against the rule stated at
  `server/routes_api.go:438-444`. An event between the two is skipped for good.
* `writepool_wedge`: an edit window that finished a match holds its connection
  while it waits without a deadline for a second one. As many of them as
  connections, and the pool is gone.
* `journal_folded`: the archiver writes no checkpoint, so a revert whose rows it
  folded silently leaves those edits out.
* `bracket_stuck`: the scorer adds rows and takes none away, so after a correction
  two teams can hold one place of a bout; nobody then moves on from it, and the
  next bout keeps a team that has left, although its source is final
  (`resolver.go:64-65`).
* `host_channel`: a host's stream closes its channel after it has left the table,
  while a POST that listed it before still sends to it (`manager.go:243-270`,
  against the comment at `:241-242`). The POST panics, and the hosts after it in
  its list do not see the cursor.

Met while modelling, in the models where said, and without a run of their own:

* A panic under the write lock leaves it taken (`editbatch.go:329`; the comment
  at `:300-301` speaks of the process going on). `EditBatch` has it: `Panic`
  leaves `lock` alone, `TypeOK` lets a dead window hold it, and
  `EveryJobAnswered` is claimed without panics. With one, everyone behind it
  waits forever.
* A reload waits for a pooled connection while it holds the write lock, which
  `ARCHITECTURE.md:256-261` rules out; the deadline keeps it from lasting
  (`WritesEnd`). The archiver takes the lock before its connection too.
* Two commits of one scope can be broadcast in either order, since the broadcasts
  come after the unlock: the older value then wins on every page.
  `PageHoldsItsSeq` is stated under `InOrder`.
* A revalidation and a PATCH's response are adopted without a seq and can take
  the page back, and nothing puts it right before the next gap, wake or reconnect.
  Both are in `StateFeed` and its runs; such a page is `astray` until its next
  resync, and what is said of its document excepts it.
* A whole document broadcast by a restarted server has its epoch adopted before
  its seq is looked at (`state-sync.ts:1200-1203`), and is then dropped if the page's
  seq, of the process before, is higher: the page takes the new process's events
  for applied ones until their seq passes its own. The runs have it, the page being
  `astray` from then on; the theorems leave out whole-document writes where there
  are restarts.
* Edits that `encode` finds no base for go back to the queue with no timer set
  (`state-sync.ts:557-561`); until the host edits again, hides the tab or reloads,
  nobody sends them. `EditsSettle` names them (`Held`). Edits that encode to
  nothing are acked as saved (`:562-566`).
* A match whose post-image did not load is answered with a blank view as a
  success (`"blank"` in `EditBatch`).
* Whatever fails in a window is answered 400, which the page takes for a refusal
  and drops the edits with all that shared the PATCH.
* A keepalive PATCH of a page that is gone can arrive after the reloaded page's
  newer one (`Overtakes`).
* A redraw writes a bout's columns and document in one UPDATE; the trigger's row
  leaves the document out and no patch is journaled. `Journal` marks such rows
  (`unsaid`) and `UndoIsExact` claims nothing across them (`Silent`).
* Undoing the second request of a window brings back the middle of a
  transaction: the first request's document before it was scored.
* A checkpoint has none of `games.scheme_json`: a revert across a redraw brings
  old bouts back under the new scheme.
* Bout ids are reused after a clear, and a revert's `insert or ignore` then drops
  a bout whose id another game has.
* A cache miss that read before a write stores the old fest view after it; it
  stays until the fest's next broadcast (`matchview.go:209` against
  `broadcast.go:171-172`). `NextReaderRebuilds` of `WritePool` states the comment
  and fails with one reader, one window and one commit.
* Two tabs write their own un-acked edits over each other's mirror
  (`state-sync.ts:275`): with `Tabs = {t1, t2}` and `Gated = FALSE`, `NoEditLost`
  of `ScopedWriter` fails.
* xy: a list is reaped together with the cards still on it, whose numbers nobody
  records (`reap.go:56-62`); a device keeps them until its next full read.
  `unrecorded` exempts them.
* xy: a reply that is not tagged with its root's session stays when the session is
  reaped, the foreign key on `reply_to_id` fails the statement, and the whole reap
  fails again every hour (`Dangling`).
* xy: `requireComment` reads `card_id` into a plain integer
  (`comments.go:440-449`), so a session's note can be neither edited nor deleted.
* xy: an edit that passed its check before the comment was deleted puts its text
  back into the tombstone; card ids come back after a reap; comments of cards
  are swept with a session they are tagged with, against `sessions.go:133-135`.
* xy: `putCards` drops the comments of a card its page does not have yet, and the
  cursor stays, so they do not come back until one of them changes (`dropped`).
* xy: nothing keeps two calls of `mutate` apart. Both pass the check at
  `sync.ts:375`, the older one loses the network and is queued, the newer one
  lands, and the flush puts the older text over it. `BoardSync` has the step, and
  `NewestEditStays` exempts exactly the pairs in `beside`; without the exemption
  it fails with two edits of one card.
* xy: a create whose answer was lost is sent again and makes a second card,
  against `sync.ts:1-2`; a temporary id held by a page outlives the map
  (`late`), against `sync.ts:12-13`; an op the server fails on with a 5xx is
  dropped like one it refuses.
* Spliff: with no rate table stored at all a group can be deleted with debts
  in it (`group.Delete` passes over `ErrNoTable`); the group page reads members
  and bills from the pool in two reads, and a leave between them is an
  `ErrStranger`.
* Outbox: a creation removed while it is on the wire leaves its team on the
  server; the client ids are dropped with the emptied outbox while the page, or
  a dialog opened before the refresh, may still use one, and the later change counts as done without being sent; a
  creation whose answer was lost and that took an edit is answered with the team
  the first one made, and the edit is gone. `docs/adr/0035:13-14` promises that
  what the host did reaches the server. `OutboxArrives` exempts these three.
* Resolver: a team that moves into an empty seat of a finished bout does not
  reopen it (a test expects so); between a correction and the next calculation
  one team can sit in two seats.
* A viewer that passed the check of the mode before a flip subscribes after the
  lockdown was told, and stays; a full channel can lose the sentinel
  (`static_mode.go:201`). `Viewers` has both; no document promises otherwise.
* A panic in a shared build of a snapshot skips `Done` and `finishStaticBuild`
  (`static_mode.go:348-351`): every later request for the route waits for ever.
  `Snapshots` has builds that fail, not ones that panic.

## 7. What is not modelled

* In the modelled parts. `EditBatch`: what a patch does to scores. `StateFeed`:
  the viewers' 150 ms delta buffer, the multi-view pages (which reload where
  this page resyncs), the first render from the local cache. `WritePool`: the
  venue writes' loop over several games, single statements outside the lock.
  `ScopedWriter`: paths that contain each other, `send` with intents, a full
  localStorage, an `encode` that leaves out some edits of a batch and sends the
  rest. `Journal`: the segment codec, row ids, the game's own row, the
  foreign keys of single rows. `BoardCards`: attachments, covers, board copies, a
  restored backup, whose `deltaBase` check is the comparison with `rev`.
  `BoardComments`: reactions and mentions. `BoardSync`: two tabs over one
  database, the dead letters, a request the server takes up after the client
  has given it up. `SpliffGroup`:
  photos, comments, currencies other than as a rate. `Outbox`: the service
  worker, the archived pages, the previous numbers a change carries, a second
  dialog opened while the first one's team is still being fetched; a dialog may
  save again before its last save is answered, which the page does not let it.
  `Bracket`: draws, Swiss pairing, groups and their standings, locked slots, seeds
  drawn again once the game runs (`seed.go:606-651` passes over started bouts), and
  edits of a bout that stays finished (`games/protocol.go:194-216`): the lot
  among teams that share a place, which scores it again without an untick. `Viewers`:
  several fests, two senders in one full channel at once. The governor's counters
  (`step`, `stayOn`, `turnOn`: a pure function of one-second ticks, tested in the
  repository), the cap on requests that fall through a lockdown.
* Components without a module: listed in `PROJECT.json` with the reason. Roughly:
  pure arithmetic (games, scoring, schemes), rendering, parsing and external
  sites, one-shot migrations and tooling stay out; the others are below.

## 8. Plan

Next modules, in this order:

1. **Tally** (`qy`): votes and shortlist under review passes.
2. **Journal, two games**: row ids shared by two games of a fest, for reverts that
   meet reused ids.
3. **Login codes and blobs** (`dopecore/tglogin`, `blobstore`): a code used twice,
   a blob dropped while it is being referenced again.
4. **BoardSync with two tabs**, and a device's outbox composed with `BoardCards`.
5. **The undo stack** of the host page over `ScopedWriter`.

Theorems to come: `NextReaderRebuilds` for a store that checks the revision;
`DeltaReadsAsFull` for `BoardCards` and `BoardComments` with both moving at once.
