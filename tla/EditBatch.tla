------------------------------ MODULE EditBatch ------------------------------
(***************************************************************************)
(* The edit batcher of one game (dope/dope/web/editbatch/editbatch.go).    *)
(*                                                                         *)
(* A host's write is a job.  The first job to arrive opens a window, jobs  *)
(* that arrive before its timer fires join it, and the timer's goroutine   *)
(* applies the whole window in one transaction under the write lock, each  *)
(* job in a savepoint of its own.  Then it lets go of the lock, fans the   *)
(* touched matches out, answers the jobs, and fans out what is left: the   *)
(* cascaded matches, the fest view after a finish, the flat document.      *)
(*                                                                         *)
(* A window is named by the job that opened it.  What a job writes is left *)
(* out: a job is replayed or it fails, which is all the batcher looks at.  *)
(***************************************************************************)
EXTENDS Naturals, Sequences, FiniteSets

CONSTANTS
    Jobs,       \* the writes that may be submitted
    Matches,    \* the matches of the game
    Doc,        \* the scope of the game's own document (kindGamePatch)
    Fest,       \* the scope of the fest view (OnFestChanged)
    ScopeOf,    \* [Jobs -> Matches \cup {Doc}]: what a job writes
    Finishing,  \* the kindMatchFinish jobs
    NoWindow,   \* nobody holds the write lock
    Impatient,  \* the jobs whose client may disconnect before the answer
    MaxPanics   \* how many windows may panic

ASSUME EditBatchAssumption ==
    /\ ScopeOf \in [Jobs -> Matches \cup {Doc}]
    /\ Finishing \subseteq {j \in Jobs : ScopeOf[j] \in Matches}
    /\ Doc \notin Matches /\ Fest \notin Matches /\ Doc # Fest
    /\ NoWindow \notin Jobs
    /\ Impatient \subseteq Jobs
    /\ MaxPanics \in Nat

VARIABLES
    client,   \* [Jobs -> ...]: the request that submitted the job
    open,     \* the jobs of the open window, in arrival order
    batch,    \* [Jobs -> Seq(Jobs)]: the jobs a flushed window carries
    pc,       \* [Jobs -> ...]: where the window's goroutine stands
    lock,     \* the window that holds the write lock
    ran,      \* [Jobs -> Nat]: how many jobs of its batch the window has run
    kept,     \* [Jobs -> Seq(Jobs)]: those whose savepoint was released clean
    moved,    \* [Jobs -> SUBSET Matches]: the matches the cascade moved
    loaded,   \* [Jobs -> SUBSET Matches]: the post-images that did load
    toTell,   \* [Jobs -> SUBSET Scopes]: scopes the window has yet to fan out
    db,       \* the committed jobs, in commit order
    feed,     \* the fanned-out events, in the order SeqMu gave them
    answer,   \* [Jobs -> ...]: what was put into the job's done channel
    panics    \* windows that panicked so far

vars == <<client, open, batch, pc, lock, ran, kept, moved, loaded, toTell, db,
          feed, answer, panics>>

Scopes == Matches \cup {Doc, Fest}

InSeq(s) == {s[i] : i \in DOMAIN s}

\* The matches a window's replayed jobs touched; whether one of them writes the
\* document, whether one of them changes a match's finished status.
Touched(w) == {ScopeOf[j] : j \in InSeq(kept[w])} \cap Matches

WritesDoc(w) == \E j \in InSeq(kept[w]) : ScopeOf[j] = Doc

Finishes(w) == InSeq(kept[w]) \cap Finishing # {}

\* preImages registers the matches in first-touch order; the broadcasts follow it.
FirstTouch(w, m) ==
    CHOOSE i \in DOMAIN batch[w] :
        /\ ScopeOf[batch[w][i]] = m
        /\ \A k \in 1 .. i - 1 : ScopeOf[batch[w][k]] # m

-----------------------------------------------------------------------------
Init ==
    /\ client = [j \in Jobs |-> "new"]
    /\ open = <<>>
    /\ batch = [j \in Jobs |-> <<>>]
    /\ pc = [j \in Jobs |-> "none"]
    /\ lock = NoWindow
    /\ ran = [j \in Jobs |-> 0]
    /\ kept = [j \in Jobs |-> <<>>]
    /\ moved = [j \in Jobs |-> {}]
    /\ loaded = [j \in Jobs |-> {}]
    /\ toTell = [j \in Jobs |-> {}]
    /\ db = <<>>
    /\ feed = <<>>
    /\ answer = [j \in Jobs |-> "none"]
    /\ panics = 0

\* finish: a done channel takes one result and ignores the rest.
Answered(results) ==
    answer' = [j \in Jobs |->
                 IF j \in DOMAIN results /\ answer[j] = "none"
                 THEN results[j] ELSE answer[j]]

FailBatch(w, why) == Answered([j \in InSeq(batch[w]) |-> why])

Goto(w, where) == pc' = [pc EXCEPT ![w] = where]

\* Every way a window ends without a commit: the lock, if it was had, goes back
\* and each of its jobs gets the error.
Abandon(w, why) ==
    /\ Goto(w, "done")
    /\ FailBatch(w, why)
    /\ lock' = IF lock = w THEN NoWindow ELSE lock

-----------------------------------------------------------------------------
(***************************************************************************)
(* The request side: submit, enqueueEdit and the client that left.        *)
(***************************************************************************)
Submit(j) ==
    /\ client[j] = "new"
    /\ client' = [client EXCEPT ![j] = "waiting"]
    /\ open' = Append(open, j)
    /\ pc' = IF open = <<>> THEN [pc EXCEPT ![j] = "open"] ELSE pc
    /\ UNCHANGED <<batch, lock, ran, kept, moved, loaded, toTell, db, feed, answer,
                   panics>>

\* reqCtx.Done() before an answer came; the job stays queued.
HangUp(j) ==
    /\ j \in Impatient
    /\ client[j] = "waiting"
    /\ answer[j] = "none"
    /\ client' = [client EXCEPT ![j] = "gone"]
    /\ UNCHANGED <<open, batch, pc, lock, ran, kept, moved, loaded, toTell, db, feed,
                   answer, panics>>

-----------------------------------------------------------------------------
(***************************************************************************)
(* The window's goroutine.                                                 *)
(***************************************************************************)

\* flushEditBatch: the timer fires, the window leaves the pending map.
Flush(w) ==
    /\ pc[w] = "open"
    /\ batch' = [batch EXCEPT ![w] = open]
    /\ open' = <<>>
    /\ Goto(w, "flushed")
    /\ UNCHANGED <<client, lock, ran, kept, moved, loaded, toTell, db, feed, answer,
                   panics>>

\* AcquireWriteConn, off the lock: it may time out.
TakeConn(w) ==
    /\ pc[w] = "flushed"
    /\ \/ Goto(w, "waiting") /\ UNCHANGED <<lock, answer>>
       \/ Abandon(w, "failed")
    /\ UNCHANGED <<client, open, batch, ran, kept, moved, loaded, toTell, db, feed,
                   panics>>

\* LockWrite, then BeginWriteTxConn, which may fail and gives the lock back.
TakeLock(w) ==
    /\ pc[w] = "waiting"
    /\ lock = NoWindow
    /\ \/ lock' = w /\ Goto(w, "replay") /\ UNCHANGED answer
       \/ Abandon(w, "failed")
    /\ UNCHANGED <<client, open, batch, ran, kept, moved, loaded, toTell, db, feed,
                   panics>>

\* Mutant of RunJob: the jobs run from the last to the first.
RunJob_LastFirst(w) ==
    /\ pc[w] = "replay"
    /\ ran[w] < Len(batch[w])
    /\ ran' = [ran EXCEPT ![w] = @ + 1]
    /\ \/ kept' = [kept EXCEPT ![w] = Append(@, batch[w][Len(batch[w]) - ran[w]])]
       \/ UNCHANGED kept
    /\ UNCHANGED <<client, open, batch, pc, lock, moved, loaded, toTell, db, feed,
                   answer, panics>>

\* applyOneJob, in arrival order: replayed, or rolled back to its savepoint.
RunJob(w) ==
    /\ pc[w] = "replay"
    /\ ran[w] < Len(batch[w])
    /\ ran' = [ran EXCEPT ![w] = @ + 1]
    /\ \/ kept' = [kept EXCEPT ![w] = Append(@, batch[w][ran[w] + 1])]
       \/ UNCHANGED kept
    /\ UNCHANGED <<client, open, batch, pc, lock, moved, loaded, toTell, db, feed,
                   answer, panics>>

AllRun(w) == ran[w] = Len(batch[w])

\* Mutant of NothingKept: the early return forgets the lock.
NothingKept_NoUnlock(w) ==
    /\ pc[w] = "replay" /\ AllRun(w) /\ kept[w] = <<>>
    /\ Goto(w, "done")
    /\ FailBatch(w, "refused")
    /\ UNCHANGED <<client, open, batch, lock, ran, kept, moved, loaded, toTell, db,
                   feed, panics>>

\* Nothing replayed: unlock, and every job gets its own error.
NothingKept(w) ==
    /\ pc[w] = "replay"
    /\ AllRun(w)
    /\ kept[w] = <<>>
    /\ Abandon(w, "refused")
    /\ UNCHANGED <<client, open, batch, ran, kept, moved, loaded, toTell, db, feed,
                   panics>>

\* recomputeTouched: the settle and the cascade, once for the touched matches.
\* With no match touched SettleTx does nothing and cannot fail.
Settle(w) ==
    /\ pc[w] = "replay"
    /\ AllRun(w)
    /\ kept[w] # <<>>
    /\ \/ /\ Goto(w, "settled")
          /\ \E ms \in SUBSET (Matches \ Touched(w)) :
                /\ Touched(w) = {} => ms = {}
                /\ moved' = [moved EXCEPT ![w] = ms]
          /\ UNCHANGED <<lock, answer>>
       \/ /\ Touched(w) # {}
          /\ Abandon(w, "failed")
          /\ UNCHANGED moved
    /\ UNCHANGED <<client, open, batch, ran, kept, loaded, toTell, db, feed, panics>>

\* Mutant of Commit: the error of the commit is not looked at.
Commit_ErrorDropped(w) ==
    /\ pc[w] = "settled"
    /\ \/ db' = db \o kept[w]
       \/ UNCHANGED db
    /\ Goto(w, "committed")
    /\ UNCHANGED <<client, open, batch, lock, ran, kept, moved, loaded, toTell, feed,
                   answer, panics>>

Commit(w) ==
    /\ pc[w] = "settled"
    /\ \/ /\ db' = db \o kept[w]
          /\ Goto(w, "committed")
          /\ UNCHANGED <<lock, answer>>
       \/ Abandon(w, "failed") /\ UNCHANGED db
    /\ UNCHANGED <<client, open, batch, ran, kept, moved, loaded, toTell, feed, panics>>

\* postImages still under the lock, each of which may fail to load; then unlock.
Unlock(w) ==
    /\ pc[w] = "committed"
    /\ \E ms \in SUBSET (Touched(w) \cup moved[w]) : loaded' = [loaded EXCEPT ![w] = ms]
    /\ toTell' = [toTell EXCEPT ![w] = Touched(w)]
    /\ lock' = NoWindow
    /\ Goto(w, "touched")
    /\ UNCHANGED <<client, open, batch, ran, kept, moved, db, feed, answer, panics>>

\* One event: the scope it is about and the window it tells of.
Event(w, scope) == [scope |-> scope, window |-> w]

\* broadcastTouched: one event per touched match, in first-touch order.
TellTouched(w) ==
    /\ pc[w] = "touched"
    /\ \E m \in toTell[w] :
          /\ \A n \in toTell[w] : FirstTouch(w, m) <= FirstTouch(w, n)
          /\ feed' = Append(feed, Event(w, m))
          /\ toTell' = [toTell EXCEPT ![w] = @ \ {m}]
    /\ UNCHANGED <<client, open, batch, pc, lock, ran, kept, moved, loaded, db, answer,
                   panics>>

\* Mutant of Deliver: the jobs are answered before the touched matches are told.
Deliver_Early(w) ==
    /\ pc[w] = "touched"
    /\ Answered([j \in InSeq(batch[w]) |-> IF j \in InSeq(kept[w]) THEN "ok" ELSE "refused"])
    /\ UNCHANGED <<client, open, batch, pc, lock, ran, kept, moved, loaded, toTell,
                   db, feed, panics>>

\* Mutant of Deliver: the cascade is told, the document and the fest view are not.
Deliver_CascadeOnly(w) ==
    /\ pc[w] = "touched"
    /\ toTell[w] = {}
    /\ Answered([j \in InSeq(batch[w]) |-> IF j \in InSeq(kept[w]) THEN "ok" ELSE "refused"])
    /\ toTell' = [toTell EXCEPT ![w] = moved[w] \cap loaded[w]]
    /\ Goto(w, "rest")
    /\ UNCHANGED <<client, open, batch, lock, ran, kept, moved, loaded, db, feed, panics>>

\* deliver: each job its result.  The views were stamped with their seq, so a
\* view that did not load is a stamped blank one and counts as a success too.
Deliver(w) ==
    /\ pc[w] = "touched"
    /\ toTell[w] = {}
    /\ Answered([j \in InSeq(batch[w]) |->
                   IF j \notin InSeq(kept[w]) THEN "refused"
                   ELSE IF ScopeOf[j] \in Matches \ loaded[w] THEN "blank" ELSE "ok"])
    /\ toTell' = [toTell EXCEPT ![w] =
                    (moved[w] \cap loaded[w])
                    \cup (IF Finishes(w) THEN {Fest} ELSE {})
                    \cup (IF WritesDoc(w) THEN {Doc} ELSE {})]
    /\ Goto(w, "rest")
    /\ moved' = [moved EXCEPT ![w] = {}]
    /\ loaded' = [loaded EXCEPT ![w] = {}]
    /\ UNCHANGED <<client, open, batch, lock, ran, kept, db, feed, panics>>

\* The cascaded matches, then OnFestChanged, then the flat document's one event.
TellRest(w) ==
    /\ pc[w] = "rest"
    /\ \E s \in toTell[w] :
          /\ s = Fest => toTell[w] \cap Matches = {}
          /\ s = Doc => toTell[w] = {Doc}
          /\ feed' = Append(feed, Event(w, s))
          /\ toTell' = [toTell EXCEPT ![w] = @ \ {s}]
    /\ UNCHANGED <<client, open, batch, pc, lock, ran, kept, moved, loaded, db, answer,
                   panics>>

Finish(w) ==
    /\ pc[w] = "rest"
    /\ toTell[w] = {}
    /\ Goto(w, "done")
    /\ UNCHANGED <<client, open, batch, lock, ran, kept, moved, loaded, toTell, db, feed,
                   answer, panics>>

\* recover(): every job of the window is answered, the transaction is rolled
\* back, the connection goes home.  The lock does not: unlock is not deferred.
Panic(w) ==
    /\ panics < MaxPanics
    /\ pc[w] \in {"flushed", "waiting", "replay", "settled", "committed",
                  "touched", "rest"}
    /\ panics' = panics + 1
    /\ FailBatch(w, "crashed")
    /\ Goto(w, "dead")
    /\ toTell' = [toTell EXCEPT ![w] = {}]
    /\ moved' = [moved EXCEPT ![w] = {}]
    /\ loaded' = [loaded EXCEPT ![w] = {}]
    /\ UNCHANGED <<client, open, batch, lock, ran, kept, db, feed>>

-----------------------------------------------------------------------------
Request(j) == Submit(j) \/ HangUp(j)

Step(w) ==
    \/ Flush(w) \/ TakeConn(w) \/ TakeLock(w) \/ RunJob(w) \/ NothingKept(w)
    \/ Settle(w) \/ Commit(w) \/ Unlock(w) \/ TellTouched(w) \/ Deliver(w)
    \/ TellRest(w) \/ Finish(w)

Next == \E j \in Jobs : Request(j) \/ Step(j) \/ Panic(j)

Spec == Init /\ [][Next]_vars

\* A timer fires, a goroutine that can run runs, and a write lock that is free
\* again and again is got.
Fairness ==
    /\ \A w \in Jobs : SF_vars(TakeLock(w))
    /\ \A w \in Jobs : WF_vars(Step(w))

FairSpec == Spec /\ Fairness

-----------------------------------------------------------------------------
(***************************************************************************)
(* Properties.                                                             *)
(***************************************************************************)
Places == {"none", "open", "flushed", "waiting", "replay", "settled",
           "committed", "touched", "rest", "done", "dead"}

Answers == {"none", "ok", "refused", "failed", "blank", "crashed"}

\* Every variable stays within its type, a window never runs past its jobs, and
\* the write lock is held by a window that is inside it, or that died there.
TypeOK ==
    /\ client \in [Jobs -> {"new", "waiting", "gone"}]
    /\ open \in Seq(Jobs)
    /\ batch \in [Jobs -> Seq(Jobs)]
    /\ pc \in [Jobs -> Places]
    /\ lock \in Jobs \cup {NoWindow}
    /\ ran \in [Jobs -> Nat]
    /\ kept \in [Jobs -> Seq(Jobs)]
    /\ moved \in [Jobs -> SUBSET Matches]
    /\ loaded \in [Jobs -> SUBSET Matches]
    /\ toTell \in [Jobs -> SUBSET Scopes]
    /\ db \in Seq(Jobs)
    /\ feed \in Seq([scope : Scopes, window : Jobs])
    /\ answer \in [Jobs -> Answers]
    /\ panics \in Nat
    /\ \A w \in Jobs : ran[w] <= Len(batch[w])
    /\ lock # NoWindow => pc[lock] \in {"replay", "settled", "committed", "dead"}

\* The batcher keeps its promise to the editors (EditPromise): an answer of 200
\* means committed, an error other than a panic's means not committed and never
\* to be, and one transaction commits a window (applyEditBatch, failBatch).
Told == [j \in Jobs |->
           CASE answer[j] \in {"ok", "blank"} -> "ok"
             [] answer[j] \in {"refused", "failed"} -> "refused"
             [] OTHER -> answer[j]]

Promise == INSTANCE EditPromise
             WITH asked <- {j \in Jobs : client[j] # "new"}, log <- db, told <- Told

KeepsPromise == Promise!Spec

\* Two windows of the game never mix in the journal: what a window commits lies
\* together in the commit order, in the order its jobs arrived (the savepoints
\* of applyEditBatch run in the order enqueueEdit appended them).
Placed(j) == CHOOSE i \in DOMAIN db : db[i] = j

WindowsStayWhole ==
    \A w \in Jobs : \A i, k \in DOMAIN batch[w] :
        LET a == batch[w][i]
            b == batch[w][k]
        IN /\ i < k /\ {a, b} \subseteq InSeq(db) => Placed(a) < Placed(b)
           /\ {a, b} \subseteq InSeq(db) =>
                \A n \in Placed(a) .. Placed(b) : db[n] \in InSeq(batch[w])

\* An editor of a match reads 200 only when the event that carries its edit has
\* already been fanned out, so the seq it is given is its own broadcast's
\* (broadcastTouched before deliver).
Announced(w, scope) ==
    \E i \in DOMAIN feed : feed[i].scope = scope /\ feed[i].window = w

AnswerFollowsBroadcast ==
    \A w \in Jobs : \A j \in InSeq(batch[w]) :
        answer[j] \in {"ok", "blank"} /\ ScopeOf[j] \in Matches
            => Announced(w, ScopeOf[j])

\* A window that ran to its end told the viewers of everything it committed:
\* every match it touched, the document, and the fest view after a finish.
\* Nothing uncommitted was ever told.
EverythingTold ==
    \A w \in Jobs :
        /\ pc[w] = "done" /\ InSeq(kept[w]) \cap InSeq(db) # {} =>
             /\ \A j \in InSeq(kept[w]) : Announced(w, ScopeOf[j])
             /\ Finishes(w) => Announced(w, Fest)
        /\ \A i \in DOMAIN feed : InSeq(kept[feed[i].window]) \subseteq InSeq(db)

\* No request waits forever: a submitted job is answered, or its client left.
EveryJobAnswered ==
    \A j \in Jobs : client[j] = "waiting" ~> (answer[j] # "none" \/ client[j] = "gone")

=============================================================================
