------------------------------ MODULE WritePool ------------------------------
(***************************************************************************)
(* The pool of database connections, the global write lock and the cached  *)
(* fest view, and the requests that meet over them.                        *)
(*                                                                         *)
(* A write takes its connection before the lock and waits for it at most   *)
(* WriteTimeout (dopecore/sqlitex/writer.go).  Some writes need a second   *)
(* connection while they hold the first: a structural write that reloads   *)
(* the fest view before it lets the lock go (server/scoped_api.go          *)
(* writeAndReloadFest), and an edit window that finished a match and       *)
(* rebuilds the fest view for its broadcast (web/editbatch OnFestChanged). *)
(* The journal archiver takes the lock first.  Readers rebuild the view on *)
(* a connection of their own and leave it in the cache.                    *)
(*                                                                         *)
(* A fest view is known by the revision it was read at.  Connections are   *)
(* alike: a request that gives one of its two back gives either.           *)
(***************************************************************************)
EXTENDS Naturals, FiniteSets

CONSTANTS
    Conns,       \* the pool (store.MaxOpenConns)
    Windows,     \* edit windows, each with at most one match finished
    Structural,  \* writes made through CommitFestWrite
    Archivers,   \* the journal archiver's passes
    Readers,     \* requests for the fest view
    MaxCommits   \* writes committed in a run

Writers == Windows \cup Structural
Actors == Writers \cup Archivers \cup Readers

ASSUME WritePoolAssumption ==
    /\ IsFiniteSet(Conns) /\ IsFiniteSet(Windows)
    /\ MaxCommits \in Nat
    /\ Windows \cap (Structural \cup Archivers \cup Readers) = {}
    /\ Structural \cap (Archivers \cup Readers) = {}
    /\ Archivers \cap Readers = {}

VARIABLES
    at,     \* where each request is
    held,   \* the connections it holds
    lock,   \* who holds the write lock: nobody or one
    db,     \* the last revision committed
    rev,    \* the revision each write reached, 0 while it has none
    view,   \* the fest view it has in hand, if any
    cache   \* the cached fest view, if any (Engine.FestViewCache)

vars == <<at, held, lock, db, rev, view, cache>>

Free == {c \in Conns : \A a \in Actors : c \notin held[a]}

Goto(a, s) == at' = [at EXCEPT ![a] = s]

\* The request is over, and keeps nothing.
Over(a) ==
    /\ Goto(a, "idle")
    /\ rev' = [rev EXCEPT ![a] = 0]
    /\ view' = [view EXCEPT ![a] = {}]

GiveBack(a) == \E c \in held[a] : held' = [held EXCEPT ![a] = @ \ {c}]

Init ==
    /\ at = [a \in Actors |-> "idle"]
    /\ held = [a \in Actors |-> {}]
    /\ lock = {}
    /\ db = 0
    /\ rev = [a \in Actors |-> 0]
    /\ view = [a \in Actors |-> {}]
    /\ cache = {}

-----------------------------------------------------------------------------
\* Writes that may still commit.
Hopeful == {a \in Writers : at[a] \in {"conn", "lock", "tx"}}

\* A write arrives, a reader misses the cache, an archiver's pass comes due.
Arrive(a) ==
    /\ at[a] = "idle"
    /\ a \in Writers => db + Cardinality(Hopeful) < MaxCommits
    /\ a \in Readers => cache = {}
    /\ Goto(a, CASE a \in Writers -> "conn" [] a \in Archivers -> "lock" [] OTHER -> "snap")
    /\ UNCHANGED <<held, lock, db, rev, view, cache>>

\* database/sql hands out a connection.
Then == [conn |-> "lock", reload |-> "reading", snap |-> "loading", fold |-> "folding"]

TakeConn(a) ==
    /\ at[a] \in DOMAIN Then
    /\ \E c \in Free : held' = [held EXCEPT ![a] = @ \cup {c}]
    /\ Goto(a, Then[at[a]])
    /\ UNCHANGED <<lock, db, rev, view, cache>>

\* A bug: the reload waits on a context without a deadline.
Expire_NotReload(a) ==
    /\ at[a] \in {"conn", "fold"}
    /\ Goto(a, IF at[a] = "conn" THEN "idle" ELSE "unlock")
    /\ UNCHANGED <<held, lock, db, rev, view, cache>>

\* The wait for a connection ran out (WriteTxTimeout, ArchiveMaxHold).  A write
\* that cannot reload is answered with an error, and its revision is not told.
Expire(a) ==
    /\ at[a] \in {"conn", "reload", "fold"}
    /\ Goto(a, IF at[a] = "conn" THEN "idle" ELSE "unlock")
    /\ rev' = [rev EXCEPT ![a] = 0]
    /\ UNCHANGED <<held, lock, db, view, cache>>

\* A bug: a read lock where the write lock belongs.
LockWrite_Shared(a) ==
    /\ at[a] = "lock"
    /\ lock' = lock \cup {a}
    /\ Goto(a, IF a \in Archivers THEN "fold" ELSE "tx")
    /\ UNCHANGED <<held, db, rev, view, cache>>

LockWrite(a) ==
    /\ at[a] = "lock"
    /\ lock = {}
    /\ lock' = {a}
    /\ Goto(a, IF a \in Archivers THEN "fold" ELSE "tx")
    /\ UNCHANGED <<held, db, rev, view, cache>>

\* BEGIN, the write itself or COMMIT fails; also every edit of a window invalid.
FailTx(a) ==
    /\ at[a] = "tx"
    /\ Goto(a, "unlock")
    /\ UNCHANGED <<held, lock, db, rev, view, cache>>

\* A bug: the lock goes with the commit, before Settled.
Commit_Unlocks(a) ==
    /\ at[a] = "tx"
    /\ db' = db + 1
    /\ rev' = [rev EXCEPT ![a] = db + 1]
    /\ lock' = {}
    /\ Goto(a, IF a \in Windows THEN "unlock" ELSE "settle")
    /\ UNCHANGED <<held, view, cache>>

\* A window reads its post-images on the connection it has.
Commit(a) ==
    /\ at[a] = "tx"
    /\ db' = db + 1
    /\ rev' = [rev EXCEPT ![a] = db + 1]
    /\ Goto(a, IF a \in Windows THEN "unlock" ELSE "settle")
    /\ UNCHANGED <<held, lock, view, cache>>

\* InvalidateFestViewCache, then Settled, which reloads the view or does not.
Settle(a) ==
    /\ at[a] = "settle"
    /\ cache' = {}
    /\ \E s \in {"reload", "unlock"} : Goto(a, s)
    /\ UNCHANGED <<held, lock, db, rev, view>>

\* reloadAfterWrite, under the lock.
Reload(a) ==
    /\ at[a] = "reading"
    /\ view' = [view EXCEPT ![a] = {db}]
    /\ GiveBack(a)
    /\ Goto(a, "unlock")
    /\ UNCHANGED <<lock, db, rev, cache>>

\* GloballyQuiet and ArchiveStale; what they do to the journal is elsewhere.
Fold(a) ==
    /\ at[a] = "folding"
    /\ GiveBack(a)
    /\ Goto(a, "unlock")
    /\ UNCHANGED <<lock, db, rev, view, cache>>

\* A bug: the fest view is rebuilt before the connection is closed.
Unlock_TellsFirst(a) ==
    /\ at[a] = "unlock"
    /\ lock' = lock \ {a}
    /\ Goto(a, CASE a \in Windows /\ rev[a] # 0 -> "tell"
                 [] a \in Structural /\ rev[a] # 0 /\ view[a] = {} -> "view"
                 [] OTHER -> "close")
    /\ UNCHANGED <<held, db, rev, view, cache>>

\* A window tells what it did before it closes its connection.
Unlock(a) ==
    /\ at[a] = "unlock"
    /\ lock' = lock \ {a}
    /\ Goto(a, IF a \in Windows /\ rev[a] # 0 THEN "tell" ELSE "close")
    /\ UNCHANGED <<held, db, rev, view, cache>>

\* The window's own broadcasts drop the cached view; a finish asks for a new one.
Tell(a) ==
    /\ at[a] = "tell"
    /\ cache' = {}
    /\ \E s \in {"view", "close"} : Goto(a, s)
    /\ UNCHANGED <<held, lock, db, rev, view>>

\* conn.Close; the caller of CommitFestWrite then broadcasts the view it
\* reloaded, or has it rebuilt, or needs neither.
Close(a) ==
    /\ at[a] = "close"
    /\ held' = [held EXCEPT ![a] = {}]
    /\ \/ /\ a \in Structural /\ rev[a] # 0
          /\ Goto(a, IF view[a] = {} THEN "view" ELSE "announce")
          /\ UNCHANGED <<rev, view>>
       \/ /\ ~(a \in Structural /\ rev[a] # 0 /\ view[a] # {})
          /\ Over(a)
    /\ UNCHANGED <<lock, db, cache>>

-----------------------------------------------------------------------------
\* broadcastFestView: drop the cached view, then ask for it like any reader.
Invalidate(a) ==
    /\ at[a] = "view"
    /\ cache' = {}
    /\ Goto(a, "look")
    /\ UNCHANGED <<held, lock, db, rev, view>>

Look(a) ==
    /\ at[a] = "look"
    /\ view' = [view EXCEPT ![a] = cache]
    /\ Goto(a, IF cache = {} THEN "snap" ELSE "announce")
    /\ UNCHANGED <<held, lock, db, rev, cache>>

\* loadFestViewSnapshot: BeginTx(context.Background()) waits without a bound.
Snapshot(a) ==
    /\ at[a] = "loading"
    /\ view' = [view EXCEPT ![a] = {db}]
    /\ GiveBack(a)
    /\ Goto(a, "fill")
    /\ UNCHANGED <<lock, db, rev, cache>>

\* A read fails: the reload's write answers with an error, a view being rebuilt
\* is not broadcast.
FailRead(a) ==
    /\ at[a] \in {"reading", "loading"}
    /\ GiveBack(a)
    /\ IF at[a] = "loading" /\ a \notin Windows
       THEN Over(a)
       ELSE /\ Goto(a, IF at[a] = "reading" THEN "unlock" ELSE "close")
            /\ rev' = [rev EXCEPT ![a] = 0]
            /\ UNCHANGED view
    /\ UNCHANGED <<lock, db, cache>>

\* storeFestViewBytes; a reader has its answer.
Fill(a) ==
    /\ at[a] = "fill"
    /\ cache' = view[a]
    /\ IF a \in Readers THEN Over(a) ELSE Goto(a, "announce") /\ UNCHANGED <<rev, view>>
    /\ UNCHANGED <<held, lock, db>>

\* BroadcastState of the fest view, which drops the cached view once more.
Announce(a) ==
    /\ at[a] = "announce"
    /\ cache' = {}
    /\ IF a \in Windows THEN Goto(a, "close") /\ UNCHANGED <<rev, view>> ELSE Over(a)
    /\ UNCHANGED <<held, lock, db>>

-----------------------------------------------------------------------------
Work(a) ==
    \/ Expire(a) \/ FailTx(a) \/ Commit(a) \/ Settle(a) \/ Reload(a) \/ Fold(a)
    \/ Unlock(a) \/ Tell(a) \/ Close(a)
    \/ Invalidate(a) \/ Look(a) \/ Snapshot(a) \/ FailRead(a) \/ Fill(a) \/ Announce(a)

Next == \E a \in Actors : Arrive(a) \/ TakeConn(a) \/ LockWrite(a) \/ Work(a)

Spec == Init /\ [][Next]_vars

\* A request goes on with its work.  The mutex hands itself to a starved
\* waiter, and the pool picks among its waiters at random, so who asks again
\* and again is served.
FairSpec ==
    /\ Spec
    /\ \A a \in Actors : WF_vars(Work(a)) /\ SF_vars(TakeConn(a) \/ LockWrite(a))

-----------------------------------------------------------------------------
Stages == {"idle", "conn", "lock", "tx", "settle", "reload", "reading", "fold",
           "folding", "unlock", "tell", "close", "view", "look", "snap",
           "loading", "fill", "announce"}

\* No view, or one read at some revision.
Views == {{}} \cup {{r} : r \in 0 .. db}

\* Every part has its type; the lock, the view in hand and the cache are at
\* most one each.
TypeOK ==
    /\ at \in [Actors -> Stages]
    /\ held \in [Actors -> SUBSET Conns]
    /\ lock = {} \/ \E a \in Actors : lock = {a}
    /\ db \in Nat
    /\ rev \in [Actors -> Nat]
    /\ view \in [Actors -> Views]
    /\ cache \in Views

\* What a structural write reloaded is the revision it made itself: no other
\* write lands between its commit and what it broadcasts (scoped_api.go:325).
ReloadIsOwn ==
    \A a \in Structural :
        at[a] \in {"unlock", "close"} /\ view[a] # {} => view[a] = {rev[a]}

\* Some connection is free, or in the hands of a request that will give it back
\* without first getting another: the unbounded wait of loadFestViewSnapshot
\* does not close into a circle.
PoolNotWedged ==
    \E c \in Conns : \A a \in Actors : c \in held[a] => at[a] # "snap"

\* Every write is over in the end, committed and told or failed, and whoever takes
\* the write lock lets it go, however starved the pool is (the freeze of
\* 2026-06-13).
WritesEnd ==
    /\ \A a \in Writers : at[a] # "idle" ~> at[a] = "idle"
    /\ lock # {} ~> lock = {}

\* The cached view is dropped with every write, so the next reader rebuilds it
\* (core/broadcast.go:171): once the writes are over, a view in the cache is the
\* one of the last of them.
NextReaderRebuilds == (\A a \in Writers : at[a] = "idle") => cache \subseteq {db}

=============================================================================
