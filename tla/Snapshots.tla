------------------------------ MODULE Snapshots ------------------------------
(***************************************************************************)
(* The page snapshots of static mode (dope/server/static_mode.go): one     *)
(* route's entry of staticCache, the requests that ask for it, and the     *)
(* ticker that refreshes or evicts it.                                     *)
(*                                                                         *)
(* A build reads the database at one point and takes its time before and   *)
(* after, with staticMu free.  A snapshot is the version of the document   *)
(* it was built from.  A build that fails (the requester of a shared one   *)
(* is gone, the game was deleted) yields NoPage, and the page is served    *)
(* live.                                                                   *)
(***************************************************************************)
EXTENDS Integers, FiniteSets

CONSTANTS Visits,       \* requests for the route
          Nobody,       \* no build in flight
          MaxVersion    \* writes of the document

ASSUME SnapshotsAssumption ==
    IsFiniteSet(Visits) /\ Nobody \notin Visits /\ MaxVersion \in Nat

VARIABLES version,      \* of the document in the database
          cached,       \* staticCache[route], or NoPage
          builder,      \* whose call staticBuilds[route] is, or Nobody
          visit,        \* request -> [at, call, snapshot]
          regen         \* runStaticRegen: [at, snapshot]

snapshotVars == <<version, cached, builder, visit, regen>>

NoPage == -1
Versions == NoPage..MaxVersion
NewVisit == [at |-> "out", call |-> Nobody, snapshot |-> NoPage]
RegenRests == [at |-> "rests", snapshot |-> NoPage]

SnapshotsTypeOK ==
    /\ version \in 0..MaxVersion /\ cached \in Versions
    /\ builder \in Visits \cup {Nobody}
    /\ visit \in [Visits -> [at : {"out", "missed", "building", "built", "told", "waits"},
                             call : Visits \cup {Nobody}, snapshot : Versions]]
    /\ regen \in [at : {"rests", "hot", "built", "stale"}, snapshot : Versions]

SnapshotsInit ==
    /\ version = 0 /\ cached = NoPage /\ builder = Nobody
    /\ visit = [v \in Visits |-> NewVisit]
    /\ regen = RegenRests

WriteDocument ==
    /\ version < MaxVersion /\ version' = version + 1
    /\ UNCHANGED <<cached, builder, visit, regen>>

-----------------------------------------------------------------------------
(* staticSnapshot. *)

\* cachedStatic: a hit is served, a miss goes on.
LookUp(v) ==
    /\ visit[v].at = "out" /\ cached = NoPage
    /\ visit' = [visit EXCEPT ![v].at = "missed"]
    /\ UNCHANGED <<version, cached, builder, regen>>

\* call.wg.Wait(): not at all, once the call is told.
Joined(b) ==
    IF visit[b].at = "told" THEN NewVisit
    ELSE [at |-> "waits", call |-> b, snapshot |-> NoPage]

\* Mutant of JoinOrBuild: the cache is not asked again under the lock.
JoinOrBuild_OneLook(v) ==
    /\ visit[v].at = "missed"
    /\ IF builder # Nobody
       THEN visit' = [visit EXCEPT ![v] = Joined(builder)] /\ UNCHANGED builder
       ELSE visit' = [visit EXCEPT ![v].at = "building"] /\ builder' = v
    /\ UNCHANGED <<version, cached, regen>>

\* Under staticMu: cached meanwhile, being built, or ours to build.
JoinOrBuild(v) ==
    /\ visit[v].at = "missed"
    /\ \/ cached # NoPage /\ visit' = [visit EXCEPT ![v] = NewVisit] /\ UNCHANGED builder
       \/ /\ cached = NoPage /\ builder # Nobody
          /\ visit' = [visit EXCEPT ![v] = Joined(builder)]
          /\ UNCHANGED builder
       \/ /\ cached = NoPage /\ builder = Nobody
          /\ visit' = [visit EXCEPT ![v].at = "building"] /\ builder' = v
    /\ UNCHANGED <<version, cached, regen>>

\* buildStaticEntry, as of when it reads.
Build(v) ==
    /\ visit[v].at = "building"
    /\ \E snapshot \in {version, NoPage} :
           visit' = [visit EXCEPT ![v] = [at |-> "built", call |-> @.call, snapshot |-> snapshot]]
    /\ UNCHANGED <<version, cached, builder, regen>>

\* call.wg.Done(): whoever waits for this call is served what it built.
TellWaiters(v) ==
    /\ visit[v].at = "built"
    /\ visit' = [w \in Visits |->
                    CASE w = v -> [visit[v] EXCEPT !.at = "told"]
                      [] visit[w].at = "waits" /\ visit[w].call = v -> NewVisit
                      [] OTHER -> visit[w]]
    /\ UNCHANGED <<version, cached, builder, regen>>

\* finishStaticBuild.
FinishBuild(v) ==
    /\ visit[v].at = "told"
    /\ builder' = Nobody
    /\ cached' = IF visit[v].snapshot = NoPage THEN cached ELSE visit[v].snapshot
    /\ visit' = [visit EXCEPT ![v] = NewVisit]
    /\ UNCHANGED <<version, regen>>

-----------------------------------------------------------------------------
(* runStaticRegen, one goroutine. *)

\* partitionStatic: read within retention, or not.
Partition ==
    /\ regen.at = "rests" /\ cached # NoPage
    /\ \E at \in {"hot", "stale"} : regen' = [regen EXCEPT !.at = at]
    /\ UNCHANGED <<version, cached, builder, visit>>

\* The build of refreshStatic; one that fails leaves the old snapshot.
Rebuild ==
    /\ regen.at = "hot"
    /\ \/ regen' = [at |-> "built", snapshot |-> version]
       \/ regen' = RegenRests
    /\ UNCHANGED <<version, cached, builder, visit>>

StoreRefreshed ==
    /\ regen.at = "built"
    /\ cached' = regen.snapshot /\ regen' = RegenRests
    /\ UNCHANGED <<version, builder, visit>>

Evict ==
    /\ regen.at = "stale"
    /\ cached' = NoPage /\ regen' = RegenRests
    /\ UNCHANGED <<version, builder, visit>>

SnapshotsNext ==
    \/ WriteDocument \/ Partition \/ Rebuild \/ StoreRefreshed \/ Evict
    \/ \E v \in Visits : LookUp(v) \/ JoinOrBuild(v) \/ Build(v) \/ TellWaiters(v)
                         \/ FinishBuild(v)

SnapshotsSpec == SnapshotsInit /\ [][SnapshotsNext]_snapshotVars

\* A route's snapshot is built by requests, in a flight they share, and by the
\* ticker, each reading the database with no lock held; still a snapshot is never
\* replaced by an older one (static_mode.go:247-258, 325-372).
SnapshotNeverOlder ==
    [][cached # NoPage /\ cached' # NoPage => cached' >= cached]_snapshotVars

=============================================================================
