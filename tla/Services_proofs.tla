---------------------------- MODULE Services_proofs ----------------------------
(***************************************************************************)
(* Proofs about what runs beside the live editing of a game: the snapshots *)
(* of static mode, how many viewers each page says are watching, the hosts *)
(* it shows as present, the outbox of the venue page, how results move     *)
(* teams through a bracket, and all the services side by side.             *)
(***************************************************************************)
EXTENDS Services, Board_proofs, Spliff_proofs

-----------------------------------------------------------------------------
(* Snapshots. *)

\* A request that has the build in hand.
Builds(v) == visit[v].at \in {"building", "built", "told"}

\* One request builds at a time, and nothing is cached meanwhile; the ticker works
\* on what is cached, and what it has built is not older than that.
FlightInv ==
    /\ \A v \in Visits : Builds(v) <=> builder = v
    /\ builder # Nobody => cached = NoPage
    /\ cached = NoPage => regen.at = "rests"
    /\ regen.at = "built" => cached <= regen.snapshot

\* Nobody holds a snapshot of a document that is not written yet.
WrittenInv ==
    /\ cached <= version /\ regen.snapshot <= version
    /\ \A v \in Visits : visit[v].snapshot <= version

SnapshotsInv == SnapshotsTypeOK /\ FlightInv /\ WrittenInv

LEMMA SnapshotsInitially == SnapshotsInit => SnapshotsInv
BY SnapshotsAssumption
   DEF SnapshotsInit, SnapshotsInv, SnapshotsTypeOK, FlightInv, WrittenInv, Builds,
       NewVisit, RegenRests, NoPage, Versions

LEMMA SnapshotsStep == SnapshotsInv /\ [SnapshotsNext]_snapshotVars => SnapshotsInv'
<1> SUFFICES ASSUME SnapshotsInv, [SnapshotsNext]_snapshotVars PROVE SnapshotsInv'
  OBVIOUS
<1> USE SnapshotsAssumption
    DEF SnapshotsInv, SnapshotsTypeOK, FlightInv, WrittenInv, Builds, NoPage, Versions
<1>1. CASE WriteDocument
  BY <1>1 DEF WriteDocument
<1>2. CASE Partition
  BY <1>2 DEF Partition
<1>3. CASE Rebuild
  BY <1>3 DEF Rebuild, RegenRests
<1>4. CASE StoreRefreshed
  BY <1>4 DEF StoreRefreshed, RegenRests
<1>5. CASE Evict
  BY <1>5 DEF Evict, RegenRests
<1>6. ASSUME NEW v \in Visits, LookUp(v) PROVE SnapshotsInv'
  BY <1>6 DEF LookUp
<1>7. ASSUME NEW v \in Visits, JoinOrBuild(v) PROVE SnapshotsInv'
  <2>1. NewVisit.at \notin {"building", "built", "told"} /\ NewVisit.snapshot = NoPage
        /\ NewVisit \in [at : {"out", "missed", "building", "built", "told", "waits"},
                         call : Visits \cup {Nobody}, snapshot : Versions]
    BY DEF NewVisit
  <2>2. CASE cached # NoPage /\ visit' = [visit EXCEPT ![v] = NewVisit] /\ UNCHANGED builder
    BY <1>7, <2>1, <2>2 DEF JoinOrBuild
  <2>3. CASE builder # Nobody /\ visit' = [visit EXCEPT ![v] = Joined(builder)]
             /\ UNCHANGED builder
    <3>1. Joined(builder).at \in {"out", "waits"} /\ Joined(builder).snapshot = NoPage
          /\ Joined(builder) \in [at : {"out", "missed", "building", "built", "told", "waits"},
                                  call : Visits \cup {Nobody}, snapshot : Versions]
      BY DEF Joined, NewVisit
    <3> QED BY <1>7, <2>3, <3>1 DEF JoinOrBuild
  <2>4. CASE /\ cached = NoPage /\ builder = Nobody /\ builder' = v
             /\ visit' = [visit EXCEPT ![v].at = "building"]
    BY <1>7, <2>4 DEF JoinOrBuild
  <2> QED BY <1>7, <2>2, <2>3, <2>4 DEF JoinOrBuild
<1>8. ASSUME NEW v \in Visits, Build(v) PROVE SnapshotsInv'
  BY <1>8 DEF Build
<1>9. ASSUME NEW v \in Visits, TellWaiters(v) PROVE SnapshotsInv'
  BY <1>9 DEF TellWaiters, NewVisit
<1>10. ASSUME NEW v \in Visits, FinishBuild(v) PROVE SnapshotsInv'
  BY <1>10 DEF FinishBuild, NewVisit
<1>11. CASE UNCHANGED snapshotVars
  BY <1>11 DEF snapshotVars
<1> QED
  BY <1>1, <1>2, <1>3, <1>4, <1>5, <1>6, <1>7, <1>8, <1>9, <1>10, <1>11 DEF SnapshotsNext

\* A step that replaces a snapshot puts one there that is no older.
LEMMA ReplacedByNewer ==
    SnapshotsInv /\ [SnapshotsNext]_snapshotVars
        => [cached # NoPage /\ cached' # NoPage => cached' >= cached]_snapshotVars
<1> SUFFICES ASSUME SnapshotsInv, SnapshotsNext, cached # NoPage, cached' # NoPage
             PROVE cached' >= cached
  OBVIOUS
<1> USE SnapshotsAssumption
    DEF SnapshotsInv, SnapshotsTypeOK, FlightInv, WrittenInv, Builds, NoPage, Versions
<1>1. CASE StoreRefreshed
  BY <1>1 DEF StoreRefreshed
<1>2. CASE \E v \in Visits : FinishBuild(v)
  BY <1>2 DEF FinishBuild
<1>3. CASE cached' = cached
  BY <1>3
<1>4. CASE Evict
  BY <1>4 DEF Evict
<1> QED
  BY <1>1, <1>2, <1>3, <1>4
     DEF SnapshotsNext, WriteDocument, Partition, Rebuild, LookUp, JoinOrBuild, Build,
         TellWaiters

\* Every variable keeps its type and what it may hold where it stands.
THEOREM SnapshotsTyped == SnapshotsSpec => []SnapshotsTypeOK
<1>1. SnapshotsInv => SnapshotsTypeOK
  BY DEF SnapshotsInv
<1> QED
  BY <1>1, SnapshotsInitially, SnapshotsStep, PTL DEF SnapshotsSpec

\* A route's snapshot is never replaced by an older one, whichever of the requests
\* and the ticker built it and however long they took (static_mode.go:247-258).
THEOREM NeverOlder == SnapshotsSpec => SnapshotNeverOlder
BY SnapshotsInitially, SnapshotsStep, ReplacedByNewer, PTL
   DEF SnapshotsSpec, SnapshotNeverOlder

-----------------------------------------------------------------------------
(* Viewers. *)

Events == [name : {"viewers", "state", "lockdown"}, count : 0..Cardinality(Streams)]

ChanInv ==
    /\ chan \in [Streams -> Seq(Events)]
    /\ \A s \in Streams : Len(chan[s]) <= Buffer

\* No tally among the events of a queue.
NoTally(queue) == \A j \in DOMAIN queue : queue[j].name # "viewers"

\* What a page shows once it has read its channel to the end.
WillShow(s, n) ==
    \/ NoTally(chan[s]) /\ tally[s] = n
    \/ \E i \in DOMAIN chan[s] :
           /\ chan[s][i] = Count(n)
           /\ \A j \in DOMAIN chan[s] : j > i => chan[s][j].name # "viewers"

\* A page that lost no event will show how many watch, or a tally is still to come.
TallyInv ==
    TallyAtRest => \A s \in Streams \ spilled : standing[s] = "on" => WillShow(s, Watching(s))

ViewersInv == ViewersTypeOK /\ ChanInv /\ TallyInv

\* How many watch is one of the numbers a page may show.
LEMMA WatchingCounted ==
    ASSUME NEW s \in Streams PROVE Watching(s) \in 0..Cardinality(Streams)
<1>1. {v \in Subscribers \ Editors : GameOf[v] = GameOf[s]} \subseteq Streams
  BY DEF Subscribers
<1>2. /\ IsFiniteSet({v \in Subscribers \ Editors : GameOf[v] = GameOf[s]})
      /\ Watching(s) <= Cardinality(Streams)
  BY <1>1, FS_Subset, ViewersAssumption DEF Watching
<1>3. Cardinality(Streams) \in Nat /\ Watching(s) \in Nat
  BY <1>2, FS_CardinalityType, ViewersAssumption DEF Watching
<1> QED BY <1>2, <1>3

\* A queue stays within the buffer; one that was not full only grows.
LEMMA QueueSent ==
    ASSUME NEW queue \in Seq(Events), Len(queue) <= Buffer, NEW ev \in Events
    PROVE  /\ SendDropOldest(queue, ev) \in Seq(Events)
           /\ Len(SendDropOldest(queue, ev)) <= Buffer
           /\ Len(queue) # Buffer => SendDropOldest(queue, ev) = Append(queue, ev)
<1>1. CASE Len(queue) = Buffer
  <2>1. Tail(queue) \in Seq(Events) /\ Len(Tail(queue)) = Buffer - 1
    BY <1>1, ViewersAssumption
  <2> QED BY <1>1, <2>1, ViewersAssumption DEF SendDropOldest
<1>2. CASE Len(queue) # Buffer
  BY <1>2, ViewersAssumption DEF SendDropOldest
<1> QED BY <1>1, <1>2

\* What one fan-out does to the channels, and to those that were not full.
LEMMA Fanned ==
    ASSUME ViewersTypeOK, ChanInv, NEW ev, DOMAIN ev \subseteq Streams,
           \A s \in DOMAIN ev : ev[s] \in Events, FanOut(ev)
    PROVE  /\ ChanInv' /\ spilled' \subseteq Streams /\ UNCHANGED <<standing, tally>>
           /\ spilled \subseteq spilled'
           /\ \A s \in Streams \ spilled' :
                  chan'[s] = IF s \in DOMAIN ev THEN Append(chan[s], ev[s]) ELSE chan[s]
<1>1. \A s \in Streams :
          chan'[s] = IF s \in DOMAIN ev THEN SendDropOldest(chan[s], ev[s]) ELSE chan[s]
  BY DEF FanOut
<1>2. \A s \in DOMAIN ev :
          /\ SendDropOldest(chan[s], ev[s]) \in Seq(Events)
          /\ Len(SendDropOldest(chan[s], ev[s])) <= Buffer
          /\ Len(chan[s]) # Buffer => SendDropOldest(chan[s], ev[s]) = Append(chan[s], ev[s])
  BY QueueSent DEF ChanInv
<1>3. ChanInv'
  <2>1. \A s \in Streams : chan'[s] \in Seq(Events) /\ Len(chan'[s]) <= Buffer
    BY <1>1, <1>2 DEF ChanInv
  <2>2. chan' = [s \in Streams |-> chan'[s]]
    BY DEF FanOut
  <2> QED BY <2>1, <2>2 DEF ChanInv
<1>4. /\ spilled' \subseteq Streams /\ spilled \subseteq spilled'
      /\ UNCHANGED <<standing, tally>>
      /\ \A s \in DOMAIN ev : s \notin spilled' => Len(chan[s]) # Buffer
  BY DEF FanOut, ViewersTypeOK
<1> QED BY <1>1, <1>2, <1>3, <1>4

LEMMA EventsMade ==
    /\ State \in Events /\ Lockdown \in Events
    /\ \A n \in 0..Cardinality(Streams) : Count(n) \in Events
    /\ State.name # "viewers" /\ Lockdown.name # "viewers"
    /\ \A n : Count(n).name = "viewers" /\ Count(n).count = n
<1>1. Cardinality(Streams) \in Nat
  BY FS_CardinalityType, ViewersAssumption
<1> QED BY <1>1 DEF State, Lockdown, Count, Events

\* An event that is no tally leaves what a page will show; a tally is it.
LEMMA ShownAfterSend ==
    ASSUME ChanInv, NEW s \in Streams, NEW n, NEW ev \in Events,
           chan'[s] = Append(chan[s], ev), tally'[s] = tally[s]
    PROVE  /\ ev.name # "viewers" /\ WillShow(s, n) => WillShow(s, n)'
           /\ ev = Count(n) => WillShow(s, n)'
<1>1. chan[s] \in Seq(Events)
  BY DEF ChanInv
<1>2. /\ DOMAIN chan'[s] = 1..(Len(chan[s]) + 1) /\ DOMAIN chan[s] = 1..Len(chan[s])
      /\ \A i \in DOMAIN chan[s] : chan'[s][i] = chan[s][i]
      /\ chan'[s][Len(chan[s]) + 1] = ev /\ Len(chan[s]) \in Nat
  BY <1>1
<1> QED BY <1>2 DEF WillShow, NoTally

\* Reading an event, a tally or not, leaves what a page will show.
LEMMA ShownAfterRead ==
    ASSUME ChanInv, NEW s \in Streams, NEW n, WillShow(s, n), chan[s] # <<>>,
           chan'[s] = Tail(chan[s]),
           tally'[s] = IF Head(chan[s]).name = "viewers" THEN Head(chan[s]).count ELSE tally[s]
    PROVE  WillShow(s, n)'
<1>1. chan[s] \in Seq(Events)
  BY DEF ChanInv
<1>2. /\ DOMAIN chan[s] = 1..Len(chan[s]) /\ Len(chan[s]) \in Nat \ {0}
      /\ DOMAIN chan'[s] = 1..(Len(chan[s]) - 1) /\ Head(chan[s]) = chan[s][1]
      /\ \A i \in DOMAIN chan'[s] : chan'[s][i] = chan[s][i + 1]
  BY <1>1
<1>3. CASE NoTally(chan[s]) /\ tally[s] = n
  BY <1>2, <1>3 DEF WillShow, NoTally
<1>4. ASSUME NEW i \in DOMAIN chan[s], chan[s][i] = Count(n),
             \A j \in DOMAIN chan[s] : j > i => chan[s][j].name # "viewers"
      PROVE  WillShow(s, n)'
  <2>1. CASE i = 1
    <3>1. NoTally(chan'[s])
      BY <1>2, <1>4, <2>1 DEF NoTally
    <3>2. tally'[s] = n
      BY <1>2, <1>4, <2>1, EventsMade
    <3> QED BY <3>1, <3>2 DEF WillShow
  <2>2. CASE i # 1
    <3>1. i - 1 \in DOMAIN chan'[s] /\ chan'[s][i - 1] = Count(n)
      BY <1>2, <1>4, <2>2
    <3>2. ASSUME NEW j \in DOMAIN chan'[s], j > i - 1 PROVE chan'[s][j].name # "viewers"
      <4>1. j + 1 \in DOMAIN chan[s] /\ j + 1 > i /\ chan'[s][j] = chan[s][j + 1]
        BY <1>2, <3>2
      <4> QED BY <1>4, <4>1
    <3> QED BY <3>1, <3>2 DEF WillShow
  <2> QED BY <2>1, <2>2
<1> QED BY <1>3, <1>4 DEF WillShow

LEMMA ViewersInitially == ViewersInit => ViewersInv
<1> SUFFICES ASSUME ViewersInit PROVE ViewersInv
  OBVIOUS
<1>1. Cardinality(Streams) \in Nat
  BY FS_CardinalityType, ViewersAssumption
<1>2. ViewersTypeOK
  <2>1. mode \in [static : BOOLEAN, sentinel : BOOLEAN] /\ quiet \in BOOLEAN /\ timer \in BOOLEAN
    BY DEF ViewersInit
  <2>2. flips \in 0..MaxFlips /\ fanned \in 0..MaxFanned /\ telling \in Nat
    BY ViewersAssumption DEF ViewersInit
  <2>3. /\ standing \in [Streams -> Places] /\ tally \in [Streams -> 0..Cardinality(Streams)]
        /\ spilled \subseteq Streams /\ listed \subseteq Streams
        /\ \A s \in Streams : Len(chan[s]) <= Buffer
    BY <1>1, ViewersAssumption DEF ViewersInit, Places
  <2> QED BY <2>1, <2>2, <2>3 DEF ViewersTypeOK
<1>3. ChanInv
  BY ViewersAssumption DEF ViewersInit, ChanInv
<1>4. TallyInv
  BY DEF ViewersInit, TallyInv
<1> QED BY <1>2, <1>3, <1>4 DEF ViewersInv

\* A fan-out that is told every subscriber who reads keeps the invariant.
LEMMA KeepsTally ==
    ASSUME ViewersInv, UNCHANGED <<standing, tally>>, ChanInv',
           NEW s \in Streams \ spilled, TallyAtRest, standing[s] = "on",
           NEW ev \in Events, ev.name # "viewers",
           chan'[s] \in {chan[s], Append(chan[s], ev)}
    PROVE  WillShow(s, Watching(s))'
<1>1. WillShow(s, Watching(s)) /\ Watching(s)' = Watching(s)
  BY DEF ViewersInv, TallyInv, Watching, Subscribers
<1>2. CASE chan'[s] = chan[s]
  BY <1>1, <1>2 DEF WillShow, NoTally
<1>3. CASE chan'[s] = Append(chan[s], ev)
  <2>1. WillShow(s, Watching(s)) => \A n : n = Watching(s) => WillShow(s, n)'
    BY <1>3, ShownAfterSend DEF ViewersInv
  <2> QED BY <1>1, <2>1 DEF WillShow
<1> QED BY <1>2, <1>3

\* A fan-out that tells no tally keeps what is known of the channels and the pages.
LEMMA FanOutKeeps ==
    ASSUME ViewersInv, NEW ev, DOMAIN ev \subseteq Streams, FanOut(ev),
           UNCHANGED <<timer, telling>>,
           \A s \in DOMAIN ev : ev[s] \in Events /\ ev[s].name # "viewers"
    PROVE  ChanInv' /\ spilled' \subseteq Streams /\ UNCHANGED <<standing, tally>> /\ TallyInv'
<1>1. /\ ChanInv' /\ spilled' \subseteq Streams /\ UNCHANGED <<standing, tally>>
      /\ spilled \subseteq spilled'
      /\ \A s \in Streams \ spilled' :
             chan'[s] = IF s \in DOMAIN ev THEN Append(chan[s], ev[s]) ELSE chan[s]
  BY Fanned DEF ViewersInv
<1>2. ASSUME TallyAtRest', NEW s \in Streams \ spilled', standing'[s] = "on"
      PROVE  WillShow(s, Watching(s))'
  <2>1. TallyAtRest /\ standing[s] = "on" /\ s \in Streams \ spilled
    BY <1>1, <1>2 DEF TallyAtRest
  <2>2. CASE s \in DOMAIN ev
    BY <1>1, <1>2, <2>1, <2>2, KeepsTally
  <2>3. CASE s \notin DOMAIN ev
    BY <1>1, <1>2, <2>1, <2>3, KeepsTally, EventsMade
  <2> QED BY <2>2, <2>3
<1> QED BY <1>1, <1>2 DEF TallyInv

\* A stream that comes or goes leaves a tally to be told.
LEMMA Scheduled ==
    ASSUME ViewersTypeOK, ScheduleViewerCount
    PROVE  ~TallyAtRest' /\ quiet' \in BOOLEAN /\ timer' \in BOOLEAN /\ telling' \in Nat
<1>1. CASE quiet
  <2>1. quiet' = FALSE /\ telling' = telling + 1 /\ timer' = timer
    BY <1>1 DEF ScheduleViewerCount
  <2>2. telling' \in Nat /\ telling' # 0
    BY <2>1 DEF ViewersTypeOK
  <2> QED BY <2>1, <2>2 DEF TallyAtRest, ViewersTypeOK
<1>2. CASE ~quiet
  BY <1>2 DEF ScheduleViewerCount, TallyAtRest, ViewersTypeOK
<1> QED BY <1>1, <1>2

LEMMA StreamStep ==
    ASSUME ViewersInv, NEW s \in Streams, HandleStream(s)
    PROVE  ViewersInv'
<1> USE DEF ViewersInv
<1>1. ASSUME NEW from \in Places, NEW to \in Places, MovesTo(s, from, to)
      PROVE  /\ standing' \in [Streams -> Places] /\ standing[s] = from /\ standing'[s] = to
             /\ \A v \in Streams : v # s => standing'[v] = standing[v]
  BY <1>1 DEF MovesTo, ViewersTypeOK
<1>2. CASE AdmitViewer(s) \/ PumpEnds(s)
  <2>1. /\ UNCHANGED <<chan, tally, spilled, modeVars, fanVars, tallyVars>>
        /\ \/ MovesTo(s, "out", "admitted") \/ MovesTo(s, "on", "leaving")
    BY <1>2 DEF AdmitViewer, PumpEnds
  <2>2. /\ standing' \in [Streams -> Places]
        /\ \A v \in Streams : v # s => standing'[v] = standing[v]
        /\ <<standing[s], standing'[s]>> \in {<<"out", "admitted">>, <<"on", "leaving">>}
    BY <1>1, <2>1 DEF Places
  <2>3. ViewersTypeOK' /\ ChanInv'
    BY <2>1, <2>2 DEF ViewersTypeOK, ChanInv, modeVars, fanVars, tallyVars
  <2>4. Subscribers' = Subscribers
    BY <2>2 DEF Subscribers
  <2>5. ASSUME TallyAtRest', NEW v \in Streams \ spilled', standing'[v] = "on"
        PROVE  WillShow(v, Watching(v))'
    <3>1. TallyAtRest /\ standing[v] = "on" /\ v \in Streams \ spilled
      BY <2>1, <2>2, <2>5 DEF TallyAtRest, tallyVars
    <3>2. Watching(v)' = Watching(v) /\ WillShow(v, Watching(v))
      BY <2>4, <3>1 DEF Watching, TallyInv
    <3> QED BY <2>1, <3>2 DEF WillShow, NoTally
  <2> QED BY <2>3, <2>5 DEF TallyInv
<1>3. CASE AddSubscriber(s)
  <2>1. standing' \in [Streams -> Places] /\ standing'[s] = "added"
    BY <1>1, <1>3 DEF AddSubscriber, Places
  <2> QED BY <1>3, <2>1 DEF AddSubscriber, ViewersTypeOK, ChanInv, TallyInv, TallyAtRest,
                            modeVars, fanVars, tallyVars
<1>4. CASE StartPump(s) \/ HandlerEnds(s)
  <2>1. ScheduleViewerCount /\ UNCHANGED <<chan, tally, spilled, modeVars, fanVars>>
        /\ standing' \in [Streams -> Places]
    BY <1>1, <1>4 DEF StartPump, HandlerEnds, Places
  <2>2. ~TallyAtRest' /\ quiet' \in BOOLEAN /\ timer' \in BOOLEAN /\ telling' \in Nat
    BY <2>1, Scheduled
  <2> QED BY <2>1, <2>2 DEF ViewersTypeOK, ChanInv, TallyInv, modeVars, fanVars
<1>5. CASE PumpEvent(s)
  <2> DEFINE ev == Head(chan[s])
  <2>1. /\ standing[s] = "on" /\ chan[s] # <<>>
        /\ chan' = [chan EXCEPT ![s] = Tail(chan[s])]
        /\ tally' = [tally EXCEPT ![s] = IF ev.name = "viewers" THEN ev.count ELSE tally[s]]
        /\ standing' = [standing EXCEPT
                          ![s] = IF ev.name = "lockdown" THEN "leaving" ELSE standing[s]]
        /\ UNCHANGED <<spilled, modeVars, fanVars, tallyVars>>
    BY <1>5 DEF PumpEvent
  <2>2. ev \in Events /\ Tail(chan[s]) \in Seq(Events) /\ Len(Tail(chan[s])) <= Buffer
    <3>1. chan[s] \in Seq(Events) /\ Len(chan[s]) <= Buffer
      BY DEF ChanInv
    <3> QED BY <2>1, <3>1, ViewersAssumption
  <2>3. ChanInv'
    BY <2>1, <2>2 DEF ChanInv
  <2>4. ViewersTypeOK'
    <3>1. tally' \in [Streams -> 0..Cardinality(Streams)]
      BY <2>1, <2>2 DEF ViewersTypeOK, Events
    <3>2. standing' \in [Streams -> Places]
      BY <2>1 DEF ViewersTypeOK, Places
    <3> QED BY <2>1, <2>3, <3>1, <3>2 DEF ViewersTypeOK, ChanInv, modeVars, fanVars, tallyVars
  <2>5. /\ standing'[s] \in {"on", "leaving"}
        /\ \A v \in Streams : v # s => standing'[v] = standing[v] /\ chan'[v] = chan[v]
                                      /\ tally'[v] = tally[v]
        /\ Subscribers' = Subscribers
    BY <2>1 DEF Subscribers, ViewersTypeOK, ChanInv
  <2>6. ASSUME TallyAtRest', NEW v \in Streams \ spilled', standing'[v] = "on"
        PROVE  WillShow(v, Watching(v))'
    <3>1. TallyAtRest /\ standing[v] = "on" /\ v \in Streams \ spilled
      BY <2>1, <2>5, <2>6 DEF TallyAtRest, tallyVars
    <3>2. Watching(v)' = Watching(v) /\ WillShow(v, Watching(v))
      BY <2>5, <3>1 DEF Watching, TallyInv
    <3>3. CASE v = s
      <4>1. chan'[s] = Tail(chan[s])
            /\ tally'[s] = IF ev.name = "viewers" THEN ev.count ELSE tally[s]
        BY <2>1 DEF ChanInv, ViewersTypeOK
      <4>2. \A n : WillShow(s, n) => WillShow(s, n)'
        BY <2>1, <4>1, ShownAfterRead
      <4> QED BY <3>2, <3>3, <4>2 DEF WillShow
    <3>4. CASE v # s
      BY <2>5, <3>2, <3>4 DEF WillShow, NoTally
    <3> QED BY <3>3, <3>4
  <2> QED BY <2>3, <2>4, <2>6 DEF TallyInv
<1>6. CASE RemoveSubscriber(s)
  <2>1. standing' \in [Streams -> Places] /\ standing'[s] = "removed"
    BY <1>1, <1>6 DEF RemoveSubscriber, Places
  <2>2. /\ chan' = [chan EXCEPT ![s] = <<>>] /\ tally' = [tally EXCEPT ![s] = 0]
        /\ spilled' = spilled \ {s} /\ UNCHANGED <<modeVars, fanVars, tallyVars>>
    BY <1>6 DEF RemoveSubscriber
  <2>3. ChanInv' /\ tally' \in [Streams -> 0..Cardinality(Streams)]
    <3>1. Cardinality(Streams) \in Nat
      BY FS_CardinalityType, ViewersAssumption
    <3> QED BY <2>2, <3>1, ViewersAssumption DEF ChanInv, ViewersTypeOK
  <2>4. ViewersTypeOK'
    BY <2>1, <2>2, <2>3 DEF ViewersTypeOK, ChanInv, modeVars, fanVars, tallyVars
  <2>5. ~TallyAtRest'
    BY <2>1 DEF TallyAtRest
  <2> QED BY <2>3, <2>4, <2>5 DEF TallyInv
<1> QED BY <1>2, <1>3, <1>4, <1>5, <1>6 DEF HandleStream

LEMMA ViewersStep == ViewersInv /\ [ViewersNext]_viewerVars => ViewersInv'
<1> SUFFICES ASSUME ViewersInv, [ViewersNext]_viewerVars PROVE ViewersInv'
  OBVIOUS
<1> USE DEF ViewersInv
<1>1. ASSUME NEW s \in Streams, HandleStream(s) PROVE ViewersInv'
  BY <1>1, StreamStep
<1>2. ASSUME UNCHANGED streamVars, TallyAtRest' => TallyAtRest
      PROVE  ChanInv' /\ TallyInv'
  <2>1. ChanInv' /\ Subscribers' = Subscribers
    BY <1>2 DEF streamVars, ChanInv, Subscribers
  <2>2. ASSUME TallyAtRest', NEW s \in Streams \ spilled', standing'[s] = "on"
        PROVE  WillShow(s, Watching(s))'
    <3>1. TallyAtRest /\ standing[s] = "on" /\ s \in Streams \ spilled
      BY <1>2, <2>2 DEF streamVars
    <3>2. Watching(s)' = Watching(s) /\ WillShow(s, Watching(s))
      BY <2>1, <3>1 DEF Watching, TallyInv
    <3> QED BY <1>2, <3>2 DEF WillShow, NoTally, streamVars
  <2> QED BY <2>1, <2>2 DEF TallyInv
<1>3. CASE Cool \/ TimerFires
  <2>1. UNCHANGED streamVars /\ UNCHANGED <<modeVars, fanVars>>
        /\ quiet' \in BOOLEAN /\ timer' \in BOOLEAN
    BY <1>3 DEF Cool, TimerFires, ViewersTypeOK
  <2>2. telling' \in Nat /\ (TallyAtRest' => TallyAtRest)
    <3>1. CASE Cool
      BY <3>1 DEF Cool, ViewersTypeOK, TallyAtRest, streamVars
    <3>2. CASE TimerFires
      BY <3>2 DEF TimerFires, ViewersTypeOK, TallyAtRest, streamVars
    <3> QED BY <1>3, <3>1, <3>2
  <2> QED BY <1>2, <2>1, <2>2 DEF ViewersTypeOK, streamVars, modeVars, fanVars
<1>4. CASE FlipStatic \/ \E audience \in {Streams, Editors, Streams \ Editors} : BroadcastTo(audience)
  <2>1. UNCHANGED <<streamVars, tallyVars>>
    BY <1>4 DEF FlipStatic, BroadcastTo
  <2>2. ChanInv' /\ TallyInv'
    BY <1>2, <2>1 DEF TallyAtRest, tallyVars, streamVars
  <2>3. CASE FlipStatic
    <3>1. mode' \in [static : BOOLEAN, sentinel : BOOLEAN]
      BY <2>3 DEF FlipStatic, ViewersTypeOK
    <3>2. flips' \in 0..MaxFlips /\ UNCHANGED fanVars
      BY <2>3, ViewersAssumption DEF FlipStatic, ViewersTypeOK
    <3> QED BY <2>1, <2>2, <3>1, <3>2 DEF ViewersTypeOK, streamVars, tallyVars, fanVars
  <2>4. CASE \E audience \in {Streams, Editors, Streams \ Editors} : BroadcastTo(audience)
    <3>1. listed' \subseteq Streams /\ fanned' \in 0..MaxFanned /\ UNCHANGED modeVars
      BY <2>4, ViewersAssumption DEF BroadcastTo, ViewersTypeOK, Subscribers
    <3> QED BY <2>1, <2>2, <3>1 DEF ViewersTypeOK, streamVars, tallyVars, modeVars
  <2> QED BY <1>4, <2>3, <2>4
<1>5. CASE BroadcastViewerCount
  <2> DEFINE ev == [s \in Subscribers |-> Count(Watching(s))]
  <2>1. /\ DOMAIN ev \subseteq Streams /\ FanOut(ev) /\ telling' = telling - 1 /\ telling > 0
        /\ UNCHANGED <<modeVars, fanVars, quiet, timer>>
    BY <1>5 DEF BroadcastViewerCount, Subscribers
  <2>2. \A s \in DOMAIN ev : ev[s] \in Events
    BY WatchingCounted, EventsMade DEF Subscribers
  <2> HIDE DEF ev
  <2>3. /\ ChanInv' /\ spilled' \subseteq Streams /\ UNCHANGED <<standing, tally>>
        /\ \A s \in Streams \ spilled' :
               chan'[s] = IF s \in DOMAIN ev THEN Append(chan[s], ev[s]) ELSE chan[s]
    BY <2>1, <2>2, Fanned
  <2>4. ASSUME NEW s \in Streams \ spilled', standing'[s] = "on"
        PROVE  WillShow(s, Watching(s))'
    <3>1. s \in Subscribers /\ Watching(s)' = Watching(s)
      BY <2>3, <2>4 DEF Subscribers, Watching
    <3>2. /\ ev[s] = Count(Watching(s)) /\ ev[s] \in Events
          /\ chan'[s] = Append(chan[s], ev[s]) /\ tally'[s] = tally[s]
      BY <2>2, <2>3, <2>4, <3>1 DEF ev
    <3>3. \A n : n = Watching(s) => WillShow(s, n)'
      BY <3>2, ShownAfterSend
    <3> QED BY <3>1, <3>3 DEF WillShow
  <2>5. telling' \in Nat
    BY <2>1 DEF ViewersTypeOK
  <2>6. ViewersTypeOK'
    BY <2>1, <2>3, <2>5 DEF ViewersTypeOK, ChanInv, modeVars, fanVars
  <2> QED BY <2>3, <2>4, <2>6 DEF TallyInv
<1>6. ASSUME NEW s \in Streams, SendListed(s) PROVE ViewersInv'
  <2> DEFINE ev == [t \in {s} \cap Subscribers |-> State]
  <2>1. /\ FanOut(ev) /\ listed' = listed \ {s} /\ UNCHANGED <<modeVars, fanned, tallyVars>>
    BY <1>6 DEF SendListed
  <2>2. DOMAIN ev \subseteq Streams
        /\ \A t \in DOMAIN ev : ev[t] \in Events /\ ev[t].name # "viewers"
    BY EventsMade
  <2> HIDE DEF ev
  <2>3. ChanInv' /\ spilled' \subseteq Streams /\ UNCHANGED <<standing, tally>> /\ TallyInv'
    BY <2>1, <2>2, FanOutKeeps DEF tallyVars
  <2> QED BY <2>1, <2>3 DEF ViewersTypeOK, ChanInv, modeVars, tallyVars
<1>7. CASE BroadcastLockdown
  <2> DEFINE ev == [s \in Subscribers \ Editors |-> Lockdown]
  <2>1. /\ FanOut(ev) /\ mode' = [mode EXCEPT !.sentinel = FALSE]
        /\ UNCHANGED <<flips, fanVars, tallyVars>>
    BY <1>7 DEF BroadcastLockdown
  <2>2. DOMAIN ev \subseteq Streams
        /\ \A s \in DOMAIN ev : ev[s] \in Events /\ ev[s].name # "viewers"
    BY EventsMade DEF Subscribers
  <2> HIDE DEF ev
  <2>3. ChanInv' /\ spilled' \subseteq Streams /\ UNCHANGED <<standing, tally>> /\ TallyInv'
    BY <2>1, <2>2, FanOutKeeps DEF tallyVars
  <2>4. mode' \in [static : BOOLEAN, sentinel : BOOLEAN]
    BY <2>1 DEF ViewersTypeOK
  <2> QED BY <2>1, <2>3, <2>4 DEF ViewersTypeOK, ChanInv, fanVars, tallyVars
<1>8. CASE UNCHANGED viewerVars
  BY <1>2, <1>8 DEF viewerVars, streamVars, modeVars, fanVars, tallyVars, ViewersTypeOK, TallyAtRest
<1> QED
  BY <1>1, <1>3, <1>4, <1>5, <1>6, <1>7, <1>8 DEF ViewersNext

\* Every variable keeps its type: no channel exceeds its buffer, no page shows more
\* watching than there are streams.
THEOREM ViewersTyped == ViewersSpec => []ViewersTypeOK
<1>1. ViewersInv => ViewersTypeOK
  BY DEF ViewersInv
<1> QED BY <1>1, ViewersInitially, ViewersStep, PTL DEF ViewersSpec

\* What a page will show, it shows once it has read everything.
LEMMA ShownIsFinal == ViewersInv => FinalCountIsShown
<1> SUFFICES ASSUME ViewersInv, TallyAtRest, NEW s \in Streams \ spilled,
                    standing[s] = "on", chan[s] = <<>>
             PROVE  tally[s] = Watching(s)
  BY DEF FinalCountIsShown
<1>1. WillShow(s, Watching(s))
  BY DEF ViewersInv, TallyInv
<1> QED BY <1>1 DEF WillShow

\* "Eventual consistency is guaranteed" (manager.go:166-167): at rest each page that
\* lost no event shows how many watch its game, whoever came, went or was shed.
THEOREM CountIsShown == ViewersSpec => []FinalCountIsShown
BY ShownIsFinal, ViewersInitially, ViewersStep, PTL DEF ViewersSpec

-----------------------------------------------------------------------------
(* The hosts' cursors. *)

\* A POST lists streams that are there, and is made within its bound.
THEOREM HostTyped == HostSpec => []HostTypeOK
<1> USE HostAssumption
<1>1. HostInit => HostTypeOK
  BY DEF HostInit, HostTypeOK
<1>2. HostTypeOK /\ [HostNext]_hostPresenceVars => HostTypeOK'
  <2> SUFFICES ASSUME HostTypeOK, [HostNext]_hostPresenceVars PROVE HostTypeOK'
    OBVIOUS
  <2> USE DEF HostTypeOK
  <2>1. ASSUME NEW c \in HostStreams,
               AddHostSubscriber(c) \/ RemoveHostSubscriber(c) \/ CloseChannel(c)
        PROVE  HostTypeOK'
    BY <2>1 DEF AddHostSubscriber, RemoveHostSubscriber, CloseChannel
  <2>2. ASSUME NEW m \in Posters, ListChannels(m) PROVE HostTypeOK'
    <3>1. posts[m] + 1 \in 0..MaxPosts
      BY <2>2 DEF ListChannels
    <3> QED
      BY <2>2, <3>1 DEF ListChannels
  <2>3. ASSUME NEW m \in Posters, NEW c \in HostStreams, SendPresence(m, c) PROVE HostTypeOK'
    BY <2>3 DEF SendPresence
  <2>4. CASE UNCHANGED hostPresenceVars
    BY <2>4 DEF hostPresenceVars
  <2> QED
    BY <2>1, <2>2, <2>3, <2>4 DEF HostNext
<1> QED
  BY <1>1, <1>2, PTL DEF HostSpec

-----------------------------------------------------------------------------
(* The outbox of a venue's page. *)

\* filter, change by change: w[k] is what is left of the first k.
Filters(w, s, gone, X) ==
    /\ w \in [0..Len(s) -> Seq(X)] /\ w[0] = <<>> /\ w[Len(s)] = Without(s, gone)
    /\ \A k \in 1..Len(s) : w[k] = IF s[k] \in gone THEN w[k - 1] ELSE Append(w[k - 1], s[k])

LEMMA WithoutWalk ==
    ASSUME NEW X, NEW s \in Seq(X), NEW gone
    PROVE  \E w : Filters(w, s, gone, X)
<1>0. PICK n \in Nat : n = Len(s)
  OBVIOUS
<1>14. PICK none : none = <<>>
  OBVIOUS
<1> DEFINE V == Seq(X)
           F == [p \in (1..n) \X V |-> IF s[p[1]] \in gone THEN p[2] ELSE Append(p[2], s[p[1]])]
           D == DOMAIN s
           E(it) == it = [d \in SUBSET D |->
                             IF d = {} THEN <<>>
                             ELSE IF s[Max(d)] \in gone THEN it[d \ {Max(d)}]
                                  ELSE Append(it[d \ {Max(d)}], s[Max(d)])]
           jt == CHOOSE it : E(it)
<1>1. n \in Nat /\ <<>> \in V /\ \A k \in 1..n : s[k] \in X
  BY <1>0
<1>2. ASSUME NEW v \in V, NEW k \in 1..n
      PROVE  /\ (IF s[k] \in gone THEN v ELSE Append(v, s[k])) \in V
             /\ F[<<k, v>>] = IF s[k] \in gone THEN v ELSE Append(v, s[k])
  <2>1. (IF s[k] \in gone THEN v ELSE Append(v, s[k])) \in V
    BY <1>1
  <2> HIDE DEF V
  <2> QED BY <2>1
<1>3. F \in [(1..n) \X V -> V]
  <2>1. \A p \in (1..n) \X V : (IF s[p[1]] \in gone THEN p[2] ELSE Append(p[2], s[p[1]])) \in V
    BY <1>2
  <2> HIDE DEF V
  <2> QED BY <2>1
<1>4. \A d \in SUBSET (1..n) : d # {} => Max(d) \in d /\ d \ {Max(d)} \in SUBSET (1..n)
  BY <1>1, MaxOf
<1> HIDE DEF F, E, jt
<1>7. Without(s, gone) = jt[D]
  BY DEF Without, FoldLeft, MapThenFoldSet, jt, E
<1>12. D = 1..n
  BY <1>0
<1> HIDE DEF V, D
<1>5. \E it : E(it)
  <2>0. PICK it : it \in [SUBSET (1..n) -> V] /\ FoldsUp(it, n, <<>>, F)
    BY <1>1, <1>3, WalkExists
  <2>1. \A d \in SUBSET (1..n) : it[d] = IF d = {} THEN <<>> ELSE F[<<Max(d), it[d \ {Max(d)}]>>]
    BY <2>0 DEF FoldsUp
  <2>2. ASSUME NEW d \in SUBSET (1..n), d # {}
        PROVE  it[d] = IF s[Max(d)] \in gone THEN it[d \ {Max(d)}]
                       ELSE Append(it[d \ {Max(d)}], s[Max(d)])
    <3>1. Max(d) \in 1..n /\ it[d \ {Max(d)}] \in V
      BY <1>4, <2>0, <2>2
    <3> QED BY <1>2, <2>1, <2>2, <3>1
  <2> QED BY <1>12, <2>0, <2>1, <2>2 DEF E
<1>6. E(jt)
  BY <1>5 DEF jt
<1>8. jt[{}] = none
  BY <1>6, <1>14 DEF E
<1>9. ASSUME NEW d \in SUBSET (1..n), d # {}, jt[d \ {Max(d)}] \in V
      PROVE  jt[d] = F[<<Max(d), jt[d \ {Max(d)}]>>]
  <2>1. Max(d) \in 1..n
    BY <1>4, <1>9
  <2>2. jt[d] = IF s[Max(d)] \in gone THEN jt[d \ {Max(d)}]
                ELSE Append(jt[d \ {Max(d)}], s[Max(d)])
    BY <1>6, <1>9, <1>12 DEF E
  <2> QED BY <1>2, <1>9, <2>1, <2>2
<1>13. none \in V
  BY <1>1, <1>14
<1>10. PICK w : w \in [0..n -> V] /\ Climbs(w, n, none, F) /\ w[n] = jt[1..n]
  <2>1. FoldsIn(jt, n, V, none, F)
    BY <1>8, <1>9 DEF FoldsIn
  <2>2. \A U, a, G, it : a \in U /\ G \in [(1..n) \X U -> U] /\ FoldsIn(it, n, U, a, G)
            => \E w : w \in [0..n -> U] /\ Climbs(w, n, a, G) /\ w[n] = it[1..n]
    BY <1>1, WalkIs
  <2>5. \A a, G, it : a \in V /\ G \in [(1..n) \X V -> V] /\ FoldsIn(it, n, V, a, G)
            => \E w : w \in [0..n -> V] /\ Climbs(w, n, a, G) /\ w[n] = it[1..n]
    BY <2>2, Zenon
  <2>6. \A G, it : none \in V /\ G \in [(1..n) \X V -> V] /\ FoldsIn(it, n, V, none, G)
            => \E w : w \in [0..n -> V] /\ Climbs(w, n, none, G) /\ w[n] = it[1..n]
    BY <2>5, Zenon
  <2>7. \A it : none \in V /\ F \in [(1..n) \X V -> V] /\ FoldsIn(it, n, V, none, F)
            => \E w : w \in [0..n -> V] /\ Climbs(w, n, none, F) /\ w[n] = it[1..n]
    BY <2>6, Zenon
  <2>4. none \in V /\ F \in [(1..n) \X V -> V] /\ FoldsIn(jt, n, V, none, F)
        => \E w : w \in [0..n -> V] /\ Climbs(w, n, none, F) /\ w[n] = jt[1..n]
    BY <2>7, Zenon
  <2>3. \E w : w \in [0..n -> V] /\ Climbs(w, n, none, F) /\ w[n] = jt[1..n]
    BY <1>3, <1>13, <2>1, <2>4, Zenon
  <2> QED BY <2>3, Zenon
<1>11. ASSUME NEW k \in 1..n
       PROVE  w[k] = IF s[k] \in gone THEN w[k - 1] ELSE Append(w[k - 1], s[k])
  <2>1. k - 1 \in 0..n
    BY <1>1
  <2>2. w[k - 1] \in V /\ w[k] = F[<<k, w[k - 1]>>]
    BY <1>10, <2>1 DEF Climbs
  <2> QED BY <1>2, <2>2
<1> QED BY <1>0, <1>7, <1>14, <1>10, <1>11, <1>12 DEF Climbs, V, Filters

\* Where the changes filter leaves come from: e[i] is the place the i-th had.
KeptFrom(out, s, gone, e) ==
    /\ e \in [DOMAIN out -> DOMAIN s]
    /\ \A i \in DOMAIN out : out[i] = s[e[i]] /\ out[i] \notin gone
    /\ \A i, k \in DOMAIN out : i < k => e[i] < e[k]
    /\ \A j \in DOMAIN s : s[j] \notin gone => \E i \in DOMAIN out : e[i] = j

LEMMA WithoutKeeps ==
    ASSUME NEW X, NEW s \in Seq(X), NEW gone
    PROVE  /\ Without(s, gone) \in Seq(X) /\ Len(Without(s, gone)) <= Len(s)
           /\ \E e : KeptFrom(Without(s, gone), s, gone, e)
<1>0. PICK n \in Nat : n = Len(s)
  OBVIOUS
<1>1. PICK w : /\ w \in [0..n -> Seq(X)] /\ w[0] = <<>> /\ w[n] = Without(s, gone)
               /\ \A k \in 1..n :
                     w[k] = IF s[k] \in gone THEN w[k - 1] ELSE Append(w[k - 1], s[k])
  <2>1. \E w : Filters(w, s, gone, X)
    BY WithoutWalk
  <2> QED BY <1>0, <2>1 DEF Filters
<1> DEFINE From(e, k) ==
               /\ Len(w[k]) <= k /\ e \in [1..Len(w[k]) -> 1..k]
               /\ \A i \in 1..Len(w[k]) : w[k][i] = s[e[i]] /\ w[k][i] \notin gone
               /\ \A i, m \in 1..Len(w[k]) : i < m => e[i] < e[m]
               /\ \A j \in 1..k : s[j] \notin gone => \E i \in 1..Len(w[k]) : e[i] = j
           N == {k \in Nat : k <= n => \E e : From(e, k)}
<1>2. 0 \in N
  <2>1. Len(w[0]) = 0 /\ 1..0 = {}
    BY <1>1
  <2>2. From(<<>>, 0)
    BY <2>1
  <2> QED BY <2>2
<1>3. ASSUME NEW k \in Nat, k \in N PROVE k + 1 \in N
  <2>a. (k <= n => \E e : From(e, k)) /\ k + 1 \in Nat
    <3> HIDE DEF From
    <3> QED BY <1>3
  <2>b. SUFFICES ASSUME k + 1 <= n PROVE \E e : From(e, k + 1)
    <3> HIDE DEF From
    <3> QED BY <2>a
  <2>1. k \in 0..n /\ k + 1 \in 1..n /\ (k + 1) - 1 = k /\ k <= n
    BY <2>b
  <2>2. PICK e : From(e, k)
    <3> HIDE DEF From
    <3> QED BY <2>a, <2>1
  <2>3. w[k] \in Seq(X) /\ Len(w[k]) \in Nat
    BY <1>1, <2>1
  <2>4. CASE s[k + 1] \in gone
    <3>1. w[k + 1] = w[k]
      BY <1>1, <2>1, <2>4
    <3>2. \A j \in 1..(k + 1) : s[j] \notin gone => j \in 1..k
      BY <2>4
    <3>3. Len(w[k + 1]) <= k + 1 /\ e \in [1..Len(w[k + 1]) -> 1..(k + 1)]
      <4> DEFINE l == Len(w[k])
      <4>1. l \in Nat /\ l <= k /\ e \in [1..l -> 1..k]
        BY <2>2, <2>3
      <4> HIDE DEF l
      <4>2. l <= k + 1 /\ \A i \in 1..l : e[i] \in 1..(k + 1)
        BY <4>1
      <4>3. Len(w[k]) <= k + 1 /\ \A i \in 1..Len(w[k]) : e[i] \in 1..(k + 1)
        BY <4>2 DEF l
      <4> QED BY <2>2, <3>1, <4>3
    <3>4. From(e, k + 1)
      BY <2>2, <3>1, <3>2, <3>3
    <3> QED BY <3>4
  <2>5. CASE s[k + 1] \notin gone
    <3> DEFINE m == Len(w[k])
               f == [i \in 1..(m + 1) |-> IF i = m + 1 THEN k + 1 ELSE e[i]]
    <3>1. w[k + 1] = Append(w[k], s[k + 1])
      BY <1>1, <2>1, <2>5
    <3>2. s[k + 1] \in X
      BY <1>0, <2>1
    <3>3. /\ Len(w[k + 1]) = m + 1 /\ w[k + 1][m + 1] = s[k + 1]
          /\ \A i \in 1..m : w[k + 1][i] = w[k][i]
      BY <2>3, <3>1, <3>2
    <3>4. \A i \in 1..m : e[i] \in 1..k
      BY <2>2
    <3>5. f[m + 1] = k + 1 /\ \A i \in 1..m : f[i] = e[i]
      BY <2>3
    <3>6. f \in [1..(m + 1) -> 1..(k + 1)] /\ m + 1 <= k + 1
      BY <2>2, <2>3, <3>4
    <3> HIDE DEF f
    <3>7. \A i \in 1..(m + 1) : w[k + 1][i] = s[f[i]] /\ w[k + 1][i] \notin gone
      <4> TAKE i \in 1..(m + 1)
      <4>1. CASE i = m + 1
        BY <2>5, <3>3, <3>5, <4>1
      <4>2. CASE i # m + 1
        <5>1. i \in 1..m
          BY <2>3, <4>2
        <5> QED BY <2>2, <3>3, <3>5, <5>1
      <4> QED BY <4>1, <4>2
    <3>8. \A i, l \in 1..(m + 1) : i < l => f[i] < f[l]
      <4> SUFFICES ASSUME NEW i \in 1..(m + 1), NEW l \in 1..(m + 1), i < l PROVE f[i] < f[l]
        OBVIOUS
      <4>1. i \in 1..m /\ f[i] = e[i] /\ e[i] \in 1..k
        BY <2>3, <3>4, <3>5
      <4>2. CASE l = m + 1
        BY <3>5, <4>1, <4>2
      <4>3. CASE l # m + 1
        <5>1. l \in 1..m /\ f[l] = e[l]
          BY <2>3, <3>5, <4>3
        <5> QED BY <2>2, <4>1, <5>1
      <4> QED BY <4>2, <4>3
    <3>9. \A j \in 1..(k + 1) : s[j] \notin gone => \E i \in 1..(m + 1) : f[i] = j
      <4> SUFFICES ASSUME NEW j \in 1..(k + 1), s[j] \notin gone
                   PROVE  \E i \in 1..(m + 1) : f[i] = j
        OBVIOUS
      <4>1. CASE j = k + 1
        BY <2>3, <3>5, <4>1
      <4>2. CASE j # k + 1
        <5>1. j \in 1..k
          BY <4>2
        <5>2. PICK i \in 1..m : e[i] = j
          BY <2>2, <5>1
        <5> QED BY <2>3, <3>5, <5>2
      <4> QED BY <4>1, <4>2
    <3>10. From(f, k + 1)
      BY <3>3, <3>6, <3>7, <3>8, <3>9
    <3> QED BY <3>10
  <2> QED BY <2>4, <2>5
<1> HIDE DEF N
<1>4. Nat \subseteq N
  BY <1>2, <1>3, SetInduction
<1>5. PICK e : From(e, n)
  <2> HIDE DEF From
  <2>1. n \in N /\ n <= n
    BY <1>4
  <2> QED BY <2>1 DEF N
<1>6. w[n] \in Seq(X) /\ DOMAIN w[n] = 1..Len(w[n]) /\ DOMAIN s = 1..n
  BY <1>0, <1>1
<1>7. KeptFrom(w[n], s, gone, e)
  BY <1>5, <1>6 DEF KeptFrom
<1> QED BY <1>0, <1>1, <1>5, <1>6, <1>7

-----------------------------------------------------------------------------
\* What a change makes of the team it is about.
Says(op) == IF op.kind = "remove" THEN "gone" ELSE op.body

\* The changes of K that wait in s; what the last of them says; a creation, or a
\* set of numbers, that waits alone.
Waits(s, K) == {op \in K : \E i \in DOMAIN s : s[i] = op}
LastSays(s, K, x) ==
    \A i \in DOMAIN s : s[i] \in K /\ (\A k \in DOMAIN s : s[k] \in K => k <= i) => Says(s[i]) = x
Lone(s, K) ==
    \A i, k \in DOMAIN s :
        s[i] \in K /\ s[k] \in K /\ s[i].kind \in {"create", "numbers"} => i = k

\* Of the changes of K, new is what old was.
Carries(new, old, K) ==
    /\ Waits(new, K) = Waits(old, K)
    /\ \A x : LastSays(old, K, x) => LastSays(new, K, x)
    /\ Lone(old, K) => Lone(new, K)

\* e takes the changes of K in new, in order, to those in old.
InOrder(e, new, old, K) ==
    /\ \A i \in DOMAIN new : new[i] \in K => e[i] \in DOMAIN old /\ old[e[i]] = new[i]
    /\ \A i, k \in DOMAIN new : new[i] \in K /\ new[k] \in K /\ i < k => e[i] < e[k]
    /\ \A j \in DOMAIN old : old[j] \in K => \E i \in DOMAIN new : new[i] \in K /\ e[i] = j

LEMMA OrderCarries ==
    ASSUME NEW X, NEW new \in Seq(X), NEW old \in Seq(X), NEW K, NEW e,
           InOrder(e, new, old, K)
    PROVE  Carries(new, old, K)
<1>0. DOMAIN new \subseteq Nat /\ DOMAIN old \subseteq Nat
  OBVIOUS
<1>1. ASSUME NEW i \in DOMAIN new, NEW k \in DOMAIN new, new[i] \in K, new[k] \in K
      PROVE  (e[i] = e[k] => i = k) /\ (k <= i => e[k] <= e[i])
  <2>1. i \in Nat /\ k \in Nat /\ e[i] \in Nat /\ e[k] \in Nat
    BY <1>0, <1>1 DEF InOrder
  <2>2. (i < k => e[i] < e[k]) /\ (k < i => e[k] < e[i])
    BY <1>1 DEF InOrder
  <2> QED BY <2>1, <2>2
<1>2. Waits(new, K) = Waits(old, K)
  BY DEF Waits, InOrder
<1>3. ASSUME NEW x, LastSays(old, K, x) PROVE LastSays(new, K, x)
  <2> SUFFICES ASSUME NEW i \in DOMAIN new, new[i] \in K,
                      \A k \in DOMAIN new : new[k] \in K => k <= i
               PROVE  Says(new[i]) = x
    BY DEF LastSays
  <2>1. e[i] \in DOMAIN old /\ old[e[i]] = new[i]
    BY DEF InOrder
  <2>2. ASSUME NEW j \in DOMAIN old, old[j] \in K PROVE j <= e[i]
    <3>1. PICK k \in DOMAIN new : new[k] \in K /\ e[k] = j
      BY <2>2 DEF InOrder
    <3> QED BY <1>1, <3>1
  <2> QED BY <1>3, <2>1, <2>2 DEF LastSays
<1>4. ASSUME Lone(old, K) PROVE Lone(new, K)
  <2> SUFFICES ASSUME NEW i \in DOMAIN new, NEW k \in DOMAIN new, new[i] \in K, new[k] \in K,
                      new[i].kind \in {"create", "numbers"}
               PROVE  i = k
    BY DEF Lone
  <2>1. /\ e[i] \in DOMAIN old /\ old[e[i]] = new[i] /\ e[k] \in DOMAIN old
        /\ old[e[k]] = new[k]
    BY DEF InOrder
  <2>2. e[i] = e[k]
    BY <1>4, <2>1 DEF Lone
  <2> QED BY <1>1, <2>2
<1> QED BY <1>2, <1>3, <1>4 DEF Carries

\* filter leaves the changes it does not name as they were, and no others.
LEMMA WithoutCarries ==
    ASSUME NEW X, NEW s \in Seq(X), NEW gone
    PROVE  /\ \A K : K \cap gone = {} => Carries(Without(s, gone), s, K)
           /\ \A K : Lone(s, K) => Lone(Without(s, gone), K)
           /\ \A K : Waits(Without(s, gone), K) = Waits(s, K) \ gone
           /\ s # <<>> /\ Head(s) \notin gone
              => Without(s, gone) # <<>> /\ Head(Without(s, gone)) = Head(s)
<1> DEFINE out == Without(s, gone)
<1>1. out \in Seq(X) /\ \E e : KeptFrom(out, s, gone, e)
  BY WithoutKeeps
<1> HIDE DEF out
<1>2. PICK e : KeptFrom(out, s, gone, e)
  BY <1>1
<1>0. /\ DOMAIN out = 1..Len(out) /\ DOMAIN s = 1..Len(s) /\ Len(out) \in Nat
      /\ Len(s) \in Nat
  BY <1>1
<1>3. ASSUME NEW K, K \cap gone = {} PROVE Carries(out, s, K)
  <2>1. InOrder(e, out, s, K)
    BY <1>2, <1>3 DEF InOrder, KeptFrom
  <2> QED BY <1>1, <2>1, OrderCarries
<1>4. ASSUME NEW K, Lone(s, K) PROVE Lone(out, K)
  <2> SUFFICES ASSUME NEW i \in DOMAIN out, NEW k \in DOMAIN out, out[i] \in K, out[k] \in K,
                      out[i].kind \in {"create", "numbers"}
               PROVE  i = k
    BY DEF Lone
  <2>1. e[i] = e[k] /\ e[i] \in Nat
    <3>1. /\ out[i] = s[e[i]] /\ out[k] = s[e[k]] /\ e[i] \in DOMAIN s
          /\ e[k] \in DOMAIN s
      BY <1>2 DEF KeptFrom
    <3> QED BY <1>0, <1>4, <3>1 DEF Lone
  <2>2. (i < k => e[i] < e[k]) /\ (k < i => e[k] < e[i])
    BY <1>2 DEF KeptFrom
  <2> QED BY <1>0, <2>1, <2>2
<1>5. ASSUME NEW K PROVE Waits(out, K) = Waits(s, K) \ gone
  <2>1. ASSUME NEW op \in Waits(out, K) PROVE op \in Waits(s, K) /\ op \notin gone
    BY <1>2, <2>1 DEF Waits, KeptFrom
  <2>2. ASSUME NEW op \in Waits(s, K), op \notin gone PROVE op \in Waits(out, K)
    BY <1>2, <2>2 DEF Waits, KeptFrom
  <2> QED BY <2>1, <2>2
<1>6. ASSUME s # <<>>, Head(s) \notin gone PROVE out # <<>> /\ Head(out) = Head(s)
  <2>1. 1 \in DOMAIN s /\ Head(s) = s[1]
    BY <1>6
  <2>2. PICK i \in DOMAIN out : e[i] = 1
    BY <1>2, <1>6, <2>1 DEF KeptFrom
  <2>3. 1 \in DOMAIN out /\ e[1] \in Nat /\ e[1] >= 1 /\ (1 < i => e[1] < e[i])
    BY <1>0, <1>2, <2>2 DEF KeptFrom
  <2>4. i = 1
    BY <1>0, <2>2, <2>3
  <2>5. out[1] = s[1]
    BY <1>2, <2>2, <2>4 DEF KeptFrom
  <2>6. out # <<>> /\ Head(out) = out[1]
    BY <1>1, <2>3
  <2> QED BY <2>1, <2>5, <2>6
<1> QED BY <1>3, <1>4, <1>5, <1>6 DEF out

\* The head leaves.
LEMMA TailCarries ==
    ASSUME NEW X, NEW s \in Seq(X), s # <<>>
    PROVE  /\ \A K : Head(s) \notin K => Carries(Tail(s), s, K)
           /\ \A K : Lone(s, K) => Lone(Tail(s), K)
           /\ \A K : Waits(Tail(s), K) \subseteq Waits(s, K)
           /\ \A K, x : LastSays(s, K, x) => LastSays(Tail(s), K, x)
           /\ \A K, x : Head(s) \in K /\ Waits(Tail(s), K) = {} /\ LastSays(s, K, x)
                       => Says(Head(s)) = x
           /\ \A K : Head(s) \in K /\ Head(s).kind \in {"create", "numbers"} /\ Lone(s, K)
                    => Waits(Tail(s), K) = {}
<1> DEFINE out == Tail(s)
           e == [i \in DOMAIN out |-> i + 1]
<1>1. /\ out \in Seq(X) /\ Head(s) = s[1] /\ 1 \in DOMAIN s
      /\ DOMAIN out \subseteq Nat /\ DOMAIN s \subseteq Nat
  OBVIOUS
<1>2. \A i \in DOMAIN out : out[i] = s[i + 1] /\ i + 1 \in DOMAIN s
  OBVIOUS
<1>3. \A j \in DOMAIN s : j # 1 => j - 1 \in DOMAIN out /\ out[j - 1] = s[j] /\ (j - 1) + 1 = j
  OBVIOUS
<1>0. \A i \in DOMAIN out : e[i] = i + 1 /\ i \in Nat /\ i + 1 # 1
  BY <1>1
<1> HIDE DEF out, e
<1>4. ASSUME NEW K, Head(s) \notin K PROVE Carries(out, s, K)
  <2>1. ASSUME NEW j \in DOMAIN s, s[j] \in K
        PROVE  \E i \in DOMAIN out : out[i] \in K /\ e[i] = j
    <3>1. j # 1
      BY <1>1, <1>4, <2>1
    <3>2. j - 1 \in DOMAIN out /\ out[j - 1] \in K /\ e[j - 1] = j
      BY <1>0, <1>3, <2>1, <3>1
    <3> QED BY <3>2
  <2>2. InOrder(e, out, s, K)
    BY <1>0, <1>2, <2>1 DEF InOrder
  <2> QED BY <1>1, <2>2, OrderCarries
<1>5. ASSUME NEW K, Lone(s, K) PROVE Lone(out, K)
  <2> SUFFICES ASSUME NEW i \in DOMAIN out, NEW k \in DOMAIN out, out[i] \in K, out[k] \in K,
                      out[i].kind \in {"create", "numbers"}
               PROVE  i = k
    BY DEF Lone
  <2>1. i + 1 = k + 1
    BY <1>2, <1>5 DEF Lone
  <2> QED BY <1>0, <2>1
<1>6. ASSUME NEW K PROVE Waits(out, K) \subseteq Waits(s, K)
  BY <1>2 DEF Waits
<1>7. ASSUME NEW K, NEW x, LastSays(s, K, x) PROVE LastSays(out, K, x)
  <2> SUFFICES ASSUME NEW i \in DOMAIN out, out[i] \in K,
                      \A k \in DOMAIN out : out[k] \in K => k <= i
               PROVE  Says(out[i]) = x
    BY DEF LastSays
  <2>1. ASSUME NEW j \in DOMAIN s, s[j] \in K PROVE j <= i + 1
    <3>1. CASE j = 1
      BY <1>0, <3>1
    <3>2. CASE j # 1
      <4>1. j - 1 \in DOMAIN out /\ j - 1 <= i /\ (j - 1) + 1 = j
        BY <1>3, <2>1, <3>2
      <4> QED BY <1>0, <4>1
    <3> QED BY <3>1, <3>2
  <2>2. i + 1 \in DOMAIN s /\ s[i + 1] = out[i]
    BY <1>2
  <2> QED BY <1>7, <2>1, <2>2 DEF LastSays
<1>8. ASSUME NEW K, NEW x, Head(s) \in K, Waits(out, K) = {}, LastSays(s, K, x)
      PROVE  Says(Head(s)) = x
  <2>1. ASSUME NEW j \in DOMAIN s, s[j] \in K PROVE j <= 1
    <3>1. j = 1
      BY <1>3, <1>8, <2>1 DEF Waits
    <3> QED BY <3>1
  <2> QED BY <1>1, <1>8, <2>1 DEF LastSays
<1>9. ASSUME NEW K, Head(s) \in K, Head(s).kind \in {"create", "numbers"}, Lone(s, K)
      PROVE  Waits(out, K) = {}
  <2> SUFFICES ASSUME NEW i \in DOMAIN out, out[i] \in K PROVE FALSE
    BY DEF Waits
  <2>1. i + 1 \in DOMAIN s /\ s[i + 1] \in K /\ i + 1 # 1
    BY <1>0, <1>2
  <2> QED BY <1>1, <1>9, <2>1 DEF Lone
<1> QED BY <1>4, <1>5, <1>6, <1>7, <1>8, <1>9 DEF out

\* A change is added at the end.
LEMMA AppendCarries ==
    ASSUME NEW X, NEW s \in Seq(X), NEW op \in X
    PROVE  /\ \A K : op \notin K => Carries(Append(s, op), s, K)
           /\ \A K : op \in K => LastSays(Append(s, op), K, Says(op))
           /\ \A K : op \in K => Waits(Append(s, op), K) = Waits(s, K) \cup {op}
           /\ \A K : (\A o \in Waits(s, K) : o.kind \notin {"create", "numbers"})
                    /\ (op.kind \in {"create", "numbers"} => Waits(s, K) = {})
                    => Lone(Append(s, op), K)
           /\ Append(s, op) # <<>> /\ (s # <<>> => Head(Append(s, op)) = Head(s))
<1> DEFINE out == Append(s, op)
           n == Len(s) + 1
           e == [i \in DOMAIN out |-> i]
<1>1. /\ out \in Seq(X) /\ DOMAIN out \subseteq Nat /\ DOMAIN s \subseteq Nat
      /\ n \in DOMAIN out /\ out[n] = op /\ n \notin DOMAIN s
      /\ \A i \in DOMAIN s : i \in DOMAIN out /\ out[i] = s[i]
      /\ \A i \in DOMAIN out : i <= n /\ (i # n => i \in DOMAIN s) /\ e[i] = i
      /\ Append(s, op) # <<>> /\ (s # <<>> => Head(Append(s, op)) = Head(s))
  OBVIOUS
<1> HIDE DEF out, n, e
<1>2. ASSUME NEW K, op \notin K PROVE Carries(out, s, K)
  <2>1. InOrder(e, out, s, K)
    BY <1>1, <1>2 DEF InOrder
  <2> QED BY <1>1, <2>1, OrderCarries
<1>3. ASSUME NEW K, op \in K PROVE LastSays(out, K, Says(op))
  <2> SUFFICES ASSUME NEW i \in DOMAIN out, \A k \in DOMAIN out : out[k] \in K => k <= i
               PROVE  out[i] = op
    BY DEF LastSays
  <2>1. n <= i /\ i <= n /\ n \in Nat /\ i \in Nat
    BY <1>1, <1>3
  <2> QED BY <1>1, <2>1
<1>4. ASSUME NEW K, op \in K PROVE Waits(out, K) = Waits(s, K) \cup {op}
  BY <1>1, <1>4 DEF Waits
<1>5. ASSUME NEW K, \A o \in Waits(s, K) : o.kind \notin {"create", "numbers"},
             op.kind \in {"create", "numbers"} => Waits(s, K) = {}
      PROVE  Lone(out, K)
  <2> SUFFICES ASSUME NEW i \in DOMAIN out, NEW k \in DOMAIN out, out[i] \in K, out[k] \in K,
                      out[i].kind \in {"create", "numbers"}
               PROVE  i = k
    BY DEF Lone
  <2>1. i = n
    BY <1>1, <1>5 DEF Waits
  <2>2. k = n
    BY <1>1, <1>5, <2>1 DEF Waits
  <2> QED BY <2>1, <2>2
<1> QED BY <1>1, <1>2, <1>3, <1>4, <1>5 DEF out

\* Some changes give way to another.
LEMMA ReplacedCarries ==
    ASSUME NEW X, NEW s \in Seq(X), NEW P, P \subseteq DOMAIN s, NEW op \in X,
           NEW out, out = [i \in DOMAIN s |-> IF i \in P THEN op ELSE s[i]]
    PROVE  \A K : op \notin K /\ (\A i \in P : s[i] \notin K) => Carries(out, s, K)
<1> DEFINE e == [i \in DOMAIN out |-> i]
<1>1. out \in Seq(X)
  OBVIOUS
<1>2. /\ DOMAIN out = DOMAIN s
      /\ \A i \in DOMAIN out : e[i] = i /\ out[i] = IF i \in P THEN op ELSE s[i]
  OBVIOUS
<1> HIDE DEF e
<1>3. ASSUME NEW K, op \notin K, \A i \in P : s[i] \notin K PROVE Carries(out, s, K)
  <2>1. InOrder(e, out, s, K)
    BY <1>2, <1>3 DEF InOrder
  <2> QED BY <1>1, <2>1, OrderCarries
<1> QED BY <1>3

-----------------------------------------------------------------------------
\* The changes as the outbox writes them.
Wire ==
         [kind : {"create"}, team : HandTeams, by : {"cid"}, body : Bodies]
    \cup [kind : {"save"}, team : HandTeams, by : {"cid", "id"}, body : Bodies]
    \cup [kind : {"remove"}, team : HandTeams, by : {"cid", "id"}, body : {NoBody}]
    \cup [kind : {"numbers"}, team : {NoBody}, by : {"id"}, body : 1..MaxAct]

About(t) == {op \in Wire : op.kind # "numbers" /\ op.team = t}
OfNumbers == {op \in Wire : op.kind = "numbers"}

\* No more waits than the host did; a row that has its server id keeps it.
WireInv ==
    /\ ops \in Seq(Wire) /\ Len(ops) <= acts /\ acts \in 0..MaxAct
    /\ sending \in [op : Wire, answer : {"none", "done", "refused"}] \cup {NoBody}
    /\ ids \subseteq HandTeams /\ ref \in [HandTeams -> {"cid", "id"}]
    /\ editor \in {NoBody} \cup [team : HandTeams, by : {"cid", "id"}]
    /\ editor # NoBody /\ editor.by = "id" => ref[editor.team] = "id"
    /\ server \in [HandTeams -> Bodies \cup {"gone", NoBody}]
    /\ want \in [HandTeams -> Bodies \cup {"gone", NoBody}]
    /\ numbers \in 0..MaxAct /\ wantNumbers \in 0..MaxAct /\ wantNumbers <= acts
    /\ shown \subseteq HandTeams \cup {"numbers"} /\ blurred \subseteq HandTeams

LEMMA WireFields ==
    ASSUME NEW op \in Wire
    PROVE  /\ op.kind \in {"create", "save", "remove", "numbers"} /\ op.by \in {"cid", "id"}
           /\ op = [kind |-> op.kind, team |-> op.team, by |-> op.by, body |-> op.body]
           /\ op.kind # "numbers" => op.team \in HandTeams /\ op \in About(op.team)
           /\ op.kind = "numbers" => op.team = NoBody /\ op.body \in 1..MaxAct /\ op \in OfNumbers
           /\ op.kind \in {"create", "save"} => op.body \in Bodies
           /\ op.kind = "remove" => op.body = NoBody
           /\ op.kind = "create" => op.by = "cid"
           /\ op \in Changes
BY DEF Wire, About, OfNumbers, Changes

LEMMA WireRecords ==
    /\ \A t \in HandTeams, b \in Bodies : CreateOp(t, b) \in Wire
    /\ \A t \in HandTeams, b \in Bodies, y \in {"cid", "id"} :
           [kind |-> "save", team |-> t, by |-> y, body |-> b] \in Wire
    /\ \A t \in HandTeams, y \in {"cid", "id"} :
           [kind |-> "remove", team |-> t, by |-> y, body |-> NoBody] \in Wire
    /\ \A v \in 1..MaxAct : NumbersOp(v) \in Wire
BY DEF Wire, CreateOp, NumbersOp

LEMMA WireTyped == WireInv => OutboxTypeOK
<1> SUFFICES ASSUME WireInv PROVE OutboxTypeOK
  OBVIOUS
<1> USE OutboxAssumption DEF WireInv
<1>1. \A op \in Wire : op \in Changes
  BY WireFields
<1>2. ops \in Seq(Changes)
  <2>1. \A i \in 1..Len(ops) : ops[i] \in Changes
    BY <1>1
  <2> QED BY <2>1
<1>3. Len(ops) <= 2 * MaxAct
  OBVIOUS
<1>4. sending # NoBody => sending.op \in Changes /\ sending.answer \in {"none", "done", "refused"}
  BY <1>1
<1> QED BY <1>2, <1>3, <1>4 DEF OutboxTypeOK

LEMMA RestTyped ==
    ASSUME NEW s \in Seq(Wire), NEW gone
    PROVE  Without(s, gone) \in Seq(Wire) /\ Len(Without(s, gone)) <= Len(s)
BY WithoutKeeps

LEMMA WireInit == OutboxInit => WireInv
BY OutboxAssumption DEF OutboxInit, WireInv

LEMMA SettleWires ==
    ASSUME WireInv, sending # NoBody, StillHead(sending.op), NEW reply
    PROVE  Rest(sending.op, reply) \in Seq(Wire) /\ Len(Rest(sending.op, reply)) <= Len(ops)
<1> DEFINE op == sending.op
           tl == Tail(ops)
           save == [kind |-> "save", team |-> op.team, by |-> "cid", body |-> Head(ops).body]
<1>1. op \in Wire /\ ops \in Seq(Wire) /\ ops # <<>> /\ Head(ops) \in Wire
  BY DEF WireInv, StillHead
<1>2. tl \in Seq(Wire) /\ Len(tl) = Len(ops) - 1 /\ Len(ops) \in Nat
  BY <1>1
<1>3. \A gone : Without(tl, gone) \in Seq(Wire) /\ Len(Without(tl, gone)) <= Len(ops)
  <2> SUFFICES ASSUME NEW gone
               PROVE  Without(tl, gone) \in Seq(Wire) /\ Len(Without(tl, gone)) <= Len(ops)
    OBVIOUS
  <2> HIDE DEF tl
  <2>1. Without(tl, gone) \in Seq(Wire) /\ Len(Without(tl, gone)) <= Len(tl)
    BY <1>2, RestTyped
  <2>2. Len(Without(tl, gone)) \in Nat
    BY <2>1
  <2> QED BY <1>2, <2>1, <2>2
<1>4. op.kind = "create" => /\ <<save>> \o tl \in Seq(Wire)
                            /\ Len(<<save>> \o tl) <= Len(ops)
  <2> SUFFICES ASSUME op.kind = "create"
               PROVE  <<save>> \o tl \in Seq(Wire) /\ Len(<<save>> \o tl) <= Len(ops)
    OBVIOUS
  <2>1. Head(ops).kind = "create" /\ op.team \in HandTeams
    BY <1>1, WireFields DEF StillHead
  <2>2. Head(ops).body \in Bodies
    BY <1>1, <2>1, WireFields
  <2>3. save \in Wire
    BY <2>1, <2>2, WireRecords
  <2> HIDE DEF save, tl
  <2> QED BY <1>2, <2>3
<1>5. CASE reply = "refused" /\ op.kind = "create"
  BY <1>3, <1>5 DEF Rest
<1>6. CASE ~(reply = "refused" /\ op.kind = "create")
  <2>1. Rest(op, reply) = tl \/ (op.kind = "create" /\ Rest(op, reply) = <<save>> \o tl)
    BY <1>6 DEF Rest
  <2> HIDE DEF tl, save, op
  <2>2. CASE Rest(op, reply) = tl
    <3>1. Len(tl) <= Len(ops)
      BY <1>2
    <3> QED BY <1>2, <2>2, <3>1 DEF op
  <2>3. CASE op.kind = "create" /\ Rest(op, reply) = <<save>> \o tl
    BY <1>4, <2>3 DEF op
  <2> QED BY <2>1, <2>2, <2>3 DEF op
<1> QED BY <1>5, <1>6

LEMMA WireStep == WireInv /\ [OutboxNext]_outboxVars => WireInv'
<1> SUFFICES ASSUME WireInv, [OutboxNext]_outboxVars PROVE WireInv'
  OBVIOUS
<1> USE OutboxAssumption
<1>0. /\ ops \in Seq(Wire) /\ Len(ops) \in Nat /\ acts \in Nat /\ Len(ops) <= acts
      /\ MaxAct \in Nat /\ acts <= MaxAct /\ wantNumbers \in Nat /\ wantNumbers <= acts
  BY DEF WireInv
<1>a. ASSUME NEW op \in Wire
      PROVE  Append(ops, op) \in Seq(Wire) /\ Len(Append(ops, op)) = Len(ops) + 1
  BY <1>0
<1>b. ASSUME Acts PROVE acts' = acts + 1 /\ acts' \in 0..MaxAct
  BY <1>0, <1>b DEF Acts
<1>r. /\ \A t \in HandTeams : ref[t] \in {"cid", "id"}
      /\ editor # NoBody => editor.by \in {"cid", "id"}
  BY DEF WireInv
<1>1. ASSUME NEW t \in HandTeams, NEW b \in Bodies, HostCreates(t, b) PROVE WireInv'
  <2>1. ops' \in Seq(Wire) /\ Len(ops') <= acts'
    <3>1. CreateOp(t, b) \in Wire /\ ops' = Append(ops, CreateOp(t, b)) /\ acts' = acts + 1
      BY <1>1, <1>b, WireRecords DEF HostCreates
    <3> QED BY <1>0, <1>a, <3>1
  <2>2. wantNumbers <= acts'
    BY <1>0, <1>1, <1>b DEF HostCreates
  <2> QED BY <1>1, <1>b, <2>1, <2>2 DEF HostCreates, WireInv, hostVars
<1>2. ASSUME NEW t \in HandTeams, NEW b \in Bodies, HostSaves(t, b) PROVE WireInv'
  <2>1. ops' \in Seq(Wire) /\ Len(ops') <= acts'
    <3>1. ops' = WithSave(t, editor.by, b) /\ acts' = acts + 1 /\ CreateOp(t, b) \in Wire
          /\ SaveOp(t, editor.by, b) \in Wire
      BY <1>2, <1>b, <1>r, WireRecords DEF HostSaves, Opened, SaveOp
    <3>2. CASE PendingCreate(t, editor.by) = {}
      BY <1>0, <1>a, <3>1, <3>2 DEF WithSave
    <3>3. CASE PendingCreate(t, editor.by) # {}
      <4> DEFINE P == PendingCreate(t, editor.by)
                 op == CreateOp(t, b)
      <4>1. P \subseteq DOMAIN ops /\ op \in Wire
        BY <3>1 DEF PendingCreate
      <4>2. ops' = [i \in DOMAIN ops |-> IF i \in P THEN op ELSE ops[i]]
        BY <3>1, <3>3 DEF WithSave
      <4> HIDE DEF P, op
      <4>3. ops' \in Seq(Wire) /\ Len(ops') = Len(ops)
        BY <1>0, <4>1, <4>2
      <4> QED BY <1>0, <3>1, <4>3
    <3> QED BY <3>2, <3>3
  <2>2. wantNumbers <= acts'
    BY <1>0, <1>2, <1>b DEF HostSaves
  <2> QED BY <1>2, <1>b, <2>1, <2>2 DEF HostSaves, Lapses, WireInv, hostVars
<1>3. ASSUME NEW t \in HandTeams, HostRemoves(t) PROVE WireInv'
  <2>1. ops' \in Seq(Wire) /\ Len(ops') <= acts'
    <3>1. ops' = WithRemove(t, editor.by) /\ acts' = acts + 1
          /\ RemoveOp(t, editor.by) \in Wire
      BY <1>3, <1>b, <1>r, WireRecords DEF HostRemoves, Opened, RemoveOp
    <3>2. CASE PendingCreate(t, editor.by) = {}
      BY <1>0, <1>a, <3>1, <3>2 DEF WithRemove
    <3>3. CASE PendingCreate(t, editor.by) # {}
      <4>1. PICK gone : ops' = Without(ops, gone)
        BY <3>1, <3>3 DEF WithRemove
      <4>2. ops' \in Seq(Wire) /\ Len(ops') <= Len(ops)
        BY <1>0, <4>1, RestTyped
      <4>3. Len(ops') \in Nat
        BY <4>2
      <4> QED BY <1>0, <3>1, <4>2, <4>3
    <3> QED BY <3>2, <3>3
  <2>2. wantNumbers <= acts'
    BY <1>0, <1>3, <1>b DEF HostRemoves
  <2> QED BY <1>3, <1>b, <2>1, <2>2 DEF HostRemoves, Lapses, WireInv, hostVars
<1>4. CASE HostNumbers
  <2>0. acts' = acts + 1 /\ acts' \in 0..MaxAct /\ wantNumbers' = wantNumbers + 1
    BY <1>4, <1>b DEF HostNumbers
  <2>1. ops' \in Seq(Wire) /\ Len(ops') <= acts'
    <3>1. PICK gone : ops' = Append(Without(ops, gone), NumbersOp(wantNumbers + 1))
      BY <1>4 DEF HostNumbers, WithNumbers
    <3>2. NumbersOp(wantNumbers + 1) \in Wire
      <4>1. wantNumbers + 1 \in 1..MaxAct
        BY <1>0, <2>0
      <4> QED BY <4>1, WireRecords
    <3>3. Without(ops, gone) \in Seq(Wire) /\ Len(Without(ops, gone)) <= Len(ops)
      BY <1>0, RestTyped
    <3> QED BY <1>0, <2>0, <3>1, <3>2, <3>3
  <2>2. wantNumbers' \in 0..MaxAct /\ wantNumbers' <= acts'
    BY <1>0, <2>0
  <2> QED BY <1>4, <2>0, <2>1, <2>2 DEF HostNumbers, WireInv, hostVars
<1>5. CASE SendHead
  <2>1. Head(ops) \in Wire
    BY <1>0, <1>5 DEF SendHead
  <2>2. sending' \in [op : Wire, answer : {"none", "done", "refused"}]
    BY <1>5, <2>1 DEF SendHead
  <2> QED BY <1>5, <2>2 DEF SendHead, WireInv
<1>6. CASE ServerAccepts
  <2> DEFINE op == sending.op
  <2>1. sending \in [op : Wire, answer : {"none", "done", "refused"}] /\ op \in Wire
    BY <1>6 DEF ServerAccepts, WireInv
  <2>2. sending' \in [op : Wire, answer : {"none", "done", "refused"}]
    BY <1>6, <2>1 DEF ServerAccepts
  <2>3. numbers' \in 0..MaxAct
    <3>1. CASE op.kind = "numbers"
      <4>1. op.body \in 1..MaxAct
        BY <2>1, <3>1, WireFields
      <4> QED BY <1>6, <3>1, <4>1 DEF ServerAccepts
    <3>2. CASE op.kind # "numbers"
      BY <1>6, <3>2 DEF ServerAccepts, WireInv
    <3> QED BY <3>1, <3>2
  <2>4. server' \in [HandTeams -> Bodies \cup {"gone", NoBody}]
    <3>1. CASE op.kind = "numbers"
      BY <1>6, <3>1 DEF ServerAccepts, WireInv
    <3>2. CASE op.kind # "numbers"
      <4>1. op.team \in HandTeams /\ (op.kind \in {"create", "save"} => op.body \in Bodies)
            /\ op.kind \in {"create", "save", "remove"}
        BY <2>1, <3>2, WireFields
      <4>2. Applied(op) \in Bodies \cup {"gone", NoBody}
        BY <4>1 DEF Applied, WireInv
      <4>3. server' = [server EXCEPT ![op.team] = Applied(op)]
        BY <1>6, <3>2 DEF ServerAccepts
      <4> QED BY <4>1, <4>2, <4>3 DEF WireInv
    <3> QED BY <3>1, <3>2
  <2>5. blurred' \subseteq HandTeams
    <3>1. StaleCreate(op) => op.team \in HandTeams
      BY <2>1, WireFields DEF StaleCreate
    <3> QED BY <1>6, <3>1 DEF ServerAccepts, Lapses, WireInv
  <2> HIDE DEF op
  <2> QED BY <1>6, <2>2, <2>3, <2>4, <2>5 DEF ServerAccepts, WireInv
<1>7. CASE ServerRefuses
  BY <1>7 DEF ServerRefuses, WireInv
<1>8. CASE Lose
  BY <1>8 DEF Lose, WireInv
<1>9. CASE Settle
  <2> DEFINE op == sending.op
  <2>1. op \in Wire
    BY <1>9 DEF Settle, WireInv
  <2>2. ops' \in Seq(Wire) /\ Len(ops') <= acts
    <3>1. CASE StillHead(op)
      <4>1. ops' = Rest(op, sending.answer)
        BY <1>9, <3>1 DEF Settle
      <4>2. ops' \in Seq(Wire) /\ Len(ops') <= Len(ops)
        BY <1>9, <3>1, <4>1, SettleWires DEF Settle
      <4>3. Len(ops') \in Nat
        BY <4>2
      <4> QED BY <1>0, <4>2, <4>3
    <3>2. CASE ~StillHead(op)
      BY <1>0, <1>9, <3>2 DEF Settle
    <3> QED BY <3>1, <3>2
  <2>3. ids' \subseteq HandTeams /\ shown' \subseteq HandTeams \cup {"numbers"}
    <3>1. op.kind # "numbers" => op.team \in HandTeams
      BY <2>1, WireFields
    <3> QED BY <1>9, <3>1 DEF Settle, WireInv
  <2> HIDE DEF op
  <2> QED BY <1>9, <2>2, <2>3 DEF Settle, WireInv
<1>10. CASE Refresh
  BY <1>10 DEF Refresh, WireInv
<1>11. CASE UNCHANGED outboxVars
  BY <1>11 DEF outboxVars, WireInv
<1>12. ASSUME NEW t \in HandTeams, OpenEditor(t) PROVE WireInv'
  <2>1. editor' \in [team : HandTeams, by : {"cid", "id"}]
        /\ (editor'.by = "id" => ref'[editor'.team] = "id")
    BY <1>12, <1>r DEF OpenEditor
  <2> QED BY <1>12, <2>1 DEF OpenEditor, WireInv
<1>13. CASE CloseEditor
  BY <1>13 DEF CloseEditor, WireInv
<1> QED BY <1>1, <1>2, <1>3, <1>4, <1>5, <1>6, <1>7, <1>8, <1>9, <1>10, <1>11, <1>12, <1>13
       DEF OutboxNext

-----------------------------------------------------------------------------
SentOf(t) == sending # NoBody /\ sending.op.kind # "numbers" /\ sending.op.team = t

\* A creation waits alone, of a team the page names by its client id; of a team
\* that was not made yet nothing is known.
Alone(t) ==
    /\ Lone(ops, About(t))
    /\ \A op \in Waits(ops, About(t)) : op.kind = "create" => ref[t] = "cid"
    /\ want[t] = NoBody => /\ Waits(ops, About(t)) = {} /\ server[t] = NoBody
                           /\ ref[t] = "cid" /\ ~SentOf(t)

\* The server and the changes that wait come to what the host made of t: the last
\* of them says it, each can be sent, and the one on its way is still the head.
Right(t) ==
    /\ Waits(ops, About(t)) = {} => server[t] = want[t] \/ (want[t] = "gone" /\ server[t] = NoBody)
    /\ LastSays(ops, About(t), want[t])
    /\ \A op \in Waits(ops, About(t)) : op.kind # "create" /\ op.by = "cid" => t \in ids
    /\ SentOf(t) => /\ StillHead(sending.op)
                    /\ sending.answer = "done" => server[t] = Says(sending.op)

Clear(t) == t \notin shown \cup blurred
TeamInv(t) == Alone(t) /\ (Clear(t) => Right(t))

NumbersInv ==
    /\ Lone(ops, OfNumbers) /\ LastSays(ops, OfNumbers, wantNumbers)
    /\ sending # NoBody /\ sending.op.kind = "numbers"
       => /\ Waits(ops, OfNumbers) # {}
          /\ sending.answer = "done" => numbers = sending.op.body
    /\ "numbers" \notin shown /\ Waits(ops, OfNumbers) = {} => numbers = wantNumbers

OutboxInv == WireInv /\ (\A t \in HandTeams : TeamInv(t)) /\ NumbersInv

\* A team the step is not about.
LEMMA Bystander ==
    ASSUME NEW t \in HandTeams, TeamInv(t), Carries(ops', ops, About(t)),
           want'[t] = want[t], server'[t] = server[t], ref'[t] = ref[t],
           Clear(t)' => Clear(t), t \in ids => t \in ids' \/ ops' = <<>>,
           SentOf(t)' => /\ SentOf(t) /\ sending' = sending
                         /\ StillHead(sending.op) => ops' # <<>> /\ Head(ops') = Head(ops)
    PROVE  TeamInv(t)'
<1>1. Waits(ops', About(t)) = Waits(ops, About(t)) /\ (Lone(ops, About(t)) => Lone(ops', About(t)))
      /\ \A x : LastSays(ops, About(t), x) => LastSays(ops', About(t), x)
  BY DEF Carries
<1>2. Alone(t)'
  BY <1>1 DEF TeamInv, Alone
<1>3. ASSUME Clear(t)' PROVE Right(t)'
  <2>1. Right(t)
    BY <1>3 DEF TeamInv
  <2>2. ops' = <<>> => Waits(ops', About(t)) = {}
    BY DEF Waits
  <2>3. \A op \in Waits(ops', About(t)) : op.kind # "create" /\ op.by = "cid" => t \in ids'
    BY <1>1, <2>1, <2>2 DEF Right
  <2>4. SentOf(t)' => /\ StillHead(sending.op)'
                      /\ sending'.answer = "done" => server'[t] = Says(sending'.op)
    BY <2>1 DEF Right, StillHead
  <2> QED BY <1>1, <2>1, <2>3, <2>4 DEF Right
<1> QED BY <1>2, <1>3 DEF TeamInv

\* The step leaves the sets of numbers as they were.
LEMMA NumbersStay ==
    ASSUME NumbersInv, Carries(ops', ops, OfNumbers), wantNumbers' = wantNumbers,
           numbers' = numbers, "numbers" \in shown => "numbers" \in shown',
           sending' # NoBody /\ sending'.op.kind = "numbers" => sending' = sending
    PROVE  NumbersInv'
BY DEF NumbersInv, Carries

\* A change about t joins the end of the outbox.
LEMMA Joins ==
    ASSUME OutboxInv, NEW t \in HandTeams, NEW op \in Wire, op.kind # "numbers", op.team = t,
           ops' = Append(ops, op), UNCHANGED hostVars, wantNumbers' = wantNumbers,
           \A u \in HandTeams \ {t} : want'[u] = want[u] /\ (u \in blurred' <=> u \in blurred),
           t \in blurred => t \in blurred', want'[t] = Says(op), want'[t] # NoBody,
           op.kind = "create" => Waits(ops, About(t)) = {} /\ ref[t] = "cid",
           op.kind # "create" => /\ \A o \in Waits(ops, About(t)) : o.kind # "create"
                                 /\ op.by = "cid" => t \in ids \/ t \in blurred'
    PROVE  (\A u \in HandTeams : TeamInv(u)') /\ NumbersInv'
<1>0. ops \in Seq(Wire)
  BY DEF OutboxInv, WireInv
<1>1. \A K : op \notin K => Carries(ops', ops, K)
  BY <1>0, AppendCarries
<1>2. ops' # <<>> /\ (ops # <<>> => Head(ops') = Head(ops))
  BY <1>0, AppendCarries
<1>3. ASSUME NEW u \in HandTeams \ {t} PROVE TeamInv(u)'
  <2>1. op \notin About(u)
    BY DEF About
  <2>2. Clear(u)' => Clear(u)
    BY DEF Clear, hostVars
  <2>3. SentOf(u)' => /\ SentOf(u) /\ sending' = sending
                      /\ StillHead(sending.op) => ops' # <<>> /\ Head(ops') = Head(ops)
    BY <1>2 DEF SentOf, StillHead, hostVars
  <2>4. TeamInv(u) /\ Carries(ops', ops, About(u))
    BY <1>1, <2>1 DEF OutboxInv
  <2> QED BY <2>2, <2>3, <2>4, Bystander DEF hostVars
<1>4. TeamInv(t)'
  <2>0. op \in About(t) /\ TeamInv(t)
    BY DEF About, OutboxInv
  <2>1. Waits(ops', About(t)) = Waits(ops, About(t)) \cup {op}
        /\ LastSays(ops', About(t), Says(op))
    BY <1>0, <2>0, AppendCarries
  <2>2. \A o \in Waits(ops, About(t)) : o.kind \notin {"create", "numbers"}
    BY DEF Waits, About
  <2>3. Lone(ops', About(t))
    <3>1. op.kind \in {"create", "numbers"} => Waits(ops, About(t)) = {}
      OBVIOUS
    <3> QED BY <1>0, <2>2, <3>1, AppendCarries
  <2>4. Alone(t)'
    BY <2>1, <2>2, <2>3 DEF Alone, hostVars
  <2>5. ASSUME Clear(t)' PROVE Right(t)'
    <3>1. Right(t) /\ t \notin blurred'
      BY <2>0, <2>5 DEF Clear, TeamInv, hostVars
    <3>2. \A o \in Waits(ops', About(t)) : o.kind # "create" /\ o.by = "cid" => t \in ids'
      BY <2>1, <3>1 DEF Right, hostVars
    <3>3. SentOf(t)' => /\ StillHead(sending.op)'
                        /\ sending'.answer = "done" => server'[t] = Says(sending'.op)
      BY <1>2, <3>1 DEF Right, SentOf, StillHead, hostVars
    <3>4. Waits(ops', About(t)) # {}
      BY <2>1
    <3> QED BY <2>1, <3>2, <3>3, <3>4 DEF Right
  <2> QED BY <2>4, <2>5 DEF TeamInv
<1>5. NumbersInv'
  <2>1. op \notin OfNumbers
    BY DEF OfNumbers
  <2>2. Carries(ops', ops, OfNumbers) /\ NumbersInv
    BY <1>1, <2>1 DEF OutboxInv
  <2> QED BY <2>2, NumbersStay DEF hostVars
<1> QED BY <1>3, <1>4, <1>5

LEMMA CreateStep ==
    ASSUME OutboxInv, NEW t \in HandTeams, NEW b \in Bodies, HostCreates(t, b)
    PROVE  (\A u \in HandTeams : TeamInv(u)') /\ NumbersInv'
<1> DEFINE op == CreateOp(t, b)
<1>1. op \in Wire /\ op.kind = "create" /\ op.team = t /\ Says(op) = b /\ b # NoBody
  BY WireRecords, OutboxAssumption DEF CreateOp, Says
<1>2. Alone(t)
  BY DEF OutboxInv, TeamInv
<1>3. /\ ops' = Append(ops, op) /\ UNCHANGED hostVars /\ wantNumbers' = wantNumbers
      /\ want' = [want EXCEPT ![t] = b] /\ want[t] = NoBody /\ UNCHANGED blurred
      /\ want \in [HandTeams -> Bodies \cup {"gone", NoBody}]
  BY DEF HostCreates, OutboxInv, WireInv
<1> HIDE DEF op
<1> QED BY <1>1, <1>2, <1>3, Joins DEF Alone

\* Where the creation of a team waits.
LEMMA Pending ==
    ASSUME OutboxInv, NEW t \in HandTeams, Opened(t)
    PROVE  /\ PendingCreate(t, editor.by) = {} => \A o \in Waits(ops, About(t)) : o.kind # "create"
           /\ \A i \in PendingCreate(t, editor.by) :
                 /\ i \in DOMAIN ops /\ ops[i] \in About(t) /\ ops[i].kind = "create"
                 /\ \A k \in DOMAIN ops : ops[k] \in About(t) => k = i
<1>1. Alone(t) /\ ops \in Seq(Wire)
  BY DEF OutboxInv, TeamInv, WireInv
<1>2. \A i \in DOMAIN ops : ops[i] \in Wire
  BY <1>1
<1>3. ASSUME PendingCreate(t, editor.by) = {}, NEW o \in Waits(ops, About(t)), o.kind = "create"
      PROVE  FALSE
  <2>1. PICK i \in DOMAIN ops : ops[i] = o /\ ops[i].team = t
    BY DEF Waits, About
  <2>2. ref[t] = "cid"
    BY <1>1, <1>3 DEF Alone
  <2>3. editor.by = "cid"
    BY <2>2 DEF Opened, OutboxInv, WireInv
  <2> QED BY <1>3, <2>1, <2>3 DEF PendingCreate
<1>4. ASSUME NEW i \in PendingCreate(t, editor.by)
      PROVE  /\ i \in DOMAIN ops /\ ops[i] \in About(t) /\ ops[i].kind = "create"
             /\ \A k \in DOMAIN ops : ops[k] \in About(t) => k = i
  <2>1. i \in DOMAIN ops /\ ops[i].kind = "create" /\ ops[i].team = t
    BY DEF PendingCreate
  <2>2. ops[i] \in About(t)
    BY <1>2, <2>1 DEF About
  <2> QED BY <1>1, <2>1, <2>2 DEF Alone, Lone
<1> QED BY <1>3, <1>4

LEMMA SaveStep ==
    ASSUME OutboxInv, NEW t \in HandTeams, NEW b \in Bodies, HostSaves(t, b)
    PROVE  (\A u \in HandTeams : TeamInv(u)') /\ NumbersInv'
<1>0. /\ ops \in Seq(Wire) /\ ops' = WithSave(t, editor.by, b) /\ UNCHANGED hostVars
      /\ wantNumbers' = wantNumbers /\ want' = [want EXCEPT ![t] = b] /\ b # NoBody
      /\ want \in [HandTeams -> Bodies \cup {"gone", NoBody}] /\ editor.by \in {"cid", "id"}
      /\ Opened(t) /\ editor # NoBody
      /\ blurred' = (IF Forgotten(t, editor.by) THEN blurred \cup {t} ELSE blurred)
      /\ want[t] # NoBody
  BY OutboxAssumption DEF HostSaves, Opened, OutboxInv, WireInv, Lapses
<1>1. CASE PendingCreate(t, editor.by) = {}
  <2> DEFINE op == SaveOp(t, editor.by, b)
  <2>1. op \in Wire /\ op.kind = "save" /\ op.team = t /\ Says(op) = b /\ op.by = editor.by
    BY <1>0, WireRecords DEF SaveOp, Says
  <2>2. ops' = Append(ops, op)
    BY <1>0, <1>1 DEF WithSave
  <2>3. \A o \in Waits(ops, About(t)) : o.kind # "create"
    BY <1>0, <1>1, Pending
  <2>4. op.by = "cid" => t \in ids \/ t \in blurred'
    BY <1>0, <1>1, <2>1 DEF Forgotten
  <2>5. \A u \in HandTeams \ {t} : want'[u] = want[u] /\ (u \in blurred' <=> u \in blurred)
    BY <1>0
  <2>6. want'[t] = Says(op) /\ want'[t] # NoBody /\ (t \in blurred => t \in blurred')
    BY <1>0, <2>1
  <2> HIDE DEF op
  <2> QED BY <1>0, <2>1, <2>2, <2>3, <2>4, <2>5, <2>6, Joins
<1>2. CASE PendingCreate(t, editor.by) # {}
  <2> DEFINE op == CreateOp(t, b)
             P == PendingCreate(t, editor.by)
  <2>1. op \in Wire /\ op.kind = "create" /\ op.team = t /\ Says(op) = b /\ op \in About(t)
    BY WireRecords DEF CreateOp, Says, About
  <2>2. ops' = [i \in DOMAIN ops |-> IF i \in P THEN op ELSE ops[i]]
    BY <1>0, <1>2 DEF WithSave
  <2>3. PICK i \in P : TRUE
    BY <1>2
  <2>4. i \in DOMAIN ops /\ ops[i] \in About(t) /\ ops[i].kind = "create" /\ P = {i}
        /\ \A k \in DOMAIN ops : ops[k] \in About(t) => k = i
    BY <1>0, <2>3, Pending
  <2>5. ref[t] = "cid" /\ blurred' = blurred
    <3>1. ops[i] \in Waits(ops, About(t)) /\ Alone(t)
      BY <2>4 DEF Waits, OutboxInv, TeamInv
    <3> QED BY <1>0, <1>2, <2>4, <3>1 DEF Alone, Forgotten
  <2> HIDE DEF op, P
  <2>6. \A K : op \notin K /\ ops[i] \notin K => Carries(ops', ops, K)
    <3>1. \A K : op \notin K /\ (\A j \in P : ops[j] \notin K) => Carries(ops', ops, K)
      <4>1. P \subseteq DOMAIN ops
        BY <2>4
      <4> QED BY <1>0, <2>1, <2>2, <4>1, ReplacedCarries
    <3> QED BY <2>4, <3>1
  <2>7. /\ DOMAIN ops' = DOMAIN ops /\ ops'[i] = op
        /\ \A k \in DOMAIN ops : k # i => ops'[k] = ops[k]
        /\ ops' # <<>> /\ Head(ops') = ops'[1] /\ Head(ops) = ops[1] /\ 1 \in DOMAIN ops
    BY <1>0, <2>1, <2>2, <2>4
  <2>8. ASSUME NEW u \in HandTeams \ {t} PROVE TeamInv(u)'
    <3>1. op \notin About(u) /\ ops[i] \notin About(u)
      BY <2>1, <2>4 DEF About
    <3>2. Carries(ops', ops, About(u)) /\ TeamInv(u)
      BY <2>6, <3>1 DEF OutboxInv
    <3>3. Clear(u)' => Clear(u)
      BY <1>0, <2>5 DEF Clear, hostVars
    <3>4. ASSUME SentOf(u)', StillHead(sending.op) PROVE ops' # <<>> /\ Head(ops') = Head(ops)
      <4>1. Head(ops).team = u
        BY <1>0, <3>4 DEF SentOf, StillHead, hostVars
      <4>2. 1 # i
        BY <2>4, <2>7, <4>1 DEF About
      <4> QED BY <2>7, <4>2
    <3>5. SentOf(u)' => SentOf(u) /\ sending' = sending
      BY <1>0 DEF SentOf, hostVars
    <3> QED BY <1>0, <3>2, <3>3, <3>4, <3>5, Bystander DEF hostVars
  <2>9. TeamInv(t)'
    <3>0. TeamInv(t)
      BY DEF OutboxInv
    <3>1. \A k \in DOMAIN ops' : ops'[k] \in About(t) => k = i
      BY <2>4, <2>7
    <3>2. Waits(ops', About(t)) = {op} /\ Lone(ops', About(t)) /\ LastSays(ops', About(t), b)
      BY <2>1, <2>4, <2>7, <3>1 DEF Waits, Lone, LastSays
    <3>3. want'[t] = b
      BY <1>0
    <3>4. Alone(t)'
      BY <1>0, <2>5, <3>2, <3>3 DEF Alone, hostVars
    <3>5. ASSUME Clear(t)' PROVE Right(t)'
      <4>1. Right(t)
        BY <1>0, <2>5, <3>0, <3>5 DEF Clear, TeamInv, hostVars
      <4>2. ASSUME SentOf(t)' PROVE StillHead(sending.op)'
        <5>1. sending' = sending /\ StillHead(sending.op) /\ SentOf(t)
          BY <1>0, <4>1, <4>2 DEF Right, SentOf, hostVars
        <5>2. sending.op \in Wire /\ sending.op \in About(t)
          BY <5>1 DEF OutboxInv, WireInv, SentOf, About
        <5>3. ops[1] \in About(t)
          <6>1. ops[1] \in Wire
            BY <1>0, <2>7
          <6> QED BY <2>7, <5>1, <5>2, <6>1 DEF StillHead, About
        <5>4. i = 1
          BY <2>4, <2>7, <5>3
        <5>5. sending.op.kind = "create" /\ sending.op.team = t
          BY <2>4, <2>7, <5>1, <5>2, <5>4 DEF StillHead, About
        <5> QED BY <2>1, <2>7, <5>1, <5>4, <5>5 DEF StillHead
      <4>3. \A o \in Waits(ops', About(t)) : o.kind = "create"
        BY <2>1, <3>2
      <4> QED BY <1>0, <3>2, <3>3, <4>1, <4>2, <4>3 DEF Right, SentOf, hostVars
    <3> QED BY <3>4, <3>5 DEF TeamInv
  <2>10. NumbersInv'
    <3>1. op \notin OfNumbers /\ ops[i] \notin OfNumbers
      BY <2>1, <2>4 DEF OfNumbers
    <3>2. Carries(ops', ops, OfNumbers) /\ NumbersInv
      BY <2>6, <3>1 DEF OutboxInv
    <3> QED BY <1>0, <3>2, NumbersStay DEF hostVars
  <2> QED BY <2>8, <2>9, <2>10
<1> QED BY <1>1, <1>2

LEMMA RemoveStep ==
    ASSUME OutboxInv, NEW t \in HandTeams, HostRemoves(t)
    PROVE  (\A u \in HandTeams : TeamInv(u)') /\ NumbersInv'
<1>0. /\ ops \in Seq(Wire) /\ ops' = WithRemove(t, editor.by) /\ UNCHANGED hostVars
      /\ wantNumbers' = wantNumbers /\ want' = [want EXCEPT ![t] = "gone"]
      /\ want \in [HandTeams -> Bodies \cup {"gone", NoBody}] /\ editor.by \in {"cid", "id"}
      /\ Opened(t) /\ editor # NoBody
      /\ blurred' = (IF TakesBack(t, editor.by) \/ Forgotten(t, editor.by)
                     THEN blurred \cup {t} ELSE blurred)
      /\ "gone" # NoBody
  BY OutboxAssumption DEF HostRemoves, Opened, OutboxInv, WireInv, Lapses
<1>1. CASE PendingCreate(t, editor.by) = {}
  <2> DEFINE op == RemoveOp(t, editor.by)
  <2>1. op \in Wire /\ op.kind = "remove" /\ op.team = t /\ Says(op) = "gone" /\ op.by = editor.by
    BY <1>0, WireRecords DEF RemoveOp, Says
  <2>2. ops' = Append(ops, op)
    BY <1>0, <1>1 DEF WithRemove
  <2>3. \A o \in Waits(ops, About(t)) : o.kind # "create"
    BY <1>0, <1>1, Pending
  <2>4. op.by = "cid" => t \in ids \/ t \in blurred'
    BY <1>0, <1>1, <2>1 DEF Forgotten
  <2>5. \A u \in HandTeams \ {t} : want'[u] = want[u] /\ (u \in blurred' <=> u \in blurred)
    BY <1>0
  <2>6. want'[t] = Says(op) /\ want'[t] # NoBody /\ (t \in blurred => t \in blurred')
    BY <1>0, <2>1
  <2> HIDE DEF op
  <2> QED BY <1>0, <2>1, <2>2, <2>3, <2>4, <2>5, <2>6, Joins
<1>2. CASE PendingCreate(t, editor.by) # {}
  <2> DEFINE i == CHOOSE i \in PendingCreate(t, editor.by) : TRUE
             gone == {op \in ToSet(ops) : op = ops[i] \/ Mentions(op, t)}
  <2>1. ops' = Without(ops, gone)
    BY <1>0, <1>2 DEF WithRemove
  <2>2. i \in PendingCreate(t, editor.by)
    BY <1>2
  <2> HIDE DEF i
  <2>3. i \in DOMAIN ops /\ ops[i] \in About(t) /\ ops[i].kind = "create"
        /\ \A k \in DOMAIN ops : ops[k] \in About(t) => k = i
    BY <1>0, <2>2, Pending
  <2>4. ops[i] \in gone /\ \A op \in gone : op.kind # "numbers" /\ op.team = t
    BY <1>0, <2>3 DEF Mentions, About, ToSet
  <2> HIDE DEF gone
  <2>5. /\ \A K : K \cap gone = {} => Carries(ops', ops, K)
        /\ \A K : Lone(ops, K) => Lone(ops', K)
        /\ \A K : Waits(ops', K) = Waits(ops, K) \ gone
        /\ ops # <<>> /\ Head(ops) \notin gone => ops' # <<>> /\ Head(ops') = Head(ops)
    BY <1>0, <2>1, WithoutCarries
  <2>8. ASSUME NEW u \in HandTeams \ {t} PROVE TeamInv(u)'
    <3>1. About(u) \cap gone = {}
      BY <2>4 DEF About
    <3>2. Carries(ops', ops, About(u)) /\ TeamInv(u)
      BY <2>5, <3>1 DEF OutboxInv
    <3>3. Clear(u)' => Clear(u)
      BY <1>0 DEF Clear, hostVars
    <3>4. ASSUME SentOf(u)', StillHead(sending.op) PROVE ops' # <<>> /\ Head(ops') = Head(ops)
      <4>1. Head(ops).team = u /\ ops # <<>>
        BY <1>0, <3>4 DEF SentOf, StillHead, hostVars
      <4>2. Head(ops) \notin gone
        BY <2>4, <4>1
      <4> QED BY <2>5, <4>1, <4>2
    <3>5. SentOf(u)' => SentOf(u) /\ sending' = sending
      BY <1>0 DEF SentOf, hostVars
    <3> QED BY <1>0, <3>2, <3>3, <3>4, <3>5, Bystander DEF hostVars
  <2>9. TeamInv(t)'
    <3>0. TeamInv(t)
      BY DEF OutboxInv
    <3>1. Waits(ops', About(t)) = {}
      <4>1. Waits(ops, About(t)) \subseteq gone
        BY <2>3, <2>4 DEF Waits
      <4> QED BY <2>5, <4>1
    <3>2. want'[t] = "gone" /\ LastSays(ops', About(t), want'[t])
      BY <1>0, <3>1 DEF LastSays, Waits
    <3>3. Alone(t)'
      <4>1. Lone(ops', About(t))
        BY <3>1 DEF Lone, Waits
      <4> QED BY <1>0, <3>1, <3>2, <4>1 DEF Alone
    <3>4. ASSUME Clear(t)' PROVE Right(t)'
      <4>1. /\ t \notin shown /\ t \notin blurred /\ PendingCreate(t, editor.by) # {} /\ ~Made(t)
            /\ ~OnItsWay(t)
        BY <1>0, <1>2, <3>4 DEF Clear, hostVars, TakesBack
      <4>2. Right(t)
        BY <3>0, <4>1 DEF Clear, TeamInv
      <4>3. ~SentOf(t)
        <5> SUFFICES ASSUME SentOf(t) PROVE FALSE
          OBVIOUS
        <5>1. /\ ops # <<>> /\ Head(ops) = sending.op /\ sending.op.kind # "create"
              /\ sending.op \in About(t)
          BY <4>1, <4>2 DEF Right, SentOf, StillHead, OnItsWay, OutboxInv, WireInv, About
        <5>2. Head(ops) = ops[1] /\ 1 \in DOMAIN ops
          BY <1>0, <5>1
        <5>3. i = 1
          BY <2>3, <5>1, <5>2
        <5> QED BY <2>3, <5>1, <5>2, <5>3
      <4>4. server'[t] = NoBody /\ ~SentOf(t)'
        BY <1>0, <4>1, <4>3 DEF Made, SentOf, hostVars
      <4> QED BY <3>1, <3>2, <4>4 DEF Right
    <3> QED BY <3>3, <3>4 DEF TeamInv
  <2>10. NumbersInv'
    <3>1. OfNumbers \cap gone = {}
      BY <2>4 DEF OfNumbers
    <3>2. Carries(ops', ops, OfNumbers) /\ NumbersInv
      BY <2>5, <3>1 DEF OutboxInv
    <3> QED BY <1>0, <3>2, NumbersStay DEF hostVars
  <2> QED BY <2>8, <2>9, <2>10
<1> QED BY <1>1, <1>2

LEMMA NumbersStep ==
    ASSUME OutboxInv, HostNumbers
    PROVE  (\A u \in HandTeams : TeamInv(u)') /\ NumbersInv'
<1> DEFINE v == wantNumbers + 1
           gone == {op \in ToSet(ops) : op.kind = "numbers"}
           left == Without(ops, gone)
           op == NumbersOp(v)
<1>0. /\ ops \in Seq(Wire) /\ ops' = Append(left, op) /\ UNCHANGED hostVars
      /\ wantNumbers' = v /\ want' = want /\ blurred' = blurred /\ left \in Seq(Wire)
  <2>1. ops \in Seq(Wire)
    BY DEF OutboxInv, WireInv
  <2>2. left \in Seq(Wire)
    BY <2>1, RestTyped
  <2> QED BY <2>1, <2>2 DEF HostNumbers, WithNumbers
<1>1. op \in Wire /\ op.kind = "numbers" /\ op \in OfNumbers /\ Says(op) = v
  <2>1. v \in 1..MaxAct
    BY OutboxAssumption DEF HostNumbers, Acts, OutboxInv, WireInv
  <2> HIDE DEF v
  <2>2. op \in Wire
    BY <2>1, WireRecords
  <2> QED BY <2>2 DEF NumbersOp, OfNumbers, Says
<1>2. gone = Waits(ops, OfNumbers) /\ \A o \in gone : o.kind = "numbers"
  BY <1>0 DEF ToSet, Waits, OfNumbers
<1> HIDE DEF gone
<1>3. /\ \A K : K \cap gone = {} => Carries(left, ops, K)
      /\ Waits(left, OfNumbers) = {}
      /\ ops # <<>> /\ Head(ops) \notin gone => left # <<>> /\ Head(left) = Head(ops)
  BY <1>0, <1>2, WithoutCarries
<1> HIDE DEF left, op, v
<1>4. /\ \A K : op \notin K => Carries(ops', left, K)
      /\ LastSays(ops', OfNumbers, v) /\ Waits(ops', OfNumbers) = {op}
      /\ left # <<>> => ops' # <<>> /\ Head(ops') = Head(left)
  BY <1>0, <1>1, <1>3, AppendCarries
<1>5. Lone(ops', OfNumbers)
  <2>1. (\A o \in Waits(left, OfNumbers) : o.kind \notin {"create", "numbers"})
        /\ (op.kind \in {"create", "numbers"} => Waits(left, OfNumbers) = {})
    BY <1>3
  <2> QED BY <1>0, <1>1, <2>1, AppendCarries
<1>6. ASSUME NEW u \in HandTeams PROVE TeamInv(u)'
  <2>1. About(u) \cap gone = {} /\ op \notin About(u)
    BY <1>1, <1>2 DEF About
  <2>2. Carries(ops', ops, About(u)) /\ TeamInv(u)
    <3>1. Carries(left, ops, About(u)) /\ Carries(ops', left, About(u))
      BY <1>3, <1>4, <2>1
    <3> QED BY <3>1 DEF Carries, OutboxInv
  <2>3. Clear(u)' => Clear(u)
    BY <1>0 DEF Clear, hostVars
  <2>4. ASSUME SentOf(u)', StillHead(sending.op) PROVE ops' # <<>> /\ Head(ops') = Head(ops)
    <3>1. Head(ops).kind # "numbers" /\ ops # <<>>
      BY <1>0, <2>4 DEF SentOf, StillHead, hostVars
    <3>2. Head(ops) \notin gone
      BY <1>2, <3>1
    <3> QED BY <1>3, <1>4, <3>1, <3>2
  <2>5. SentOf(u)' => SentOf(u) /\ sending' = sending
    BY <1>0 DEF SentOf, hostVars
  <2> QED BY <1>0, <2>2, <2>3, <2>4, <2>5, Bystander DEF hostVars
<1>7. NumbersInv'
  <2>1. NumbersInv
    BY DEF OutboxInv
  <2> QED BY <1>0, <1>4, <1>5, <2>1 DEF NumbersInv, hostVars
<1> QED BY <1>6, <1>7

LEMMA SendStep ==
    ASSUME OutboxInv, SendHead
    PROVE  (\A u \in HandTeams : TeamInv(u)') /\ NumbersInv'
<1> DEFINE op == Head(ops)
<1>0. /\ ops \in Seq(Wire) /\ op \in Wire /\ ops # <<>> /\ 1 \in DOMAIN ops /\ ops[1] = op
      /\ UNCHANGED <<ops, ids, ref, server, numbers, want, wantNumbers, shown, blurred>>
      /\ sending' # NoBody => sending'.op = op
      /\ sending'.answer = "done" => op.kind \in {"save", "remove"} /\ op.by = "cid"
                                     /\ op.team \notin ids
  BY DEF SendHead, OutboxInv, WireInv
<1> HIDE DEF op
<1>1. ASSUME NEW u \in HandTeams PROVE TeamInv(u)'
  <2>0. TeamInv(u)
    BY DEF OutboxInv
  <2>1. SentOf(u)' => op \in Waits(ops, About(u))
    BY <1>0 DEF SentOf, Waits, About
  <2>2. Alone(u)'
    BY <1>0, <2>0, <2>1 DEF TeamInv, Alone
  <2>3. ASSUME Clear(u)' PROVE Right(u)'
    <3>1. Right(u)
      BY <1>0, <2>0, <2>3 DEF Clear, TeamInv
    <3>2. ASSUME SentOf(u)'
          PROVE  StillHead(sending.op)' /\ sending'.answer # "done"
      <4>1. sending'.op = op /\ op.team = u
        BY <1>0, <3>2 DEF SentOf
      <4>2. StillHead(sending.op)'
        BY <1>0, <4>1 DEF StillHead, op
      <4>3. sending'.answer # "done"
        BY <1>0, <2>1, <3>1, <3>2, <4>1 DEF Right
      <4> QED BY <4>2, <4>3
    <3> QED BY <1>0, <3>1, <3>2 DEF Right
  <2> QED BY <2>2, <2>3 DEF TeamInv
<1>2. NumbersInv'
  <2>1. NumbersInv
    BY DEF OutboxInv
  <2>2. sending' # NoBody /\ sending'.op.kind = "numbers"
        => Waits(ops, OfNumbers) # {} /\ sending'.answer # "done"
    BY <1>0 DEF Waits, OfNumbers
  <2> QED BY <1>0, <2>1, <2>2 DEF NumbersInv
<1> QED BY <1>1, <1>2

LEMMA AcceptStep ==
    ASSUME OutboxInv, ServerAccepts
    PROVE  (\A u \in HandTeams : TeamInv(u)') /\ NumbersInv'
<1> DEFINE op == sending.op
<1>0. /\ op \in Wire /\ sending # NoBody /\ sending'.op = op
      /\ UNCHANGED <<ops, ids, ref, want, wantNumbers, shown>>
      /\ server \in [HandTeams -> Bodies \cup {"gone", NoBody}]
      /\ blurred' = (IF StaleCreate(op) THEN blurred \cup {op.team} ELSE blurred)
  <2>1. sending \in [op : Wire, answer : {"none", "done", "refused"}]
    BY DEF ServerAccepts, OutboxInv, WireInv
  <2>2. sending' = [sending EXCEPT !.answer = "done"]
    BY DEF ServerAccepts
  <2>3. sending'.op = op
    BY <2>1, <2>2
  <2> QED BY <2>1, <2>3 DEF ServerAccepts, OutboxInv, WireInv, Lapses
<1>1. ASSUME NEW u \in HandTeams PROVE TeamInv(u)'
  <2>0. /\ TeamInv(u) /\ (SentOf(u)' => SentOf(u))
        /\ (Clear(u)' => Clear(u)) /\ sending'.op = sending.op
    BY <1>0 DEF OutboxInv, SentOf, Clear
  <2>1. CASE ~SentOf(u)
    <3>1. server'[u] = server[u]
      BY <1>0, <2>1 DEF SentOf, ServerAccepts
    <3>2. Clear(u)' => Clear(u)
      BY <1>0 DEF Clear
    <3>3. Alone(u)'
      BY <1>0, <2>0, <2>1, <3>1 DEF TeamInv, Alone
    <3>4. Clear(u)' => Right(u)'
      BY <1>0, <2>0, <2>1, <3>1, <3>2 DEF TeamInv, Right
    <3> QED BY <3>3, <3>4 DEF TeamInv
  <2>2. CASE SentOf(u)
    <3>1. Alone(u)'
      BY <1>0, <2>0, <2>2 DEF TeamInv, Alone
    <3>2. ASSUME Clear(u)' PROVE Right(u)'
      <4>1. Right(u) /\ ~StaleCreate(op) /\ op.team = u /\ op.kind # "numbers"
        BY <1>0, <2>0, <2>2, <3>2 DEF Clear, TeamInv, SentOf
      <4>2. Applied(op) = Says(op)
        BY <1>0, <4>1, WireFields DEF Applied, Says, StaleCreate
      <4>3. server'[u] = Says(op)
        BY <1>0, <4>1, <4>2 DEF ServerAccepts
      <4>4. StillHead(op) /\ ops # <<>>
        BY <2>2, <4>1 DEF Right, StillHead
      <4>5. Waits(ops, About(u)) # {}
        <5>1. ops \in Seq(Wire)
          BY DEF OutboxInv, WireInv
        <5>2. Head(ops) = ops[1] /\ 1 \in DOMAIN ops /\ ops[1] \in Wire
          BY <4>4, <5>1
        <5>3. ops[1] \in About(u)
          BY <1>0, <4>1, <4>4, <5>2 DEF StillHead, About
        <5> QED BY <5>2, <5>3 DEF Waits
      <4>6. StillHead(sending.op)'
        BY <1>0, <4>4 DEF StillHead
      <4> QED BY <1>0, <4>1, <4>3, <4>5, <4>6 DEF Right
    <3> QED BY <3>1, <3>2 DEF TeamInv
  <2> QED BY <2>1, <2>2
<1>2. NumbersInv'
  <2>1. NumbersInv
    BY DEF OutboxInv
  <2>2. op.kind # "numbers" => numbers' = numbers
    BY DEF ServerAccepts
  <2>3. op.kind = "numbers" => numbers' = op.body
    BY DEF ServerAccepts
  <2> QED BY <1>0, <2>1, <2>2, <2>3 DEF NumbersInv
<1> QED BY <1>1, <1>2

LEMMA StillStep ==
    ASSUME OutboxInv, ServerRefuses \/ Lose
    PROVE  (\A u \in HandTeams : TeamInv(u)') /\ NumbersInv'
<1>0. /\ UNCHANGED <<ops, ids, ref, server, numbers, want, wantNumbers, shown, blurred>>
      /\ sending' # NoBody => /\ sending # NoBody /\ sending'.op = sending.op
                              /\ sending'.answer # "done"
  <2>1. CASE Lose
    BY <2>1 DEF Lose
  <2>2. CASE ServerRefuses
    <3>1. sending \in [op : Wire, answer : {"none", "done", "refused"}]
      BY <2>2 DEF ServerRefuses, OutboxInv, WireInv
    <3>2. sending'.op = sending.op /\ sending'.answer = "refused"
      BY <2>2, <3>1 DEF ServerRefuses
    <3> QED BY <2>2, <3>2 DEF ServerRefuses
  <2> QED BY <2>1, <2>2
<1>1. ASSUME NEW u \in HandTeams PROVE TeamInv(u)'
  <2>0. TeamInv(u) /\ (SentOf(u)' => SentOf(u)) /\ (Clear(u)' <=> Clear(u))
    BY <1>0 DEF OutboxInv, SentOf, Clear
  <2>1. Alone(u)'
    BY <1>0, <2>0 DEF TeamInv, Alone
  <2>2. ASSUME SentOf(u)', StillHead(sending.op) PROVE StillHead(sending.op)' /\ sending'.answer # "done"
    <3>1. sending'.op = sending.op /\ sending'.answer # "done"
      BY <1>0, <2>2 DEF SentOf
    <3> QED BY <1>0, <2>2, <3>1 DEF StillHead
  <2>3. Clear(u)' => Right(u)'
    BY <1>0, <2>0, <2>2 DEF TeamInv, Right
  <2> QED BY <2>1, <2>3 DEF TeamInv
<1>2. NumbersInv'
  BY <1>0 DEF NumbersInv, OutboxInv
<1> QED BY <1>1, <1>2

LEMMA RefreshStep ==
    ASSUME OutboxInv, Refresh
    PROVE  (\A u \in HandTeams : TeamInv(u)') /\ NumbersInv'
<1>0. /\ UNCHANGED <<ops, ids, sending, server, numbers, want, wantNumbers, shown, blurred>>
      /\ ops = <<>> /\ sending = NoBody /\ NoBody \notin Bodies
      /\ ref' = [t \in HandTeams |-> IF server[t] \in Bodies THEN "id" ELSE ref[t]]
  BY OutboxAssumption DEF Refresh
<1>1. ASSUME NEW u \in HandTeams PROVE TeamInv(u)'
  <2>0. TeamInv(u) /\ ~SentOf(u)' /\ (Clear(u)' <=> Clear(u))
        /\ Waits(ops, About(u)) = {} /\ Lone(ops, About(u))
        /\ \A x : LastSays(ops, About(u), x)
    BY <1>0 DEF OutboxInv, SentOf, Clear, Waits, Lone, LastSays
  <2>1. want[u] = NoBody => ref'[u] = "cid"
    BY <1>0, <2>0 DEF TeamInv, Alone
  <2>2. Alone(u)'
    BY <1>0, <2>0, <2>1 DEF TeamInv, Alone
  <2>3. Clear(u)' => Right(u)'
    BY <1>0, <2>0 DEF TeamInv, Right
  <2> QED BY <2>2, <2>3 DEF TeamInv
<1>2. NumbersInv'
  BY <1>0 DEF NumbersInv, OutboxInv
<1> QED BY <1>1, <1>2

\* The change that follows a creation edited on its way.
FollowUp(op) == [kind |-> "save", team |-> op.team, by |-> "cid", body |-> Head(ops).body]

\* Changes of K are not about what op is about.
Apart(op, K) ==
    \A o \in K : /\ op.kind = "numbers" => o.kind # "numbers"
                 /\ op.kind # "numbers" => o.kind = "numbers" \/ o.team # op.team

\* The head is done: Rest is the tail, or what filter or a follow-up make of it.
LEMMA RestIs ==
    ASSUME OutboxInv, sending # NoBody, StillHead(sending.op), NEW reply
    PROVE  LET op == sending.op
           IN  /\ op \in Wire /\ ops \in Seq(Wire) /\ ops # <<>> /\ Head(ops) \in Wire
               /\ Head(ops).kind = op.kind /\ Head(ops).team = op.team
               /\ op.kind # "create" => Head(ops) = op
               /\ \/ /\ reply = "refused" /\ op.kind = "create"
                     /\ \E gone : /\ Rest(op, reply) = Without(Tail(ops), gone)
                                  /\ \A o \in gone : o.team = op.team /\ o.kind # "numbers"
                  \/ /\ reply = "done" /\ op.kind = "create" /\ Head(ops).body # op.body
                     /\ Rest(op, reply) = <<FollowUp(op)>> \o Tail(ops)
                  \/ /\ Rest(op, reply) = Tail(ops)
                     /\ reply = "done" /\ op.kind = "create" => Head(ops).body = op.body
<1> DEFINE op == sending.op
<1>1. op \in Wire /\ ops \in Seq(Wire) /\ ops # <<>> /\ Head(ops) \in Wire
  BY DEF OutboxInv, WireInv, StillHead
<1>2. Head(ops).kind = op.kind /\ Head(ops).team = op.team /\ (op.kind # "create" => Head(ops) = op)
  BY DEF StillHead
<1>3. CASE reply = "refused" /\ op.kind = "create"
  <2> DEFINE gone == {o \in ToSet(Tail(ops)) : Mentions(o, op.team)}
  <2>1. \A o \in gone : o.team = op.team /\ o.kind # "numbers"
    BY DEF Mentions
  <2>2. Rest(op, reply) = Without(Tail(ops), gone)
    BY <1>3 DEF Rest
  <2> HIDE DEF gone
  <2> QED BY <1>1, <1>2, <1>3, <2>1, <2>2
<1>4. CASE ~(reply = "refused" /\ op.kind = "create")
  BY <1>1, <1>2, <1>4 DEF Rest, FollowUp
<1> QED BY <1>3, <1>4

LEMMA RestCarries ==
    ASSUME OutboxInv, sending # NoBody, StillHead(sending.op), NEW reply
    PROVE  \A K : Apart(sending.op, K) => Carries(Rest(sending.op, reply), ops, K)
<1> DEFINE op == sending.op
           tl == Tail(ops)
           out == Rest(op, reply)
<1>0. /\ op \in Wire /\ ops \in Seq(Wire) /\ ops # <<>> /\ Head(ops) \in Wire
      /\ Head(ops).kind = op.kind /\ Head(ops).team = op.team
  BY RestIs
<1> SUFFICES ASSUME NEW K, Apart(op, K) PROVE Carries(out, ops, K)
  OBVIOUS
<1>1. Head(ops) \notin K
  <2> DEFINE hd == Head(ops)
  <2>1. hd.kind = op.kind /\ hd.team = op.team
    BY <1>0
  <2> HIDE DEF hd, op
  <2>2. hd \in K => FALSE
    BY <2>1 DEF Apart
  <2> QED BY <2>2 DEF hd
<1>2. Carries(tl, ops, K) /\ tl \in Seq(Wire)
  <2>1. tl \in Seq(Wire)
    BY <1>0
  <2> QED BY <1>0, <1>1, <2>1, TailCarries
<1>3. \/ \E gone : out = Without(tl, gone) /\ op.kind = "create"
                  /\ \A o \in gone : o.team = op.team /\ o.kind # "numbers"
      \/ out = <<FollowUp(op)>> \o tl /\ op.kind = "create"
      \/ out = tl
  BY RestIs
<1>4. ASSUME NEW gone, out = Without(tl, gone), op.kind = "create",
             \A o \in gone : o.team = op.team /\ o.kind # "numbers"
      PROVE  Carries(out, ops, K)
  <2>1. K \cap gone = {}
    BY <1>4 DEF Apart
  <2> HIDE DEF tl
  <2>2. Carries(Without(tl, gone), tl, K)
    BY <1>2, <2>1, WithoutCarries
  <2> QED BY <1>2, <1>4, <2>2 DEF Carries
<1>5. ASSUME out = <<FollowUp(op)>> \o tl, op.kind = "create" PROVE Carries(out, ops, K)
  <2> DEFINE save == FollowUp(op)
             P == {1}
  <2>1. save \in Wire /\ save.kind = "save" /\ save.team = op.team
    <3>1. op.team \in HandTeams /\ Head(ops).body \in Bodies
      BY <1>0, <1>5, WireFields
    <3> QED BY <3>1, WireRecords DEF FollowUp
  <2>2. save \notin K
    BY <1>5, <2>1 DEF Apart
  <2> HIDE DEF save
  <2>3. out = [i \in DOMAIN ops |-> IF i \in P THEN save ELSE ops[i]]
    <3>1. out = <<save>> \o tl
      BY <1>5 DEF save
    <3> HIDE DEF out
    <3>2. /\ DOMAIN out = DOMAIN ops /\ out[1] = save
          /\ \A i \in DOMAIN ops : i # 1 => out[i] = ops[i]
      BY <1>0, <2>1, <3>1
    <3>3. out = [i \in DOMAIN out |-> out[i]]
      BY <1>0, <2>1, <3>1
    <3> QED BY <3>2, <3>3
  <2>4. P \subseteq DOMAIN ops /\ \A i \in P : ops[i] \notin K
    BY <1>0, <1>1
  <2> HIDE DEF out, P
  <2>5. \A L : save \notin L /\ (\A i \in P : ops[i] \notin L) => Carries(out, ops, L)
    BY <1>0, <2>1, <2>3, <2>4, ReplacedCarries
  <2> QED BY <2>2, <2>4, <2>5
<1> HIDE DEF out
<1>6. out = tl => Carries(out, ops, K)
  BY <1>2
<1> QED BY <1>3, <1>4, <1>5, <1>6

\* What settling does to the team its change is about.
LEMMA SettleOwn ==
    ASSUME OutboxInv, Settle, StillHead(sending.op), sending.op.kind # "numbers",
           NEW t \in HandTeams, sending.op.team = t
    PROVE  TeamInv(t)'
<1> DEFINE op == sending.op
           tl == Tail(ops)
           K == About(t)
           hd == Head(ops)
<1>0. /\ op \in Wire /\ ops \in Seq(Wire) /\ ops # <<>> /\ hd \in Wire
      /\ hd.kind = op.kind /\ hd.team = op.team /\ (op.kind # "create" => hd = op)
  BY RestIs DEF Settle
<1>1. /\ ops' = Rest(op, sending.answer) /\ sending' = NoBody /\ sending # NoBody
      /\ UNCHANGED <<ref, server, want, blurred>>
      /\ sending.answer \in {"done", "refused"}
      /\ sending.answer = "refused" => t \in shown'
      /\ shown \subseteq shown'
      /\ ops' # <<>> => ids \subseteq ids' /\ (sending.answer = "done" /\ op.kind = "create" => t \in ids')
  BY DEF Settle, OutboxInv, WireInv
<1>2. hd \in K /\ TeamInv(t) /\ SentOf(t) /\ ~SentOf(t)'
  BY <1>0, <1>1 DEF About, OutboxInv, SentOf
<1>3. Lone(ops, K) /\ want[t] # NoBody
      /\ \A o \in Waits(ops, K) : o.kind = "create" => ref[t] = "cid"
  BY <1>2 DEF TeamInv, Alone
<1>4. /\ tl \in Seq(Wire) /\ Lone(tl, K) /\ Waits(tl, K) \subseteq Waits(ops, K)
      /\ \A x : LastSays(ops, K, x) => LastSays(tl, K, x)
      /\ \A x : Waits(tl, K) = {} /\ LastSays(ops, K, x) => Says(hd) = x
      /\ hd.kind = "create" => Waits(tl, K) = {}
  <2>1. tl \in Seq(Wire)
    BY <1>0
  <2> HIDE DEF K
  <2> QED BY <1>0, <1>2, <1>3, <2>1, TailCarries
<1>5. ASSUME NEW gone, ops' = Without(tl, gone), sending.answer = "refused" PROVE TeamInv(t)'
  <2> HIDE DEF K, tl
  <2>1. Lone(ops', K) /\ Waits(ops', K) \subseteq Waits(ops, K)
    BY <1>4, <1>5, WithoutCarries
  <2>2. ~Clear(t)'
    BY <1>1, <1>5 DEF Clear
  <2>3. Alone(t)'
    BY <1>1, <1>2, <1>3, <2>1 DEF Alone, K
  <2> QED BY <2>2, <2>3 DEF TeamInv
<1>6. ASSUME ops' = <<FollowUp(op)>> \o tl, op.kind = "create", sending.answer = "done"
      PROVE  TeamInv(t)'
  <2> DEFINE save == FollowUp(op)
  <2>1. save \in Wire /\ save.kind = "save" /\ save.team = t /\ Says(save) = hd.body
    <3>1. op.team \in HandTeams /\ hd.body \in Bodies
      BY <1>0, <1>6, WireFields
    <3> QED BY <1>2, <3>1, WireRecords DEF FollowUp, Says, SentOf
  <2>2. save \in K
    BY <2>1 DEF About
  <2> HIDE DEF save
  <2>3. /\ ops' # <<>> /\ 1 \in DOMAIN ops' /\ ops'[1] = save
        /\ \A i \in DOMAIN ops' : i # 1 => i - 1 \in DOMAIN tl /\ ops'[i] = tl[i - 1]
    <3>1. ops' = <<save>> \o tl
      BY <1>6 DEF save
    <3> HIDE DEF tl
    <3> QED BY <1>4, <2>1, <3>1
  <2>4. \A i \in DOMAIN ops' : ops'[i] \in K => i = 1
    BY <1>0, <1>4, <1>6, <2>3 DEF Waits
  <2> HIDE DEF K
  <2>5. Waits(ops', K) = {save} /\ Lone(ops', K) /\ LastSays(ops', K, hd.body)
    BY <2>1, <2>2, <2>3, <2>4 DEF Waits, Lone, LastSays
  <2>6. Alone(t)'
    BY <1>1, <1>3, <2>1, <2>5 DEF Alone, K
  <2>7. ASSUME Clear(t)' PROVE Right(t)'
    <3>1. Right(t)
      BY <1>1, <1>2, <2>7 DEF Clear, TeamInv
    <3>2. Says(hd) = want[t] /\ Says(hd) = hd.body
      BY <1>0, <1>4, <1>6, <3>1 DEF Right, K, Says
    <3>3. t \in ids'
      BY <1>1, <1>6, <2>3
    <3> QED BY <1>1, <1>2, <2>5, <3>2, <3>3 DEF Right, K
  <2> QED BY <2>6, <2>7 DEF TeamInv
<1>7. ASSUME ops' = tl, sending.answer = "done" /\ op.kind = "create" => hd.body = op.body
      PROVE  TeamInv(t)'
  <2> HIDE DEF tl, K, hd
  <2>1. Alone(t)'
    BY <1>1, <1>3, <1>4, <1>7 DEF Alone, K
  <2>2. ASSUME Clear(t)' PROVE Right(t)'
    <3>1. Right(t) /\ sending.answer = "done"
      BY <1>1, <1>2, <2>2 DEF Clear, TeamInv
    <3>2. server[t] = Says(op) /\ LastSays(ops, K, want[t])
          /\ \A o \in Waits(ops, K) : o.kind # "create" /\ o.by = "cid" => t \in ids
      BY <1>2, <3>1 DEF Right, K
    <3>3. Says(op) = Says(hd)
      BY <1>0, <1>7, <3>1 DEF Says
    <3>4. Waits(ops', K) = {} => server'[t] = want'[t]
      BY <1>1, <1>4, <1>7, <3>2, <3>3
    <3>5. \A o \in Waits(ops', K) : o.kind # "create" /\ o.by = "cid" => t \in ids'
      <4>1. ops' = <<>> => Waits(ops', K) = {}
        BY DEF Waits
      <4> QED BY <1>1, <1>4, <1>7, <3>2, <4>1
    <3> QED BY <1>1, <1>2, <1>4, <1>7, <3>2, <3>4, <3>5 DEF Right, K
  <2> QED BY <2>1, <2>2 DEF TeamInv
<1>8. \/ sending.answer = "refused" /\ \E gone : ops' = Without(tl, gone)
      \/ sending.answer = "done" /\ op.kind = "create" /\ ops' = <<FollowUp(op)>> \o tl
      \/ /\ ops' = tl
         /\ sending.answer = "done" /\ op.kind = "create" => hd.body = op.body
  BY <1>1, RestIs
<1> QED BY <1>5, <1>6, <1>7, <1>8

LEMMA SettleStep ==
    ASSUME OutboxInv, Settle
    PROVE  (\A u \in HandTeams : TeamInv(u)') /\ NumbersInv'
<1> DEFINE op == sending.op
<1>0. /\ UNCHANGED <<ref, server, numbers, want, wantNumbers, blurred>> /\ sending' = NoBody
      /\ sending # NoBody /\ shown \subseteq shown' /\ (ops' # <<>> => ids \subseteq ids')
      /\ sending.answer \in {"done", "refused"} /\ NumbersInv
      /\ \A u \in HandTeams : TeamInv(u) /\ ~SentOf(u)' /\ (Clear(u)' => Clear(u))
  BY DEF Settle, OutboxInv, WireInv, SentOf, Clear
<1>1. CASE ~StillHead(op)
  <2>1. ops' = ops
    BY <1>1 DEF Settle
  <2>2. \A K : Carries(ops', ops, K)
    BY <2>1 DEF Carries
  <2>3. ASSUME NEW u \in HandTeams PROVE TeamInv(u)'
    BY <1>0, <2>2, Bystander
  <2>4. NumbersInv'
    BY <1>0, <2>2, NumbersStay
  <2> QED BY <2>3, <2>4
<1>2. CASE StillHead(op)
  <2>0. ops' = Rest(op, sending.answer)
    BY <1>2 DEF Settle
  <2>1. \A K : Apart(op, K) => Carries(ops', ops, K)
    BY <1>0, <1>2, <2>0, RestCarries
  <2>2. ASSUME NEW u \in HandTeams, op.kind = "numbers" \/ op.team # u PROVE TeamInv(u)'
    <3>1. Apart(op, About(u))
      BY <2>2 DEF Apart, About
    <3>2. Carries(ops', ops, About(u))
      BY <2>1, <3>1
    <3> QED BY <1>0, <3>2, Bystander
  <2>3. ASSUME NEW u \in HandTeams, op.kind # "numbers", op.team = u PROVE TeamInv(u)'
    BY <1>2, <2>3, SettleOwn
  <2>4. CASE op.kind # "numbers"
    <3>1. Apart(op, OfNumbers)
      BY <2>4 DEF Apart, OfNumbers
    <3>2. Carries(ops', ops, OfNumbers)
      BY <2>1, <3>1
    <3>3. NumbersInv'
      BY <1>0, <3>2, NumbersStay
    <3> QED BY <2>2, <2>3, <3>3
  <2>5. CASE op.kind = "numbers"
    <3> DEFINE tl == Tail(ops)
    <3>1. op \in Wire /\ ops \in Seq(Wire) /\ ops # <<>> /\ Head(ops) = op
      BY <1>0, <1>2, <2>5, RestIs
    <3>2. op \in OfNumbers /\ ops' = tl /\ Says(op) = op.body
      BY <2>0, <2>5, <3>1 DEF OfNumbers, Rest, Says
    <3>3. Lone(ops, OfNumbers) /\ LastSays(ops, OfNumbers, wantNumbers)
      BY <1>0 DEF NumbersInv
    <3>4. Waits(tl, OfNumbers) = {}
      BY <2>5, <3>1, <3>2, <3>3, TailCarries
    <3>5. Says(op) = wantNumbers
      BY <3>1, <3>2, <3>3, <3>4, TailCarries
    <3>6. Lone(ops', OfNumbers) /\ \A x : LastSays(ops', OfNumbers, x)
      BY <3>2, <3>4 DEF Lone, LastSays, Waits
    <3>7. "numbers" \notin shown' => sending.answer = "done"
      BY <1>0, <1>2, <2>5 DEF Settle
    <3>8. sending.answer = "done" => numbers = op.body
      BY <1>0, <2>5 DEF NumbersInv
    <3>9. NumbersInv'
      BY <1>0, <3>2, <3>5, <3>6, <3>7, <3>8 DEF NumbersInv
    <3> QED BY <2>2, <2>5, <3>9
  <2> QED BY <2>4, <2>5
<1> QED BY <1>1, <1>2

-----------------------------------------------------------------------------
LEMMA OutboxInitially == OutboxInit => OutboxInv
<1> SUFFICES ASSUME OutboxInit PROVE OutboxInv
  OBVIOUS
<1>1. \A K : Waits(ops, K) = {} /\ Lone(ops, K) /\ \A x : LastSays(ops, K, x)
  BY DEF OutboxInit, Waits, Lone, LastSays
<1>2. ASSUME NEW t \in HandTeams PROVE TeamInv(t)
  <2>1. server[t] = want[t] /\ ref[t] = "cid" /\ server[t] = NoBody /\ ~SentOf(t)
    BY DEF OutboxInit, SentOf
  <2> QED BY <1>1, <2>1 DEF TeamInv, Alone, Right
<1>3. NumbersInv
  BY <1>1 DEF OutboxInit, NumbersInv
<1> QED BY <1>2, <1>3, WireInit DEF OutboxInv

LEMMA OutboxStep == OutboxInv /\ [OutboxNext]_outboxVars => OutboxInv'
<1> SUFFICES ASSUME OutboxInv, [OutboxNext]_outboxVars PROVE OutboxInv'
  OBVIOUS
<1>1. WireInv'
  BY WireStep DEF OutboxInv
<1> SUFFICES (\A u \in HandTeams : TeamInv(u)') /\ NumbersInv'
  BY <1>1 DEF OutboxInv
<1>2. ASSUME NEW t \in HandTeams, NEW b \in Bodies, HostCreates(t, b) \/ HostSaves(t, b)
      PROVE  (\A u \in HandTeams : TeamInv(u)') /\ NumbersInv'
  BY <1>2, CreateStep, SaveStep
<1>3. ASSUME NEW t \in HandTeams, HostRemoves(t)
      PROVE  (\A u \in HandTeams : TeamInv(u)') /\ NumbersInv'
  BY <1>3, RemoveStep
<1>4. HostNumbers => (\A u \in HandTeams : TeamInv(u)') /\ NumbersInv'
  BY NumbersStep
<1>5. SendHead => (\A u \in HandTeams : TeamInv(u)') /\ NumbersInv'
  BY SendStep
<1>6. ServerAccepts => (\A u \in HandTeams : TeamInv(u)') /\ NumbersInv'
  BY AcceptStep
<1>7. ServerRefuses \/ Lose => (\A u \in HandTeams : TeamInv(u)') /\ NumbersInv'
  BY StillStep
<1>8. Settle => (\A u \in HandTeams : TeamInv(u)') /\ NumbersInv'
  BY SettleStep
<1>9. Refresh => (\A u \in HandTeams : TeamInv(u)') /\ NumbersInv'
  BY RefreshStep
<1>10. CASE CloseEditor \/ (\E t \in HandTeams : OpenEditor(t)) \/ UNCHANGED outboxVars
  <2>0. UNCHANGED <<ops, ids, sending, ref, server, numbers, want, wantNumbers, shown, blurred>>
    BY <1>10 DEF CloseEditor, OpenEditor, outboxVars
  <2>1. ASSUME NEW u \in HandTeams PROVE TeamInv(u)'
    <3>1. TeamInv(u)
      BY DEF OutboxInv
    <3> QED BY <2>0, <3>1 DEF TeamInv, Alone, Right, Clear, SentOf, StillHead
  <2>2. NumbersInv'
    BY <2>0 DEF OutboxInv, NumbersInv
  <2> QED BY <2>1, <2>2
<1> QED BY <1>2, <1>3, <1>4, <1>5, <1>6, <1>7, <1>8, <1>9, <1>10 DEF OutboxNext

LEMMA OutboxAlways == OutboxSpec => []OutboxInv
BY OutboxInitially, OutboxStep, PTL DEF OutboxSpec

\* What waits in the outbox, the server's teams and the host's word for them
\* always have their types, and no more changes wait than the host made.
THEOREM OutboxTyped == OutboxSpec => []OutboxTypeOK
<1>1. OutboxInv => OutboxTypeOK
  BY WireTyped DEF OutboxInv
<1> QED BY <1>1, OutboxAlways, PTL

\* flushOutbox and settle: once all is sent, the server's venue is what the host
\* made it, for any number of teams, of changes and of lost answers.
THEOREM VenueArrives == OutboxSpec => []OutboxArrives
<1>1. OutboxInv => OutboxArrives
  <2> SUFFICES ASSUME OutboxInv, Sent PROVE
                 /\ \A t \in HandTeams \ (shown \cup blurred) :
                        server[t] = want[t] \/ (want[t] = "gone" /\ server[t] = NoBody)
                 /\ "numbers" \notin shown => numbers = wantNumbers
    BY DEF OutboxArrives
  <2>1. \A K : Waits(ops, K) = {}
    BY DEF Sent, Waits
  <2>2. ASSUME NEW t \in HandTeams \ (shown \cup blurred)
        PROVE  server[t] = want[t] \/ (want[t] = "gone" /\ server[t] = NoBody)
    <3>1. Right(t)
      BY DEF OutboxInv, TeamInv, Clear
    <3> QED BY <2>1, <3>1 DEF Right
  <2>3. "numbers" \notin shown => numbers = wantNumbers
    BY <2>1 DEF OutboxInv, NumbersInv
  <2> QED BY <2>2, <2>3
<1> QED BY <1>1, OutboxAlways, PTL

-----------------------------------------------------------------------------
(***************************************************************************)
(* Proofs about Bracket, for any schedule, seats, teams and results.  The  *)
(* walk of the resolver is a fold; Walked is what it makes bout by bout.   *)
(***************************************************************************)

\* The games the walk from g passes through: it moves seats and reopens.
Walks(g) == [finished : SUBSET Bouts, seat : [Bouts -> [Seats -> Teams \cup {NoTeam}]],
             place : {g.place}, table : {g.table}]

GoodGame(g) == g \in Walks(g) /\ \A rank \in DOMAIN g.table : g.table[rank] \in Teams

LEMMA Occupants ==
    ASSUME NEW g, \A rank \in DOMAIN g.table : g.table[rank] \in Teams, NEW s
    PROVE  DesiredOccupant(g, s) \in Teams \cup {NoTeam}
<1>1. TeamAtReseedRank(g, s.rank) \in Teams \cup {NoTeam}
  BY DEF TeamAtReseedRank
<1>2. TeamAtMatchPlace(g, s.match, s.place) \in Teams \cup {NoTeam}
  <2> DEFINE takers == {t \in Teams : g.place[s.match][t] = s.place}
  <2>1. Cardinality(takers) = 1 => (CHOOSE t \in takers : TRUE) \in Teams
    <3>1. Cardinality(takers) = 1 => takers # {}
      BY FS_EmptySet
    <3> QED BY <3>1
  <2> QED BY <2>1 DEF TeamAtMatchPlace
<1> QED BY <1>1, <1>2 DEF DesiredOccupant

\* One bout brought up to date: its own seats, nobody else's.
LEMMA StageStep ==
    ASSUME NEW g, GoodGame(g), NEW w \in Walks(g), NEW b \in Bouts
    PROVE  LET v == ResolveStageSlots(w, b)
               named == [i \in Seats |-> DesiredOccupant(w, Source[b][i])]
               moved == {i \in Seats : Moves(w.seat[b][i], named[i])}
           IN /\ v \in Walks(g)
              /\ \A k \in Bouts : k # b =>
                     v.seat[k] = w.seat[k] /\ (k \in v.finished <=> k \in w.finished)
              /\ \A i \in Seats : v.seat[b][i] = IF i \in moved THEN named[i] ELSE w.seat[b][i]
              /\ v.finished \subseteq w.finished
              /\ (\E i \in moved : w.seat[b][i] # NoTeam) => b \notin v.finished
<1> DEFINE named == [i \in Seats |-> DesiredOccupant(w, Source[b][i])]
           moved == {i \in Seats : Moves(w.seat[b][i], named[i])}
           placed == [i \in Seats |-> IF i \in moved THEN named[i] ELSE w.seat[b][i]]
           seats == [w.seat EXCEPT ![b] = placed]
           left == IF \E i \in moved : w.seat[b][i] # NoTeam THEN w.finished \ {b} ELSE w.finished
           v == ResolveStageSlots(w, b)
<1>1. /\ w.finished \in SUBSET Bouts /\ w.seat \in [Bouts -> [Seats -> Teams \cup {NoTeam}]]
      /\ w.place = g.place /\ w.table = g.table
  BY DEF Walks
<1>2. v = [finished |-> left, seat |-> seats, place |-> w.place, table |-> w.table]
  BY DEF ResolveStageSlots, Walks
<1>3. \A i \in Seats : named[i] \in Teams \cup {NoTeam}
  BY <1>1, Occupants DEF GoodGame
<1>4. placed \in [Seats -> Teams \cup {NoTeam}]
  <2> HIDE DEF named, moved
  <2> QED BY <1>1, <1>3
<1>5. seats \in [Bouts -> [Seats -> Teams \cup {NoTeam}]]
      /\ seats[b] = placed /\ \A k \in Bouts : k # b => seats[k] = w.seat[k]
  <2> HIDE DEF placed
  <2> QED BY <1>1, <1>4
<1>6. left \in SUBSET Bouts /\ left \subseteq w.finished /\ w.finished \subseteq left \cup {b}
  BY <1>1
<1>7. (\E i \in moved : w.seat[b][i] # NoTeam) => b \notin left
  OBVIOUS
<1>8. \A i \in Seats : placed[i] = IF i \in moved THEN named[i] ELSE w.seat[b][i]
  OBVIOUS
<1> HIDE DEF placed, seats, left, moved, named, v
<1>9. /\ v.finished = left /\ v.seat = seats
      /\ v \in [finished : SUBSET Bouts, seat : [Bouts -> [Seats -> Teams \cup {NoTeam}]],
                place : {g.place}, table : {g.table}]
  BY <1>1, <1>2, <1>5, <1>6
<1> QED BY <1>5, <1>6, <1>7, <1>8, <1>9 DEF v, moved, named, Walks

\* The walk: w[b] is the game once the bouts up to b are brought up to date.
Walked(w, g) ==
    /\ w \in [0..MaxBout -> Walks(g)] /\ w[0] = g /\ w[MaxBout] = ResolveGameSlots(g)
    /\ \A b \in Bouts : w[b] = ResolveStageSlots(w[b - 1], b)

LEMMA WalkIsThere == ASSUME NEW g, GoodGame(g) PROVE \E w : Walked(w, g)
<1> DEFINE V == Walks(g)
           F == [p \in (1..MaxBout) \X V |-> ResolveStageSlots(p[2], p[1])]
           E(it) == it = [s \in SUBSET (1..MaxBout) |->
                             IF s = {} THEN g
                             ELSE ResolveStageSlots(it[s \ {Max(s)}], [b \in Bouts |-> b][Max(s)])]
           jt == CHOOSE it : E(it)
<1>1. MaxBout \in Nat /\ g \in V
  BY BracketAssumption DEF GoodGame
<1>2. ASSUME NEW w \in V, NEW b \in 1..MaxBout
      PROVE  ResolveStageSlots(w, b) \in V /\ F[<<b, w>>] = ResolveStageSlots(w, b)
  <2>1. ResolveStageSlots(w, b) \in V
    BY StageStep DEF Bouts
  <2> HIDE DEF V
  <2> QED BY <2>1
<1>3. F \in [(1..MaxBout) \X V -> V]
  <2>1. \A p \in (1..MaxBout) \X V : ResolveStageSlots(p[2], p[1]) \in V
    BY <1>2
  <2> HIDE DEF V
  <2> QED BY <2>1
<1>4. \A s \in SUBSET (1..MaxBout) : s # {} => Max(s) \in s /\ s \ {Max(s)} \in SUBSET (1..MaxBout)
  BY <1>1, MaxOf
<1> HIDE DEF F, V, E, jt
<1>5. \E it : E(it)
  <2>0. PICK it : it \in [SUBSET (1..MaxBout) -> V] /\ FoldsUp(it, MaxBout, g, F)
    BY <1>1, <1>3, WalkExists
  <2>1. \A s \in SUBSET (1..MaxBout) :
            it[s] = IF s = {} THEN g ELSE F[<<Max(s), it[s \ {Max(s)}]>>]
    BY <2>0 DEF FoldsUp
  <2>2. ASSUME NEW s \in SUBSET (1..MaxBout), s # {}
        PROVE  it[s] = ResolveStageSlots(it[s \ {Max(s)}], [b \in Bouts |-> b][Max(s)])
    <3>1. Max(s) \in 1..MaxBout /\ it[s \ {Max(s)}] \in V
      BY <1>4, <2>0, <2>2
    <3>2. [b \in Bouts |-> b][Max(s)] = Max(s)
      BY <3>1 DEF Bouts
    <3> QED BY <1>2, <2>1, <2>2, <3>1, <3>2
  <2>3. \A s \in SUBSET (1..MaxBout) :
            it[s] = IF s = {} THEN g
                    ELSE ResolveStageSlots(it[s \ {Max(s)}], [b \in Bouts |-> b][Max(s)])
    BY <2>1, <2>2
  <2> QED BY <2>0, <2>3 DEF E
<1>6. E(jt)
  BY <1>5 DEF jt
<1>7. ResolveGameSlots(g) = jt[1..MaxBout]
  BY DEF ResolveGameSlots, FoldLeft, MapThenFoldSet, Bouts, jt, E
<1>8. jt[{}] = g
  BY <1>6 DEF E
<1>9. ASSUME NEW s \in SUBSET (1..MaxBout), s # {}, jt[s \ {Max(s)}] \in V
      PROVE  jt[s] = F[<<Max(s), jt[s \ {Max(s)}]>>]
  <2>1. Max(s) \in 1..MaxBout
    BY <1>4, <1>9
  <2>2. [b \in Bouts |-> b][Max(s)] = Max(s)
    BY <2>1 DEF Bouts
  <2>3. jt[s] = ResolveStageSlots(jt[s \ {Max(s)}], [b \in Bouts |-> b][Max(s)])
    BY <1>6, <1>9 DEF E
  <2> QED BY <1>2, <1>9, <2>1, <2>2, <2>3
<1>10. PICK w : /\ w \in [0..MaxBout -> V] /\ Climbs(w, MaxBout, g, F)
                /\ w[MaxBout] = jt[1..MaxBout]
  <2>1. FoldsIn(jt, MaxBout, V, g, F)
    BY <1>8, <1>9 DEF FoldsIn
  <2>a. \A U, a, G, it : a \in U /\ G \in [(1..MaxBout) \X U -> U] /\ FoldsIn(it, MaxBout, U, a, G)
            => \E w : w \in [0..MaxBout -> U] /\ Climbs(w, MaxBout, a, G) /\ w[MaxBout] = it[1..MaxBout]
    BY <1>1, WalkIs
  <2>b. \A a, G, it : a \in V /\ G \in [(1..MaxBout) \X V -> V] /\ FoldsIn(it, MaxBout, V, a, G)
            => \E w : w \in [0..MaxBout -> V] /\ Climbs(w, MaxBout, a, G) /\ w[MaxBout] = it[1..MaxBout]
    BY <2>a, Zenon
  <2>c. \A G, it : g \in V /\ G \in [(1..MaxBout) \X V -> V] /\ FoldsIn(it, MaxBout, V, g, G)
            => \E w : w \in [0..MaxBout -> V] /\ Climbs(w, MaxBout, g, G) /\ w[MaxBout] = it[1..MaxBout]
    BY <2>b, Zenon
  <2>d. \A it : g \in V /\ F \in [(1..MaxBout) \X V -> V] /\ FoldsIn(it, MaxBout, V, g, F)
            => \E w : w \in [0..MaxBout -> V] /\ Climbs(w, MaxBout, g, F) /\ w[MaxBout] = it[1..MaxBout]
    BY <2>c, Zenon
  <2>2. g \in V /\ F \in [(1..MaxBout) \X V -> V] /\ FoldsIn(jt, MaxBout, V, g, F)
        => \E w : w \in [0..MaxBout -> V] /\ Climbs(w, MaxBout, g, F) /\ w[MaxBout] = jt[1..MaxBout]
    BY <2>d, Zenon
  <2>3. \E w : w \in [0..MaxBout -> V] /\ Climbs(w, MaxBout, g, F) /\ w[MaxBout] = jt[1..MaxBout]
    BY <1>1, <1>3, <2>1, <2>2, Zenon
  <2> QED BY <2>3, Zenon
<1>11. ASSUME NEW b \in Bouts PROVE w[b] = ResolveStageSlots(w[b - 1], b)
  <2>1. b \in 1..MaxBout /\ b - 1 \in 0..MaxBout
    BY <1>1 DEF Bouts
  <2>2. w[b - 1] \in V /\ w[b] = F[<<b, w[b - 1]>>]
    BY <1>10, <2>1 DEF Climbs
  <2> QED BY <1>2, <2>1, <2>2
<1>12. Walked(w, g)
  BY <1>7, <1>10, <1>11 DEF Walked, V, Climbs
<1> QED BY <1>12

\* From a bout on, the walk leaves it as it is, and before it as it was.
LEMMA WalkLeaves ==
    ASSUME NEW g, GoodGame(g), NEW w, Walked(w, g), NEW b \in Bouts
    PROVE  /\ w[b - 1].seat[b] = g.seat[b] /\ (b \in w[b - 1].finished <=> b \in g.finished)
           /\ \A k \in b..MaxBout : /\ w[k].seat[b] = w[b].seat[b]
                                    /\ b \in w[k].finished <=> b \in w[b].finished
<1> DEFINE Early == {k \in Nat : k < b => /\ w[k].seat[b] = g.seat[b]
                                          /\ b \in w[k].finished <=> b \in g.finished}
           Late == {k \in Nat : b + k <= MaxBout =>
                        /\ w[b + k].seat[b] = w[b].seat[b]
                        /\ b \in w[b + k].finished <=> b \in w[b].finished}
<1>1. MaxBout \in Nat /\ b \in 1..MaxBout
  BY BracketAssumption DEF Bouts
<1>2. ASSUME NEW k \in 1..MaxBout, k # b
      PROVE  /\ w[k].seat[b] = w[k - 1].seat[b]
             /\ b \in w[k].finished <=> b \in w[k - 1].finished
  <2>1. k \in Bouts /\ k - 1 \in 0..MaxBout
    BY <1>1 DEF Bouts
  <2>2. w[k - 1] \in Walks(g) /\ w[k] = ResolveStageSlots(w[k - 1], k)
    BY <2>1 DEF Walked
  <2>3. ASSUME NEW v \in Walks(g)
        PROVE  /\ ResolveStageSlots(v, k).seat[b] = v.seat[b]
               /\ b \in ResolveStageSlots(v, k).finished <=> b \in v.finished
    BY <1>2, <2>1, StageStep
  <2> QED BY <2>2, <2>3
<1>3. 0 \in Early
  BY DEF Walked
<1>4. ASSUME NEW k \in Nat, k \in Early PROVE k + 1 \in Early
  <2> SUFFICES ASSUME k + 1 < b
               PROVE  /\ w[k + 1].seat[b] = g.seat[b]
                      /\ b \in w[k + 1].finished <=> b \in g.finished
    OBVIOUS
  <2>1. k + 1 \in 1..MaxBout /\ k + 1 # b /\ (k + 1) - 1 = k /\ k < b
    BY <1>1
  <2>2. /\ w[k + 1].seat[b] = w[k].seat[b]
        /\ b \in w[k + 1].finished <=> b \in w[k].finished
    BY <1>2, <2>1
  <2> QED BY <1>4, <2>1, <2>2
<1>5. 0 \in Late
  <2>1. b + 0 = b
    BY <1>1
  <2> QED BY <2>1
<1>6. ASSUME NEW k \in Nat, k \in Late PROVE k + 1 \in Late
  <2> SUFFICES ASSUME b + (k + 1) <= MaxBout
               PROVE  /\ w[b + (k + 1)].seat[b] = w[b].seat[b]
                      /\ b \in w[b + (k + 1)].finished <=> b \in w[b].finished
    OBVIOUS
  <2>1. /\ b + (k + 1) \in 1..MaxBout /\ b + (k + 1) # b /\ (b + (k + 1)) - 1 = b + k
        /\ b + k <= MaxBout
    BY <1>1
  <2>2. /\ w[b + (k + 1)].seat[b] = w[b + k].seat[b]
        /\ b \in w[b + (k + 1)].finished <=> b \in w[b + k].finished
    BY <1>2, <2>1
  <2> QED BY <1>6, <2>1, <2>2
<1> HIDE DEF Early, Late
<1>7. Nat \subseteq Early /\ Nat \subseteq Late
  BY <1>3, <1>4, <1>5, <1>6, SetInduction
<1>8. b - 1 \in Nat /\ b - 1 < b
  BY <1>1
<1>9. ASSUME NEW k \in b..MaxBout
      PROVE  /\ w[k].seat[b] = w[b].seat[b]
             /\ b \in w[k].finished <=> b \in w[b].finished
  <2>1. k - b \in Nat /\ b + (k - b) = k /\ b + (k - b) <= MaxBout
    BY <1>1
  <2>2. k - b \in Late
    BY <1>7, <2>1
  <2> QED BY <2>1, <2>2 DEF Late
<1> QED BY <1>7, <1>8, <1>9 DEF Early

\* What the walk makes of a game, said of the game alone.
LEMMA ResolvedSeats ==
    ASSUME NEW g, GoodGame(g)
    PROVE  LET v == ResolveGameSlots(g)
           IN /\ v \in Walks(g)
              /\ \A b \in Bouts, i \in Seats :
                     /\ DesiredOccupant(v, Source[b][i]) \in {NoTeam, v.seat[b][i]}
                     /\ g.seat[b][i] # NoTeam =>
                            /\ v.seat[b][i] # NoTeam
                            /\ b \in v.finished => v.seat[b][i] = g.seat[b][i]
<1> DEFINE v == ResolveGameSlots(g)
<1>1. PICK w : Walked(w, g)
  BY WalkIsThere
<1>2. /\ MaxBout \in Nat /\ \A k \in 0..MaxBout : w[k] \in Walks(g)
      /\ w[MaxBout] = v
  BY <1>1, BracketAssumption DEF Walked
<1> HIDE DEF v
<1>3. v \in Walks(g)
  BY <1>2
<1>4. ASSUME NEW b \in Bouts, NEW i \in Seats
      PROVE  /\ DesiredOccupant(v, Source[b][i]) \in {NoTeam, v.seat[b][i]}
             /\ g.seat[b][i] # NoTeam =>
                    /\ v.seat[b][i] # NoTeam
                    /\ b \in v.finished => v.seat[b][i] = g.seat[b][i]
  <2> DEFINE u == w[b - 1]
             named == [j \in Seats |-> DesiredOccupant(u, Source[b][j])]
             moved == {j \in Seats : Moves(u.seat[b][j], named[j])}
  <2>1. b \in 1..MaxBout /\ b - 1 \in 0..MaxBout /\ MaxBout \in b..MaxBout
    BY <1>2 DEF Bouts
  <2>2. u \in Walks(g) /\ w[b] = ResolveStageSlots(u, b)
    BY <1>1, <1>2, <2>1 DEF Walked
  <2>3. u.seat[b] = g.seat[b] /\ v.seat[b] = w[b].seat[b]
        /\ (b \in v.finished <=> b \in w[b].finished)
    BY <1>1, <1>2, <2>1, WalkLeaves
  <2>4. /\ w[b].seat[b][i] = IF i \in moved THEN named[i] ELSE u.seat[b][i]
        /\ (\E j \in moved : u.seat[b][j] # NoTeam) => b \notin w[b].finished
    <3> HIDE DEF u
    <3> QED BY <2>2, StageStep
  <2>5. DesiredOccupant(v, Source[b][i]) = DesiredOccupant(u, Source[b][i])
    <3> DEFINE s == Source[b][i]
    <3>1. /\ v.place = g.place /\ v.table = g.table /\ u.place = g.place /\ u.table = g.table
      BY <1>3, <2>2 DEF Walks
    <3>2. CASE s.kind = "from_match"
      <4>1. s.match \in 1..(b - 1)
        BY <3>2, BracketAssumption
      <4>2. s.match \in Bouts /\ b - 1 \in s.match..MaxBout /\ MaxBout \in s.match..MaxBout
        BY <2>1, <4>1 DEF Bouts
      <4>3. s.match \in u.finished <=> s.match \in w[s.match].finished
        BY <1>1, <4>2, WalkLeaves
      <4>4. s.match \in v.finished <=> s.match \in w[s.match].finished
        BY <1>1, <1>2, <4>2, WalkLeaves
      <4> HIDE DEF u
      <4>5. TeamAtMatchPlace(v, s.match, s.place) = TeamAtMatchPlace(u, s.match, s.place)
        BY <3>1, <4>3, <4>4 DEF TeamAtMatchPlace
      <4> QED BY <3>2, <4>5 DEF DesiredOccupant
    <3>3. CASE s.kind # "from_match"
      <4> HIDE DEF u
      <4>1. TeamAtReseedRank(v, s.rank) = TeamAtReseedRank(u, s.rank)
        BY <3>1 DEF TeamAtReseedRank
      <4> QED BY <3>3, <4>1 DEF DesiredOccupant
    <3> QED BY <3>2, <3>3
  <2>6. named[i] = DesiredOccupant(u, Source[b][i])
    OBVIOUS
  <2> HIDE DEF u, named
  <2>7. CASE i \in moved
    <3>1. v.seat[b][i] = named[i] /\ named[i] # NoTeam
      BY <2>3, <2>4, <2>7 DEF Moves
    <3>2. g.seat[b][i] # NoTeam => b \notin v.finished
      BY <2>3, <2>4, <2>7
    <3> QED BY <2>5, <2>6, <3>1, <3>2
  <2>8. CASE i \notin moved
    <3>1. v.seat[b][i] = g.seat[b][i]
      BY <2>3, <2>4, <2>8
    <3>2. named[i] \in {NoTeam, v.seat[b][i]}
      BY <2>3, <2>4, <2>8 DEF Moves
    <3> QED BY <2>5, <2>6, <3>1, <3>2
  <2> QED BY <2>7, <2>8
<1> QED BY <1>3, <1>4 DEF v

-----------------------------------------------------------------------------
LEMMA InitBracket == BracketInit => BracketTypeOK
<1> SUFFICES ASSUME BracketInit PROVE BracketTypeOK
  OBVIOUS
<1>1. \A b \in Bouts, i \in Seats :
          (IF Source[b][i].kind = "seed" THEN Source[b][i].team ELSE NoTeam) \in Teams \cup {NoTeam}
  BY BracketAssumption
<1>2. seat \in [Bouts -> [Seats -> Teams \cup {NoTeam}]]
  BY <1>1 DEF BracketInit
<1>3. table = <<>> /\ Range(table) \subseteq Teams
  BY DEF BracketInit, Range
<1>4. place \in [Bouts -> [Teams -> 0..Cardinality(Seats)]]
  <2>1. 0 \in 0..Cardinality(Seats)
    BY BracketAssumption, FS_CardinalityType
  <2> QED BY <2>1 DEF BracketInit
<1> QED BY <1>2, <1>3, <1>4 DEF BracketInit, BracketTypeOK

LEMMA InitCurrent == BracketInit => SeatsAreCurrent
<1> SUFFICES ASSUME BracketInit, NEW b \in Bouts, NEW i \in Seats
             PROVE  DesiredOccupant(Game, Source[b][i]) = NoTeam
  BY DEF SeatsAreCurrent
<1>1. Game.finished = {} /\ Game.table = <<>>
  BY DEF Game, BracketInit
<1>2. \A k, p : TeamAtMatchPlace(Game, k, p) = NoTeam
  BY <1>1 DEF TeamAtMatchPlace
<1>3. \A rank : TeamAtReseedRank(Game, rank) = NoTeam
  BY <1>1 DEF TeamAtReseedRank
<1> QED BY <1>2, <1>3 DEF DesiredOccupant

\* What a step does to the seats under a result.
KeepsSeats ==
    \A b \in Bouts, i \in Seats : seat[b][i] # NoTeam =>
        /\ seat'[b][i] # NoTeam
        /\ b \in finished' => seat'[b][i] = seat[b][i]

\* A host's write leaves a game g with the seats as they were; the walk follows.
LEMMA WalkFollows ==
    ASSUME NEW g, GoodGame(g), g.seat = seat,
           g.place \in [Bouts -> [Teams -> 0..Cardinality(Seats)]],
           BecomesGame(ResolveGameSlots(g))
    PROVE  BracketTypeOK' /\ SeatsAreCurrent' /\ KeepsSeats
<1> DEFINE v == ResolveGameSlots(g)
<1>1. /\ v \in Walks(g)
      /\ \A b \in Bouts, i \in Seats :
             /\ DesiredOccupant(v, Source[b][i]) \in {NoTeam, v.seat[b][i]}
             /\ seat[b][i] # NoTeam =>
                    /\ v.seat[b][i] # NoTeam
                    /\ b \in v.finished => v.seat[b][i] = seat[b][i]
  BY ResolvedSeats
<1>2. finished' = v.finished /\ seat' = v.seat /\ place' = v.place /\ table' = v.table
  BY DEF BecomesGame
<1> HIDE DEF v
<1>3. v = [finished |-> v.finished, seat |-> v.seat, place |-> v.place, table |-> v.table]
      /\ v.finished \in SUBSET Bouts
      /\ v.seat \in [Bouts -> [Seats -> Teams \cup {NoTeam}]]
      /\ v.place = g.place /\ v.table = g.table
  BY <1>1 DEF Walks
<1>4. Game' = v
  BY <1>2, <1>3 DEF Game
<1>5. BracketTypeOK'
  <2>1. Range(table)' \subseteq Teams
    BY <1>2, <1>3 DEF Range, GoodGame
  <2> QED BY <1>2, <1>3, <2>1 DEF BracketTypeOK
<1>6. SeatsAreCurrent'
  BY <1>1, <1>2, <1>4 DEF SeatsAreCurrent
<1>7. KeepsSeats
  BY <1>1, <1>2 DEF KeepsSeats
<1> QED BY <1>5, <1>6, <1>7

LEMMA ScoresArePlaces ==
    ASSUME BracketTypeOK, NEW b \in Bouts, NEW r \in Results
    PROVE  Scored(b, r) \in [Teams -> 0..Cardinality(Seats)]
<1>1. r \in [Seats -> 1..Cardinality(Seats)] /\ Cardinality(Seats) \in Nat
  BY BracketAssumption, FS_CardinalityType
<1>2. place[b] \in [Teams -> 0..Cardinality(Seats)]
  BY DEF BracketTypeOK
<1>3. ASSUME NEW t \in Teams, \E i \in Seats : seat[b][i] = t
      PROVE  r[CHOOSE i \in Seats : seat[b][i] = t] \in 0..Cardinality(Seats)
  <2>1. (CHOOSE i \in Seats : seat[b][i] = t) \in Seats
    BY <1>3
  <2> QED BY <1>1, <2>1
<1> QED BY <1>2, <1>3 DEF Scored

LEMMA StepBracket ==
    ASSUME BracketTypeOK, BracketNext
    PROVE  BracketTypeOK' /\ SeatsAreCurrent' /\ KeepsSeats
<1>1. /\ finished \subseteq Bouts /\ seat \in [Bouts -> [Seats -> Teams \cup {NoTeam}]]
      /\ place \in [Bouts -> [Teams -> 0..Cardinality(Seats)]]
      /\ \A rank \in DOMAIN table : table[rank] \in Teams
  BY DEF BracketTypeOK, Range
<1>2. ASSUME NEW b \in Bouts, FinishMatch(b)
      PROVE  BracketTypeOK' /\ SeatsAreCurrent' /\ KeepsSeats
  <2>1. PICK r \in Results : BecomesGame(ResolveGameSlots(
            [Game EXCEPT !.finished = @ \cup {b}, !.place[b] = Scored(b, r)]))
    BY <1>2 DEF FinishMatch
  <2> DEFINE g == [Game EXCEPT !.finished = @ \cup {b}, !.place[b] = Scored(b, r)]
  <2>2. Scored(b, r) \in [Teams -> 0..Cardinality(Seats)]
    BY ScoresArePlaces
  <2>3. /\ g.finished = finished \cup {b} /\ g.seat = seat /\ g.table = table
        /\ g.place = [place EXCEPT ![b] = Scored(b, r)]
        /\ g \in [finished : {finished \cup {b}}, seat : {seat},
                  place : {[place EXCEPT ![b] = Scored(b, r)]}, table : {table}]
    BY DEF Game
  <2> HIDE DEF g
  <2>4. g.place \in [Bouts -> [Teams -> 0..Cardinality(Seats)]]
    BY <1>1, <2>2, <2>3
  <2>5. GoodGame(g)
    BY <1>1, <2>3 DEF GoodGame, Walks
  <2>6. BecomesGame(ResolveGameSlots(g))
    BY <2>1 DEF g
  <2> QED BY <2>3, <2>4, <2>5, <2>6, WalkFollows
<1>3. ASSUME NEW b \in Bouts, ReopenMatch(b)
      PROVE  BracketTypeOK' /\ SeatsAreCurrent' /\ KeepsSeats
  <2> DEFINE g == [Game EXCEPT !.finished = @ \ {b}]
  <2>1. /\ g.finished = finished \ {b} /\ g.seat = seat /\ g.table = table /\ g.place = place
        /\ g \in [finished : {finished \ {b}}, seat : {seat}, place : {place}, table : {table}]
    BY DEF Game
  <2>2. BecomesGame(ResolveGameSlots(g))
    BY <1>3 DEF ReopenMatch
  <2> HIDE DEF g
  <2>3. GoodGame(g)
    BY <1>1, <2>1 DEF GoodGame, Walks
  <2> QED BY <1>1, <2>1, <2>2, <2>3, WalkFollows
<1>4. CASE CalculateReseed
  <2>1. PICK order \in SetToSeqs(Contenders) :
            BecomesGame(ResolveGameSlots([Game EXCEPT !.table = order]))
    BY <1>4 DEF CalculateReseed
  <2> DEFINE g == [Game EXCEPT !.table = order]
  <2>2. Contenders \subseteq Teams
    <3> SUFFICES ASSUME NEW from \in Advancing
                 PROVE  TeamAtMatchPlace(Game, from[1], from[2]) \in Teams
      BY DEF Contenders
    <3>1. TeamAtMatchPlace(Game, from[1], from[2]) # NoTeam
      BY <1>4 DEF CalculateReseed, ReseedReady
    <3> DEFINE s == FromMatch(from[1], from[2])
    <3>2. s.kind = "from_match" /\ s.match = from[1] /\ s.place = from[2]
      BY DEF FromMatch
    <3>3. \A rank \in DOMAIN Game.table : Game.table[rank] \in Teams
      BY <1>1 DEF Game
    <3> HIDE DEF s
    <3>4. DesiredOccupant(Game, s) \in Teams \cup {NoTeam}
      BY <3>3, Occupants
    <3>5. DesiredOccupant(Game, s) = TeamAtMatchPlace(Game, from[1], from[2])
      BY <3>2 DEF DesiredOccupant
    <3> QED BY <3>1, <3>4, <3>5
  <2>3. \A rank \in DOMAIN order : order[rank] \in Teams
    BY <2>2 DEF SetToSeqs
  <2>4. /\ g.finished = finished /\ g.seat = seat /\ g.table = order /\ g.place = place
        /\ g \in [finished : {finished}, seat : {seat}, place : {place}, table : {order}]
    BY DEF Game
  <2>5. BecomesGame(ResolveGameSlots(g))
    BY <2>1
  <2> HIDE DEF g
  <2>6. GoodGame(g)
    BY <1>1, <2>3, <2>4 DEF GoodGame, Walks
  <2> QED BY <1>1, <2>4, <2>5, <2>6, WalkFollows
<1> QED BY <1>2, <1>3, <1>4 DEF BracketNext

BracketInv == BracketTypeOK /\ SeatsAreCurrent

\* Every tick, untick and calculation ends in one walk of the resolver over the
\* schedule, after which each seat with a final source has the team it names
\* (domain/resolver: ResolveGameSlots).
THEOREM BracketHolds == BracketSpec => []BracketInv
<1>1. BracketInit => BracketInv
  BY InitBracket, InitCurrent DEF BracketInv
<1>2. BracketInv /\ [BracketNext]_bracketVars => BracketInv'
  <2> SUFFICES ASSUME BracketInv, [BracketNext]_bracketVars PROVE BracketInv'
    OBVIOUS
  <2>1. CASE BracketNext
    BY <2>1, StepBracket DEF BracketInv
  <2>2. CASE UNCHANGED bracketVars
    <3>1. finished' = finished /\ seat' = seat /\ place' = place /\ table' = table
      BY <2>2 DEF bracketVars
    <3>2. Game' = Game
      BY <3>1 DEF Game
    <3> QED BY <3>1, <3>2 DEF BracketInv, BracketTypeOK, SeatsAreCurrent
  <2> QED BY <2>1, <2>2
<1> QED BY <1>1, <1>2, PTL DEF BracketSpec

\* A game keeps its types: the walk seats teams and nothing else.
THEOREM BracketTyped == BracketSpec => []BracketTypeOK
<1>1. BracketInv => BracketTypeOK
  BY DEF BracketInv
<1> QED BY <1>1, BracketHolds, PTL

\* However big the schedule, one walk over it is enough: after every write each
\* seat whose source is final holds the team it names (resolver.go, resolveGame-
\* SlotsWithReseedModeTx walks once).
THEOREM SeatsCurrent == BracketSpec => []SeatsAreCurrent
<1>1. BracketInv => SeatsAreCurrent
  BY DEF BracketInv
<1> QED BY <1>1, BracketHolds, PTL

\* No correction, in any order, swaps a team under a result that stays finished
\* or empties a seat (slotTransition holds or reopens).
THEOREM NoSwap == BracketSpec => NoSwapUnderAResult
<1> DEFINE Holds == \A b \in Bouts, i \in Seats : seat[b][i] # NoTeam =>
                       /\ seat'[b][i] # NoTeam
                       /\ b \in finished \cap finished' => seat'[b][i] = seat[b][i]
<1>1. BracketInv /\ [BracketNext]_bracketVars => [Holds]_bracketVars
  <2>1. BracketInv /\ BracketNext => Holds
    <3>1. BracketInv /\ BracketNext => KeepsSeats
      BY StepBracket DEF BracketInv
    <3> QED BY <3>1 DEF KeepsSeats
  <2> HIDE DEF Holds
  <2> QED BY <2>1
<1>2. BracketSpec => [][Holds]_bracketVars
  <2> HIDE DEF Holds
  <2> QED BY <1>1, BracketHolds, PTL DEF BracketSpec
<1> QED BY <1>2 DEF NoSwapUnderAResult


-----------------------------------------------------------------------------
(***************************************************************************)
(* The services side by side.  Each is its own specification: a part that  *)
(* rests takes steps that leave it alone.  The two feeds of a board have a *)
(* counter in common, so of these only the one that moves is.              *)
(***************************************************************************)
servicesVars == <<which, boardVars, spliffVars, inviteVars, dopeVars, liveVars>>

Feeds == {"cards", "comments", "index"}

LEMMA ServicesStep ==
    ASSUME [Next]_servicesVars
    PROVE  /\ [SyncNext]_syncVars
           /\ [DebtNext]_debtVars
           /\ [GroupNext]_groupVars
           /\ [InviteNext]_inviteVars
           /\ [OutboxNext]_outboxVars
           /\ [BracketNext]_bracketVars
           /\ [ViewersNext]_viewerVars
           /\ [HostNext]_hostPresenceVars
           /\ [SnapshotsNext]_snapshotVars
           /\ which = "cards" => [CardsNext]_<<revVars, cardsVars>>
           /\ which = "comments" => [CommentsNext]_<<revVars, commentsVars>>
           /\ which = "index" => [IndexNext]_<<revVars, commentsVars>>
           /\ which' = which
<1> USE DEF servicesVars, boardVars, spliffVars, dopeVars, liveVars
<1>1. CASE UNCHANGED servicesVars
  BY <1>1
<1>2. CASE Next
  BY <1>2 DEF Next
<1> QED BY <1>1, <1>2

LEMMA ServicesInit ==
    ASSUME Init
    PROVE  /\ which \in Feeds \cup {"sync", "debts", "group", "invites", "outbox", "bracket",
                                  "viewers", "hosts", "snapshots"}
           /\ CardsInit /\ CommentsInit /\ SyncInit /\ DebtInit /\ GroupInit /\ InviteInit
           /\ OutboxInit /\ BracketInit /\ ViewersInit /\ HostInit /\ SnapshotsInit
BY DEF Init, Feeds

LEMMA ServicesRun == Spec => [][Next]_servicesVars
BY DEF Spec, servicesVars

\* Whichever service moves, the nine that share no counter run as specified.
THEOREM ServicesImplement ==
    Spec => /\ SyncSpec /\ DebtSpec /\ GroupSpec /\ InviteSpec /\ OutboxSpec /\ BracketSpec
            /\ ViewersSpec /\ HostSpec /\ SnapshotsSpec
<1>1. Spec => SyncSpec
  <2>1. [Next]_servicesVars => [SyncNext]_syncVars
    BY ServicesStep
  <2>2. Init => SyncInit
    BY ServicesInit
  <2> QED BY <2>1, <2>2, ServicesRun, PTL DEF Spec, SyncSpec
<1>2. Spec => DebtSpec
  <2>1. [Next]_servicesVars => [DebtNext]_debtVars
    BY ServicesStep
  <2>2. Init => DebtInit
    BY ServicesInit
  <2> QED BY <2>1, <2>2, ServicesRun, PTL DEF Spec, DebtSpec
<1>3. Spec => GroupSpec
  <2>1. [Next]_servicesVars => [GroupNext]_groupVars
    BY ServicesStep
  <2>2. Init => GroupInit
    BY ServicesInit
  <2> QED BY <2>1, <2>2, ServicesRun, PTL DEF Spec, GroupSpec
<1>4. Spec => InviteSpec
  <2>1. [Next]_servicesVars => [InviteNext]_inviteVars
    BY ServicesStep
  <2>2. Init => InviteInit
    BY ServicesInit
  <2> QED BY <2>1, <2>2, ServicesRun, PTL DEF Spec, InviteSpec
<1>5. Spec => OutboxSpec
  <2>1. [Next]_servicesVars => [OutboxNext]_outboxVars
    BY ServicesStep
  <2>2. Init => OutboxInit
    BY ServicesInit
  <2> QED BY <2>1, <2>2, ServicesRun, PTL DEF Spec, OutboxSpec
<1>6. Spec => BracketSpec
  <2>1. [Next]_servicesVars => [BracketNext]_bracketVars
    BY ServicesStep
  <2>2. Init => BracketInit
    BY ServicesInit
  <2> QED BY <2>1, <2>2, ServicesRun, PTL DEF Spec, BracketSpec
<1>7. Spec => ViewersSpec
  <2>1. [Next]_servicesVars => [ViewersNext]_viewerVars
    BY ServicesStep
  <2>2. Init => ViewersInit
    BY ServicesInit
  <2> QED BY <2>1, <2>2, ServicesRun, PTL DEF Spec, ViewersSpec
<1>8. Spec => HostSpec
  <2>1. [Next]_servicesVars => [HostNext]_hostPresenceVars
    BY ServicesStep
  <2>2. Init => HostInit
    BY ServicesInit
  <2> QED BY <2>1, <2>2, ServicesRun, PTL DEF Spec, HostSpec
<1>9. Spec => SnapshotsSpec
  <2>1. [Next]_servicesVars => [SnapshotsNext]_snapshotVars
    BY ServicesStep
  <2>2. Init => SnapshotsInit
    BY ServicesInit
  <2> QED BY <2>1, <2>2, ServicesRun, PTL DEF Spec, SnapshotsSpec
<1> QED BY <1>1, <1>2, <1>3, <1>4, <1>5, <1>6, <1>7, <1>8, <1>9

\* The feed of the cards, when it is the one that moves.
LEMMA CardsMove == Spec => (which = "cards" => CardsSpec)
<1>1. [Next]_servicesVars /\ which = "cards" => [CardsNext]_<<revVars, cardsVars>> /\ (which = "cards")'
  BY ServicesStep
<1>2. Init => CardsInit
  BY ServicesInit
<1> QED BY <1>1, <1>2, ServicesRun, PTL DEF Spec, CardsSpec

\* The feed of the comments, when it is the one that moves.
LEMMA CommentsMove == Spec => (which = "comments" => CommentsSpec)
<1>1. [Next]_servicesVars /\ which = "comments" => [CommentsNext]_<<revVars, commentsVars>> /\ (which = "comments")'
  BY ServicesStep
<1>2. Init => CommentsInit
  BY ServicesInit
<1> QED BY <1>1, <1>2, ServicesRun, PTL DEF Spec, CommentsSpec

\* The feed of the comments with a device, when it is the one that moves.
LEMMA IndexMove == Spec => (which = "index" => IndexSpec)
<1>1. [Next]_servicesVars /\ which = "index" => [IndexNext]_<<revVars, commentsVars>> /\ (which = "index")'
  BY ServicesStep
<1>2. Init => CommentsInit
  BY ServicesInit
<1> QED BY <1>1, <1>2, ServicesRun, PTL DEF Spec, IndexSpec

LEMMA WhichIsOne ==
    Spec => [](which \in Feeds \cup {"sync", "debts", "group", "invites", "outbox", "bracket",
                                     "viewers", "hosts", "snapshots"})
<1> DEFINE One == which \in Feeds \cup {"sync", "debts", "group", "invites", "outbox", "bracket",
                                        "viewers", "hosts", "snapshots"}
<1>1. Init => One
  BY ServicesInit
<1>2. One /\ [Next]_servicesVars => One'
  BY ServicesStep
<1> HIDE DEF One
<1>3. Spec => []One
  BY <1>1, <1>2, ServicesRun, PTL DEF Spec
<1> QED BY <1>3 DEF One

\* A feed that moves keeps what its specification keeps.
LEMMA FeedsHold ==
    Spec => []/\ which = "cards" => BoardTypeOK /\ DeltaReadsAsFull
              /\ which = "comments" => CommentsTypeOK /\ RepliesHaveTheirRoot
              /\ which = "index" => CommentsTypeOK /\ CommentIndexReadsAsServer
<1>1. Spec => [](which = "cards" => BoardTypeOK /\ DeltaReadsAsFull)
  <2>1. [Next]_servicesVars /\ ~(which = "cards") => (~(which = "cards"))'
    BY ServicesStep
  <2> QED BY <2>1, CardsMove, TypeCorrect, DeltaIsTheBoard, ServicesRun, PTL
<1>2. Spec => [](which = "comments" => CommentsTypeOK /\ RepliesHaveTheirRoot)
  <2>1. [Next]_servicesVars /\ ~(which = "comments") => (~(which = "comments"))'
    BY ServicesStep
  <2> QED BY <2>1, CommentsMove, CommentsTyped, RootsStay, ServicesRun, PTL
<1>3. Spec => [](which = "index" => CommentsTypeOK /\ CommentIndexReadsAsServer)
  <2>1. [Next]_servicesVars /\ ~(which = "index") => (~(which = "index"))'
    BY ServicesStep
  <2> QED BY <2>1, IndexMove, IndexTyped, IndexReadsAsServer, ServicesRun, PTL
<1> QED BY <1>1, <1>2, <1>3, PTL

\* Every variable of every service has its type in the service that moves, each a
\* process of its own over tables of its own.
THEOREM ServicesTyped == Spec => []TypesOK
<1> DEFINE Ours ==
             /\ SyncTypeOK /\ DebtTypeOK /\ GroupTypeOK /\ InviteTypeOK /\ OutboxTypeOK
             /\ BracketTypeOK /\ ViewersTypeOK /\ HostTypeOK /\ SnapshotsTypeOK
           Feed == /\ which = "cards" => BoardTypeOK /\ DeltaReadsAsFull
                   /\ which = "comments" => CommentsTypeOK /\ RepliesHaveTheirRoot
                   /\ which = "index" => CommentsTypeOK /\ CommentIndexReadsAsServer
           One == which \in Feeds \cup {"sync", "debts", "group", "invites", "outbox", "bracket",
                                        "viewers", "hosts", "snapshots"}
<1>1. Spec => []Ours
  BY ServicesImplement, SyncTyped, DebtTyped, GroupTyped, InviteTyped, OutboxTyped,
     BracketTyped, ViewersTyped, HostTyped, SnapshotsTyped, PTL
<1>2. Ours /\ Feed /\ One => TypesOK
  <2> SUFFICES ASSUME Ours, Feed, One PROVE TypesOK
    OBVIOUS
  <2>1. CASE which = "cards"
    BY <2>1 DEF TypesOK
  <2>2. CASE which = "comments"
    BY <2>2 DEF TypesOK
  <2>3. CASE which = "index"
    BY <2>3 DEF TypesOK
  <2>4. CASE which = "sync"
    BY <2>4 DEF TypesOK
  <2>5. CASE which = "debts"
    BY <2>5 DEF TypesOK
  <2>6. CASE which = "group"
    BY <2>6 DEF TypesOK
  <2>7. CASE which = "invites"
    BY <2>7 DEF TypesOK
  <2>8. CASE which = "outbox"
    BY <2>8 DEF TypesOK
  <2>9. CASE which = "bracket"
    BY <2>9 DEF TypesOK
  <2>10. CASE which = "viewers"
    BY <2>10 DEF TypesOK
  <2>11. CASE which = "hosts"
    BY <2>11 DEF TypesOK
  <2>12. CASE which = "snapshots"
    BY <2>12 DEF TypesOK
  <2> QED BY <2>1, <2>2, <2>3, <2>4, <2>5, <2>6, <2>7, <2>8, <2>9, <2>10, <2>11, <2>12 DEF Feeds
<1>3. Spec => []Feed
  BY FeedsHold
<1>4. Spec => []One
  BY WhichIsOne
<1> HIDE DEF Ours, Feed, One
<1> QED BY <1>1, <1>2, <1>3, <1>4, PTL

\* Each promise of a service is kept next to the others: nothing one of them does
\* reaches the tables another's promise is about.
THEOREM ServicesHold ==
    Spec => /\ []/\ which = "cards" => DeltaReadsAsFull
                 /\ which = "comments" => RepliesHaveTheirRoot
                 /\ which = "index" => CommentIndexReadsAsServer
                 /\ QueuedOpsAreKept /\ EditsFollowTheirCreate /\ NewestEditStays
                 /\ BalancesAreFair /\ SettlesInFewLines /\ LiveBillsNameMembers /\ OneRowEach
                 /\ SeatsWithinCap /\ OutboxArrives /\ SeatsAreCurrent /\ FinalCountIsShown
            /\ AnswersAreFinal /\ NoSwapUnderAResult /\ SnapshotNeverOlder
<1>1. Spec => []/\ QueuedOpsAreKept /\ EditsFollowTheirCreate /\ NewestEditStays
                /\ BalancesAreFair /\ SettlesInFewLines
  BY ServicesImplement, NoOpIsLost, EditsFollow, NewestStays, BalancesFair, FewLines, PTL
<1>2. Spec => []/\ LiveBillsNameMembers /\ OneRowEach /\ SeatsWithinCap /\ OutboxArrives
                /\ SeatsAreCurrent /\ FinalCountIsShown
  BY ServicesImplement, BillsNameMembers, OneRow, WithinCap, VenueArrives, SeatsCurrent,
     CountIsShown, PTL
<1>3. Spec => AnswersAreFinal /\ NoSwapUnderAResult /\ SnapshotNeverOlder
  BY ServicesImplement, AnswersStand, NoSwap, NeverOlder
<1> QED BY <1>1, <1>2, <1>3, FeedsHold, PTL

================================================================================
