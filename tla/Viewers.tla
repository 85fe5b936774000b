------------------------------- MODULE Viewers -------------------------------
(***************************************************************************)
(* The streams of one fest (dope/platform/realtime/manager.go, with        *)
(* handleEvents and pumpSSE of server/main.go and setStatic of             *)
(* server/static_mode.go): who is in the subscriber table, what is queued  *)
(* for them, how many of them each game is told are watching, and the      *)
(* lockdown that sheds them.                                               *)
(*                                                                         *)
(* A stream is one connection and one channel: a browser that connects     *)
(* again is another stream.  subMu is held for a write only while the      *)
(* table changes, and for a read by a whole fan-out of the tally and of    *)
(* the lockdown, so those are atomic; BroadcastTo lets it go before it     *)
(* sends.  A channel that is full loses its oldest event; what else two    *)
(* senders at once can make it lose is not told apart.                     *)
(***************************************************************************)
EXTENDS Naturals, Sequences, FiniteSets

CONSTANTS Streams,      \* connections that are ever made
          Editors,      \* those of the fest's organizers
          GameOf,       \* stream -> the game it names, or 0
          Buffer,       \* viewerEventBuffer
          MaxFanned,    \* events of the feed
          MaxFlips      \* changes of the mode

ASSUME ViewersAssumption ==
    /\ IsFiniteSet(Streams) /\ Editors \subseteq Streams
    /\ Buffer \in Nat \ {0} /\ MaxFanned \in Nat /\ MaxFlips \in Nat

VARIABLES standing,     \* where a stream's handler stands
          chan,         \* its channel
          tally,        \* the count its page shows; 0 before the first
          spilled,      \* streams whose channel has been full
          mode,         \* [static, sentinel]: the sentinel is yet to be sent
          flips,
          listed,       \* streams a BroadcastTo has still to send to
          fanned,
          quiet,        \* viewerCountInterval has passed since viewerCountAt
          timer,        \* viewerCountTimer is set
          telling       \* BroadcastViewerCounts that are to run

tallyVars == <<quiet, timer, telling>>
modeVars == <<mode, flips>>
fanVars == <<listed, fanned>>
streamVars == <<standing, chan, tally, spilled>>
viewerVars == <<streamVars, modeVars, fanVars, tallyVars>>

Places == {"out", "admitted", "added", "on", "leaving", "removed", "over"}
Count(n) == [name |-> "viewers", count |-> n]
State == [name |-> "state", count |-> 0]
Lockdown == [name |-> "lockdown", count |-> 0]

ViewersTypeOK ==
    /\ standing \in [Streams -> Places]
    /\ \A s \in Streams : Len(chan[s]) <= Buffer
    /\ tally \in [Streams -> 0..Cardinality(Streams)] /\ spilled \subseteq Streams
    /\ mode \in [static : BOOLEAN, sentinel : BOOLEAN] /\ flips \in 0..MaxFlips
    /\ listed \subseteq Streams /\ fanned \in 0..MaxFanned
    /\ quiet \in BOOLEAN /\ timer \in BOOLEAN /\ telling \in Nat

\* The subscriber table.
Subscribers == {s \in Streams : standing[s] \in {"added", "on", "leaving"}}

\* Spectators of the game a stream names; an editor takes part and is not one.
Watching(s) == Cardinality({v \in Subscribers \ Editors : GameOf[v] = GameOf[s]})

\* sendDropOldest.
SendDropOldest(queue, ev) == Append(IF Len(queue) = Buffer THEN Tail(queue) ELSE queue, ev)

\* One fan-out: ev[s] to each stream of its domain.
FanOut(ev) ==
    /\ chan' = [s \in Streams |->
                   IF s \in DOMAIN ev THEN SendDropOldest(chan[s], ev[s]) ELSE chan[s]]
    /\ spilled' = spilled \cup {s \in DOMAIN ev : Len(chan[s]) = Buffer}
    /\ UNCHANGED <<standing, tally>>

ViewersInit ==
    /\ standing = [s \in Streams |-> "out"]
    /\ chan = [s \in Streams |-> <<>>]
    /\ tally = [s \in Streams |-> 0] /\ spilled = {}
    /\ mode = [static |-> FALSE, sentinel |-> FALSE] /\ flips = 0
    /\ listed = {} /\ fanned = 0
    /\ quiet = TRUE /\ timer = FALSE /\ telling = 0

-----------------------------------------------------------------------------
(* The tally's throttle. *)

\* Mutant of ScheduleViewerCount: a change during the cooldown is left to the next.
ScheduleViewerCount_LeadingOnly ==
    IF quiet
    THEN quiet' = FALSE /\ telling' = telling + 1 /\ UNCHANGED timer
    ELSE UNCHANGED tallyVars

\* The first change after a quiet period is told at once, the others by one
\* timer at the end of the window.
ScheduleViewerCount ==
    IF quiet
    THEN quiet' = FALSE /\ telling' = telling + 1 /\ UNCHANGED timer
    ELSE timer' = TRUE /\ UNCHANGED <<quiet, telling>>

Cool ==
    /\ ~quiet /\ quiet' = TRUE
    /\ UNCHANGED <<streamVars, modeVars, fanVars, timer, telling>>

\* The timer's callback up to its unlock.
TimerFires ==
    /\ timer
    /\ timer' = FALSE /\ quiet' = FALSE /\ telling' = telling + 1
    /\ UNCHANGED <<streamVars, modeVars, fanVars>>

BroadcastViewerCount ==
    /\ telling > 0 /\ telling' = telling - 1
    /\ FanOut([s \in Subscribers |-> Count(Watching(s))])
    /\ UNCHANGED <<modeVars, fanVars, quiet, timer>>

-----------------------------------------------------------------------------
(* handleEvents. *)

MovesTo(s, from, to) == standing[s] = from /\ standing' = [standing EXCEPT ![s] = to]

\* The mode is looked at before the stream is in the table.
AdmitViewer(s) ==
    /\ MovesTo(s, "out", "admitted")
    /\ mode.static => s \in Editors
    /\ UNCHANGED <<chan, tally, spilled, modeVars, fanVars, tallyVars>>

AddSubscriber(s) ==
    /\ MovesTo(s, "admitted", "added")
    /\ UNCHANGED <<chan, tally, spilled, modeVars, fanVars, tallyVars>>

\* SseConns and the tally follow, and the pump starts.
StartPump(s) ==
    /\ MovesTo(s, "added", "on")
    /\ ScheduleViewerCount
    /\ UNCHANGED <<chan, tally, spilled, modeVars, fanVars>>

\* An event is written to the page; the sentinel ends the stream instead.
PumpEvent(s) ==
    /\ standing[s] = "on" /\ chan[s] # <<>>
    /\ LET ev == Head(chan[s])
       IN /\ chan' = [chan EXCEPT ![s] = Tail(@)]
          /\ tally' = [tally EXCEPT ![s] = IF ev.name = "viewers" THEN ev.count ELSE @]
          /\ standing' = [standing EXCEPT ![s] = IF ev.name = "lockdown" THEN "leaving" ELSE @]
    /\ UNCHANGED <<spilled, modeVars, fanVars, tallyVars>>

\* The client goes away, or a write misses its deadline.
PumpEnds(s) ==
    /\ MovesTo(s, "on", "leaving")
    /\ UNCHANGED <<chan, tally, spilled, modeVars, fanVars, tallyVars>>

\* Nobody reads the channel any more, whatever is still sent to it.
RemoveSubscriber(s) ==
    /\ MovesTo(s, "leaving", "removed")
    /\ chan' = [chan EXCEPT ![s] = <<>>] /\ tally' = [tally EXCEPT ![s] = 0]
    /\ spilled' = spilled \ {s}
    /\ UNCHANGED <<modeVars, fanVars, tallyVars>>

HandlerEnds(s) ==
    /\ MovesTo(s, "removed", "over")
    /\ ScheduleViewerCount
    /\ UNCHANGED <<chan, tally, spilled, modeVars, fanVars>>

-----------------------------------------------------------------------------
(* The feed's events, and the lockdown. *)

\* BroadcastTo lists its audience under the lock ...
BroadcastTo(audience) ==
    /\ listed = {} /\ fanned < MaxFanned /\ fanned' = fanned + 1
    /\ listed' = Subscribers \cap audience
    /\ UNCHANGED <<streamVars, modeVars, tallyVars>>

\* ... and sends after it: to a channel that has left the table, too.
SendListed(s) ==
    /\ s \in listed /\ listed' = listed \ {s}
    /\ FanOut([t \in {s} \cap Subscribers |-> State])
    /\ UNCHANGED <<modeVars, fanned, tallyVars>>

\* runStaticEval is one goroutine: a flip has told the viewers before the next.
FlipStatic ==
    /\ ~mode.sentinel /\ flips < MaxFlips /\ flips' = flips + 1
    /\ mode' = [static |-> ~mode.static, sentinel |-> ~mode.static]
    /\ UNCHANGED <<streamVars, fanVars, tallyVars>>

BroadcastLockdown ==
    /\ mode.sentinel /\ mode' = [mode EXCEPT !.sentinel = FALSE]
    /\ FanOut([s \in Subscribers \ Editors |-> Lockdown])
    /\ UNCHANGED <<flips, fanVars, tallyVars>>

HandleStream(s) ==
    \/ AdmitViewer(s) \/ AddSubscriber(s) \/ StartPump(s) \/ PumpEvent(s)
    \/ PumpEnds(s) \/ RemoveSubscriber(s) \/ HandlerEnds(s)

ViewersNext ==
    \/ \E s \in Streams : HandleStream(s) \/ SendListed(s)
    \/ Cool \/ TimerFires \/ BroadcastViewerCount
    \/ \E audience \in {Streams, Editors, Streams \ Editors} : BroadcastTo(audience)
    \/ FlipStatic \/ BroadcastLockdown

ViewersSpec == ViewersInit /\ [][ViewersNext]_viewerVars

-----------------------------------------------------------------------------
(* Properties. *)

\* Nobody is about to schedule or to tell a tally.
TallyAtRest ==
    /\ telling = 0 /\ ~timer
    /\ \A s \in Streams : standing[s] \notin {"added", "removed"}

\* "Eventual consistency is guaranteed: the trailing timer always sends the final
\* count" (manager.go:166-167): however connections churn around the throttle,
\* once it is at rest each page whose channel was never full and is empty shows
\* how many watch its game.
FinalCountIsShown ==
    TallyAtRest =>
        \A s \in Streams \ spilled :
            standing[s] = "on" /\ chan[s] = <<>> => tally[s] = Watching(s)

=============================================================================
