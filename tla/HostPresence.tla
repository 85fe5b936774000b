----------------------------- MODULE HostPresence -----------------------------
(***************************************************************************)
(* The hosts' cursors (dope/platform/realtime/manager.go with              *)
(* handleHostEvents of server/main.go and hostPresence of                  *)
(* server/routes_api.go): each host's page holds a stream, and moving the  *)
(* cursor is a POST whose handler sends it to every stream of the fest.    *)
(*                                                                         *)
(* Sends never block and are lost when nobody reads, so what is queued is  *)
(* left out; a channel is there, in the table or not, or closed.  A send   *)
(* on a closed channel panics, and net/http ends the POST.                 *)
(***************************************************************************)
EXTENDS Naturals, FiniteSets

CONSTANTS HostStreams,  \* connections that are ever made
          Posters,      \* hosts whose cursors move
          MaxPosts      \* POSTs each of them makes

ASSUME HostAssumption == IsFiniteSet(HostStreams) /\ MaxPosts \in Nat

VARIABLES channel,      \* stream -> "none", "table", "deleted", "closed"
          toSend,       \* poster -> streams its POST has still to send to
          posts,        \* poster -> POSTs made
          panicked      \* those whose POST died of a send

hostPresenceVars == <<channel, toSend, posts, panicked>>

HostTypeOK ==
    /\ channel \in [HostStreams -> {"none", "table", "deleted", "closed"}]
    /\ toSend \in [Posters -> SUBSET HostStreams]
    /\ posts \in [Posters -> 0..MaxPosts] /\ panicked \subseteq Posters

HostInit ==
    /\ channel = [c \in HostStreams |-> "none"]
    /\ toSend = [m \in Posters |-> {}]
    /\ posts = [m \in Posters |-> 0] /\ panicked = {}

AddHostSubscriber(c) ==
    /\ channel[c] = "none"
    /\ channel' = [channel EXCEPT ![c] = "table"]
    /\ UNCHANGED <<toSend, posts, panicked>>

\* RemoveHostSubscriber, once the pump has ended: out of the table ...
RemoveHostSubscriber(c) ==
    /\ channel[c] = "table"
    /\ channel' = [channel EXCEPT ![c] = "deleted"]
    /\ UNCHANGED <<toSend, posts, panicked>>

\* ... and closed, after the unlock.
CloseChannel(c) ==
    /\ channel[c] = "deleted"
    /\ channel' = [channel EXCEPT ![c] = "closed"]
    /\ UNCHANGED <<toSend, posts, panicked>>

\* BroadcastHostPresence lists the channels under the lock ...
ListChannels(m) ==
    /\ toSend[m] = {} /\ posts[m] < MaxPosts
    /\ toSend' = [toSend EXCEPT ![m] = {c \in HostStreams : channel[c] = "table"}]
    /\ posts' = [posts EXCEPT ![m] = @ + 1]
    /\ UNCHANGED <<channel, panicked>>

\* ... and sends after it (sendHostDropOldest).
SendPresence(m, c) ==
    /\ c \in toSend[m]
    /\ IF channel[c] = "closed"
       THEN toSend' = [toSend EXCEPT ![m] = {}] /\ panicked' = panicked \cup {m}
       ELSE toSend' = [toSend EXCEPT ![m] = @ \ {c}] /\ UNCHANGED panicked
    /\ UNCHANGED <<channel, posts>>

HostNext ==
    \/ \E c \in HostStreams :
           AddHostSubscriber(c) \/ RemoveHostSubscriber(c) \/ CloseChannel(c)
    \/ \E m \in Posters : ListChannels(m) \/ \E c \in HostStreams : SendPresence(m, c)

HostSpec == HostInit /\ [][HostNext]_hostPresenceVars

\* "Closing is safe here ...: host-presence is never sent from a detached timer, so
\* there is no concurrent post-lock send to race" (manager.go:241-242): no send
\* finds its channel closed.
NoSendOnClosed == panicked = {}

=============================================================================
