---------------------------- MODULE BoardComments ----------------------------
(***************************************************************************)
(* The comments of one board of xy, the Test Sessions some of them came    *)
(* out of, the reaper, and the Search Index a device keeps of them.        *)
(*                                                                         *)
(* A comment hangs off a card, answers at most one root on the same card,  *)
(* and may be tagged with a session; a note hangs off a session alone.     *)
(* internal/server/comments.go and sessions.go change them, the triggers   *)
(* of db.go number the changes, reap.go destroys what has expired and the  *)
(* foreign keys of db.go destroy more.  A handler's checks come before its *)
(* transaction, as in BoardCards: asked is such a handler.                 *)
(***************************************************************************)
EXTENDS BoardRev

CONSTANTS
    MaxSession,     \* bound on the sessions, from 1
    MaxEvent,       \* bound on the ids of timeline_events, from 1
    Blank,          \* the text of a deleted comment
    NoComment,      \* a comment the index does not have
    Kept            \* a comment an answer says nothing of

ASSUME CommentBounds == MaxSession \in Nat /\ MaxEvent \in Nat

SessionIds == 1..MaxSession
EventIds == 1..MaxEvent
None == 0       \* a null card_id, session_id or reply_to_id

VARIABLES
    homes,      \* table cards: st, day, rev
    sessions,   \* table test_sessions: st, day
    events,     \* table timeline_events, its comments
    lastId,     \* its AUTOINCREMENT sequence
    asked,      \* a request admitted and not yet in its transaction
    page,       \* the cards in the board page's state
    index,      \* the Search Index: the comments and commentsRev
    answer,     \* a refreshComments whose answer is on its way
    swept,      \* comments destroyed before they expired, by a cascade (history)
    dropped     \* comments of a live card that putCards dropped (history)

deviceVars == <<page, index, answer, dropped>>
tableVars == <<homes, sessions, events, lastId, swept>>
commentsVars == <<tableVars, asked, deviceVars>>

HomeRows == [st : {"none", "live", "dead"}, day : Nat, rev : Nat]
SessionRows == [st : {"none", "live", "dead"}, day : Nat]
EventRows == [st : {"none", "live", "dead"}, day : Nat,
              card : CardIds \cup {None}, sess : SessionIds \cup {None},
              root : EventIds \cup {None}, text : Texts \cup {Blank}, rev : Nat]
IndexedComments == [card : CardIds, text : Texts]

ASSUME AnswerWords == NoComment # Kept /\ Kept \notin IndexedComments

CommentRequests ==
         [op : {"add"}, card : CardIds, root : EventIds \cup {None},
          sess : SessionIds \cup {None}, text : Texts]
    \cup [op : {"edit"}, event : EventIds, text : Texts]
    \cup [op : {"tag"}, event : EventIds, sess : SessionIds \cup {None}]
    \cup [op : {"delete"}, event : EventIds]
    \cup [op : {"note"}, sess : SessionIds, text : Texts]
    \cup [op : {"deleteSession"}, sess : SessionIds]
    \cup [op : {"deleteHome"}, card : CardIds]

CommentsTypeOK ==
    /\ RevTypeOK
    /\ homes \in [CardIds -> HomeRows]
    /\ sessions \in [SessionIds -> SessionRows]
    /\ events \in [EventIds -> EventRows]
    /\ lastId \in 0..MaxEvent
    /\ asked \in CommentRequests \cup {NoRequest}
    /\ page \subseteq CardIds
    /\ index \in [rev : Nat \cup {Full},
                  comments : [EventIds -> IndexedComments \cup {NoComment}]]
    /\ answer = NoRequest \/ answer \in
            [since : Nat \cup {Full}, rev : Nat,
             comments : [EventIds -> IndexedComments \cup {NoComment, Kept}]]
    /\ swept \subseteq EventIds
    /\ dropped \subseteq EventIds

-----------------------------------------------------------------------------
\* Handlers.

NoEvent == [st |-> "none", day |-> 0, card |-> None, sess |-> None, root |-> None,
            text |-> Blank, rev |-> 0]

IsRoot(e) == Present(events[e]) /\ events[e].root = None

\* What a handler asks outside its transaction.  A reply names the root that
\* threadRoot resolves it to, deleted or not.  requireComment reads card_id
\* into a plain int64, so a note is never found.
CommentAdmitted(q) ==
    CASE q.op = "add" ->
            /\ homes[q.card].st = "live"
            /\ q.root # None => IsRoot(q.root) /\ events[q.root].card = q.card
            /\ q.sess # None => sessions[q.sess].st = "live"
      [] q.op \in {"edit", "delete"} ->
            events[q.event].st = "live" /\ events[q.event].card # None
      [] q.op = "tag" ->
            /\ events[q.event].st = "live" /\ events[q.event].card # None
            /\ q.sess # None => sessions[q.sess].st = "live"
      [] q.op \in {"note", "deleteSession"} -> sessions[q.sess].st = "live"
      [] q.op = "deleteHome" -> homes[q.card].st = "live"

\* What the transaction itself asks: the foreign keys of the row it writes, a
\* row to update, a live row to put a tombstone on.
CommentTakes(q) ==
    CASE q.op = "add" ->
            /\ lastId < MaxEvent
            /\ Present(homes[q.card])
            /\ q.root # None => Present(events[q.root])
            /\ q.sess # None => Present(sessions[q.sess])
      [] q.op = "edit" -> Present(events[q.event])
      [] q.op = "tag" ->
            /\ Present(events[q.event])
            /\ q.sess # None => Present(sessions[q.sess])
      [] q.op = "delete" -> events[q.event].st = "live"
      [] q.op = "note" -> lastId < MaxEvent /\ Present(sessions[q.sess])
      [] q.op = "deleteSession" -> sessions[q.sess].st = "live"
      [] q.op = "deleteHome" -> homes[q.card].st = "live"

\* handleAddComment; each comment of a handleImportEvents.
AddComment(q) ==
    /\ lastId' = lastId + 1
    /\ rev' = rev + 1
    /\ events' = [events EXCEPT ![lastId'] =
            [NoEvent EXCEPT !.st = "live", !.card = q.card, !.root = q.root,
                            !.sess = q.sess, !.text = q.text, !.rev = rev']]
    /\ UNCHANGED <<homes, sessions, swept>>

\* handlePatchComment with a payload: an UPDATE by id, whatever the row is by
\* now.
EditComment(q) ==
    /\ rev' = rev + 1
    /\ events' = [events EXCEPT ![q.event].text = q.text, ![q.event].rev = rev']
    /\ UNCHANGED <<homes, sessions, lastId, swept>>

\* handlePatchComment with a session: no trigger names session_id.
TagComment(q) ==
    /\ events' = [events EXCEPT ![q.event].sess = q.sess]
    /\ UNCHANGED <<rev, homes, sessions, lastId, swept>>

\* handleDeleteComment: the text is scrubbed.
DeleteComment(q) ==
    /\ rev' = rev + 1
    /\ events' = [events EXCEPT ![q.event] =
            [Tombstone(@) EXCEPT !.text = Blank, !.rev = rev']]
    /\ UNCHANGED <<homes, sessions, lastId, swept>>

\* handleAddSessionComment: no trigger numbers a row with no card.
AddNote(q) ==
    /\ lastId' = lastId + 1
    /\ events' = [events EXCEPT ![lastId'] =
            [NoEvent EXCEPT !.st = "live", !.sess = q.sess, !.text = q.text]]
    /\ UNCHANGED <<rev, homes, sessions, swept>>

\* handleDeleteSession: its tombstone, and one for each of its live notes.
DeleteSession(q) ==
    LET notes == {e \in EventIds : events[e].st = "live" /\ events[e].sess = q.sess
                                   /\ events[e].card = None}
    IN /\ sessions' = [sessions EXCEPT ![q.sess] = Tombstone(@)]
       /\ rev' = IF notes = {} THEN rev ELSE rev + 1
       /\ events' = [e \in EventIds |->
                IF e \in notes THEN [Tombstone(events[e]) EXCEPT !.rev = rev']
                ELSE events[e]]
       /\ UNCHANGED <<homes, lastId, swept>>

\* handleDeleteCard.
DeleteHome(q) ==
    /\ rev' = rev + 1
    /\ homes' = [homes EXCEPT ![q.card] = [Tombstone(@) EXCEPT !.rev = rev']]
    /\ UNCHANGED <<sessions, events, lastId, swept>>

CommentWrites(q) ==
    \/ q.op = "add" /\ AddComment(q)
    \/ q.op = "edit" /\ EditComment(q)
    \/ q.op = "tag" /\ TagComment(q)
    \/ q.op = "delete" /\ DeleteComment(q)
    \/ q.op = "note" /\ AddNote(q)
    \/ q.op = "deleteSession" /\ DeleteSession(q)
    \/ q.op = "deleteHome" /\ DeleteHome(q)

\* A handler whose transaction follows its checks at once.
HandleComment(q) ==
    /\ CommentAdmitted(q) /\ CommentTakes(q)
    /\ CommentWrites(q)
    /\ UNCHANGED <<reapedRev, today, asked, deviceVars>>

\* A handler is admitted and waits for the write lock.
AdmitComment(q) ==
    /\ asked = NoRequest
    /\ CommentAdmitted(q)
    /\ asked' = q
    /\ UNCHANGED <<revVars, tableVars, deviceVars>>

\* It has the lock: it writes, or finds nothing to write or an error.
CommitComment ==
    /\ asked # NoRequest
    /\ IF CommentTakes(asked)
       THEN CommentWrites(asked)
       ELSE UNCHANGED <<rev, tableVars>>
    /\ asked' = NoRequest
    /\ UNCHANGED <<reapedRev, today, deviceVars>>

\* A card is created.
CreateHome(c) ==
    /\ homes[c].st = "none"
    /\ rev' = rev + 1
    /\ homes' = [homes EXCEPT ![c] = [st |-> "live", day |-> 0, rev |-> rev']]
    /\ UNCHANGED <<reapedRev, today, sessions, events, lastId, swept, asked, deviceVars>>

-----------------------------------------------------------------------------
\* The reaper.

\* Comments that go with an expired card, and then with an expired session:
\* both foreign keys cascade, whatever the comment itself is.
WithACard == {e \in EventIds : Present(events[e]) /\ events[e].card # None
                               /\ Expired(homes[events[e].card])}
WithASession == {e \in EventIds \ WithACard :
                    /\ Present(events[e]) /\ events[e].sess # None
                    /\ Expired(sessions[events[e].sess])}

\* A reply that stays would point at a root that has gone: the foreign key on
\* reply_to_id has no action, so the statement fails and reapOnce with it.
Dangling == \E r \in EventIds \ (WithACard \cup WithASession) :
                Present(events[r]) /\ events[r].root \in WithASession

\* Mutant of ExpiredComments: a reply does not keep its root.
ExpiredComments_NoAnchors ==
    {e \in EventIds \ (WithACard \cup WithASession) : Expired(events[e])}

\* An expired comment goes, unless a reply that has not expired hangs off it.
ExpiredComments ==
    LET left == EventIds \ (WithACard \cup WithASession)
        anchors == {events[r].root : r \in {r \in left :
                        Present(events[r]) /\ ~Expired(events[r])}}
    IN {e \in left : Expired(events[e]) /\ e \notin anchors}

Destroyed == WithACard \cup WithASession \cup ExpiredComments

SomethingExpired ==
    \/ \E c \in CardIds : Expired(homes[c])
    \/ \E s \in SessionIds : Expired(sessions[s])
    \/ ExpiredComments # {}

\* reapOnce, in one transaction.
ReapComments ==
    /\ SomethingExpired
    /\ ~Dangling
    /\ reapedRev' = HighestOf({homes[c].rev : c \in {c \in CardIds : Expired(homes[c])}}
                        \cup {events[e].rev : e \in {e \in EventIds : Expired(events[e])}})
    /\ homes' = [c \in CardIds |->
            IF Expired(homes[c]) THEN [st |-> "none", day |-> 0, rev |-> 0] ELSE homes[c]]
    /\ sessions' = [s \in SessionIds |->
            IF Expired(sessions[s]) THEN [st |-> "none", day |-> 0] ELSE sessions[s]]
    /\ events' = [e \in EventIds |-> IF e \in Destroyed THEN NoEvent ELSE events[e]]
    /\ swept' = swept \cup {e \in Destroyed : ~Expired(events[e])}
    /\ UNCHANGED <<rev, today, lastId, asked, deviceVars>>

\* tombstoneTTL passes.  A request does not wait that long for the lock.
NextPeriod ==
    /\ asked = NoRequest
    /\ today < MaxDay
    /\ today' = today + 1
    /\ UNCHANGED <<rev, reapedRev, commentsVars>>

-----------------------------------------------------------------------------
\* The device's Search Index.

\* A comment as boardComments lists it: live, on a live card.
Listed(e) == events[e].st = "live" /\ events[e].card # None
             /\ homes[events[e].card].st = "live"

ServerComments == [e \in EventIds |->
    IF Listed(e) THEN [card |-> events[e].card, text |-> events[e].text] ELSE NoComment]

\* Mutant of CommentsDelta: the deleted ones are not named.
CommentsDelta_LiveOnly(since) ==
    [e \in EventIds |->
        IF since = Full \/ (Listed(e) /\ events[e].rev > since)
        THEN ServerComments[e] ELSE Kept]

\* boardCommentsDelta: everything, or what was stamped after since, with the
\* deleted ones and those with no card named as gone.
CommentsDelta(since) ==
    [e \in EventIds |->
        CASE since = Full -> ServerComments[e]
          [] since # Full /\ Listed(e) /\ events[e].rev > since -> ServerComments[e]
          [] since # Full /\ Present(events[e]) /\ events[e].rev > since
                /\ (events[e].st = "dead" \/ events[e].card = None) -> NoComment
          [] OTHER -> Kept]

\* mergeComments.
MergedComments(held, delta) ==
    [e \in EventIds |-> IF delta[e] = Kept THEN held[e] ELSE delta[e]]

\* The index after a refresh with nothing in its way.
Refreshed == MergedComments(index.comments, CommentsDelta(DeltaBase(index.rev)))

\* refreshComments asks and the server answers.
AskComments ==
    /\ answer = NoRequest
    /\ answer' = [since |-> index.rev, rev |-> rev,
                  comments |-> CommentsDelta(DeltaBase(index.rev))]
    /\ UNCHANGED <<revVars, tableVars, asked, page, index, dropped>>

\* The answer arrives: applied, unless another refresh moved the number on.
TakeComments ==
    /\ answer # NoRequest
    /\ IF answer.since = index.rev
       THEN /\ index' = [rev |-> answer.rev,
                         comments |-> MergedComments(index.comments, answer.comments)]
            /\ dropped' = {e \in dropped : answer.comments[e] = Kept}
       ELSE UNCHANGED <<index, dropped>>
    /\ answer' = NoRequest
    /\ UNCHANGED <<revVars, tableVars, asked, page>>

\* A refresh of another page or of the prewarm, from question to index.
RefreshComments ==
    /\ index' = [rev |-> rev, comments |-> Refreshed]
    /\ dropped' = {e \in dropped : CommentsDelta(DeltaBase(index.rev))[e] = Kept}
    /\ UNCHANGED <<revVars, tableVars, asked, page, answer>>

\* The board page takes a snapshot.
LoadPage ==
    /\ page' = {c \in CardIds : homes[c].st = "live"}
    /\ UNCHANGED <<revVars, tableVars, asked, index, answer, dropped>>

\* putCards, a while after a render: comments of cards the page does not have
\* are dropped, and commentsRev stays.
PutCards ==
    LET out == {e \in EventIds : index.comments[e] # NoComment
                                 /\ index.comments[e].card \notin page}
    IN /\ index' = [index EXCEPT !.comments =
                [e \in EventIds |-> IF e \in out THEN NoComment ELSE @[e]]]
       /\ dropped' = dropped \cup {e \in out : homes[index.comments[e].card].st = "live"}
       /\ UNCHANGED <<revVars, tableVars, asked, page, answer>>

-----------------------------------------------------------------------------

CommentsInit ==
    /\ RevInit
    /\ homes = [c \in CardIds |-> [st |-> "live", day |-> 0, rev |-> 0]]
    /\ sessions = [s \in SessionIds |-> [st |-> "live", day |-> 0]]
    /\ events = [e \in EventIds |-> NoEvent]
    /\ lastId = 0
    /\ asked = NoRequest
    /\ page = {}
    /\ index = [rev |-> Full, comments |-> [e \in EventIds |-> NoComment]]
    /\ answer = NoRequest
    /\ swept = {}
    /\ dropped = {}

\* The tables: a handler's checks and its transaction come apart.
CommentsNext ==
    \/ \E q \in CommentRequests : rev < MaxRev /\ HandleComment(q)
    \/ \E q \in CommentRequests : AdmitComment(q)
    \/ rev < MaxRev /\ CommitComment
    \/ \E c \in CardIds : rev < MaxRev /\ CreateHome(c)
    \/ ReapComments
    \/ NextPeriod

CommentsSpec == CommentsInit /\ [][CommentsNext]_<<revVars, commentsVars>>

\* The writes a device's listing can tell apart: those of no session.
ListedRequests == {q \in CommentRequests :
    \/ q.op = "add" /\ q.sess = None
    \/ q.op \in {"edit", "delete", "deleteHome"}}

\* A device and the tables it follows, whose handlers run whole.
IndexNext ==
    \/ \E q \in ListedRequests : rev < MaxRev /\ HandleComment(q)
    \/ \E c \in CardIds : rev < MaxRev /\ CreateHome(c)
    \/ ReapComments
    \/ NextPeriod
    \/ AskComments
    \/ TakeComments
    \/ RefreshComments
    \/ LoadPage
    \/ PutCards

IndexSpec == CommentsInit /\ [][IndexNext]_<<revVars, commentsVars>>

-----------------------------------------------------------------------------
\* Properties.

\* Whatever was added, edited, deleted and reaped, and whichever refreshes
\* crossed, the index after one more refresh holds what the server lists
\* (ADR 0023 for comments), but for those that wait for the page to drop their
\* card, that a cascade destroyed, or that putCards dropped too early.
CommentIndexReadsAsServer ==
    \A e \in EventIds :
        \/ Refreshed[e] = ServerComments[e]
        \/ e \in swept \cup dropped
        \/ Refreshed[e] # NoComment /\ homes[Refreshed[e].card].st = "dead"

\* What a reply answers is in the table for as long as the reply is, on the
\* same card and itself no reply: no reap and no cascade leaves it dangling.
RepliesHaveTheirRoot ==
    \A r \in EventIds :
        (Present(events[r]) /\ events[r].root # None) =>
            IsRoot(events[r].root) /\ events[events[r].root].card = events[r].card

=============================================================================
