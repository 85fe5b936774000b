--------------------------- MODULE StateFeed_proofs ---------------------------
(***************************************************************************)
(* Proofs about the document feed of a viewer's page: its type invariant,  *)
(* that the page holds what its seq says, that an up-to-date page shows    *)
(* the committed document, and that the page only moves forward, for any   *)
(* paths, commits, losses and restarts.                                    *)
(***************************************************************************)
EXTENDS StateFeed, TLAPS

\* The page the theorems are about: a viewer's, without the revalidation, started
\* from a payload whose two reads nothing came between; and a server that does not
\* restart if writes may replace the whole document.
PlainViewer ==
    /\ ~Editing /\ ~Revalidates /\ ~BootRace
    /\ Snapshots => MaxRestarts = 0

\* Commits whose broadcast died with an earlier process.
Lost == {n \in 1 .. Len(made) : n \notin shipping /\ \A i \in DOMAIN log : log[i] # n}

\* What a page at seq s of this process has to hold.
Known(s) == Lost \cup Upto(s)

\* A document ahead of what was committed is impossible.
Behind(doc) == \A p \in Paths : doc[p] <= Db[p]

\* The commits: each document holds every commit before it and nothing else.
MadeInv ==
    \A n \in 1 .. Len(made) :
        /\ made[n].whole => Snapshots /\ made[n].paths = Paths
        /\ Holds(made[n].doc, 1 .. n)
        /\ Behind(made[n].doc)
        /\ \A p \in Paths :
              made[n].doc[p] # 0 =>
                  made[n].doc[p] \in 1 .. n /\ p \in made[made[n].doc[p]].paths

\* This process's commits are later than the lost ones.
ServerInv ==
    /\ epoch <= MaxRestarts + 1
    /\ \A g \in Lost : /\ \A n \in shipping : g < n
                       /\ \A i \in DOMAIN log : g < log[i]

\* An event on its way is of this process and of the commit at its seq.
WireInv ==
    \A i \in DOMAIN wire :
        /\ wire[i].epoch = epoch
        /\ wire[i].seq \in DOMAIN log
        /\ wire[i].commit = log[wire[i].seq]
        /\ wire[i].delta = ~made[wire[i].commit].whole

\* Before the page has its seq it has no stream and nothing was fanned out.  It
\* takes no document without a seq.
BootInv ==
    /\ boot = "doc" => /\ log = <<>> /\ shipping = 1 .. Len(made)
                       /\ wire = <<>> /\ stream = "down"
                       /\ fetch.at = "no" /\ ~waking
    /\ boot = "done" => lastEpoch # 0
    /\ answers = {}
    /\ reval.at = "no"
    /\ astray = FALSE

\* A refetch in flight.
FetchInv ==
    /\ fetch.at \in {"read", "back"} => fetch.epoch \in 1 .. epoch
    /\ fetch.at = "read" => fetch.epoch = epoch
    /\ fetch.at \in {"read", "back"} /\ fetch.epoch = epoch => fetch.seq <= Len(log)
    /\ fetch.at = "back" => Behind(fetch.doc)
    /\ fetch.at = "back" /\ fetch.epoch = epoch => Holds(fetch.doc, Known(fetch.seq))

\* The page.
ViewInv ==
    /\ lastEpoch <= epoch
    /\ Behind(view)
    /\ InOrder /\ lastEpoch = epoch
          => stateSeq <= Len(log) /\ Holds(view, Known(stateSeq))

IInv == TypeOK /\ MadeInv /\ ServerInv /\ WireInv /\ BootInv /\ FetchInv /\ ViewInv

-----------------------------------------------------------------------------
(***************************************************************************)
(* The committed document and what does not change it.                     *)
(***************************************************************************)

\* The committed document holds every commit and nothing else (Commit).
LEMMA DbHoldsAll ==
    ASSUME TypeOK, MadeInv
    PROVE  /\ Db \in [Paths -> Nat]
           /\ Holds(Db, 1 .. Len(made))
           /\ \A p \in Paths :
                 /\ Db[p] <= Len(made)
                 /\ Db[p] # 0 => p \in made[Db[p]].paths
<1>1. CASE made = <<>>
  <2>1. Db = [p \in Paths |-> 0] /\ Len(made) = 0
    BY <1>1 DEF Db, Blank
  <2>2. Holds(Db, 1 .. Len(made))
    BY <2>1, 1 .. 0 = {} DEF Holds
  <2> QED
    BY <2>1, <2>2
<1>2. CASE made # <<>>
  <2>1. Len(made) \in 1 .. Len(made) /\ Db = made[Len(made)].doc
    BY <1>2 DEF Db, TypeOK
  <2>2. Db \in [Paths -> Nat] /\ Len(made) \in Nat
    <3>1. made \in Seq(Commits)
      BY DEF TypeOK
    <3>2. made[Len(made)] \in Commits /\ Len(made) \in Nat
      BY <2>1, <3>1
    <3> QED
      BY <2>1, <3>2 DEF Commits
  <2>3. \A p \in Paths : Db[p] # 0 => Db[p] \in 1 .. Len(made) /\ p \in made[Db[p]].paths
    BY <2>1 DEF MadeInv
  <2>4. Holds(Db, 1 .. Len(made))
    BY <2>1 DEF MadeInv, Holds
  <2>5. \A p \in Paths : Db[p] <= Len(made)
    <3>1. ASSUME NEW p \in Paths, NEW d \in Nat, d = Db[p] PROVE d <= Len(made)
      <4>1. d # 0 => d \in 1 .. Len(made)
        BY <2>3, <3>1
      <4> QED
        BY <2>2, <4>1
    <3> QED
      BY <2>2, <3>1
  <2> QED
    BY <2>2, <2>3, <2>4, <2>5
<1> QED
  BY <1>1, <1>2

\* Sequences over a set are sequences over a larger one.
LEMMA SeqGrows ==
    ASSUME NEW S, NEW T, S \subseteq T, NEW s \in Seq(S)
    PROVE  s \in Seq(T)
  OBVIOUS

\* Whatever a page has to hold was committed (Broadcast takes only such).
LEMMA KnownCommitted ==
    ASSUME TypeOK, NEW s \in Nat, s <= Len(log)
    PROVE  Known(s) \subseteq 1 .. Len(made)
<1>1. \A i \in 1 .. s : log[i] \in 1 .. Len(made)
  BY DEF TypeOK
<1> QED
  BY <1>1 DEF Known, Upto, Lost

\* The server's parts of the invariant do not look at the page.
LEMMA ServerStill ==
    ASSUME MadeInv, ServerInv, UNCHANGED server
    PROVE  MadeInv' /\ ServerInv'
<1>1. made' = made /\ shipping' = shipping /\ log' = log /\ epoch' = epoch
  BY DEF server
<1> QED
  BY <1>1 DEF MadeInv, ServerInv, Holds, Behind, Db, Blank, Lost

-----------------------------------------------------------------------------
(***************************************************************************)
(* The server's steps.                                                     *)
(***************************************************************************)

\* A commit changes only what is committed, for the better (PatchGameTx).
LEMMA CommitStep ==
    ASSUME IInv, PlainViewer, NEW ps \in SUBSET Paths, NEW whole \in BOOLEAN,
           NEW mine \in BOOLEAN, Commit(ps, whole, mine)
    PROVE  IInv'
<1> DEFINE n == Len(made) + 1
<1> DEFINE new == [p \in Paths |-> IF p \in ps THEN n ELSE Db[p]]
<1> DEFINE c == [paths |-> ps, whole |-> whole, doc |-> new]
<1>1. /\ made' = Append(made, c) /\ shipping' = shipping \cup {n} /\ n <= MaxCommits
      /\ answers' = answers
      /\ UNCHANGED <<log, epoch, stream, wire, losses, view, stateSeq, lastEpoch,
                     astray, boot, fetch, waking, reval>>
      /\ whole => Snapshots /\ ps = Paths
  BY DEF Commit, link, page, PlainViewer
<1>2. /\ made \in Seq(Commits) /\ Len(made) \in Nat /\ n \in Nat
      /\ shipping \subseteq 1 .. Len(made) /\ log \in Seq(1 .. Len(made))
      /\ view \in [Paths -> Nat] /\ fetch.doc \in [Paths -> Nat]
  BY DEF IInv, TypeOK, Fetches
<1>3. /\ Db \in [Paths -> Nat] /\ Holds(Db, 1 .. Len(made))
      /\ \A p \in Paths : Db[p] <= Len(made) /\ (Db[p] # 0 => p \in made[Db[p]].paths)
  <2>1. TypeOK /\ MadeInv
    BY DEF IInv
  <2> QED
    BY <2>1, DbHoldsAll
<1>4. new \in [Paths -> Nat] /\ c \in Commits
  BY <1>2, <1>3 DEF Commits
<1> HIDE DEF c
<1>5. /\ made' \in Seq(Commits) /\ Len(made') = n /\ made'[n] = c
      /\ \A i \in 1 .. Len(made) : made'[i] = made[i]
  BY <1>1, <1>2, <1>4
<1>6. c.paths = ps /\ c.whole = whole /\ c.doc = new
  BY DEF c
<1> HIDE DEF new
<1>7. Db' = new
  BY <1>2, <1>5, <1>6 DEF Db
<1>8. /\ \A p \in Paths : new[p] = n \/ new[p] = Db[p]
      /\ \A p \in ps : new[p] = n
      /\ \A p \in Paths : Db[p] <= new[p]
  <2>1. \A p \in Paths : new[p] = n \/ new[p] = Db[p]
    BY DEF new
  <2>2. \A p \in ps : new[p] = n
    BY DEF new
  <2>3. ASSUME NEW p \in Paths PROVE Db[p] <= new[p]
    <3>1. Db[p] \in Nat /\ Db[p] <= Len(made)
      BY <1>3
    <3> QED
      BY <3>1, <2>1, <1>2
  <2> QED
    BY <2>1, <2>2, <2>3
<1>9. ASSUME NEW d \in [Paths -> Nat], Behind(d)
      PROVE  \A p \in Paths : d[p] <= new[p]
  <2>1. ASSUME NEW p \in Paths PROVE d[p] <= new[p]
    <3>1. d[p] <= Db[p] /\ Db[p] <= new[p] /\ d[p] \in Nat /\ Db[p] \in Nat /\ new[p] \in Nat
      BY <1>3, <1>4, <1>8, <1>9 DEF Behind
    <3> QED
      BY <3>1
  <2> QED
    BY <2>1
<1>10. Lost' = Lost
  <2>1. 1 .. Len(made') = (1 .. Len(made)) \cup {n}
    BY <1>2, <1>5
  <2>2. n \in shipping' /\ (\A k \in 1 .. Len(made) : k \in shipping' <=> k \in shipping)
    BY <1>1, <1>2
  <2> QED
    BY <2>1, <2>2, <1>1 DEF Lost
<1>11. TypeOK'
  <2>1. 1 .. Len(made) \subseteq 1 .. n
    BY <1>2
  <2>2. shipping' \subseteq 1 .. n
    <3>1. n \in 1 .. n
      BY <1>2
    <3> QED
      BY <1>1, <1>2, <2>1, <3>1
  <2>3. log \in Seq(1 .. n)
    BY <2>1, <1>2, SeqGrows
  <2>4. answers \subseteq 1 .. n
    BY <2>1 DEF IInv, TypeOK
  <2> QED
    BY <1>1, <1>5, <2>2, <2>3, <2>4 DEF IInv, TypeOK
<1>12. MadeInv'
  <2> SUFFICES ASSUME NEW k \in 1 .. n
               PROVE  /\ made'[k].whole => Snapshots /\ made'[k].paths = Paths
                      /\ \A j \in 1 .. k : \A p \in made'[j].paths : made'[k].doc[p] >= j
                      /\ \A p \in Paths : made'[k].doc[p] <= new[p]
                      /\ \A p \in Paths :
                            made'[k].doc[p] # 0 =>
                                /\ made'[k].doc[p] \in 1 .. k
                                /\ p \in made'[made'[k].doc[p]].paths
    BY <1>5, <1>7 DEF MadeInv, Holds, Behind
  <2>1. CASE k \in 1 .. Len(made)
    <3>1. made'[k] = made[k] /\ \A j \in 1 .. k : made'[j] = made[j]
      BY <1>2, <1>5, <2>1
    <3>2. /\ made[k].whole => Snapshots /\ made[k].paths = Paths
          /\ Holds(made[k].doc, 1 .. k) /\ Behind(made[k].doc)
          /\ \A p \in Paths :
                made[k].doc[p] # 0 =>
                    made[k].doc[p] \in 1 .. k /\ p \in made[made[k].doc[p]].paths
      BY <2>1 DEF IInv, MadeInv
    <3>3. made[k].doc \in [Paths -> Nat]
      <4>1. made[k] \in Commits
        BY <1>2, <2>1
      <4> QED
        BY <4>1 DEF Commits
    <3>4. \A p \in Paths : made[k].doc[p] <= new[p]
      BY <3>2, <3>3, <1>9
    <3>5. \A j \in 1 .. k : \A p \in made[j].paths : made[k].doc[p] >= j
      BY <3>2 DEF Holds
    <3> QED
      BY <3>1, <3>2, <3>4, <3>5
  <2>2. CASE k = n
    <3>1. made'[k] = c
      BY <2>2, <1>5
    <3>2. ASSUME NEW j \in 1 .. n, NEW p \in made'[j].paths PROVE new[p] >= j
      <4>1. CASE j = n
        BY <4>1, <1>2, <1>5, <1>6, <1>8
      <4>2. CASE j \in 1 .. Len(made)
        <5>1. p \in made[j].paths /\ made[j] \in Commits
          BY <3>2, <4>2, <1>2, <1>5
        <5>2. p \in Paths /\ Db[p] >= j
          BY <5>1, <4>2, <1>3 DEF Holds, Commits
        <5>3. Db[p] \in Nat /\ new[p] \in Nat /\ Db[p] <= new[p] /\ j \in Nat
          BY <5>2, <1>3, <1>4, <1>8
        <5> QED
          BY <5>2, <5>3
      <4> QED
        BY <4>1, <4>2, <1>2
    <3>3. ASSUME NEW p \in Paths, new[p] # 0
          PROVE  new[p] \in 1 .. n /\ p \in made'[new[p]].paths
      <4>1. CASE p \in ps
        BY <4>1, <1>2, <1>5, <1>6, <1>8
      <4>2. CASE p \notin ps
        <5>1. new[p] = Db[p]
          BY <4>2 DEF new
        <5>2. Db[p] \in 1 .. Len(made) /\ p \in made[Db[p]].paths
          BY <5>1, <3>3, <1>2, <1>3
        <5> QED
          BY <5>1, <5>2, <1>2, <1>5
      <4> QED
        BY <4>1, <4>2
    <3>4. \A p \in Paths : new[p] <= new[p]
      BY <1>4
    <3> QED
      BY <2>2, <3>1, <3>2, <3>3, <3>4, <1>1, <1>6
  <2> QED
    BY <2>1, <2>2, <1>2
<1>13. ServerInv'
  <2>1. /\ epoch <= MaxRestarts + 1
        /\ \A g \in Lost : (\A k \in shipping : g < k) /\ (\A i \in DOMAIN log : g < log[i])
    BY DEF IInv, ServerInv
  <2>2. \A g \in Lost : g < n
    BY <1>2 DEF Lost
  <2> QED
    BY <1>1, <1>10, <2>1, <2>2 DEF ServerInv
<1>14. WireInv'
  <2>1. ASSUME NEW s \in DOMAIN log PROVE made'[log[s]] = made[log[s]]
    <3>1. log[s] \in 1 .. Len(made)
      BY <1>2
    <3> QED
      BY <3>1, <1>5
  <2> QED
    BY <2>1, <1>1 DEF IInv, WireInv
<1>15. BootInv'
  <2>1. shipping = 1 .. Len(made) => shipping' = 1 .. Len(made')
    BY <1>1, <1>2, <1>5
  <2> QED
    BY <1>1, <2>1 DEF IInv, BootInv
<1>16. ASSUME NEW d \in [Paths -> Nat], NEW s \in Nat, s <= Len(log), Holds(d, Known(s))
       PROVE  \A k \in Known(s) : \A p \in made'[k].paths : d[p] >= k
  <2>1. Known(s) \subseteq 1 .. Len(made)
    BY <1>16, KnownCommitted DEF IInv
  <2> QED
    BY <1>5, <1>16, <2>1 DEF Holds
<1>17. FetchInv'
  <2>1. fetch.seq \in Nat
    BY DEF IInv, TypeOK, Fetches
  <2>2. fetch.at = "back" => \A p \in Paths : fetch.doc[p] <= new[p]
    BY <1>2, <1>9 DEF IInv, FetchInv
  <2>3. fetch.at = "back" /\ fetch.epoch = epoch =>
            \A k \in Known(fetch.seq) : \A p \in made'[k].paths : fetch.doc[p] >= k
    <3>1. SUFFICES ASSUME fetch.at = "back", fetch.epoch = epoch
                   PROVE  \A k \in Known(fetch.seq) : \A p \in made'[k].paths : fetch.doc[p] >= k
      OBVIOUS
    <3>2. fetch.seq <= Len(log) /\ Holds(fetch.doc, Known(fetch.seq))
      BY <3>1 DEF IInv, FetchInv
    <3> QED
      BY <1>2, <1>16, <2>1, <3>2
  <2>4. Known(fetch.seq)' = Known(fetch.seq)
    BY <1>1, <1>10 DEF Known, Upto
  <2>5. FetchInv
    BY DEF IInv
  <2> QED
    BY <1>1, <1>7, <2>2, <2>3, <2>4, <2>5 DEF FetchInv, Behind, Holds
<1>18. ViewInv'
  <2>1. \A p \in Paths : view[p] <= new[p]
    BY <1>2, <1>9 DEF IInv, ViewInv
  <2>2. InOrder /\ lastEpoch = epoch =>
            /\ stateSeq <= Len(log)
            /\ \A k \in Known(stateSeq) : \A p \in made'[k].paths : view[p] >= k
    <3>1. stateSeq \in Nat
      BY DEF IInv, TypeOK
    <3>2. SUFFICES ASSUME InOrder, lastEpoch = epoch
                   PROVE  /\ stateSeq <= Len(log)
                          /\ \A k \in Known(stateSeq) : \A p \in made'[k].paths : view[p] >= k
      OBVIOUS
    <3>3. stateSeq <= Len(log) /\ Holds(view, Known(stateSeq))
      BY <3>2 DEF IInv, ViewInv
    <3> QED
      BY <3>1, <3>3, <1>2, <1>16
  <2>3. Known(stateSeq)' = Known(stateSeq)
    BY <1>1, <1>10 DEF Known, Upto
  <2>4. ViewInv
    BY DEF IInv
  <2> QED
    BY <1>1, <1>7, <2>1, <2>2, <2>3, <2>4 DEF ViewInv, Behind, Holds, InOrder
<1> QED
  BY <1>11, <1>12, <1>13, <1>14, <1>15, <1>17, <1>18 DEF IInv

\* A broadcast gives a commit the next seq (BroadcastState, BroadcastBatchedDelta).
LEMMA BroadcastStep ==
    ASSUME IInv, PlainViewer, NEW n \in shipping, Broadcast(n)
    PROVE  IInv'
<1>1. /\ boot = "done" /\ shipping' = shipping \ {n} /\ log' = Append(log, n)
      /\ wire' = wire \/ wire' = Append(wire, Message(n))
      /\ UNCHANGED <<made, epoch, stream, losses, view, stateSeq, lastEpoch, astray, boot,
                     fetch, waking, answers, reval>>
  <2>1. boot \in {"doc", "done"}
    BY DEF IInv, TypeOK
  <2> QED
    BY <2>1 DEF Broadcast, page, PlainViewer
<1>2. /\ made \in Seq(Commits) /\ Len(made) \in Nat /\ wire \in Seq(Messages)
      /\ shipping \subseteq 1 .. Len(made) /\ n \in 1 .. Len(made)
      /\ log \in Seq(1 .. Len(made)) /\ Len(log) \in Nat /\ epoch \in Nat \ {0}
  BY DEF IInv, TypeOK
<1>3. /\ log' \in Seq(1 .. Len(made)) /\ Len(log') = Len(log) + 1
      /\ log'[Len(log) + 1] = n
      /\ \A i \in 1 .. Len(log) : log'[i] = log[i]
  BY <1>1, <1>2
<1>4. Lost' = Lost
  <2>1. ASSUME NEW k \in 1 .. Len(made)
        PROVE  /\ k \notin shipping' /\ (\A i \in 1 .. Len(log) + 1 : log'[i] # k)
               <=> k \notin shipping /\ (\A i \in 1 .. Len(log) : log[i] # k)
    BY <1>1, <1>2, <1>3
  <2>2. DOMAIN log = 1 .. Len(log) /\ DOMAIN log' = 1 .. Len(log) + 1
    BY <1>2, <1>3
  <2> QED
    BY <1>1, <2>1, <2>2 DEF Lost
<1>5. ASSUME NEW s \in Nat, s <= Len(log)
      PROVE  {log'[i] : i \in 1 .. s} = {log[i] : i \in 1 .. s}
  <2>1. \A i \in 1 .. s : i \in 1 .. Len(log)
    BY <1>2, <1>5
  <2>2. \A i \in 1 .. s : log'[i] = log[i]
    BY <1>3, <2>1
  <2> QED
    BY <2>2
<1>6. InOrder' => InOrder
  <2>1. /\ DOMAIN log' = 1 .. Len(log) + 1 /\ DOMAIN log = 1 .. Len(log)
        /\ \A i \in 1 .. Len(log) : i \in 1 .. Len(log) + 1
    BY <1>2, <1>3
  <2> QED
    BY <1>3, <2>1 DEF InOrder
<1>7. Message(n) \in Messages
  <2>1. made[n] \in Commits
    BY <1>2
  <2>2. Len(log) + 1 \in Nat \ {0} /\ n \in Nat \ {0}
    BY <1>2
  <2> QED
    BY <1>2, <2>1, <2>2 DEF Message, Messages, Commits
<1>8. TypeOK'
  <2>1. wire' \in Seq(Messages)
    <3>1. Append(wire, Message(n)) \in Seq(Messages)
      BY <1>2, <1>7
    <3> QED
      BY <1>1, <1>2, <3>1
  <2>2. shipping' \subseteq 1 .. Len(made)
    BY <1>1, <1>2
  <2> QED
    BY <1>1, <1>3, <2>1, <2>2 DEF IInv, TypeOK
<1>9. MadeInv'
  BY <1>1 DEF IInv, MadeInv, Holds, Behind, Db, Blank
<1>10. ServerInv'
  <2>1. /\ epoch <= MaxRestarts + 1
        /\ \A g \in Lost : (\A k \in shipping : g < k) /\ (\A i \in 1 .. Len(log) : g < log[i])
    BY <1>2 DEF IInv, ServerInv
  <2>2. \A g \in Lost : \A i \in 1 .. Len(log) + 1 : g < log'[i]
    BY <1>2, <1>3, <2>1
  <2>3. DOMAIN log' = 1 .. Len(log) + 1
    BY <1>2, <1>3
  <2> QED
    BY <1>1, <1>4, <2>1, <2>2, <2>3 DEF ServerInv
<1>11. WireInv'
  <2> DEFINE Good(m) == /\ m.epoch = epoch /\ m.seq \in 1 .. Len(log) + 1
                        /\ m.commit = log'[m.seq] /\ m.delta = ~made[m.commit].whole
  <2>1. ASSUME NEW i \in 1 .. Len(wire) PROVE Good(wire[i])
    <3>1. /\ wire[i].epoch = epoch /\ wire[i].seq \in 1 .. Len(log)
          /\ wire[i].commit = log[wire[i].seq]
          /\ wire[i].delta = ~made[wire[i].commit].whole
      BY <1>2 DEF IInv, WireInv
    <3> QED
      BY <1>2, <1>3, <3>1
  <2>2. Good(Message(n))
    BY <1>2, <1>3 DEF Message
  <2>3. \A i \in DOMAIN wire' : Good(wire'[i])
    <3> HIDE DEF Good
    <3>1. CASE wire' = wire
      <4>1. DOMAIN wire = 1 .. Len(wire)
        BY <1>2
      <4> QED
        BY <2>1, <3>1, <4>1
    <3>2. CASE wire' = Append(wire, Message(n))
      BY <1>2, <1>7, <2>1, <2>2, <3>2
    <3> QED
      BY <1>1, <3>1, <3>2
  <2>4. DOMAIN log' = 1 .. Len(log) + 1
    BY <1>2, <1>3
  <2> QED
    BY <1>1, <2>3, <2>4 DEF WireInv
<1>12. BootInv'
  BY <1>1 DEF IInv, BootInv
<1>13. FetchInv'
  <2>1. fetch.seq \in Nat /\ FetchInv
    BY DEF IInv, TypeOK, Fetches
  <2>2. fetch.seq <= Len(log) => fetch.seq <= Len(log') /\ Known(fetch.seq)' = Known(fetch.seq)
    BY <1>1, <1>2, <1>3, <1>4, <1>5, <2>1 DEF Known, Upto
  <2>3. Behind(fetch.doc) => Behind(fetch.doc)'
    BY <1>1 DEF Behind, Db, Blank
  <2>4. fetch.seq <= Len(log) /\ Holds(fetch.doc, Known(fetch.seq))
            => Holds(fetch.doc, Known(fetch.seq))'
    BY <1>1, <2>2 DEF Holds
  <2> QED
    BY <1>1, <2>1, <2>2, <2>3, <2>4 DEF FetchInv
<1>14. ViewInv'
  <2>1. stateSeq \in Nat /\ ViewInv
    BY DEF IInv, TypeOK
  <2>2. stateSeq <= Len(log) => stateSeq <= Len(log') /\ Known(stateSeq)' = Known(stateSeq)
    BY <1>1, <1>2, <1>3, <1>4, <1>5, <2>1 DEF Known, Upto
  <2>3. Behind(view) => Behind(view)'
    BY <1>1 DEF Behind, Db, Blank
  <2>4. stateSeq <= Len(log) /\ Holds(view, Known(stateSeq)) => Holds(view, Known(stateSeq))'
    BY <1>1, <2>2 DEF Holds
  <2> QED
    BY <1>1, <1>6, <2>1, <2>2, <2>3, <2>4 DEF ViewInv
<1> QED
  BY <1>8, <1>9, <1>10, <1>11, <1>12, <1>13, <1>14 DEF IInv

\* A restart starts the seqs over and forgets what it had not fanned out
\* (Engine.Epoch, Engine.StateSeq).
LEMMA RestartStep ==
    ASSUME IInv, PlainViewer, Restart
    PROVE  IInv'
<1>1. /\ boot = "done" /\ epoch <= MaxRestarts /\ epoch' = epoch + 1
      /\ log' = <<>> /\ shipping' = {} /\ stream' = "down" /\ wire' = <<>>
      /\ fetch' = NoFetch \/ (fetch' = fetch /\ fetch.at \notin {"asked", "read"})
      /\ UNCHANGED <<made, losses, view, stateSeq, lastEpoch, astray, boot, waking, answers, reval>>
  BY DEF Restart
<1>2. /\ epoch \in Nat \ {0} /\ MaxRestarts \in Nat /\ Len(made) \in Nat
      /\ lastEpoch \in Nat /\ lastEpoch <= epoch
  BY StateFeedAssumption DEF IInv, TypeOK, ViewInv
<1>3. fetch' \in Fetches
  <2>1. fetch \in Fetches
    BY DEF IInv, TypeOK
  <2>2. NoFetch \in Fetches
    BY DEF NoFetch, Blank, Fetches
  <2> QED
    BY <1>1, <2>1, <2>2
<1>4. TypeOK'
  BY <1>1, <1>2, <1>3 DEF IInv, TypeOK
<1>5. MadeInv'
  BY <1>1 DEF IInv, MadeInv, Holds, Behind, Db, Blank
<1>6. ServerInv'
  BY <1>1, <1>2 DEF ServerInv
<1>7. WireInv' /\ BootInv'
  BY <1>1 DEF IInv, WireInv, BootInv
<1>8. FetchInv'
  <2>1. CASE fetch' = NoFetch
    BY <2>1 DEF NoFetch, FetchInv
  <2>2. CASE fetch' = fetch /\ fetch.at \notin {"asked", "read"}
    <3>1. fetch.at = "back" => fetch.epoch \in 1 .. epoch /\ Behind(fetch.doc)
      BY DEF IInv, FetchInv
    <3>2. Behind(fetch.doc) => Behind(fetch.doc)'
      BY <1>1, <2>2 DEF Behind, Db, Blank
    <3>3. fetch.epoch \in 1 .. epoch => fetch.epoch \in 1 .. epoch' /\ fetch.epoch # epoch'
      BY <1>1, <1>2
    <3> QED
      BY <2>2, <3>1, <3>2, <3>3 DEF FetchInv
  <2> QED
    BY <1>1, <2>1, <2>2
<1>9. ViewInv'
  <2>1. Behind(view)'
    BY <1>1 DEF IInv, ViewInv, Behind, Db, Blank
  <2>2. lastEpoch' <= epoch' /\ lastEpoch' # epoch'
    BY <1>1, <1>2
  <2> QED
    BY <2>1, <2>2 DEF ViewInv
<1> QED
  BY <1>4, <1>5, <1>6, <1>7, <1>8, <1>9 DEF IInv

-----------------------------------------------------------------------------
(***************************************************************************)
(* The stream's and the page's steps.  None changes what the server holds. *)
(***************************************************************************)

\* What is still on its way after events were taken from the front, or dropped.
LEMMA WireStill ==
    ASSUME TypeOK, WireInv, UNCHANGED server,
           wire' = wire \/ wire' = <<>> \/ (wire # <<>> /\ wire' = Tail(wire))
    PROVE  WireInv' /\ wire' \in Seq(Messages)
<1>1. wire \in Seq(Messages) /\ made' = made /\ log' = log /\ epoch' = epoch
  BY DEF TypeOK, server
<1>2. ASSUME NEW i \in DOMAIN wire' PROVE \E k \in DOMAIN wire : wire'[i] = wire[k]
  BY <1>1, <1>2
<1>3. wire' \in Seq(Messages)
  <2>1. wire # <<>> => Tail(wire) \in Seq(Messages)
    BY <1>1
  <2>2. <<>> \in Seq(Messages)
    OBVIOUS
  <2>3. CASE wire' = wire
    BY <1>1, <2>3
  <2>4. CASE wire' = <<>>
    BY <2>2, <2>4
  <2>5. CASE wire # <<>> /\ wire' = Tail(wire)
    BY <2>1, <2>5
  <2> QED
    BY <2>3, <2>4, <2>5
<1> QED
  BY <1>1, <1>2, <1>3 DEF WireInv

\* A refetch that does not move stays good while the server stands still.
LEMMA FetchStill ==
    ASSUME FetchInv, UNCHANGED <<server, fetch>>
    PROVE  FetchInv'
  BY DEF FetchInv, Behind, Db, Blank, Holds, Known, Lost, Upto, server

\* A refetch that is only asked for, or over, promises nothing.
LEMMA FetchIdle ==
    ASSUME fetch'.at \in {"no", "asked"}
    PROVE  FetchInv'
  BY DEF FetchInv

\* A page that does not move stays good while the server stands still.
LEMMA ViewStill ==
    ASSUME ViewInv, UNCHANGED <<server, view, stateSeq, lastEpoch>>
    PROVE  ViewInv'
  BY DEF ViewInv, Behind, Db, Blank, Holds, Known, Lost, Upto, InOrder, server

\* What the page does with its stream alone (sendDropOldest, EventSource).
LEMMA LinkStep ==
    ASSUME IInv, DropOldest \/ Disconnect \/ Open
    PROVE  IInv'
<1>1. /\ UNCHANGED <<server, view, stateSeq, lastEpoch, astray, boot, fetch, waking, answers, reval>>
      /\ wire' = <<>> \/ (wire # <<>> /\ wire' = Tail(wire))
      /\ stream' \in {"up", "down"} /\ losses' \in Nat
  BY DEF IInv, TypeOK, DropOldest, Disconnect, Open, page
<1>2. stream' = stream \/ stream' = "down" \/ boot = "done"
  BY DEF DropOldest, Disconnect, Open
<1>3. TypeOK /\ MadeInv /\ ServerInv /\ WireInv /\ FetchInv /\ ViewInv /\ BootInv
  BY DEF IInv
<1>4. WireInv' /\ wire' \in Seq(Messages)
  BY <1>1, <1>3, WireStill
<1>5. TypeOK'
  BY <1>1, <1>3, <1>4 DEF TypeOK, server
<1>6. BootInv'
  BY <1>1, <1>2, <1>3 DEF BootInv, server
<1> QED
  BY <1>1, <1>3, <1>4, <1>5, <1>6, ServerStill, FetchStill, ViewStill DEF IInv

\* The init payload's seq (buildGameInit): nothing was fanned out yet.
LEMMA InitSeqStep ==
    ASSUME IInv, PlainViewer, InitSeq
    PROVE  IInv'
<1>1. /\ boot = "doc" /\ boot' = "done" /\ stateSeq' = Len(log) /\ lastEpoch' = epoch
      /\ UNCHANGED <<server, stream, wire, losses, view, astray, fetch, waking, answers, reval>>
  BY DEF InitSeq, link, PlainViewer
<1>2. TypeOK /\ MadeInv /\ ServerInv /\ WireInv /\ FetchInv /\ ViewInv /\ BootInv
  BY DEF IInv
<1>3. log = <<>> /\ shipping = 1 .. Len(made) /\ epoch \in Nat \ {0}
  BY <1>1, <1>2 DEF BootInv, TypeOK
<1>4. TypeOK'
  BY <1>1, <1>2, <1>3 DEF TypeOK, server
<1>5. BootInv'
  BY <1>1, <1>2, <1>3 DEF BootInv, server
<1>6. ViewInv'
  <2>1. Lost = {} /\ Upto(0) = {}
    BY <1>3 DEF Lost, Upto
  <2>2. Known(0) = {}
    BY <2>1 DEF Known
  <2>3. Holds(view, Known(0)) /\ stateSeq' = 0
    BY <1>1, <1>3, <2>2 DEF Holds
  <2>4. Behind(view) /\ lastEpoch' <= epoch'
    BY <1>1, <1>2, <1>3 DEF ViewInv, server
  <2> QED
    BY <1>1, <1>3, <2>3, <2>4
       DEF ViewInv, Behind, Db, Blank, Holds, Known, Lost, Upto, server
<1> QED
  BY <1>1, <1>2, <1>4, <1>5, <1>6, ServerStill, FetchStill, WireStill DEF IInv

\* A refetch that is asked for, fails or reads its seq and document (resync,
\* scopedGameState), and the wish for one (createWakeRecovery).
LEMMA FetchStep ==
    ASSUME IInv, FetchSeq \/ FetchDoc \/ FetchFail \/ Wake \/ Recover
    PROVE  IInv'
<1>1. /\ UNCHANGED <<server, view, stateSeq, lastEpoch, astray, boot, answers, reval>>
      /\ wire' = wire \/ wire' = <<>>
      /\ stream' \in {stream, "up"} /\ losses' \in {losses, losses + 1}
      /\ waking' \in BOOLEAN
  BY DEF IInv, TypeOK, FetchSeq, FetchDoc, FetchFail, Wake, Recover, link
<1>2. TypeOK /\ MadeInv /\ ServerInv /\ WireInv /\ FetchInv /\ ViewInv /\ BootInv
  BY DEF IInv
<1>3. /\ fetch \in Fetches
      /\ epoch \in Nat \ {0} /\ Len(log) \in Nat
  BY <1>2 DEF TypeOK
<1>4. Db \in [Paths -> Nat] /\ Holds(Db, 1 .. Len(made))
  BY <1>2, DbHoldsAll
<1>5. boot = "done"
  BY <1>2 DEF BootInv, TypeOK, FetchSeq, FetchDoc, FetchFail, Wake, Recover, Resyncing
<1>6. BootInv'
  BY <1>1, <1>2, <1>5 DEF BootInv
<1>7. WireInv' /\ wire' \in Seq(Messages)
  BY <1>1, <1>2, WireStill
<1>8. fetch' \in Fetches /\ FetchInv'
  <2>1. CASE FetchSeq
    <3>1. /\ fetch'.at = "read" /\ fetch'.seq = Len(log) /\ fetch'.epoch = epoch
          /\ fetch' \in Fetches
      BY <1>3, <2>1 DEF FetchSeq, Fetches
    <3>2. epoch' = epoch /\ log' = log
      BY <1>1 DEF server
    <3> QED
      BY <1>3, <3>1, <3>2 DEF FetchInv
  <2>2. CASE FetchDoc
    <3>1. /\ fetch.at = "read" /\ fetch'.at = "back" /\ fetch'.seq = fetch.seq
          /\ fetch'.epoch = fetch.epoch /\ fetch'.doc = Db /\ fetch' \in Fetches
      BY <1>3, <1>4, <2>2 DEF FetchDoc, Fetches
    <3>2. fetch.epoch = epoch /\ fetch.seq <= Len(log) /\ fetch.seq \in Nat
      BY <1>2, <1>3, <3>1 DEF FetchInv, Fetches
    <3>3. Holds(Db, Known(fetch.seq))
      BY <1>2, <1>4, <3>2, KnownCommitted DEF Holds
    <3>4. epoch' = epoch /\ log' = log /\ made' = made /\ shipping' = shipping
      BY <1>1 DEF server
    <3>5. Db' = Db /\ Known(fetch.seq)' = Known(fetch'.seq)
      BY <3>4 DEF Db, Blank, Known, Lost, Upto
    <3>6. Behind(Db)
      BY <1>4 DEF Behind
    <3>7. Behind(fetch.doc)'
      BY <3>1, <3>5, <3>6 DEF Behind
    <3>8. Holds(fetch.doc, Known(fetch.seq))'
      BY <3>1, <3>3, <3>4, <3>5 DEF Holds
    <3> QED
      BY <1>3, <3>1, <3>2, <3>4, <3>7, <3>8 DEF FetchInv
  <2>3. CASE FetchFail \/ Recover \/ Wake
    <3>1. fetch' = fetch \/ (fetch' \in Fetches /\ fetch'.at \in {"no", "asked"})
      <4>1. NoFetch \in Fetches /\ NoFetch.at = "no"
        BY DEF NoFetch, Fetches, Blank
      <4>2. ASSUME NEW why \in {"gap", "wake"}, Ask(why)
            PROVE  fetch' \in Fetches /\ fetch'.at = "asked"
        BY <4>1, <4>2 DEF Ask, Fetches
      <4> QED
        BY <2>3, <4>1, <4>2 DEF FetchFail, Recover, Wake
    <3> QED
      BY <1>1, <1>2, <1>3, <3>1, FetchStill, FetchIdle
  <2> QED
    BY <2>1, <2>2, <2>3
<1>9. TypeOK'
  BY <1>1, <1>2, <1>7, <1>8 DEF TypeOK, server
<1> QED
  BY <1>1, <1>2, <1>6, <1>7, <1>8, <1>9, ServerStill, ViewStill DEF IInv

\* The refetched document is adopted whole (resync).
LEMMA FetchAdoptStep ==
    ASSUME IInv, FetchAdopt
    PROVE  IInv'
<1>1. /\ fetch.at = "back" /\ view' = fetch.doc /\ stateSeq' = fetch.seq
      /\ lastEpoch' = fetch.epoch /\ fetch' = NoFetch /\ astray' = FALSE
      /\ wire' = wire \/ wire' = <<>>
      /\ stream' \in {stream, "up"} /\ waking' \in {waking, FALSE}
      /\ UNCHANGED <<server, losses, boot, answers, reval>>
  BY DEF FetchAdopt
<1>2. TypeOK /\ MadeInv /\ ServerInv /\ WireInv /\ FetchInv /\ ViewInv /\ BootInv
  BY DEF IInv
<1>3. /\ fetch.doc \in [Paths -> Nat] /\ fetch.seq \in Nat
      /\ fetch.epoch \in 1 .. epoch /\ epoch \in Nat \ {0} /\ Behind(fetch.doc)
      /\ fetch.epoch = epoch => fetch.seq <= Len(log) /\ Holds(fetch.doc, Known(fetch.seq))
  BY <1>1, <1>2 DEF TypeOK, FetchInv, Fetches
<1>4. NoFetch \in Fetches /\ NoFetch.at = "no"
  BY DEF NoFetch, Fetches, Blank
<1>5. WireInv' /\ wire' \in Seq(Messages)
  BY <1>1, <1>2, WireStill
<1>6. TypeOK'
  <2>1. fetch.epoch \in Nat
    BY <1>3
  <2>2. view' \in [Paths -> Nat] /\ stateSeq' \in Nat /\ lastEpoch' \in Nat
    BY <1>1, <1>3, <2>1
  <2>3. stream' \in {"up", "down"} /\ waking' \in BOOLEAN
    BY <1>1, <1>2 DEF TypeOK
  <2> QED
    BY <1>1, <1>2, <1>4, <1>5, <2>2, <2>3 DEF TypeOK, server
<1>7. BootInv'
  <2>1. boot = "done"
    BY <1>1, <1>2 DEF BootInv, TypeOK
  <2> QED
    BY <1>1, <1>2, <1>3, <2>1 DEF BootInv
<1>8. FetchInv'
  BY <1>1, <1>4, FetchIdle
<1>9. ViewInv'
  <2>1. epoch' = epoch /\ log' = log /\ made' = made /\ shipping' = shipping
    BY <1>1 DEF server
  <2>2. Behind(view)'
    BY <1>1, <1>3, <2>1 DEF Behind, Db, Blank
  <2>3. lastEpoch' = epoch' =>
            stateSeq' <= Len(log') /\ Holds(view, Known(stateSeq))'
    BY <1>1, <1>3, <2>1 DEF Holds, Known, Lost, Upto
  <2> QED
    BY <1>1, <1>3, <2>1, <2>2, <2>3 DEF ViewInv
<1> QED
  BY <1>1, <1>2, <1>5, <1>6, <1>7, <1>8, <1>9, ServerStill DEF IInv

\* What an applied event leaves the page with: the commits up to its seq (dispatch).
LEMMA AppliedHolds ==
    ASSUME IInv, InOrder, NEW m \in Messages, m.seq \in DOMAIN log,
           m.commit = log[m.seq], m.delta = ~made[m.commit].whole, Chains(m),
           Holds(view, Known(stateSeq))
    PROVE  Holds(Applied(m), Known(m.seq))
<1>1. /\ made \in Seq(Commits) /\ view \in [Paths -> Nat] /\ stateSeq \in Nat
      /\ log \in Seq(1 .. Len(made)) /\ Len(made) \in Nat
  BY DEF IInv, TypeOK
<1>2. m.commit \in 1 .. Len(made) /\ made[m.commit] \in Commits /\ m.seq \in 1 .. Len(log)
  BY <1>1
<1>3. \A k \in Known(m.seq) : k \in 1 .. Len(made) /\ k <= m.commit
  <2>1. ASSUME NEW k \in Lost PROVE k < m.commit
    BY DEF IInv, ServerInv
  <2>2. ASSUME NEW i \in 1 .. m.seq PROVE log[i] <= m.commit
    <3>1. i \in DOMAIN log /\ (i = m.seq \/ i < m.seq)
      BY <1>1, <1>2
    <3>2. log[i] \in Nat /\ m.commit \in Nat
      BY <1>1, <1>2, <3>1
    <3> QED
      BY <1>1, <3>1, <3>2 DEF InOrder
  <2>3. Known(m.seq) \subseteq 1 .. Len(made)
    <3>1. TypeOK /\ m.seq \in Nat /\ m.seq <= Len(log)
      BY <1>1, <1>2 DEF IInv
    <3> QED
      BY <3>1, KnownCommitted
  <2>4. ASSUME NEW k \in Known(m.seq) PROVE k <= m.commit
    <3>1. k \in Lost \/ \E i \in 1 .. m.seq : k = log[i]
      BY <2>4 DEF Known, Upto
    <3>2. k \in Nat /\ m.commit \in Nat
      BY <1>2, <2>3, <2>4
    <3> QED
      BY <2>1, <2>2, <3>1, <3>2
  <2> QED
    BY <2>3, <2>4
<1>4. CASE ~m.delta
  <2>1. Holds(made[m.commit].doc, 1 .. m.commit) /\ Applied(m) = made[m.commit].doc
    BY <1>2, <1>4 DEF IInv, MadeInv, Applied
  <2>2. Known(m.seq) \subseteq 1 .. m.commit
    BY <1>2, <1>3
  <2> QED
    BY <2>1, <2>2 DEF Holds
<1>5. CASE m.delta
  <2> SUFFICES ASSUME NEW k \in Known(m.seq), NEW p \in made[k].paths
               PROVE  Applied(m)[p] >= k
    BY DEF Holds
  <2>1. p \in Paths /\ k \in 1 .. Len(made) /\ k <= m.commit
    <3>1. k \in 1 .. Len(made) /\ k <= m.commit
      BY <1>3
    <3>2. made[k] \in Commits
      BY <1>1, <3>1
    <3> QED
      BY <3>1, <3>2 DEF Commits
  <2>2. Applied(m)[p] = IF p \in made[m.commit].paths THEN m.commit ELSE view[p]
    BY <1>5, <2>1 DEF Applied
  <2>3. CASE p \in made[m.commit].paths
    BY <1>2, <2>1, <2>2, <2>3
  <2>4. CASE p \notin made[m.commit].paths
    <3>1. k # m.commit
      BY <2>4
    <3>2. stateSeq = m.seq - 1
      BY <1>5 DEF Chains
    <3>3. k \in Lost \/ \E i \in 1 .. m.seq : k = log[i]
      BY DEF Known, Upto
    <3>4. \A i \in 1 .. m.seq : i = m.seq \/ i \in 1 .. stateSeq
      BY <1>1, <1>2, <3>2
    <3>5. k \in Lost \/ \E i \in 1 .. stateSeq : k = log[i]
      BY <3>1, <3>3, <3>4
    <3>6. k \in Known(stateSeq)
      BY <3>5 DEF Known, Upto
    <3> QED
      BY <2>2, <2>4, <3>6 DEF Holds
  <2> QED
    BY <2>3, <2>4
<1> QED
  BY <1>4, <1>5

\* What an event brings was committed.
LEMMA AppliedBehind ==
    ASSUME TypeOK, MadeInv, Behind(view), NEW m \in Messages,
           m.commit \in 1 .. Len(made)
    PROVE  Applied(m) \in [Paths -> Nat] /\ Behind(Applied(m))
<1>1. made \in Seq(Commits) /\ view \in [Paths -> Nat] /\ m.commit \in Nat
  BY DEF TypeOK
<1>2. made[m.commit] \in Commits
  BY <1>1
<1>3. Db \in [Paths -> Nat] /\ Holds(Db, 1 .. Len(made))
  BY DbHoldsAll
<1>4. CASE m.delta
  <2>1. Applied(m) = [p \in Paths |-> IF p \in made[m.commit].paths THEN m.commit ELSE view[p]]
    BY <1>4 DEF Applied
  <2>2. Applied(m) \in [Paths -> Nat]
    BY <1>1, <2>1
  <2>3. ASSUME NEW p \in Paths PROVE Applied(m)[p] <= Db[p]
    <3>1. p \in made[m.commit].paths => Db[p] >= m.commit
      BY <1>3 DEF Holds
    <3>2. view[p] <= Db[p] /\ view[p] \in Nat /\ Db[p] \in Nat
      BY <1>1, <1>3 DEF Behind
    <3> QED
      BY <1>1, <2>1, <3>1, <3>2
  <2> QED
    BY <2>2, <2>3 DEF Behind
<1>5. CASE ~m.delta
  BY <1>2, <1>5 DEF Applied, MadeInv, Commits
<1> QED
  BY <1>4, <1>5

\* One event of the stream (dispatch).
LEMMA ReceiveStep ==
    ASSUME IInv, PlainViewer, Receive
    PROVE  IInv'
<1> DEFINE m == Head(wire)
<1>1. /\ wire # <<>> /\ wire' = Tail(wire)
      /\ UNCHANGED <<server, stream, losses, boot, waking, answers, reval>>
  BY DEF Receive
<1>2. TypeOK /\ MadeInv /\ ServerInv /\ WireInv /\ FetchInv /\ ViewInv /\ BootInv
  BY DEF IInv
<1>3. /\ epoch' = epoch /\ log' = log /\ made' = made /\ shipping' = shipping
      /\ epoch \in Nat \ {0} /\ lastEpoch \in Nat /\ lastEpoch <= epoch
      /\ log \in Seq(1 .. Len(made)) /\ wire \in Seq(Messages) /\ stateSeq \in Nat
  BY <1>1, <1>2 DEF server, TypeOK, ViewInv
<1>4. /\ m \in Messages /\ m.epoch = epoch /\ m.seq \in 1 .. Len(log)
      /\ m.commit = log[m.seq] /\ m.commit \in 1 .. Len(made)
      /\ m.delta = ~made[m.commit].whole
  <2>1. m = wire[1] /\ 1 \in DOMAIN wire /\ m \in Messages
    BY <1>1, <1>3
  <2>2. /\ m.epoch = epoch /\ m.seq \in 1 .. Len(log) /\ m.commit = log[m.seq]
        /\ m.delta = ~made[m.commit].whole
    BY <1>2, <1>3, <2>1 DEF WireInv
  <2> QED
    BY <1>3, <2>1, <2>2
<1>5. boot = "done" /\ lastEpoch # 0
  BY <1>1, <1>2 DEF BootInv, TypeOK
<1>6. ~NewEpoch(m) => lastEpoch = epoch
  <2>1. CASE m.delta
    BY <1>4, <1>5, <2>1 DEF NewEpoch
  <2>2. CASE ~m.delta
    <3>1. Snapshots
      BY <1>2, <1>4, <2>2 DEF MadeInv
    <3>2. epoch <= 0 + 1
      BY <1>2, <3>1 DEF PlainViewer, ServerInv
    <3> QED
      BY <1>3, <1>5, <3>2
  <2> QED
    BY <2>1, <2>2
<1>7. \/ UNCHANGED <<view, stateSeq, lastEpoch>>
      \/ /\ ~NewEpoch(m) /\ Chains(m)
         /\ view' = Applied(m) /\ stateSeq' = m.seq /\ lastEpoch' = m.epoch
  <2>1. \/ UNCHANGED <<view, stateSeq, lastEpoch>>
        \/ /\ ~NewEpoch(m) /\ lastEpoch' = m.epoch
           /\ \/ UNCHANGED <<view, stateSeq>>
              \/ Chains(m) /\ view' = Applied(m) /\ stateSeq' = m.seq
    BY DEF Receive
  <2> QED
    BY <1>4, <1>6, <2>1
<1>8. fetch' = fetch \/ Ask("gap")
  BY DEF Receive
<1>9. fetch' \in Fetches /\ FetchInv'
  <2>1. NoFetch \in Fetches
    BY DEF NoFetch, Fetches, Blank
  <2>2. Ask("gap") => fetch' \in Fetches /\ fetch'.at = "asked"
    BY <2>1 DEF Ask, Fetches
  <2>3. fetch \in Fetches
    BY <1>2 DEF TypeOK
  <2> QED
    BY <1>1, <1>2, <1>8, <2>2, <2>3, FetchStill, FetchIdle
<1>10. WireInv' /\ wire' \in Seq(Messages)
  BY <1>1, <1>2, WireStill
<1>11. Applied(m) \in [Paths -> Nat] /\ Behind(Applied(m))
  BY <1>2, <1>4, AppliedBehind DEF ViewInv
<1>12. view' \in [Paths -> Nat] /\ stateSeq' \in Nat /\ lastEpoch' \in Nat /\ lastEpoch' # 0
  <2>1. view \in [Paths -> Nat] /\ m.seq \in Nat /\ m.epoch \in Nat /\ m.epoch # 0
    BY <1>2, <1>3, <1>4 DEF TypeOK
  <2> QED
    BY <1>3, <1>5, <1>7, <1>11, <2>1
<1>13. astray' = FALSE
  BY <1>1, <1>2, <1>4, <1>6 DEF Receive, BootInv
<1>14. TypeOK'
  BY <1>1, <1>2, <1>9, <1>10, <1>12, <1>13 DEF TypeOK, server
<1>15. BootInv'
  BY <1>1, <1>2, <1>5, <1>12, <1>13 DEF BootInv
<1>16. ViewInv'
  <2>1. CASE UNCHANGED <<view, stateSeq, lastEpoch>>
    BY <1>1, <1>2, <2>1, ViewStill
  <2>2. CASE /\ ~NewEpoch(m) /\ Chains(m)
             /\ view' = Applied(m) /\ stateSeq' = m.seq /\ lastEpoch' = m.epoch
    <3>1. lastEpoch = epoch /\ lastEpoch' = epoch
      BY <1>4, <1>6, <2>2
    <3>2. InOrder => Holds(Applied(m), Known(m.seq))
      <4>1. SUFFICES ASSUME InOrder PROVE Holds(Applied(m), Known(m.seq))
        OBVIOUS
      <4>2. Holds(view, Known(stateSeq))
        BY <1>2, <3>1, <4>1 DEF ViewInv
      <4>3. m.seq \in DOMAIN log
        BY <1>3, <1>4
      <4> QED
        BY <1>4, <2>2, <4>1, <4>2, <4>3, AppliedHolds
    <3> HIDE DEF m
    <3>3. Behind(view)'
      BY <1>3, <1>11, <2>2 DEF Behind, Db, Blank
    <3>4. InOrder' => stateSeq' <= Len(log') /\ Holds(view, Known(stateSeq))'
      BY <1>3, <1>4, <2>2, <3>2 DEF InOrder, Holds, Known, Lost, Upto
    <3> QED
      BY <1>3, <3>1, <3>3, <3>4 DEF ViewInv
  <2> QED
    BY <1>7, <2>1, <2>2
<1> QED
  BY <1>1, <1>2, <1>9, <1>10, <1>14, <1>15, <1>16, ServerStill DEF IInv

-----------------------------------------------------------------------------
(***************************************************************************)
(* The theorems.                                                           *)
(***************************************************************************)

\* The invariant holds of every behaviour of a plain viewer's feed.
LEMMA Invariance ==
    ASSUME PlainViewer
    PROVE  Spec => []IInv
<1>1. Init => IInv
  <2> SUFFICES ASSUME Init PROVE IInv
    OBVIOUS
  <2>1. TypeOK
    <3>1. NoFetch \in Fetches /\ Blank \in [Paths -> Nat]
      BY DEF NoFetch, Fetches, Blank
    <3>2. /\ <<>> \in Seq(Commits) /\ <<>> \in Seq(Messages)
          /\ \A S : <<>> \in Seq(S)
      OBVIOUS
    <3>3. made \in Seq(Commits) /\ wire \in Seq(Messages) /\ log \in Seq(1 .. Len(made))
      BY <3>2 DEF Init
    <3>4. fetch \in Fetches /\ view \in [Paths -> Nat]
      BY <3>1 DEF Init
    <3>5. reval \in [at : {"no", "wanted", "asked", "back"}, before : [Paths -> Nat],
                    doc : [Paths -> Nat]]
      BY <3>1 DEF Init, NoReval
    <3> QED
      <4>1. /\ shipping = {} /\ answers = {} /\ epoch \in Nat \ {0}
            /\ stream \in {"up", "down"} /\ losses \in Nat /\ stateSeq \in Nat
            /\ lastEpoch \in Nat /\ boot \in {"doc", "done"}
        BY DEF Init
      <4>2. waking \in BOOLEAN /\ astray \in BOOLEAN
        BY DEF Init
      <4> QED
        BY <3>3, <3>4, <3>5, <4>1, <4>2 DEF TypeOK
  <2>2. Lost = {} /\ Len(made) = 0
    BY DEF Init, Lost
  <2>3. MadeInv /\ ServerInv /\ WireInv /\ BootInv
    BY <2>2, StateFeedAssumption DEF Init, MadeInv, ServerInv, WireInv, BootInv, NoFetch, NoReval
  <2>4. FetchInv
    BY DEF Init, FetchInv, NoFetch
  <2>5. ViewInv
    BY DEF Init, ViewInv, Behind, Db, Blank
  <2> QED
    BY <2>1, <2>3, <2>4, <2>5 DEF IInv
<1>2. IInv /\ [Next]_vars => IInv'
  <2> SUFFICES ASSUME IInv, [Next]_vars PROVE IInv'
    OBVIOUS
  <2>1. CASE UNCHANGED vars
    BY <2>1 DEF vars, IInv, TypeOK, MadeInv, ServerInv, WireInv, BootInv, FetchInv,
                ViewInv, Holds, Behind, Db, Blank, Lost, Known, Upto, InOrder
  <2>2. CASE Server
    BY <2>2, CommitStep, BroadcastStep, RestartStep DEF Server
  <2>3. CASE DropOldest \/ Disconnect \/ Open
    BY <2>3, LinkStep
  <2>4. CASE Page
    <3>1. CASE InitSeq
      BY <3>1, InitSeqStep
    <3>2. CASE RevalAsk \/ RevalRead \/ RevalAdopt \/ \E n \in answers : Answer(n)
      BY <3>2 DEF IInv, BootInv, RevalAsk, RevalRead, RevalAdopt
    <3>3. CASE Receive
      BY <3>3, ReceiveStep
    <3>4. CASE FetchSeq \/ FetchDoc \/ FetchFail \/ Wake \/ Recover
      BY <3>4, FetchStep
    <3>5. CASE FetchAdopt
      BY <3>5, FetchAdoptStep
    <3> QED
      BY <2>4, <3>1, <3>2, <3>3, <3>4, <3>5 DEF Page
  <2> QED
    BY <2>1, <2>2, <2>3, <2>4 DEF Next
<1> QED
  BY <1>1, <1>2, PTL DEF Spec

\* Every variable of a plain viewer's feed stays within its type.
THEOREM TypeCorrect ==
    ASSUME PlainViewer
    PROVE  Spec => []TypeOK
<1>1. IInv => TypeOK
  BY DEF IInv
<1> QED
  BY <1>1, Invariance, PTL

\* A plain viewer never goes astray, so that what the next theorems say of a page
\* that is not astray they say of it always.
THEOREM NeverAstray ==
    ASSUME PlainViewer
    PROVE  Spec => []~astray
<1>1. IInv => ~astray
  BY DEF IInv, BootInv
<1> QED
  BY <1>1, Invariance, PTL

\* A page holds everything that was fanned out up to its seq, however many events
\* and refetches were lost and processes restarted (state-sync.ts dispatch, resync).
THEOREM SeqIsTrue ==
    ASSUME PlainViewer
    PROVE  Spec => []PageHoldsItsSeq
<1>1. IInv => PageHoldsItsSeq
  <2>1. ASSUME NEW s \in Nat, Holds(view, Known(s)) PROVE Holds(view, Upto(s))
    BY <2>1 DEF Holds, Known
  <2> QED
    BY <2>1 DEF IInv, TypeOK, ViewInv, PageHoldsItsSeq
<1> QED
  BY <1>1, Invariance, PTL

\* A page at the last seq, when everything was fanned out, shows the committed
\* document: no path is behind and none is ahead.
THEOREM LastSeqIsDb ==
    ASSUME PlainViewer
    PROVE  Spec => []UpToDateShowsDb
<1>1. IInv => UpToDateShowsDb
  <2> SUFFICES ASSUME IInv, InOrder, lastEpoch = epoch, stateSeq = Len(log), shipping = {}
               PROVE  view = Db
    BY DEF UpToDateShowsDb
  <2>1. /\ view \in [Paths -> Nat] /\ Len(made) \in Nat /\ log \in Seq(1 .. Len(made))
        /\ Behind(view) /\ Holds(view, Known(stateSeq))
    BY DEF IInv, TypeOK, ViewInv
  <2>2. /\ Db \in [Paths -> Nat]
        /\ \A p \in Paths : /\ Db[p] <= Len(made)
                            /\ Db[p] # 0 => p \in made[Db[p]].paths
    BY DbHoldsAll DEF IInv
  <2>3. 1 .. Len(made) \subseteq Known(stateSeq)
    BY <2>1 DEF Known, Lost, Upto
  <2>4. ASSUME NEW p \in Paths PROVE view[p] = Db[p]
    <3>1. view[p] <= Db[p] /\ view[p] \in Nat /\ Db[p] \in Nat
      BY <2>1, <2>2 DEF Behind
    <3>2. CASE Db[p] = 0
      BY <3>1, <3>2
    <3>3. CASE Db[p] # 0
      <4>1. Db[p] \in 1 .. Len(made) /\ p \in made[Db[p]].paths
        BY <2>1, <2>2, <3>1, <3>3
      <4>2. view[p] >= Db[p]
        BY <2>1, <2>3, <4>1 DEF Holds
      <4> QED
        BY <3>1, <4>2
    <3> QED
      BY <3>2, <3>3
  <2> QED
    BY <2>1, <2>2, <2>4
<1> QED
  BY <1>1, Invariance, PTL

-----------------------------------------------------------------------------
(***************************************************************************)
(* The page only moves forward.                                            *)
(***************************************************************************)

\* A page in the process's seq space is not beyond it, however its broadcasts are
\* ordered, and a document on its way to it is at its seq or a later one.
ForwardInv ==
    lastEpoch = epoch =>
        /\ stateSeq <= Len(log)
        /\ fetch.at \in {"read", "back"} /\ fetch.epoch = epoch => stateSeq <= fetch.seq

\* One event moves the page to its own seq, or not at all (dispatch).
LEMMA ReceiveForward ==
    ASSUME IInv, PlainViewer, ForwardInv, Receive
    PROVE  ForwardInv' /\ (lastEpoch = epoch => stateSeq' >= stateSeq)
<1> DEFINE m == Head(wire)
<1>1. /\ wire # <<>>
      /\ UNCHANGED <<server, stream, losses, boot, waking, answers, reval>>
  BY DEF Receive
<1>2. TypeOK /\ MadeInv /\ ServerInv /\ WireInv /\ ViewInv /\ BootInv
  BY DEF IInv
<1>3. /\ epoch' = epoch /\ log' = log /\ epoch \in Nat \ {0}
      /\ lastEpoch \in Nat /\ lastEpoch <= epoch /\ Len(log) \in Nat
      /\ log \in Seq(1 .. Len(made)) /\ wire \in Seq(Messages) /\ stateSeq \in Nat
  BY <1>1, <1>2 DEF server, TypeOK, ViewInv
<1>4. /\ m \in Messages /\ m.epoch = epoch /\ m.seq \in 1 .. Len(log)
      /\ m.commit \in 1 .. Len(made) /\ m.delta = ~made[m.commit].whole
  <2>1. m = wire[1] /\ 1 \in DOMAIN wire /\ m \in Messages
    BY <1>1, <1>3
  <2>2. /\ m.epoch = epoch /\ m.seq \in DOMAIN log /\ m.commit = log[m.seq]
        /\ m.delta = ~made[m.commit].whole
    BY <1>2, <2>1 DEF WireInv
  <2> QED
    BY <1>3, <2>1, <2>2
<1>5. boot = "done" /\ lastEpoch # 0
  BY <1>1, <1>2 DEF BootInv, TypeOK
<1>6. ~NewEpoch(m) => lastEpoch = epoch
  <2>1. CASE m.delta
    BY <2>1, <1>4, <1>5 DEF NewEpoch
  <2>2. CASE ~m.delta
    <3>1. Snapshots
      BY <2>2, <1>2, <1>4 DEF MadeInv
    <3>2. epoch <= 1
      BY <3>1, <1>2 DEF PlainViewer, ServerInv
    <3> QED
      BY <3>2, <1>3, <1>5
  <2> QED
    BY <2>1, <2>2
<1>7. CASE NewEpoch(m)
  <2>1. lastEpoch' = lastEpoch /\ lastEpoch # epoch
    BY <1>4, <1>7 DEF Receive, NewEpoch
  <2> QED
    BY <2>1, <1>3 DEF ForwardInv
<1>8. CASE ~NewEpoch(m)
  <2>1. lastEpoch = epoch /\ lastEpoch' = epoch
    BY <1>4, <1>6, <1>8 DEF Receive
  <2>2. stateSeq <= Len(log)
    BY <2>1 DEF ForwardInv
  <2>3. CASE stateSeq' = stateSeq /\ fetch' = fetch
    BY <2>1, <2>2, <2>3, <1>3 DEF ForwardInv
  <2>4. CASE stateSeq' = stateSeq /\ Ask("gap")
    <3>1. fetch'.at = "asked"
      BY <2>4 DEF Ask, NoFetch
    <3> QED
      BY <2>1, <2>2, <2>4, <3>1, <1>3 DEF ForwardInv
  <2>5. CASE ~Ignored(m) /\ stateSeq' = m.seq /\ fetch' = fetch
    <3>1. m.seq > stateSeq /\ fetch.at = "no"
      BY <2>5, <1>3, <1>4 DEF Ignored, Resyncing
    <3> QED
      BY <2>1, <2>5, <3>1, <1>3, <1>4 DEF ForwardInv
  <2> QED
    BY <1>8, <2>3, <2>4, <2>5 DEF Receive
<1> QED
  BY <1>7, <1>8

\* No other step moves a page of this process back either: a refetched document is
\* no older than the page, which drops every event while it waits (resync).
LEMMA NextForward ==
    ASSUME IInv, PlainViewer, ForwardInv, [Next]_vars
    PROVE  /\ ForwardInv'
           /\ lastEpoch = epoch /\ lastEpoch' = lastEpoch /\ epoch' = epoch
                 => stateSeq' >= stateSeq
<1>1. /\ epoch \in Nat \ {0} /\ lastEpoch \in Nat /\ lastEpoch <= epoch
      /\ Len(log) \in Nat /\ log \in Seq(1 .. Len(made)) /\ stateSeq \in Nat
      /\ fetch \in Fetches /\ boot \in {"doc", "done"}
  BY DEF IInv, TypeOK, ViewInv
<1>2. CASE UNCHANGED <<log, epoch, stateSeq, lastEpoch, fetch>>
  BY <1>1, <1>2 DEF ForwardInv
<1>3. CASE \E n \in shipping : Broadcast(n)
  <2>1. UNCHANGED <<epoch, stateSeq, lastEpoch, fetch>> /\ Len(log') = Len(log) + 1
    BY <1>1, <1>3 DEF Broadcast, page
  <2> QED
    BY <1>1, <2>1 DEF ForwardInv
<1>4. CASE Restart
  BY <1>1, <1>4 DEF Restart, ForwardInv
<1>5. CASE InitSeq
  <2>1. /\ lastEpoch = 0 \/ lastEpoch # epoch \/ stateSeq <= Len(log)
        /\ fetch.at = "no"
    BY <1>1, <1>5 DEF InitSeq, IInv, BootInv, ForwardInv
  <2>2. stateSeq' = Len(log) /\ UNCHANGED <<log, epoch, fetch>>
    BY <1>5 DEF InitSeq, server
  <2> QED
    BY <1>1, <2>1, <2>2 DEF ForwardInv
<1>6. CASE Receive
  <2>1. epoch' = epoch
    BY <1>6 DEF Receive, server
  <2> QED
    BY <1>6, <2>1, ReceiveForward
<1>7. CASE FetchSeq
  <2>1. /\ fetch'.seq = Len(log)
        /\ UNCHANGED <<log, epoch, stateSeq, lastEpoch>>
    BY <1>1, <1>7 DEF FetchSeq, server, Fetches
  <2> QED
    BY <1>1, <2>1 DEF ForwardInv
<1>8. CASE FetchDoc
  <2>1. /\ fetch.at = "read" /\ fetch'.seq = fetch.seq /\ fetch'.epoch = fetch.epoch
        /\ UNCHANGED <<log, epoch, stateSeq, lastEpoch>>
    BY <1>1, <1>8 DEF FetchDoc, server, Fetches
  <2> QED
    BY <1>1, <2>1 DEF ForwardInv
<1>9. CASE FetchAdopt
  <2>1. /\ fetch.at = "back" /\ stateSeq' = fetch.seq /\ lastEpoch' = fetch.epoch
        /\ fetch'.at = "no" /\ UNCHANGED <<log, epoch>>
    BY <1>9 DEF FetchAdopt, server, NoFetch
  <2>2. fetch.epoch = epoch => fetch.seq <= Len(log)
    BY <2>1 DEF IInv, FetchInv
  <2>3. fetch.seq \in Nat
    BY <1>1 DEF Fetches
  <2> QED
    BY <1>1, <2>1, <2>2, <2>3 DEF ForwardInv
<1>10. CASE FetchFail \/ Recover
  <2>1. UNCHANGED <<log, epoch, stateSeq, lastEpoch>>
    BY <1>10 DEF FetchFail, Recover, server
  <2>2. fetch' = fetch \/ fetch'.at \in {"no", "asked"}
    <3>1. NoFetch.at = "no" /\ [NoFetch EXCEPT !.at = "asked", !.why = "wake"].at = "asked"
      BY DEF NoFetch
    <3>2. \/ fetch' = fetch \/ fetch' = NoFetch
          \/ fetch' = [NoFetch EXCEPT !.at = "asked", !.why = "wake"]
      BY <1>10 DEF FetchFail, Recover, Ask
    <3> QED
      BY <3>1, <3>2
  <2> QED
    BY <1>1, <2>1, <2>2 DEF ForwardInv
<1> QED
  <2>1. Server => \/ \E n \in shipping : Broadcast(n)
                  \/ Restart
                  \/ UNCHANGED <<log, epoch, stateSeq, lastEpoch, fetch>>
    BY DEF Server, Commit, page
  <2>2. DropOldest \/ Disconnect \/ Open => UNCHANGED <<log, epoch, stateSeq, lastEpoch, fetch>>
    BY DEF DropOldest, Disconnect, Open, server, page
  <2>3. RevalAsk \/ RevalRead \/ RevalAdopt \/ Wake \/ (\E n \in answers : Answer(n))
          => UNCHANGED <<log, epoch, stateSeq, lastEpoch, fetch>>
    BY DEF RevalAsk, RevalRead, RevalAdopt, Wake, Answer, server, page
  <2>4. UNCHANGED vars => UNCHANGED <<log, epoch, stateSeq, lastEpoch, fetch>>
    BY DEF vars
  <2> QED
    BY <1>2, <1>3, <1>4, <1>5, <1>6, <1>7, <1>8, <1>9, <1>10, <2>1, <2>2, <2>3, <2>4
    DEF Next, Page

\* Within a process's seq space the page never goes back: the document a resync
\* brings is not behind the page, whatever was dropped and refetched meanwhile.
THEOREM NeverBack ==
    ASSUME PlainViewer
    PROVE  Spec => SeqNeverBack
<1>1. Init => ForwardInv
  BY DEF Init, ForwardInv
<1>2. IInv /\ ForwardInv /\ [Next]_vars => ForwardInv'
  BY NextForward
<1>3. IInv /\ ForwardInv /\ [Next]_vars
        => [lastEpoch = epoch /\ lastEpoch' = lastEpoch /\ epoch' = epoch
               => stateSeq' >= stateSeq]_<<stateSeq, lastEpoch, epoch>>
  BY NextForward
<1> QED
  BY <1>1, <1>2, <1>3, Invariance, PTL DEF Spec, SeqNeverBack

=============================================================================
