--------------------------- MODULE EditBatch_proofs ---------------------------
(***************************************************************************)
(* Proofs about the edit batcher: its type invariant, the invariant that   *)
(* relates the queue, the batches, the journal and the answers, that it    *)
(* implements EditPromise, that it tells the viewers before the editors    *)
(* and tells them everything, and that windows do not mix in the journal,  *)
(* for any jobs, matches and number of panics.                             *)
(***************************************************************************)
EXTENDS EditBatch, TLAPS

Injective(s) == \A i, k \in DOMAIN s : s[i] = s[k] => i = k

Inside == {"replay", "settled", "committed"}
Uncommitted == {"flushed", "waiting", "replay", "settled"}

\* A client that has not submitted yet has left no trace.
NewInv ==
    \A j \in Jobs : client[j] = "new" =>
        /\ pc[j] = "none"
        /\ answer[j] = "none"
        /\ j \notin InSeq(db)

\* The open window: no job twice, none answered, committed or in a batch.
OpenInv ==
    /\ Injective(open)
    /\ \A j \in InSeq(open) :
          /\ client[j] # "new"
          /\ answer[j] = "none"
          /\ j \notin InSeq(db)
          /\ \A w \in Jobs : j \notin InSeq(batch[w])

\* A window's own state: the lock while it is inside, how far it has run.
WindowInv ==
    \A w \in Jobs :
        /\ pc[w] \in Inside => lock = w
        /\ pc[w] \in {"none", "open"} => batch[w] = <<>>
        /\ pc[w] \in {"none", "open", "flushed", "waiting"} => ran[w] = 0 /\ kept[w] = <<>>
        /\ Injective(batch[w])
        /\ Injective(kept[w])
        /\ \A j \in InSeq(kept[w]) : \E i \in 1 .. ran[w] : batch[w][i] = j

\* The jobs of a window against the journal and the answers.
BatchInv ==
    \A w \in Jobs : \A j \in InSeq(batch[w]) :
        /\ client[j] # "new"
        /\ \A v \in Jobs \ {w} : j \notin InSeq(batch[v])
        /\ pc[w] \in Uncommitted => answer[j] = "none" /\ j \notin InSeq(db)
        /\ pc[w] \in {"committed", "touched"} =>
              /\ answer[j] = "none"
              /\ j \in InSeq(db) <=> j \in InSeq(kept[w])

\* What an answer says of the journal.
AnswerInv ==
    \A j \in Jobs :
        /\ answer[j] \in {"ok", "blank"} => j \in InSeq(db)
        /\ answer[j] \in {"refused", "failed"} =>
              /\ j \notin InSeq(db)
              /\ \A w \in Jobs : j \in InSeq(batch[w]) => pc[w] \in {"rest", "done", "dead"}

IInv == TypeOK /\ NewInv /\ OpenInv /\ WindowInv /\ BatchInv /\ AnswerInv

-----------------------------------------------------------------------------
(***************************************************************************)
(* Sequences.                                                              *)
(***************************************************************************)

\* What appending one element does to a sequence's elements (enqueueEdit).
LEMMA AppendElements ==
    ASSUME NEW S, NEW s \in Seq(S), NEW x \in S
    PROVE  /\ Append(s, x) \in Seq(S)
           /\ InSeq(Append(s, x)) = InSeq(s) \cup {x}
           /\ Injective(s) /\ x \notin InSeq(s) => Injective(Append(s, x))
<1>1. /\ Append(s, x) \in Seq(S) /\ Len(Append(s, x)) = Len(s) + 1
      /\ \A i \in 1 .. Len(s) : Append(s, x)[i] = s[i]
      /\ Append(s, x)[Len(s) + 1] = x
  OBVIOUS
<1>2. InSeq(Append(s, x)) = InSeq(s) \cup {x}
  BY <1>1 DEF InSeq
<1>3. ASSUME Injective(s), x \notin InSeq(s) PROVE Injective(Append(s, x))
  BY <1>1, <1>3 DEF Injective, InSeq
<1> QED
  BY <1>1, <1>2, <1>3

\* What committing a window does to the journal (tx.Commit).
LEMMA ConcatElements ==
    ASSUME NEW S, NEW s \in Seq(S), NEW t \in Seq(S)
    PROVE  /\ s \o t \in Seq(S)
           /\ InSeq(s \o t) = InSeq(s) \cup InSeq(t)
           /\ SubSeq(s \o t, Len(s) + 1, Len(s \o t)) = t
<1>1. /\ s \o t \in Seq(S) /\ Len(s \o t) = Len(s) + Len(t)
      /\ \A i \in 1 .. Len(s) : (s \o t)[i] = s[i]
      /\ \A i \in 1 .. Len(t) : (s \o t)[Len(s) + i] = t[i]
  OBVIOUS
<1>2. InSeq(s \o t) = InSeq(s) \cup InSeq(t)
  <2>1. \A i \in DOMAIN (s \o t) : i <= Len(s) \/ i - Len(s) \in DOMAIN t
    BY <1>1
  <2>2. InSeq(s \o t) \subseteq InSeq(s) \cup InSeq(t)
    BY <1>1, <2>1 DEF InSeq
  <2>3. InSeq(s) \subseteq InSeq(s \o t)
    BY <1>1 DEF InSeq
  <2>4. InSeq(t) \subseteq InSeq(s \o t)
    <3>1. \A i \in DOMAIN t : Len(s) + i \in DOMAIN (s \o t) /\ (s \o t)[Len(s) + i] = t[i]
      BY <1>1
    <3> QED
      BY <3>1 DEF InSeq
  <2> QED
    BY <2>2, <2>3, <2>4
<1>3. SubSeq(s \o t, Len(s) + 1, Len(s \o t)) = t
  <2> DEFINE u == SubSeq(s \o t, Len(s) + 1, Len(s \o t))
  <2>1. u \in Seq(S) /\ Len(u) = Len(t)
    BY <1>1
  <2>2. \A i \in 1 .. Len(t) : u[i] = t[i]
    BY <1>1
  <2> QED
    BY <2>1, <2>2
<1> QED
  BY <1>1, <1>2, <1>3

-----------------------------------------------------------------------------
(***************************************************************************)
(* The invariant is inductive.                                             *)
(***************************************************************************)

LEMMA InitIInv == Init => IInv
  BY EditBatchAssumption
  DEF Init, IInv, TypeOK, NewInv, OpenInv, WindowInv, BatchInv, AnswerInv, Injective,
      InSeq, Places, Answers, Scopes, Inside, Uncommitted

\* Only jobs are queued, batched and committed.
LEMMA OnlyJobs ==
    ASSUME IInv
    PROVE  /\ InSeq(open) \subseteq Jobs
           /\ InSeq(db) \subseteq Jobs
           /\ \A w \in Jobs : InSeq(batch[w]) \subseteq Jobs
<1>1. ASSUME NEW s \in Seq(Jobs) PROVE InSeq(s) \subseteq Jobs
  BY DEF InSeq
<1> QED
  BY <1>1 DEF IInv, TypeOK

\* A window's replayed jobs are among those it was flushed with.
LEMMA KeptInBatch ==
    ASSUME IInv, NEW w \in Jobs
    PROVE  InSeq(kept[w]) \subseteq InSeq(batch[w])
<1>1. batch[w] \in Seq(Jobs) /\ ran[w] \in 0 .. Len(batch[w])
  BY DEF IInv, TypeOK
<1>2. \A i \in 1 .. ran[w] : batch[w][i] \in InSeq(batch[w])
  BY <1>1 DEF InSeq
<1> QED
  BY <1>2 DEF IInv, WindowInv

\* Answering all of a window's jobs alike (failBatch).
LEMMA FailBatchFacts ==
    ASSUME IInv, NEW w \in Jobs, NEW why \in Answers \ {"none"}, FailBatch(w, why)
    PROVE  /\ answer' \in [Jobs -> Answers]
           /\ \A j \in Jobs : answer'[j] =
                IF j \in InSeq(batch[w]) /\ answer[j] = "none" THEN why ELSE answer[j]
<1> DEFINE r == [j \in InSeq(batch[w]) |-> why]
<1>1. DOMAIN r = InSeq(batch[w]) /\ \A j \in InSeq(batch[w]) : r[j] = why
  OBVIOUS
<1>2. answer' = [j \in Jobs |-> IF j \in DOMAIN r /\ answer[j] = "none" THEN r[j] ELSE answer[j]]
  BY DEF FailBatch, Answered
<1> HIDE DEF r
<1> QED
  BY <1>1, <1>2 DEF IInv, TypeOK

\* A window that gives up keeps the invariant, wherever it stood.
LEMMA AbandonStep ==
    ASSUME IInv, NEW w \in Jobs, NEW why \in {"refused", "failed"},
           pc[w] \in Uncommitted, Abandon(w, why),
           UNCHANGED <<client, open, batch, ran, kept, moved, loaded, toTell, db,
                       feed, panics>>
    PROVE  IInv'
<1>1. /\ answer' \in [Jobs -> Answers]
      /\ \A j \in Jobs : answer'[j] =
           IF j \in InSeq(batch[w]) /\ answer[j] = "none" THEN why ELSE answer[j]
  BY FailBatchFacts DEF Abandon, Answers
<1>2. /\ pc' \in [Jobs -> Places]
      /\ pc'[w] = "done"
      /\ \A v \in Jobs \ {w} : pc'[v] = pc[v]
  BY DEF Abandon, Goto, IInv, TypeOK, Places
<1>3. lock' = IF lock = w THEN NoWindow ELSE lock
  BY DEF Abandon
<1>4. TypeOK'
  BY <1>1, <1>2, <1>3 DEF IInv, TypeOK
<1>5. NewInv'
  BY <1>1, <1>2 DEF IInv, NewInv, BatchInv, Uncommitted
<1>6. OpenInv'
  BY <1>1, OnlyJobs DEF IInv, OpenInv
<1>7. WindowInv'
  BY <1>2, <1>3 DEF IInv, WindowInv, Inside
<1>8. BatchInv'
  <2> SUFFICES ASSUME NEW v \in Jobs, NEW j \in InSeq(batch[v])
               PROVE  /\ client[j] # "new"
                      /\ \A u \in Jobs \ {v} : j \notin InSeq(batch[u])
                      /\ pc'[v] \in Uncommitted => answer'[j] = "none" /\ j \notin InSeq(db)
                      /\ pc'[v] \in {"committed", "touched"} =>
                            /\ answer'[j] = "none"
                            /\ j \in InSeq(db) <=> j \in InSeq(kept[v])
    BY DEF BatchInv
  <2>1. j \in Jobs
    BY DEF IInv, TypeOK, InSeq
  <2>2. CASE v = w
    BY <1>2, <2>2 DEF IInv, BatchInv, Uncommitted
  <2>3. CASE v # w
    BY <1>1, <1>2, <2>1, <2>3 DEF IInv, BatchInv, Uncommitted
  <2> QED
    BY <2>2, <2>3
<1>9. AnswerInv'
  <2> SUFFICES ASSUME NEW j \in Jobs
               PROVE  /\ answer'[j] \in {"ok", "blank"} => j \in InSeq(db)
                      /\ answer'[j] \in {"refused", "failed"} =>
                            /\ j \notin InSeq(db)
                            /\ \A v \in Jobs : j \in InSeq(batch[v]) =>
                                  pc'[v] \in {"rest", "done", "dead"}
    BY DEF AnswerInv
  <2>1. CASE j \in InSeq(batch[w]) /\ answer[j] = "none"
    BY <1>1, <1>2, <2>1 DEF IInv, BatchInv, Uncommitted
  <2>2. CASE ~(j \in InSeq(batch[w]) /\ answer[j] = "none")
    BY <1>1, <1>2, <2>2 DEF IInv, AnswerInv
  <2> QED
    BY <2>1, <2>2
<1> QED
  BY <1>4, <1>5, <1>6, <1>7, <1>8, <1>9 DEF IInv

LEMMA SubmitStep ==
    ASSUME IInv, NEW j \in Jobs, Submit(j)
    PROVE  IInv'
<1>1. /\ client[j] = "new"
      /\ client' = [client EXCEPT ![j] = "waiting"]
      /\ client' \in [Jobs -> {"new", "waiting", "gone"}]
      /\ \A k \in Jobs : client'[k] = IF k = j THEN "waiting" ELSE client[k]
  BY DEF Submit, IInv, TypeOK
<1>2. /\ pc[j] = "none" /\ answer[j] = "none" /\ j \notin InSeq(db)
      /\ j \notin InSeq(open) /\ \A w \in Jobs : j \notin InSeq(batch[w])
  BY <1>1 DEF IInv, NewInv, OpenInv, BatchInv
<1>3. /\ open' \in Seq(Jobs)
      /\ InSeq(open') = InSeq(open) \cup {j}
      /\ Injective(open')
  BY <1>2, AppendElements DEF Submit, IInv, TypeOK, OpenInv
<1>4. /\ pc' \in [Jobs -> Places]
      /\ pc'[j] \in {"none", "open"}
      /\ \A w \in Jobs \ {j} : pc'[w] = pc[w]
  BY <1>2 DEF Submit, IInv, TypeOK, Places
<1>5. UNCHANGED <<batch, lock, ran, kept, moved, loaded, toTell, db, feed, answer, panics>>
  BY DEF Submit
<1>6. TypeOK'
  BY <1>1, <1>2, <1>3, <1>4, <1>5 DEF IInv, TypeOK
<1>7. NewInv'
  BY <1>1, <1>4, <1>5 DEF IInv, NewInv
<1>8. OpenInv'
  BY <1>1, <1>2, <1>3, <1>5, OnlyJobs DEF IInv, OpenInv
<1>9. WindowInv'
  <2>1. batch[j] = <<>> /\ ran[j] = 0 /\ kept[j] = <<>>
    BY <1>2 DEF IInv, WindowInv
  <2> QED
    BY <1>4, <1>5, <2>1 DEF IInv, WindowInv, Inside
<1>10. BatchInv'
  <2>1. InSeq(batch[j]) = {}
    BY <1>2 DEF IInv, WindowInv, InSeq
  <2> QED
    BY <1>1, <1>4, <1>5, <2>1, OnlyJobs DEF IInv, BatchInv
<1>11. AnswerInv'
  BY <1>2, <1>4, <1>5 DEF IInv, AnswerInv
<1> QED
  BY <1>6, <1>7, <1>8, <1>9, <1>10, <1>11 DEF IInv

LEMMA HangUpStep ==
    ASSUME IInv, NEW j \in Jobs, HangUp(j)
    PROVE  IInv'
<1>1. /\ client' \in [Jobs -> {"new", "waiting", "gone"}]
      /\ \A k \in Jobs : client'[k] = "new" <=> client[k] = "new"
  BY DEF HangUp, IInv, TypeOK
<1>2. UNCHANGED <<open, batch, pc, lock, ran, kept, moved, loaded, toTell, db, feed,
                  answer, panics>>
  BY DEF HangUp
<1>3. TypeOK' /\ NewInv' /\ WindowInv' /\ AnswerInv'
  BY <1>1, <1>2 DEF IInv, TypeOK, NewInv, WindowInv, AnswerInv
<1>4. OpenInv'
  BY <1>1, <1>2, OnlyJobs DEF IInv, OpenInv
<1>5. BatchInv'
  BY <1>1, <1>2, OnlyJobs DEF IInv, BatchInv
<1> QED
  BY <1>3, <1>4, <1>5 DEF IInv

LEMMA FlushStep ==
    ASSUME IInv, NEW w \in Jobs, Flush(w)
    PROVE  IInv'
<1>1. /\ pc[w] = "open" /\ batch[w] = <<>> /\ ran[w] = 0 /\ kept[w] = <<>>
      /\ client[w] # "new"
  BY DEF Flush, IInv, WindowInv, NewInv
<1>2. /\ batch' \in [Jobs -> Seq(Jobs)]
      /\ batch'[w] = open
      /\ \A v \in Jobs \ {w} : batch'[v] = batch[v]
  BY DEF Flush, IInv, TypeOK
<1>3. /\ pc' \in [Jobs -> Places]
      /\ pc'[w] = "flushed"
      /\ \A v \in Jobs \ {w} : pc'[v] = pc[v]
  BY DEF Flush, Goto, IInv, TypeOK, Places
<1>4. open' = <<>> /\ open' \in Seq(Jobs) /\ InSeq(open') = {}
  BY DEF Flush, InSeq
<1>5. UNCHANGED <<client, lock, ran, kept, moved, loaded, toTell, db, feed, answer, panics>>
  BY DEF Flush
<1>6. TypeOK'
  <2>1. lock' # w
    BY <1>1, <1>5, EditBatchAssumption DEF IInv, TypeOK
  <2>2. ran'[w] <= Len(batch'[w])
    BY <1>1, <1>2, <1>5 DEF IInv, TypeOK
  <2> QED
    BY <1>2, <1>3, <1>4, <1>5, <2>1, <2>2 DEF IInv, TypeOK
<1>7. NewInv'
  BY <1>1, <1>3, <1>5 DEF IInv, NewInv
<1>8. OpenInv'
  BY <1>4 DEF OpenInv, Injective
<1>9. WindowInv'
  <2>1. Injective(batch'[w]) /\ Injective(kept'[w]) /\ InSeq(kept'[w]) = {}
    BY <1>1, <1>2, <1>5 DEF IInv, OpenInv, Injective, InSeq
  <2> SUFFICES ASSUME NEW v \in Jobs
               PROVE  /\ pc'[v] \in Inside => lock = v
                      /\ pc'[v] \in {"none", "open"} => batch'[v] = <<>>
                      /\ pc'[v] \in {"none", "open", "flushed", "waiting"} =>
                            ran[v] = 0 /\ kept[v] = <<>>
                      /\ Injective(batch'[v]) /\ Injective(kept[v])
                      /\ \A j \in InSeq(kept[v]) : \E i \in 1 .. ran[v] : batch'[v][i] = j
    BY <1>5 DEF WindowInv
  <2>2. CASE v = w
    BY <1>1, <1>3, <1>5, <2>1, <2>2 DEF Inside
  <2>3. CASE v # w
    <3>1. batch'[v] = batch[v] /\ pc'[v] = pc[v]
      BY <1>2, <1>3, <2>3
    <3>2. WindowInv
      BY DEF IInv
    <3> QED
      BY <3>1, <3>2 DEF WindowInv
  <2> QED
    BY <2>2, <2>3
<1>10. BatchInv'
  <2> SUFFICES ASSUME NEW v \in Jobs, NEW j \in InSeq(batch'[v])
               PROVE  /\ client[j] # "new"
                      /\ \A u \in Jobs \ {v} : j \notin InSeq(batch'[u])
                      /\ pc'[v] \in Uncommitted => answer[j] = "none" /\ j \notin InSeq(db)
                      /\ pc'[v] \in {"committed", "touched"} =>
                            /\ answer[j] = "none"
                            /\ j \in InSeq(db) <=> j \in InSeq(kept[v])
    BY <1>5 DEF BatchInv
  <2>1. CASE v = w
    BY <1>2, <1>3, <2>1 DEF IInv, OpenInv
  <2>2. CASE v # w
    BY <1>2, <1>3, <2>2 DEF IInv, OpenInv, BatchInv
  <2> QED
    BY <2>1, <2>2
<1>11. AnswerInv'
  BY <1>1, <1>2, <1>3, <1>5 DEF IInv, AnswerInv, OpenInv
<1> QED
  BY <1>6, <1>7, <1>8, <1>9, <1>10, <1>11 DEF IInv

LEMMA TakeConnStep ==
    ASSUME IInv, NEW w \in Jobs, TakeConn(w)
    PROVE  IInv'
<1>1. CASE Abandon(w, "failed")
  BY <1>1, AbandonStep DEF TakeConn, Uncommitted
<1>2. CASE Goto(w, "waiting") /\ UNCHANGED <<lock, answer>>
  <2>1. /\ pc[w] = "flushed"
        /\ pc' \in [Jobs -> Places]
        /\ pc'[w] = "waiting"
        /\ \A v \in Jobs \ {w} : pc'[v] = pc[v]
    BY <1>2 DEF TakeConn, Goto, IInv, TypeOK, Places
  <2>2. UNCHANGED <<client, open, batch, lock, ran, kept, moved, loaded, toTell, db,
                    feed, answer, panics>>
    BY <1>2 DEF TakeConn
  <2>3. TypeOK' /\ NewInv' /\ OpenInv'
    BY <2>1, <2>2 DEF IInv, TypeOK, NewInv, OpenInv
  <2>4. WindowInv'
    BY <2>1, <2>2 DEF IInv, WindowInv, Inside
  <2>5. BatchInv' /\ AnswerInv'
    BY <2>1, <2>2 DEF IInv, BatchInv, AnswerInv, Uncommitted
  <2> QED
    BY <2>3, <2>4, <2>5 DEF IInv
<1> QED
  BY <1>1, <1>2 DEF TakeConn

LEMMA TakeLockStep ==
    ASSUME IInv, NEW w \in Jobs, TakeLock(w)
    PROVE  IInv'
<1>1. CASE Abandon(w, "failed")
  BY <1>1, AbandonStep DEF TakeLock, Uncommitted
<1>2. CASE lock' = w /\ Goto(w, "replay") /\ UNCHANGED answer
  <2>1. /\ pc[w] = "waiting" /\ lock = NoWindow /\ lock' = w
        /\ pc' \in [Jobs -> Places]
        /\ pc'[w] = "replay"
        /\ \A v \in Jobs \ {w} : pc'[v] = pc[v]
    BY <1>2 DEF TakeLock, Goto, IInv, TypeOK, Places
  <2>2. UNCHANGED <<client, open, batch, ran, kept, moved, loaded, toTell, db, feed,
                    answer, panics>>
    BY <1>2 DEF TakeLock
  <2>3. TypeOK' /\ NewInv' /\ OpenInv'
    BY <2>1, <2>2 DEF IInv, TypeOK, NewInv, OpenInv
  <2>4. WindowInv'
    BY <2>1, <2>2, EditBatchAssumption DEF IInv, WindowInv, Inside
  <2>5. BatchInv' /\ AnswerInv'
    BY <2>1, <2>2 DEF IInv, BatchInv, AnswerInv, Uncommitted
  <2> QED
    BY <2>3, <2>4, <2>5 DEF IInv
<1> QED
  BY <1>1, <1>2 DEF TakeLock

LEMMA RunJobStep ==
    ASSUME IInv, NEW w \in Jobs, RunJob(w)
    PROVE  IInv'
<1> DEFINE x == batch[w][ran[w] + 1]
<1>1. /\ pc[w] = "replay"
      /\ ran[w] < Len(batch[w])
      /\ ran' = [ran EXCEPT ![w] = ran[w] + 1]
      /\ kept' = [kept EXCEPT ![w] = Append(kept[w], x)] \/ kept' = kept
      /\ UNCHANGED <<client, open, batch, pc, lock, moved, loaded, toTell, db, feed,
                     answer, panics>>
  BY DEF RunJob
<1>2. /\ batch \in [Jobs -> Seq(Jobs)]
      /\ kept \in [Jobs -> Seq(Jobs)]
      /\ ran \in [Jobs -> Nat]
  BY DEF IInv, TypeOK
<1>3. /\ batch[w] \in Seq(Jobs) /\ kept[w] \in Seq(Jobs) /\ ran[w] \in Nat
      /\ ran[w] + 1 \in 1 .. Len(batch[w])
  BY <1>1, <1>2
<1>4. /\ ran' \in [Jobs -> Nat]
      /\ ran'[w] = ran[w] + 1
      /\ \A v \in Jobs \ {w} : ran'[v] = ran[v]
  BY <1>1, <1>2, <1>3
<1>5. x \in Jobs
  BY <1>3
<1>6. x \notin InSeq(kept[w])
  <2>1. SUFFICES ASSUME x \in InSeq(kept[w]) PROVE FALSE
    OBVIOUS
  <2>2. PICK i \in 1 .. ran[w] : batch[w][i] = x
    BY <2>1 DEF IInv, WindowInv
  <2>3. Injective(batch[w])
    BY DEF IInv, WindowInv
  <2> QED
    BY <1>3, <2>2, <2>3 DEF Injective
<1> HIDE DEF x
<1>7. /\ kept' \in [Jobs -> Seq(Jobs)]
      /\ kept'[w] = Append(kept[w], x) \/ kept'[w] = kept[w]
      /\ \A v \in Jobs \ {w} : kept'[v] = kept[v]
  <2>1. Append(kept[w], x) \in Seq(Jobs)
    BY <1>3, <1>5, AppendElements
  <2> QED
    BY <1>1, <1>2, <2>1
<1>8. /\ Injective(kept'[w])
      /\ InSeq(kept'[w]) \subseteq InSeq(kept[w]) \cup {x}
  <2>1. Injective(kept[w])
    BY DEF IInv, WindowInv
  <2>2. /\ InSeq(Append(kept[w], x)) = InSeq(kept[w]) \cup {x}
        /\ Injective(Append(kept[w], x))
    BY <1>3, <1>5, <1>6, <2>1, AppendElements
  <2>3. CASE kept'[w] = kept[w]
    BY <2>1, <2>3
  <2>4. CASE kept'[w] = Append(kept[w], x)
    BY <2>2, <2>4
  <2> QED
    BY <1>7, <2>3, <2>4
<1>9. \A j \in InSeq(kept'[w]) : \E i \in 1 .. ran'[w] : batch[w][i] = j
  <2> SUFFICES ASSUME NEW j \in InSeq(kept'[w])
               PROVE  \E i \in 1 .. ran'[w] : batch[w][i] = j
    OBVIOUS
  <2>1. CASE j = x
    BY <1>3, <1>4, <2>1 DEF x
  <2>2. CASE j \in InSeq(kept[w])
    <3>1. PICK i \in 1 .. ran[w] : batch[w][i] = j
      BY <2>2 DEF IInv, WindowInv
    <3> QED
      BY <1>3, <1>4, <3>1
  <2> QED
    BY <1>8, <2>1, <2>2
<1>10. TypeOK'
  <2>1. ASSUME NEW v \in Jobs PROVE ran'[v] <= Len(batch[v])
    <3>1. CASE v = w
      BY <1>3, <1>4, <3>1
    <3>2. CASE v # w
      BY <1>4, <3>2 DEF IInv, TypeOK
    <3> QED
      BY <3>1, <3>2
  <2> QED
    BY <1>1, <1>4, <1>7, <2>1 DEF IInv, TypeOK
<1>11. NewInv' /\ OpenInv' /\ AnswerInv'
  BY <1>1 DEF IInv, NewInv, OpenInv, AnswerInv
<1>12. WindowInv'
  <2> SUFFICES ASSUME NEW v \in Jobs
               PROVE  /\ pc[v] \in Inside => lock = v
                      /\ pc[v] \in {"none", "open"} => batch[v] = <<>>
                      /\ pc[v] \in {"none", "open", "flushed", "waiting"} =>
                            ran'[v] = 0 /\ kept'[v] = <<>>
                      /\ Injective(batch[v]) /\ Injective(kept'[v])
                      /\ \A j \in InSeq(kept'[v]) : \E i \in 1 .. ran'[v] : batch[v][i] = j
    BY <1>1 DEF WindowInv
  <2>1. CASE v = w
    BY <1>1, <1>8, <1>9, <2>1 DEF IInv, WindowInv
  <2>2. CASE v # w
    <3>1. ran'[v] = ran[v] /\ kept'[v] = kept[v]
      BY <1>4, <1>7, <2>2
    <3>2. WindowInv
      BY DEF IInv
    <3> QED
      BY <3>1, <3>2 DEF WindowInv
  <2> QED
    BY <2>1, <2>2
<1>13. BatchInv'
  BY <1>1, <1>7 DEF IInv, BatchInv
<1> QED
  BY <1>10, <1>11, <1>12, <1>13 DEF IInv

LEMMA NothingKeptStep ==
    ASSUME IInv, NEW w \in Jobs, NothingKept(w)
    PROVE  IInv'
  BY AbandonStep DEF NothingKept, Uncommitted

LEMMA SettleStep ==
    ASSUME IInv, NEW w \in Jobs, Settle(w)
    PROVE  IInv'
<1>1. CASE Abandon(w, "failed") /\ UNCHANGED moved
  BY <1>1, AbandonStep DEF Settle, Uncommitted
<1>2. CASE ~(Abandon(w, "failed") /\ UNCHANGED moved)
  <2>1. PICK ms \in SUBSET Matches : moved' = [moved EXCEPT ![w] = ms]
    BY <1>2 DEF Settle
  <2>2. /\ pc[w] = "replay"
        /\ Goto(w, "settled")
        /\ UNCHANGED <<client, open, batch, lock, ran, kept, loaded, toTell, db,
                       feed, answer, panics>>
    BY <1>2 DEF Settle
  <2>3. /\ pc' \in [Jobs -> Places]
        /\ pc'[w] = "settled"
        /\ \A v \in Jobs \ {w} : pc'[v] = pc[v]
    BY <2>2 DEF Goto, IInv, TypeOK, Places
  <2>4. moved' \in [Jobs -> SUBSET Matches]
    BY <2>1 DEF IInv, TypeOK
  <2>5. TypeOK' /\ NewInv' /\ OpenInv'
    BY <2>2, <2>3, <2>4 DEF IInv, TypeOK, NewInv, OpenInv
  <2>6. WindowInv'
    BY <2>2, <2>3 DEF IInv, WindowInv, Inside
  <2>7. BatchInv' /\ AnswerInv'
    BY <2>2, <2>3 DEF IInv, BatchInv, AnswerInv, Uncommitted
  <2> QED
    BY <2>5, <2>6, <2>7 DEF IInv
<1> QED
  BY <1>1, <1>2

LEMMA CommitStep ==
    ASSUME IInv, NEW w \in Jobs, Commit(w)
    PROVE  IInv'
<1>1. CASE Abandon(w, "failed") /\ UNCHANGED db
  BY <1>1, AbandonStep DEF Commit, Uncommitted
<1>2. CASE ~(Abandon(w, "failed") /\ UNCHANGED db)
  <2>1. /\ pc[w] = "settled"
        /\ db' = db \o kept[w]
        /\ Goto(w, "committed")
        /\ UNCHANGED <<client, open, batch, lock, ran, kept, moved, loaded, toTell,
                       feed, answer, panics>>
    BY <1>2 DEF Commit
  <2>2. /\ pc' \in [Jobs -> Places]
        /\ pc'[w] = "committed"
        /\ \A v \in Jobs \ {w} : pc'[v] = pc[v]
    BY <2>1 DEF Goto, IInv, TypeOK, Places
  <2>3. /\ db' \in Seq(Jobs)
        /\ InSeq(db') = InSeq(db) \cup InSeq(kept[w])
    <3>1. db \in Seq(Jobs) /\ kept[w] \in Seq(Jobs)
      BY DEF IInv, TypeOK
    <3> QED
      BY <2>1, <3>1, ConcatElements
  <2>4. \A j \in InSeq(kept[w]) :
           /\ client[j] # "new" /\ answer[j] = "none"
           /\ j \notin InSeq(db) /\ j \notin InSeq(open)
           /\ \A v \in Jobs \ {w} : j \notin InSeq(batch[v])
    BY <2>1, KeptInBatch DEF IInv, BatchInv, OpenInv, Uncommitted
  <2>5. TypeOK' /\ NewInv'
    BY <2>1, <2>2, <2>3, <2>4 DEF IInv, TypeOK, NewInv
  <2>6. OpenInv'
    BY <2>1, <2>3, <2>4 DEF IInv, OpenInv
  <2>7. WindowInv'
    <3>1. lock = w
      BY <2>1 DEF IInv, WindowInv, Inside
    <3> QED
      BY <2>1, <2>2, <3>1 DEF IInv, WindowInv
  <2>8. BatchInv'
    <3> SUFFICES ASSUME NEW v \in Jobs, NEW j \in InSeq(batch[v])
                 PROVE  /\ client[j] # "new"
                        /\ \A u \in Jobs \ {v} : j \notin InSeq(batch[u])
                        /\ pc'[v] \in Uncommitted => answer[j] = "none" /\ j \notin InSeq(db')
                        /\ pc'[v] \in {"committed", "touched"} =>
                              /\ answer[j] = "none"
                              /\ j \in InSeq(db') <=> j \in InSeq(kept[v])
      BY <2>1 DEF BatchInv
    <3>1. CASE v = w
      BY <2>1, <2>2, <2>3, <3>1 DEF IInv, BatchInv, Uncommitted
    <3>2. CASE v # w
      BY <2>2, <2>3, <2>4, <3>2 DEF IInv, BatchInv
    <3> QED
      BY <3>1, <3>2
  <2>9. AnswerInv'
    BY <2>1, <2>2, <2>3, <2>4 DEF IInv, AnswerInv
  <2> QED
    BY <2>5, <2>6, <2>7, <2>8, <2>9 DEF IInv
<1> QED
  BY <1>1, <1>2

LEMMA UnlockStep ==
    ASSUME IInv, NEW w \in Jobs, Unlock(w)
    PROVE  IInv'
<1>1. /\ pc[w] = "committed"
      /\ lock' = NoWindow
      /\ UNCHANGED <<client, open, batch, ran, kept, moved, db, feed, answer, panics>>
  BY DEF Unlock
<1>2. /\ pc' \in [Jobs -> Places]
      /\ pc'[w] = "touched"
      /\ \A v \in Jobs \ {w} : pc'[v] = pc[v]
  BY DEF Unlock, Goto, IInv, TypeOK, Places
<1>3. loaded' \in [Jobs -> SUBSET Matches] /\ toTell' \in [Jobs -> SUBSET Scopes]
  <2>1. moved[w] \subseteq Matches /\ Touched(w) \subseteq Matches
    BY DEF IInv, TypeOK, Touched
  <2>2. PICK ms \in SUBSET (Touched(w) \cup moved[w]) : loaded' = [loaded EXCEPT ![w] = ms]
    BY DEF Unlock
  <2>3. toTell' = [toTell EXCEPT ![w] = Touched(w)]
    BY DEF Unlock
  <2> QED
    BY <2>1, <2>2, <2>3 DEF IInv, TypeOK, Scopes
<1>4. lock = w
  BY <1>1 DEF IInv, WindowInv, Inside
<1>5. TypeOK' /\ NewInv' /\ OpenInv'
  BY <1>1, <1>2, <1>3 DEF IInv, TypeOK, NewInv, OpenInv
<1>6. WindowInv'
  BY <1>1, <1>2, <1>4 DEF IInv, WindowInv, Inside
<1>7. BatchInv' /\ AnswerInv'
  BY <1>1, <1>2 DEF IInv, BatchInv, AnswerInv, Uncommitted
<1> QED
  BY <1>5, <1>6, <1>7 DEF IInv

\* Fanning out an event changes nothing the invariant speaks of but its types.
LEMMA TellStep ==
    ASSUME IInv, NEW w \in Jobs, NEW m \in Scopes,
           feed' = Append(feed, Event(w, m)),
           toTell' = [toTell EXCEPT ![w] = @ \ {m}],
           UNCHANGED <<client, open, batch, pc, lock, ran, kept, moved, loaded, db,
                       answer, panics>>
    PROVE  IInv'
<1>1. Event(w, m) \in [scope : Scopes, window : Jobs]
  BY DEF Event
<1>2. feed' \in Seq([scope : Scopes, window : Jobs])
  BY <1>1, AppendElements DEF IInv, TypeOK
<1>3. toTell' \in [Jobs -> SUBSET Scopes]
  BY DEF IInv, TypeOK
<1> QED
  BY <1>2, <1>3
  DEF IInv, TypeOK, NewInv, OpenInv, WindowInv, BatchInv, AnswerInv

LEMMA TellTouchedStep ==
    ASSUME IInv, NEW w \in Jobs, TellTouched(w)
    PROVE  IInv'
<1>1. toTell[w] \subseteq Scopes
  BY DEF IInv, TypeOK
<1> QED
  BY <1>1, TellStep DEF TellTouched

LEMMA TellRestStep ==
    ASSUME IInv, NEW w \in Jobs, TellRest(w)
    PROVE  IInv'
<1>1. toTell[w] \subseteq Scopes
  BY DEF IInv, TypeOK
<1> QED
  BY <1>1, TellStep DEF TellRest

LEMMA DeliverStep ==
    ASSUME IInv, NEW w \in Jobs, Deliver(w)
    PROVE  IInv'
<1> DEFINE r == [j \in InSeq(batch[w]) |->
                   IF j \notin InSeq(kept[w]) THEN "refused"
                   ELSE IF ScopeOf[j] \in Matches \ loaded[w] THEN "blank" ELSE "ok"]
<1>1. /\ pc[w] = "touched"
      /\ answer' = [j \in Jobs |-> IF j \in DOMAIN r /\ answer[j] = "none"
                                   THEN r[j] ELSE answer[j]]
      /\ moved' = [moved EXCEPT ![w] = {}]
      /\ loaded' = [loaded EXCEPT ![w] = {}]
      /\ UNCHANGED <<client, open, batch, lock, ran, kept, db, feed, panics>>
  BY DEF Deliver, Answered
<1>2. /\ DOMAIN r = InSeq(batch[w])
      /\ \A j \in InSeq(batch[w]) :
            /\ r[j] \in {"refused", "blank", "ok"}
            /\ r[j] = "refused" <=> j \notin InSeq(kept[w])
  OBVIOUS
<1> HIDE DEF r
<1>3. /\ pc' \in [Jobs -> Places]
      /\ pc'[w] = "rest"
      /\ \A v \in Jobs \ {w} : pc'[v] = pc[v]
  BY DEF Deliver, Goto, IInv, TypeOK, Places
<1>4. /\ answer' \in [Jobs -> Answers]
      /\ \A j \in Jobs : answer'[j] =
           IF j \in InSeq(batch[w]) /\ answer[j] = "none" THEN r[j] ELSE answer[j]
  BY <1>1, <1>2 DEF IInv, TypeOK, Answers
<1>5. toTell' \in [Jobs -> SUBSET Scopes]
  <2>1. PICK T \in SUBSET Scopes : toTell' = [toTell EXCEPT ![w] = T]
    <3>1. moved[w] \subseteq Matches
      BY DEF IInv, TypeOK
    <3> QED
      BY <3>1 DEF Deliver, Scopes
  <2> QED
    BY <2>1 DEF IInv, TypeOK
<1>6. TypeOK' /\ NewInv'
  <2>1. moved' \in [Jobs -> SUBSET Matches] /\ loaded' \in [Jobs -> SUBSET Matches]
    BY <1>1 DEF IInv, TypeOK
  <2>2. lock # w
    BY <1>1, EditBatchAssumption DEF IInv, TypeOK
  <2>3. TypeOK'
    BY <1>1, <1>3, <1>4, <1>5, <2>1, <2>2 DEF IInv, TypeOK
  <2>4. NewInv'
    BY <1>1, <1>3, <1>4 DEF IInv, NewInv, BatchInv
  <2> QED
    BY <2>3, <2>4
<1>7. OpenInv'
  BY <1>1, <1>4, OnlyJobs DEF IInv, OpenInv
<1>8. WindowInv'
  BY <1>1, <1>3 DEF IInv, WindowInv, Inside
<1>9. BatchInv'
  <2> SUFFICES ASSUME NEW v \in Jobs, NEW j \in InSeq(batch[v])
               PROVE  /\ client[j] # "new"
                      /\ \A u \in Jobs \ {v} : j \notin InSeq(batch[u])
                      /\ pc'[v] \in Uncommitted => answer'[j] = "none" /\ j \notin InSeq(db)
                      /\ pc'[v] \in {"committed", "touched"} =>
                            /\ answer'[j] = "none"
                            /\ j \in InSeq(db) <=> j \in InSeq(kept[v])
    BY <1>1 DEF BatchInv
  <2>1. j \in Jobs
    BY OnlyJobs
  <2>2. CASE v = w
    BY <1>3, <2>2 DEF IInv, BatchInv, Uncommitted
  <2>3. CASE v # w
    BY <1>3, <1>4, <2>1, <2>3 DEF IInv, BatchInv
  <2> QED
    BY <2>2, <2>3
<1>10. AnswerInv'
  <2> SUFFICES ASSUME NEW j \in Jobs
               PROVE  /\ answer'[j] \in {"ok", "blank"} => j \in InSeq(db)
                      /\ answer'[j] \in {"refused", "failed"} =>
                            /\ j \notin InSeq(db)
                            /\ \A v \in Jobs : j \in InSeq(batch[v]) =>
                                  pc'[v] \in {"rest", "done", "dead"}
    BY <1>1 DEF AnswerInv
  <2>1. CASE j \in InSeq(batch[w]) /\ answer[j] = "none"
    <3>1. j \in InSeq(db) <=> j \in InSeq(kept[w])
      BY <1>1, <2>1 DEF IInv, BatchInv
    <3>2. \A v \in Jobs \ {w} : j \notin InSeq(batch[v])
      BY <2>1 DEF IInv, BatchInv
    <3> QED
      BY <1>2, <1>3, <1>4, <2>1, <3>1, <3>2
  <2>2. CASE ~(j \in InSeq(batch[w]) /\ answer[j] = "none")
    BY <1>3, <1>4, <2>2 DEF IInv, AnswerInv
  <2> QED
    BY <2>1, <2>2
<1> QED
  BY <1>6, <1>7, <1>8, <1>9, <1>10 DEF IInv

LEMMA FinishStep ==
    ASSUME IInv, NEW w \in Jobs, Finish(w)
    PROVE  IInv'
<1>1. /\ pc[w] = "rest"
      /\ UNCHANGED <<client, open, batch, lock, ran, kept, moved, loaded, toTell, db,
                     feed, answer, panics>>
  BY DEF Finish
<1>2. /\ pc' \in [Jobs -> Places]
      /\ pc'[w] = "done"
      /\ \A v \in Jobs \ {w} : pc'[v] = pc[v]
  BY DEF Finish, Goto, IInv, TypeOK, Places
<1>3. TypeOK' /\ NewInv' /\ OpenInv'
  BY <1>1, <1>2 DEF IInv, TypeOK, NewInv, OpenInv
<1>4. WindowInv'
  BY <1>1, <1>2 DEF IInv, WindowInv, Inside
<1>5. BatchInv' /\ AnswerInv'
  BY <1>1, <1>2 DEF IInv, BatchInv, AnswerInv, Uncommitted
<1> QED
  BY <1>3, <1>4, <1>5 DEF IInv

LEMMA PanicStep ==
    ASSUME IInv, NEW w \in Jobs, Panic(w)
    PROVE  IInv'
<1>1. /\ pc[w] \notin {"none", "open", "done", "dead"}
      /\ FailBatch(w, "crashed")
      /\ panics' = panics + 1
      /\ toTell' = [toTell EXCEPT ![w] = {}]
      /\ moved' = [moved EXCEPT ![w] = {}]
      /\ loaded' = [loaded EXCEPT ![w] = {}]
      /\ UNCHANGED <<client, open, batch, lock, ran, kept, db, feed>>
  BY DEF Panic
<1>2. /\ pc' \in [Jobs -> Places]
      /\ pc'[w] = "dead"
      /\ \A v \in Jobs \ {w} : pc'[v] = pc[v]
  BY DEF Panic, Goto, IInv, TypeOK, Places
<1>3. /\ answer' \in [Jobs -> Answers]
      /\ \A j \in Jobs : answer'[j] =
           IF j \in InSeq(batch[w]) /\ answer[j] = "none" THEN "crashed" ELSE answer[j]
  BY <1>1, FailBatchFacts DEF Answers
<1>4. TypeOK'
  <2>1. /\ toTell' \in [Jobs -> SUBSET Scopes]
        /\ moved' \in [Jobs -> SUBSET Matches]
        /\ loaded' \in [Jobs -> SUBSET Matches]
        /\ panics' \in Nat
    BY <1>1 DEF IInv, TypeOK
  <2> QED
    BY <1>1, <1>2, <1>3, <2>1 DEF IInv, TypeOK
<1>5. NewInv'
  BY <1>1, <1>2, <1>3 DEF IInv, NewInv, BatchInv
<1>6. OpenInv'
  BY <1>1, <1>3, OnlyJobs DEF IInv, OpenInv
<1>7. WindowInv'
  BY <1>1, <1>2 DEF IInv, WindowInv, Inside
<1>8. BatchInv'
  <2> SUFFICES ASSUME NEW v \in Jobs, NEW j \in InSeq(batch[v])
               PROVE  /\ client[j] # "new"
                      /\ \A u \in Jobs \ {v} : j \notin InSeq(batch[u])
                      /\ pc'[v] \in Uncommitted => answer'[j] = "none" /\ j \notin InSeq(db)
                      /\ pc'[v] \in {"committed", "touched"} =>
                            /\ answer'[j] = "none"
                            /\ j \in InSeq(db) <=> j \in InSeq(kept[v])
    BY <1>1 DEF BatchInv
  <2>1. j \in Jobs
    BY OnlyJobs
  <2>2. CASE v = w
    BY <1>2, <2>2 DEF IInv, BatchInv, Uncommitted
  <2>3. CASE v # w
    BY <1>2, <1>3, <2>1, <2>3 DEF IInv, BatchInv
  <2> QED
    BY <2>2, <2>3
<1>9. AnswerInv'
  BY <1>1, <1>2, <1>3 DEF IInv, AnswerInv
<1> QED
  BY <1>4, <1>5, <1>6, <1>7, <1>8, <1>9 DEF IInv

-----------------------------------------------------------------------------
LEMMA NextIInv ==
    ASSUME IInv, [Next]_vars
    PROVE  IInv'
<1>1. CASE UNCHANGED vars
  BY <1>1 DEF vars, IInv, TypeOK, NewInv, OpenInv, WindowInv, BatchInv, AnswerInv
<1>2. ASSUME NEW j \in Jobs, Request(j) \/ Step(j) \/ Panic(j) PROVE IInv'
  BY <1>2, SubmitStep, HangUpStep, FlushStep, TakeConnStep, TakeLockStep, RunJobStep,
     NothingKeptStep, SettleStep, CommitStep, UnlockStep, TellTouchedStep, DeliverStep,
     TellRestStep, FinishStep, PanicStep
  DEF Request, Step
<1> QED
  BY <1>1, <1>2 DEF Next

\* Every step of a window, its commit, its answers and its panic included, keeps
\* what the window's place says of its jobs (web/editbatch: applyEditBatch).
THEOREM Invariance == Spec => []IInv
  BY InitIInv, NextIInv, PTL DEF Spec

\* Every reachable state of the batcher is well typed, the write lock is held only
\* by a window inside it, and no window runs past its jobs (applyEditBatch).
THEOREM TypeCorrect == Spec => []TypeOK
<1>1. IInv => TypeOK
  BY DEF IInv
<1> QED
  BY <1>1, Invariance, PTL

-----------------------------------------------------------------------------
(***************************************************************************)
(* The batcher implements EditPromise.                                     *)
(***************************************************************************)
Asked == {j \in Jobs : client[j] # "new"}

\* Steps that neither submit, commit nor answer are stutters of the promise.
LEMMA StutterStep ==
    ASSUME Asked' = Asked, UNCHANGED <<db, answer>>
    PROVE  UNCHANGED Promise!vars
<1>1. Told' = Told
  BY DEF Told
<1> QED
  BY <1>1 DEF Promise!vars, Asked

\* A step that only answers is the promise's Tell, when each answer is true of
\* the journal.
LEMMA TellRefines ==
    ASSUME IInv, IInv', UNCHANGED <<client, db>>,
           \A j \in Jobs : answer'[j] # answer[j] => answer[j] = "none" /\ j \in Asked
    PROVE  Promise!Tell
<1>1. Told' \in [Jobs -> Promise!Answers \cup {"none"}]
  <2>1. \A j \in Jobs : answer'[j] \in Answers
    BY DEF IInv, TypeOK
  <2> QED
    BY <2>1 DEF Told, Promise!Answers, Answers
<1>2. Promise!InLog = InSeq(db)
  BY DEF Promise!InLog, InSeq
<1>3. ASSUME NEW j \in Jobs, Told'[j] # Told[j]
      PROVE  /\ Told[j] = "none" /\ j \in Asked
             /\ Told'[j] = "ok" => j \in InSeq(db)
             /\ Told'[j] = "refused" => j \notin InSeq(db)
  <2>1. answer'[j] # answer[j]
    BY <1>3 DEF Told
  <2>2. answer[j] = "none" /\ j \in Asked
    BY <2>1
  <2>3. /\ answer'[j] \in {"ok", "blank"} => j \in InSeq(db)
        /\ answer'[j] \in {"refused", "failed"} => j \notin InSeq(db)
    BY DEF IInv, AnswerInv
  <2>4. answer'[j] \in Answers
    BY DEF IInv, TypeOK
  <2>5. Told[j] = "none"
    BY <2>2 DEF Told
  <2>6. /\ Told'[j] = "ok" => answer'[j] \in {"ok", "blank"}
        /\ Told'[j] = "refused" => answer'[j] \in {"refused", "failed"}
    BY <2>4 DEF Told, Answers
  <2> QED
    BY <2>2, <2>3, <2>5, <2>6
<1>4. Asked' = Asked
  BY DEF Asked
<1> QED
  BY <1>1, <1>2, <1>3, <1>4 DEF Promise!Tell, Asked

LEMMA AbandonRefines ==
    ASSUME IInv, IInv', NEW w \in Jobs, NEW why \in {"refused", "failed"},
           Abandon(w, why), UNCHANGED <<client, db>>
    PROVE  Promise!Tell
<1>1. \A j \in Jobs : answer'[j] =
        IF j \in InSeq(batch[w]) /\ answer[j] = "none" THEN why ELSE answer[j]
  BY FailBatchFacts DEF Abandon, Answers
<1>2. \A j \in InSeq(batch[w]) : j \in Asked
  BY OnlyJobs DEF IInv, BatchInv, Asked
<1> QED
  BY <1>1, <1>2, TellRefines

\* Submitting a job is the promise's Ask.
LEMMA SubmitRefines ==
    ASSUME NEW j \in Jobs, Submit(j), client \in [Jobs -> {"new", "waiting", "gone"}]
    PROVE  Promise!Ask(j)
<1>1. client[j] = "new" /\ client' = [client EXCEPT ![j] = "waiting"]
  BY DEF Submit
<1>2. Asked' = Asked \cup {j} /\ j \notin Asked
  BY <1>1 DEF Asked
<1>3. UNCHANGED <<db, answer>>
  BY DEF Submit
<1>4. Told' = Told
  BY <1>3 DEF Told
<1> QED
  BY <1>2, <1>3, <1>4 DEF Promise!Ask, Asked

\* Committing a window is the promise's Apply, or one of its other steps when
\* the commit failed.
LEMMA CommitRefines ==
    ASSUME IInv, IInv', NEW w \in Jobs, Commit(w)
    PROVE  Promise!Apply \/ Promise!Tell
<1>1. CASE Abandon(w, "failed") /\ UNCHANGED db
  BY <1>1, AbandonRefines DEF Commit
<1>2. CASE ~(Abandon(w, "failed") /\ UNCHANGED db)
  <2>1. /\ pc[w] = "settled"
        /\ db' = db \o kept[w]
        /\ UNCHANGED <<client, answer>>
    BY <1>2 DEF Commit
  <2>2. db \in Seq(Jobs) /\ kept[w] \in Seq(Jobs)
    BY DEF IInv, TypeOK
  <2>3. Promise!Fresh = kept[w]
    BY <2>1, <2>2, ConcatElements DEF Promise!Fresh
  <2>4. \A i \in DOMAIN kept[w] : kept[w][i] \in InSeq(kept[w])
    BY DEF InSeq
  <2>5. \A j \in InSeq(kept[w]) :
           j \in Jobs /\ j \in Asked /\ j \notin InSeq(db) /\ answer[j] = "none"
    BY <2>1, KeptInBatch, OnlyJobs DEF IInv, BatchInv, Uncommitted, Asked
  <2>6. \A j \in InSeq(kept[w]) : Told[j] = "none"
    BY <2>5 DEF Told
  <2>7. \A i, k \in DOMAIN kept[w] : kept[w][i] = kept[w][k] => i = k
    BY DEF IInv, WindowInv, Injective
  <2>8. Promise!InLog = InSeq(db)
    BY DEF Promise!InLog, InSeq
  <2>9. Asked' = Asked /\ Told' = Told
    BY <2>1 DEF Asked, Told
  <2> QED
    BY <2>1, <2>3, <2>4, <2>5, <2>6, <2>7, <2>8, <2>9 DEF Promise!Apply, Asked
<1> QED
  BY <1>1, <1>2

LEMMA DeliverRefines ==
    ASSUME IInv, IInv', NEW w \in Jobs, Deliver(w)
    PROVE  Promise!Tell
<1> DEFINE r == [j \in InSeq(batch[w]) |->
                   IF j \notin InSeq(kept[w]) THEN "refused"
                   ELSE IF ScopeOf[j] \in Matches \ loaded[w] THEN "blank" ELSE "ok"]
<1>1. /\ answer' = [j \in Jobs |-> IF j \in DOMAIN r /\ answer[j] = "none"
                                   THEN r[j] ELSE answer[j]]
      /\ UNCHANGED <<client, db>>
  BY DEF Deliver, Answered
<1>2. DOMAIN r = InSeq(batch[w])
  OBVIOUS
<1> HIDE DEF r
<1>3. \A j \in Jobs : answer'[j] # answer[j] => j \in InSeq(batch[w]) /\ answer[j] = "none"
  BY <1>1, <1>2
<1>4. \A j \in InSeq(batch[w]) : j \in Asked
  BY OnlyJobs DEF IInv, BatchInv, Asked
<1> QED
  BY <1>1, <1>3, <1>4, TellRefines

LEMMA PanicRefines ==
    ASSUME IInv, IInv', NEW w \in Jobs, Panic(w)
    PROVE  Promise!Tell
<1>1. FailBatch(w, "crashed") /\ UNCHANGED <<client, db>>
  BY DEF Panic
<1>2. \A j \in Jobs : answer'[j] =
        IF j \in InSeq(batch[w]) /\ answer[j] = "none" THEN "crashed" ELSE answer[j]
  BY <1>1, FailBatchFacts DEF Answers
<1>3. \A j \in InSeq(batch[w]) : j \in Asked
  BY OnlyJobs DEF IInv, BatchInv, Asked
<1> QED
  BY <1>1, <1>2, <1>3, TellRefines

LEMMA NextRefines ==
    ASSUME IInv, IInv', [Next]_vars
    PROVE  [Promise!Next]_(Promise!vars)
<1>1. CASE UNCHANGED vars
  <2>1. Asked' = Asked /\ UNCHANGED <<db, answer>>
    BY <1>1 DEF vars, Asked
  <2> QED
    BY <2>1, StutterStep
<1>2. ASSUME NEW j \in Jobs, Request(j)
      PROVE  [Promise!Next]_(Promise!vars)
  <2>1. client \in [Jobs -> {"new", "waiting", "gone"}]
    BY DEF IInv, TypeOK
  <2>2. CASE Submit(j)
    BY <2>1, <2>2, SubmitRefines DEF Promise!Next
  <2>3. CASE HangUp(j)
    <3>1. Asked' = Asked /\ UNCHANGED <<db, answer>>
      BY <2>1, <2>3 DEF HangUp, Asked
    <3> QED
      BY <3>1, StutterStep
  <2> QED
    BY <1>2, <2>2, <2>3 DEF Request
<1>3. ASSUME NEW w \in Jobs, Step(w) \/ Panic(w)
      PROVE  [Promise!Next]_(Promise!vars)
  <2>1. ASSUME UNCHANGED <<client, db, answer>>
        PROVE  UNCHANGED Promise!vars
    <3>1. Asked' = Asked
      BY <2>1 DEF Asked
    <3> QED
      BY <2>1, <3>1, StutterStep
  <2>2. CASE Flush(w) \/ RunJob(w) \/ Unlock(w) \/ TellTouched(w) \/ TellRest(w) \/ Finish(w)
    BY <2>1, <2>2 DEF Flush, RunJob, Unlock, TellTouched, TellRest, Finish
  <2>3. CASE TakeConn(w)
    BY <2>1, <2>3, AbandonRefines DEF TakeConn, Promise!Next
  <2>4. CASE TakeLock(w)
    BY <2>1, <2>4, AbandonRefines DEF TakeLock, Promise!Next
  <2>5. CASE NothingKept(w)
    BY <2>5, AbandonRefines DEF NothingKept, Promise!Next
  <2>6. CASE Settle(w)
    BY <2>1, <2>6, AbandonRefines DEF Settle, Promise!Next
  <2>7. CASE Commit(w)
    BY <2>7, CommitRefines DEF Promise!Next
  <2>8. CASE Deliver(w)
    BY <2>8, DeliverRefines DEF Promise!Next
  <2>9. CASE Panic(w)
    BY <2>9, PanicRefines DEF Promise!Next
  <2> QED
    BY <1>3, <2>2, <2>3, <2>4, <2>5, <2>6, <2>7, <2>8, <2>9 DEF Step
<1> QED
  BY <1>1, <1>2, <1>3 DEF Next

\* An answer of 200 means the write is in the journal, an error answer (but a
\* panic's) that it is not and never will be, each write is committed at most
\* once and each window at once, for any number of writes, windows and panics.
THEOREM BatcherKeepsPromise == Spec => KeepsPromise
<1>1. Init => Promise!Init
  BY DEF Init, Promise!Init, Told
<1> QED
  BY <1>1, NextRefines, Invariance, PTL DEF Spec, Promise!Spec, KeepsPromise

-----------------------------------------------------------------------------
(***************************************************************************)
(* What a window tells the viewers.                                        *)
(***************************************************************************)
Spoken == {"touched", "rest", "done", "dead"}

\* One window's account: what it was told to fan out is told or still to tell,
\* it speaks after its commit only, and of what it committed.
TellAt(w) ==
    /\ pc[w] \in {"committed", "touched", "rest"} => InSeq(kept[w]) \subseteq InSeq(db)
    /\ pc[w] = "touched" =>
          \A m \in Touched(w) : m \in toTell[w] \/ Announced(w, m)
    /\ pc[w] = "rest" =>
          /\ \A j \in InSeq(kept[w]) : ScopeOf[j] \in toTell[w] \/ Announced(w, ScopeOf[j])
          /\ Finishes(w) => Fest \in toTell[w] \/ Announced(w, Fest)
    /\ pc[w] = "done" /\ InSeq(kept[w]) \cap InSeq(db) # {} =>
          /\ \A j \in InSeq(kept[w]) : Announced(w, ScopeOf[j])
          /\ Finishes(w) => Announced(w, Fest)
    /\ \A s \in Scopes : Announced(w, s) =>
          pc[w] \in Spoken /\ InSeq(kept[w]) \subseteq InSeq(db)
    /\ \A j \in InSeq(batch[w]) :
          answer[j] \in {"ok", "blank"} /\ ScopeOf[j] \in Matches
              => Announced(w, ScopeOf[j])

TellInv == \A w \in Jobs : TellAt(w)

\* A window nothing of changed but what others committed and told.
LEMMA TellStill ==
    ASSUME NEW w \in Jobs, TellAt(w),
           UNCHANGED <<pc[w], kept[w], toTell[w], batch[w]>>,
           \A s : Announced(w, s)' <=> Announced(w, s),
           InSeq(db) \subseteq InSeq(db'),
           InSeq(kept[w]) \cap InSeq(db') \subseteq InSeq(db),
           \A j \in InSeq(batch[w]) : answer'[j] \in {"ok", "blank"} => answer[j] = answer'[j]
    PROVE  TellAt(w)'
<1>1. /\ Touched(w)' = Touched(w) /\ (Finishes(w)' <=> Finishes(w))
      /\ InSeq(kept[w])' = InSeq(kept[w]) /\ InSeq(batch[w])' = InSeq(batch[w])
  BY DEF Touched, Finishes, InSeq
<1> QED
  BY <1>1 DEF TellAt

\* A step that fans nothing out announces nothing.
LEMMA FeedStill ==
    ASSUME feed' = feed
    PROVE  \A w, s : Announced(w, s)' <=> Announced(w, s)
  BY DEF Announced

\* Fanning one event out announces its scope, for its window.
LEMMA FeedGrows ==
    ASSUME TypeOK, NEW w \in Jobs, NEW s \in Scopes, feed' = Append(feed, Event(w, s))
    PROVE  \A v, t : Announced(v, t)' <=> Announced(v, t) \/ (v = w /\ t = s)
<1>1. /\ feed \in Seq([scope : Scopes, window : Jobs])
      /\ Event(w, s).scope = s /\ Event(w, s).window = w
  BY DEF TypeOK, Event
<1>2. /\ DOMAIN feed' = DOMAIN feed \cup {Len(feed) + 1}
      /\ \A i \in DOMAIN feed : feed'[i] = feed[i]
      /\ feed'[Len(feed) + 1] = Event(w, s)
  BY <1>1
<1> QED
  BY <1>1, <1>2 DEF Announced

\* Only the window's own jobs are answered by its steps (finish).
LEMMA OwnAnswers ==
    ASSUME IInv, NEW w \in Jobs, Step(w) \/ Panic(w), NEW j \in Jobs, j \notin InSeq(batch[w])
    PROVE  answer'[j] = answer[j]
<1>1. ASSUME NEW why, FailBatch(w, why) PROVE answer'[j] = answer[j]
  BY <1>1 DEF FailBatch, Answered
<1>2. ASSUME NEW why, Abandon(w, why) PROVE answer'[j] = answer[j]
  BY <1>1, <1>2 DEF Abandon
<1>3. CASE Deliver(w)
  BY <1>3 DEF Deliver, Answered
<1>4. CASE Panic(w)
  BY <1>1, <1>4 DEF Panic
<1>5. CASE TakeConn(w) \/ TakeLock(w) \/ NothingKept(w) \/ Settle(w) \/ Commit(w)
  BY <1>2, <1>5 DEF TakeConn, TakeLock, NothingKept, Settle, Commit
<1>6. CASE Flush(w) \/ RunJob(w) \/ Unlock(w) \/ TellTouched(w) \/ TellRest(w) \/ Finish(w)
  BY <1>6 DEF Flush, RunJob, Unlock, TellTouched, TellRest, Finish
<1> QED
  BY <1>3, <1>4, <1>5, <1>6 DEF Step

\* What a window's step does to the journal and the feed.
LEMMA StepWrites ==
    ASSUME IInv, NEW w \in Jobs, Step(w) \/ Panic(w)
    PROVE  /\ db' = db \/ (pc[w] = "settled" /\ db' = db \o kept[w])
           /\ \/ feed' = feed
              \/ \E s \in toTell[w] : feed' = Append(feed, Event(w, s))
           /\ \A v \in Jobs \ {w} : UNCHANGED <<pc[v], kept[v], toTell[v], batch[v]>>
<1>1. /\ batch \in [Jobs -> Seq(Jobs)] /\ kept \in [Jobs -> Seq(Jobs)]
      /\ pc \in [Jobs -> Places] /\ toTell \in [Jobs -> SUBSET Scopes]
  BY DEF IInv, TypeOK
<1>2. CASE Flush(w) \/ TakeConn(w) \/ TakeLock(w) \/ NothingKept(w) \/ Settle(w)
  BY <1>1, <1>2 DEF Flush, TakeConn, TakeLock, NothingKept, Settle, Abandon, Goto
<1>3. CASE RunJob(w)
  BY <1>1, <1>3 DEF RunJob
<1>4. CASE Commit(w)
  BY <1>1, <1>4 DEF Commit, Abandon, Goto
<1>5. CASE Unlock(w) \/ Deliver(w) \/ Finish(w) \/ Panic(w)
  BY <1>1, <1>5 DEF Unlock, Deliver, Finish, Panic, Goto
<1>6. CASE TellTouched(w)
  BY <1>1, <1>6 DEF TellTouched
<1>7. CASE TellRest(w)
  BY <1>1, <1>7 DEF TellRest
<1> QED
  BY <1>2, <1>3, <1>4, <1>5, <1>6, <1>7 DEF Step

\* A step of one window leaves the account of the others.
LEMMA OthersStill ==
    ASSUME IInv, TellInv, NEW w \in Jobs, Step(w) \/ Panic(w), NEW v \in Jobs \ {w}
    PROVE  TellAt(v)'
<1>1. TellAt(v) /\ UNCHANGED <<pc[v], kept[v], toTell[v], batch[v]>>
  BY StepWrites DEF TellInv
<1>2. \A s : Announced(v, s)' <=> Announced(v, s)
  <2>1. CASE feed' = feed
    BY <2>1, FeedStill
  <2>2. ASSUME NEW t \in toTell[w], feed' = Append(feed, Event(w, t))
        PROVE  \A s : Announced(v, s)' <=> Announced(v, s)
    <3>1. TypeOK /\ t \in Scopes
      BY DEF IInv, TypeOK
    <3> QED
      BY <2>2, <3>1, FeedGrows
  <2> QED
    BY <2>1, <2>2, StepWrites
<1>3. \A j \in InSeq(batch[v]) : j \in Jobs /\ j \notin InSeq(batch[w])
  BY OnlyJobs DEF IInv, BatchInv
<1>4. \A j \in InSeq(batch[v]) : answer'[j] = answer[j]
  BY <1>3, OwnAnswers
<1>5. /\ InSeq(db) \subseteq InSeq(db')
      /\ InSeq(kept[v]) \cap InSeq(db') \subseteq InSeq(db)
  <2>1. CASE db' = db
    BY <2>1
  <2>2. CASE db' = db \o kept[w]
    <3>1. InSeq(db') = InSeq(db) \cup InSeq(kept[w])
      BY <2>2, ConcatElements DEF IInv, TypeOK
    <3>2. InSeq(kept[v]) \cap InSeq(kept[w]) = {}
      BY <1>3, KeptInBatch
    <3> QED
      BY <3>1, <3>2
  <2> QED
    BY <2>1, <2>2, StepWrites
<1> QED
  BY <1>1, <1>2, <1>4, <1>5, TellStill

\* Up to its commit a window has told nobody anything, and a window that gives up
\* has committed nothing to tell.
LEMMA QuietStep ==
    ASSUME IInv, IInv', TellInv, NEW w \in Jobs, pc[w] \in {"none", "open"} \cup Uncommitted,
           feed' = feed,
           \/ pc'[w] \in {"none", "open"} \cup Uncommitted
           \/ pc'[w] = "done" /\ UNCHANGED <<kept, batch, db>>
    PROVE  TellAt(w)'
<1>1. \A s \in Scopes : ~Announced(w, s)
  BY DEF TellInv, TellAt, Spoken, Uncommitted
<1>2. \A s \in Scopes : ~Announced(w, s)'
  BY <1>1, FeedStill
<1>3. CASE pc'[w] \in {"none", "open"} \cup Uncommitted
  <2>1. \A j \in InSeq(batch'[w]) : answer'[j] \notin {"ok", "blank"}
    <3>1. CASE pc'[w] \in {"none", "open"}
      <4>1. batch'[w] = <<>>
        BY <3>1 DEF IInv, WindowInv
      <4> QED
        BY <4>1 DEF InSeq
    <3>2. CASE pc'[w] \in Uncommitted
      BY <3>2 DEF IInv, BatchInv
    <3> QED
      BY <1>3, <3>1, <3>2
  <2> QED
    BY <1>2, <1>3, <2>1 DEF TellAt, Uncommitted
<1>4. CASE pc'[w] = "done" /\ UNCHANGED <<kept, batch, db>>
  <2>1. \A j \in InSeq(batch[w]) : j \in Jobs /\ j \notin InSeq(db)
    <3>1. CASE pc[w] \in {"none", "open"}
      <4>1. batch[w] = <<>>
        BY <3>1 DEF IInv, WindowInv
      <4> QED
        BY <4>1 DEF InSeq
    <3>2. CASE pc[w] \in Uncommitted
      BY <3>2, OnlyJobs DEF IInv, BatchInv
    <3> QED
      BY <3>1, <3>2
  <2>2. InSeq(kept[w]) \cap InSeq(db) = {}
    BY <2>1, KeptInBatch
  <2>3. InSeq(kept'[w]) \cap InSeq(db') = {} /\ InSeq(batch'[w]) = InSeq(batch[w])
    BY <1>4, <2>2
  <2>4. \A j \in InSeq(batch'[w]) : answer'[j] \notin {"ok", "blank"}
    <3>1. AnswerInv' /\ InSeq(db') = InSeq(db)
      BY <1>4 DEF IInv
    <3> QED
      BY <2>1, <2>3, <3>1 DEF AnswerInv
  <2> QED
    BY <1>2, <1>4, <2>3, <2>4 DEF TellAt
<1> QED
  BY <1>3, <1>4

\* The commit: what the window kept is in the journal, and still nothing is told.
LEMMA CommitTell ==
    ASSUME IInv, IInv', TellInv, NEW w \in Jobs, Commit(w)
    PROVE  TellAt(w)'
<1>1. pc[w] = "settled" /\ UNCHANGED <<batch, kept, feed>>
  BY DEF Commit
<1>2. CASE Abandon(w, "failed") /\ UNCHANGED db
  <2>1. pc'[w] = "done"
    BY <1>2 DEF Abandon, Goto, IInv, TypeOK
  <2> QED
    BY <1>1, <1>2, <2>1, QuietStep DEF Uncommitted
<1>3. CASE db' = db \o kept[w] /\ Goto(w, "committed") /\ UNCHANGED answer
  <2>1. pc'[w] = "committed"
    BY <1>3 DEF Goto, IInv, TypeOK
  <2>2. InSeq(kept'[w]) \subseteq InSeq(db')
    <3>1. InSeq(db') = InSeq(db) \cup InSeq(kept[w])
      BY <1>3, ConcatElements DEF IInv, TypeOK
    <3> QED
      BY <1>1, <3>1
  <2>3. \A s \in Scopes : ~Announced(w, s)'
    BY <1>1, FeedStill DEF TellInv, TellAt, Spoken
  <2>4. \A j \in InSeq(batch'[w]) : answer'[j] \notin {"ok", "blank"}
    BY <2>1 DEF IInv, BatchInv
  <2> QED
    BY <2>1, <2>2, <2>3, <2>4 DEF TellAt
<1> QED
  BY <1>2, <1>3 DEF Commit

\* The unlock: each touched match is to be told.
LEMMA UnlockTell ==
    ASSUME IInv, IInv', TellInv, NEW w \in Jobs, Unlock(w)
    PROVE  TellAt(w)'
<1>1. /\ pc[w] = "committed" /\ UNCHANGED <<batch, kept, db, feed>>
      /\ pc'[w] = "touched" /\ toTell'[w] = Touched(w)
  BY DEF Unlock, Goto, IInv, TypeOK
<1>2. Touched(w)' = Touched(w) /\ InSeq(kept'[w]) \subseteq InSeq(db')
  <2>1. InSeq(kept[w]) \subseteq InSeq(db)
    BY <1>1 DEF TellInv, TellAt
  <2>2. kept'[w] = kept[w] /\ InSeq(kept'[w]) = InSeq(kept[w]) /\ InSeq(db') = InSeq(db)
    BY <1>1
  <2> QED
    BY <2>1, <2>2 DEF Touched
<1>3. \A s \in Scopes : ~Announced(w, s)'
  BY <1>1, FeedStill DEF TellInv, TellAt, Spoken
<1>4. \A j \in InSeq(batch'[w]) : answer'[j] \notin {"ok", "blank"}
  BY <1>1 DEF IInv, BatchInv
<1> QED
  BY <1>1, <1>2, <1>3, <1>4 DEF TellAt

\* A fan-out: one scope goes from what is to tell to what is told.
LEMMA FanOutTell ==
    ASSUME IInv, IInv', TellInv, NEW w \in Jobs, TellTouched(w) \/ TellRest(w)
    PROVE  TellAt(w)'
<1>1. PICK s \in toTell[w] :
        feed' = Append(feed, Event(w, s)) /\ toTell' = [toTell EXCEPT ![w] = @ \ {s}]
  BY DEF TellTouched, TellRest
<1>2. /\ UNCHANGED <<pc, batch, kept, db, answer>>
      /\ pc[w] \in {"touched", "rest"}
      /\ toTell'[w] = toTell[w] \ {s} /\ s \in Scopes
  BY <1>1 DEF TellTouched, TellRest, IInv, TypeOK
<1>3. \A t : Announced(w, t)' <=> Announced(w, t) \/ t = s
  BY <1>1, <1>2, FeedGrows DEF IInv
<1>4. /\ Touched(w)' = Touched(w) /\ (Finishes(w)' <=> Finishes(w))
      /\ InSeq(kept'[w]) = InSeq(kept[w]) /\ InSeq(batch'[w]) = InSeq(batch[w])
      /\ InSeq(db') = InSeq(db) /\ pc'[w] = pc[w]
  BY <1>2 DEF Touched, Finishes
<1>5. InSeq(kept[w]) \subseteq InSeq(db)
  BY <1>2 DEF TellInv, TellAt
<1>6. TellAt(w)
  BY DEF TellInv
<1> QED
  BY <1>2, <1>3, <1>4, <1>5, <1>6 DEF TellAt, Spoken

\* The answers: every touched match is told by now; the document and the fest view
\* are to be told next.
LEMMA DeliverTell ==
    ASSUME IInv, IInv', TellInv, NEW w \in Jobs, Deliver(w)
    PROVE  TellAt(w)'
<1>1. /\ pc[w] = "touched" /\ toTell[w] = {} /\ UNCHANGED <<batch, kept, db, feed>>
      /\ pc'[w] = "rest"
      /\ Finishes(w) => Fest \in toTell'[w]
      /\ WritesDoc(w) => Doc \in toTell'[w]
  BY DEF Deliver, Goto, IInv, TypeOK
<1>2. \A t : Announced(w, t)' <=> Announced(w, t)
  BY <1>1, FeedStill
<1>3. /\ InSeq(kept'[w]) = InSeq(kept[w]) /\ InSeq(batch'[w]) = InSeq(batch[w])
      /\ InSeq(db') = InSeq(db) /\ (Finishes(w)' <=> Finishes(w))
  BY <1>1 DEF Finishes
<1>4. /\ InSeq(kept[w]) \subseteq InSeq(db)
      /\ \A m \in Touched(w) : Announced(w, m)
      /\ \A j \in InSeq(batch[w]) : answer[j] = "none"
  <2>1. TellAt(w) /\ BatchInv
    BY DEF TellInv, IInv
  <2> QED
    BY <1>1, <2>1 DEF TellAt, BatchInv
<1>5. ASSUME NEW j \in InSeq(kept[w])
      PROVE  ScopeOf[j] \in toTell'[w] \/ Announced(w, ScopeOf[j])
  <2>1. j \in Jobs
    BY KeptInBatch, OnlyJobs
  <2>2. CASE ScopeOf[j] = Doc
    BY <1>1, <2>2 DEF WritesDoc
  <2>3. CASE ScopeOf[j] \in Matches
    BY <1>4, <2>3 DEF Touched
  <2> QED
    BY <2>1, <2>2, <2>3, EditBatchAssumption
<1>6. ASSUME NEW j \in InSeq(batch[w]), answer'[j] \in {"ok", "blank"}, ScopeOf[j] \in Matches
      PROVE  Announced(w, ScopeOf[j])
  <2> DEFINE r == [k \in InSeq(batch[w]) |->
                     IF k \notin InSeq(kept[w]) THEN "refused"
                     ELSE IF ScopeOf[k] \in Matches \ loaded[w] THEN "blank" ELSE "ok"]
  <2>1. answer' = [k \in Jobs |-> IF k \in DOMAIN r /\ answer[k] = "none"
                                  THEN r[k] ELSE answer[k]]
    BY DEF Deliver, Answered
  <2>2. DOMAIN r = InSeq(batch[w]) /\ (j \notin InSeq(kept[w]) => r[j] = "refused")
    OBVIOUS
  <2> HIDE DEF r
  <2>3. answer'[j] = r[j]
    <3>1. j \in Jobs
      BY OnlyJobs
    <3> QED
      BY <1>4, <2>1, <2>2, <3>1
  <2>4. j \in InSeq(kept[w])
    BY <1>6, <2>2, <2>3
  <2> QED
    BY <1>4, <1>6, <2>4 DEF Touched
<1> QED
  BY <1>1, <1>2, <1>3, <1>4, <1>5, <1>6 DEF TellAt, Spoken

\* The end of a window that told everything, and of one that panicked.
LEMMA EndTell ==
    ASSUME IInv, IInv', TellInv, NEW w \in Jobs, Finish(w) \/ Panic(w)
    PROVE  TellAt(w)'
<1>1. /\ UNCHANGED <<batch, kept, db, feed>>
      /\ \/ /\ pc[w] = "rest" /\ toTell[w] = {} /\ pc'[w] = "done" /\ answer' = answer
         \/ /\ pc'[w] = "dead" /\ FailBatch(w, "crashed")
  BY DEF Finish, Panic, Goto, IInv, TypeOK
<1>2. \A t : Announced(w, t)' <=> Announced(w, t)
  BY <1>1, FeedStill
<1>3. /\ InSeq(kept'[w]) = InSeq(kept[w]) /\ InSeq(batch'[w]) = InSeq(batch[w])
      /\ InSeq(db') = InSeq(db) /\ (Finishes(w)' <=> Finishes(w))
  BY <1>1 DEF Finishes
<1>4. ASSUME NEW j \in InSeq(batch[w]), answer'[j] \in {"ok", "blank"}
      PROVE  answer[j] = answer'[j]
  <2>1. j \in Jobs
    BY OnlyJobs
  <2> QED
    BY <1>1, <1>4, <2>1, FailBatchFacts DEF Answers
<1>5. TellAt(w)
  BY DEF TellInv
<1> QED
  BY <1>1, <1>2, <1>3, <1>4, <1>5 DEF TellAt, Spoken

LEMMA NextTell ==
    ASSUME IInv, IInv', TellInv, [Next]_vars
    PROVE  TellInv'
<1>1. ASSUME NEW j \in Jobs, Submit(j), NEW w \in Jobs PROVE TellAt(w)'
  <2>1. UNCHANGED <<batch, kept, toTell, db, feed, answer>> /\ client[j] = "new"
    BY <1>1 DEF Submit
  <2>2. CASE w = j
    <3>1. pc[w] = "none" /\ pc'[w] \in {"none", "open"}
      BY <1>1, <2>1, <2>2 DEF Submit, IInv, NewInv, TypeOK
    <3> QED
      BY <2>1, <3>1, QuietStep
  <2>3. CASE w # j
    <3>1. pc'[w] = pc[w] /\ TellAt(w)
      BY <1>1, <2>3 DEF Submit, IInv, TypeOK, TellInv
    <3> QED
      BY <2>1, <3>1, FeedStill, TellStill
  <2> QED
    BY <2>2, <2>3
<1>2. ASSUME UNCHANGED <<batch, pc, kept, toTell, db, feed, answer>>, NEW w \in Jobs
      PROVE  TellAt(w)'
  <2>1. TellAt(w)
    BY DEF TellInv
  <2> QED
    BY <1>2, <2>1, FeedStill, TellStill
<1>3. ASSUME NEW w \in Jobs, Step(w) \/ Panic(w) PROVE TellAt(w)'
  <2>1. CASE Flush(w) \/ TakeConn(w) \/ TakeLock(w) \/ RunJob(w) \/ NothingKept(w) \/ Settle(w)
    <3>1. /\ pc[w] \in {"open"} \cup Uncommitted
          /\ feed' = feed
          /\ \/ pc'[w] \in Uncommitted
             \/ pc'[w] = "done" /\ UNCHANGED <<kept, batch, db>>
      BY <2>1 DEF Flush, TakeConn, TakeLock, RunJob, NothingKept, Settle, Abandon, Goto,
                  Uncommitted, IInv, TypeOK
    <3> QED
      BY <3>1, QuietStep
  <2>2. CASE TellTouched(w) \/ TellRest(w)
    BY <2>2, FanOutTell
  <2>3. CASE Finish(w) \/ Panic(w)
    BY <2>3, EndTell
  <2> QED
    BY <1>3, <2>1, <2>2, <2>3, CommitTell, UnlockTell, DeliverTell DEF Step
<1>4. ASSUME NEW j \in Jobs, Request(j) \/ Step(j) \/ Panic(j), NEW w \in Jobs
      PROVE  TellAt(w)'
  <2>1. CASE HangUp(j)
    BY <2>1, <1>2 DEF HangUp
  <2>2. CASE Step(j) \/ Panic(j)
    <3>1. w # j => TellAt(w)'
      BY <2>2, OthersStill
    <3>2. TellAt(j)'
      BY <2>2, <1>3
    <3> QED
      BY <3>1, <3>2
  <2> QED
    BY <1>4, <1>1, <2>1, <2>2 DEF Request
<1>5. UNCHANGED vars => UNCHANGED <<batch, pc, kept, toTell, db, feed, answer>>
  BY DEF vars
<1> QED
  BY <1>2, <1>4, <1>5 DEF Next, TellInv

LEMMA TellInvariance == Spec => [](IInv /\ TellInv)
<1>1. Init => TellInv
  BY DEF Init, TellInv, TellAt, Announced, InSeq
<1> QED
  BY <1>1, NextTell, InitIInv, NextIInv, PTL DEF Spec

\* An editor of a match who reads 200 reads it after the event that carries the edit
\* was given its seq, for any windows and panics (broadcastTouched before deliver).
THEOREM AnswersComeAfter == Spec => []AnswerFollowsBroadcast
<1>1. IInv /\ TellInv => AnswerFollowsBroadcast
  BY DEF TellInv, TellAt, AnswerFollowsBroadcast
<1> QED
  BY <1>1, TellInvariance, PTL

\* A window that reached its end told the viewers of all it committed, and nobody
\* was ever told of anything uncommitted.
THEOREM AllIsTold == Spec => []EverythingTold
<1>1. IInv /\ TellInv => EverythingTold
  <2> SUFFICES ASSUME IInv, TellInv PROVE EverythingTold
    OBVIOUS
  <2>1. ASSUME NEW i \in DOMAIN feed
        PROVE  InSeq(kept[feed[i].window]) \subseteq InSeq(db)
    <3>1. feed[i].scope \in Scopes /\ feed[i].window \in Jobs
      <4>1. feed \in Seq([scope : Scopes, window : Jobs])
        BY DEF IInv, TypeOK
      <4>2. ASSUME NEW S, NEW s \in Seq(S), NEW k \in DOMAIN s PROVE s[k] \in S
        OBVIOUS
      <4>3. feed[i] \in [scope : Scopes, window : Jobs]
        BY <4>1, <4>2
      <4> QED
        BY <4>3
    <3>2. Announced(feed[i].window, feed[i].scope)
      BY DEF Announced
    <3> QED
      BY <3>1, <3>2 DEF TellInv, TellAt
  <2> QED
    BY <2>1 DEF TellInv, TellAt, EverythingTold
<1> QED
  BY <1>1, TellInvariance, PTL

-----------------------------------------------------------------------------
(***************************************************************************)
(* Where a window's jobs lie in the journal.                               *)
(***************************************************************************)

\* A window keeps its jobs in the order they arrived.
KeptInOrder(w) ==
    \A p, q \in DOMAIN kept[w] : \A i, k \in DOMAIN batch[w] :
        kept[w][p] = batch[w][i] /\ kept[w][q] = batch[w][k] /\ i < k => p < q

\* Its jobs lie in the journal in that order, with no others between them.
WholeInDb(w) ==
    \A i, k \in DOMAIN batch[w] : \A p, q \in DOMAIN db :
        db[p] = batch[w][i] /\ db[q] = batch[w][k] =>
            /\ i < k => p < q
            /\ \A n \in p .. q : db[n] \in InSeq(batch[w])

PlaceInv == \A w \in Jobs : KeptInOrder(w) /\ WholeInDb(w)

\* A window is flushed with jobs that are not in the journal.
LEMMA FlushPlace ==
    ASSUME IInv, PlaceInv, NEW w \in Jobs, Flush(w)
    PROVE  PlaceInv'
<1>1. /\ kept[w] = <<>> /\ UNCHANGED <<kept, db>>
      /\ batch'[w] = open
      /\ \A v \in Jobs \ {w} : batch'[v] = batch[v]
  BY DEF Flush, IInv, WindowInv, TypeOK
<1>2. KeptInOrder(w)'
  BY <1>1 DEF KeptInOrder
<1>3. WholeInDb(w)'
  <2>1. \A i \in DOMAIN open : open[i] \notin InSeq(db)
    BY DEF IInv, OpenInv, InSeq
  <2> QED
    BY <1>1, <2>1 DEF WholeInDb, InSeq
<1>4. ASSUME NEW v \in Jobs \ {w} PROVE KeptInOrder(v)' /\ WholeInDb(v)'
  <2>1. KeptInOrder(v) /\ WholeInDb(v)
    BY DEF PlaceInv
  <2> QED
    BY <1>1, <2>1 DEF KeptInOrder, WholeInDb, InSeq
<1> QED
  BY <1>2, <1>3, <1>4 DEF PlaceInv

\* A job is kept behind those that arrived before it (applyOneJob).
LEMMA RunJobPlace ==
    ASSUME IInv, PlaceInv, NEW w \in Jobs, RunJob(w)
    PROVE  PlaceInv'
<1> DEFINE x == batch[w][ran[w] + 1]
<1>1. /\ ran[w] < Len(batch[w])
      /\ kept' = [kept EXCEPT ![w] = Append(kept[w], x)] \/ kept' = kept
      /\ UNCHANGED <<batch, db>>
  BY DEF RunJob
<1>2. /\ batch[w] \in Seq(Jobs) /\ kept[w] \in Seq(Jobs) /\ ran[w] \in Nat
      /\ kept \in [Jobs -> Seq(Jobs)]
      /\ Injective(batch[w])
      /\ \A j \in InSeq(kept[w]) : \E i \in 1 .. ran[w] : batch[w][i] = j
      /\ KeptInOrder(w)
  BY DEF IInv, TypeOK, WindowInv, PlaceInv
<1>3. CASE kept' = kept
  BY <1>1, <1>3 DEF PlaceInv, KeptInOrder, WholeInDb
<1>4. CASE kept' = [kept EXCEPT ![w] = Append(kept[w], x)]
  <2>1. /\ kept'[w] = Append(kept[w], x)
        /\ \A v \in Jobs \ {w} : kept'[v] = kept[v]
    BY <1>2, <1>4
  <2>2. x \in Jobs /\ ran[w] + 1 \in DOMAIN batch[w]
    BY <1>1, <1>2
  <2> DEFINE L == Len(kept[w])
  <2>3. /\ DOMAIN kept'[w] = 1 .. L + 1 /\ L \in Nat
        /\ kept'[w][L + 1] = x
        /\ \A p \in 1 .. L : kept'[w][p] = kept[w][p]
    BY <1>2, <2>1, <2>2
  <2>4. ASSUME NEW p \in 1 .. L + 1, NEW q \in 1 .. L + 1,
               NEW i \in DOMAIN batch[w], NEW k \in DOMAIN batch[w],
               kept'[w][p] = batch[w][i], kept'[w][q] = batch[w][k], i < k
        PROVE  p < q
    <3>1. i \in 1 .. Len(batch[w]) /\ k \in 1 .. Len(batch[w])
      BY <1>2
    <3>2. CASE p \in 1 .. L /\ q \in 1 .. L
      <4>1. p \in DOMAIN kept[w] /\ q \in DOMAIN kept[w]
        BY <1>2, <3>2
      <4> QED
        BY <1>2, <2>3, <2>4, <3>2, <4>1 DEF KeptInOrder
    <3>3. CASE p \in 1 .. L /\ q = L + 1
      BY <2>3, <3>3
    <3>4. CASE p = L + 1
      <4>1. i = ran[w] + 1
        BY <1>2, <2>2, <2>3, <2>4, <3>4 DEF Injective
      <4>2. k <= ran[w] + 1
        <5>1. CASE q = L + 1
          BY <1>2, <2>2, <2>3, <2>4, <5>1 DEF Injective
        <5>2. CASE q \in 1 .. L
          <6>1. kept[w][q] \in InSeq(kept[w])
            BY <1>2, <5>2 DEF InSeq
          <6>2. PICK m \in 1 .. ran[w] : batch[w][m] = kept[w][q]
            BY <1>2, <6>1
          <6>3. m \in DOMAIN batch[w]
            BY <1>1, <1>2
          <6>4. k = m
            BY <1>2, <2>3, <2>4, <5>2, <6>2, <6>3 DEF Injective
          <6> QED
            BY <1>2, <6>4
        <5> QED
          BY <2>3, <5>1, <5>2
      <4> QED
        BY <1>2, <2>4, <3>1, <4>1, <4>2
    <3> QED
      BY <2>3, <3>2, <3>3, <3>4
  <2>5. KeptInOrder(w)'
    BY <1>1, <2>3, <2>4 DEF KeptInOrder
  <2>6. \A v \in Jobs \ {w} : KeptInOrder(v)'
    BY <1>1, <2>1 DEF PlaceInv, KeptInOrder
  <2>7. \A v \in Jobs : WholeInDb(v)'
    BY <1>1 DEF PlaceInv, WholeInDb, InSeq
  <2> QED
    BY <2>5, <2>6, <2>7 DEF PlaceInv
<1> QED
  BY <1>1, <1>3, <1>4

\* A commit puts a window behind all others, in one piece (tx.Commit).
LEMMA CommitPlace ==
    ASSUME IInv, PlaceInv, NEW w \in Jobs, Commit(w), db' # db
    PROVE  PlaceInv'
<1>1. pc[w] = "settled" /\ db' = db \o kept[w] /\ UNCHANGED <<batch, kept>>
  BY DEF Commit
<1>2. /\ db \in Seq(Jobs) /\ kept[w] \in Seq(Jobs)
      /\ \A v \in Jobs : batch[v] \in Seq(Jobs)
  BY DEF IInv, TypeOK
<1> DEFINE L == Len(db)
<1>3. /\ DOMAIN db' = 1 .. L + Len(kept[w]) /\ DOMAIN db = 1 .. L /\ L \in Nat
      /\ Len(kept[w]) \in Nat /\ DOMAIN kept[w] = 1 .. Len(kept[w])
      /\ \A p \in 1 .. L : db'[p] = db[p]
      /\ \A p \in 1 .. Len(kept[w]) : db'[L + p] = kept[w][p]
  BY <1>1, <1>2
<1>4. \A p \in DOMAIN db' : p \in 1 .. L \/ (p - L \in DOMAIN kept[w] /\ db'[p] = kept[w][p - L])
  <2> SUFFICES ASSUME NEW p \in DOMAIN db', p \notin 1 .. L
               PROVE  p - L \in DOMAIN kept[w] /\ db'[p] = kept[w][p - L]
    OBVIOUS
  <2>1. p \in Nat /\ p - L \in 1 .. Len(kept[w]) /\ L + (p - L) = p
    BY <1>3
  <2> QED
    BY <1>3, <2>1
<1>5. \A p \in DOMAIN kept[w] : kept[w][p] \in InSeq(batch[w])
  BY KeptInBatch DEF InSeq
<1>6. \A v \in Jobs : KeptInOrder(v)'
  BY <1>1 DEF PlaceInv, KeptInOrder
<1>7. WholeInDb(w)'
  <2> SUFFICES ASSUME NEW i \in DOMAIN batch[w], NEW k \in DOMAIN batch[w],
                      NEW p \in DOMAIN db', NEW q \in DOMAIN db',
                      db'[p] = batch[w][i], db'[q] = batch[w][k]
               PROVE  /\ i < k => p < q
                      /\ \A n \in p .. q : db'[n] \in InSeq(batch[w])
    BY <1>1 DEF WholeInDb, InSeq
  <2>1. \A m \in DOMAIN batch[w] : \A n \in 1 .. L : db[n] # batch[w][m]
    <3>1. \A j \in InSeq(batch[w]) : j \notin InSeq(db)
      BY <1>1 DEF IInv, BatchInv, Uncommitted
    <3> QED
      BY <1>3, <3>1 DEF InSeq
  <2>2. p \notin 1 .. L /\ q \notin 1 .. L
    BY <1>3, <2>1
  <2>3. /\ p - L \in DOMAIN kept[w] /\ kept[w][p - L] = batch[w][i]
        /\ q - L \in DOMAIN kept[w] /\ kept[w][q - L] = batch[w][k]
    BY <1>4, <2>2
  <2>4. i < k => p - L < q - L
    BY <2>3 DEF PlaceInv, KeptInOrder
  <2>5. i < k => p < q
    BY <1>3, <2>4
  <2>6. ASSUME NEW n \in p .. q PROVE db'[n] \in InSeq(batch[w])
    <3>1. n \in DOMAIN db' /\ n \notin 1 .. L
      BY <1>3, <2>2
    <3> QED
      BY <1>4, <1>5, <3>1
  <2> QED
    BY <2>5, <2>6
<1>8. ASSUME NEW v \in Jobs \ {w} PROVE WholeInDb(v)'
  <2>1. \A m \in DOMAIN batch[v] : batch[v][m] \notin InSeq(batch[w])
    <3>1. \A j \in InSeq(batch[v]) : j \notin InSeq(batch[w])
      BY DEF IInv, BatchInv
    <3> QED
      BY <3>1 DEF InSeq
  <2>2. ASSUME NEW i \in DOMAIN batch[v], NEW k \in DOMAIN batch[v],
               NEW p \in DOMAIN db', NEW q \in DOMAIN db',
               db'[p] = batch[v][i], db'[q] = batch[v][k]
        PROVE  /\ i < k => p < q
               /\ \A n \in p .. q : db'[n] \in InSeq(batch[v])
    <3>1. p \in 1 .. L /\ q \in 1 .. L
      BY <1>4, <1>5, <2>1, <2>2
    <3>2. WholeInDb(v) /\ db[p] = batch[v][i] /\ db[q] = batch[v][k]
      BY <1>3, <2>2, <3>1 DEF PlaceInv
    <3>3. \A n \in p .. q : n \in 1 .. L
      BY <1>3, <3>1
    <3> QED
      BY <1>3, <3>1, <3>2, <3>3 DEF WholeInDb
  <2>3. batch'[v] = batch[v] /\ InSeq(batch'[v]) = InSeq(batch[v])
    BY <1>1
  <2> QED
    BY <2>2, <2>3 DEF WholeInDb
<1> QED
  BY <1>6, <1>7, <1>8 DEF PlaceInv

LEMMA NextPlace ==
    ASSUME IInv, PlaceInv, [Next]_vars
    PROVE  PlaceInv'
<1>1. CASE UNCHANGED <<batch, kept, db>>
  BY <1>1 DEF PlaceInv, KeptInOrder, WholeInDb
<1>2. ASSUME NEW j \in Jobs, Request(j) \/ Step(j) \/ Panic(j) PROVE PlaceInv'
  <2>1. CASE Flush(j)
    BY <2>1, FlushPlace
  <2>2. CASE RunJob(j)
    BY <2>2, RunJobPlace
  <2>3. CASE Commit(j)
    BY <1>1, <2>3, CommitPlace DEF Commit
  <2>4. CASE \/ Request(j) \/ TakeConn(j) \/ TakeLock(j) \/ NothingKept(j) \/ Settle(j)
             \/ Unlock(j) \/ TellTouched(j) \/ Deliver(j) \/ TellRest(j) \/ Finish(j)
             \/ Panic(j)
    BY <1>1, <2>4 DEF Request, Submit, HangUp, TakeConn, TakeLock, NothingKept, Settle,
                      Unlock, TellTouched, Deliver, TellRest, Finish, Panic
  <2> QED
    BY <1>2, <2>1, <2>2, <2>3, <2>4 DEF Step
<1>3. UNCHANGED vars => UNCHANGED <<batch, kept, db>>
  BY DEF vars
<1> QED
  BY <1>1, <1>2, <1>3 DEF Next

\* Two windows of the game never mix in the journal, and a window's jobs are
\* committed in the order they arrived, for any number of windows at once.
THEOREM WindowsNeverMix == Spec => []WindowsStayWhole
<1>1. Init => PlaceInv
  BY DEF Init, PlaceInv, KeptInOrder, WholeInDb
<1>2. PlaceInv => WindowsStayWhole
  <2> SUFFICES ASSUME PlaceInv, NEW w \in Jobs,
                      NEW i \in DOMAIN batch[w], NEW k \in DOMAIN batch[w],
                      batch[w][i] \in InSeq(db), batch[w][k] \in InSeq(db)
               PROVE  /\ i < k => Placed(batch[w][i]) < Placed(batch[w][k])
                      /\ \A n \in Placed(batch[w][i]) .. Placed(batch[w][k]) :
                            db[n] \in InSeq(batch[w])
    BY DEF WindowsStayWhole
  <2>1. ASSUME NEW j \in InSeq(db) PROVE Placed(j) \in DOMAIN db /\ db[Placed(j)] = j
    BY DEF Placed, InSeq
  <2> QED
    BY <2>1 DEF PlaceInv, WholeInDb
<1> QED
  BY <1>1, <1>2, NextPlace, Invariance, PTL DEF Spec
-----------------------------------------------------------------------------
(***************************************************************************)
(* No job is forgotten: where a job without an answer is.                  *)
(***************************************************************************)

\* Where a window has answered none of its jobs.
Unanswered == {"flushed", "waiting", "replay", "settled", "committed", "touched"}

\* A job that has no answer is in the window whose timer runs, or in one whose
\* goroutine has yet to answer it: the safety half of EveryJobAnswered.
NoJobForgotten ==
    /\ open # <<>> => \E w \in Jobs : pc[w] = "open"
    /\ \A j \in Jobs : client[j] # "new" /\ answer[j] = "none" =>
          \/ j \in InSeq(open)
          \/ \E w \in Jobs : pc[w] \in Unanswered /\ j \in InSeq(batch[w])

\* A window's step that takes no job away from it, or has answered them all.
LEMMA StillThere ==
    ASSUME IInv, NoJobForgotten, NEW w \in Jobs,
           pc[w] # "open", \A v \in Jobs \ {w} : pc'[v] = pc[v],
           UNCHANGED <<client, open, batch>>,
           \A j \in Jobs : answer[j] # "none" => answer'[j] # "none",
           \/ pc'[w] \in Unanswered \/ pc[w] \notin Unanswered
           \/ \A j \in InSeq(batch[w]) : answer'[j] # "none"
    PROVE  NoJobForgotten'
<1>1. open' # <<>> => \E v \in Jobs : pc'[v] = "open"
  <2> SUFFICES ASSUME open # <<>> PROVE \E v \in Jobs : pc'[v] = "open"
    OBVIOUS
  <2>1. PICK v \in Jobs : pc[v] = "open"
    BY DEF NoJobForgotten
  <2> QED BY <2>1
<1>2. ASSUME NEW j \in Jobs, client[j] # "new", answer'[j] = "none", j \notin InSeq(open)
      PROVE  \E v \in Jobs : pc'[v] \in Unanswered /\ j \in InSeq(batch[v])
  <2>1. PICK v \in Jobs : pc[v] \in Unanswered /\ j \in InSeq(batch[v])
    BY <1>2 DEF NoJobForgotten
  <2> QED BY <1>2, <2>1
<1> QED BY <1>1, <1>2 DEF NoJobForgotten

\* Every step of a request, a window or a panic leaves each unanswered job where
\* somebody will answer it.
LEMMA NextForgetsNone ==
    ASSUME IInv, NoJobForgotten, [Next]_vars
    PROVE  NoJobForgotten'
<1> USE DEF Unanswered
<1>1. ASSUME NEW j \in Jobs, Submit(j) PROVE NoJobForgotten'
  <2>1. pc[j] = "none" /\ InSeq(open') = InSeq(open) \cup {j}
    BY <1>1, AppendElements DEF Submit, IInv, TypeOK, NewInv
  <2>2. /\ UNCHANGED <<batch, answer>> /\ \A v \in Jobs \ {j} : pc'[v] = pc[v]
        /\ open = <<>> => pc'[j] = "open"
        /\ open # <<>> => pc' = pc
        /\ \A k \in Jobs \ {j} : client'[k] = client[k]
    BY <1>1 DEF Submit, IInv, TypeOK
  <2>3. \E v \in Jobs : pc'[v] = "open"
    BY <2>2 DEF NoJobForgotten
  <2>4. ASSUME NEW k \in Jobs, client'[k] # "new", answer'[k] = "none", k \notin InSeq(open')
        PROVE  \E v \in Jobs : pc'[v] \in Unanswered /\ k \in InSeq(batch'[v])
    <3>1. k # j /\ client[k] # "new" /\ answer[k] = "none" /\ k \notin InSeq(open)
      BY <2>1, <2>2, <2>4
    <3>2. PICK v \in Jobs : pc[v] \in Unanswered /\ k \in InSeq(batch[v])
      BY <3>1 DEF NoJobForgotten
    <3>3. v # j
      BY <2>1, <3>2
    <3> QED BY <2>2, <3>2, <3>3
  <2> QED BY <2>3, <2>4 DEF NoJobForgotten
<1>2. ASSUME NEW j \in Jobs, HangUp(j) PROVE NoJobForgotten'
  <2>1. \A k \in Jobs : client'[k] # "new" => client[k] # "new"
    BY <1>2 DEF HangUp, IInv, TypeOK
  <2> QED BY <1>2, <2>1 DEF HangUp, NoJobForgotten
<1>3. ASSUME NEW w \in Jobs, Flush(w) PROVE NoJobForgotten'
  <2>1. /\ open' = <<>> /\ UNCHANGED <<client, answer>>
        /\ pc[w] = "open" /\ batch'[w] = open /\ pc'[w] = "flushed"
        /\ \A v \in Jobs \ {w} : pc'[v] = pc[v] /\ batch'[v] = batch[v]
    BY <1>3 DEF Flush, Goto, IInv, TypeOK
  <2>2. ASSUME NEW j \in Jobs, client[j] # "new", answer[j] = "none"
        PROVE  \E v \in Jobs : pc'[v] \in Unanswered /\ j \in InSeq(batch'[v])
    <3>1. CASE j \in InSeq(open)
      BY <2>1, <3>1
    <3>2. CASE j \notin InSeq(open)
      <4>1. PICK v \in Jobs : pc[v] \in Unanswered /\ j \in InSeq(batch[v])
        BY <2>2, <3>2 DEF NoJobForgotten
      <4>2. v # w
        BY <2>1, <4>1
      <4> QED BY <2>1, <4>1, <4>2
    <3> QED BY <3>1, <3>2
  <2> QED BY <2>1, <2>2 DEF NoJobForgotten
<1>4. ASSUME NEW w \in Jobs, NEW why \in {"refused", "failed", "crashed"}, FailBatch(w, why)
      PROVE  /\ \A j \in Jobs : answer[j] # "none" => answer'[j] # "none"
             /\ \A j \in InSeq(batch[w]) : answer'[j] # "none"
  <2>1. \A j \in Jobs : answer'[j] =
            IF j \in InSeq(batch[w]) /\ answer[j] = "none" THEN why ELSE answer[j]
    BY <1>4, FailBatchFacts DEF Answers
  <2> QED BY <2>1, OnlyJobs
<1>5. ASSUME NEW w \in Jobs, NEW q, Goto(w, q)
      PROVE  pc'[w] = q /\ \A v \in Jobs \ {w} : pc'[v] = pc[v]
  BY <1>5 DEF Goto, IInv, TypeOK
<1>6. ASSUME NEW w \in Jobs, NEW why \in {"refused", "failed"}, Abandon(w, why),
             pc[w] # "open", UNCHANGED <<client, open, batch>>
      PROVE  NoJobForgotten'
  BY <1>4, <1>5, <1>6, StillThere DEF Abandon
<1>7. ASSUME NEW w \in Jobs, NEW q \in Unanswered, Goto(w, q) \/ UNCHANGED pc,
             pc[w] \in Unanswered, UNCHANGED <<client, open, batch, answer>>
      PROVE  NoJobForgotten'
  <2>1. pc'[w] \in Unanswered /\ \A v \in Jobs \ {w} : pc'[v] = pc[v]
    BY <1>5, <1>7
  <2> QED BY <1>7, <2>1, StillThere
<1>8. ASSUME NEW w \in Jobs,
             TakeConn(w) \/ TakeLock(w) \/ NothingKept(w) \/ Settle(w) \/ Commit(w)
      PROVE  NoJobForgotten'
  <2>1. CASE TakeConn(w)
    BY <1>6, <1>7, <2>1 DEF TakeConn
  <2>2. CASE TakeLock(w)
    BY <1>6, <1>7, <2>2 DEF TakeLock
  <2>3. CASE NothingKept(w)
    BY <1>6, <2>3 DEF NothingKept
  <2>4. CASE Settle(w)
    BY <1>6, <1>7, <2>4 DEF Settle
  <2>5. CASE Commit(w)
    BY <1>6, <1>7, <2>5 DEF Commit
  <2> QED BY <1>8, <2>1, <2>2, <2>3, <2>4, <2>5
<1>9. ASSUME NEW w \in Jobs, RunJob(w) \/ Unlock(w) \/ TellTouched(w)
      PROVE  NoJobForgotten'
  <2>1. CASE RunJob(w)
    BY <1>7, <2>1 DEF RunJob
  <2>2. CASE Unlock(w)
    BY <1>7, <2>2 DEF Unlock
  <2>3. CASE TellTouched(w)
    BY <1>7, <2>3 DEF TellTouched
  <2> QED BY <1>9, <2>1, <2>2, <2>3
<1>10. ASSUME NEW w \in Jobs, Deliver(w) PROVE NoJobForgotten'
  <2>1. \A j \in Jobs : answer[j] # "none" => answer'[j] # "none"
    BY <1>10 DEF Deliver, Answered
  <2>2. \A j \in InSeq(batch[w]) : answer'[j] # "none"
    BY <1>10, OnlyJobs DEF Deliver, Answered
  <2> QED BY <1>5, <1>10, <2>1, <2>2, StillThere DEF Deliver
<1>11. ASSUME NEW w \in Jobs, TellRest(w) \/ Finish(w) PROVE NoJobForgotten'
  <2>1. /\ pc[w] = "rest" /\ UNCHANGED <<client, open, batch, answer>>
        /\ \A v \in Jobs \ {w} : pc'[v] = pc[v]
    BY <1>5, <1>11 DEF TellRest, Finish
  <2> QED BY <2>1, StillThere
<1>12. ASSUME NEW w \in Jobs, Panic(w) PROVE NoJobForgotten'
  <2>1. /\ FailBatch(w, "crashed") /\ Goto(w, "dead") /\ UNCHANGED <<client, open, batch>>
        /\ pc[w] # "open"
    BY <1>12 DEF Panic
  <2> QED BY <1>4, <1>5, <2>1, StillThere
<1>13. CASE UNCHANGED vars
  BY <1>13 DEF vars, NoJobForgotten
<1> QED
  BY <1>1, <1>2, <1>3, <1>8, <1>9, <1>10, <1>11, <1>12, <1>13 DEF Next, Request, Step

\* However windows overlap, fail, panic or find their clients gone, a job without an
\* answer is in the open window, whose timer runs, or in one that has yet to answer it
\* (web/editbatch: enqueueEdit, flushEditBatch, recover).
THEOREM NoneForgotten == Spec => []NoJobForgotten
<1>1. Init => NoJobForgotten
  BY DEF Init, NoJobForgotten
<1> QED
  BY <1>1, NextForgetsNone, Invariance, PTL DEF Spec

=============================================================================
