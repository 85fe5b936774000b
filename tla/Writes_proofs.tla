---------------------------- MODULE Writes_proofs ----------------------------
(***************************************************************************)
(* Proofs about the two ends of a write: the pool and the locks a commit goes *)
(* through on the server, and the writer of the page that sends it.        *)
(***************************************************************************)
EXTENDS Writes, FiniteSetTheorems, TLAPS

-----------------------------------------------------------------------------
(***************************************************************************)
(* Proofs about the write pool: its type invariant, that a structural      *)
(* write reloads its own revision, and that the pool does not close into a *)
(* circle as long as there are fewer finishing windows than connections.   *)
(***************************************************************************)

\* Not every connection can be in the hands of a window.
FewWindows == Cardinality(Windows) < Cardinality(Conns)

\* Where each kind of request can be.
KindInv ==
    \A a \in Actors :
        /\ a \in Windows => at[a] \notin {"settle", "reload", "reading", "fold", "folding"}
        /\ a \in Structural => at[a] \notin {"tell", "fold", "folding"}
        /\ a \in Archivers => at[a] \in {"idle", "lock", "fold", "folding", "unlock", "close"}
        /\ a \in Readers => at[a] \in {"idle", "snap", "loading", "fill"}

\* The lock is held from LockWrite to Unlock.
Locked == {"tx", "settle", "reload", "reading", "fold", "folding", "unlock"}

LockInv == \A a \in Actors : a \in lock <=> at[a] \in Locked

AtMostOne(S) == \A c, d \in S : c = d

\* A window waits for its second connection with one in hand, whoever else waits
\* for a view with none.
HeldInv ==
    \A a \in Actors :
        /\ a \in Windows /\ at[a] \in {"idle", "conn"} => held[a] = {}
        /\ a \in Windows /\ at[a] \in {"lock", "tx", "unlock", "tell", "view", "look", "snap"}
              => AtMostOne(held[a])
        /\ a \in Structural \cup Readers
              /\ at[a] \in {"idle", "conn", "view", "look", "snap", "fill", "announce"}
              => held[a] = {}
        /\ a \in Structural \cup Readers /\ at[a] = "loading" => AtMostOne(held[a])

\* From its commit until it lets the lock go, a structural write's revision is the
\* last, and it has a view in hand only once it has reloaded.
OwnInv ==
    \A a \in Structural :
        /\ at[a] \in {"idle", "conn", "lock", "tx", "settle", "reload", "reading"}
              => view[a] = {}
        /\ at[a] \in {"settle", "reload", "reading"} => rev[a] = db
        /\ at[a] \in {"unlock", "close"} /\ view[a] # {} => view[a] = {rev[a]}

PoolInv == TypeOK /\ KindInv /\ LockInv /\ OwnInv /\ HeldInv

-----------------------------------------------------------------------------
\* Where a request with a connection goes on.
LEMMA ThenIs ==
    /\ DOMAIN Then = {"conn", "reload", "snap", "fold"}
    /\ Then["conn"] = "lock" /\ Then["reload"] = "reading"
    /\ Then["snap"] = "loading" /\ Then["fold"] = "folding"
BY DEF Then

\* Every step keeps the types.
LEMMA PoolTypeStep ==
    ASSUME TypeOK, [Next]_vars
    PROVE  TypeOK'
<1> USE WritePoolAssumption
<1>1. ASSUME NEW a \in Actors, Arrive(a) \/ TakeConn(a) \/ LockWrite(a) \/ Work(a)
      PROVE  TypeOK'
  <2>1. CASE Arrive(a)
    BY <2>1 DEF Arrive, Goto, TypeOK, Stages, Views, Actors, Writers
  <2>2. CASE TakeConn(a)
    BY <2>2, ThenIs DEF TakeConn, Goto, TypeOK, Stages, Views, Free, Actors, Writers
  <2>3. CASE LockWrite(a)
    BY <2>3 DEF LockWrite, Goto, TypeOK, Stages, Views, Actors, Writers
  <2>4. CASE Expire(a)
    BY <2>4 DEF Expire, Goto, TypeOK, Stages, Views, Actors, Writers
  <2>5. CASE FailTx(a)
    BY <2>5 DEF FailTx, Goto, TypeOK, Stages, Views, Actors, Writers
  <2>6. CASE Commit(a)
    BY <2>6 DEF Commit, Goto, TypeOK, Stages, Views, Actors, Writers
  <2>7. CASE Settle(a)
    BY <2>7 DEF Settle, Goto, TypeOK, Stages, Views, Actors, Writers
  <2>8. CASE Reload(a)
    BY <2>8 DEF Reload, Goto, TypeOK, Stages, Views, GiveBack, Actors, Writers
  <2>9. CASE Fold(a)
    BY <2>9 DEF Fold, Goto, TypeOK, Stages, Views, GiveBack, Actors, Writers
  <2>10. CASE Unlock(a)
    BY <2>10 DEF Unlock, Goto, TypeOK, Stages, Views, Actors, Writers
  <2>11. CASE Tell(a)
    BY <2>11 DEF Tell, Goto, TypeOK, Stages, Views, Actors, Writers
  <2>12. CASE Close(a)
    BY <2>12 DEF Close, Goto, TypeOK, Stages, Views, Over, Actors, Writers
  <2>13. CASE Invalidate(a)
    BY <2>13 DEF Invalidate, Goto, TypeOK, Stages, Views, Actors, Writers
  <2>14. CASE Look(a)
    BY <2>14 DEF Look, Goto, TypeOK, Stages, Views, Actors, Writers
  <2>15. CASE Snapshot(a)
    BY <2>15 DEF Snapshot, Goto, TypeOK, Stages, Views, GiveBack, Actors, Writers
  <2>16. CASE FailRead(a)
    BY <2>16 DEF FailRead, Goto, TypeOK, Stages, Views, GiveBack, Over, Actors, Writers
  <2>17. CASE Fill(a)
    BY <2>17 DEF Fill, Goto, TypeOK, Stages, Views, Over, Actors, Writers
  <2>18. CASE Announce(a)
    BY <2>18 DEF Announce, Goto, TypeOK, Stages, Views, Over, Actors, Writers
  <2>19. QED
    BY <1>1, <2>1, <2>2, <2>3, <2>4, <2>5, <2>6, <2>7, <2>8, <2>9, <2>10,
       <2>11, <2>12, <2>13, <2>14, <2>15, <2>16, <2>17, <2>18 DEF Work
<1>2. CASE UNCHANGED vars
  BY <1>2 DEF vars, TypeOK, Stages, Views, GiveBack, Over, Actors, Writers
<1>3. QED
  BY <1>1, <1>2 DEF Next

\* Every step keeps a request where its kind belongs.
LEMMA KindStep ==
    ASSUME TypeOK, KindInv, [Next]_vars
    PROVE  KindInv'
<1> USE WritePoolAssumption
<1>1. ASSUME NEW a \in Actors, Arrive(a) \/ TakeConn(a) \/ LockWrite(a) \/ Work(a)
      PROVE  KindInv'
  <2>1. CASE Arrive(a)
    BY <2>1 DEF Arrive, Goto, TypeOK, KindInv, Actors, Writers
  <2>2. CASE TakeConn(a)
    BY <2>2, ThenIs DEF TakeConn, Goto, TypeOK, KindInv, Actors, Writers
  <2>3. CASE LockWrite(a)
    BY <2>3 DEF LockWrite, Goto, TypeOK, KindInv, Actors, Writers
  <2>4. CASE Expire(a)
    BY <2>4 DEF Expire, Goto, TypeOK, KindInv, Actors, Writers
  <2>5. CASE FailTx(a)
    BY <2>5 DEF FailTx, Goto, TypeOK, KindInv, Actors, Writers
  <2>6. CASE Commit(a)
    BY <2>6 DEF Commit, Goto, TypeOK, KindInv, Actors, Writers
  <2>7. CASE Settle(a)
    BY <2>7 DEF Settle, Goto, TypeOK, KindInv, Actors, Writers
  <2>8. CASE Reload(a)
    BY <2>8 DEF Reload, Goto, TypeOK, KindInv, Actors, Writers
  <2>9. CASE Fold(a)
    BY <2>9 DEF Fold, Goto, TypeOK, KindInv, Actors, Writers
  <2>10. CASE Unlock(a)
    BY <2>10 DEF Unlock, Goto, TypeOK, KindInv, Actors, Writers
  <2>11. CASE Tell(a)
    BY <2>11 DEF Tell, Goto, TypeOK, KindInv, Actors, Writers
  <2>12. CASE Close(a)
    BY <2>12 DEF Close, Goto, TypeOK, KindInv, Over, Actors, Writers
  <2>13. CASE Invalidate(a)
    BY <2>13 DEF Invalidate, Goto, TypeOK, KindInv, Actors, Writers
  <2>14. CASE Look(a)
    BY <2>14 DEF Look, Goto, TypeOK, KindInv, Actors, Writers
  <2>15. CASE Snapshot(a)
    BY <2>15 DEF Snapshot, Goto, TypeOK, KindInv, Actors, Writers
  <2>16. CASE FailRead(a)
    BY <2>16 DEF FailRead, Goto, TypeOK, KindInv, Over, Actors, Writers
  <2>17. CASE Fill(a)
    BY <2>17 DEF Fill, Goto, TypeOK, KindInv, Over, Actors, Writers
  <2>18. CASE Announce(a)
    BY <2>18 DEF Announce, Goto, TypeOK, KindInv, Over, Actors, Writers
  <2>19. QED
    BY <1>1, <2>1, <2>2, <2>3, <2>4, <2>5, <2>6, <2>7, <2>8, <2>9, <2>10,
       <2>11, <2>12, <2>13, <2>14, <2>15, <2>16, <2>17, <2>18 DEF Work
<1>2. CASE UNCHANGED vars
  BY <1>2 DEF vars, TypeOK, KindInv, Over, Actors, Writers
<1>3. QED
  BY <1>1, <1>2 DEF Next

\* Every step keeps the lock with the request inside it.
LEMMA LockStep ==
    ASSUME TypeOK, KindInv, LockInv, [Next]_vars
    PROVE  LockInv'
<1> USE WritePoolAssumption
<1>1. ASSUME NEW a \in Actors, Arrive(a) \/ TakeConn(a) \/ LockWrite(a) \/ Work(a)
      PROVE  LockInv'
  <2>1. CASE Arrive(a)
    BY <2>1 DEF Arrive, Goto, TypeOK, KindInv, LockInv, Locked, Actors, Writers
  <2>2. CASE TakeConn(a)
    BY <2>2, ThenIs DEF TakeConn, Goto, TypeOK, KindInv, LockInv, Locked, Actors, Writers
  <2>3. CASE LockWrite(a)
    BY <2>3 DEF LockWrite, Goto, TypeOK, KindInv, LockInv, Locked, Actors, Writers
  <2>4. CASE Expire(a)
    BY <2>4 DEF Expire, Goto, TypeOK, KindInv, LockInv, Locked, Actors, Writers
  <2>5. CASE FailTx(a)
    BY <2>5 DEF FailTx, Goto, TypeOK, KindInv, LockInv, Locked, Actors, Writers
  <2>6. CASE Commit(a)
    BY <2>6 DEF Commit, Goto, TypeOK, KindInv, LockInv, Locked, Actors, Writers
  <2>7. CASE Settle(a)
    BY <2>7 DEF Settle, Goto, TypeOK, KindInv, LockInv, Locked, Actors, Writers
  <2>8. CASE Reload(a)
    BY <2>8 DEF Reload, Goto, TypeOK, KindInv, LockInv, Locked, Actors, Writers
  <2>9. CASE Fold(a)
    BY <2>9 DEF Fold, Goto, TypeOK, KindInv, LockInv, Locked, Actors, Writers
  <2>10. CASE Unlock(a)
    BY <2>10 DEF Unlock, Goto, TypeOK, KindInv, LockInv, Locked, Actors, Writers
  <2>11. CASE Tell(a)
    BY <2>11 DEF Tell, Goto, TypeOK, KindInv, LockInv, Locked, Actors, Writers
  <2>12. CASE Close(a)
    BY <2>12 DEF Close, Goto, TypeOK, KindInv, LockInv, Locked, Over, Actors, Writers
  <2>13. CASE Invalidate(a)
    BY <2>13 DEF Invalidate, Goto, TypeOK, KindInv, LockInv, Locked, Actors, Writers
  <2>14. CASE Look(a)
    BY <2>14 DEF Look, Goto, TypeOK, KindInv, LockInv, Locked, Actors, Writers
  <2>15. CASE Snapshot(a)
    BY <2>15 DEF Snapshot, Goto, TypeOK, KindInv, LockInv, Locked, Actors, Writers
  <2>16. CASE FailRead(a)
    BY <2>16 DEF FailRead, Goto, TypeOK, KindInv, LockInv, Locked, Over, Actors, Writers
  <2>17. CASE Fill(a)
    BY <2>17 DEF Fill, Goto, TypeOK, KindInv, LockInv, Locked, Over, Actors, Writers
  <2>18. CASE Announce(a)
    BY <2>18 DEF Announce, Goto, TypeOK, KindInv, LockInv, Locked, Over, Actors, Writers
  <2>19. QED
    BY <1>1, <2>1, <2>2, <2>3, <2>4, <2>5, <2>6, <2>7, <2>8, <2>9, <2>10,
       <2>11, <2>12, <2>13, <2>14, <2>15, <2>16, <2>17, <2>18 DEF Work
<1>2. CASE UNCHANGED vars
  BY <1>2 DEF vars, TypeOK, KindInv, LockInv, Locked, Over, Actors, Writers
<1>3. QED
  BY <1>1, <1>2 DEF Next

\* Every step keeps what a structural write knows of its revision.
LEMMA OwnStep ==
    ASSUME TypeOK, KindInv, LockInv, OwnInv, [Next]_vars
    PROVE  OwnInv'
<1> USE WritePoolAssumption
<1>1. ASSUME NEW a \in Actors, Arrive(a) \/ TakeConn(a) \/ LockWrite(a) \/ Work(a)
      PROVE  OwnInv'
  <2>1. CASE Arrive(a)
    BY <2>1 DEF Arrive, Goto, TypeOK, KindInv, LockInv, Locked, OwnInv, Actors, Writers
  <2>2. CASE TakeConn(a)
    BY <2>2, ThenIs DEF TakeConn, Goto, TypeOK, KindInv, LockInv, Locked, OwnInv, Actors,
           Writers
  <2>3. CASE LockWrite(a)
    BY <2>3 DEF LockWrite, Goto, TypeOK, KindInv, LockInv, Locked, OwnInv, Actors, Writers
  <2>4. CASE Expire(a)
    BY <2>4 DEF Expire, Goto, TypeOK, KindInv, LockInv, Locked, OwnInv, Actors, Writers
  <2>5. CASE FailTx(a)
    BY <2>5 DEF FailTx, Goto, TypeOK, KindInv, LockInv, Locked, OwnInv, Actors, Writers
  <2>6. CASE Commit(a)
    BY <2>6 DEF Commit, Goto, TypeOK, KindInv, LockInv, Locked, OwnInv, Actors, Writers
  <2>7. CASE Settle(a)
    BY <2>7 DEF Settle, Goto, TypeOK, KindInv, LockInv, Locked, OwnInv, Actors, Writers
  <2>8. CASE Reload(a)
    BY <2>8 DEF Reload, Goto, TypeOK, KindInv, LockInv, Locked, OwnInv, Actors, Writers
  <2>9. CASE Fold(a)
    BY <2>9 DEF Fold, Goto, TypeOK, KindInv, LockInv, Locked, OwnInv, Actors, Writers
  <2>10. CASE Unlock(a)
    BY <2>10 DEF Unlock, Goto, TypeOK, KindInv, LockInv, Locked, OwnInv, Actors, Writers
  <2>11. CASE Tell(a)
    BY <2>11 DEF Tell, Goto, TypeOK, KindInv, LockInv, Locked, OwnInv, Actors, Writers
  <2>12. CASE Close(a)
    BY <2>12 DEF Close, Goto, TypeOK, KindInv, LockInv, Locked, OwnInv, Over, Actors,
           Writers
  <2>13. CASE Invalidate(a)
    BY <2>13 DEF Invalidate, Goto, TypeOK, KindInv, LockInv, Locked, OwnInv, Actors, Writers
  <2>14. CASE Look(a)
    BY <2>14 DEF Look, Goto, TypeOK, KindInv, LockInv, Locked, OwnInv, Actors, Writers
  <2>15. CASE Snapshot(a)
    BY <2>15 DEF Snapshot, Goto, TypeOK, KindInv, LockInv, Locked, OwnInv, Actors, Writers
  <2>16. CASE FailRead(a)
    BY <2>16 DEF FailRead, Goto, TypeOK, KindInv, LockInv, Locked, OwnInv, Over, Actors,
           Writers
  <2>17. CASE Fill(a)
    BY <2>17 DEF Fill, Goto, TypeOK, KindInv, LockInv, Locked, OwnInv, Over, Actors, Writers
  <2>18. CASE Announce(a)
    BY <2>18 DEF Announce, Goto, TypeOK, KindInv, LockInv, Locked, OwnInv, Over, Actors,
           Writers
  <2>19. QED
    BY <1>1, <2>1, <2>2, <2>3, <2>4, <2>5, <2>6, <2>7, <2>8, <2>9, <2>10,
       <2>11, <2>12, <2>13, <2>14, <2>15, <2>16, <2>17, <2>18 DEF Work
<1>2. CASE UNCHANGED vars
  BY <1>2 DEF vars, TypeOK, KindInv, LockInv, Locked, OwnInv, Over, Actors, Writers
<1>3. QED
  BY <1>1, <1>2 DEF Next

\* Every step keeps what a request holds.
LEMMA HeldStep ==
    ASSUME TypeOK, KindInv, HeldInv, [Next]_vars
    PROVE  HeldInv'
<1> USE WritePoolAssumption
<1>1. ASSUME NEW a \in Actors, Arrive(a) \/ TakeConn(a) \/ LockWrite(a) \/ Work(a)
      PROVE  HeldInv'
  <2>1. CASE Arrive(a)
    BY <2>1 DEF Arrive, Goto, TypeOK, KindInv, HeldInv, AtMostOne, Actors, Writers
  <2>2. CASE TakeConn(a)
    BY <2>2, ThenIs DEF TakeConn, Goto, TypeOK, KindInv, HeldInv, AtMostOne, Free, Actors,
           Writers
  <2>3. CASE LockWrite(a)
    BY <2>3 DEF LockWrite, Goto, TypeOK, KindInv, HeldInv, AtMostOne, Actors, Writers
  <2>4. CASE Expire(a)
    BY <2>4 DEF Expire, Goto, TypeOK, KindInv, HeldInv, AtMostOne, Actors, Writers
  <2>5. CASE FailTx(a)
    BY <2>5 DEF FailTx, Goto, TypeOK, KindInv, HeldInv, AtMostOne, Actors, Writers
  <2>6. CASE Commit(a)
    BY <2>6 DEF Commit, Goto, TypeOK, KindInv, HeldInv, AtMostOne, Actors, Writers
  <2>7. CASE Settle(a)
    BY <2>7 DEF Settle, Goto, TypeOK, KindInv, HeldInv, AtMostOne, Actors, Writers
  <2>8. CASE Reload(a)
    BY <2>8 DEF Reload, Goto, TypeOK, KindInv, HeldInv, AtMostOne, GiveBack, Actors, Writers
  <2>9. CASE Fold(a)
    BY <2>9 DEF Fold, Goto, TypeOK, KindInv, HeldInv, AtMostOne, GiveBack, Actors, Writers
  <2>10. CASE Unlock(a)
    BY <2>10 DEF Unlock, Goto, TypeOK, KindInv, HeldInv, AtMostOne, Actors, Writers
  <2>11. CASE Tell(a)
    BY <2>11 DEF Tell, Goto, TypeOK, KindInv, HeldInv, AtMostOne, Actors, Writers
  <2>12. CASE Close(a)
    BY <2>12 DEF Close, Goto, TypeOK, KindInv, HeldInv, AtMostOne, Over, Actors, Writers
  <2>13. CASE Invalidate(a)
    BY <2>13 DEF Invalidate, Goto, TypeOK, KindInv, HeldInv, AtMostOne, Actors, Writers
  <2>14. CASE Look(a)
    BY <2>14 DEF Look, Goto, TypeOK, KindInv, HeldInv, AtMostOne, Actors, Writers
  <2>15. CASE Snapshot(a)
    BY <2>15 DEF Snapshot, Goto, TypeOK, KindInv, HeldInv, AtMostOne, GiveBack, Actors,
           Writers
  <2>16. CASE FailRead(a)
    BY <2>16 DEF FailRead, Goto, TypeOK, KindInv, HeldInv, AtMostOne, GiveBack, Over,
           Actors, Writers
  <2>17. CASE Fill(a)
    BY <2>17 DEF Fill, Goto, TypeOK, KindInv, HeldInv, AtMostOne, Over, Actors, Writers
  <2>18. CASE Announce(a)
    BY <2>18 DEF Announce, Goto, TypeOK, KindInv, HeldInv, AtMostOne, Over, Actors, Writers
  <2>19. QED
    BY <1>1, <2>1, <2>2, <2>3, <2>4, <2>5, <2>6, <2>7, <2>8, <2>9, <2>10,
       <2>11, <2>12, <2>13, <2>14, <2>15, <2>16, <2>17, <2>18 DEF Work
<1>2. CASE UNCHANGED vars
  BY <1>2 DEF vars, TypeOK, KindInv, HeldInv, AtMostOne, GiveBack, Over, Free, Actors, Writers
<1>3. QED
  BY <1>1, <1>2 DEF Next

\* The initial state has every part of the invariant.
LEMMA InitIInv == Init => PoolInv
<1> SUFFICES ASSUME Init PROVE PoolInv
  OBVIOUS
<1>1. TypeOK
  BY DEF Init, TypeOK, Stages, Views
<1>2. KindInv
  BY DEF Init, KindInv
<1>3. LockInv
  BY DEF Init, LockInv, Locked
<1>4. OwnInv
  BY DEF Init, OwnInv, Actors, Writers
<1>5. HeldInv
  BY DEF Init, HeldInv, AtMostOne
<1>6. QED
  BY <1>1, <1>2, <1>3, <1>4, <1>5 DEF PoolInv

LEMMA StepIInv == PoolInv /\ [Next]_vars => PoolInv'
BY PoolTypeStep, KindStep, LockStep, OwnStep, HeldStep DEF PoolInv

\* The invariant behind the theorems.
LEMMA Invariance == Spec => []PoolInv
BY InitIInv, StepIInv, PTL DEF Spec

\* The write pool's types: the lock has one holder at most.
THEOREM PoolTyped == Spec => []TypeOK
<1>1. PoolInv => TypeOK
  BY DEF PoolInv
<1>2. QED
  BY <1>1, Invariance, PTL

\* What a structural write reloads under the lock and broadcasts after it is the
\* revision it committed itself, for any number of writes and connections.
THEOREM ReloadsItsOwn == Spec => []ReloadIsOwn
<1>1. PoolInv => ReloadIsOwn
  BY DEF PoolInv, OwnInv, ReloadIsOwn
<1>2. QED
  BY <1>1, Invariance, PTL

\* With fewer windows than connections some connection is not in the hands of a
\* window that waits for another: each waits with one.
LEMMA SomeConnMoves == ASSUME FewWindows, PoolInv PROVE PoolNotWedged
<1> SUFFICES ASSUME \A c \in Conns : \E a \in Actors : c \in held[a] /\ at[a] = "snap"
             PROVE  FALSE
  BY DEF PoolNotWedged
<1>1. ASSUME NEW c \in Conns
      PROVE  \E w \in Windows : c \in held[w] /\ at[w] = "snap"
  <2>1. PICK a \in Actors : c \in held[a] /\ at[a] = "snap"
    OBVIOUS
  <2>2. a \notin Structural \cup Readers
    BY <2>1 DEF PoolInv, HeldInv
  <2>3. a \notin Archivers
    BY <2>1 DEF PoolInv, KindInv
  <2>4. QED
    BY <2>1, <2>2, <2>3 DEF Actors, Writers
<1> DEFINE waiter == [c \in Conns |-> CHOOSE w \in Windows : c \in held[w] /\ at[w] = "snap"]
<1>2. \A c \in Conns : /\ waiter[c] \in Windows
                       /\ c \in held[waiter[c]] /\ at[waiter[c]] = "snap"
  BY <1>1
<1>3. waiter \in [Conns -> Windows]
  BY <1>2
<1>4. PICK c, d \in Conns : c # d /\ waiter[c] = waiter[d]
  <2>1. IsFiniteSet(Conns) /\ IsFiniteSet(Windows)
    BY WritePoolAssumption
  <2> HIDE DEF waiter
  <2>2. QED
    BY <1>3, <2>1, FS_PigeonHole DEF FewWindows
<1>5. AtMostOne(held[waiter[c]])
  BY <1>2 DEF PoolInv, HeldInv, Actors, Writers
<1>6. c \in held[waiter[c]] /\ d \in held[waiter[c]]
  BY <1>2, <1>4
<1>7. QED
  BY <1>4, <1>5, <1>6 DEF AtMostOne

\* The pool does not close into a circle: with fewer windows than connections
\* there is always a connection that is free or comes back by itself.
THEOREM PoolMoves ==
    ASSUME FewWindows
    PROVE  Spec => []PoolNotWedged
<1>1. PoolInv => PoolNotWedged
  BY SomeConnMoves
<1>2. QED
  BY <1>1, Invariance, PTL

-----------------------------------------------------------------------------
(***************************************************************************)
(* Proofs about the scoped writer: its type invariant for any tabs, and,   *)
(* for a scope open in one tab, that no edit is lost, that the cells show  *)
(* the last edit made, and that the server ends up holding it.             *)
(***************************************************************************)

\* The scope is open in one tab of the browser at most.
OneTab == \A t, u \in Tabs : t = u

\* A tab that asks whether it may send has something to send.
AskingHas == \A t \in Tabs : sent[t] = "asking" => queue[t] # Nothing

\* localStorage holds what the tab has un-acked.
Mirrored == \A t \in Tabs : storage = All(t)

\* A PATCH the server has applied is in its document, and nothing older is still on
\* its way to undo that.
DoneIsStored == \A t \in Tabs : sent[t] = "done" => Edits(inFlight[t]) \subseteq stored

DoneStands ==
    \A t \in Tabs : sent[t] = "done" =>
        orphans = {} /\ \A p \in Paths : inFlight[t][p] # 0 => doc[p] = inFlight[t][p]

\* A path with nothing un-acked: its last edit was given up, or is in the document
\* with no PATCH on its way that would replace it.
Settled(p) == \A t \in Tabs : All(t)[p] = 0

SettledStands ==
    \A p \in Paths : Settled(p) =>
        \/ last[p] \in dropped
        \/ doc[p] = last[p] /\ \A o \in orphans : o[p] = 0

TypeInv == WriterTypeOK /\ AskingHas

WriterInv ==
    /\ TypeInv /\ Mirrored /\ DoneIsStored /\ NoEditLost /\ PendingShowsLast
    /\ ~Overtakes => DoneStands /\ SettledStands

-----------------------------------------------------------------------------
\* A batch over a batch is a batch.
LEMMA OverType ==
    ASSUME NEW b \in Batches, NEW c \in Batches
    PROVE  LaidOver(b, c) \in Batches
BY DEF LaidOver, Batches

\* An empty batch changes nothing, over or under another.
LEMMA OverNothing ==
    ASSUME NEW b \in Batches
    PROVE  LaidOver(b, Nothing) = b /\ LaidOver(Nothing, b) = b /\ Nothing \in Batches
BY DEF LaidOver, Nothing, Batches

\* The edits of a batch are numbers.
LEMMA EditsType ==
    ASSUME NEW b \in Batches
    PROVE  Edits(b) \subseteq Nat
BY DEF Edits, Batches

\* Every step keeps the types, and asks only with something to send.
LEMMA WriterTypeStep ==
    ASSUME TypeInv, [WriterNext]_writerVars
    PROVE  TypeInv'
<1> USE ScopedWriterAssumption, OverType, OverNothing, EditsType
<1>1. ASSUME NEW t \in Tabs, NEW p \in Paths, Patch(t, p) PROVE TypeInv'
  <2>1. /\ queue[t] \in Batches /\ inFlight'[t] = inFlight[t] /\ inFlight[t] \in Batches
        /\ queue'[t] = [queue[t] EXCEPT ![p] = bounds.edits + 1]
        /\ bounds.edits + 1 \in Nat \ {0}
    BY <1>1 DEF Patch, Count, TypeInv, WriterTypeOK
  <2>2. queue'[t] \in Batches /\ queue'[t] # Nothing
    BY <2>1 DEF Batches, Nothing
  <2>3. storage' \in Batches
    BY <1>1, <2>1, <2>2 DEF Patch, Mirror, All
  <2>4. last' \in Batches /\ bounds' \in [{"edits", "failures", "refusals", "reloads"} -> Nat]
    BY <1>1, <2>1 DEF Patch, Count, Batches, TypeInv, WriterTypeOK
  <2>5. QED
    BY <1>1, <2>2, <2>3, <2>4 DEF Patch, TypeInv, WriterTypeOK, AskingHas
<1>2. ASSUME NEW t \in Tabs, NEW old \in SUBSET Paths, ReloadPage(t, old) PROVE TypeInv'
  <2> DEFINE kept == [p \in Paths |-> IF p \in old THEN 0 ELSE storage[p]]
  <2>1. kept \in Batches /\ {storage[p] : p \in old} \subseteq Nat
    BY DEF Batches, TypeInv, WriterTypeOK
  <2>2. queue' = [queue EXCEPT ![t] = kept] /\ inFlight' = [inFlight EXCEPT ![t] = Nothing]
    BY <1>2 DEF ReloadPage, Kept
  <2> HIDE DEF kept
  <2>3. queue' \in [Tabs -> Batches] /\ inFlight' \in [Tabs -> Batches] /\ storage' \in Batches
    BY <1>2, <2>1, <2>2 DEF ReloadPage, Mirror, All, TypeInv, WriterTypeOK
  <2>4. dropped' \subseteq Nat /\ orphans' \subseteq Batches /\ timer' \in [Tabs -> BOOLEAN]
    BY <1>2, <2>1 DEF ReloadPage, TypeInv, WriterTypeOK
  <2>5. QED
    BY <1>2, <2>2, <2>3, <2>4 DEF ReloadPage, Count, TypeInv, WriterTypeOK, AskingHas
<1>3. ASSUME NEW t \in Tabs, Flush(t) \/ NoBase(t) \/ Unsendable(t) \/ Page(t)
      PROVE  TypeInv'
  <2>1. CASE Flush(t)
    BY <2>1 DEF Flush, Send, TypeInv, WriterTypeOK, AskingHas, Mirror, Count, pages, fate
  <2>2. CASE MaySend(t)
    BY <2>2 DEF MaySend, Send, TypeInv, WriterTypeOK, AskingHas, Mirror, Count, pages, fate
  <2>3. CASE HoldBack(t)
    BY <2>3 DEF HoldBack, TypeInv, WriterTypeOK, AskingHas, Mirror, Count, pages, fate
  <2>4. CASE Apply(t)
    <3>1. doc' \in Batches /\ stored' \subseteq Nat
      BY <2>4 DEF Apply, Reaches, TypeInv, WriterTypeOK
    <3>2. QED
      BY <2>4, <3>1 DEF Apply, TypeInv, WriterTypeOK, AskingHas
  <2>5. CASE Refuse(t)
    BY <2>5 DEF Refuse, InOrder, TypeInv, WriterTypeOK, AskingHas, Mirror, Count, pages, fate
  <2>6. CASE Answered(t)
    <3>1. Edits(inFlight[t]) \subseteq Nat
      BY DEF TypeInv, WriterTypeOK
    <3>2. storage' \in Batches /\ dropped' \subseteq Nat /\ timer' \in [Tabs -> BOOLEAN]
      BY <2>6, <3>1 DEF Answered, Again, Mirror, All, TypeInv, WriterTypeOK
    <3>3. QED
      BY <2>6, <3>2 DEF Answered, TypeInv, WriterTypeOK, AskingHas
  <2>7. CASE NoAnswer(t)
    BY <2>7 DEF NoAnswer, Requeue, Again, All, TypeInv, WriterTypeOK, AskingHas, Mirror, Count, pages, fate
  <2>8. CASE NoBase(t)
    <3>1. storage' \in Batches /\ timer' \in [Tabs -> BOOLEAN] /\ inFlight[t] = Nothing
      BY <2>8 DEF NoBase, Encode, Mirror, All, TypeInv, WriterTypeOK
    <3>2. QED
      BY <2>8, <3>1 DEF NoBase, TypeInv, WriterTypeOK, AskingHas, fate
  <2>9. CASE Unsendable(t)
    <3>1. Edits(queue[t]) \subseteq Nat
      BY DEF TypeInv, WriterTypeOK
    <3>2. storage' \in Batches /\ dropped' \subseteq Nat /\ timer' \in [Tabs -> BOOLEAN]
      BY <2>9, <3>1 DEF Unsendable, Encode, Mirror, All, TypeInv, WriterTypeOK
    <3>3. QED
      BY <2>9, <3>2 DEF Unsendable, Encode, TypeInv, WriterTypeOK, AskingHas
  <2>10. QED
    BY <1>3, <2>1, <2>2, <2>3, <2>4, <2>5, <2>6, <2>7, <2>8, <2>9 DEF Page
<1>4. ASSUME NEW o \in orphans, ApplyOrphan(o) PROVE TypeInv'
  <2>1. o \in Batches /\ doc \in Batches /\ Edits(o) \subseteq Nat
    BY DEF TypeInv, WriterTypeOK
  <2>2. doc' \in Batches /\ stored' \subseteq Nat /\ orphans' \subseteq orphans
    BY <1>4, <2>1 DEF ApplyOrphan, Reaches, TypeInv, WriterTypeOK
  <2>3. QED
    BY <1>4, <2>2 DEF ApplyOrphan, pages, TypeInv, WriterTypeOK, AskingHas
<1>5. CASE UNCHANGED writerVars
  BY <1>5 DEF writerVars, TypeInv, WriterTypeOK, AskingHas, Mirror, Count, pages, fate
<1>6. QED
  BY <1>1, <1>2, <1>3, <1>4, <1>5 DEF WriterNext

-----------------------------------------------------------------------------
\* Sending, holding back, applying, refusing and requeueing move the edits a tab
\* shows between its queue and its PATCH, and change none of them.
LEMMA Moves ==
    ASSUME TypeInv, NEW t \in Tabs,
           \/ Flush(t) \/ NoBase(t) \/ MaySend(t) \/ HoldBack(t)
           \/ Apply(t) \/ Refuse(t) \/ NoAnswer(t)
    PROVE  \A u \in Tabs : All(u)' = All(u)
<1> USE OverNothing DEF TypeInv, WriterTypeOK
<1>1. queue[t] \in Batches /\ inFlight[t] \in Batches
  OBVIOUS
<1>2. CASE Flush(t) \/ MaySend(t)
  BY <1>1, <1>2 DEF Flush, MaySend, Send, All
<1>3. CASE NoBase(t) \/ HoldBack(t)
  BY <1>3 DEF NoBase, HoldBack, All
<1>4. CASE Apply(t) \/ Refuse(t)
  BY <1>4 DEF Apply, Refuse, All
<1>5. CASE NoAnswer(t)
  <2>1. LaidOver(inFlight[t], queue[t]) \in Batches
    BY <1>1, OverType
  <2>2. QED
    BY <1>1, <1>5, <2>1 DEF NoAnswer, Requeue, All
<1>6. QED
  BY <1>2, <1>3, <1>4, <1>5

\* A new edit is what its path shows.
LEMMA Edited ==
    ASSUME TypeInv, NEW t \in Tabs, NEW p \in Paths, Patch(t, p)
    PROVE  /\ last' = [last EXCEPT ![p] = bounds.edits + 1]
           /\ \A q \in Paths : All(t)'[q] = IF q = p THEN last'[p] ELSE All(t)[q]
           /\ last'[p] # 0
BY DEF TypeInv, WriterTypeOK, Patch, Count, All, LaidOver, Batches

\* An answer leaves what was queued since.
LEMMA Acked ==
    ASSUME TypeInv, NEW t \in Tabs, Answered(t)
    PROVE  All(t)' = queue[t]
BY OverNothing DEF TypeInv, WriterTypeOK, Answered, All

\* Edits that translate to nothing were all the tab had.
LEMMA Discarded ==
    ASSUME TypeInv, NEW t \in Tabs, Unsendable(t)
    PROVE  All(t)' = Nothing /\ All(t) = queue[t]
<1>1. inFlight[t] = Nothing /\ queue[t] \in Batches
  BY DEF TypeInv, WriterTypeOK, Unsendable, Encode
<1>2. queue'[t] = Nothing /\ inFlight' = inFlight
  BY DEF TypeInv, WriterTypeOK, Unsendable
<1> QED BY <1>1, <1>2, OverNothing DEF All

\* A page that is loaded again shows what localStorage holds and is not too old.
LEMMA Reloaded ==
    ASSUME TypeInv, NEW t \in Tabs, NEW old \in SUBSET Paths, ReloadPage(t, old)
    PROVE  \A q \in Paths : All(t)'[q] = IF q \in old THEN 0 ELSE storage[q]
BY DEF TypeInv, WriterTypeOK, ReloadPage, Kept, All, LaidOver, Nothing, Batches

\* Every step with the one tab open keeps localStorage what the tab shows.
LEMMA MirrorStep ==
    ASSUME OneTab, TypeInv, Mirrored, [WriterNext]_writerVars
    PROVE  Mirrored'
<1>1. ASSUME NEW t \in Tabs, Mirror(t)
      PROVE  Mirrored'
  BY <1>1 DEF OneTab, Mirror, Mirrored
<1>2. ASSUME NEW t \in Tabs,
             Flush(t) \/ MaySend(t) \/ HoldBack(t) \/ Apply(t) \/ Refuse(t)
      PROVE  Mirrored'
  <2>1. storage' = storage
    BY <1>2 DEF Flush, MaySend, HoldBack, Apply, Refuse
  <2>2. QED
    BY <1>2, <2>1, Moves DEF Mirrored
<1>3. ASSUME NEW t \in Tabs, Answered(t) \/ NoAnswer(t) \/ NoBase(t) \/ Unsendable(t)
      PROVE  Mirrored'
  BY <1>1, <1>3 DEF Answered, NoAnswer, NoBase, Unsendable
<1>4. ASSUME NEW t \in Tabs, NEW p \in Paths, Patch(t, p)
      PROVE  Mirrored'
  BY <1>1, <1>4 DEF Patch
<1>5. ASSUME NEW t \in Tabs, NEW old \in SUBSET Paths, ReloadPage(t, old)
      PROVE  Mirrored'
  BY <1>1, <1>5 DEF ReloadPage
<1>6. ASSUME NEW o \in orphans, ApplyOrphan(o)
      PROVE  Mirrored'
  BY <1>6 DEF ApplyOrphan, pages, Mirrored, All
<1>7. CASE UNCHANGED writerVars
  BY <1>7 DEF writerVars, Mirrored, All
<1>8. QED
  BY <1>2, <1>3, <1>4, <1>5, <1>6, <1>7 DEF WriterNext, Page

\* Every step keeps an applied PATCH among the stored edits.
LEMMA StoredStep ==
    ASSUME TypeInv, DoneIsStored, [WriterNext]_writerVars
    PROVE  DoneIsStored'
<1> USE DEF TypeInv, WriterTypeOK
<1>1. ASSUME NEW t \in Tabs, NEW p \in Paths, Patch(t, p) PROVE DoneIsStored'
  BY <1>1 DEF Patch, DoneIsStored, Mirror, Count, pages, fate
<1>2. ASSUME NEW t \in Tabs, NEW old \in SUBSET Paths, ReloadPage(t, old) PROVE DoneIsStored'
  BY <1>2 DEF ReloadPage, Kept, DoneIsStored, Mirror, Count, pages, fate
<1>3. ASSUME NEW t \in Tabs, Flush(t) \/ NoBase(t) \/ Unsendable(t) \/ Page(t)
      PROVE  DoneIsStored'
  <2>1. CASE Flush(t)
    BY <2>1 DEF Flush, Send, DoneIsStored, Mirror, Count, pages, fate
  <2>2. CASE MaySend(t)
    BY <2>2 DEF MaySend, Send, DoneIsStored, Mirror, Count, pages, fate
  <2>3. CASE HoldBack(t)
    BY <2>3 DEF HoldBack, DoneIsStored, Mirror, Count, pages, fate
  <2>4. CASE Apply(t)
    BY <2>4 DEF Apply, Reaches, InOrder, DoneIsStored, Mirror, Count, pages, fate
  <2>5. CASE Refuse(t)
    BY <2>5 DEF Refuse, InOrder, DoneIsStored, Mirror, Count, pages, fate
  <2>6. CASE Answered(t)
    BY <2>6 DEF Answered, Again, DoneIsStored, Mirror, Count, pages, fate
  <2>7. CASE NoAnswer(t)
    BY <2>7 DEF NoAnswer, Requeue, Again, DoneIsStored, Mirror, Count, pages, fate
  <2>8. CASE NoBase(t) \/ Unsendable(t)
    BY <2>8 DEF NoBase, Unsendable, Encode, DoneIsStored, fate
  <2>9. QED
    BY <1>3, <2>1, <2>2, <2>3, <2>4, <2>5, <2>6, <2>7, <2>8 DEF Page
<1>4. ASSUME NEW o \in orphans, ApplyOrphan(o) PROVE DoneIsStored'
  BY <1>4 DEF ApplyOrphan, Reaches, DoneIsStored, Mirror, Count, pages, fate
<1>5. CASE UNCHANGED writerVars
  BY <1>5 DEF writerVars, DoneIsStored, Mirror, Count, pages, fate
<1>6. QED
  BY <1>1, <1>2, <1>3, <1>4, <1>5 DEF WriterNext

\* No step loses an edit while the one tab is open: what leaves the tab has been
\* applied, refused or given up.
LEMMA LostStep ==
    ASSUME OneTab, TypeInv, Mirrored, DoneIsStored, NoEditLost, PendingShowsLast,
           [WriterNext]_writerVars
    PROVE  NoEditLost' /\ PendingShowsLast'
<1> USE DEF OneTab
<1>1. ASSUME NEW t \in Tabs,
             \/ Flush(t) \/ NoBase(t) \/ MaySend(t) \/ HoldBack(t)
             \/ Apply(t) \/ Refuse(t) \/ NoAnswer(t)
      PROVE  NoEditLost' /\ PendingShowsLast'
  <2>1. \A u \in Tabs : All(u)' = All(u)
    BY <1>1, Moves
  <2>2. last' = last /\ stored \subseteq stored' /\ dropped \subseteq dropped'
    BY <1>1 DEF Flush, NoBase, MaySend, HoldBack, Apply, Refuse, NoAnswer, Reaches, fate
  <2>3. QED
    BY <2>1, <2>2 DEF NoEditLost, PendingShowsLast
<1>2. ASSUME NEW t \in Tabs, NEW p \in Paths, Patch(t, p)
      PROVE  NoEditLost' /\ PendingShowsLast'
  <2>1. /\ last' = [last EXCEPT ![p] = bounds.edits + 1]
        /\ \A q \in Paths : All(t)'[q] = IF q = p THEN last'[p] ELSE All(t)[q]
    BY <1>2, Edited
  <2>2. last \in [Paths -> Nat] /\ stored' = stored /\ dropped' = dropped
    BY <1>2 DEF Patch, TypeInv, WriterTypeOK, Batches
  <2>3. ASSUME NEW q \in Paths PROVE last'[q] = IF q = p THEN last'[p] ELSE last[q]
    BY <2>1, <2>2
  <2>4. QED
    BY <2>1, <2>2, <2>3 DEF NoEditLost, PendingShowsLast
<1>3. ASSUME NEW t \in Tabs, Answered(t)
      PROVE  NoEditLost' /\ PendingShowsLast'
  <2>1. All(t)' = queue[t] /\ last' = last /\ stored' = stored /\ dropped \subseteq dropped'
    BY <1>3, Acked DEF Answered
  <2>2. Edits(inFlight[t]) \subseteq stored \cup dropped'
    BY <1>3 DEF Answered, DoneIsStored
  <2>3. \A q \in Paths : All(t)[q] \in {0, queue[t][q]} \cup Edits(inFlight[t])
    BY DEF All, LaidOver, Edits
  <2>4. \A q \in Paths : queue[t][q] # 0 => queue[t][q] = All(t)[q]
    BY DEF All, LaidOver
  <2>5. QED
    BY <2>1, <2>2, <2>3, <2>4 DEF NoEditLost, PendingShowsLast
<1>4. ASSUME NEW t \in Tabs, NEW old \in SUBSET Paths, ReloadPage(t, old)
      PROVE  NoEditLost' /\ PendingShowsLast'
  <2>1. storage = All(t)
    BY DEF Mirrored
  <2>2. \A q \in Paths : All(t)'[q] = IF q \in old THEN 0 ELSE All(t)[q]
    BY <1>4, <2>1, Reloaded
  <2>3. last' = last /\ stored' = stored /\ dropped \subseteq dropped'
    BY <1>4 DEF ReloadPage
  <2>4. \A q \in old : storage[q] \in dropped' \cup {0}
    BY <1>4 DEF ReloadPage
  <2>5. QED
    BY <2>1, <2>2, <2>3, <2>4 DEF NoEditLost, PendingShowsLast
<1>5. ASSUME NEW o \in orphans, ApplyOrphan(o)
      PROVE  NoEditLost' /\ PendingShowsLast'
  BY <1>5 DEF ApplyOrphan, Reaches, pages, NoEditLost, PendingShowsLast, All
<1>6. CASE UNCHANGED writerVars
  BY <1>6 DEF writerVars, NoEditLost, PendingShowsLast, All
<1>7. ASSUME NEW t \in Tabs, Unsendable(t)
      PROVE  NoEditLost' /\ PendingShowsLast'
  <2>1. /\ All(t)' = Nothing /\ last' = last /\ stored' = stored
        /\ dropped' = dropped \cup Edits(All(t))
    BY <1>7, Discarded DEF Unsendable
  <2>2. \A q \in Paths : All(t)[q] = 0 \/ All(t)[q] \in dropped'
    BY <2>1 DEF Edits
  <2>3. \A q \in Paths : All(t)'[q] = 0
    BY <2>1 DEF Nothing
  <2>4. QED
    BY <2>1, <2>2, <2>3 DEF NoEditLost, PendingShowsLast
<1>8. QED
  BY <1>1, <1>2, <1>3, <1>4, <1>5, <1>6, <1>7 DEF WriterNext, Page

\* No step with the one tab open, and PATCHes that arrive in order, takes a settled
\* path's last edit out of the document.
LEMMA StandsStep ==
    ASSUME OneTab, ~Overtakes, TypeInv, Mirrored, PendingShowsLast,
           DoneStands, SettledStands, [WriterNext]_writerVars
    PROVE  DoneStands' /\ SettledStands'
<1> USE DEF OneTab
<1>1. ASSUME NEW t \in Tabs,
             Flush(t) \/ NoBase(t) \/ MaySend(t) \/ HoldBack(t) \/ Refuse(t)
      PROVE  DoneStands' /\ SettledStands'
  <2>1. \A u \in Tabs : All(u)' = All(u)
    BY <1>1, Moves
  <2>2. /\ doc' = doc /\ orphans' = orphans /\ last' = last /\ dropped' = dropped
        /\ \A u \in Tabs : sent'[u] = "done" => sent[u] = "done" /\ inFlight'[u] = inFlight[u]
    BY <1>1 DEF Flush, NoBase, MaySend, HoldBack, Refuse, Send, fate, TypeInv, WriterTypeOK
  <2>3. QED
    BY <2>1, <2>2 DEF DoneStands, SettledStands, Settled
<1>2. ASSUME NEW t \in Tabs, Apply(t)
      PROVE  DoneStands' /\ SettledStands'
  <2>1. \A u \in Tabs : All(u)' = All(u)
    BY <1>2, Moves
  <2>2. /\ orphans = {} /\ orphans' = {} /\ last' = last /\ dropped' = dropped
        /\ inFlight' = inFlight
        /\ \A q \in Paths : doc'[q] = IF inFlight[t][q] # 0 THEN inFlight[t][q] ELSE doc[q]
    BY <1>2 DEF Apply, InOrder, Reaches, LaidOver
  <2>3. \A q \in Paths : inFlight[t][q] # 0 => All(t)[q] # 0
    BY DEF All, LaidOver
  <2>4. QED
    BY <2>1, <2>2, <2>3 DEF DoneStands, SettledStands, Settled
<1>3. ASSUME NEW t \in Tabs, NEW p \in Paths, Patch(t, p)
      PROVE  DoneStands' /\ SettledStands'
  <2>1. /\ \A q \in Paths : All(t)'[q] = IF q = p THEN last'[p] ELSE All(t)[q]
        /\ last'[p] # 0 /\ last' = [last EXCEPT ![p] = bounds.edits + 1]
    BY <1>3, Edited
  <2>2. /\ doc' = doc /\ orphans' = orphans /\ dropped' = dropped
        /\ sent' = sent /\ inFlight' = inFlight /\ last \in [Paths -> Nat]
    BY <1>3 DEF Patch, TypeInv, WriterTypeOK, Batches
  <2>3. DoneStands'
    BY <2>2 DEF DoneStands
  <2>4. SettledStands'
    BY <2>1, <2>2 DEF SettledStands, Settled
  <2>5. QED
    BY <2>3, <2>4
<1>4. ASSUME NEW t \in Tabs, Answered(t)
      PROVE  DoneStands' /\ SettledStands'
  <2>1. /\ All(t)' = queue[t] /\ doc' = doc /\ orphans' = orphans /\ last' = last
        /\ sent'[t] = "no" /\ dropped \subseteq dropped'
        /\ sent[t] = "done" \/ Edits(inFlight[t]) \subseteq dropped'
    BY <1>4, Acked DEF Answered, TypeInv, WriterTypeOK
  <2>2. DoneStands'
    BY <2>1 DEF DoneStands
  <2>3. ASSUME NEW q \in Paths, queue[t][q] = 0
        PROVE  \/ last[q] \in dropped'
               \/ doc[q] = last[q] /\ \A o \in orphans : o[q] = 0
    <3>1. CASE inFlight[t][q] = 0
      <4>1. Settled(q)
        BY <2>3, <3>1 DEF Settled, All, LaidOver
      <4>2. QED
        BY <2>1, <4>1 DEF SettledStands
    <3>2. CASE inFlight[t][q] # 0
      <4>1. inFlight[t][q] = last[q] /\ inFlight[t][q] \in Edits(inFlight[t])
        BY <2>3, <3>2 DEF PendingShowsLast, All, LaidOver, Edits
      <4>2. QED
        BY <2>1, <3>2, <4>1 DEF DoneStands
    <3>3. QED
      BY <3>1, <3>2
  <2>4. SettledStands'
    BY <2>1, <2>3 DEF SettledStands, Settled
  <2>5. QED
    BY <2>2, <2>4
<1>5. ASSUME NEW t \in Tabs, NoAnswer(t)
      PROVE  DoneStands' /\ SettledStands'
  <2>1. \A u \in Tabs : All(u)' = All(u)
    BY <1>5, Moves
  <2>2. /\ doc' = doc /\ last' = last /\ dropped' = dropped /\ sent'[t] = "no"
        /\ orphans' \subseteq orphans \cup {inFlight[t]}
    BY <1>5 DEF NoAnswer, fate, TypeInv, WriterTypeOK
  <2>3. \A q \in Paths : inFlight[t][q] # 0 => All(t)[q] # 0
    BY DEF All, LaidOver
  <2>4. QED
    BY <2>1, <2>2, <2>3 DEF DoneStands, SettledStands, Settled
<1>6. ASSUME NEW t \in Tabs, NEW old \in SUBSET Paths, ReloadPage(t, old)
      PROVE  DoneStands' /\ SettledStands'
  <2>1. storage = All(t)
    BY DEF Mirrored
  <2>2. \A q \in Paths : All(t)'[q] = IF q \in old THEN 0 ELSE All(t)[q]
    BY <1>6, <2>1, Reloaded
  <2>3. /\ doc' = doc /\ last' = last /\ dropped \subseteq dropped' /\ sent'[t] = "no"
        /\ orphans' \subseteq orphans \cup {inFlight[t]}
        /\ \A q \in old : storage[q] \in dropped' \cup {0}
    BY <1>6 DEF ReloadPage, TypeInv, WriterTypeOK
  <2>4. \A q \in Paths : inFlight[t][q] # 0 => All(t)[q] # 0
    BY DEF All, LaidOver
  <2>5. \A q \in Paths : All(t)[q] # 0 => All(t)[q] = last[q]
    BY DEF PendingShowsLast
  <2>6. ASSUME NEW q \in Paths, All(t)'[q] = 0
        PROVE  last[q] \in dropped' \/ All(t)[q] = 0
    BY <2>1, <2>2, <2>3, <2>5, <2>6
  <2>7. QED
    BY <2>2, <2>3, <2>4, <2>6 DEF DoneStands, SettledStands, Settled
<1>7. ASSUME NEW o \in orphans, ApplyOrphan(o)
      PROVE  DoneStands' /\ SettledStands'
  <2>1. /\ orphans' \subseteq orphans /\ last' = last /\ dropped' = dropped
        /\ sent' = sent /\ inFlight' = inFlight /\ queue' = queue
        /\ \A q \in Paths : doc'[q] = doc[q] \/ o[q] # 0
    BY <1>7 DEF ApplyOrphan, Reaches, LaidOver, pages
  <2>2. \A u \in Tabs : All(u)' = All(u)
    BY <2>1 DEF All
  <2>3. QED
    BY <1>7, <2>1, <2>2 DEF DoneStands, SettledStands, Settled
<1>8. CASE UNCHANGED writerVars
  <2>1. \A u \in Tabs : All(u)' = All(u)
    BY <1>8 DEF writerVars, All
  <2>2. QED
    BY <1>8, <2>1 DEF writerVars, DoneStands, SettledStands, Settled
<1>9. ASSUME NEW t \in Tabs, Unsendable(t)
      PROVE  DoneStands' /\ SettledStands'
  <2>1. /\ doc' = doc /\ orphans' = orphans /\ last' = last /\ inFlight' = inFlight
        /\ sent'[t] = "no" /\ dropped' = dropped \cup Edits(All(t))
    BY <1>9, Discarded DEF Unsendable, TypeInv, WriterTypeOK
  <2>2. ASSUME NEW q \in Paths
        PROVE  Settled(q) \/ last[q] \in dropped'
    <3>1. CASE All(t)[q] = 0
      BY <3>1 DEF Settled
    <3>2. CASE All(t)[q] # 0
      <4>1. All(t)[q] = last[q] /\ All(t)[q] \in Edits(All(t))
        BY <3>2 DEF PendingShowsLast, Edits
      <4>2. QED
        BY <2>1, <4>1
    <3>3. QED
      BY <3>1, <3>2
  <2>3. QED
    BY <2>1, <2>2 DEF DoneStands, SettledStands
<1>10. QED
  BY <1>1, <1>2, <1>3, <1>4, <1>5, <1>6, <1>7, <1>8, <1>9 DEF WriterNext, Page

-----------------------------------------------------------------------------
\* At first nothing is queued, sent or stored.
LEMMA InitHolds ==
    ASSUME WriterInit
    PROVE  /\ TypeInv /\ Mirrored /\ DoneIsStored /\ NoEditLost
           /\ PendingShowsLast /\ DoneStands /\ SettledStands
<1>1. TypeInv
  BY OverNothing DEF WriterInit, TypeInv, WriterTypeOK, AskingHas, Nothing, Batches
<1>2. \A t \in Tabs : All(t) = Nothing
  BY DEF WriterInit, All, LaidOver, Nothing
<1>3. QED
  BY <1>1, <1>2 DEF WriterInit, Mirrored, DoneIsStored, NoEditLost, PendingShowsLast, DoneStands,
                    SettledStands, Settled, Nothing

\* The types hold, whatever tabs, failures and reloads there are; among them that
\* a tab has edits in flight exactly while its PATCH is out.
THEOREM WriterTyped == WriterSpec => []WriterTypeOK
<1>1. WriterInit => TypeInv
  BY InitHolds
<1>2. TypeInv /\ [WriterNext]_writerVars => TypeInv'
  BY WriterTypeStep
<1>3. TypeInv => WriterTypeOK
  BY DEF TypeInv
<1>4. QED
  BY <1>1, <1>2, <1>3, PTL DEF WriterSpec

\* With the scope open in one tab, no failure and no reload loses an edit: the last
\* edit of each path was applied, refused, given up, or is still with the tab.
THEOREM NoneLost ==
    ASSUME OneTab
    PROVE  WriterSpec => []NoEditLost
<1> DEFINE Inv == TypeInv /\ Mirrored /\ DoneIsStored /\ NoEditLost /\ PendingShowsLast
<1>1. WriterInit => Inv
  BY InitHolds
<1>2. Inv /\ [WriterNext]_writerVars => Inv'
  BY OneTab, WriterTypeStep, MirrorStep, StoredStep, LostStep
<1>3. Inv => NoEditLost
  OBVIOUS
<1>4. QED
  BY <1>1, <1>2, <1>3, PTL DEF WriterSpec

\* With the scope open in one tab, a path with an un-acked edit shows the last one
\* made, across failures, retries and reloads.
THEOREM ShowsLast ==
    ASSUME OneTab
    PROVE  WriterSpec => []PendingShowsLast
<1> DEFINE Inv == TypeInv /\ Mirrored /\ DoneIsStored /\ NoEditLost /\ PendingShowsLast
<1>1. WriterInit => Inv
  BY InitHolds
<1>2. Inv /\ [WriterNext]_writerVars => Inv'
  BY OneTab, WriterTypeStep, MirrorStep, StoredStep, LostStep
<1>3. Inv => PendingShowsLast
  OBVIOUS
<1>4. QED
  BY <1>1, <1>2, <1>3, PTL DEF WriterSpec

\* With the scope open in one tab and PATCHes arriving in the order they were sent,
\* the server holds the last edit of every settled path that was not given up.
THEOREM LastStands ==
    ASSUME OneTab, ~Overtakes
    PROVE  WriterSpec => []LastEditStands
<1>1. WriterInit => WriterInv
  BY InitHolds DEF WriterInv
<1>2. WriterInv /\ [WriterNext]_writerVars => WriterInv'
  BY OneTab, ~Overtakes, WriterTypeStep, MirrorStep, StoredStep, LostStep, StandsStep DEF WriterInv
<1>3. WriterInv => LastEditStands
  BY ~Overtakes DEF WriterInv, SettledStands, Settled, LastEditStands
<1>4. QED
  BY <1>1, <1>2, <1>3, PTL DEF WriterSpec
-----------------------------------------------------------------------------
(***************************************************************************)
(* The writer implements its promise (WriterPromise): each step of a page  *)
(* with one tab, whose PATCHes arrive in order, is an edit, a store, a     *)
(* settlement or none of them.                                             *)
(***************************************************************************)

\* Edits are numbered as they are made, and none is sent or held that is newer than
\* the last of its path.
Numbered ==
    \A p \in Paths :
        /\ last[p] <= bounds.edits /\ doc[p] <= last[p]
        /\ \A t \in Tabs : inFlight[t][p] <= last[p]
        /\ \A o \in orphans : o[p] <= last[p]

LEMMA NumberedStep ==
    ASSUME TypeInv, PendingShowsLast, Numbered, [WriterNext]_writerVars
    PROVE  Numbered'
<1> USE DEF TypeInv, WriterTypeOK, Batches
<1>1. ASSUME NEW t \in Tabs, NEW p \in Paths, Patch(t, p) PROVE Numbered'
  <2>1. /\ bounds'.edits = bounds.edits + 1 /\ last' = [last EXCEPT ![p] = bounds.edits + 1]
        /\ doc' = doc /\ inFlight' = inFlight /\ orphans' = orphans /\ bounds.edits \in Nat
    BY <1>1 DEF Patch, Count
  <2>2. ASSUME NEW q \in Paths
        PROVE  /\ last[q] \in Nat /\ last'[q] \in Nat /\ last[q] <= last'[q]
               /\ last'[q] <= bounds'.edits /\ doc[q] \in Nat
    BY <2>1 DEF Numbered
  <2>3. ASSUME NEW q \in Paths, NEW n \in Nat, n <= last[q] PROVE n <= last'[q]
    BY <2>2, <2>3
  <2>4. \A q \in Paths : /\ \A u \in Tabs : inFlight[u][q] \in Nat
                         /\ \A o \in orphans : o[q] \in Nat
    OBVIOUS
  <2> QED BY <2>1, <2>2, <2>3, <2>4 DEF Numbered
<1>2. ASSUME last' = last, doc' = doc, bounds'.edits = bounds.edits, NEW t \in Tabs,
             \A u \in Tabs \ {t} : inFlight'[u] = inFlight[u],
             inFlight'[t] \in {inFlight[t], queue[t], Nothing},
             orphans' \subseteq orphans \cup {inFlight[t]}
      PROVE  Numbered'
  <2>1. ASSUME NEW p \in Paths PROVE queue[t][p] <= last[p] /\ 0 <= last[p]
    <3>1. queue[t][p] \in Nat /\ last[p] \in Nat
      OBVIOUS
    <3>2. queue[t][p] # 0 => All(t)[p] = queue[t][p]
      BY DEF All, LaidOver
    <3> QED BY <3>1, <3>2 DEF PendingShowsLast
  <2>2. ASSUME NEW p \in Paths, NEW u \in Tabs PROVE inFlight'[u][p] <= last[p]
    <3>1. CASE u # t
      BY <1>2, <3>1 DEF Numbered
    <3>2. CASE u = t
      <4>1. inFlight[t][p] <= last[p] /\ queue[t][p] <= last[p] /\ Nothing[p] <= last[p]
        BY <2>1 DEF Numbered, Nothing
      <4> QED BY <1>2, <3>2, <4>1
    <3> QED BY <3>1, <3>2
  <2>3. ASSUME NEW p \in Paths, NEW o \in orphans' PROVE o[p] <= last[p]
    BY <1>2 DEF Numbered
  <2> QED BY <1>2, <2>2, <2>3 DEF Numbered
<1>3. ASSUME NEW t \in Tabs, NEW old \in SUBSET Paths, ReloadPage(t, old) PROVE Numbered'
  BY <1>2, <1>3 DEF ReloadPage, Count
<1>4. ASSUME NEW t \in Tabs,
             \/ Flush(t) \/ NoBase(t) \/ Unsendable(t) \/ MaySend(t) \/ HoldBack(t)
             \/ Refuse(t) \/ Answered(t) \/ NoAnswer(t)
      PROVE  Numbered'
  <2>1. CASE Flush(t) \/ MaySend(t)
    BY <1>2, <2>1 DEF Flush, MaySend, Send, fate
  <2>2. CASE NoBase(t) \/ Unsendable(t) \/ HoldBack(t) \/ Refuse(t)
    BY <1>2, <2>2 DEF NoBase, Unsendable, HoldBack, Refuse, Count, fate
  <2>3. CASE Answered(t)
    BY <1>2, <2>3 DEF Answered
  <2>4. CASE NoAnswer(t)
    BY <1>2, <2>4 DEF NoAnswer, Count, fate
  <2> QED BY <1>4, <2>1, <2>2, <2>3, <2>4
<1>5. ASSUME NEW b, \A p \in Paths : b[p] <= last[p], doc' \in {doc, LaidOver(doc, b)},
             last' = last, bounds' = bounds, inFlight' = inFlight, orphans' \subseteq orphans
      PROVE  Numbered'
  <2>1. \A p \in Paths : doc'[p] \in {doc[p], b[p]}
    BY <1>5 DEF LaidOver
  <2> QED BY <1>5, <2>1 DEF Numbered
<1>6. ASSUME NEW t \in Tabs, Apply(t) PROVE Numbered'
  <2>1. /\ \A p \in Paths : inFlight[t][p] <= last[p]
        /\ doc' = LaidOver(doc, inFlight[t])
        /\ last' = last /\ bounds' = bounds /\ inFlight' = inFlight /\ orphans' = orphans
    BY <1>6 DEF Apply, Reaches, Numbered
  <2> QED BY <1>5, <2>1
<1>7. ASSUME NEW o \in orphans, ApplyOrphan(o) PROVE Numbered'
  <2>1. /\ \A p \in Paths : o[p] <= last[p]
        /\ doc' \in {doc, LaidOver(doc, o)}
        /\ last' = last /\ bounds' = bounds /\ inFlight' = inFlight /\ orphans' \subseteq orphans
    BY <1>7 DEF ApplyOrphan, Reaches, Numbered, pages
  <2> QED BY <1>5, <2>1
<1>8. CASE UNCHANGED writerVars
  BY <1>8 DEF writerVars, Numbered
<1> QED BY <1>1, <1>3, <1>4, <1>6, <1>7, <1>8 DEF WriterNext, Page

\* With one tab a path shows what that tab has un-acked.
LEMMA ShownIs ==
    ASSUME OneTab, NEW t \in Tabs
    PROVE  Shown = All(t) /\ Shown' = All(t)'
<1>1. Tabs = {t}
  BY DEF OneTab
<1>2. \A n : {n} \ {0} = (IF n = 0 THEN {} ELSE {n}) /\ (n # 0 => (CHOOSE m \in {n} : TRUE) = n)
  OBVIOUS
<1>3. /\ \A p \in Paths : {All(u)[p] : u \in Tabs} = {All(t)[p]}
      /\ \A p \in Paths : {All(u)'[p] : u \in Tabs} = {All(t)'[p]}
  BY <1>1
<1>4. \A p \in Paths : Shown[p] = All(t)[p] /\ Shown'[p] = All(t)'[p]
  BY <1>2, <1>3 DEF Shown
<1> QED BY <1>4 DEF Shown, All, LaidOver

\* Each step of the writer is one of the promise's, or none.
LEMMA PromiseStep ==
    ASSUME OneTab, ~Overtakes, WriterInv, Numbered, [WriterNext]_writerVars
    PROVE  [Promise!Next]_<<last, Shown, doc, dropped>>
<1> USE DEF OneTab, WriterInv, TypeInv
<1>1. /\ last \in [Paths -> Nat] /\ doc \in [Paths -> Nat]
      /\ \A t \in Tabs : inFlight[t] \in [Paths -> Nat]
  BY DEF WriterTypeOK, Batches
<1>2. ASSUME NEW t \in Tabs,
             \/ Flush(t) \/ NoBase(t) \/ MaySend(t) \/ HoldBack(t) \/ Refuse(t)
             \/ NoAnswer(t)
      PROVE  UNCHANGED <<last, Shown, doc, dropped>>
  <2>1. All(t)' = All(t)
    BY <1>2, Moves
  <2>2. last' = last /\ doc' = doc /\ dropped' = dropped
    BY <1>2 DEF Flush, NoBase, MaySend, HoldBack, Refuse, NoAnswer, fate
  <2> QED BY <2>1, <2>2, ShownIs
<1>3. ASSUME NEW t \in Tabs, NEW p \in Paths, Patch(t, p) PROVE Promise!Edit(p)
  <2>1. /\ last' = [last EXCEPT ![p] = bounds.edits + 1]
        /\ \A q \in Paths : All(t)'[q] = IF q = p THEN last'[p] ELSE All(t)[q]
    BY <1>3, Edited
  <2>2. doc' = doc /\ dropped' = dropped
    BY <1>3 DEF Patch
  <2>3. last'[p] = bounds.edits + 1 /\ bounds.edits \in Nat
    BY <1>1, <2>1 DEF WriterTypeOK
  <2>4. \A q \in Paths : last[q] < last'[p]
    BY <1>1, <2>3 DEF Numbered
  <2>5. Shown' = [Shown EXCEPT ![p] = last'[p]]
    BY <2>1, ShownIs DEF All, LaidOver
  <2> QED BY <2>1, <2>2, <2>3, <2>4, <2>5 DEF Promise!Edit
<1>4. ASSUME NEW b, doc' = LaidOver(doc, b), UNCHANGED <<last, Shown, dropped>>,
             \A p \in Paths : b[p] # 0 => /\ b[p] \in 1..last[p]
                                          /\ Shown[p] # 0 \/ last[p] \in dropped
      PROVE  Promise!Store
  <2>1. \A p \in Paths : doc'[p] # doc[p] => doc'[p] = b[p] /\ b[p] # 0
    BY <1>4 DEF LaidOver
  <2>2. doc' = [p \in Paths |-> doc'[p]]
    BY <1>4 DEF LaidOver
  <2> QED BY <1>4, <2>1, <2>2 DEF Promise!Store
<1>5. ASSUME NEW t \in Tabs, Apply(t) PROVE Promise!Store
  <2>1. All(t)' = All(t) /\ doc' = LaidOver(doc, inFlight[t]) /\ last' = last /\ dropped' = dropped
    BY <1>5, Moves DEF Apply, Reaches
  <2>2. ASSUME NEW p \in Paths, inFlight[t][p] # 0
        PROVE  inFlight[t][p] \in 1..last[p] /\ Shown[p] # 0
    <3>1. inFlight[t][p] \in Nat /\ last[p] \in Nat /\ inFlight[t][p] <= last[p]
      BY <1>1 DEF Numbered
    <3>2. All(t)[p] # 0
      BY <2>2 DEF All, LaidOver
    <3> QED BY <2>2, <3>1, <3>2, ShownIs
  <2> QED BY <1>4, <2>1, <2>2, ShownIs
<1>6. ASSUME NEW o \in orphans, ApplyOrphan(o)
      PROVE  Promise!Store \/ UNCHANGED <<last, Shown, doc, dropped>>
  <2>1. queue' = queue /\ inFlight' = inFlight /\ last' = last /\ dropped' = dropped
    BY <1>6 DEF ApplyOrphan, pages
  <2>2. Shown' = Shown
    BY <2>1 DEF Shown, All
  <2>3. doc' = doc \/ doc' = LaidOver(doc, o)
    BY <1>6 DEF ApplyOrphan, Reaches
  <2>4. ASSUME NEW p \in Paths, o[p] # 0
        PROVE  o[p] \in 1..last[p] /\ (Shown[p] # 0 \/ last[p] \in dropped)
    <3>1. o[p] \in Nat /\ last[p] \in Nat /\ o[p] <= last[p]
      BY DEF Numbered, WriterTypeOK, Batches
    <3>2. CASE Settled(p)
      BY <2>4, <3>1, <3>2 DEF SettledStands
    <3>3. CASE ~Settled(p)
      <4>1. PICK t \in Tabs : All(t)[p] # 0
        BY <3>3 DEF Settled
      <4>2. Shown[p] = All(t)[p]
        BY ShownIs
      <4> QED BY <2>4, <3>1, <4>1, <4>2
    <3> QED BY <3>2, <3>3
  <2> QED BY <1>4, <2>1, <2>2, <2>3, <2>4
<1>7. ASSUME NEW t \in Tabs, last' = last, doc' = doc, dropped \subseteq dropped',
             \A p \in Paths : All(t)'[p] \in {0, All(t)[p]},
             \A n \in dropped' \ dropped : \E p \in Paths : n \in 1..last[p],
             SettledStands'
      PROVE  Promise!Settle
  <2>1. ASSUME NEW p \in Paths, Shown'[p] # Shown[p]
        PROVE  Shown'[p] = 0 /\ (doc[p] = last[p] \/ last[p] \in dropped')
    <3>1. All(t)'[p] = 0
      BY <1>7, <2>1, ShownIs
    <3>2. Settled(p)'
      BY <3>1 DEF Settled
    <3> QED BY <1>7, <3>1, <3>2, ShownIs DEF SettledStands
  <2>2. Shown' = [p \in Paths |-> Shown'[p]]
    BY DEF Shown
  <2> QED BY <1>7, <2>1, <2>2 DEF Promise!Settle
<1>8. SettledStands'
  BY StandsStep
<1>9. ASSUME NEW t \in Tabs, Answered(t) PROVE Promise!Settle
  <2>1. All(t)' = queue[t] /\ last' = last /\ doc' = doc /\ dropped \subseteq dropped'
        /\ dropped' \subseteq dropped \cup Edits(inFlight[t])
    BY <1>9, Acked DEF Answered
  <2>2. \A p \in Paths : queue[t][p] \in {0, All(t)[p]}
    BY DEF All, LaidOver
  <2>3. \A n \in Edits(inFlight[t]) : \E p \in Paths : n \in 1..last[p]
    <3>1. ASSUME NEW n \in Edits(inFlight[t]) PROVE \E p \in Paths : n \in 1..last[p]
      <4>1. PICK p \in Paths : n = inFlight[t][p] /\ n # 0
        BY DEF Edits
      <4>2. inFlight[t][p] \in Nat /\ last[p] \in Nat /\ inFlight[t][p] <= last[p]
        BY <1>1 DEF Numbered
      <4> QED BY <4>1, <4>2
    <3> QED BY <3>1
  <2> QED BY <1>7, <1>8, <2>1, <2>2, <2>3
<1>10. ASSUME NEW t \in Tabs, NEW old \in SUBSET Paths, ReloadPage(t, old)
       PROVE  Promise!Settle
  <2>1. storage = All(t)
    BY DEF Mirrored
  <2>2. \A p \in Paths : All(t)'[p] = IF p \in old THEN 0 ELSE All(t)[p]
    BY <1>10, <2>1, Reloaded
  <2>3. last' = last /\ doc' = doc /\ dropped' = dropped \cup ({storage[p] : p \in old} \ {0})
    BY <1>10 DEF ReloadPage
  <2>4. \A n \in dropped' \ dropped : \E p \in Paths : n \in 1..last[p]
    <3>1. ASSUME NEW n \in dropped' \ dropped PROVE \E p \in Paths : n \in 1..last[p]
      <4>1. PICK p \in old : n = All(t)[p] /\ n # 0
        BY <2>1, <2>3
      <4>2. n = last[p] /\ last[p] \in Nat
        BY <1>1, <4>1 DEF PendingShowsLast
      <4> QED BY <4>1, <4>2
    <3> QED BY <3>1
  <2> QED BY <1>7, <1>8, <2>2, <2>3, <2>4
<1>11. CASE UNCHANGED writerVars
  BY <1>11 DEF writerVars, Shown, All
<1>12. ASSUME NEW t \in Tabs, Unsendable(t) PROVE Promise!Settle
  <2>1. /\ All(t)' = Nothing /\ last' = last /\ doc' = doc
        /\ dropped' = dropped \cup Edits(All(t))
    BY <1>12, Discarded DEF Unsendable
  <2>2. \A p \in Paths : All(t)'[p] = 0
    BY <2>1 DEF Nothing
  <2>3. ASSUME NEW n \in dropped' \ dropped PROVE \E p \in Paths : n \in 1..last[p]
    <3>1. PICK p \in Paths : n = All(t)[p] /\ n # 0
      BY <2>1 DEF Edits
    <3>2. n = last[p] /\ last[p] \in Nat
      BY <1>1, <3>1 DEF PendingShowsLast
    <3> QED BY <3>1, <3>2
  <2> QED BY <1>7, <1>8, <2>1, <2>2, <2>3
<1> QED BY <1>2, <1>3, <1>5, <1>6, <1>9, <1>10, <1>11, <1>12
        DEF WriterNext, Page, Promise!Next

\* With the scope open in one tab and PATCHes arriving in the order they were sent,
\* the page keeps its promise, through every failure, retry, refusal and reload
\* (state-sync.ts:225-249).
THEOREM PageKeepsEdits ==
    ASSUME OneTab, ~Overtakes
    PROVE  WriterSpec => KeepsEdits
<1>1. WriterInit => WriterInv /\ Numbered /\ Promise!Init
  <2> SUFFICES ASSUME WriterInit PROVE Numbered /\ Promise!Init
    BY InitHolds DEF WriterInv
  <2>1. Shown = [p \in Paths |-> 0]
    <3>1. \A t \in Tabs : All(t) = Nothing
      BY DEF WriterInit, All, LaidOver, Nothing
    <3>2. \A p \in Paths : {All(t)[p] : t \in Tabs} \ {0} = {}
      BY <3>1 DEF Nothing
    <3> QED BY <3>2 DEF Shown
  <2>2. Numbered
    BY DEF WriterInit, Numbered, Nothing
  <2> QED BY <2>1, <2>2 DEF WriterInit, Nothing, Promise!Init
<1>2. WriterInv /\ [WriterNext]_writerVars => WriterInv'
  BY OneTab, ~Overtakes, WriterTypeStep, MirrorStep, StoredStep, LostStep, StandsStep DEF WriterInv
<1>3. WriterInv /\ Numbered /\ [WriterNext]_writerVars => Numbered'
  BY NumberedStep DEF WriterInv
<1>4. WriterInv /\ Numbered /\ [WriterNext]_writerVars
      => [Promise!Next]_<<last, Shown, doc, dropped>>
  BY OneTab, ~Overtakes, PromiseStep
<1> QED
  BY <1>1, <1>2, <1>3, <1>4, PTL DEF WriterSpec, KeepsEdits, Promise!Spec, Promise!vars

-----------------------------------------------------------------------------
(***************************************************************************)
(* The two ends side by side (Writes): the end that rests stutters, so what *)
(* is proved of each alone holds of both.                                  *)
(***************************************************************************)

\* The two ends of a write run side by side as each would alone: neither can do
\* what its own specification does not let it do.
THEOREM WritesImplement == WritesSpec => Spec /\ WriterSpec
<1>1. WritesInit => Init /\ WriterInit
  BY DEF WritesInit
<1>2. [WritesNext]_<<which, vars, writerVars>> => [Next]_vars /\ [WriterNext]_writerVars
  BY DEF WritesNext
<1> QED
  BY <1>1, <1>2, PTL DEF WritesSpec, Spec, WriterSpec

\* Every variable of both ends keeps its type, for any requests and any tabs.
THEOREM WritesTyped == WritesSpec => []WritesTypeOK
BY WritesImplement, PoolTyped, WriterTyped, PTL DEF WritesTypeOK

=============================================================================
