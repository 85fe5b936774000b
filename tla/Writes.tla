-------------------------------- MODULE Writes --------------------------------
(***************************************************************************)
(* The two ends of a host's write, side by side: the requests of the       *)
(* server over its pool and its lock, and the edits of a page until the    *)
(* server has them.  They share no state, so which of them moves is chosen *)
(* at the start and the other stays at its initial state; the run is the   *)
(* sum of theirs, and the one that moves moves fairly.                     *)
(***************************************************************************)
EXTENDS WritePool, ScopedWriter

VARIABLE which

WritesInit == which \in {"pool", "page"} /\ Init /\ WriterInit

WritesNext ==
    /\ UNCHANGED which
    /\ \/ which = "pool" /\ Next /\ UNCHANGED writerVars
       \/ which = "page" /\ WriterNext /\ UNCHANGED vars

\* The fairness of WritePool, of requests that move.
PoolFairness ==
    \A a \in Actors :
        /\ WF_vars(which = "pool" /\ Work(a))
        /\ SF_vars(which = "pool" /\ (TakeConn(a) \/ LockWrite(a)))

\* The fairness of ScopedWriter, of a page that moves.
PageFairness ==
    /\ \A t \in Tabs : WF_writerVars(which = "page" /\ Page(t))
    /\ WF_writerVars(which = "page" /\ \E o \in orphans : ApplyOrphan(o))

WritesSpec ==
    /\ WritesInit /\ [][WritesNext]_<<which, vars, writerVars>>
    /\ PoolFairness /\ PageFairness

\* Both ends have their types.
WritesTypeOK == TypeOK /\ WriterTypeOK

=============================================================================
