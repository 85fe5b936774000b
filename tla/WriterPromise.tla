---------------------------- MODULE WriterPromise ----------------------------
(***************************************************************************)
(* What a host's page promises about the edits of one scope, with no       *)
(* queue, PATCH, timer or localStorage in it: a path shows the last edit   *)
(* made to it until the server holds that edit or it is given up, and no   *)
(* edit reaches a path whose last one is held and shown no more.           *)
(***************************************************************************)
EXTENDS Naturals

CONSTANT Paths

VARIABLES
    newest,   \* the last edit made to each path, 0 for none
    shown,    \* the edit it shows as its own, 0 once it is settled
    held,     \* the edit the server's document has
    givenUp   \* the edits refused, or too old when their page came back

vars == <<newest, shown, held, givenUp>>

Init ==
    /\ newest = [p \in Paths |-> 0] /\ shown = newest /\ held = newest
    /\ givenUp = {}

\* The host edits a path: edits are numbered as they are made.
Edit(p) ==
    /\ \A q \in Paths : newest[q] < newest'[p]
    /\ newest' = [newest EXCEPT ![p] = newest'[p]]
    /\ shown' = [shown EXCEPT ![p] = newest'[p]]
    /\ UNCHANGED <<held, givenUp>>

\* Edits reach the server, new ones or ones sent before, each to a path that is
\* not settled, or that was by giving its last edit up.
Store ==
    /\ held' = [p \in Paths |-> held'[p]]
    /\ \A p \in Paths : held'[p] # held[p] =>
          /\ held'[p] \in 1..newest[p]
          /\ shown[p] # 0 \/ newest[p] \in givenUp
    /\ UNCHANGED <<newest, shown, givenUp>>

\* Paths are settled: the server holds their last edit, or it is given up.
Settle ==
    /\ shown' = [p \in Paths |-> shown'[p]]
    /\ \A p \in Paths : shown'[p] # shown[p] =>
          /\ shown'[p] = 0
          /\ held[p] = newest[p] \/ newest[p] \in givenUp'
    /\ givenUp \subseteq givenUp'
    /\ \A n \in givenUp' \ givenUp : \E p \in Paths : n \in 1..newest[p]
    /\ UNCHANGED <<newest, held>>

Next == (\E p \in Paths : Edit(p)) \/ Store \/ Settle

Spec == Init /\ [][Next]_vars

=============================================================================
