----------------------------- MODULE EditPromise -----------------------------
(***************************************************************************)
(* What the edit batcher promises its editors, with no window, lock or     *)
(* goroutine in it: an asked-for write is committed at most once, several  *)
(* at a time; it is told "ok" only when it is committed, "refused" only    *)
(* when it is not and never will be, and it is told once.  A write whose   *)
(* goroutine panicked is told "crashed", which says nothing either way.    *)
(***************************************************************************)
EXTENDS Naturals, Sequences

CONSTANT Jobs

VARIABLES
    asked,  \* the submitted writes
    log,    \* the committed ones, in commit order
    told    \* [Jobs -> answer]

vars == <<asked, log, told>>

Answers == {"ok", "refused", "crashed"}

InLog == {log[i] : i \in DOMAIN log}

Init ==
    /\ asked = {}
    /\ log = <<>>
    /\ told = [j \in Jobs |-> "none"]

Ask(j) ==
    /\ j \notin asked
    /\ asked' = asked \cup {j}
    /\ UNCHANGED <<log, told>>

\* One transaction: some asked-for writes nobody was told about, in some order.
Fresh == SubSeq(log', Len(log) + 1, Len(log'))

Apply ==
    /\ log' = log \o Fresh
    /\ \A i \in DOMAIN Fresh : Fresh[i] \in asked \ InLog /\ told[Fresh[i]] = "none"
    /\ \A i, k \in DOMAIN Fresh : Fresh[i] = Fresh[k] => i = k
    /\ UNCHANGED <<asked, told>>

\* One window answers its writes, each at most once.
Tell ==
    /\ told' \in [Jobs -> Answers \cup {"none"}]
    /\ \A j \in Jobs : told'[j] # told[j] =>
          /\ told[j] = "none" /\ j \in asked
          /\ told'[j] = "ok" => j \in InLog
          /\ told'[j] = "refused" => j \notin InLog
    /\ UNCHANGED <<asked, log>>

Next == (\E j \in Jobs : Ask(j)) \/ Apply \/ Tell

Spec == Init /\ [][Next]_vars

=============================================================================
