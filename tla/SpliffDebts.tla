----------------------------- MODULE SpliffDebts -----------------------------
(***************************************************************************)
(* Reading a Group's page to the end: the exact column is added up bill by *)
(* bill (the loop of ledger.Balances), rounded once, and the Debt graph is *)
(* written a line at a time (the loop of ledger.Transfers) until everybody *)
(* is level.  Tabs are the live bills it is tried on.                      *)
(***************************************************************************)
EXTENDS SpliffLedger

CONSTANTS Table,        \* the Members, in join order
          Tabs          \* functions from bills to [paid, share, num, den]

\* What the writes of a Group let into a bill: no negative amount, no Shares
\* above the total, a rate above zero.
IsABill(b) ==
    /\ b.paid \in [Table -> Nat] /\ b.share \in [Table -> Nat]
    /\ Total(b.share) <= Total(b.paid)
    /\ b.num \in Nat \ {0} /\ b.den \in Nat \ {0}

ASSUME DebtAssumption ==
    /\ IsFiniteSet(Table) /\ Table \subseteq Nat
    /\ \A t \in Tabs : IsFiniteSet(DOMAIN t) /\ \A b \in DOMAIN t : IsABill(t[b])

VARIABLES tab,          \* the live bills
          unread,       \* those the column does not hold yet
          column,       \* exact so far, in units of 1/CommonDen(tab)
          rounded,      \* the column has been rounded
          due,          \* what the lines written so far leave of the balances
          lines         \* how many lines there are

debtVars == <<tab, unread, column, rounded, due, lines>>

DebtTypeOK ==
    /\ unread \subseteq DOMAIN tab
    /\ column \in [Table -> Int] /\ due \in [Table -> Int]
    /\ rounded \in BOOLEAN /\ lines \in Nat

DebtInit ==
    /\ tab \in Tabs
    /\ unread = DOMAIN tab
    /\ column = [m \in Table |-> 0]
    /\ due = [m \in Table |-> 0]
    /\ rounded = FALSE
    /\ lines = 0

\* Transactions come newest first: the order is the tab's own.
ReadBill(b) ==
    /\ b \in unread /\ \A k \in unread : b <= k
    /\ column' = AddNets(column, CommonDen(tab), tab[b])
    /\ unread' = unread \ {b}
    /\ UNCHANGED <<tab, rounded, due, lines>>

RoundColumn ==
    /\ unread = {} /\ ~rounded
    /\ due' = Rounded(column, CommonDen(tab))
    /\ rounded' = TRUE
    /\ UNCHANGED <<tab, unread, column, lines>>

WriteLine ==
    /\ rounded /\ ~Settled(due)
    /\ due' = AfterTransfer(due, Transfer(due))
    /\ lines' = lines + 1
    /\ UNCHANGED <<tab, unread, column, rounded>>

DebtNext == (\E b \in DOMAIN tab : ReadBill(b)) \/ RoundColumn \/ WriteLine

DebtSpec == DebtInit /\ [][DebtNext]_debtVars

-----------------------------------------------------------------------------
\* The column everybody reads is whole: it sums to zero exactly and rounded,
\* no balance is a unit or more away from its exact value, somebody no bill
\* names is level, and it is the one leaving and archiving ask about, whatever
\* order either takes the bills in (ledger.go:75-125, 139-141, 196-199).
BalancesAreFair ==
    /\ Total(column) = 0
    /\ rounded /\ lines = 0 =>
           /\ due = Balances(Table, tab) /\ Total(due) = 0
           /\ \A m \in Table : LET off == due[m] * CommonDen(tab) - column[m]
                               IN off < CommonDen(tab) /\ -off < CommonDen(tab)
           /\ \A m \in Table :
                  (\A b \in DOMAIN tab : tab[b].paid[m] = 0 /\ tab[b].share[m] = 0) => due[m] = 0

\* The list settles everybody in at most n - 1 lines: each line levels one
\* person and the last line levels two (ledger.go:234-237).
SettlesInFewLines == ~Settled(due) => lines < Cardinality(Table) - 1
=============================================================================
