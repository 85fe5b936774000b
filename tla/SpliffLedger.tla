----------------------------- MODULE SpliffLedger -----------------------------
(***************************************************************************)
(* The arithmetic a Spliff Group is read with (spliff/domain/ledger and    *)
(* the Allocate of domain/split it rests on): every Member's Net balance   *)
(* over the live bills, and the transfers that settle them.                *)
(*                                                                         *)
(* A bill is what each row paid and what share each row answers for, in    *)
(* minor units; 0 is a row it does not name.  Its rate is a ratio num/den. *)
(* A rational of the code is here a numerator over a denominator common to *)
(* the column it is rounded in; \div and % round towards minus infinity,   *)
(* as floorRat does.  Rows are numbered in join order.                     *)
(***************************************************************************)
EXTENDS Integers, FiniteSets, FiniteSetsExt, Functions

\* What a column adds up to.
Total(f) == MapThenSumSet(LAMBDA m : f[m], DOMAIN f)

\* Transaction.Unclaimed.
Unclaimed(bill) ==
    LET left == Total(bill.paid) - Total(bill.share)
    IN IF left > 0 THEN left ELSE 0

\* Largest remainder: everybody gets the floor of exact[m] / den, and the
\* units still missing from target go, one each, to those who come first:
\* ahead[m] is who comes before m.
HandOut(exact, den, target, ahead) ==
    LET floor == [m \in DOMAIN exact |-> exact[m] \div den]
        spare == target - Total(floor)
    IN [m \in DOMAIN exact |->
            floor[m] + IF Cardinality(ahead[m]) < spare THEN 1 ELSE 0]

\* absorbed: the payers take the Unclaimed part pro rata to their Payments;
\* spare units go by remainder, then by Payment, then in the order the
\* entries are stored in.
Absorbed(bill) ==
    LET unclaimed == Unclaimed(bill)
        paid == Total(bill.paid)
        payers == {m \in DOMAIN bill.paid : bill.paid[m] > 0}
        exact == [m \in payers |-> unclaimed * bill.paid[m]]
        First(k, m) ==
            \/ exact[k] % paid > exact[m] % paid
            \/ exact[k] % paid = exact[m] % paid /\ bill.paid[k] > bill.paid[m]
            \/ exact[k] % paid = exact[m] % paid /\ bill.paid[k] = bill.paid[m] /\ k < m
        ahead == [m \in payers |-> {k \in payers : First(k, m)}]
        part == HandOut(exact, paid, unclaimed, ahead)
    IN [m \in DOMAIN bill.paid |->
            IF unclaimed > 0 /\ m \in payers THEN part[m] ELSE 0]

\* nets: what one bill does to each balance, in its own currency.
Nets(bill) ==
    LET absorbed == Absorbed(bill)
    IN [m \in DOMAIN bill.paid |-> bill.paid[m] - bill.share[m] - absorbed[m]]

\* One bill added to the exact column, whose unit is 1/den.
AddNets(column, den, bill) ==
    LET nets == Nets(bill)
    IN [m \in DOMAIN column |-> column[m] + nets[m] * bill.num * (den \div bill.den)]

\* Mutant of Rounded: every balance is rounded on its own.
Rounded_Each(column, den) == [m \in DOMAIN column |-> (2 * column[m] + den) \div (2 * den)]

\* roundColumn: once, at the end, ties by join order.
Rounded(column, den) ==
    LET First(k, m) ==
            \/ column[k] % den > column[m] % den
            \/ column[k] % den = column[m] % den /\ k < m
        ahead == [m \in DOMAIN column |-> {k \in DOMAIN column : First(k, m)}]
    IN HandOut(column, den, 0, ahead)

\* ledger.Balances of bills, a function to [paid, share, num, den].
CommonDen(bills) == FoldFunction(LAMBDA b, d : b.den * d, 1, bills)

Balances(rows, bills) ==
    LET den == CommonDen(bills)
    IN Rounded(FoldFunction(LAMBDA b, column : AddNets(column, den, b),
                            [m \in rows |-> 0], bills), den)

-----------------------------------------------------------------------------
\* Transfers.

\* largest: the biggest amount, the earliest joiner on a tie.
Largest(amount) ==
    CHOOSE m \in DOMAIN amount : \A k \in DOMAIN amount :
        amount[k] < amount[m] \/ (amount[k] = amount[m] /\ m <= k)

\* One line of the Debt graph: the biggest debtor pays the biggest creditor
\* the smaller of the two amounts.
Transfer(balance) ==
    LET to == Largest(balance)
        from == Largest([m \in DOMAIN balance |-> -balance[m]])
        minor == IF balance[to] <= -balance[from] THEN balance[to] ELSE -balance[from]
    IN [from |-> from, to |-> to, minor |-> minor]

Settled(balance) == \A m \in DOMAIN balance : balance[m] = 0

\* Mutant of AfterTransfer: what is still due to the creditor stays as it was.
AfterTransfer_OneSide(balance, t) == [balance EXCEPT ![t.from] = @ + t.minor]

AfterTransfer(balance, t) ==
    [balance EXCEPT ![t.from] = @ + t.minor, ![t.to] = @ - t.minor]

=============================================================================
