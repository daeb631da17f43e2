----------------------------- MODULE Settlement -----------------------------
(***************************************************************************)
(* The settling of shared expenses after a trip (web/src/features/live,    *)
(* settlement.ts, shown by LivePanel.tsx). Expenses are entered by the     *)
(* travellers of the moment; the journal is kept for origin, date and      *)
(* length of the trip, so the group may change on the edit form between    *)
(* two expenses. The two loops of the code are actions, one turn each.     *)
(* A share is a fraction of a toman and balances keep it, while a transfer *)
(* is rounded to tomans: money is counted in a unit so fine that every     *)
(* share is a whole number of it.                                          *)
(***************************************************************************)
EXTENDS Integers, Sequences, FiniteSets, SequencesExt

CONSTANTS
    People,         \* everybody who may be of the group
    Toman,          \* the units of a toman
    Amounts,        \* of an expense, in units
    Dust,           \* DustThreshold, in units: less is not worth a transfer
    MaxExpenses     \* bound on the length of the journal

ASSUME SettlementAssumption ==
    /\ IsFiniteSet(People)
    /\ Amounts \subseteq Nat \ {0}
    /\ Toman \in Nat \ {0} /\ Dust \in Nat \ {0} /\ MaxExpenses \in Nat
ASSUME SharesAreWhole ==
    \A a \in Amounts, n \in 1 .. Cardinality(People) : a % n = 0

VARIABLES
    group, expenses,
    phase,                  \* "editing", "counting", "pairing" or "shown"
    next,                   \* the expense counted next
    paid, owes,             \* [group -> money]
    left,                   \* what each is still to receive, or to give if negative
    creditors, debtors,     \* largest first
    ci, di,
    transfers

ledger == <<paid, owes>>
lists  == <<left, creditors, debtors, ci, di, transfers>>
vars   == <<group, expenses, phase, next, ledger, lists>>

Expense  == [paidBy : People, amount : Amounts]
Transfer == [from : People, to : People, amount : Nat]      \* in tomans

Net(t)    == paid[t] - owes[t]
Creditors == {t \in group : Net(t) >= Dust}
Debtors   == {t \in group : -Net(t) >= Dust}

\* Orders of S that put the largest first; people of one amount in any order.
LargestFirst(S, amount) ==
    {s \in SetToSeqs(S) : \A i, j \in DOMAIN s : i < j => amount[s[i]] >= amount[s[j]]}

Init ==
    /\ group \in (SUBSET People) \ {{}}
    /\ expenses = <<>>
    /\ phase = "editing" /\ next = 1
    /\ paid = [t \in group |-> 0] /\ owes = [t \in group |-> 0]
    /\ left = [t \in group |-> 0]
    /\ creditors = <<>> /\ debtors = <<>> /\ ci = 1 /\ di = 1 /\ transfers = <<>>

\* "Add" in the expense form: everybody of the group has a share.
AddExpense(payer, amount) ==
    /\ phase = "editing" /\ payer \in group
    /\ Len(expenses) < MaxExpenses
    /\ expenses' = Append(expenses, [paidBy |-> payer, amount |-> amount])
    /\ UNCHANGED <<group, phase, next, ledger, lists>>

\* The edit form changes the travellers and the plan is built again.
EditGroup(travelers) ==
    /\ phase = "editing" /\ travelers # {} /\ travelers # group
    /\ group' = travelers
    /\ paid' = [t \in travelers |-> 0] /\ owes' = [t \in travelers |-> 0]
    /\ left' = [t \in travelers |-> 0]
    /\ UNCHANGED <<expenses, phase, next, creditors, debtors, ci, di, transfers>>

\* The settlement is opened: balances begins with nothing paid or owed.
Open ==
    /\ phase = "editing"
    /\ phase' = "counting"
    /\ UNCHANGED <<group, expenses, next, ledger, lists>>

\* Mutant: the payer's share is taken as what is due to them.
ShareNet(e, t) == (e.amount \div Cardinality(group)) - (IF t = e.paidBy THEN e.amount ELSE 0)

Share(e, t) == e.amount \div Cardinality(group)

\* One turn of the loop of balances. What somebody outside the group paid is
\* shared by the group and credited to nobody of it.
Count ==
    /\ phase = "counting" /\ next <= Len(expenses)
    /\ LET e == expenses[next] IN
          /\ paid' = [t \in group |-> paid[t] + (IF t = e.paidBy THEN e.amount ELSE 0)]
          /\ owes' = [t \in group |-> owes[t] + Share(e, t)]
    /\ next' = next + 1
    /\ UNCHANGED <<group, expenses, phase, lists>>

\* settle, up to its loop: amounts below the threshold are dropped.
Sort ==
    /\ phase = "counting" /\ next > Len(expenses)
    /\ phase' = "pairing"
    /\ left' = [t \in group |-> Net(t)]
    /\ creditors' \in LargestFirst(Creditors, [t \in group |-> Net(t)])
    /\ debtors' \in LargestFirst(Debtors, [t \in group |-> -Net(t)])
    /\ UNCHANGED <<group, expenses, next, ledger, ci, di, transfers>>

Pairing == ci <= Len(creditors) /\ di <= Len(debtors)

\* Mutant: the larger of the two amounts is paid.
PortionLarger(credit, debt) == IF credit > debt THEN credit ELSE debt
\* Mutant: one pays in instalments of the threshold.
PortionInstalment(credit, debt) == Dust

Portion(credit, debt) == IF credit < debt THEN credit ELSE debt

\* Mutant: what was paid is not taken off the debt.
PayForgotten(creditor, debtor, amount) ==
    left' = [left EXCEPT ![creditor] = @ - amount]

Pay(creditor, debtor, amount) ==
    left' = [left EXCEPT ![creditor] = @ - amount, ![debtor] = @ + amount]

\* Mutant: a person is done with after any transfer.
CoveredAtOnce(amount) == TRUE
\* Mutant: a person is done with when below zero.
CoveredBelowZero(amount) == amount < 0

Covered(amount) == amount < Dust

\* Mutant: what is left of a toman is dropped.
RoundedDown(amount) == amount \div Toman

\* Math.round: a half is rounded up. The balances move by the amount as it is.
Rounded(amount) == (2 * amount + Toman) \div (2 * Toman)

Pair ==
    /\ phase = "pairing" /\ Pairing
    /\ LET creditor == creditors[ci]
           debtor   == debtors[di]
           amount   == Portion(left[creditor], -left[debtor])
       IN  /\ Pay(creditor, debtor, amount)
           /\ transfers' =
                 IF amount >= Dust
                 THEN Append(transfers, [from |-> debtor, to |-> creditor,
                                         amount |-> Rounded(amount)])
                 ELSE transfers
           /\ ci' = IF Covered(left'[creditor]) THEN ci + 1 ELSE ci
           /\ di' = IF Covered(-left'[debtor]) THEN di + 1 ELSE di
    /\ UNCHANGED <<group, expenses, phase, next, ledger, creditors, debtors>>

Show ==
    /\ phase = "pairing" /\ ~Pairing
    /\ phase' = "shown"
    /\ UNCHANGED <<group, expenses, next, ledger, lists>>

Close ==
    /\ phase = "shown"
    /\ phase' = "editing" /\ next' = 1
    /\ paid' = [t \in group |-> 0] /\ owes' = [t \in group |-> 0]
    /\ left' = [t \in group |-> 0]
    /\ creditors' = <<>> /\ debtors' = <<>> /\ ci' = 1 /\ di' = 1 /\ transfers' = <<>>
    /\ UNCHANGED <<group, expenses>>

Settle == Count \/ Sort \/ Pair \/ Show
Edit   == \/ \E payer \in People, amount \in Amounts : AddExpense(payer, amount)
          \/ \E travelers \in SUBSET People : EditGroup(travelers)
          \/ Open \/ Close
Next   == Edit \/ Settle

Spec     == Init /\ [][Next]_vars
\* The loops run to their end on the only thread of the page.
FairSpec == Spec /\ WF_vars(Settle)

-----------------------------------------------------------------------------
(* Properties.                                                             *)

TypeOK ==
    /\ group \in (SUBSET People) \ {{}}
    /\ expenses \in Seq(Expense)
    /\ phase \in {"editing", "counting", "pairing", "shown"}
    /\ next \in Nat \ {0}
    /\ paid \in [group -> Nat] /\ owes \in [group -> Nat] /\ left \in [group -> Int]
    /\ creditors \in Seq(group) /\ debtors \in Seq(group)
    /\ ci \in 1 .. Len(creditors) + 1 /\ di \in 1 .. Len(debtors) + 1
    /\ transfers \in Seq(Transfer)

PayersPresent == \A i \in DOMAIN expenses : expenses[i].paidBy \in group

Settled == phase \in {"pairing", "shown"}

(* settlement.ts:20: every transfer settles somebody, so there are fewer   *)
(* transfers than people.                                                  *)
FewerTransfersThanPeople ==
    transfers # <<>> => Len(transfers) < Cardinality(group)

(* Nobody is asked for more than they owe or given more than is due to     *)
(* them, and nobody both gives and receives.                               *)
NobodyOverpays ==
    Settled => \A t \in group : \/ 0 <= left[t] /\ left[t] <= Net(t)
                                \/ Net(t) <= left[t] /\ left[t] <= 0

(* Few transfers, and none that wrongs anybody.                            *)
TransfersAreFair == FewerTransfersThanPeople /\ NobodyOverpays

Money(x) == Toman * x.amount
TransfersOf(t) == {i \in DOMAIN transfers : t \in {transfers[i].from, transfers[i].to}}

(* The list of transfers tells the whole story: what one owed or was due   *)
(* at the start less the transfers is what is left, but for half a toman   *)
(* of each transfer one has a part in.                                     *)
TransfersExplainTheRest ==
    Settled => \A t \in group :
        LET rest == FoldLeft(LAMBDA r, x : r - (IF x.to = t THEN Money(x) ELSE 0)
                                             + (IF x.from = t THEN Money(x) ELSE 0),
                             Net(t), transfers)
            halves == Toman * Cardinality(TransfersOf(t))
        IN  2 * (left[t] - rest) \in -halves .. halves

(* While nobody who paid has left the group, the settlement leaves nobody  *)
(* more than the dust of the whole group.                                  *)
SquareWithinDust ==
    phase = "shown" /\ PayersPresent =>
        \A t \in group : left[t] \in -Dust * Cardinality(group) .. Dust * Cardinality(group)

(* Transfers and rest add up to the toman, and the rest is dust.           *)
EverybodyIsSquare == TransfersExplainTheRest /\ SquareWithinDust

(* An opened settlement is shown.                                          *)
SettlementIsShown == phase = "counting" ~> phase = "shown"
=============================================================================
