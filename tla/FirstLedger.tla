---------------------------- MODULE FirstLedger ----------------------------
(***************************************************************************)
(* The money of the road in the first generation of leaderTrip: who paid   *)
(* for whom, who gives whom what at the end (src/engine/settlement.ts),    *)
(* and the estimate beside the expenses (src/engine/actuals.ts). Amounts   *)
(* are in a unit every share is a whole number of.                         *)
(***************************************************************************)
EXTENDS Integers, Sequences, FiniteSets, SequencesExt

CONSTANTS
    Tolerance,          \* TOLERANCE: what is not worth a transfer
    Categories,         \* of an expense
    Estimate            \* [Categories and "wear" -> money], the bill of the plan

ASSUME LedgerAssumption ==
    /\ Tolerance \in Nat
    /\ IsFiniteSet(Categories)
    /\ Estimate \in [Categories \cup {"wear"} -> Nat]

SumOver(S, value) == FoldSet(LAMBDA x, sum : value[x] + sum, 0, S)
Lesser(a, b) == IF a < b THEN a ELSE b
Size(a) == IF a < 0 THEN -a ELSE a

\* Nobody chosen is everybody; who has left the group has no share.
Sharers(e, group) ==
    (IF e.sharedWith = {} THEN Range(group) ELSE e.sharedWith) \cap Range(group)

Counted(expenses, group) == {e \in expenses : e.amount > 0 /\ Sharers(e, group) # {}}

AmountOf(expenses) == [e \in expenses |-> e.amount]

Paid(t, expenses, group) ==
    SumOver({e \in Counted(expenses, group) : e.paidBy = t}, AmountOf(expenses))

\* Mutant: an expense is shared by the whole group, whoever was chosen.
OwedByAll(t, expenses, group) ==
    SumOver(Counted(expenses, group), [e \in expenses |-> e.amount \div Len(group)])

Owed(t, expenses, group) ==
    SumOver({e \in Counted(expenses, group) : t \in Sharers(e, group)},
            [e \in expenses |-> e.amount \div Cardinality(Sharers(e, group))])

ComputeBalances(expenses, group) ==
    [t \in Range(group) |-> Paid(t, expenses, group) - Owed(t, expenses, group)]

\* Whose turn it is: the largest amount comes first, as it was before the loop,
\* and of equal amounts the first of the group.
Foremost(S, net, group) ==
    LET Before(i, j) == \/ Size(net[group[i]]) > Size(net[group[j]])
                        \/ Size(net[group[i]]) = Size(net[group[j]]) /\ i <= j
        places == {i \in DOMAIN group : group[i] \in S}
    IN  group[CHOOSE i \in places : \A j \in places : Before(i, j)]

\* One turn of the loop of settle: the first creditor and the first debtor of
\* those left clear the smaller of their two amounts, and whoever is left with
\* dust is done.
Turn(s, net, group) ==
    IF s.creditors = {} \/ s.debtors = {} THEN s
    ELSE LET c == Foremost(s.creditors, net, group)
             d == Foremost(s.debtors, net, group)
             amount == Lesser(s.left[c], s.left[d])
             rest == [s.left EXCEPT ![c] = @ - amount, ![d] = @ - amount]
             After(S, t) == IF rest[t] <= Tolerance THEN S \ {t} ELSE S
         IN  [creditors |-> After(s.creditors, c), debtors |-> After(s.debtors, d), left |-> rest,
              transfers |-> s.transfers \o
                  (IF amount > Tolerance THEN <<[from |-> d, to |-> c, amount |-> amount]>> ELSE <<>>)]

\* Somebody is done at every turn: as many as there are people are enough.
Settle(group, net) ==
    LET start == [creditors |-> {t \in DOMAIN net : net[t] > Tolerance},
                  debtors |-> {t \in DOMAIN net : net[t] < -Tolerance},
                  left |-> [t \in DOMAIN net |-> Size(net[t])], transfers |-> <<>>]
    IN  FoldLeft(LAMBDA s, t : Turn(s, net, group), start, group).transfers

\* buildActualsReport: what each category was to cost and what it did. Wear is
\* paid by nobody on the road and counts as estimated once anything was paid.
ActualsReport(expenses) ==
    LET actual == [c \in Categories |->
                       SumOver({e \in expenses : e.amount > 0 /\ e.category = c}, AmountOf(expenses))]
    IN  [hasData |-> \E e \in expenses : e.amount > 0,
         lines |-> [c \in Categories |-> [estimated |-> Estimate[c], actual |-> actual[c]]],
         wear |-> IF \E e \in expenses : e.amount > 0 THEN Estimate["wear"] ELSE 0,
         daysRecorded |-> Cardinality({e.day : e \in {x \in expenses : x.amount > 0}})]
ReportedTotal(report) ==
    SumOver(DOMAIN report.lines, [c \in DOMAIN report.lines |-> report.lines[c].actual]) + report.wear

\* What t is still to get, or to give if negative, after the transfers.
HoldsAfter(t, net, transfers) ==
    LET amount == [i \in DOMAIN transfers |-> transfers[i].amount]
    IN  net[t] + SumOver({i \in DOMAIN transfers : transfers[i].from = t}, amount)
               - SumOver({i \in DOMAIN transfers : transfers[i].to = t}, amount)
=============================================================================
