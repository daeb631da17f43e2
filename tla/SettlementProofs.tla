-------------------------- MODULE SettlementProofs --------------------------
(***************************************************************************)
(* Theorems about Settlement, for every group, every list of expenses and  *)
(* every threshold: fewer transfers than people, nobody overpays, and all  *)
(* are square but for the dust.                                            *)
(***************************************************************************)
EXTENDS Settlement, Sums

(* The people in a list still have at least the threshold to settle from   *)
(* the position on, and every transfer has moved one of the positions.     *)
Enlisted(list, S) ==
    /\ list \in Seq(S) /\ Len(list) = Cardinality(S)
    /\ \A i, j \in 1 .. Len(list) : list[i] = list[j] => i = j
ListsAreRight == Settled => Enlisted(creditors, Creditors) /\ Enlisted(debtors, Debtors)
RestIsOpen ==
    Settled => /\ \A i \in 1 .. Len(creditors) : i >= ci => left[creditors[i]] >= Dust
               /\ \A i \in 1 .. Len(debtors) : i >= di => -left[debtors[i]] >= Dust
StepsAreFew ==
    /\ Len(transfers) <= ci + di - 2
    /\ transfers # <<>> => Len(transfers) < Len(creditors) + Len(debtors)
NothingYet == ~Settled => /\ creditors = <<>> /\ debtors = <<>> /\ transfers = <<>>
                          /\ ci = 1 /\ di = 1

IInv == TypeOK /\ ListsAreRight /\ NobodyOverpays /\ RestIsOpen /\ StepsAreFew /\ NothingYet

-----------------------------------------------------------------------------
LEMMA GroupIsFinite ==
  ASSUME NEW g \in SUBSET People
  PROVE  IsFiniteSet(g) /\ Cardinality(g) \in Nat /\ (g # {} => Cardinality(g) >= 1)
<1>1. IsFiniteSet(g)
  BY SettlementAssumption, FS_Subset
<1>2. Cardinality(g) \in Nat
  BY <1>1, FS_CardinalityType
<1>3. g # {} => Cardinality(g) # 0
  BY <1>1, FS_EmptySet
<1>. QED
  BY <1>1, <1>2, <1>3

LEMMA OrdersEnlist ==
  ASSUME NEW S, IsFiniteSet(S), NEW amount, NEW s \in LargestFirst(S, amount)
  PROVE  Enlisted(s, S)
<1>1. Cardinality(S) \in Nat
  BY FS_CardinalityType
<1>2. /\ s \in [1 .. Cardinality(S) -> S]
      /\ \A i, j \in 1 .. Cardinality(S) : i # j => s[i] # s[j]
  BY DEF LargestFirst, SetToSeqs
<1>3. s \in Seq(S) /\ Len(s) = Cardinality(S)
  BY <1>1, <1>2
<1>. QED
  BY <1>2, <1>3 DEF Enlisted

LEMMA InitInv == Init => IInv
<1>. SUFFICES ASSUME Init PROVE IInv
  OBVIOUS
<1>1. /\ group \in (SUBSET People) \ {{}} /\ phase = "editing" /\ next = 1
      /\ creditors = <<>> /\ debtors = <<>> /\ transfers = <<>> /\ expenses = <<>>
      /\ ci = 1 /\ di = 1 /\ ~Settled
      /\ paid = [t \in group |-> 0] /\ owes = [t \in group |-> 0] /\ left = [t \in group |-> 0]
  BY DEF Init, Settled
<1>2. Len(<<>>) = 0
  OBVIOUS
<1>3. TypeOK
  BY <1>1, <1>2 DEF TypeOK
<1>. QED
  BY <1>1, <1>2, <1>3 DEF IInv, ListsAreRight, NobodyOverpays, RestIsOpen, StepsAreFew, NothingYet

LEMMA EditStep == IInv /\ Edit => IInv'
<1>. SUFFICES ASSUME IInv, Edit PROVE IInv'
  OBVIOUS
<1>0. TypeOK /\ NothingYet /\ StepsAreFew
  BY DEF IInv
<1>1. ASSUME NEW payer \in People, NEW amount \in Amounts, AddExpense(payer, amount)
      PROVE  IInv'
  <2>1. /\ phase = "editing" /\ ~Settled
        /\ UNCHANGED <<group, phase, next, paid, owes, left, creditors, debtors, ci, di, transfers>>
    BY <1>1 DEF AddExpense, ledger, lists, Settled
  <2>2. PICK e : e = [paidBy |-> payer, amount |-> amount]
    OBVIOUS
  <2>3. expenses' \in Seq(Expense)
    <3>1. e \in Expense /\ expenses' = Append(expenses, e) /\ expenses \in Seq(Expense)
      BY <1>0, <1>1, <2>2 DEF AddExpense, TypeOK, Expense
    <3>. QED
      BY <3>1
  <2>4. TypeOK'
    BY <1>0, <2>1, <2>3 DEF TypeOK
  <2>. QED
    BY <1>0, <2>1, <2>4 DEF IInv, ListsAreRight, NobodyOverpays, RestIsOpen, StepsAreFew,
                            NothingYet, Settled
<1>2. ASSUME NEW travelers \in SUBSET People, EditGroup(travelers)
      PROVE  IInv'
  <2>1. /\ phase = "editing" /\ ~Settled /\ travelers # {} /\ group' = travelers
        /\ paid' = [t \in group' |-> 0] /\ owes' = [t \in group' |-> 0]
        /\ left' = [t \in group' |-> 0]
        /\ UNCHANGED <<expenses, phase, next, creditors, debtors, ci, di, transfers>>
    BY <1>2 DEF EditGroup, Settled
  <2>2. creditors = <<>> /\ debtors = <<>>
    BY <1>0, <2>1 DEF NothingYet
  <2>3. creditors' \in Seq(group') /\ debtors' \in Seq(group')
    BY <2>1, <2>2
  <2>4. paid' \in [group' -> Nat] /\ owes' \in [group' -> Nat] /\ left' \in [group' -> Int]
    BY <2>1
  <2>5. TypeOK'
    BY <1>0, <2>1, <2>3, <2>4 DEF TypeOK
  <2>. QED
    BY <1>0, <2>1, <2>5 DEF IInv, ListsAreRight, NobodyOverpays, RestIsOpen, StepsAreFew,
                            NothingYet, Settled
<1>3. ASSUME Open PROVE IInv'
  <2>1. /\ phase = "editing" /\ phase' = "counting" /\ ~Settled
        /\ UNCHANGED <<group, expenses, next, paid, owes, left, creditors, debtors, ci, di, transfers>>
    BY <1>3 DEF Open, ledger, lists, Settled
  <2>2. TypeOK'
    BY <1>0, <2>1 DEF TypeOK
  <2>. QED
    BY <1>0, <2>1, <2>2 DEF IInv, ListsAreRight, NobodyOverpays, RestIsOpen, StepsAreFew,
                            NothingYet, Settled
<1>4. ASSUME Close PROVE IInv'
  <2>1. /\ phase' = "editing" /\ next' = 1
        /\ paid' = [t \in group |-> 0] /\ owes' = [t \in group |-> 0]
        /\ left' = [t \in group |-> 0]
        /\ creditors' = <<>> /\ debtors' = <<>> /\ ci' = 1 /\ di' = 1 /\ transfers' = <<>>
        /\ UNCHANGED <<group, expenses>>
    BY <1>4 DEF Close
  <2>2. Len(<<>>) = 0
    OBVIOUS
  <2>3. TypeOK'
    BY <1>0, <2>1, <2>2 DEF TypeOK
  <2>. QED
    BY <2>1, <2>2, <2>3 DEF IInv, ListsAreRight, NobodyOverpays, RestIsOpen, StepsAreFew,
                            NothingYet, Settled
<1>. QED
  BY <1>1, <1>2, <1>3, <1>4 DEF Edit

LEMMA CountStep == IInv /\ Count => IInv'
<1>. SUFFICES ASSUME IInv, Count PROVE IInv'
  OBVIOUS
<1>0. TypeOK /\ NothingYet /\ StepsAreFew
  BY DEF IInv
<1>1. /\ phase = "counting" /\ ~Settled /\ next <= Len(expenses) /\ next' = next + 1
      /\ UNCHANGED <<group, expenses, phase, left, creditors, debtors, ci, di, transfers>>
  BY DEF Count, lists, Settled
<1>2. PICK e : e = expenses[next]
  OBVIOUS
<1>3. e.amount \in Nat
  <2>1. expenses \in Seq(Expense) /\ next \in 1 .. Len(expenses)
    BY <1>0, <1>1 DEF TypeOK
  <2>2. e \in Expense
    BY <2>1, <1>2
  <2>. QED
    BY <2>2, SettlementAssumption DEF Expense
<1>4. \A t \in group : Share(e, t) \in Nat
  <2>1. Cardinality(group) \in Nat /\ Cardinality(group) >= 1
    <3>1. group \in SUBSET People /\ group # {}
      BY <1>0 DEF TypeOK
    <3>. QED
      BY <3>1, GroupIsFinite
  <2>2. \A a, n \in Nat : n >= 1 => a \div n \in Nat
    OBVIOUS
  <2>. QED
    BY <1>3, <2>1, <2>2 DEF Share
<1>5. /\ paid' = [t \in group |-> paid[t] + (IF t = e.paidBy THEN e.amount ELSE 0)]
      /\ owes' = [t \in group |-> owes[t] + Share(e, t)]
  BY <1>2 DEF Count
<1>6. paid' \in [group -> Nat] /\ owes' \in [group -> Nat]
  <2>1. \A t \in group : paid[t] \in Nat /\ owes[t] \in Nat
    BY <1>0 DEF TypeOK
  <2>2. \A t \in group : owes[t] + Share(e, t) \in Nat
    BY <1>4, <2>1
  <2>3. \A t \in group : paid[t] + (IF t = e.paidBy THEN e.amount ELSE 0) \in Nat
    BY <1>3, <2>1
  <2>. QED
    BY <1>5, <2>2, <2>3
<1>7. TypeOK'
  BY <1>0, <1>1, <1>6 DEF TypeOK
<1>. QED
  BY <1>0, <1>1, <1>7 DEF IInv, ListsAreRight, NobodyOverpays, RestIsOpen, StepsAreFew,
                          NothingYet, Settled

LEMMA SortStep == IInv /\ Sort => IInv'
<1>. SUFFICES ASSUME IInv, Sort PROVE IInv'
  OBVIOUS
<1>0. TypeOK /\ NothingYet /\ StepsAreFew
  BY DEF IInv
<1>1. /\ phase = "counting" /\ phase' = "pairing" /\ ~Settled /\ Settled'
      /\ UNCHANGED <<group, expenses, next, paid, owes, ci, di, transfers>>
      /\ left' = [t \in group |-> Net(t)]
  BY DEF Sort, ledger, Settled
<1>2. Creditors' = Creditors /\ Debtors' = Debtors
  BY <1>1 DEF Creditors, Debtors, Net
<1>3. Creditors \subseteq group /\ Debtors \subseteq group
  BY DEF Creditors, Debtors
<1>4. IsFiniteSet(Creditors) /\ IsFiniteSet(Debtors)
  <2>1. IsFiniteSet(group)
    BY <1>0, GroupIsFinite DEF TypeOK
  <2>. QED
    BY <2>1, <1>3, FS_Subset
<1>5. Enlisted(creditors', Creditors) /\ Enlisted(debtors', Debtors)
  <2>1. creditors' \in LargestFirst(Creditors, [t \in group |-> Net(t)])
    BY DEF Sort
  <2>2. debtors' \in LargestFirst(Debtors, [t \in group |-> -Net(t)])
    BY DEF Sort
  <2>. QED
    BY <1>4, <2>1, <2>2, OrdersEnlist
<1>6. \A t \in group : Net(t) \in Int /\ left'[t] = Net(t) /\ Net(t)' = Net(t)
  BY <1>0, <1>1 DEF TypeOK, Net
<1>7. ci = 1 /\ di = 1 /\ transfers = <<>>
  BY <1>0, <1>1 DEF NothingYet
<1>8. /\ creditors' \in Seq(Creditors) /\ debtors' \in Seq(Debtors)
      /\ Len(creditors') \in Nat /\ Len(debtors') \in Nat
  BY <1>5 DEF Enlisted
<1>9. TypeOK'
  <2>1. creditors' \in Seq(group) /\ debtors' \in Seq(group)
    BY <1>3, <1>8
  <2>2. left' \in [group -> Int]
    BY <1>1, <1>6
  <2>3. ci' \in 1 .. Len(creditors') + 1 /\ di' \in 1 .. Len(debtors') + 1
    BY <1>1, <1>7, <1>8
  <2>. QED
    BY <1>0, <1>1, <2>1, <2>2, <2>3 DEF TypeOK
<1>10. NobodyOverpays'
  BY <1>1, <1>6 DEF NobodyOverpays
<1>11. RestIsOpen'
  <2>1. ASSUME NEW i \in 1 .. Len(creditors') PROVE left'[creditors'[i]] >= Dust
    <3>1. creditors'[i] \in Creditors
      BY <1>8
    <3>. QED
      BY <3>1, <1>3, <1>6 DEF Creditors
  <2>2. ASSUME NEW i \in 1 .. Len(debtors') PROVE -left'[debtors'[i]] >= Dust
    <3>1. debtors'[i] \in Debtors
      BY <1>8
    <3>. QED
      BY <3>1, <1>3, <1>6 DEF Debtors
  <2>. QED
    BY <2>1, <2>2 DEF RestIsOpen
<1>12. StepsAreFew'
  <2>1. Len(<<>>) = 0
    OBVIOUS
  <2>. QED
    BY <1>1, <1>7, <2>1 DEF StepsAreFew
<1>13. ListsAreRight' /\ NothingYet'
  BY <1>1, <1>2, <1>5 DEF ListsAreRight, NothingYet
<1>. QED
  BY <1>9, <1>10, <1>11, <1>12, <1>13 DEF IInv

(* What div and % mean, for a divisor that is not a numeral.               *)
LEMMA Division ==
  ASSUME NEW a \in Nat, NEW n \in Nat \ {0}
  PROVE  a = n * (a \div n) + (a % n) /\ a % n \in 0 .. n - 1 /\ a \div n \in Nat
<1>. QED
  OBVIOUS

(* Math.round is at most half a toman from what it rounds.                 *)
LEMMA RoundedToTomans ==
  ASSUME NEW a \in Nat
  PROVE  /\ Rounded(a) \in Nat
         /\ Toman * Rounded(a) \in Nat
         /\ 2 * (Toman * Rounded(a) - a) \in -Toman .. Toman
<1>1. Toman \in Nat \ {0}
  BY SettlementAssumption
<1>2. PICK x \in Nat, n \in Nat \ {0} : x = 2 * a + Toman /\ n = 2 * Toman
  BY <1>1
<1>3. PICK r, m : r = x \div n /\ m = x % n
  OBVIOUS
<1>4. x = n * r + m /\ m \in 0 .. n - 1 /\ r \in Nat
  BY <1>3, Division
<1>5. PICK y \in Nat : y = Toman * r
  BY <1>1, <1>4
<1>6. n * r = 2 * y
  BY <1>1, <1>2, <1>4, <1>5
<1>7. 2 * (y - a) \in -Toman .. Toman
  BY <1>1, <1>2, <1>4, <1>5, <1>6
<1>8. Rounded(a) = r
  BY <1>2, <1>3 DEF Rounded
<1>. QED
  BY <1>4, <1>5, <1>7, <1>8

(* The pair at the heads of the lists: the smaller amount is paid, and one *)
(* of the two is done with.                                                *)
LEMMA PairMoves ==
  ASSUME IInv, Pair
  PROVE  \E c, d \in group, a \in Nat :
           /\ c = creditors[ci] /\ d = debtors[di] /\ c # d
           /\ ci \in 1 .. Len(creditors) /\ di \in 1 .. Len(debtors)
           /\ a >= Dust /\ left[c] - a >= 0 /\ left[d] + a <= 0
           /\ left[c] - a = 0 \/ left[d] + a = 0
           /\ left' = [left EXCEPT ![c] = @ - a, ![d] = @ + a]
           /\ transfers' = Append(transfers, [from |-> d, to |-> c, amount |-> Rounded(a)])
           /\ ci' = IF Covered(left'[c]) THEN ci + 1 ELSE ci
           /\ di' = IF Covered(-left'[d]) THEN di + 1 ELSE di
<1>0. TypeOK /\ RestIsOpen /\ Settled
  BY DEF IInv, Pair, Settled
<1>1. ci \in 1 .. Len(creditors) /\ di \in 1 .. Len(debtors)
  BY <1>0 DEF Pair, Pairing, TypeOK
<1>2. PICK c : c = creditors[ci]
  OBVIOUS
<1>3. PICK d : d = debtors[di]
  OBVIOUS
<1>4. c \in group /\ d \in group
  BY <1>0, <1>1, <1>2, <1>3 DEF TypeOK
<1>5. left[c] \in Int /\ left[d] \in Int /\ Dust \in Nat \ {0}
  BY <1>0, <1>4, SettlementAssumption DEF TypeOK
<1>6. left[c] >= Dust /\ -left[d] >= Dust
  BY <1>0, <1>1, <1>2, <1>3, <1>5 DEF RestIsOpen
<1>7. PICK a : a = Portion(left[c], -left[d])
  OBVIOUS
<1>8. /\ a \in Nat /\ a >= Dust /\ left[c] - a >= 0 /\ left[d] + a <= 0 /\ c # d
      /\ left[c] - a = 0 \/ left[d] + a = 0
  BY <1>5, <1>6, <1>7 DEF Portion
<1>9. /\ left' = [left EXCEPT ![c] = @ - a, ![d] = @ + a]
      /\ transfers' = IF a >= Dust
                      THEN Append(transfers, [from |-> d, to |-> c, amount |-> Rounded(a)])
                      ELSE transfers
      /\ ci' = IF Covered(left'[c]) THEN ci + 1 ELSE ci
      /\ di' = IF Covered(-left'[d]) THEN di + 1 ELSE di
  BY <1>2, <1>3, <1>7 DEF Pair, Pay
<1>. QED
  BY <1>1, <1>2, <1>3, <1>4, <1>8, <1>9

LEMMA PairStep == IInv /\ Pair => IInv'
<1>. SUFFICES ASSUME IInv, Pair PROVE IInv'
  OBVIOUS
<1>0. /\ TypeOK /\ ListsAreRight /\ NobodyOverpays /\ RestIsOpen /\ StepsAreFew
      /\ Settled /\ Settled'
      /\ UNCHANGED <<group, expenses, phase, next, paid, owes, creditors, debtors>>
  BY DEF IInv, Pair, Settled, ledger
<1>1. PICK c \in group, d \in group, a \in Nat :
           /\ c = creditors[ci] /\ d = debtors[di] /\ c # d
           /\ ci \in 1 .. Len(creditors) /\ di \in 1 .. Len(debtors)
           /\ a >= Dust /\ left[c] - a >= 0 /\ left[d] + a <= 0
           /\ left[c] - a = 0 \/ left[d] + a = 0
           /\ left' = [left EXCEPT ![c] = @ - a, ![d] = @ + a]
           /\ transfers' = Append(transfers, [from |-> d, to |-> c, amount |-> Rounded(a)])
           /\ ci' = IF Covered(left'[c]) THEN ci + 1 ELSE ci
           /\ di' = IF Covered(-left'[d]) THEN di + 1 ELSE di
  BY PairMoves
<1>a. /\ c = creditors[ci] /\ d = debtors[di] /\ c # d
      /\ ci \in 1 .. Len(creditors) /\ di \in 1 .. Len(debtors)
  BY <1>1
<1>b. /\ a >= Dust /\ left[c] - a >= 0 /\ left[d] + a <= 0
      /\ left[c] - a = 0 \/ left[d] + a = 0
  BY <1>1
<1>c. left' = [left EXCEPT ![c] = @ - a, ![d] = @ + a]
  BY <1>1
<1>d. /\ ci' = IF Covered(left'[c]) THEN ci + 1 ELSE ci
      /\ di' = IF Covered(-left'[d]) THEN di + 1 ELSE di
  BY <1>1
<1>e. transfers' = Append(transfers, [from |-> d, to |-> c, amount |-> Rounded(a)])
  BY <1>1
<1>2. /\ left \in [group -> Int] /\ Dust \in Nat \ {0} /\ ci \in Nat /\ di \in Nat
      /\ Len(creditors) \in Nat /\ Len(debtors) \in Nat
      /\ creditors \in Seq(group) /\ debtors \in Seq(group)
  <2>1. creditors \in Seq(group) /\ debtors \in Seq(group) /\ left \in [group -> Int]
    BY <1>0 DEF TypeOK
  <2>2. Len(creditors) \in Nat /\ Len(debtors) \in Nat
    BY <2>1
  <2>. QED
    BY <1>a, <2>1, <2>2, SettlementAssumption
<1>3. /\ left' \in [group -> Int]
      /\ left'[c] = left[c] - a /\ left'[d] = left[d] + a
      /\ \A t \in group : t # c /\ t # d => left'[t] = left[t]
  <2>1. left \in [group -> Int] /\ c # d
    BY <1>2, <1>a
  <2>. QED
    BY <1>c, <2>1
<1>4. /\ ci' \in 1 .. Len(creditors) + 1 /\ di' \in 1 .. Len(debtors) + 1
      /\ ci' >= ci /\ di' >= di /\ ci' + di' >= ci + di + 1
      /\ ci' = ci => left'[c] >= Dust
      /\ di' = di => -left'[d] >= Dust
  <2>1. left[c] \in Int /\ left[d] \in Int /\ left'[c] \in Int /\ left'[d] \in Int
    BY <1>2, <1>3
  <2>2. left'[c] < Dust \/ -left'[d] < Dust
    BY <1>b, <1>2, <1>3, <2>1
  <2>3. (left'[c] < Dust /\ ci' = ci + 1) \/ (left'[c] >= Dust /\ ci' = ci)
    <3>1. CASE Covered(left'[c])
      BY <1>d, <3>1 DEF Covered
    <3>2. CASE ~Covered(left'[c])
      <4>1. ci' = ci
        BY <1>d, <3>2
      <4>2. left'[c] >= Dust
        BY <1>2, <2>1, <3>2 DEF Covered
      <4>. QED
        BY <4>1, <4>2
    <3>. QED
      BY <3>1, <3>2
  <2>4. (-left'[d] < Dust /\ di' = di + 1) \/ (-left'[d] >= Dust /\ di' = di)
    <3>1. CASE Covered(-left'[d])
      BY <1>d, <3>1 DEF Covered
    <3>2. CASE ~Covered(-left'[d])
      <4>1. di' = di
        BY <1>d, <3>2
      <4>2. -left'[d] >= Dust
        BY <1>2, <2>1, <3>2 DEF Covered
      <4>. QED
        BY <4>1, <4>2
    <3>. QED
      BY <3>1, <3>2
  <2>5. (ci' = ci \/ ci' = ci + 1) /\ (di' = di \/ di' = di + 1)
    BY <2>3, <2>4
  <2>6. ci' = ci + 1 \/ di' = di + 1
    BY <2>1, <2>2, <2>3, <2>4, <1>2
  <2>7. ci' \in 1 .. Len(creditors) + 1 /\ di' \in 1 .. Len(debtors) + 1
    BY <1>a, <1>2, <2>5
  <2>8. ci' >= ci /\ di' >= di /\ ci' + di' >= ci + di + 1
    BY <1>2, <2>5, <2>6
  <2>9. (ci' = ci => left'[c] >= Dust) /\ (di' = di => -left'[d] >= Dust)
    BY <1>2, <2>3, <2>4
  <2>. QED
    BY <2>7, <2>8, <2>9
<1>5. transfers' \in Seq(Transfer) /\ Len(transfers') = Len(transfers) + 1
  <2>1. PICK x : x = [from |-> d, to |-> c, amount |-> Rounded(a)]
    OBVIOUS
  <2>2. d \in People /\ c \in People /\ transfers \in Seq(Transfer) /\ Rounded(a) \in Nat
    BY <1>0, RoundedToTomans DEF TypeOK
  <2>3. x \in Transfer
    BY <2>1, <2>2 DEF Transfer
  <2>. QED
    BY <1>e, <2>1, <2>2, <2>3
<1>6. TypeOK'
  BY <1>0, <1>3, <1>4, <1>5 DEF TypeOK
<1>7. Creditors' = Creditors /\ Debtors' = Debtors /\ \A t \in group : Net(t)' = Net(t)
  BY <1>0 DEF Creditors, Debtors, Net
<1>8. ListsAreRight'
  BY <1>0, <1>7 DEF ListsAreRight, Enlisted
<1>9. NobodyOverpays'
  <2>. SUFFICES ASSUME NEW t \in group
                PROVE \/ 0 <= left'[t] /\ left'[t] <= Net(t)
                      \/ Net(t) <= left'[t] /\ left'[t] <= 0
    BY <1>0, <1>7 DEF NobodyOverpays
  <2>1. /\ left[t] \in Int /\ Net(t) \in Int
        /\ \/ 0 <= left[t] /\ left[t] <= Net(t)
           \/ Net(t) <= left[t] /\ left[t] <= 0
    <3>1. left[t] \in Int /\ Net(t) \in Int
      BY <1>0, <1>2 DEF TypeOK, Net
    <3>2. \/ 0 <= left[t] /\ left[t] <= Net(t)
          \/ Net(t) <= left[t] /\ left[t] <= 0
      BY <1>0 DEF NobodyOverpays
    <3>. QED
      BY <3>1, <3>2
  <2>2. CASE t = c
    BY <1>b, <1>2, <1>3, <2>1, <2>2
  <2>3. CASE t = d
    BY <1>b, <1>2, <1>3, <2>1, <2>3
  <2>. QED
    BY <1>3, <2>1, <2>2, <2>3
<1>10. RestIsOpen'
  <2>1. ASSUME NEW i \in 1 .. Len(creditors), i >= ci' PROVE left'[creditors[i]] >= Dust
    <3>1. creditors[i] \in group /\ left[creditors[i]] \in Int /\ left[d] \in Int /\ left[c] \in Int
      BY <1>2
    <3>2. i >= ci /\ left[creditors[i]] >= Dust
      BY <1>0, <1>2, <1>4, <2>1 DEF RestIsOpen
    <3>3. creditors[i] # d
      BY <1>b, <1>2, <3>1, <3>2
    <3>4. CASE i = ci
      BY <1>a, <1>2, <1>4, <2>1, <3>4
    <3>5. CASE i # ci
      <4>1. creditors[i] # c
        BY <1>0, <1>a, <3>5 DEF ListsAreRight, Enlisted
      <4>. QED
        BY <1>3, <3>1, <3>2, <3>3, <4>1
    <3>. QED
      BY <3>4, <3>5
  <2>2. ASSUME NEW i \in 1 .. Len(debtors), i >= di' PROVE -left'[debtors[i]] >= Dust
    <3>1. debtors[i] \in group /\ left[debtors[i]] \in Int /\ left[c] \in Int /\ left[d] \in Int
      BY <1>2
    <3>2. i >= di /\ -left[debtors[i]] >= Dust
      BY <1>0, <1>2, <1>4, <2>2 DEF RestIsOpen
    <3>3. debtors[i] # c
      BY <1>b, <1>2, <3>1, <3>2
    <3>4. CASE i = di
      BY <1>a, <1>2, <1>4, <2>2, <3>4
    <3>5. CASE i # di
      <4>1. debtors[i] # d
        BY <1>0, <1>a, <3>5 DEF ListsAreRight, Enlisted
      <4>. QED
        BY <1>3, <3>1, <3>2, <3>3, <4>1
    <3>. QED
      BY <3>4, <3>5
  <2>. QED
    BY <1>0, <2>1, <2>2 DEF RestIsOpen
<1>11. StepsAreFew'
  <2>1. Len(transfers) \in Nat /\ Len(transfers) <= ci + di - 2
    <3>1. transfers \in Seq(Transfer)
      BY <1>0 DEF TypeOK
    <3>. QED
      BY <1>0, <3>1 DEF StepsAreFew
  <2>2. Len(transfers') <= ci' + di' - 2
    <3>1. Len(creditors) \in Nat /\ Len(debtors) \in Nat /\ ci \in Nat /\ di \in Nat
      BY <1>2
    <3>2. ci' \in 1 .. Len(creditors) + 1 /\ di' \in 1 .. Len(debtors) + 1
      BY <1>4
    <3>3. ci' + di' >= ci + di + 1
      BY <1>4
    <3>4. Len(transfers') = Len(transfers) + 1
      BY <1>5
    <3>5. ci' \in Nat /\ di' \in Nat
      BY <3>1, <3>2
    <3>6. \A n, i, j, i2, j2 \in Nat :
              n <= i + j - 2 /\ i2 + j2 >= i + j + 1 => n + 1 <= i2 + j2 - 2
      OBVIOUS
    <3>7. Len(transfers) + 1 <= ci' + di' - 2
      BY <2>1, <3>1, <3>3, <3>5, <3>6
    <3>. QED
      BY <3>4, <3>7
  <2>3. Len(transfers') < Len(creditors') + Len(debtors')
    BY <1>0, <1>a, <1>2, <1>5, <2>1
  <2>. QED
    BY <2>2, <2>3 DEF StepsAreFew
<1>12. NothingYet'
  BY <1>0 DEF NothingYet
<1>. QED
  BY <1>6, <1>8, <1>9, <1>10, <1>11, <1>12 DEF IInv

LEMMA ShowStep == IInv /\ Show => IInv'
<1>. SUFFICES ASSUME IInv, Show PROVE IInv'
  OBVIOUS
<1>1. /\ phase = "pairing" /\ phase' = "shown" /\ Settled /\ Settled'
      /\ UNCHANGED <<group, expenses, next, paid, owes, left, creditors, debtors, ci, di, transfers>>
  BY DEF Show, ledger, lists, Settled
<1>2. Creditors' = Creditors /\ Debtors' = Debtors /\ \A t \in group : Net(t)' = Net(t)
  BY <1>1 DEF Creditors, Debtors, Net
<1>3. TypeOK' /\ ListsAreRight'
  BY <1>1, <1>2 DEF IInv, TypeOK, ListsAreRight, Enlisted
<1>4. NobodyOverpays'
  BY <1>1, <1>2 DEF IInv, NobodyOverpays
<1>. QED
  BY <1>1, <1>3, <1>4 DEF IInv, RestIsOpen, StepsAreFew, NothingYet

LEMMA Inductive == IInv /\ [Next]_vars => IInv'
<1>. SUFFICES ASSUME IInv, [Next]_vars PROVE IInv'
  OBVIOUS
<1>1. ASSUME UNCHANGED vars PROVE IInv'
  <2>1. UNCHANGED <<group, expenses, phase, next, paid, owes, left, creditors, debtors, ci, di, transfers>>
    BY <1>1 DEF vars, ledger, lists
  <2>2. /\ Creditors' = Creditors /\ Debtors' = Debtors /\ Settled' = Settled
        /\ \A t \in group : Net(t)' = Net(t)
    BY <2>1 DEF Creditors, Debtors, Net, Settled
  <2>3. TypeOK' /\ ListsAreRight'
    BY <2>1, <2>2 DEF IInv, TypeOK, ListsAreRight, Enlisted
  <2>4. NobodyOverpays'
    BY <2>1, <2>2 DEF IInv, NobodyOverpays
  <2>. QED
    BY <2>1, <2>2, <2>3, <2>4 DEF IInv, RestIsOpen, StepsAreFew, NothingYet
<1>. QED
  BY <1>1, EditStep, CountStep, SortStep, PairStep, ShowStep DEF Next, Settle

(* Creditors and debtors are different people of the group.                *)
LEMMA SidesAreApart ==
  ASSUME TypeOK
  PROVE  Cardinality(Creditors) + Cardinality(Debtors) <= Cardinality(group)
<1>1. IsFiniteSet(group) /\ Cardinality(group) \in Nat
  BY GroupIsFinite DEF TypeOK
<1>2. Creditors \subseteq group /\ Debtors \subseteq group
  BY DEF Creditors, Debtors
<1>3. Creditors \cap Debtors = {}
  <2>1. \A t \in group : Net(t) \in Int
    BY DEF TypeOK, Net
  <2>. QED
    BY <2>1, SettlementAssumption DEF Creditors, Debtors
<1>4. IsFiniteSet(Creditors) /\ IsFiniteSet(Debtors)
  BY <1>1, <1>2, FS_Subset
<1>5. /\ Cardinality(Creditors \cup Debtors)
           = Cardinality(Creditors) + Cardinality(Debtors) - Cardinality(Creditors \cap Debtors)
  BY <1>4, FS_Union
<1>6. Cardinality(Creditors \cap Debtors) = 0
  BY <1>3, FS_EmptySet
<1>7. Cardinality(Creditors \cup Debtors) <= Cardinality(group)
  BY <1>1, <1>2, FS_Subset
<1>8. Cardinality(Creditors) \in Nat /\ Cardinality(Debtors) \in Nat
  BY <1>4, FS_CardinalityType
<1>. QED
  BY <1>5, <1>6, <1>7, <1>8

LEMMA FewTransfersInv == IInv => FewerTransfersThanPeople
<1>. SUFFICES ASSUME IInv, transfers # <<>> PROVE Len(transfers) < Cardinality(group)
  BY DEF FewerTransfersThanPeople
<1>1. TypeOK /\ Settled
  BY DEF IInv, NothingYet
<1>2. Len(transfers) < Len(creditors) + Len(debtors)
  BY DEF IInv, StepsAreFew
<1>3. Len(creditors) = Cardinality(Creditors) /\ Len(debtors) = Cardinality(Debtors)
  BY <1>1 DEF IInv, ListsAreRight, Enlisted
<1>4. /\ Len(creditors) \in Nat /\ Len(debtors) \in Nat /\ Len(transfers) \in Nat
      /\ Cardinality(group) \in Nat
  BY <1>1, GroupIsFinite DEF TypeOK
<1>. QED
  BY <1>1, <1>2, <1>3, <1>4, SidesAreApart

-----------------------------------------------------------------------------
(* All are square. What one paid over one's share sums to nothing over a   *)
(* group that paid all of it, a transfer takes from one what it gives to   *)
(* another, and whoever a loop has passed is owed or owes less than Dust.  *)

Nets == [t \in group |-> Net(t)]
CountedAreOfTheGroup == \A i \in 1 .. next - 1 : expenses[i].paidBy \in group

NothingCounted == phase = "editing" => next = 1 /\ \A t \in group : paid[t] = 0 /\ owes[t] = 0
CountingStops  == next <= Len(expenses) + 1 /\ (Settled => next = Len(expenses) + 1)
NetsCancel     == CountedAreOfTheGroup => SetSum(Nets, group) = 0
RestsCancel    == Settled /\ CountedAreOfTheGroup => SetSum(left, group) = 0
PassedAreDust  ==
    Settled => /\ \A i \in 1 .. Len(creditors) : i < ci => left[creditors[i]] < Dust
               /\ \A i \in 1 .. Len(debtors) : i < di => -left[debtors[i]] < Dust
PairingIsOver  == phase = "shown" => ~Pairing

(* The fold of TransfersExplainTheRest, and what one transfer adds to it.  *)
RestAfter(t, net, list) ==
    FoldLeft(LAMBDA r, x : r - (IF x.to = t THEN Money(x) ELSE 0)
                             + (IF x.from = t THEN Money(x) ELSE 0), net, list)
Effect(t) == [e \in Int \X Transfer |-> e[1] - (IF e[2].to = t THEN Money(e[2]) ELSE 0)
                                             + (IF e[2].from = t THEN Money(e[2]) ELSE 0)]
PartsOf(t, list) == {i \in DOMAIN list : t \in {list[i].from, list[i].to}}

(* x is y but for half a toman of each of n transfers.                     *)
Nearly(x, y, n) == 2 * (x - y) \in -(Toman * n) .. Toman * n

TransfersExplained ==
    Settled => \A t \in group : Nearly(left[t], RestAfter(t, Net(t), transfers),
                                       Cardinality(PartsOf(t, transfers)))

SquareInv == NothingCounted /\ CountingStops /\ NetsCancel /\ RestsCancel /\ PassedAreDust
             /\ PairingIsOver /\ TransfersExplained

LEMMA MoneyType ==
  ASSUME NEW x \in Transfer
  PROVE  Money(x) \in Nat
<1>1. x.amount \in Nat
  BY DEF Transfer
<1>. QED
  BY <1>1, SettlementAssumption DEF Money

LEMMA EffectType ==
  ASSUME NEW t
  PROVE  /\ Effect(t) \in [Int \X Transfer -> Int]
         /\ \A rest \in Int, x \in Transfer :
               Effect(t)[<<rest, x>>] = rest - (IF x.to = t THEN Money(x) ELSE 0)
                                             + (IF x.from = t THEN Money(x) ELSE 0)
<1>. QED
  BY MoneyType DEF Effect

LEMMA RestIsFolded ==
  ASSUME NEW t, NEW net \in Int, NEW list \in Seq(Transfer)
  PROVE  RestAfter(t, net, list) = Folded(Int, Effect(t), net, list)
<1>. DEFINE Dom == DOMAIN list
            After(rest, x) == rest - (IF x.to = t THEN Money(x) ELSE 0)
                                   + (IF x.from = t THEN Money(x) ELSE 0)
            Eqn(f) == f = [T \in SUBSET Dom |->
                        IF T = {} THEN net ELSE After(f[T \ {Max(T)}], list[Max(T)])]
            F == CHOOSE f : Eqn(f)
<1>1. RestAfter(t, net, list) = F[Dom]
  BY DEF RestAfter, FoldLeft, MapThenFoldSet
<1>0. Dom = 1 .. Len(list) /\ Len(list) \in Nat /\ \A i \in Dom : list[i] \in Transfer
  OBVIOUS
<1>. HIDE DEF Dom
<1>2. PICK g : g = Effect(t)
  OBVIOUS
<1>3. g \in [Int \X Transfer -> Int] /\ \A rest \in Int, x \in Transfer : g[<<rest, x>>] = After(rest, x)
  BY <1>2, EffectType
<1>a. Foldable(Int, Transfer, g, net, list)
  BY <1>3 DEF Foldable
<1>4. \A T \in SUBSET Dom : T # {} => list[Max(T)] \in Transfer
  <2>1. \A T \in SUBSET Dom : T # {} => Max(T) \in T
    BY <1>0, MaxIsOne
  <2>. QED
    BY <1>0, <2>1
<1>. HIDE DEF After
<1>5. \E f : Eqn(f)
  <2>1. PICK f : IsLeftFold(Int, g, net, list, f)
    BY <1>a, LeftFoldExists
  <2>2. /\ f \in [SUBSET Dom -> Int] /\ f[{}] = net
        /\ \A T \in SUBSET Dom : T # {} => f[T] = g[<<f[T \ {Max(T)}], list[Max(T)]>>]
    BY <1>0, <2>1 DEF IsLeftFold
  <2>3. ASSUME NEW T \in SUBSET Dom, T # {} PROVE f[T] = After(f[T \ {Max(T)}], list[Max(T)])
    <3>1. f[T \ {Max(T)}] \in Int /\ list[Max(T)] \in Transfer
      BY <1>4, <2>2, <2>3
    <3>2. f[T] = g[<<f[T \ {Max(T)}], list[Max(T)]>>]
      BY <2>2, <2>3
    <3>. QED
      BY <1>3, <3>1, <3>2
  <2>4. Eqn(f)
    BY <2>2, <2>3
  <2>. QED
    BY <2>4
<1>6. Eqn(F)
  BY <1>5
<1>. HIDE DEF F
<1>7. ASSUME NEW T \in SUBSET Dom, T # {}, F[T \ {Max(T)}] \in Int
      PROVE  F[T] = g[<<F[T \ {Max(T)}], list[Max(T)]>>]
  <2>1. F[T] = After(F[T \ {Max(T)}], list[Max(T)])
    BY <1>6, <1>7
  <2>. QED
    BY <1>3, <1>4, <1>7, <2>1
<1>8. F[{}] = net
  BY <1>6
<1>9. FoldsLeft(Int, g, net, list, F)
  BY <1>0, <1>7, <1>8 DEF FoldsLeft
<1>10. F[1 .. Len(list)] = Folded(Int, g, net, list)
  BY <1>a, <1>9, LeftFoldRuns
<1>. QED
  BY <1>0, <1>1, <1>2, <1>10

LEMMA RestAfterNothing ==
  ASSUME NEW t, NEW net \in Int
  PROVE  RestAfter(t, net, <<>>) = net
<1>1. <<>> \in Seq(Transfer)
  OBVIOUS
<1>2. Folded(Int, Effect(t), net, <<>>) = net
  BY EffectType, FoldedEmpty
<1>. QED
  BY <1>1, <1>2, RestIsFolded

LEMMA RestAfterOneMore ==
  ASSUME NEW t, NEW net \in Int, NEW list \in Seq(Transfer), NEW x \in Transfer
  PROVE  /\ RestAfter(t, net, list) \in Int
         /\ RestAfter(t, net, Append(list, x)) = RestAfter(t, net, list)
               - (IF x.to = t THEN Money(x) ELSE 0) + (IF x.from = t THEN Money(x) ELSE 0)
<1>1. Append(list, x) \in Seq(Transfer)
  OBVIOUS
<1>2. PICK g : g = Effect(t)
  OBVIOUS
<1>3. g \in [Int \X Transfer -> Int]
  BY <1>2, EffectType
<1>a. Foldable(Int, Transfer, g, net, list)
  BY <1>3 DEF Foldable
<1>4. RestAfter(t, net, list) = Folded(Int, g, net, list)
  BY <1>2, RestIsFolded
<1>5. RestAfter(t, net, Append(list, x)) = Folded(Int, g, net, Append(list, x))
  BY <1>1, <1>2, RestIsFolded
<1>6. Folded(Int, g, net, list) \in Int
  BY <1>a, FoldedType
<1>7. Folded(Int, g, net, Append(list, x)) = g[<<Folded(Int, g, net, list), x>>]
  BY <1>a, FoldedAppend
<1>. QED
  BY <1>2, <1>4, <1>5, <1>6, <1>7, EffectType

(* One more transfer counts for the two it names.                          *)
LEMMA PartsOfOneMore ==
  ASSUME NEW t, NEW list \in Seq(Transfer), NEW x \in Transfer
  PROVE  /\ Cardinality(PartsOf(t, list)) \in Nat
         /\ Cardinality(PartsOf(t, Append(list, x)))
               = Cardinality(PartsOf(t, list)) + (IF t \in {x.from, x.to} THEN 1 ELSE 0)
<1>1. PICK n \in Nat : n = Len(list)
  OBVIOUS
<1>2. PICK more : more = Append(list, x)
  OBVIOUS
<1>3. /\ DOMAIN list = 1 .. n /\ DOMAIN more = 1 .. n + 1 /\ more[n + 1] = x
      /\ \A i \in 1 .. n : more[i] = list[i]
  BY <1>1, <1>2
<1>4. IsFiniteSet(PartsOf(t, list)) /\ n + 1 \notin PartsOf(t, list)
  <2>1. PartsOf(t, list) \subseteq 1 .. n /\ IsFiniteSet(1 .. n)
    BY <1>3, FS_Interval DEF PartsOf
  <2>. QED
    BY <2>1, FS_Subset
<1>5. Cardinality(PartsOf(t, list)) \in Nat
  BY <1>4, FS_CardinalityType
<1>6. CASE t \in {x.from, x.to}
  <2>1. PartsOf(t, more) = PartsOf(t, list) \cup {n + 1}
    BY <1>3, <1>6 DEF PartsOf
  <2>2. Cardinality(PartsOf(t, more)) = Cardinality(PartsOf(t, list)) + 1
    BY <1>4, <2>1, FS_AddElement
  <2>. QED
    BY <1>2, <1>5, <1>6, <2>2
<1>7. CASE t \notin {x.from, x.to}
  <2>1. PartsOf(t, more) = PartsOf(t, list)
    BY <1>3, <1>7 DEF PartsOf
  <2>. QED
    BY <1>2, <1>5, <1>7, <2>1
<1>. QED
  BY <1>6, <1>7

(* Half a toman of one transfer more.                                      *)
LEMMA NearlyOneMore ==
  ASSUME NEW x \in Int, NEW y \in Int, NEW n \in Nat, Nearly(x, y, n),
         NEW x2 \in Int, NEW y2 \in Int,
         2 * (x2 - y2) - 2 * (x - y) \in -Toman .. Toman
  PROVE  Nearly(x2, y2, n + 1)
<1>1. Toman \in Nat
  BY SettlementAssumption
<1>2. PICK h \in Nat : h = Toman * n
  BY <1>1
<1>3. Toman * (n + 1) = h + Toman
  BY <1>1, <1>2
<1>4. 2 * (x - y) \in -h .. h
  BY <1>2 DEF Nearly
<1>5. 2 * (x2 - y2) \in -(h + Toman) .. h + Toman
  BY <1>1, <1>4
<1>. QED
  BY <1>3, <1>5 DEF Nearly

LEMMA WholeShares ==
  ASSUME NEW a \in Nat, NEW n \in Nat \ {0}, a % n = 0
  PROVE  (-(a \div n)) * n = -a /\ a \div n \in Nat
<1>1. a = n * (a \div n) + (a % n) /\ a \div n \in Nat
  OBVIOUS
<1>. QED
  BY <1>1

LEMMA SumOfOne ==
  ASSUME NEW S, IsFiniteSet(S), NEW p \in S, NEW a \in Int, NEW v,
         \A x \in S : v[x] = IF x = p THEN a ELSE 0
  PROVE  SetSum(v, S) = a
<1>1. IsFiniteSet(S \ {p}) /\ \A x \in S \ {p} : v[x] = 0
  BY FS_Subset
<1>2. SetSum(v, S \ {p}) = 0 * Cardinality(S \ {p})
  BY <1>1, SumOfEqual
<1>3. Cardinality(S \ {p}) \in Nat
  BY <1>1, FS_CardinalityType
<1>4. SetSum(v, S \ {p}) = 0
  BY <1>2, <1>3
<1>5. SetSum(v, S) = SetSum(v, S \ {p}) + v[p]
  BY SumRemove
<1>. QED
  BY <1>4, <1>5

LEMMA GroupAndNets ==
  ASSUME TypeOK
  PROVE  /\ IsFiniteSet(group) /\ Cardinality(group) \in Nat \ {0}
         /\ Cardinality(group) <= Cardinality(People) /\ Cardinality(People) \in Nat
         /\ \A t \in group : Net(t) \in Int /\ Nets[t] = Net(t)
<1>1. group \in SUBSET People /\ group # {}
  BY DEF TypeOK
<1>2. IsFiniteSet(group) /\ Cardinality(group) \in Nat /\ Cardinality(group) >= 1
  BY <1>1, GroupIsFinite
<1>3. Cardinality(group) <= Cardinality(People) /\ Cardinality(People) \in Nat
  BY <1>1, SettlementAssumption, FS_Subset, FS_CardinalityType
<1>4. \A t \in group : Net(t) \in Int /\ Nets[t] = Net(t)
  BY DEF TypeOK, Net, Nets
<1>. QED
  BY <1>2, <1>3, <1>4

(* Before anything is counted everybody's balance is nothing.              *)
LEMMA NothingSums ==
  TypeOK /\ (\A t \in group : paid[t] = 0 /\ owes[t] = 0) => SetSum(Nets, group) = 0
<1>. SUFFICES ASSUME TypeOK, \A t \in group : paid[t] = 0 /\ owes[t] = 0
              PROVE  SetSum(Nets, group) = 0
  OBVIOUS
<1>1. IsFiniteSet(group) /\ Cardinality(group) \in Nat
  BY GroupAndNets
<1>2. \A t \in group : Nets[t] = 0
  BY DEF Nets, Net
<1>3. SetSum(Nets, group) = 0 * Cardinality(group)
  BY <1>1, <1>2, SumOfEqual
<1>. QED
  BY <1>1, <1>3

LEMMA SquareInit == Init => SquareInv
<1>. SUFFICES ASSUME Init PROVE SquareInv
  OBVIOUS
<1>1. /\ phase = "editing" /\ next = 1 /\ ~Settled /\ expenses = <<>>
      /\ \A t \in group : paid[t] = 0 /\ owes[t] = 0
  BY DEF Init, Settled
<1>2. SetSum(Nets, group) = 0
  BY <1>1, InitInv, NothingSums DEF IInv
<1>3. Len(<<>>) = 0
  OBVIOUS
<1>4. NothingCounted /\ CountingStops /\ NetsCancel /\ RestsCancel /\ PassedAreDust /\ PairingIsOver
  BY <1>1, <1>2, <1>3 DEF NothingCounted, CountingStops, NetsCancel, RestsCancel, PassedAreDust,
                          PairingIsOver
<1>. QED
  BY <1>1, <1>4 DEF SquareInv, TransfersExplained

\* A step to an open journal, or to one that is opened.
LEMMA SquareAnew ==
  ASSUME TypeOK', phase' \in {"editing", "counting"}, next' = 1,
         \A t \in group' : paid'[t] = 0 /\ owes'[t] = 0
  PROVE  SquareInv'
<1>0. TypeOK' /\ (\A t \in group : paid[t] = 0 /\ owes[t] = 0)' => (SetSum(Nets, group) = 0)'
  BY NothingSums, PTL
<1>1. SetSum(Nets, group)' = 0
  BY <1>0
<1>2. ~Settled'
  BY DEF Settled
<1>3. Len(expenses') \in Nat
  BY DEF TypeOK
<1>4. (NothingCounted /\ CountingStops)'
  BY <1>2, <1>3 DEF NothingCounted, CountingStops
<1>5. (NetsCancel /\ RestsCancel /\ PassedAreDust /\ PairingIsOver)'
  BY <1>1, <1>2 DEF NetsCancel, RestsCancel, PassedAreDust, PairingIsOver
<1>. QED
  BY <1>2, <1>4, <1>5 DEF SquareInv, TransfersExplained

LEMMA SquareEdit == IInv /\ SquareInv /\ Edit => SquareInv'
<1>. SUFFICES ASSUME IInv, SquareInv, Edit PROVE SquareInv'
  OBVIOUS
<1>1. TypeOK'
  BY EditStep DEF IInv
<1>2. NothingCounted
  BY DEF SquareInv
<1>3. ASSUME NEW payer \in People, NEW amount \in Amounts, AddExpense(payer, amount)
      PROVE  SquareInv'
  <2>1. phase = "editing" /\ UNCHANGED <<group, phase, next, paid, owes>>
    BY <1>3 DEF AddExpense, ledger
  <2>. QED
    BY <1>1, <1>2, <2>1, SquareAnew DEF NothingCounted
<1>4. ASSUME NEW travelers \in SUBSET People, EditGroup(travelers)
      PROVE  SquareInv'
  <2>1. /\ phase = "editing" /\ UNCHANGED <<phase, next>> /\ group' = travelers
        /\ paid' = [t \in travelers |-> 0] /\ owes' = [t \in travelers |-> 0]
    BY <1>4 DEF EditGroup
  <2>. QED
    BY <1>1, <1>2, <2>1, SquareAnew DEF NothingCounted
<1>5. ASSUME Open PROVE SquareInv'
  <2>1. phase = "editing" /\ phase' = "counting" /\ UNCHANGED <<group, next, paid, owes>>
    BY <1>5 DEF Open, ledger
  <2>. QED
    BY <1>1, <1>2, <2>1, SquareAnew DEF NothingCounted
<1>6. ASSUME Close PROVE SquareInv'
  <2>1. /\ phase' = "editing" /\ next' = 1 /\ group' = group
        /\ paid' = [t \in group |-> 0] /\ owes' = [t \in group |-> 0]
    BY <1>6 DEF Close
  <2>. QED
    BY <1>1, <2>1, SquareAnew
<1>. QED
  BY <1>3, <1>4, <1>5, <1>6 DEF Edit

(* An expense of one of the group is shared by the group without a rest.   *)
LEMMA ExpenseCancels ==
  ASSUME TypeOK, TypeOK', Count, expenses[next].paidBy \in group
  PROVE  SetSum(Nets', group) = SetSum(Nets, group)
<1>1. PICK e : e = expenses[next]
  OBVIOUS
<1>2. PICK n : n = Cardinality(group)
  OBVIOUS
<1>3. /\ IsFiniteSet(group) /\ n \in Nat \ {0} /\ n <= Cardinality(People)
      /\ Cardinality(People) \in Nat /\ \A t \in group : Nets[t] = Net(t) /\ Net(t) \in Int
  BY <1>2, GroupAndNets
<1>4. e.amount \in Amounts /\ e.amount \in Nat /\ e.amount % n = 0
  <2>1. e \in Expense
    <3>1. next \in 1 .. Len(expenses) /\ expenses \in Seq(Expense)
      BY DEF TypeOK, Count
    <3>. QED
      BY <1>1, <3>1
  <2>2. e.amount \in Amounts
    BY <2>1 DEF Expense
  <2>3. n \in 1 .. Cardinality(People)
    BY <1>3
  <2>4. e.amount % n = 0
    BY <2>2, <2>3, SharesAreWhole
  <2>. QED
    BY <2>2, <2>4, SettlementAssumption
<1>5. PICK h : h = e.amount \div n
  OBVIOUS
<1>6. (-h) * n = -e.amount /\ h \in Nat
  BY <1>3, <1>4, <1>5, WholeShares
<1>7. /\ group' = group
      /\ paid' = [t \in group |-> paid[t] + (IF t = e.paidBy THEN e.amount ELSE 0)]
      /\ owes' = [t \in group |-> owes[t] + h]
  BY <1>1, <1>2, <1>5 DEF Count, Share
<1>. DEFINE P == [t \in group |-> IF t = e.paidBy THEN e.amount ELSE 0]
            Q == [t \in group |-> -h]
            D == [t \in group |-> P[t] + Q[t]]
<1>8. SetSum(P, group) = e.amount
  <2>1. \A x \in group : P[x] = IF x = e.paidBy THEN e.amount ELSE 0
    OBVIOUS
  <2>2. e.paidBy \in group /\ e.amount \in Int /\ IsFiniteSet(group)
    BY <1>1, <1>3, <1>4
  <2>. HIDE DEF P
  <2>. QED
    BY <2>1, <2>2, SumOfOne
<1>9. SetSum(Q, group) = (-h) * n
  <2>1. IsFiniteSet(group) /\ -h \in Int /\ n = Cardinality(group) /\ \A x \in group : Q[x] = -h
    BY <1>2, <1>3, <1>6
  <2>. HIDE DEF Q
  <2>2. SetSum(Q, group) = (-h) * Cardinality(group)
    BY <2>1, SumOfEqual
  <2>. QED
    BY <2>1, <2>2
<1>10. SetSum(D, group) = 0
  <2>1. \A t \in group : P[t] \in Int /\ Q[t] \in Int /\ D[t] = P[t] + Q[t]
    BY <1>4, <1>6
  <2>2. SetSum(D, group) = SetSum(P, group) + SetSum(Q, group)
    <3>. HIDE DEF D, P, Q
    <3>. QED
      BY <1>3, <2>1, SumAdds
  <2>. HIDE DEF D, P, Q
  <2>. QED
    BY <1>4, <1>6, <1>8, <1>9, <2>2
<1>11. \A t \in group : Nets[t] \in Int /\ D[t] \in Int /\ Nets'[t] = Nets[t] + D[t]
  <2>. SUFFICES ASSUME NEW t \in group
                PROVE  Nets[t] \in Int /\ D[t] \in Int /\ Nets'[t] = Nets[t] + D[t]
    OBVIOUS
  <2>1. paid[t] \in Int /\ owes[t] \in Int
    BY DEF TypeOK
  <2>2. Nets'[t] = paid'[t] - owes'[t] /\ Nets[t] = paid[t] - owes[t]
    BY <1>7 DEF Nets, Net
  <2>3. D[t] = (IF t = e.paidBy THEN e.amount ELSE 0) + (-h)
    OBVIOUS
  <2>. QED
    BY <1>4, <1>6, <1>7, <2>1, <2>2, <2>3
<1>12. SetSum(Nets', group) = SetSum(Nets, group) + SetSum(D, group)
  <2>. HIDE DEF D
  <2>. QED
    BY <1>3, <1>11, SumAdds
<1>13. SetSum(Nets, group) \in Int
  BY <1>3, SumType
<1>. QED
  BY <1>10, <1>12, <1>13

LEMMA SquareCount == IInv /\ SquareInv /\ Count => SquareInv'
<1>. SUFFICES ASSUME IInv, SquareInv, Count PROVE SquareInv'
  OBVIOUS
<1>1. TypeOK /\ TypeOK'
  BY CountStep DEF IInv
<1>2. /\ phase = "counting" /\ next <= Len(expenses) /\ next' = next + 1 /\ ~Settled' /\ phase' = phase
      /\ UNCHANGED <<group, expenses>>
  BY DEF Count, Settled
<1>3. next \in Nat \ {0} /\ Len(expenses) \in Nat
  BY <1>1 DEF TypeOK
<1>4. (NothingCounted /\ CountingStops)'
  BY <1>2, <1>3 DEF NothingCounted, CountingStops
<1>5. NetsCancel'
  <2>. SUFFICES ASSUME CountedAreOfTheGroup' PROVE SetSum(Nets', group') = 0
    BY DEF NetsCancel
  <2>1. CountedAreOfTheGroup /\ expenses[next].paidBy \in group
    BY <1>2, <1>3 DEF CountedAreOfTheGroup
  <2>2. SetSum(Nets, group) = 0
    BY <2>1 DEF SquareInv, NetsCancel
  <2>. QED
    BY <1>1, <1>2, <2>1, <2>2, ExpenseCancels
<1>. QED
  BY <1>2, <1>4, <1>5 DEF SquareInv, RestsCancel, PassedAreDust, PairingIsOver, TransfersExplained

LEMMA SquareSort == IInv /\ SquareInv /\ Sort => SquareInv'
<1>. SUFFICES ASSUME IInv, SquareInv, Sort PROVE SquareInv'
  OBVIOUS
<1>1. TypeOK /\ TypeOK' /\ NothingYet /\ NetsCancel /\ CountingStops
  BY SortStep DEF IInv, SquareInv
<1>2. /\ phase = "counting" /\ phase' = "pairing" /\ ~Settled /\ next > Len(expenses)
      /\ UNCHANGED <<group, expenses, next, paid, owes, ci, di, transfers>>
      /\ left' = Nets
  BY DEF Sort, ledger, Settled, Nets
<1>3. next \in Nat \ {0} /\ Len(expenses) \in Nat /\ ci = 1 /\ di = 1 /\ transfers = <<>>
      /\ Len(creditors') \in Nat /\ Len(debtors') \in Nat
  BY <1>1, <1>2 DEF TypeOK, NothingYet
<1>4. Nets' = Nets /\ \A t : Net(t)' = Net(t)
  BY <1>2 DEF Nets, Net
<1>5. (NothingCounted /\ CountingStops)'
  BY <1>1, <1>2, <1>3 DEF NothingCounted, CountingStops
<1>6. (NetsCancel /\ RestsCancel)'
  BY <1>1, <1>2, <1>4 DEF NetsCancel, RestsCancel, CountedAreOfTheGroup
<1>7. (PassedAreDust /\ PairingIsOver)'
  BY <1>2, <1>3 DEF PassedAreDust, PairingIsOver
<1>8. TransfersExplained'
  <2>. SUFFICES ASSUME NEW t \in group
                PROVE  Nearly(left'[t], RestAfter(t, Net(t)', transfers'),
                              Cardinality(PartsOf(t, transfers')))
    BY <1>2 DEF TransfersExplained
  <2>1. Net(t) \in Int /\ left'[t] = Net(t)
    BY <1>1, <1>2, GroupAndNets
  <2>2. RestAfter(t, Net(t), <<>>) = Net(t)
    BY <2>1, RestAfterNothing
  <2>3. Cardinality(PartsOf(t, <<>>)) = 0
    <3>1. PartsOf(t, <<>>) = {}
      BY DEF PartsOf
    <3>. QED
      BY <3>1, FS_EmptySet
  <2>4. Nearly(Net(t), Net(t), 0)
    BY <2>1, SettlementAssumption DEF Nearly
  <2>5. transfers' = <<>> /\ Net(t)' = Net(t)
    BY <1>2, <1>3, <1>4
  <2>. QED
    BY <2>1, <2>2, <2>3, <2>4, <2>5
<1>. QED
  BY <1>5, <1>6, <1>7, <1>8 DEF SquareInv

LEMMA SquarePair == IInv /\ SquareInv /\ Pair => SquareInv'
<1>. SUFFICES ASSUME IInv, SquareInv, Pair PROVE SquareInv'
  OBVIOUS
<1>1. TypeOK /\ TypeOK' /\ ListsAreRight /\ IInv' /\ RestIsOpen'
  BY PairStep DEF IInv
<1>2. /\ phase = "pairing" /\ phase' = "pairing" /\ Settled /\ Settled'
      /\ UNCHANGED <<group, expenses, next, paid, owes, creditors, debtors>>
  BY DEF Pair, ledger, Settled
<1>3. PICK c \in group, d \in group, a \in Nat :
           /\ c = creditors[ci] /\ d = debtors[di] /\ c # d
           /\ ci \in 1 .. Len(creditors) /\ di \in 1 .. Len(debtors)
           /\ a >= Dust /\ left[c] - a >= 0 /\ left[d] + a <= 0
           /\ left[c] - a = 0 \/ left[d] + a = 0
           /\ left' = [left EXCEPT ![c] = @ - a, ![d] = @ + a]
           /\ transfers' = Append(transfers, [from |-> d, to |-> c, amount |-> Rounded(a)])
           /\ ci' = IF Covered(left'[c]) THEN ci + 1 ELSE ci
           /\ di' = IF Covered(-left'[d]) THEN di + 1 ELSE di
  BY PairMoves
<1>a. c = creditors[ci] /\ d = debtors[di] /\ c # d /\ a >= Dust
      /\ left[c] - a >= 0 /\ left[d] + a <= 0
  BY <1>3
<1>b. /\ ci' = IF Covered(left'[c]) THEN ci + 1 ELSE ci
      /\ di' = IF Covered(-left'[d]) THEN di + 1 ELSE di
  BY <1>3
<1>c. transfers' = Append(transfers, [from |-> d, to |-> c, amount |-> Rounded(a)])
  BY <1>3
<1>4. /\ left \in [group -> Int] /\ left' \in [group -> Int]
      /\ left'[c] = left[c] - a /\ left'[d] = left[d] + a
      /\ \A t \in group : t # c /\ t # d => left'[t] = left[t]
  <2>1. left \in [group -> Int] /\ left' \in [group -> Int]
    BY <1>1, <1>2 DEF TypeOK
  <2>. QED
    BY <1>3, <2>1
<1>5. Nets' = Nets /\ \A t : Net(t)' = Net(t)
  BY <1>2 DEF Nets, Net
<1>6. (NothingCounted /\ CountingStops)'
  BY <1>2 DEF SquareInv, NothingCounted, CountingStops, Settled
<1>7. NetsCancel'
  BY <1>2, <1>5 DEF SquareInv, NetsCancel, CountedAreOfTheGroup
<1>8. RestsCancel'
  <2>. SUFFICES ASSUME CountedAreOfTheGroup PROVE SetSum(left', group) = 0
    BY <1>2 DEF RestsCancel, CountedAreOfTheGroup
  <2>1. SetSum(left, group) = 0
    BY <1>2 DEF SquareInv, RestsCancel
  <2>2. IsFiniteSet(group) /\ \A t \in group : left[t] \in Int
    BY <1>1, <1>4, GroupAndNets
  <2>3. a \in Int
    OBVIOUS
  <2>. QED
    BY <1>4, <1>a, <2>1, <2>2, <2>3, SumOfMove
<1>9. PassedAreDust'
  <2>0. /\ PassedAreDust /\ Dust \in Nat \ {0} /\ a \in Nat
        /\ ci \in Nat /\ di \in Nat
        /\ \A i \in 1 .. Len(creditors) : creditors[i] \in group
        /\ \A i \in 1 .. Len(debtors) : debtors[i] \in group
    <3>1. PassedAreDust /\ Dust \in Nat \ {0} /\ a \in Nat
      BY SettlementAssumption DEF SquareInv
    <3>2. /\ creditors \in Seq(group) /\ debtors \in Seq(group)
          /\ ci \in 1 .. Len(creditors) + 1 /\ di \in 1 .. Len(debtors) + 1
      BY <1>1 DEF TypeOK
    <3>. QED
      BY <3>1, <3>2
  <2>1. ASSUME NEW i \in 1 .. Len(creditors), i < ci' PROVE left'[creditors[i]] < Dust
    <3>1. CASE i < ci
      <4>1. left[creditors[i]] < Dust
        BY <1>2, <2>0, <3>1 DEF PassedAreDust
      <4>2. left'[creditors[i]] <= left[creditors[i]] \/ left'[creditors[i]] <= 0
        <5>1. PICK t \in group : t = creditors[i]
          BY <2>0
        <5>2. left[t] \in Int /\ left[c] \in Int /\ left[d] \in Int
          BY <1>4
        <5>3. left'[t] <= left[t] \/ left'[t] <= 0
          BY <1>4, <1>a, <5>2
        <5>. QED
          BY <5>1, <5>3
      <4>. QED
        BY <1>4, <2>0, <4>1, <4>2
    <3>2. CASE ~(i < ci)
      <4>1. ci' # ci
        BY <2>1, <3>2
      <4>2. Covered(left'[c]) /\ ci' = ci + 1
        BY <1>b, <4>1
      <4>3. i = ci
        BY <2>0, <2>1, <3>2, <4>2
      <4>. QED
        BY <1>a, <4>2, <4>3 DEF Covered
    <3>. QED
      BY <3>1, <3>2
  <2>2. ASSUME NEW i \in 1 .. Len(debtors), i < di' PROVE -left'[debtors[i]] < Dust
    <3>1. CASE i < di
      <4>1. -left[debtors[i]] < Dust
        BY <1>2, <2>0, <3>1 DEF PassedAreDust
      <4>2. left'[debtors[i]] >= left[debtors[i]] \/ left'[debtors[i]] >= 0
        <5>1. PICK t \in group : t = debtors[i]
          BY <2>0
        <5>2. left[t] \in Int /\ left[c] \in Int /\ left[d] \in Int
          BY <1>4
        <5>3. left'[t] >= left[t] \/ left'[t] >= 0
          BY <1>4, <1>a, <5>2
        <5>. QED
          BY <5>1, <5>3
      <4>. QED
        BY <1>4, <2>0, <4>1, <4>2
    <3>2. CASE ~(i < di)
      <4>1. di' # di
        BY <2>2, <3>2
      <4>2. Covered(-left'[d]) /\ di' = di + 1
        BY <1>b, <4>1
      <4>3. i = di
        BY <2>0, <2>2, <3>2, <4>2
      <4>. QED
        BY <1>a, <4>2, <4>3 DEF Covered
    <3>. QED
      BY <3>1, <3>2
  <2>. QED
    BY <1>2, <2>1, <2>2 DEF PassedAreDust
<1>10. PairingIsOver'
  BY <1>2 DEF PairingIsOver
<1>11. TransfersExplained'
  <2>. SUFFICES ASSUME NEW t \in group
                PROVE  Nearly(left'[t], RestAfter(t, Net(t)', transfers'),
                              Cardinality(PartsOf(t, transfers')))
    BY <1>2 DEF TransfersExplained
  <2>1. PICK x : x = [from |-> d, to |-> c, amount |-> Rounded(a)]
    OBVIOUS
  <2>2. x \in Transfer /\ transfers \in Seq(Transfer) /\ Net(t) \in Int
    <3>1. d \in People /\ c \in People /\ transfers \in Seq(Transfer) /\ Rounded(a) \in Nat
      BY <1>1, RoundedToTomans DEF TypeOK
    <3>. QED
      BY <1>1, <2>1, <3>1, GroupAndNets DEF Transfer
  <2>3. PICK m : m = Money(x)
    OBVIOUS
  <2>4. x.to = c /\ x.from = d /\ m \in Nat /\ 2 * (m - a) \in -Toman .. Toman
    BY <2>1, <2>2, <2>3, MoneyType, RoundedToTomans DEF Money
  <2>5. PICK rest : rest = RestAfter(t, Net(t), transfers)
    OBVIOUS
  <2>6. PICK n : n = Cardinality(PartsOf(t, transfers))
    OBVIOUS
  <2>7. rest \in Int /\ n \in Nat /\ left[t] \in Int /\ Nearly(left[t], rest, n)
    <3>1. Nearly(left[t], rest, n)
      BY <1>2, <2>5, <2>6 DEF SquareInv, TransfersExplained
    <3>. QED
      BY <1>4, <2>2, <2>5, <2>6, <3>1, RestAfterOneMore, PartsOfOneMore
  <2>8. PICK rest2 : rest2 = RestAfter(t, Net(t), Append(transfers, x))
    OBVIOUS
  <2>9. rest2 = rest - (IF c = t THEN m ELSE 0) + (IF d = t THEN m ELSE 0)
    BY <2>2, <2>3, <2>4, <2>5, <2>8, RestAfterOneMore
  <2>10. left'[t] = left[t] - (IF c = t THEN a ELSE 0) + (IF d = t THEN a ELSE 0)
    BY <1>4, <1>a
  <2>11. PICK n2 : n2 = Cardinality(PartsOf(t, Append(transfers, x)))
    OBVIOUS
  <2>12. n2 = n + (IF t = c \/ t = d THEN 1 ELSE 0)
    BY <2>2, <2>4, <2>6, <2>11, PartsOfOneMore
  <2>13. Nearly(left'[t], rest2, n2)
    <3>1. CASE t = c \/ t = d
      <4>1. rest2 \in Int /\ left'[t] \in Int /\ n2 = n + 1
        BY <2>4, <2>7, <2>9, <2>10, <2>12, <3>1
      <4>2. 2 * (left'[t] - rest2) - 2 * (left[t] - rest) \in -Toman .. Toman
        BY <1>a, <2>4, <2>7, <2>9, <2>10, <3>1, SettlementAssumption
      <4>. QED
        BY <2>7, <4>1, <4>2, NearlyOneMore
    <3>2. CASE t # c /\ t # d
      <4>1. rest2 = rest /\ left'[t] = left[t] /\ n2 = n
        BY <2>7, <2>9, <2>10, <2>12, <3>2
      <4>. QED
        BY <2>7, <4>1
    <3>. QED
      BY <3>1, <3>2
  <2>14. transfers' = Append(transfers, x)
    BY <1>c, <2>1
  <2>. QED
    BY <1>5, <2>8, <2>11, <2>13, <2>14
<1>. QED
  BY <1>6, <1>7, <1>8, <1>9, <1>10, <1>11 DEF SquareInv

\* Nothing but the phase changes, or nothing at all.
LEMMA SquareStays ==
  ASSUME SquareInv, Settled' = Settled, phase' = phase \/ (phase' = "shown" /\ ~Pairing),
         UNCHANGED <<group, expenses, next, paid, owes, left, creditors, debtors, ci, di, transfers>>
  PROVE  SquareInv'
<1>1. Nets' = Nets /\ \A t : Net(t)' = Net(t)
  BY DEF Nets, Net
<1>2. NothingCounted' /\ CountingStops'
  BY DEF SquareInv, NothingCounted, CountingStops
<1>3. NetsCancel' /\ RestsCancel'
  BY <1>1 DEF SquareInv, NetsCancel, RestsCancel, CountedAreOfTheGroup
<1>4. PassedAreDust' /\ PairingIsOver'
  BY DEF SquareInv, PassedAreDust, PairingIsOver, Pairing
<1>5. TransfersExplained'
  <2>. SUFFICES ASSUME Settled, NEW t \in group
                PROVE  Nearly(left'[t], RestAfter(t, Net(t)', transfers'),
                              Cardinality(PartsOf(t, transfers')))
    BY DEF TransfersExplained
  <2>1. Nearly(left[t], RestAfter(t, Net(t), transfers), Cardinality(PartsOf(t, transfers)))
    BY DEF SquareInv, TransfersExplained
  <2>. QED
    BY <1>1, <2>1
<1>. QED
  BY <1>2, <1>3, <1>4, <1>5 DEF SquareInv

LEMMA SquareInductive == IInv /\ SquareInv /\ [Next]_vars => SquareInv'
<1>. SUFFICES ASSUME IInv, SquareInv, [Next]_vars PROVE SquareInv'
  OBVIOUS
<1>1. ASSUME Show PROVE SquareInv'
  <2>1. /\ Settled' = Settled /\ phase' = "shown" /\ ~Pairing
        /\ UNCHANGED <<group, expenses, next, paid, owes, left, creditors, debtors, ci, di, transfers>>
    BY <1>1 DEF Show, ledger, lists, Settled
  <2>. QED
    BY <2>1, SquareStays
<1>2. ASSUME UNCHANGED vars PROVE SquareInv'
  <2>1. /\ Settled' = Settled /\ phase' = phase
        /\ UNCHANGED <<group, expenses, next, paid, owes, left, creditors, debtors, ci, di, transfers>>
    BY <1>2 DEF vars, ledger, lists, Settled
  <2>. QED
    BY <2>1, SquareStays
<1>. QED
  BY <1>1, <1>2, SquareEdit, SquareCount, SquareSort, SquarePair DEF Next, Settle

(* Everybody of S is in a list that names as many, each once.              *)
LEMMA EnlistedAreAll ==
  ASSUME NEW S, IsFiniteSet(S), NEW list, Enlisted(list, S), NEW t \in S
  PROVE  \E i \in 1 .. Len(list) : list[i] = t
<1>1. /\ list \in [1 .. Len(list) -> S] /\ Len(list) \in Nat /\ Len(list) = Cardinality(S)
      /\ \A i, j \in 1 .. Len(list) : list[i] = list[j] => i = j
  BY DEF Enlisted
<1>2. list \in Injection(1 .. Len(list), S)
  BY <1>1 DEF Injection, IsInjective
<1>3. Cardinality(1 .. Len(list)) = Cardinality(S)
  BY <1>1, FS_Interval
<1>4. list \in Surjection(1 .. Len(list), S)
  BY <1>2, <1>3, FS_Injection
<1>. QED
  BY <1>4 DEF Surjection

(* When one of the lists is done with, its side is owed, or owes, dust.    *)
LEMMA OneSideIsDust ==
  ASSUME IInv, SquareInv, phase = "shown"
  PROVE  \/ \A t \in group : left[t] < Dust
         \/ \A t \in group : -left[t] < Dust
<1>1. /\ TypeOK /\ Settled /\ ListsAreRight /\ NobodyOverpays /\ PassedAreDust /\ ~Pairing
  BY DEF IInv, SquareInv, Settled, PairingIsOver
<1>2. /\ Dust \in Nat \ {0} /\ IsFiniteSet(group)
      /\ Creditors \subseteq group /\ Debtors \subseteq group
      /\ \A t \in group : left[t] \in Int /\ Net(t) \in Int
  BY <1>1, SettlementAssumption, GroupAndNets DEF TypeOK, Creditors, Debtors
<1>3. IsFiniteSet(Creditors) /\ IsFiniteSet(Debtors)
  BY <1>2, FS_Subset
<1>4. /\ ci \in 1 .. Len(creditors) + 1 /\ di \in 1 .. Len(debtors) + 1
      /\ Len(creditors) \in Nat /\ Len(debtors) \in Nat
  BY <1>1 DEF TypeOK
<1>5. CASE ci > Len(creditors)
  <2>1. ASSUME NEW t \in group PROVE left[t] < Dust
    <3>1. CASE t \in Creditors
      <4>1. PICK i \in 1 .. Len(creditors) : creditors[i] = t
        BY <1>1, <1>3, <3>1, EnlistedAreAll DEF ListsAreRight
      <4>. QED
        BY <1>1, <1>4, <1>5, <4>1 DEF PassedAreDust
    <3>2. CASE t \notin Creditors
      <4>1. Net(t) < Dust
        BY <1>2, <3>2 DEF Creditors
      <4>. QED
        BY <1>1, <1>2, <4>1 DEF NobodyOverpays
    <3>. QED
      BY <3>1, <3>2
  <2>. QED
    BY <2>1
<1>6. CASE di > Len(debtors)
  <2>1. ASSUME NEW t \in group PROVE -left[t] < Dust
    <3>1. CASE t \in Debtors
      <4>1. PICK i \in 1 .. Len(debtors) : debtors[i] = t
        BY <1>1, <1>3, <3>1, EnlistedAreAll DEF ListsAreRight
      <4>. QED
        BY <1>1, <1>4, <1>6, <4>1 DEF PassedAreDust
    <3>2. CASE t \notin Debtors
      <4>1. -Net(t) < Dust
        BY <1>2, <3>2 DEF Debtors
      <4>. QED
        BY <1>1, <1>2, <4>1 DEF NobodyOverpays
    <3>. QED
      BY <3>1, <3>2
  <2>. QED
    BY <2>1
<1>. QED
  BY <1>1, <1>4, <1>5, <1>6 DEF Pairing

(* Amounts that sum to nothing and are all at most Dust are no further     *)
(* below nothing than the rest can make up for.                            *)
LEMMA NoneFarBelow ==
  ASSUME NEW S, IsFiniteSet(S), NEW v, \A x \in S : v[x] \in Int /\ v[x] < Dust,
         SetSum(v, S) = 0, NEW t \in S
  PROVE  v[t] \in -Dust * Cardinality(S) .. Dust * Cardinality(S)
<1>1. PICK n : n = Cardinality(S \ {t})
  OBVIOUS
<1>2. IsFiniteSet(S \ {t}) /\ n \in Nat /\ Cardinality(S) = n + 1 /\ Dust \in Nat
  <2>1. IsFiniteSet(S \ {t}) /\ n \in Nat /\ n = Cardinality(S) - 1 /\ Cardinality(S) \in Nat
    BY <1>1, FS_RemoveElement, FS_CardinalityType
  <2>. QED
    BY <2>1, SettlementAssumption
<1>3. SetSum(v, S) = SetSum(v, S \ {t}) + v[t]
  BY SumRemove
<1>4. SetSum(v, S \ {t}) <= Dust * n /\ SetSum(v, S \ {t}) \in Int
  <2>1. \A x \in S \ {t} : v[x] \in Int /\ v[x] <= Dust
    BY <1>2
  <2>2. PICK R : R = S \ {t}
    OBVIOUS
  <2>3. Dust \in Int /\ IsFiniteSet(R) /\ n = Cardinality(R) /\ \A x \in R : v[x] \in Int /\ v[x] <= Dust
    BY <1>1, <1>2, <2>1, <2>2
  <2>4. SetSum(v, R) <= Dust * Cardinality(R)
    BY <2>3, SumAtMost
  <2>5. SetSum(v, R) \in Int
    BY <2>3, SumType
  <2>. QED
    BY <2>2, <2>3, <2>4, <2>5
<1>5. /\ Dust * (n + 1) = Dust * n + Dust /\ Dust * n \in Nat
      /\ -Dust * (n + 1) = -(Dust * n) - Dust
  BY <1>2
<1>. QED
  BY <1>2, <1>3, <1>4, <1>5

LEMMA SumOfOpposites ==
  ASSUME NEW S, IsFiniteSet(S), NEW v, NEW w, \A x \in S : v[x] \in Int /\ w[x] = -v[x],
         SetSum(v, S) = 0
  PROVE  SetSum(w, S) = 0
<1>. DEFINE z == [x \in S |-> 0]
<1>1. SetSum(z, S) = 0 * Cardinality(S)
  BY SumOfEqual
<1>2. Cardinality(S) \in Nat
  BY FS_CardinalityType
<1>3. \A x \in S : v[x] \in Int /\ w[x] \in Int /\ z[x] = v[x] + w[x]
  OBVIOUS
<1>4. SetSum(z, S) = SetSum(v, S) + SetSum(w, S) /\ SetSum(w, S) \in Int
  <2>. HIDE DEF z
  <2>. QED
    BY <1>3, SumAdds, SumType
<1>. QED
  BY <1>1, <1>2, <1>4

LEMMA AllAreSquare == IInv /\ SquareInv => SquareWithinDust
<1>. SUFFICES ASSUME IInv, SquareInv, phase = "shown", PayersPresent, NEW t \in group
              PROVE  left[t] \in -Dust * Cardinality(group) .. Dust * Cardinality(group)
  BY DEF SquareWithinDust
<1>1. /\ TypeOK /\ Settled /\ next = Len(expenses) + 1
  BY DEF IInv, SquareInv, CountingStops, Settled
<1>2. /\ IsFiniteSet(group) /\ Cardinality(group) \in Nat /\ Dust \in Nat
      /\ \A x \in group : left[x] \in Int
  BY <1>1, GroupAndNets, SettlementAssumption DEF TypeOK
<1>3. CountedAreOfTheGroup
  <2>1. expenses \in Seq(Expense)
    BY <1>1 DEF TypeOK
  <2>. QED
    BY <1>1, <2>1 DEF PayersPresent, CountedAreOfTheGroup
<1>4. SetSum(left, group) = 0
  BY <1>1, <1>3 DEF SquareInv, RestsCancel
<1>5. CASE \A x \in group : left[x] < Dust
  BY <1>2, <1>4, <1>5, NoneFarBelow
<1>6. CASE \A x \in group : -left[x] < Dust
  <2>. DEFINE w == [x \in group |-> -left[x]]
  <2>1. \A x \in group : w[x] = -left[x] /\ w[x] \in Int /\ w[x] < Dust
    BY <1>2, <1>6
  <2>. HIDE DEF w
  <2>2. SetSum(w, group) = 0
    BY <1>2, <1>4, <2>1, SumOfOpposites
  <2>3. w[t] \in -Dust * Cardinality(group) .. Dust * Cardinality(group)
    BY <1>2, <2>1, <2>2, NoneFarBelow
  <2>4. PICK m : m = Dust * Cardinality(group)
    OBVIOUS
  <2>5. m \in Int /\ -Dust * Cardinality(group) = -m
    BY <1>2, <2>4
  <2>. QED
    BY <1>2, <2>1, <2>3, <2>4, <2>5
<1>. QED
  BY <1>5, <1>6, OneSideIsDust

-----------------------------------------------------------------------------
LEMMA AlwaysInv == Spec => []IInv
<1>. QED
  BY InitInv, Inductive, PTL DEF Spec

(* The variables of settlement.ts and of the journal keep their types: the *)
(* positions of its loop never leave the lists.                            *)
THEOREM SettlementTypes == Spec => []TypeOK
<1>1. IInv => TypeOK
  BY DEF IInv
<1>. QED
  BY <1>1, AlwaysInv, PTL

(* settlement.ts:20, for every group: at most one transfer less than there *)
(* are people.                                                             *)
THEOREM TransfersAreFew == Spec => []FewerTransfersThanPeople
<1>. QED
  BY FewTransfersInv, AlwaysInv, PTL

(* Whatever the amounts, pairing the largest never turns a creditor into a *)
(* debtor, nor the other way round.                                        *)
THEOREM NobodyEverOverpays == Spec => []NobodyOverpays
<1>1. IInv => NobodyOverpays
  BY DEF IInv
<1>. QED
  BY <1>1, AlwaysInv, PTL

(* The transfers are fewer than the people and wrong nobody.               *)
THEOREM SettlementIsFair == Spec => []TransfersAreFair
<1>1. FewerTransfersThanPeople /\ NobodyOverpays => TransfersAreFair
  BY DEF TransfersAreFair
<1>. QED
  BY <1>1, TransfersAreFew, NobodyEverOverpays, PTL

LEMMA AlwaysSquareInv == Spec => []SquareInv
<1>. QED
  BY SquareInit, SquareInductive, AlwaysInv, PTL DEF Spec

(* settlement.ts:59-92: for every group, journal and threshold, what one   *)
(* is still to give or to get is what one was before less the transfers,   *)
(* but for half a toman of each of one's transfers, which are rounded;     *)
(* and, if every payer is still of the group, it is no more than the dust  *)
(* of the whole group.                                                     *)
THEOREM AllBecomeSquare == Spec => []EverybodyIsSquare
<1>1. SquareInv => TransfersExplainTheRest
  BY DEF SquareInv, TransfersExplained, TransfersExplainTheRest, RestAfter, Nearly,
         PartsOf, TransfersOf
<1>2. IInv /\ SquareInv => EverybodyIsSquare
  BY <1>1, AllAreSquare DEF EverybodyIsSquare
<1>. QED
  BY <1>2, AlwaysInv, AlwaysSquareInv, PTL
=============================================================================
