CONSTANTS
    People = {ann, bob, cyn, dan}
    Toman = 12
    Amounts = {120, 600}
    Dust = 48
    MaxExpenses = 3
SPECIFICATION FairSpec
INVARIANTS TypeOK TransfersAreFair EverybodyIsSquare
PROPERTY SettlementIsShown
