------------------------- MODULE MCInvocationLedger -------------------------
(* TLC instance of the invocation ledger: two identities, two rows, two  *)
(* holders, two hours in each of two days.                                 *)
EXTENDS InvocationLedger, TLC

MCTimes == {0, 2, 4}
MCHourlyLimit == [m \in Models |-> 2]
MCTightLimit == [m \in Models |-> 1]
MCDailyLimit == [m \in Models |-> 3]
MCSymmetry == Permutations(Ids) \cup Permutations(Owners) \cup Permutations(Identities)
=============================================================================
