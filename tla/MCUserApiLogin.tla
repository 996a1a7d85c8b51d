--------------------------- MODULE MCUserApiLogin ---------------------------
EXTENDS UserApiLogin

CONSTANT MaxFault   \* bound: processes killed and writes that fail

VARIABLE faults

\* Commands differ in nothing but their names: order them by what they do.
Rank == [token |-> 1, key |-> 2, login |-> 3, logout |-> 4, config |-> 5]
MCInit ==
  /\ Init /\ faults = 0
  /\ \A p, q \in Command : p < q => Rank[me[p].op] <= Rank[me[q].op]

MCNext ==
  \/ Work /\ UNCHANGED faults
  \/ faults < MaxFault /\ faults' = faults + 1 /\ Fault

MCFairSpec == MCInit /\ [][MCNext]_<<vars, faults>> /\ Fairness
=============================================================================
