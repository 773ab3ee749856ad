-------------------------- MODULE MCOrderAllocation --------------------------
(***************************************************************************)
(* OrderAllocation for TLC: orders, cycles, users and disposition logs are *)
(* interchangeable.                                                        *)
(***************************************************************************)
EXTENDS OrderAllocation, TLC

Symmetry ==
  Permutations(Orders) \cup Permutations(Cycles) \cup Permutations(Users) \cup Permutations(Scraps)

\* Bound: two of the cycles, users and deductions are under way at a time.
TwoAtATime ==
  Cardinality({c \in Cycles : tx[c].pc # "idle"}) + Cardinality({u \in Users : ~Idle(u)})
    + Cardinality({d \in Scraps : scraps[d].pc = "found"}) <= 2

=============================================================================
