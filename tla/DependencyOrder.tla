--------------------------- MODULE DependencyOrder ---------------------------
(***************************************************************************)
(* The graph reading of a board: which cards lie downstream of a card, and *)
(* how blocking cards inherit the urgency of the cards they block          *)
(* (board_state.py, priority_ranks .. blocking_order).  The code collapses *)
(* cycles into components and folds them in topological order; a card's    *)
(* component together with everything below it is the set Downstream here. *)
(***************************************************************************)
EXTENDS Integers

CONSTANTS Card,       \* card ids that may ever be used
          Priority,   \* priority ids of the policy
          Rank        \* priority_ranks: smaller is more urgent, ties allowed

(* Ranks are parsed from P-numbers or are list positions.                  *)
ASSUME RankAssumption == Rank \in [Priority -> Nat]

-----------------------------------------------------------------------------
(* A set of cards is closed when no edge leaves it.                        *)
Closed(E, S) == \A e \in E : e[1] \in S => e[2] \in S

(* The cards reachable from c along E, c included: its own cycle and       *)
(* whatever that blocks.                                                   *)
Downstream(E, c) ==
  {d \in Card : \A S \in SUBSET Card : c \in S /\ d \notin S => ~Closed(E, S)}

(* inherited[group]: the most urgent priority in the card's component and  *)
(* below it.                                                               *)
Inherited(E, prio, c) ==
  LET candidates == {prio[d] : d \in Downstream(E, c)}
  IN  CHOOSE p \in candidates : \A q \in candidates : Rank[p] <= Rank[q]

(* MUTANT of BlockingPriorities: a rank as urgent is replaced all the same. *)
BlockingPrioritiesOfGroup(E, prio) == [c \in Card |-> Inherited(E, prio, c)]

(* _blocking_priorities: a card whose own rank already equals the          *)
(* inherited one keeps its own priority id.                                *)
BlockingPriorities(E, prio) ==
  [c \in Card |->
     LET inherited == Inherited(E, prio, c)
     IN  IF Rank[prio[c]] = Rank[inherited] THEN prio[c] ELSE inherited]

(* Some card of the chain that starts at c comes back to itself.           *)
FallsIntoLoop(E, c) ==
  \E d \in Downstream(E, c) : \E e \in E : e[1] = d /\ d \in Downstream(E, e[2])
=============================================================================
