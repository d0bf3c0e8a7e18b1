------------------------------ MODULE BoardOrder ------------------------------
(***************************************************************************)
(* How the order of cards is computed (board_state.py, blocking_order and  *)
(* lanes): a depth-first search, the components it yields, a fold over     *)
(* them with what they block first, and a queue of the components that     *)
(* wait for nobody.  Board states what comes out; here is the way there.   *)
(*                                                                         *)
(* Cards are visited in the order of their tickets.  Python visits a set   *)
(* of cards in an order that differs from process to process: `hash' is    *)
(* that order, and nothing the user sees may depend on it.                 *)
(***************************************************************************)
EXTENDS Board, Sequences

Seqs == INSTANCE SequencesExt
Sets == INSTANCE FiniteSetsExt

(* The order one process visits sets of cards in.                          *)
HashOrder == Seqs!SetToSeqs(Card)
InOrder(S, order) == Seqs!FoldLeft(LAMBDA seq, c : IF c \in S THEN Append(seq, c) ELSE seq,
                                   <<>>, order)

(* board.items                                                             *)
ByTicket(S) == Seqs!SetToSortSeq(S, LAMBDA c, d : ticket[c] < ticket[d])

Children(E, c) == {d \in Card : <<c, d>> \in E}

-----------------------------------------------------------------------------
(* _blocking_finish_order: the explicit stack pops the last child first.   *)
RECURSIVE Visit(_, _, _, _)
Visit(E, hash, c, finished) ==
  IF c \in finished.seen THEN finished
  ELSE LET children == Seqs!FoldRight(LAMBDA d, f : Visit(E, hash, d, f),
                          InOrder(Children(E, c), hash), [finished EXCEPT !.seen = @ \cup {c}])
       IN  [children EXCEPT !.list = Append(@, c)]

FinishOrder(E, nodes, hash) ==
  Seqs!FoldLeft(LAMBDA f, c : Visit(E, hash, c, f), [seen |-> {}, list |-> <<>>], nodes).list

(* _blocking_components: backwards from each root in turn, last finished   *)
(* first.                                                                  *)
Components(E, nodes, hash) ==
  LET back == {<<e[2], e[1]>> : e \in E}
      group(root, assigned) ==
        Downstream({e \in back : e[2] \notin assigned}, root) \ assigned
  IN  Seqs!FoldLeft(LAMBDA groups, root :
          LET assigned == UNION Seqs!ToSet(groups)
          IN  IF root \in assigned THEN groups ELSE Append(groups, group(root, assigned)),
        <<>>, Seqs!Reverse(FinishOrder(E, nodes, hash)))

(* What the processes may find.                                            *)
Groupings(E, S) == {Components(E, ByTicket(S), hash) : hash \in HashOrder}

(* Indices of the components that a component has edges to.                *)
Below(E, groups, i) ==
  {j \in DOMAIN groups \ {i} : \E e \in E : e[1] \in groups[i] /\ e[2] \in groups[j]}
GroupOf(groups, c) == CHOOSE i \in DOMAIN groups : c \in groups[i]

-----------------------------------------------------------------------------
(* MUTANT of Counts: a card reached on two paths counts twice.             *)
CountsOfPaths(E, groups) ==
  LET paths[i \in DOMAIN groups] ==
        Cardinality(groups[i]) + Sets!MapThenSumSet(LAMBDA j : paths[j], Below(E, groups, i))
  IN  [i \in DOMAIN groups |-> paths[i] - 1]

(* _blocking_counts: the distinct cards below a component, as bit sets.    *)
Counts(E, groups) ==
  LET reachable[i \in DOMAIN groups] ==
        UNION {reachable[j] \cup groups[j] : j \in Below(E, groups, i)}
  IN  [i \in DOMAIN groups |-> Cardinality(reachable[i]) + Cardinality(groups[i]) - 1]

(* blocking_order, depths: the longest way down through the components.    *)
Depths(E, groups) ==
  LET depth[i \in DOMAIN groups] ==
        Sets!Max({0} \cup {depth[j] + 1 : j \in Below(E, groups, i)})
  IN  [i \in DOMAIN groups |-> depth[i]]

(* _blocking_priorities: of a component's own and of what it blocks.       *)
InheritedRanks(E, groups) ==
  LET inherited[i \in DOMAIN groups] ==
        Sets!Min({Rank[priority[c]] : c \in groups[i]}
                   \cup {inherited[j] : j \in Below(E, groups, i)})
  IN  [i \in DOMAIN groups |-> inherited[i]]

-----------------------------------------------------------------------------
(* Board.lanes.                                                            *)
Shown == {c \in Items : ~archived[c]}

(* _lane_blockers: from a card to what blocks it in its lane and rank.     *)
LaneEdges ==
  {<<row[3], row[1]>> : row \in {r \in links :
     /\ r[2] = "blocks" /\ {r[1], r[3]} \subseteq Shown
     /\ state[r[1]] = state[r[3]] /\ Rank[priority[r[1]]] = Rank[priority[r[3]]]}}

First(group) == CHOOSE c \in group : \A d \in group : ticket[c] <= ticket[d]

Sooner(g, h) ==
  LET c == First(g) d == First(h)
  IN  \/ Rank[priority[c]] < Rank[priority[d]]
      \/ Rank[priority[c]] = Rank[priority[d]] /\ ticket[c] < ticket[d]

(* MUTANT of Ready: every component is ready at once.                      *)
ReadyAtOnce(groups, done) == DOMAIN groups \ done

Ready(groups, done) ==
  {i \in DOMAIN groups \ done : Below(LaneEdges, groups, i) \subseteq done}

(* _ordered_lane_items: of the components whose blockers are out, the one  *)
(* whose first card is the most urgent, and the oldest.                    *)
RECURSIVE Emitted(_, _)
Emitted(groups, done) ==
  IF done = DOMAIN groups THEN <<>>
  ELSE LET next == CHOOSE i \in Ready(groups, done) :
                     \A j \in Ready(groups, done) \ {i} : Sooner(groups[i], groups[j])
       IN  ByTicket(groups[next]) \o Emitted(groups, done \cup {next})

LaneOrder(lane, groups) ==
  Seqs!FoldLeft(LAMBDA seq, c : IF state[c] = lane THEN Append(seq, c) ELSE seq, <<>>,
                Emitted(groups, {}))

-----------------------------------------------------------------------------
(* blocking_order: however a process visits sets, a card inherits what     *)
(* Board says, its count is that of the distinct unfinished cards below    *)
(* it, a loop none excepted but itself, and its depth is one more than the *)
(* deepest of what it blocks and is not blocked by in turn.                *)
OrderAsDefined ==
  LET urgent == UrgentEdges(links, state)
      blocks == {<<r[1], r[3]>> : r \in {r \in links : r[2] = "blocks"}}
      under(E) == [c \in Card |-> Downstream(E, c)]
      below    == under(blocks)
      unfinishedBelow == under(urgent)
      enforced == Enforced(links, state, priority)
  IN  /\ \A groups \in Groupings(urgent, Items) : \A i \in DOMAIN groups : \A c \in groups[i] :
           /\ InheritedRanks(urgent, groups)[i] = Rank[enforced[c]]
           /\ Counts(urgent, groups)[i] = Cardinality(unfinishedBelow[c]) - 1
      /\ \A groups \in Groupings(blocks, Items) :
           LET depths == Depths(blocks, groups) IN
              \A i, j \in DOMAIN groups : \A c \in groups[i], d \in groups[j] :
                 /\ i = j <=> d \in below[c] /\ c \in below[d]
                 /\ d \in below[c] /\ i # j => depths[i] > depths[j]
                 /\ depths[i] > 0 => \E k \in Below(blocks, groups, i) : depths[k] = depths[i] - 1

(* total_order_problems: a lane shows its cards by priority, a blocker      *)
(* before what it blocks unless they block each other, and beyond that the *)
(* older loop first, unless it still waits for a blocker; and every        *)
(* process shows the same.                                                 *)
LanesAreInOrder ==
  \A lane \in lanes \ retired :
    LET orders == {LaneOrder(lane, groups) : groups \in Groupings(LaneEdges, Shown)}
        shown  == CHOOSE order \in orders : TRUE
        before == {e \in Card \X Card :
                     \E i, j \in DOMAIN shown : i < j /\ e = <<shown[i], shown[j]>>}
        above  == [c \in Card |-> Downstream(LaneEdges, c)]
        loop   == [c \in Card |-> {d \in above[c] : c \in above[d]}]
        oldest == [c \in Card |-> ticket[First(loop[c])]]
    IN  /\ orders = {shown}
        /\ Seqs!ToSet(shown) = {c \in Shown : state[c] = lane}
        /\ \A <<c, d>> \in before :
             \/ Rank[priority[c]] < Rank[priority[d]]
             \/ d \in loop[c] /\ ticket[c] < ticket[d]
             \/ /\ Rank[priority[c]] = Rank[priority[d]]
                /\ d \notin above[c]
                /\ \/ oldest[c] < oldest[d]
                   \/ \E e \in above[d] \ loop[d] : e \in loop[c] \/ <<c, e>> \in before
=============================================================================
