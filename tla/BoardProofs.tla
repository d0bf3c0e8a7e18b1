------------------------------ MODULE BoardProofs ------------------------------
(* Theorems about the board domain: for every set of cards, actors, lanes,   *)
(* priorities, ranking, policy and input a run could be given.  First what   *)
(* inheritance of urgency does to any graph (DependencyOrder), then types,   *)
(* floors and retired lanes of the board, then what is saved: that it loads  *)
(* again, that its histories replay to it, that no priority changes unasked. *)
EXTENDS Board, WellFoundedInduction, TLAPS

-------------------------------------------------------------------------------
(* Inheritance, for every graph of cards, every assignment of priorities and *)
(* every ranking.                                                            *)

(* A nonempty set of natural numbers has a least one.                        *)
LEMMA LeastNatural ==
  ASSUME NEW T \in SUBSET Nat, T # {}
  PROVE  \E m \in T : \A n \in T : m <= n
<1> DEFINE R == {ss \in Nat \X Nat : ss[1] < ss[2]}
<1>1. IsWellFoundedOn(R, Nat)
  BY NatLessThanWellFounded DEF OpToRel
<1>2. PICK m \in T : \A n \in T : <<n, m>> \notin R
  <2> HIDE DEF R
  <2> QED BY <1>1, WFMin
<1>3. ASSUME NEW n \in T PROVE m <= n
  <2>1. n < m => <<n, m>> \in R
    OBVIOUS
  <2>2. ~(n < m)
    <3> HIDE DEF R
    <3> QED BY <1>2, <2>1
  <2>3. n \in Nat /\ m \in Nat
    OBVIOUS
  <2> QED BY <2>2, <2>3
<1> QED BY <1>3

(* Hence a nonempty set of priorities has a most urgent one, however many    *)
(* there are: the min() of _blocking_priorities has what to choose.          *)
LEMMA MostUrgentExists ==
  ASSUME NEW S \in SUBSET Priority, S # {}
  PROVE  \E p \in S : \A q \in S : Rank[p] <= Rank[q]
<1> DEFINE T == {Rank[p] : p \in S}
<1>1. T \in SUBSET Nat /\ T # {}
  BY RankAssumption
<1>2. PICK m \in T : \A n \in T : m <= n
  <2> HIDE DEF T
  <2> QED BY <1>1, LeastNatural
<1>3. PICK p \in S : m = Rank[p]
  OBVIOUS
<1>4. \A q \in S : Rank[p] <= Rank[q]
  BY <1>2, <1>3
<1> QED BY <1>4

(* A card is in its own component.                                           *)
LEMMA DownstreamSelf ==
  ASSUME NEW E, NEW c \in Card
  PROVE  c \in Downstream(E, c)
BY DEF Downstream

(* Whatever a blocked card reaches, its blocker reaches too: this is why the *)
(* blocker ends at least as urgent.                                          *)
LEMMA DownstreamAlongEdge ==
  ASSUME NEW E, NEW e \in E, e[1] \in Card, e[2] \in Card
  PROVE  Downstream(E, e[2]) \subseteq Downstream(E, e[1])
BY DEF Downstream, Closed

(* The fold over components finds a priority of some downstream card, and    *)
(* none of them is more urgent.                                              *)
LEMMA InheritedIsLeast ==
  ASSUME NEW E, NEW prio \in [Card -> Priority], NEW c \in Card
  PROVE  /\ Inherited(E, prio, c) \in Priority
         /\ \E d \in Downstream(E, c) : Inherited(E, prio, c) = prio[d]
         /\ \A d \in Downstream(E, c) : Rank[Inherited(E, prio, c)] <= Rank[prio[d]]
<1> DEFINE candidates == {prio[d] : d \in Downstream(E, c)}
<1>1. Downstream(E, c) \subseteq Card
  BY DEF Downstream
<1>2. candidates \in SUBSET Priority
  BY <1>1
<1>3. candidates # {}
  BY DownstreamSelf
<1>4. \E p \in candidates : \A q \in candidates : Rank[p] <= Rank[q]
  BY <1>2, <1>3, MostUrgentExists
<1>5. /\ Inherited(E, prio, c) \in candidates
      /\ \A q \in candidates : Rank[Inherited(E, prio, c)] <= Rank[q]
  BY <1>4 DEF Inherited
<1>6. QED
  BY <1>2, <1>5

(* Inheritance yields a priority for every card, of the inherited rank.      *)
LEMMA BlockingPrioritiesRank ==
  ASSUME NEW E, NEW prio \in [Card -> Priority]
  PROVE  /\ BlockingPriorities(E, prio) \in [Card -> Priority]
         /\ \A c \in Card :
              Rank[BlockingPriorities(E, prio)[c]] = Rank[Inherited(E, prio, c)]
BY InheritedIsLeast DEF BlockingPriorities

(* Inheritance never makes a card less urgent.                               *)
LEMMA NoDemotion ==
  ASSUME NEW E, NEW prio \in [Card -> Priority], NEW c \in Card
  PROVE  Rank[BlockingPriorities(E, prio)[c]] <= Rank[prio[c]]
<1>1. Rank[Inherited(E, prio, c)] <= Rank[prio[c]]
  BY DownstreamSelf, InheritedIsLeast
<1>2. QED
  BY <1>1, BlockingPrioritiesRank

(* After inheritance every blocker is as urgent as what it blocks, cycles    *)
(* included.                                                                 *)
THEOREM InheritanceMeetsEveryFloor ==
  ASSUME NEW E, NEW prio \in [Card -> Priority],
         NEW e \in E, e[1] \in Card, e[2] \in Card
  PROVE  Rank[BlockingPriorities(E, prio)[e[1]]] <= Rank[BlockingPriorities(E, prio)[e[2]]]
<1>1. PICK d \in Downstream(E, e[2]) : Inherited(E, prio, e[2]) = prio[d]
  BY InheritedIsLeast
<1>2. d \in Downstream(E, e[1])
  BY <1>1, DownstreamAlongEdge
<1>3. Rank[Inherited(E, prio, e[1])] <= Rank[Inherited(E, prio, e[2])]
  BY <1>1, <1>2, InheritedIsLeast
<1>4. QED
  BY <1>3, BlockingPrioritiesRank

(* Where the floors already hold, inheritance changes nothing: verify() has  *)
(* no promotion to ask for, and enforcing twice is enforcing once.           *)
THEOREM FloorsAreAFixpoint ==
  ASSUME NEW E, E \subseteq Card \X Card, NEW prio \in [Card -> Priority],
         \A e \in E : Rank[prio[e[1]]] <= Rank[prio[e[2]]]
  PROVE  BlockingPriorities(E, prio) = prio
<1>1. ASSUME NEW c \in Card
      PROVE  Rank[prio[c]] = Rank[Inherited(E, prio, c)]
  <2> DEFINE S == {d \in Card : Rank[prio[c]] <= Rank[prio[d]]}
  <2>1. \A d \in Card : Rank[prio[d]] \in Nat
    BY RankAssumption
  <2>2. c \in S
    BY <2>1
  <2>3. Closed(E, S)
    BY <2>1 DEF Closed
  <2>4. Downstream(E, c) \subseteq S
    BY <2>2, <2>3 DEF Downstream
  <2>5. PICK d \in Downstream(E, c) : Inherited(E, prio, c) = prio[d]
    BY InheritedIsLeast
  <2>6. Rank[prio[c]] <= Rank[Inherited(E, prio, c)]
    BY <2>4, <2>5
  <2>7. Rank[Inherited(E, prio, c)] <= Rank[prio[c]]
    BY DownstreamSelf, InheritedIsLeast
  <2>8. Rank[prio[c]] \in Nat /\ Rank[Inherited(E, prio, c)] \in Nat
    BY <2>1, InheritedIsLeast, RankAssumption
  <2>9. QED
    BY <2>6, <2>7, <2>8
<1>2. QED
  BY <1>1 DEF BlockingPriorities

-------------------------------------------------------------------------------
(* The board.                                                                *)

(* Priorities stay priorities when inheritance is enforced.                  *)
LEMMA EnforcedType ==
  ASSUME NEW ls, NEW st, NEW prio \in [Card -> Priority]
  PROVE  Enforced(ls, st, prio) \in [Card -> Priority]
BY BlockingPrioritiesRank DEF Enforced

(* Both spellings of a relationship between cards give a well-typed row.     *)
LEMMA RowType ==
  ASSUME NEW a \in Card, NEW b \in Card, NEW kind \in AnyKind
  PROVE  /\ Row(a, kind, b) \in Card \X StoredKind \X Card
         /\ {Row(a, kind, b)[1], Row(a, kind, b)[3]} = {a, b}
BY DEF Row, AnyKind, StoredKind, Inverse

(* Each action keeps the types; Next has one case per command.               *)
LEMMA TypeStep == TypeOK /\ [Next]_vars => TypeOK'
<1> SUFFICES ASSUME TypeOK, [Next]_vars PROVE TypeOK'
  OBVIOUS
<1> USE DEF TypeOK, policy
<1>1. ASSUME NEW c \in Card, NEW lane \in Lane, NEW p \in Priority, NEW by \in Actor,
             NEW asked \in RelationRef, Create(c, lane, p, by, asked)
      PROVE  TypeOK'
  <2> DEFINE rows == {Row(c, r[1], r[2]) : r \in asked}
             prio == [priority EXCEPT ![c] = p]
  <2>1. asked \subseteq AnyKind \X Card
    BY BoardAssumption DEF PolicyFitsUsers, RulesFit, EdgesFit
  <2>2. rows \subseteq Card \X StoredKind \X Card
    BY <2>1, RowType
  <2>3. prio \in [Card -> Priority]
    OBVIOUS
  <2>4. priority' \in [Card -> Priority]
    BY <1>1, <2>3, EnforcedType DEF Create
  <2>5. links' = links \cup rows
    BY <1>1 DEF Create
  <2>6. state' \in [Card -> lanes' \cup {None}]
    BY <1>1 DEF Create, MayCreate
  <2>7. ticket' \in [Card -> Nat] /\ nextTicket' \in Nat \ {0}
    BY <1>1 DEF Create
  <2>8. QED
    BY <1>1, <2>2, <2>4, <2>5, <2>6, <2>7 DEF Create
<1>2. ASSUME NEW a \in Items, NEW b \in Items, NEW kind \in KindRef, Link(a, kind, b)
      PROVE  TypeOK'
  <2>1. Row(a, kind, b) \in Card \X StoredKind \X Card
    BY RowType, BoardAssumption DEF PolicyFitsUsers, RulesFit, EdgesFit, Items
  <2>2. links' \subseteq Card \X StoredKind \X Card
    BY <1>2, <2>1 DEF Link
  <2>3. priority' \in [Card -> Priority]
    BY <1>2, EnforcedType DEF Link
  <2>4. QED
    BY <1>2, <2>2, <2>3 DEF Link
<1>3. ASSUME NEW a \in Items, NEW b \in Items, NEW kind \in KindRef, Unlink(a, kind, b)
      PROVE  TypeOK'
  BY <1>3 DEF Unlink
<1>4. ASSUME NEW a \in Items, NEW b \in Items, NEW old \in KindRef, NEW new \in KindRef,
             ReplaceLink(a, old, new, b)
      PROVE  TypeOK'
  <2>1. Row(a, new, b) \in Card \X StoredKind \X Card
    BY RowType, BoardAssumption DEF PolicyFitsUsers, RulesFit, EdgesFit, Items
  <2>2. links' \subseteq Card \X StoredKind \X Card
    BY <1>4, <2>1 DEF ReplaceLink
  <2>3. priority' \in [Card -> Priority]
    BY <1>4, EnforcedType DEF ReplaceLink
  <2>4. QED
    BY <1>4, <2>2, <2>3 DEF ReplaceLink
<1>5. ASSUME NEW S \in SUBSET Items, NEW p \in Priority, ApplyTargets(Requested(S, p))
      PROVE  TypeOK'
  BY <1>5, EnforcedType DEF ApplyTargets, Requested
<1>6. ASSUME NEW c \in ParentRef, NEW p \in ParentRef, SetParent(c, p)
      PROVE  TypeOK'
  BY <1>6, BoardAssumption DEF PolicyFitsUsers, RulesFit, EdgesFit, SetParent
<1>7. ASSUME NEW c \in ParentRef, ClearParent(c)
      PROVE  TypeOK'
  BY <1>7 DEF ClearParent
<1>8. ASSUME NEW c \in ArchiveRef, NEW flag \in BOOLEAN, NEW by \in Actor,
             SetArchived(c, flag, by)
      PROVE  TypeOK'
  BY <1>8 DEF SetArchived
<1>9. ASSUME NEW c \in Items, NEW to \in Lane, NEW by \in Actor, Move(c, to, by)
      PROVE  TypeOK'
  <2>1. to \in lanes
    BY <1>9 DEF Move, MayMove
  <2>2. priority' \in [Card -> Priority]
    BY <1>9, EnforcedType DEF Move
  <2>3. QED
    BY <1>9, <2>1, <2>2 DEF Move
<1>10. ASSUME NEW c \in MentionRef, NEW mentioned \in SUBSET MentionRef, NEW by \in Actor,
              Comment(c, mentioned, by)
       PROVE  TypeOK'
  <2> DEFINE rows == {Row(c, "references", m) : m \in (mentioned \cap Items) \ {c}} \ links
  <2>1. rows \subseteq Card \X StoredKind \X Card
    BY <1>10, RowType DEF Comment, Items, AnyKind, StoredKind
  <2>2. QED
    BY <1>10, <2>1 DEF Comment
<1>11. ASSUME NEW g \in GrantRef, GrantPermissions(g)
       PROVE  TypeOK'
  BY <1>11, BoardAssumption DEF PolicyFitsUsers, RulesFit, EdgesFit, GrantPermissions, cards,
     Operators
<1>12. ASSUME NEW lane \in RetireRef, RetireLane(lane)
       PROVE  TypeOK'
  BY <1>12 DEF RetireLane, RetiredLanesFit, cards
<1>13. ASSUME NEW a \in AddRef, AddLane(a.lane, a.creators, a.connected)
       PROVE  TypeOK'
  <2>1. lanes' = lanes \cup {a.lane} /\ a.lane \in Lane
    BY <1>13 DEF AddLane
  <2>2. a.creators \subseteq Actor /\ a.connected \subseteq Actor
    BY <1>13, BoardAssumption DEF PolicyFitsUsers, RulesFit, EdgesFit, AddLane, Operators
  <2>3. mayCreate' \subseteq Actor \X lanes' /\ mayMove' \subseteq Actor \X lanes' \X lanes'
    BY <1>13, <2>1, <2>2 DEF AddLane
  <2>4. priority' \in [Card -> Priority]
    BY <1>13, EnforcedType DEF AddLane
  <2>5. QED
    BY <1>13, <2>1, <2>3, <2>4 DEF AddLane
<1>14. ASSUME NEW m \in MigrateRef, MigrateLaneId(m[1], m[2])
       PROVE  TypeOK'
  <2> DEFINE now(lane) == Renamed(lane, m[1], m[2])
  <2>1. m[1] \in lanes /\ m[2] \in Lane /\ lanes' = {now(lane) : lane \in lanes}
    BY <1>14 DEF MigrateLaneId
  <2>2. now(None) = None
    BY <2>1, BoardAssumption DEF PolicyFitsUsers, RulesFit, EdgesFit, Renamed
  <2>3. lanes' \subseteq Lane /\ retired' \subseteq lanes'
    BY <1>14, <2>1 DEF MigrateLaneId, Renamed
  <2>4. state' \in [Card -> lanes' \cup {None}]
    BY <1>14, <2>1, <2>2 DEF MigrateLaneId
  <2>5. mayCreate' \subseteq Actor \X lanes' /\ mayMove' \subseteq Actor \X lanes' \X lanes'
    BY <1>14, <2>1 DEF MigrateLaneId
  <2>6. priority' \in [Card -> Priority]
    BY <1>14, EnforcedType DEF MigrateLaneId
  <2>7. QED
    BY <1>14, <2>3, <2>4, <2>5, <2>6 DEF MigrateLaneId
<1>15. CASE UNCHANGED vars
  BY <1>15 DEF vars, cards
<1>16. QED
  BY <1>1, <1>2, <1>3, <1>4, <1>5, <1>6, <1>7, <1>8, <1>9, <1>10, <1>11, <1>12, <1>13,
     <1>14, <1>15
     DEF Next, SetPriority, SetPriorities, ApproveReview, Items

(* The types hold at the start.                                              *)
LEMMA TypeInit == Init => TypeOK
BY BoardAssumption DEF PolicyFitsUsers, RulesFit, EdgesFit, Init, TypeOK, Operators

(* Type correctness of the board domain.                                     *)
THEOREM TypeCorrect == Spec => []TypeOK
<1>1. QED
  BY TypeInit, TypeStep, PTL DEF Spec

-------------------------------------------------------------------------------
(* Both ends of every stored link exist.  Without it a card could be created *)
(* under an old link and start out below the card it blocks.                 *)
LinkEndsExist == \A row \in links : {row[1], row[3]} \subseteq Items

IInv == TypeOK /\ LinkEndsExist /\ BlockersKeepUp

(* Enforcing inheritance on the links and lanes of a step establishes the    *)
(* floors, whatever the priorities were.                                     *)
LEMMA EnforcementEstablishes ==
  ASSUME NEW ls, NEW st, NEW prio \in [Card -> Priority], NEW e \in UrgentEdges(ls, st)
  PROVE  Rank[Enforced(ls, st, prio)[e[1]]] <= Rank[Enforced(ls, st, prio)[e[2]]]
<1>1. e[1] \in Card /\ e[2] \in Card
  BY DEF UrgentEdges
<1>2. QED
  BY <1>1, InheritanceMeetsEveryFloor DEF Enforced

(* A step that enforces inheritance on its result keeps the floors.          *)
LEMMA FloorsByEnforcement ==
  ASSUME NEW prio \in [Card -> Priority], priority' = Enforced(links', state', prio)
  PROVE  BlockersKeepUp'
BY EnforcementEstablishes DEF BlockersKeepUp

(* A step that adds no urgent edge and leaves priorities alone keeps them.   *)
LEMMA FloorsByInclusion ==
  ASSUME BlockersKeepUp, priority' = priority,
         UrgentEdges(links', state') \subseteq UrgentEdges(links, state)
  PROVE  BlockersKeepUp'
BY DEF BlockersKeepUp

(* Each command keeps the floors; Next has one case each.                    *)
LEMMA FloorStep == IInv /\ [Next]_vars => (LinkEndsExist /\ BlockersKeepUp)'
<1> SUFFICES ASSUME IInv, [Next]_vars PROVE LinkEndsExist' /\ BlockersKeepUp'
  OBVIOUS
<1> USE DEF IInv, policy
<1>1. ASSUME NEW c \in Card, NEW lane \in Lane, NEW p \in Priority, NEW by \in Actor,
             NEW asked \in RelationRef, Create(c, lane, p, by, asked)
      PROVE  LinkEndsExist' /\ BlockersKeepUp'
  <2> DEFINE rows == {Row(c, r[1], r[2]) : r \in asked}
             prio == [priority EXCEPT ![c] = p]
  <2>1. Items' = Items \cup {c}
    BY <1>1 DEF Create, Items, TypeOK
  <2>2. asked \subseteq AnyKind \X Card
    BY BoardAssumption DEF PolicyFitsUsers, RulesFit, EdgesFit
  <2>3. \A row \in rows : {row[1], row[3]} \subseteq Items \cup {c}
    <3>1. ASSUME NEW r \in asked
          PROVE  {Row(c, r[1], r[2])[1], Row(c, r[1], r[2])[3]} \subseteq Items \cup {c}
      <4>1. r[1] \in AnyKind /\ r[2] \in Card
        BY <2>2
      <4>2. r[2] \in Items
        BY <1>1 DEF Create
      <4>3. {Row(c, r[1], r[2])[1], Row(c, r[1], r[2])[3]} = {c, r[2]}
        BY <4>1, RowType
      <4>4. QED
        BY <4>2, <4>3
    <3>2. QED
      BY <3>1
  <2>4. links' = links \cup rows
    BY <1>1 DEF Create
  <2>5. LinkEndsExist'
    BY <2>1, <2>3, <2>4 DEF LinkEndsExist
  <2>6. prio \in [Card -> Priority]
    BY DEF TypeOK
  <2>7. CASE rows = {}
    <3>1. links' = links /\ priority' = prio /\ state' = [state EXCEPT ![c] = lane]
      BY <1>1, <2>7 DEF Create
    <3>2. \A e \in UrgentEdges(links', state') :
            e \in UrgentEdges(links, state) /\ e[1] # c /\ e[2] # c
      <4>1. c \notin Items
        BY <1>1 DEF Create
      <4>2. QED
        BY <3>1, <4>1 DEF UrgentEdges, LinkEndsExist, TypeOK
    <3>3. \A e \in UrgentEdges(links', state') :
            priority'[e[1]] = priority[e[1]] /\ priority'[e[2]] = priority[e[2]]
      BY <3>1, <3>2 DEF UrgentEdges, TypeOK
    <3>4. BlockersKeepUp'
      BY <3>2, <3>3 DEF BlockersKeepUp
    <3>5. QED
      BY <2>5, <3>4
  <2>8. CASE rows # {}
    <3>1. priority' = Enforced(links', state', prio)
      BY <1>1, <2>8 DEF Create
    <3>2. QED
      BY <2>5, <2>6, <3>1, FloorsByEnforcement
  <2>9. QED
    BY <2>7, <2>8
<1>2. ASSUME NEW a \in Items, NEW b \in Items, NEW kind \in KindRef, Link(a, kind, b)
      PROVE  LinkEndsExist' /\ BlockersKeepUp'
  <2>1. {Row(a, kind, b)[1], Row(a, kind, b)[3]} = {a, b}
    BY RowType, BoardAssumption DEF PolicyFitsUsers, RulesFit, EdgesFit, Items
  <2>2. links' = links \cup {Row(a, kind, b)} /\ Items' = Items
    BY <1>2 DEF Link, Items
  <2>3. LinkEndsExist'
    BY <2>1, <2>2 DEF LinkEndsExist
  <2>4. priority' = Enforced(links', state', priority)
    BY <1>2 DEF Link
  <2>5. QED
    BY <2>3, <2>4, FloorsByEnforcement DEF TypeOK
<1>3. ASSUME NEW a \in Items, NEW b \in Items, NEW kind \in KindRef, Unlink(a, kind, b)
      PROVE  LinkEndsExist' /\ BlockersKeepUp'
  <2>1. links' \subseteq links /\ Items' = Items /\ state' = state /\ priority' = priority
    BY <1>3 DEF Unlink, Items
  <2>2. UrgentEdges(links', state') \subseteq UrgentEdges(links, state)
    BY <2>1 DEF UrgentEdges
  <2>3. QED
    BY <2>1, <2>2, FloorsByInclusion DEF LinkEndsExist
<1>4. ASSUME NEW a \in Items, NEW b \in Items, NEW old \in KindRef, NEW new \in KindRef,
             ReplaceLink(a, old, new, b)
      PROVE  LinkEndsExist' /\ BlockersKeepUp'
  <2>1. {Row(a, new, b)[1], Row(a, new, b)[3]} = {a, b}
    BY RowType, BoardAssumption DEF PolicyFitsUsers, RulesFit, EdgesFit, Items
  <2>2. links' \subseteq links \cup {Row(a, new, b)} /\ Items' = Items
    BY <1>4 DEF ReplaceLink, Items
  <2>3. LinkEndsExist'
    BY <2>1, <2>2 DEF LinkEndsExist
  <2>4. priority' = Enforced(links', state', priority)
    BY <1>4 DEF ReplaceLink
  <2>5. QED
    BY <2>3, <2>4, FloorsByEnforcement DEF TypeOK
<1>5. ASSUME NEW S \in SUBSET Items, NEW p \in Priority, ApplyTargets(Requested(S, p))
      PROVE  LinkEndsExist' /\ BlockersKeepUp'
  <2> DEFINE asked == [c \in Card |-> IF c \in S THEN p ELSE priority[c]]
  <2>1. asked \in [Card -> Priority]
    BY DEF TypeOK
  <2>2. priority' = Enforced(links', state', asked)
    BY <1>5 DEF ApplyTargets, Requested
  <2>3. links' = links /\ Items' = Items
    BY <1>5 DEF ApplyTargets, Items
  <2>4. QED
    BY <2>1, <2>2, <2>3, FloorsByEnforcement DEF LinkEndsExist
<1>6. ASSUME NEW c \in Items, NEW to \in Lane, NEW by \in Actor, Move(c, to, by)
      PROVE  LinkEndsExist' /\ BlockersKeepUp'
  <2>1. links' = links /\ Items' = Items /\ state' = [state EXCEPT ![c] = to]
    BY <1>6 DEF Move, Items
  <2>2. LinkEndsExist'
    BY <2>1 DEF LinkEndsExist
  <2>3. CASE state[c] = Completed
    <3>1. priority' = Enforced(links', state', priority)
      BY <1>6, <2>1, <2>3 DEF Move
    <3>2. QED
      BY <2>2, <3>1, FloorsByEnforcement DEF TypeOK
  <2>4. CASE state[c] # Completed
    <3>1. priority' = priority
      BY <1>6, <2>4 DEF Move
    <3>2. UrgentEdges(links', state') \subseteq UrgentEdges(links, state)
      BY <2>1, <2>4 DEF UrgentEdges, TypeOK
    <3>3. QED
      BY <2>2, <3>1, <3>2, FloorsByInclusion
  <2>5. QED
    BY <2>3, <2>4
<1>7. ASSUME NEW c \in MentionRef, NEW mentioned \in SUBSET MentionRef, NEW by \in Actor,
             Comment(c, mentioned, by)
      PROVE  LinkEndsExist' /\ BlockersKeepUp'
  <2> DEFINE rows == {Row(c, "references", m) : m \in (mentioned \cap Items) \ {c}} \ links
  <2>1. links' = links \cup rows /\ Items' = Items /\ state' = state /\ priority' = priority
    BY <1>7 DEF Comment, Items
  <2>2. \A row \in rows : row[2] = "references" /\ {row[1], row[3]} \subseteq Items
    BY <1>7 DEF Comment, Row, StoredKind
  <2>3. LinkEndsExist'
    BY <2>1, <2>2 DEF LinkEndsExist
  <2>4. UrgentEdges(links', state') \subseteq UrgentEdges(links, state)
    BY <2>1, <2>2 DEF UrgentEdges
  <2>5. QED
    BY <2>1, <2>3, <2>4, FloorsByInclusion
<1>8. ASSUME UNCHANGED <<ticket, links, state, priority>>
      PROVE  LinkEndsExist' /\ BlockersKeepUp'
  BY <1>8 DEF LinkEndsExist, Items, BlockersKeepUp, UrgentEdges
<1>9. ASSUME \/ \E c \in ParentRef, p \in ParentRef : SetParent(c, p)
             \/ \E c \in ParentRef : ClearParent(c)
             \/ \E c \in ArchiveRef, flag \in BOOLEAN, by \in Actor : SetArchived(c, flag, by)
             \/ \E g \in GrantRef : GrantPermissions(g)
             \/ \E lane \in RetireRef : RetireLane(lane)
             \/ UNCHANGED vars
      PROVE  UNCHANGED <<ticket, links, state, priority>>
  <2>1. ASSUME NEW c, NEW p, SetParent(c, p)
        PROVE  UNCHANGED <<ticket, links, state, priority>>
    BY <2>1 DEF SetParent
  <2>2. ASSUME NEW c, ClearParent(c)
        PROVE  UNCHANGED <<ticket, links, state, priority>>
    BY <2>2 DEF ClearParent
  <2>3. ASSUME NEW c, NEW flag, NEW by, SetArchived(c, flag, by)
        PROVE  UNCHANGED <<ticket, links, state, priority>>
    BY <2>3 DEF SetArchived
  <2>4. ASSUME NEW g, GrantPermissions(g)
        PROVE  UNCHANGED <<ticket, links, state, priority>>
    BY <2>4 DEF GrantPermissions, cards
  <2>5. ASSUME NEW lane, RetireLane(lane)
        PROVE  UNCHANGED <<ticket, links, state, priority>>
    BY <2>5 DEF RetireLane, RetiredLanesFit, cards
  <2>6. ASSUME UNCHANGED vars
        PROVE  UNCHANGED <<ticket, links, state, priority>>
    BY <2>6 DEF vars, cards
  <2>7. QED
    BY <1>9, <2>1, <2>2, <2>3, <2>4, <2>5, <2>6
<1>10. ASSUME \/ \E a \in AddRef : AddLane(a.lane, a.creators, a.connected)
              \/ \E m \in MigrateRef : MigrateLaneId(m[1], m[2])
       PROVE  LinkEndsExist' /\ BlockersKeepUp'
  <2>1. UNCHANGED <<ticket, links>> /\ priority' = Enforced(links', state', priority)
    <3>1. ASSUME NEW lane, NEW creators, NEW connected, AddLane(lane, creators, connected)
          PROVE  UNCHANGED <<ticket, links>> /\ priority' = Enforced(links', state', priority)
      BY <3>1 DEF AddLane
    <3>2. ASSUME NEW source, NEW destination, MigrateLaneId(source, destination)
          PROVE  UNCHANGED <<ticket, links>> /\ priority' = Enforced(links', state', priority)
      BY <3>2 DEF MigrateLaneId
    <3>3. QED
      BY <1>10, <3>1, <3>2
  <2>2. LinkEndsExist'
    BY <2>1 DEF LinkEndsExist, Items
  <2>3. QED
    BY <2>1, <2>2, FloorsByEnforcement DEF TypeOK
<1>11. QED
  BY <1>1, <1>2, <1>3, <1>4, <1>5, <1>6, <1>7, <1>8, <1>9, <1>10
     DEF Next, SetPriority, SetPriorities, ApproveReview, Items

(* Every unfinished card is at least as urgent as each unfinished card it    *)
(* blocks, in every reachable board.                                         *)
THEOREM BlockersAlwaysKeepUp == Spec => []BlockersKeepUp
<1>1. Init => IInv
  BY TypeInit DEF Init, IInv, LinkEndsExist, BlockersKeepUp, UrgentEdges
<1>2. IInv /\ [Next]_vars => IInv'
  BY TypeStep, FloorStep DEF IInv
<1>3. IInv => BlockersKeepUp
  BY DEF IInv
<1>4. QED
  BY <1>1, <1>2, <1>3, PTL DEF Spec

-------------------------------------------------------------------------------
(* No command fills a lane that is retired.                                  *)
LEMMA RetiredStep == TypeOK /\ RetiredLanesAreHidden /\ [Next]_vars => RetiredLanesAreHidden'
<1> SUFFICES ASSUME TypeOK, RetiredLanesAreHidden, [Next]_vars PROVE RetiredLanesAreHidden'
  OBVIOUS
<1> USE DEF RetiredLanesAreHidden, Items, TypeOK
<1>1. ASSUME NEW c \in Card, NEW lane \in Lane, NEW p \in Priority, NEW by \in Actor,
             NEW asked \in RelationRef, Create(c, lane, p, by, asked)
      PROVE  RetiredLanesAreHidden'
  <2>1. /\ state' = [state EXCEPT ![c] = lane] /\ lane \notin retired
        /\ ticket' = [ticket EXCEPT ![c] = nextTicket]
        /\ archived' = archived /\ retired' = retired
    BY <1>1 DEF Create, MayCreate, policy
  <2>2. QED
    BY <2>1
<1>2. ASSUME NEW c \in ArchiveRef, NEW flag \in BOOLEAN, NEW by \in Actor,
             SetArchived(c, flag, by)
      PROVE  RetiredLanesAreHidden'
  BY <1>2 DEF SetArchived, policy
<1>3. ASSUME NEW c \in Items, NEW to \in Lane, NEW by \in Actor, Move(c, to, by)
      PROVE  RetiredLanesAreHidden'
  BY <1>3 DEF Move, MayMove, policy
<1>4. ASSUME NEW lane \in RetireRef, RetireLane(lane)
      PROVE  RetiredLanesAreHidden'
  BY <1>4 DEF RetireLane, RetiredLanesFit, cards
<1>5. ASSUME UNCHANGED <<ticket, state, archived, retired>>
      PROVE  RetiredLanesAreHidden'
  BY <1>5
<1>6. ASSUME NEW a, NEW b, NEW kind, Link(a, kind, b) \/ Unlink(a, kind, b)
      PROVE  UNCHANGED <<ticket, state, archived, retired>>
  BY <1>6 DEF Link, Unlink, policy
<1>7. ASSUME NEW a, NEW b, NEW old, NEW new, ReplaceLink(a, old, new, b)
      PROVE  UNCHANGED <<ticket, state, archived, retired>>
  BY <1>7 DEF ReplaceLink, policy
<1>8. ASSUME NEW targets, ApplyTargets(targets)
      PROVE  UNCHANGED <<ticket, state, archived, retired>>
  BY <1>8 DEF ApplyTargets, policy
<1>9. ASSUME NEW c, NEW p, SetParent(c, p) \/ ClearParent(c)
      PROVE  UNCHANGED <<ticket, state, archived, retired>>
  BY <1>9 DEF SetParent, ClearParent, policy
<1>10. ASSUME NEW c, NEW mentioned, NEW by, Comment(c, mentioned, by)
       PROVE  UNCHANGED <<ticket, state, archived, retired>>
  BY <1>10 DEF Comment, policy
<1>11. ASSUME NEW g, GrantPermissions(g)
       PROVE  UNCHANGED <<ticket, state, archived, retired>>
  BY <1>11 DEF GrantPermissions, cards
<1>12. ASSUME UNCHANGED vars
       PROVE  UNCHANGED <<ticket, state, archived, retired>>
  BY <1>12 DEF vars, cards, policy
<1>13. ASSUME NEW a \in AddRef, AddLane(a.lane, a.creators, a.connected)
       PROVE  UNCHANGED <<ticket, state, archived, retired>>
  BY <1>13 DEF AddLane
<1>14. ASSUME NEW m \in MigrateRef, MigrateLaneId(m[1], m[2])
       PROVE  RetiredLanesAreHidden'
  <2> DEFINE now(lane) == Renamed(lane, m[1], m[2])
  <2>1. /\ m[2] \notin lanes /\ None \notin Lane
        /\ state' = [c \in Card |-> now(state[c])]
        /\ retired' = {now(lane) : lane \in retired}
        /\ UNCHANGED <<ticket, archived>>
    BY <1>14, BoardAssumption DEF PolicyFitsUsers, RulesFit, EdgesFit, MigrateLaneId
  <2>2. \A c \in Items : now(state[c]) \in retired' => state[c] \in retired
    <3>1. ASSUME NEW c \in Items, NEW lane \in retired, now(state[c]) = now(lane)
          PROVE  state[c] = lane
      <4>1. lane \in lanes /\ state[c] \in lanes \cup {None} /\ lane # m[2]
        BY <2>1
      <4>2. m[2] # None
        BY <1>14, BoardAssumption DEF PolicyFitsUsers, RulesFit, EdgesFit, MigrateLaneId
      <4>3. QED
        BY <2>1, <3>1, <4>1, <4>2 DEF Renamed
    <3>2. QED
      BY <2>1, <3>1
  <2>3. QED
    BY <2>1, <2>2
<1>15. QED
  BY <1>1, <1>2, <1>3, <1>4, <1>5, <1>6, <1>7, <1>8, <1>9, <1>10, <1>11, <1>12, <1>13,
     <1>14
     DEF Next, SetPriority, SetPriorities, ApproveReview

(* No order of archiving, moving, retiring and unarchiving leaves a visible  *)
(* card in a retired lane.                                                   *)
THEOREM RetiredLanesStayHidden == Spec => []RetiredLanesAreHidden
<1>1. Init => RetiredLanesAreHidden
  BY DEF Init, RetiredLanesAreHidden
<1>2. QED
  BY <1>1, TypeCorrect, RetiredStep, PTL DEF Spec

-------------------------------------------------------------------------------
(* What was saved loads again: the forest of parents and the links.          *)
USE BoardAssumption DEF RulesFit, EdgesFit, PolicyFitsUsers

(* A component is closed: no edge leaves it.                                 *)
LEMMA DownstreamClosed ==
  ASSUME NEW E, E \subseteq Card \X Card, NEW c
  PROVE  Closed(E, Downstream(E, c))
BY DEF Closed, Downstream

(* It is the least closed set the card is in.                                *)
LEMMA DownstreamLeast ==
  ASSUME NEW E, NEW c, NEW S \in SUBSET Card, c \in S, Closed(E, S)
  PROVE  Downstream(E, c) \subseteq S
BY DEF Downstream

(* No edge leads from a card back to itself, by whatever way.                *)
Loopless(E) == \A e \in E : e[1] \notin Downstream(E, e[2])

(* With fewer edges less is reached: a forest stays one when an edge goes.   *)
LEMMA FewerEdgesNoLoop ==
  ASSUME NEW E, E \subseteq Card \X Card, NEW F, F \subseteq E, Loopless(E)
  PROVE  Loopless(F)
<1> SUFFICES ASSUME NEW e \in F, e[1] \in Downstream(F, e[2]) PROVE FALSE
  BY DEF Loopless
<1>1. Closed(F, Downstream(E, e[2]))
  BY DownstreamClosed DEF Closed
<1>2. e[2] \in Downstream(E, e[2]) /\ Downstream(E, e[2]) \in SUBSET Card
  BY DownstreamSelf DEF Downstream
<1>3. Downstream(F, e[2]) \subseteq Downstream(E, e[2])
  BY <1>1, <1>2, DownstreamLeast
<1> QED BY <1>3 DEF Loopless

(* Board.set_parent looks for a loop on the way up from the changed card     *)
(* alone.  That is enough: a new loop uses the new edge.                     *)
LEMMA OneLookIsEnough ==
  ASSUME NEW E, E \subseteq Card \X Card, NEW F, F \subseteq Card \X Card, NEW c \in Card,
         \A f \in F : f[1] # c => f \in E,
         Loopless(E), ~FallsIntoLoop(F, c)
  PROVE  Loopless(F)
<1> SUFFICES ASSUME NEW e \in F, e[1] \in Downstream(F, e[2]) PROVE FALSE
  BY DEF Loopless
<1>1. e[1] \notin Downstream(F, c)
  BY DEF FallsIntoLoop
<1>2. e[1] # c
  BY <1>1, DownstreamSelf
<1> DEFINE S == Downstream(E, e[2]) \cup Downstream(F, c)
<1>3. S \in SUBSET Card /\ e[2] \in S
  BY DownstreamSelf DEF Downstream
<1>4. Closed(F, S)
  <2> SUFFICES ASSUME NEW f \in F, f[1] \in S PROVE f[2] \in S
    BY DEF Closed
  <2>1. CASE f[1] \in Downstream(F, c)
    BY <2>1, DownstreamClosed DEF Closed
  <2>2. CASE f[1] = c
    BY <2>2, DownstreamClosed, DownstreamSelf DEF Closed
  <2>3. CASE f[1] \in Downstream(E, e[2]) /\ f[1] # c
    BY <2>3, DownstreamClosed DEF Closed
  <2> QED BY <2>1, <2>2, <2>3
<1>5. e[1] \in Downstream(E, e[2])
  BY <1>1, <1>3, <1>4, DownstreamLeast
<1> QED BY <1>2, <1>5 DEF Loopless

(* A card that falls into no loop is one whose chain of parents ends.        *)
LEMMA LooplessCards ==
  ASSUME NEW E, Loopless(E), NEW c
  PROVE  ~FallsIntoLoop(E, c)
BY DEF Loopless, FallsIntoLoop

(* No link joins a card to itself, and no fact is stored twice.              *)
LinksAreSound ==
  \A row \in links : row[1] # row[3] /\ Spellings(row) \cap links = {row}

(* What load checks, on top of the floors: inductive.                        *)
LoadInv == IInv /\ LinksAreSound /\ Loopless(ParentEdges(parent))

(* Rows that state one fact have the same spellings.                         *)
LEMMA SpellingsAgree ==
  ASSUME NEW r \in Card \X StoredKind \X Card, NEW n \in Spellings(r)
  PROVE  n \in Card \X StoredKind \X Card /\ Spellings(n) = Spellings(r)
<1>1. PICK a \in Card, k \in StoredKind, b \in Card : r = <<a, k, b>>
  OBVIOUS
<1>2. CASE n = r
  BY <1>2
<1>3. CASE k = "relates_to" /\ n = <<b, k, a>>
  BY <1>1, <1>3 DEF Spellings
<1> QED BY <1>1, <1>2, <1>3 DEF Spellings

(* A row is one of its own spellings.                                        *)
LEMMA SpelledBySelf == ASSUME NEW r PROVE r \in Spellings(r)
BY DEF Spellings

(* Rows that state facts of their own may be added.                          *)
LEMMA NewFactsAreSound ==
  ASSUME LinksAreSound, NEW old \in SUBSET links, NEW rows,
         links \cup rows \subseteq Card \X StoredKind \X Card,
         \A row \in rows : row[1] # row[3] /\ Spellings(row) \cap (old \cup rows) = {row},
         links' = old \cup rows
  PROVE  LinksAreSound'
<1> SUFFICES ASSUME NEW r \in links' PROVE r[1] # r[3] /\ Spellings(r) \cap links' = {r}
  BY DEF LinksAreSound
<1>1. CASE r \in rows BY <1>1
<1>2. CASE r \in old
  <2>1. r[1] # r[3] /\ Spellings(r) \cap links = {r}
    BY <1>2 DEF LinksAreSound
  <2>2. ASSUME NEW n \in rows, n \in Spellings(r) PROVE n = r
    <3>1. r \in Spellings(n)
      BY <1>2, <2>2, SpellingsAgree, SpelledBySelf
    <3> QED BY <1>2, <3>1
  <2> QED BY <1>2, <2>1, <2>2
<1> QED BY <1>1, <1>2

(* A new card is in no link yet, so what it asks for are facts of their own. *)
LEMMA CreateLinks ==
  ASSUME LoadInv, NEW c \in Card, NEW lane \in Lane, NEW p \in Priority, NEW by \in Actor,
         NEW asked \in RelationRef, Create(c, lane, p, by, asked)
  PROVE  LinksAreSound'
<1> DEFINE rows == {Row(c, r[1], r[2]) : r \in asked}
<1>1. links' = links \cup rows
  BY DEF Create
<1>2. ASSUME NEW r \in asked
      PROVE  /\ Row(c, r[1], r[2]) \in Card \X StoredKind \X Card
             /\ Row(c, r[1], r[2])[1] # Row(c, r[1], r[2])[3]
             /\ c \in {Row(c, r[1], r[2])[1], Row(c, r[1], r[2])[3]}
             /\ Row(c, r[1], r[2])[2] = "relates_to" => Row(c, r[1], r[2])[1] = c
  <2>1. r[1] \in AnyKind /\ r[2] \in Card /\ r[2] # c
    BY DEF Create
  <2> QED BY <2>1 DEF Row, AnyKind, StoredKind, Inverse
<1>3. \A row \in links : c \notin {row[1], row[3]}
  BY DEF Create, LoadInv, IInv, LinkEndsExist
<1>4. ASSUME NEW row \in rows
      PROVE  row[1] # row[3] /\ Spellings(row) \cap (links \cup rows) = {row}
  <2>1. row \in Card \X StoredKind \X Card /\ row[1] # row[3] /\ c \in {row[1], row[3]}
        /\ (row[2] = "relates_to" => row[1] = c)
    BY <1>2
  <2>2. ASSUME NEW n \in Spellings(row) \cap (links \cup rows) PROVE n = row
    <3>1. CASE n \in links
      BY <1>3, <2>1, <3>1 DEF Spellings
    <3>2. CASE n \in rows
      <4>1. n[2] = "relates_to" => n[1] = c
        BY <1>2, <3>2
      <4> QED BY <2>1, <4>1 DEF Spellings
    <3> QED BY <3>1, <3>2
  <2> QED BY <2>1, <2>2, SpelledBySelf
<1>5. links \cup rows \subseteq Card \X StoredKind \X Card
  BY <1>2 DEF LoadInv, IInv, TypeOK
<1> QED BY <1>1, <1>4, <1>5, NewFactsAreSound DEF LoadInv

(* Link and ReplaceLink store a fact that is not there.                      *)
LEMMA OneNewLink ==
  ASSUME LoadInv, NEW a \in Card, NEW b \in Card, a # b, NEW kind \in AnyKind,
         NEW old \in SUBSET links, Found(links, Row(a, kind, b)) = {},
         links' = old \cup {Row(a, kind, b)}
  PROVE  LinksAreSound'
<1> DEFINE row == Row(a, kind, b)
<1>1. row \in Card \X StoredKind \X Card /\ row[1] # row[3]
  BY DEF Row, AnyKind, StoredKind, Inverse
<1>2. Spellings(row) \cap (old \cup {row}) = {row}
  BY SpelledBySelf DEF Found
<1>3. old \cup {row} = links' /\ links \cup {row} \subseteq Card \X StoredKind \X Card
  BY <1>1 DEF LoadInv, IInv, TypeOK
<1>4. LinksAreSound
  BY DEF LoadInv
<1> HIDE DEF row
<1> QED BY <1>1, <1>2, <1>3, <1>4, NewFactsAreSound

(* Mentions are one-way, and those already stored are left out.              *)
LEMMA CommentLinks ==
  ASSUME LoadInv, NEW c \in MentionRef, NEW mentioned \in SUBSET MentionRef, NEW by \in Actor,
         Comment(c, mentioned, by)
  PROVE  LinksAreSound'
<1> DEFINE rows == {Row(c, "references", m) : m \in (mentioned \cap Items) \ {c}} \ links
<1>1. links' = links \cup rows
  BY DEF Comment
<1>2. \A row \in rows :
        row \in Card \X StoredKind \X Card /\ row[1] # row[3] /\ row[2] = "references"
  BY DEF Comment, Items, Row, StoredKind
<1>3. \A row \in rows : Spellings(row) = {row}
  BY <1>2 DEF Spellings
<1>4. links \cup rows \subseteq Card \X StoredKind \X Card /\ LinksAreSound
  BY <1>2 DEF LoadInv, IInv, TypeOK
<1>5. \A row \in rows : row[1] # row[3] /\ Spellings(row) \cap (links \cup rows) = {row}
  BY <1>2, <1>3
<1> HIDE DEF rows
<1> QED BY <1>1, <1>4, <1>5, NewFactsAreSound

(* Forests of parents: a card is given a parent only after one look for a    *)
(* loop.                                                                     *)
LEMMA ParentStep ==
  ASSUME LoadInv, NEW c \in ParentRef, SetParent(c, parent'[c]) \/ ClearParent(c)
  PROVE  Loopless(ParentEdges(parent'))
<1>1. parent \in [Card -> Card \cup {None}] /\ c \in Card
  BY DEF LoadInv, IInv, TypeOK
<1>2. Loopless(ParentEdges(parent))
  BY DEF LoadInv
<1>3. ParentEdges(parent) \subseteq Card \X Card /\ ParentEdges(parent') \subseteq Card \X Card
  BY DEF ParentEdges
<1>4. CASE ClearParent(c)
  <2>1. ParentEdges(parent') \subseteq ParentEdges(parent)
    BY <1>1, <1>4 DEF ClearParent, ParentEdges
  <2> QED BY <1>2, <1>3, <2>1, FewerEdgesNoLoop
<1>5. CASE SetParent(c, parent'[c])
  <2>1. parent' = [parent EXCEPT ![c] = parent'[c]]
    BY <1>5 DEF SetParent
  <2>2. ~FallsIntoLoop(ParentEdges(parent'), c)
    BY <1>5, <2>1 DEF SetParent
  <2>3. \A f \in ParentEdges(parent') : f[1] # c => f \in ParentEdges(parent)
    BY <1>1, <2>1 DEF ParentEdges
  <2> QED BY <1>1, <1>2, <1>3, <2>2, <2>3, OneLookIsEnough
<1> QED BY <1>4, <1>5

(* Each command keeps the links and the forest; Next has one case each.      *)
LEMMA LoadStep ==
  LoadInv /\ [Next]_vars => (LinksAreSound /\ Loopless(ParentEdges(parent)))'
<1> SUFFICES ASSUME LoadInv, [Next]_vars
             PROVE  LinksAreSound' /\ Loopless(ParentEdges(parent'))
  BY DEF Loopless, ParentEdges, Downstream, Closed
<1>1. LinksAreSound /\ Loopless(ParentEdges(parent)) /\ TypeOK
  BY DEF LoadInv, IInv
<1>2. ASSUME LinksAreSound', parent' = parent
      PROVE  LinksAreSound' /\ Loopless(ParentEdges(parent'))
  BY <1>1, <1>2
<1>3. ASSUME links' = links PROVE LinksAreSound'
  BY <1>1, <1>3 DEF LinksAreSound
<1>4. ASSUME links' = links, parent' = parent
      PROVE  LinksAreSound' /\ Loopless(ParentEdges(parent'))
  BY <1>2, <1>3, <1>4
<1>5. ASSUME NEW c \in Card, NEW lane \in Lane, NEW p \in Priority, NEW by \in Actor,
             NEW asked \in RelationRef, Create(c, lane, p, by, asked)
      PROVE  LinksAreSound' /\ Loopless(ParentEdges(parent'))
  BY <1>2, <1>5, CreateLinks DEF Create
<1>6. ASSUME NEW a \in Items, NEW b \in Items, NEW kind \in KindRef, Link(a, kind, b)
      PROVE  LinksAreSound' /\ Loopless(ParentEdges(parent'))
  BY <1>2, <1>6, OneNewLink DEF Link, Items
<1>7. ASSUME NEW a \in Items, NEW b \in Items, NEW kind \in KindRef, Unlink(a, kind, b)
      PROVE  LinksAreSound' /\ Loopless(ParentEdges(parent'))
  <2>1. links' \subseteq links /\ parent' = parent
    BY <1>7 DEF Unlink
  <2>2. LinksAreSound'
    BY <1>1, <2>1, SpelledBySelf DEF LinksAreSound
  <2> QED BY <1>2, <2>1, <2>2
<1>8. ASSUME NEW a \in Items, NEW b \in Items, NEW old \in KindRef, NEW new \in KindRef,
             ReplaceLink(a, old, new, b)
      PROVE  LinksAreSound' /\ Loopless(ParentEdges(parent'))
  <2> DEFINE left == links \ Found(links, Row(a, old, b))
  <2>1. /\ Found(links, Row(a, new, b)) = {} /\ a # b /\ parent' = parent
        /\ links' = left \cup {Row(a, new, b)}
    BY <1>8 DEF ReplaceLink
  <2>2. a \in Card /\ b \in Card /\ new \in AnyKind /\ left \in SUBSET links
    BY DEF Items
  <2> HIDE DEF left
  <2>3. LinksAreSound'
    BY <2>1, <2>2, OneNewLink
  <2> QED BY <1>2, <2>1, <2>3
<1>9. ASSUME NEW c \in MentionRef, NEW mentioned \in SUBSET MentionRef, NEW by \in Actor,
             Comment(c, mentioned, by)
      PROVE  LinksAreSound' /\ Loopless(ParentEdges(parent'))
  BY <1>2, <1>9, CommentLinks DEF Comment
<1>10. ASSUME NEW c \in ParentRef, NEW p \in ParentRef, SetParent(c, p)
       PROVE  LinksAreSound' /\ Loopless(ParentEdges(parent'))
  <2>1. links' = links /\ parent'[c] = p
    BY <1>1, <1>10 DEF SetParent, TypeOK
  <2> QED BY <1>3, <1>10, <2>1, ParentStep
<1>11. ASSUME NEW c \in ParentRef, ClearParent(c)
       PROVE  LinksAreSound' /\ Loopless(ParentEdges(parent'))
  BY <1>3, <1>11, ParentStep DEF ClearParent
<1>12. ASSUME NEW targets, ApplyTargets(targets)
       PROVE  links' = links /\ parent' = parent
  BY <1>12 DEF ApplyTargets
<1>13. ASSUME NEW c, NEW flag, NEW by, SetArchived(c, flag, by)
       PROVE  links' = links /\ parent' = parent
  BY <1>13 DEF SetArchived
<1>14. ASSUME NEW c, NEW to, NEW by, Move(c, to, by)
       PROVE  links' = links /\ parent' = parent
  BY <1>14 DEF Move
<1>15. ASSUME NEW g, GrantPermissions(g) PROVE links' = links /\ parent' = parent
  BY <1>15 DEF GrantPermissions, cards
<1>16. ASSUME NEW lane, RetireLane(lane) PROVE links' = links /\ parent' = parent
  BY <1>16 DEF RetireLane, cards
<1>17. ASSUME NEW lane, NEW creators, NEW connected, AddLane(lane, creators, connected)
       PROVE  links' = links /\ parent' = parent
  BY <1>17 DEF AddLane
<1>18. ASSUME NEW source, NEW destination, MigrateLaneId(source, destination)
       PROVE  links' = links /\ parent' = parent
  BY <1>18 DEF MigrateLaneId
<1>19. ASSUME UNCHANGED vars PROVE links' = links /\ parent' = parent
  BY <1>19 DEF vars, cards
<1> QED
  BY <1>4, <1>5, <1>6, <1>7, <1>8, <1>9, <1>10, <1>11, <1>12, <1>13, <1>14, <1>15, <1>16,
     <1>17, <1>18, <1>19 DEF Next, SetPriority, SetPriorities, ApproveReview

(* The empty board loads.                                                    *)
LEMMA InitLoads == Init => LoadInv
<1>1. Init => LinksAreSound /\ Loopless(ParentEdges(parent))
  BY DEF Init, LinksAreSound, Loopless, ParentEdges
<1> QED
  BY <1>1, TypeInit DEF Init, LoadInv, IInv, LinkEndsExist, BlockersKeepUp, UrgentEdges

(* LoadInv is inductive.                                                     *)
LEMMA LoadInvStep == LoadInv /\ [Next]_vars => LoadInv'
BY TypeStep, FloorStep, LoadStep DEF LoadInv, IInv

(* _links_from_json and _check_parents accept every board the commands can   *)
(* make: what is saved can be loaded again.                                  *)
THEOREM BoardsLoadAgain == Spec => []LoadsAgain
<1>1. LoadInv => LoadsAgain
  BY LooplessCards DEF LoadInv, IInv, LinkEndsExist, LinksAreSound, LoadsAgain
<1> QED BY <1>1, InitLoads, LoadInvStep, PTL DEF Spec

-------------------------------------------------------------------------------
(* Histories: what each entry does to a replay that has no break so far.     *)

(* One entry of a function changed.                                          *)
With(f, c, v) == [f EXCEPT ![c] = v]

(* What histories without a break replay to.                                 *)
Unbroken(lane, prio, par, arch, facts, created, moved) ==
  [lane |-> lane, priority |-> prio, parent |-> par, archived |-> arch, facts |-> facts,
   created |-> created, moved |-> moved, broken |-> FALSE]

(* The fields of a replay.                                                   *)
TrailField == {"lane", "priority", "parent", "archived", "facts", "created", "moved", "broken"}

(* A record with these fields is known by them.                              *)
LEMMA TrailIsItsFields ==
  ASSUME NEW t, t = [f \in TrailField |-> t[f]], t.broken = FALSE
  PROVE  t = Unbroken(t.lane, t.priority, t.parent, t.archived, t.facts, t.created, t.moved)
BY DEF Unbroken, TrailField

(* Entries for all cards whose priority changes bring the replay up to date. *)
LEMMA PriorityReplay ==
  ASSUME NEW lane, NEW old \in [Card -> Priority], NEW new \in [Card -> Priority],
         NEW par, NEW arch, NEW facts, NEW created, NEW moved
  PROVE  PriorityEntries(Unbroken(lane, old, par, arch, facts, created, moved), old, new) =
           Unbroken(lane, new, par, arch, facts, created, moved)
<1> DEFINE t == Unbroken(lane, old, par, arch, facts, created, moved)
           pr == [c \in Card |-> IF old[c] = new[c] THEN t.priority[c] ELSE new[c]]
           br == (t.broken \/ \E c \in Card : old[c] # new[c] /\ t.priority[c] # old[c])
           u == [t EXCEPT !.priority = pr, !.broken = br]
<1>1. PriorityEntries(t, old, new) = u
  BY DEF PriorityEntries
<1>2. pr = new BY DEF Unbroken
<1>3. br = FALSE BY DEF Unbroken
<1> HIDE DEF pr, br
<1>4. /\ DOMAIN u = TrailField /\ u.lane = lane /\ u.priority = pr /\ u.parent = par
      /\ u.archived = arch /\ u.facts = facts /\ u.created = created /\ u.moved = moved
      /\ u.broken = br /\ u = [f \in DOMAIN u |-> u[f]]
  BY DEF Unbroken, TrailField
<1> HIDE DEF u
<1>5. u = Unbroken(u.lane, u.priority, u.parent, u.archived, u.facts, u.created, u.moved)
  BY <1>3, <1>4, TrailIsItsFields
<1> QED BY <1>1, <1>2, <1>4, <1>5

(* The entry of a card that has no lane yet, and of one that has.            *)
LEMMA CreationReplay ==
  ASSUME NEW lane, NEW prio, NEW par, NEW arch, NEW facts, NEW created, NEW moved,
         NEW c, NEW by, NEW to, lane[c] = None
  PROVE  LaneEntry(Unbroken(lane, prio, par, arch, facts, created, moved), c, by, None, to) =
           Unbroken(With(lane, c, to), prio, par, arch, facts, created \cup {<<by, to>>}, moved)
<1> DEFINE t == Unbroken(lane, prio, par, arch, facts, created, moved)
           br == (t.broken \/ t.lane[c] # None)
           u == LaneEntry(t, c, by, None, to)
<1>1. u.lane = With(lane, c, to)
  BY DEF With, Unbroken, LaneEntry
<1>2. u.created = created \cup {<<by, to>>}
  BY DEF Unbroken, LaneEntry
<1>3. u.moved = moved
  BY DEF Unbroken, LaneEntry
<1>4. u.broken = br /\ br = FALSE
  BY DEF Unbroken, LaneEntry
<1>5. /\ DOMAIN u = TrailField /\ u.priority = prio /\ u.parent = par
      /\ u.archived = arch /\ u.facts = facts /\ u = [f \in DOMAIN u |-> u[f]]
  BY DEF Unbroken, TrailField, LaneEntry
<1>6. LaneEntry(t, c, by, None, to) = u
  OBVIOUS
<1> HIDE DEF u
<1>7. u = Unbroken(u.lane, u.priority, u.parent, u.archived, u.facts, u.created, u.moved)
  BY <1>4, <1>5, TrailIsItsFields
<1> QED BY <1>1, <1>2, <1>3, <1>5, <1>6, <1>7

(* The entry that leaves the parent the card has.                            *)
LEMMA ParentReplay ==
  ASSUME NEW lane, NEW prio, NEW par, NEW arch, NEW facts, NEW created, NEW moved,
         NEW c, NEW to
  PROVE  ParentEntry(Unbroken(lane, prio, par, arch, facts, created, moved), c, par[c], to) =
           Unbroken(lane, prio, With(par, c, to), arch, facts, created, moved)
<1> DEFINE t == Unbroken(lane, prio, par, arch, facts, created, moved)
           br == (t.broken \/ t.parent[c] # par[c])
           u == ParentEntry(t, c, par[c], to)
<1>1. u.parent = With(par, c, to)
  BY DEF With, Unbroken, ParentEntry
<1>2. u.broken = br /\ br = FALSE
  BY DEF Unbroken, ParentEntry
<1>3. /\ DOMAIN u = TrailField /\ u.lane = lane /\ u.priority = prio /\ u.archived = arch
      /\ u.facts = facts /\ u.created = created /\ u.moved = moved
      /\ u = [f \in DOMAIN u |-> u[f]]
  BY DEF Unbroken, TrailField, ParentEntry
<1>8. ParentEntry(t, c, par[c], to) = u
  OBVIOUS
<1> HIDE DEF u
<1>4. u = Unbroken(u.lane, u.priority, u.parent, u.archived, u.facts, u.created, u.moved)
  BY <1>2, <1>3, TrailIsItsFields
<1> QED BY <1>1, <1>3, <1>4, <1>8

(* The entry that turns the flag over.                                       *)
LEMMA ArchiveReplay ==
  ASSUME NEW lane, NEW prio, NEW par, NEW arch, NEW facts, NEW created, NEW moved,
         NEW c, NEW flag, arch[c] # flag
  PROVE  ArchiveEntry(Unbroken(lane, prio, par, arch, facts, created, moved), c, flag) =
           Unbroken(lane, prio, par, With(arch, c, flag), facts, created, moved)
<1> DEFINE t == Unbroken(lane, prio, par, arch, facts, created, moved)
           br == (t.broken \/ t.archived[c] = flag)
           u == ArchiveEntry(t, c, flag)
<1>1. u.archived = With(arch, c, flag)
  BY DEF With, Unbroken, ArchiveEntry
<1>2. u.broken = br /\ br = FALSE
  BY DEF Unbroken, ArchiveEntry
<1>3. /\ DOMAIN u = TrailField /\ u.lane = lane /\ u.priority = prio /\ u.parent = par
      /\ u.facts = facts /\ u.created = created /\ u.moved = moved
      /\ u = [f \in DOMAIN u |-> u[f]]
  BY DEF Unbroken, TrailField, ArchiveEntry
<1>8. ArchiveEntry(t, c, flag) = u
  OBVIOUS
<1> HIDE DEF u
<1>4. u = Unbroken(u.lane, u.priority, u.parent, u.archived, u.facts, u.created, u.moved)
  BY <1>2, <1>3, TrailIsItsFields
<1> QED BY <1>1, <1>3, <1>4, <1>8

(* Every fact the links state, in all its spellings.                         *)
Facts(ls) == UNION {Spellings(row) : row \in ls}

(* Facts are remembered in every spelling.                                   *)
LEMMA LinkReplay ==
  ASSUME NEW lane, NEW prio, NEW par, NEW arch, NEW ls, NEW created, NEW moved, NEW rows
  PROVE  Linked(Unbroken(lane, prio, par, arch, Facts(ls), created, moved), rows) =
           Unbroken(lane, prio, par, arch, Facts(ls \cup rows), created, moved)
<1>1. Facts(ls \cup rows) = Facts(ls) \cup UNION {Spellings(r) : r \in rows}
  BY DEF Facts
<1> DEFINE t == Unbroken(lane, prio, par, arch, Facts(ls), created, moved)
           u == Linked(t, rows)
<1>2. u.facts = Facts(ls \cup rows)
  BY <1>1 DEF Linked, Unbroken
<1>3. /\ DOMAIN u = TrailField /\ u.lane = lane /\ u.priority = prio /\ u.parent = par
      /\ u.archived = arch /\ u.created = created /\ u.moved = moved /\ u.broken = FALSE
      /\ u = [f \in DOMAIN u |-> u[f]]
  BY DEF Unbroken, TrailField, Linked
<1>4. Linked(t, rows) = u
  OBVIOUS
<1> HIDE DEF u
<1>5. u = Unbroken(u.lane, u.priority, u.parent, u.archived, u.facts, u.created, u.moved)
  BY <1>3, TrailIsItsFields
<1> QED BY <1>2, <1>3, <1>4, <1>5

(* A fact is forgotten in every spelling that is stored.                     *)
LEMMA UnlinkReplay ==
  ASSUME NEW lane, NEW prio, NEW par, NEW arch, NEW created, NEW moved,
         NEW ls \in SUBSET (Card \X StoredKind \X Card),
         NEW row \in Card \X StoredKind \X Card, Found(ls, row) # {}
  PROVE  Unlinked(Unbroken(lane, prio, par, arch, Facts(ls), created, moved), row) =
           Unbroken(lane, prio, par, arch, Facts(ls \ Found(ls, row)), created, moved)
<1>1. ASSUME NEW r \in Found(ls, row) PROVE Spellings(r) = Spellings(row)
  BY <1>1, SpellingsAgree DEF Found
<1>2. ASSUME NEW r \in ls \ Found(ls, row), NEW n \in Spellings(r) PROVE n \notin Spellings(row)
  <2> SUFFICES ASSUME n \in Spellings(row) PROVE FALSE
    OBVIOUS
  <2>1. Spellings(r) = Spellings(row)
    BY SpellingsAgree
  <2> QED BY <2>1, SpelledBySelf DEF Found
<1>3. Facts(ls \ Found(ls, row)) = Facts(ls) \ Spellings(row)
  BY <1>1, <1>2 DEF Facts, Found
<1> DEFINE t == Unbroken(lane, prio, par, arch, Facts(ls), created, moved)
           u == Unlinked(t, row)
<1>4. u.facts = Facts(ls \ Found(ls, row))
  BY <1>3 DEF Unlinked, Unbroken
<1>5. /\ DOMAIN u = TrailField /\ u.lane = lane /\ u.priority = prio /\ u.parent = par
      /\ u.archived = arch /\ u.created = created /\ u.moved = moved /\ u.broken = FALSE
      /\ u = [f \in DOMAIN u |-> u[f]]
  BY DEF Unbroken, TrailField, Unlinked
<1>6. Unlinked(t, row) = u
  OBVIOUS
<1> HIDE DEF u
<1>7. u = Unbroken(u.lane, u.priority, u.parent, u.archived, u.facts, u.created, u.moved)
  BY <1>5, TrailIsItsFields
<1> QED BY <1>4, <1>5, <1>6, <1>7

(* A card starts with a priority of its own, which no entry names.           *)
Started(t, c, p) == [t EXCEPT !.priority[c] = p]

(* Its first priority is where the entries of a card start.                  *)
LEMMA FirstPriority ==
  ASSUME NEW lane, NEW prio, NEW par, NEW arch, NEW facts, NEW created, NEW moved,
         NEW c, NEW p
  PROVE  Started(Unbroken(lane, prio, par, arch, facts, created, moved), c, p) =
           Unbroken(lane, With(prio, c, p), par, arch, facts, created, moved)
<1> DEFINE t == Unbroken(lane, prio, par, arch, facts, created, moved)
           u == Started(t, c, p)
<1>1. u.priority = With(prio, c, p)
  BY DEF Unbroken, Started, With
<1>2. /\ DOMAIN u = TrailField /\ u.lane = lane /\ u.facts = facts /\ u.parent = par
      /\ u.archived = arch /\ u.created = created /\ u.moved = moved /\ u.broken = FALSE
      /\ u = [f \in DOMAIN u |-> u[f]]
  BY DEF Unbroken, TrailField, Started
<1>3. Started(t, c, p) = u
  OBVIOUS
<1> HIDE DEF u
<1>4. u = Unbroken(u.lane, u.priority, u.parent, u.archived, u.facts, u.created, u.moved)
  BY <1>2, TrailIsItsFields
<1> QED BY <1>1, <1>2, <1>3, <1>4

(* Another id for a lane, in every entry.                                    *)
LEMMA RenamedReplay ==
  ASSUME NEW lane, NEW prio, NEW par, NEW arch, NEW facts, NEW created, NEW moved,
         NEW source, NEW destination
  PROVE  RewrittenTrail(Unbroken(lane, prio, par, arch, facts, created, moved),
                        source, destination) =
           Unbroken([c \in Card |-> Renamed(lane[c], source, destination)], prio, par, arch, facts,
                    {<<e[1], Renamed(e[2], source, destination)>> : e \in created},
                    {<<e[1], Renamed(e[2], source, destination),
                       Renamed(e[3], source, destination)>> : e \in moved})
<1> DEFINE t == Unbroken(lane, prio, par, arch, facts, created, moved)
           u == RewrittenTrail(t, source, destination)
<1>1. u.lane = [c \in Card |-> Renamed(lane[c], source, destination)]
  BY DEF Unbroken, RewrittenTrail
<1>2. u.created = {<<e[1], Renamed(e[2], source, destination)>> : e \in created}
  BY DEF Unbroken, RewrittenTrail
<1>3. u.moved = {<<e[1], Renamed(e[2], source, destination),
                   Renamed(e[3], source, destination)>> : e \in moved}
  BY DEF Unbroken, RewrittenTrail
<1>4. /\ DOMAIN u = TrailField /\ u.priority = prio /\ u.parent = par /\ u.archived = arch
      /\ u.facts = facts /\ u = [f \in DOMAIN u |-> u[f]]
  BY DEF Unbroken, TrailField, RewrittenTrail
<1>5. u.broken = FALSE
  BY DEF Unbroken, TrailField, RewrittenTrail
<1>6. RewrittenTrail(t, source, destination) = u
  OBVIOUS
<1> HIDE DEF u
<1>7. u = Unbroken(u.lane, u.priority, u.parent, u.archived, u.facts, u.created, u.moved)
  BY <1>4, <1>5, TrailIsItsFields
<1> QED BY <1>1, <1>2, <1>3, <1>4, <1>6, <1>7

(* The histories of the stored board, and those alone, replay to it.         *)
TrailReplays ==
  trail = Unbroken(state, priority, parent, archived, Facts(links), trail.created, trail.moved)

(* The policy as it is now grants every creation and every move there was.   *)
TrailIsGranted == trail.created \subseteq mayCreate /\ trail.moved \subseteq mayMove

(* A card has a lane from its creation on.                                   *)
LanesAreGiven == \A c \in Card : c \in Items <=> state[c] # None

(* What the histories need, on top of LoadInv: inductive.                    *)
HistoryInv == LoadInv /\ TrailReplays /\ TrailIsGranted /\ LanesAreGiven

(* A step that leaves such a trail keeps the histories verifiable.           *)
LEMMA TrailKept ==
  ASSUME NEW created, NEW moved, created \subseteq mayCreate', moved \subseteq mayMove',
         trail' = Unbroken(state', priority', parent', archived', Facts(links'), created, moved)
  PROVE  TrailReplays' /\ TrailIsGranted'
<1>1. trail'.created = created /\ trail'.moved = moved
  BY DEF Unbroken
<1> QED BY <1>1 DEF TrailReplays, TrailIsGranted, Facts

(* The parts of HistoryInv the lemmas below start from.                      *)
LEMMA HistoryParts ==
  ASSUME HistoryInv
  PROVE  /\ TypeOK /\ LanesAreGiven
         /\ trail = Unbroken(state, priority, parent, archived, Facts(links),
                             trail.created, trail.moved)
         /\ trail.created \subseteq mayCreate /\ trail.moved \subseteq mayMove
BY DEF HistoryInv, LoadInv, IInv, TrailReplays, TrailIsGranted

(* Create writes the lane, the links and the priorities that follow.         *)
LEMMA CreateHistory ==
  ASSUME HistoryInv, TypeOK', NEW c \in Card, NEW lane \in Lane, NEW p \in Priority,
         NEW by \in Actor, NEW asked \in RelationRef, Create(c, lane, p, by, asked)
  PROVE  TrailReplays' /\ TrailIsGranted'
<1> DEFINE rows == {Row(c, r[1], r[2]) : r \in asked}
           prio == With(priority, c, p)
           t == Started(trail, c, p)
           created == trail.created
           moved == trail.moved
           made == created \cup {<<by, lane>>}
<1>1. /\ state' = With(state, c, lane) /\ links' = links \cup rows
      /\ trail' = PriorityEntries(Linked(LaneEntry(t, c, by, None, lane), rows), prio, priority')
      /\ UNCHANGED <<archived, parent, policy>> /\ <<by, lane>> \in mayCreate
      /\ state[c] = None
  BY DEF Create, MayCreate, HistoryInv, LanesAreGiven, With, Started
<1>2. prio \in [Card -> Priority] /\ priority' \in [Card -> Priority]
  BY HistoryParts DEF TypeOK, With
<1>3. trail = Unbroken(state, priority, parent, archived, Facts(links), created, moved)
  BY HistoryParts
<1>4. made \subseteq mayCreate' /\ moved \subseteq mayMove'
  BY <1>1, HistoryParts DEF policy
<1> HIDE DEF created, moved
<1>5. t = Unbroken(state, prio, parent, archived, Facts(links), created, moved)
  BY <1>3, FirstPriority
<1> HIDE DEF prio, t, rows
<1>6. LaneEntry(t, c, by, None, lane) =
        Unbroken(state', prio, parent, archived, Facts(links), made, moved)
  BY <1>1, <1>5, CreationReplay
<1>7. Linked(LaneEntry(t, c, by, None, lane), rows) =
        Unbroken(state', prio, parent, archived, Facts(links'), made, moved)
  BY <1>1, <1>6, LinkReplay
<1>8. trail' = Unbroken(state', priority', parent, archived, Facts(links'), made, moved)
  BY <1>1, <1>2, <1>7, PriorityReplay
<1> HIDE DEF made
<1> QED BY <1>1, <1>4, <1>8, TrailKept

-------------------------------------------------------------------------------
(* Histories: one lemma per command.                                         *)

(* ApplyTargets writes one entry for each priority that changed.             *)
LEMMA TargetsHistory ==
  ASSUME HistoryInv, TypeOK', NEW targets, ApplyTargets(targets)
  PROVE  TrailReplays' /\ TrailIsGranted'
<1> DEFINE created == trail.created
           moved == trail.moved
<1>1. /\ trail = Unbroken(state, priority, parent, archived, Facts(links), created, moved)
      /\ created \subseteq mayCreate' /\ moved \subseteq mayMove'
  BY HistoryParts DEF ApplyTargets, policy
<1> HIDE DEF created, moved
<1>2. /\ priority \in [Card -> Priority] /\ priority' \in [Card -> Priority]
      /\ trail' = PriorityEntries(trail, priority, priority')
      /\ UNCHANGED <<state, parent, archived, links>>
  BY HistoryParts DEF TypeOK, ApplyTargets
<1>3. trail' = Unbroken(state', priority', parent', archived', Facts(links'), created, moved)
  BY <1>1, <1>2, PriorityReplay
<1> QED BY <1>1, <1>3, TrailKept

(* Link, and what Create and Comment add.                                    *)
LEMMA LinkHistory ==
  ASSUME HistoryInv, TypeOK', NEW rows, links' = links \cup rows,
         trail' = PriorityEntries(Linked(trail, rows), priority, priority'),
         UNCHANGED <<state, parent, archived, mayCreate, mayMove>>
  PROVE  TrailReplays' /\ TrailIsGranted'
<1> DEFINE created == trail.created
           moved == trail.moved
<1>1. /\ trail = Unbroken(state, priority, parent, archived, Facts(links), created, moved)
      /\ created \subseteq mayCreate' /\ moved \subseteq mayMove'
  BY HistoryParts
<1> HIDE DEF created, moved
<1>2. priority \in [Card -> Priority] /\ priority' \in [Card -> Priority]
  BY HistoryParts DEF TypeOK
<1>3. Linked(trail, rows) =
        Unbroken(state, priority, parent, archived, Facts(links'), created, moved)
  BY <1>1, LinkReplay
<1>4. trail' = Unbroken(state', priority', parent', archived', Facts(links'), created, moved)
  BY <1>2, <1>3, PriorityReplay
<1> QED BY <1>1, <1>4, TrailKept

(* Comment adds its mentions.                                                *)
LEMMA CommentHistory ==
  ASSUME HistoryInv, NEW rows, links' = links \cup rows, trail' = Linked(trail, rows),
         UNCHANGED <<state, priority, parent, archived, mayCreate, mayMove>>
  PROVE  TrailReplays' /\ TrailIsGranted'
<1> DEFINE created == trail.created
           moved == trail.moved
<1>1. /\ trail = Unbroken(state, priority, parent, archived, Facts(links), created, moved)
      /\ created \subseteq mayCreate' /\ moved \subseteq mayMove'
  BY HistoryParts
<1> HIDE DEF created, moved
<1>2. trail' = Unbroken(state', priority', parent', archived', Facts(links'), created, moved)
  BY <1>1, LinkReplay
<1> QED BY <1>1, <1>2, TrailKept

(* Unlink forgets the fact, however it is spelled.                           *)
LEMMA UnlinkHistory ==
  ASSUME HistoryInv, NEW a \in Items, NEW b \in Items, NEW kind \in KindRef, Unlink(a, kind, b)
  PROVE  TrailReplays' /\ TrailIsGranted'
<1> DEFINE created == trail.created
           moved == trail.moved
           row == Row(a, kind, b)
<1>1. /\ trail = Unbroken(state, priority, parent, archived, Facts(links), created, moved)
      /\ created \subseteq mayCreate' /\ moved \subseteq mayMove'
  BY HistoryParts DEF Unlink, policy
<1>2. /\ Found(links, row) # {} /\ links' = links \ Found(links, row)
      /\ trail' = Unlinked(trail, row) /\ UNCHANGED <<state, priority, parent, archived>>
  BY DEF Unlink
<1>3. row \in Card \X StoredKind \X Card /\ links \in SUBSET (Card \X StoredKind \X Card)
  BY RowType, HistoryParts DEF TypeOK, Items
<1> HIDE DEF created, moved, row
<1>4. Unlinked(trail, row) =
        Unbroken(state, priority, parent, archived, Facts(links \ Found(links, row)),
                 created, moved)
  BY <1>1, <1>2, <1>3, UnlinkReplay
<1>5. trail' = Unbroken(state', priority', parent', archived', Facts(links'), created, moved)
  BY <1>2, <1>4
<1> QED BY <1>1, <1>5, TrailKept

(* ReplaceLink forgets one fact, then states another.                        *)
LEMMA ReplaceHistory ==
  ASSUME HistoryInv, TypeOK', NEW a \in Items, NEW b \in Items, NEW old \in KindRef,
         NEW new \in KindRef, ReplaceLink(a, old, new, b)
  PROVE  TrailReplays' /\ TrailIsGranted'
<1> DEFINE created == trail.created
           moved == trail.moved
           was == Row(a, old, b)
           row == Row(a, new, b)
           left == links \ Found(links, was)
<1>1. /\ trail = Unbroken(state, priority, parent, archived, Facts(links), created, moved)
      /\ created \subseteq mayCreate' /\ moved \subseteq mayMove'
  BY HistoryParts DEF ReplaceLink, policy
<1>2. /\ Found(links, was) # {} /\ links' = left \cup {row}
      /\ trail' = PriorityEntries(Linked(Unlinked(trail, was), {row}), priority, priority')
      /\ UNCHANGED <<state, parent, archived>>
  BY DEF ReplaceLink
<1>3. was \in Card \X StoredKind \X Card /\ links \in SUBSET (Card \X StoredKind \X Card)
  BY RowType, HistoryParts DEF TypeOK, Items
<1>4. priority \in [Card -> Priority] /\ priority' \in [Card -> Priority]
  BY HistoryParts DEF TypeOK
<1> HIDE DEF created, moved, row, was
<1>5. Unlinked(trail, was) =
        Unbroken(state, priority, parent, archived, Facts(left), created, moved)
  BY <1>1, <1>2, <1>3, UnlinkReplay
<1> HIDE DEF left
<1>6. Linked(Unlinked(trail, was), {row}) =
        Unbroken(state, priority, parent, archived, Facts(links'), created, moved)
  BY <1>2, <1>5, LinkReplay
<1>7. trail' = Unbroken(state', priority', parent', archived', Facts(links'), created, moved)
  BY <1>2, <1>4, <1>6, PriorityReplay
<1> QED BY <1>1, <1>7, TrailKept

(* Move goes from the lane the card is in, along a granted transition.       *)
LEMMA MoveHistory ==
  ASSUME HistoryInv, TypeOK', NEW c \in Items, NEW to \in Lane, NEW by \in Actor, Move(c, to, by)
  PROVE  TrailReplays' /\ TrailIsGranted'
<1> DEFINE created == trail.created
           moved == trail.moved
           done == moved \cup {<<by, state[c], to>>}
<1>1. /\ state' = With(state, c, to) /\ <<by, state[c], to>> \in mayMove /\ state[c] # None
      /\ trail' = PriorityEntries(LaneEntry(trail, c, by, state[c], to), priority, priority')
      /\ UNCHANGED <<parent, archived, links, policy>>
  BY HistoryParts DEF Move, MayMove, With, LanesAreGiven, Items
<1>2. /\ trail = Unbroken(state, priority, parent, archived, Facts(links), created, moved)
      /\ created \subseteq mayCreate' /\ done \subseteq mayMove'
  BY <1>1, HistoryParts DEF policy
<1>3. priority \in [Card -> Priority] /\ priority' \in [Card -> Priority]
  BY HistoryParts DEF TypeOK
<1> HIDE DEF created, moved
<1>4. LaneEntry(trail, c, by, state[c], to) =
        Unbroken(state', priority, parent, archived, Facts(links), created, done)
  <2> DEFINE t == Unbroken(state, priority, parent, archived, Facts(links), created, moved)
             br == (t.broken \/ t.lane[c] # state[c])
             u == LaneEntry(t, c, by, state[c], to)
  <2>1. u.lane = With(state, c, to)
    BY DEF With, Unbroken, LaneEntry
  <2>2. u.created = created /\ u.moved = done
    BY <1>1 DEF Unbroken, LaneEntry
  <2>3. u.broken = br /\ br = FALSE
    BY DEF Unbroken, LaneEntry
  <2>4. /\ DOMAIN u = TrailField /\ u.priority = priority /\ u.parent = parent
        /\ u.archived = archived /\ u.facts = Facts(links) /\ u = [f \in DOMAIN u |-> u[f]]
    BY DEF Unbroken, TrailField, LaneEntry
  <2>5. LaneEntry(trail, c, by, state[c], to) = u
    BY <1>2
  <2> HIDE DEF u
  <2>6. u = Unbroken(u.lane, u.priority, u.parent, u.archived, u.facts, u.created, u.moved)
    BY <2>3, <2>4, TrailIsItsFields
  <2> QED BY <1>1, <2>1, <2>2, <2>4, <2>5, <2>6
<1> HIDE DEF done
<1>5. trail' = Unbroken(state', priority', parent', archived', Facts(links'), created, done)
  BY <1>1, <1>3, <1>4, PriorityReplay
<1> QED BY <1>2, <1>5, TrailKept

(* SetParent and ClearParent.                                                *)
LEMMA ParentHistory ==
  ASSUME HistoryInv, NEW c, NEW to, parent' = [parent EXCEPT ![c] = to],
         trail' = ParentEntry(trail, c, parent[c], to),
         UNCHANGED <<state, priority, archived, links, mayCreate, mayMove>>
  PROVE  TrailReplays' /\ TrailIsGranted'
<1> DEFINE created == trail.created
           moved == trail.moved
<1>1. /\ trail = Unbroken(state, priority, parent, archived, Facts(links), created, moved)
      /\ created \subseteq mayCreate' /\ moved \subseteq mayMove'
  BY HistoryParts
<1> HIDE DEF created, moved
<1>2. ParentEntry(Unbroken(state, priority, parent, archived, Facts(links), created, moved),
                  c, parent[c], to) =
        Unbroken(state, priority, With(parent, c, to), archived, Facts(links), created, moved)
  BY ParentReplay
<1>3. trail' = Unbroken(state', priority', parent', archived', Facts(links'), created, moved)
  BY <1>1, <1>2 DEF With
<1> QED BY <1>1, <1>3, TrailKept

(* SetArchived is refused when nothing would change.                         *)
LEMMA ArchiveHistory ==
  ASSUME HistoryInv, NEW c, NEW flag, NEW by, SetArchived(c, flag, by)
  PROVE  TrailReplays' /\ TrailIsGranted'
<1> DEFINE created == trail.created
           moved == trail.moved
<1>1. /\ trail = Unbroken(state, priority, parent, archived, Facts(links), created, moved)
      /\ created \subseteq mayCreate' /\ moved \subseteq mayMove'
  BY HistoryParts DEF SetArchived, policy
<1> HIDE DEF created, moved
<1>2. /\ archived' = With(archived, c, flag) /\ archived[c] # flag
      /\ trail' = ArchiveEntry(trail, c, flag) /\ UNCHANGED <<state, priority, parent, links>>
  BY DEF SetArchived, With
<1>3. trail' = Unbroken(state', priority', parent', archived', Facts(links'), created, moved)
  BY <1>1, <1>2, ArchiveReplay
<1> QED BY <1>1, <1>3, TrailKept

(* AddLane grants and takes nothing back; a lane may change who blocks.      *)
LEMMA AddLaneHistory ==
  ASSUME HistoryInv, TypeOK', NEW lane, NEW creators, NEW connected,
         AddLane(lane, creators, connected)
  PROVE  TrailReplays' /\ TrailIsGranted'
<1> DEFINE created == trail.created
           moved == trail.moved
<1>1. /\ trail = Unbroken(state, priority, parent, archived, Facts(links), created, moved)
      /\ created \subseteq mayCreate' /\ moved \subseteq mayMove'
  BY HistoryParts DEF AddLane
<1> HIDE DEF created, moved
<1>2. /\ priority \in [Card -> Priority] /\ priority' \in [Card -> Priority]
      /\ trail' = PriorityEntries(trail, priority, priority')
      /\ UNCHANGED <<state, parent, archived, links>>
  BY HistoryParts DEF TypeOK, AddLane
<1>3. trail' = Unbroken(state', priority', parent', archived', Facts(links'), created, moved)
  BY <1>1, <1>2, PriorityReplay
<1> QED BY <1>1, <1>3, TrailKept

(* MigrateLaneId renames the lane in cards, entries and policy alike.        *)
LEMMA MigrateHistory ==
  ASSUME HistoryInv, TypeOK', NEW source, NEW destination, MigrateLaneId(source, destination)
  PROVE  TrailReplays' /\ TrailIsGranted'
<1> DEFINE created == trail.created
           moved == trail.moved
           made == {<<e[1], Renamed(e[2], source, destination)>> : e \in created}
           done == {<<e[1], Renamed(e[2], source, destination),
                      Renamed(e[3], source, destination)>> : e \in moved}
           t == RewrittenTrail(trail, source, destination)
<1>1. /\ trail = Unbroken(state, priority, parent, archived, Facts(links), created, moved)
      /\ created \subseteq mayCreate /\ moved \subseteq mayMove
  BY HistoryParts
<1>2. priority \in [Card -> Priority] /\ priority' \in [Card -> Priority]
  BY HistoryParts DEF TypeOK
<1>3. /\ state' = [c \in Card |-> Renamed(state[c], source, destination)]
      /\ trail' = PriorityEntries(t, priority, priority')
      /\ UNCHANGED <<parent, archived, links>>
  BY DEF MigrateLaneId
<1> HIDE DEF created, moved
<1>4. made \subseteq mayCreate' /\ done \subseteq mayMove'
  BY <1>1 DEF MigrateLaneId
<1>5. t = Unbroken(state', priority, parent, archived, Facts(links), made, done)
  BY <1>1, <1>3, RenamedReplay
<1> HIDE DEF made, done, t
<1>6. trail' = Unbroken(state', priority', parent', archived', Facts(links'), made, done)
  BY <1>2, <1>3, <1>5, PriorityReplay
<1> QED BY <1>4, <1>6, TrailKept

(* Cards are given a lane when they are given a ticket, and keep one.        *)
LEMMA LanesStep == HistoryInv /\ [Next]_vars => LanesAreGiven'
<1> SUFFICES ASSUME HistoryInv, [Next]_vars PROVE LanesAreGiven'
  OBVIOUS
<1>1. LanesAreGiven /\ TypeOK
  BY HistoryParts
<1>2. ASSUME UNCHANGED <<ticket, state>> PROVE LanesAreGiven'
  BY <1>1, <1>2 DEF LanesAreGiven, Items
<1>3. ASSUME NEW c \in Card, NEW lane \in Lane, NEW p \in Priority, NEW by \in Actor,
             NEW asked \in RelationRef, Create(c, lane, p, by, asked)
      PROVE  LanesAreGiven'
  <2>1. /\ state' = [state EXCEPT ![c] = lane] /\ ticket' = [ticket EXCEPT ![c] = nextTicket]
        /\ lane # None /\ nextTicket > 0
    BY <1>1, <1>3 DEF Create, TypeOK
  <2> QED BY <1>1, <2>1 DEF LanesAreGiven, Items, TypeOK
<1>4. ASSUME NEW c \in Items, NEW to \in Lane, NEW by \in Actor, Move(c, to, by)
      PROVE  LanesAreGiven'
  <2>1. state' = [state EXCEPT ![c] = to] /\ ticket' = ticket /\ to # None
    BY <1>4 DEF Move
  <2> QED BY <1>1, <2>1 DEF LanesAreGiven, Items, TypeOK
<1>5. ASSUME NEW source, NEW destination, MigrateLaneId(source, destination)
      PROVE  LanesAreGiven'
  <2>1. /\ state' = [c \in Card |-> Renamed(state[c], source, destination)] /\ ticket' = ticket
        /\ source # None /\ destination # None
    BY <1>1, <1>5 DEF MigrateLaneId, TypeOK
  <2> QED BY <1>1, <2>1 DEF LanesAreGiven, Items, Renamed
<1>6. ASSUME NEW a, NEW b, NEW kind, Link(a, kind, b) \/ Unlink(a, kind, b)
      PROVE  UNCHANGED <<ticket, state>>
  BY <1>6 DEF Link, Unlink
<1>7. ASSUME NEW a, NEW b, NEW old, NEW new, ReplaceLink(a, old, new, b)
      PROVE  UNCHANGED <<ticket, state>>
  BY <1>7 DEF ReplaceLink
<1>8. ASSUME NEW targets, ApplyTargets(targets) PROVE UNCHANGED <<ticket, state>>
  BY <1>8 DEF ApplyTargets
<1>9. ASSUME NEW c, NEW p, SetParent(c, p) \/ ClearParent(c) PROVE UNCHANGED <<ticket, state>>
  BY <1>9 DEF SetParent, ClearParent
<1>10. ASSUME NEW c, NEW flag, NEW by, SetArchived(c, flag, by) PROVE UNCHANGED <<ticket, state>>
  BY <1>10 DEF SetArchived
<1>11. ASSUME NEW c, NEW mentioned, NEW by, Comment(c, mentioned, by)
       PROVE  UNCHANGED <<ticket, state>>
  BY <1>11 DEF Comment
<1>12. ASSUME NEW g, GrantPermissions(g) PROVE UNCHANGED <<ticket, state>>
  BY <1>12 DEF GrantPermissions, cards
<1>13. ASSUME NEW lane, RetireLane(lane) PROVE UNCHANGED <<ticket, state>>
  BY <1>13 DEF RetireLane, cards
<1>14. ASSUME NEW lane, NEW creators, NEW connected, AddLane(lane, creators, connected)
       PROVE  UNCHANGED <<ticket, state>>
  BY <1>14 DEF AddLane
<1>15. ASSUME UNCHANGED vars PROVE UNCHANGED <<ticket, state>>
  BY <1>15 DEF vars, cards
<1> QED
  BY <1>2, <1>3, <1>4, <1>5, <1>6, <1>7, <1>8, <1>9, <1>10, <1>11, <1>12, <1>13, <1>14, <1>15
  DEF Next, SetPriority, SetPriorities, ApproveReview

(* Each command leaves histories that verify; Next has one case each.        *)
LEMMA HistoryStep == HistoryInv /\ TypeOK' /\ [Next]_vars => TrailReplays' /\ TrailIsGranted'
<1> SUFFICES ASSUME HistoryInv, TypeOK', [Next]_vars PROVE TrailReplays' /\ TrailIsGranted'
  OBVIOUS
<1>1. TrailReplays /\ TrailIsGranted
  BY DEF HistoryInv
<1>2. ASSUME NEW c \in Card, NEW lane \in Lane, NEW p \in Priority, NEW by \in Actor,
             NEW asked \in RelationRef, Create(c, lane, p, by, asked)
      PROVE  TrailReplays' /\ TrailIsGranted'
  BY <1>2, CreateHistory
<1>3. ASSUME NEW a \in Items, NEW b \in Items, NEW kind \in KindRef, Link(a, kind, b)
      PROVE  TrailReplays' /\ TrailIsGranted'
  <2> DEFINE row == Row(a, kind, b)
  <2>1. /\ links' = links \cup {row}
        /\ trail' = PriorityEntries(Linked(trail, {row}), priority, priority')
        /\ UNCHANGED <<state, parent, archived, mayCreate, mayMove>>
    BY <1>3 DEF Link, policy
  <2> HIDE DEF row
  <2> QED BY <2>1, LinkHistory
<1>4. ASSUME NEW a \in Items, NEW b \in Items, NEW kind \in KindRef, Unlink(a, kind, b)
      PROVE  TrailReplays' /\ TrailIsGranted'
  BY <1>4, UnlinkHistory
<1>5. ASSUME NEW a \in Items, NEW b \in Items, NEW old \in KindRef, NEW new \in KindRef,
             ReplaceLink(a, old, new, b)
      PROVE  TrailReplays' /\ TrailIsGranted'
  BY <1>5, ReplaceHistory
<1>6. ASSUME NEW targets, ApplyTargets(targets) PROVE TrailReplays' /\ TrailIsGranted'
  BY <1>6, TargetsHistory
<1>7. ASSUME NEW c, NEW p, SetParent(c, p) PROVE TrailReplays' /\ TrailIsGranted'
  <2>1. /\ parent' = [parent EXCEPT ![c] = p] /\ trail' = ParentEntry(trail, c, parent[c], p)
        /\ UNCHANGED <<state, priority, archived, links, mayCreate, mayMove>>
    BY <1>7 DEF SetParent, policy
  <2> QED BY <2>1, ParentHistory
<1>8. ASSUME NEW c, ClearParent(c) PROVE TrailReplays' /\ TrailIsGranted'
  <2>1. /\ parent' = [parent EXCEPT ![c] = None] /\ trail' = ParentEntry(trail, c, parent[c], None)
        /\ UNCHANGED <<state, priority, archived, links, mayCreate, mayMove>>
    BY <1>8 DEF ClearParent, policy
  <2> QED BY <2>1, ParentHistory
<1>9. ASSUME NEW c, NEW flag, NEW by, SetArchived(c, flag, by)
      PROVE  TrailReplays' /\ TrailIsGranted'
  BY <1>9, ArchiveHistory
<1>10. ASSUME NEW c \in Items, NEW to \in Lane, NEW by \in Actor, Move(c, to, by)
       PROVE  TrailReplays' /\ TrailIsGranted'
  BY <1>10, MoveHistory
<1>11. ASSUME NEW c \in MentionRef, NEW mentioned \in SUBSET MentionRef, NEW by \in Actor,
              Comment(c, mentioned, by)
       PROVE  TrailReplays' /\ TrailIsGranted'
  <2> DEFINE rows == {Row(c, "references", m) : m \in (mentioned \cap Items) \ {c}} \ links
  <2>1. /\ links' = links \cup rows /\ trail' = Linked(trail, rows)
        /\ UNCHANGED <<state, priority, parent, archived, mayCreate, mayMove>>
    BY <1>11 DEF Comment, policy
  <2> HIDE DEF rows
  <2> QED BY <2>1, CommentHistory
<1>12. ASSUME UNCHANGED <<cards, trail>>, mayCreate \subseteq mayCreate', mayMove \subseteq mayMove'
       PROVE  TrailReplays' /\ TrailIsGranted'
  BY <1>1, <1>12 DEF cards, TrailReplays, TrailIsGranted, Facts
<1>13. ASSUME NEW g, GrantPermissions(g) PROVE TrailReplays' /\ TrailIsGranted'
  BY <1>12, <1>13 DEF GrantPermissions
<1>14. ASSUME NEW lane, RetireLane(lane) PROVE TrailReplays' /\ TrailIsGranted'
  BY <1>12, <1>14 DEF RetireLane
<1>15. ASSUME NEW lane, NEW creators, NEW connected, AddLane(lane, creators, connected)
       PROVE  TrailReplays' /\ TrailIsGranted'
  BY <1>15, AddLaneHistory
<1>16. ASSUME NEW source, NEW destination, MigrateLaneId(source, destination)
       PROVE  TrailReplays' /\ TrailIsGranted'
  BY <1>16, MigrateHistory
<1>17. CASE UNCHANGED vars
  BY <1>12, <1>17 DEF vars, policy
<1> QED
  BY <1>2, <1>3, <1>4, <1>5, <1>6, <1>7, <1>8, <1>9, <1>10, <1>11, <1>13, <1>14, <1>15, <1>16,
     <1>17 DEF Next, SetPriority, SetPriorities, ApproveReview

(* verify() accepts the histories of every board the commands can make.      *)
THEOREM HistoriesAlwaysVerify == Spec => []HistoriesVerify
<1>1. Init => HistoryInv
  <2>1. Init => TrailReplays
    <3> SUFFICES ASSUME Init PROVE TrailReplays
      OBVIOUS
    <3>1. trail = Unbroken(state, priority, parent, archived, {}, {}, {})
      BY DEF Init, NewTrail, Unbroken
    <3>2. trail.created = {} /\ trail.moved = {}
      BY <3>1 DEF Unbroken
    <3>3. Facts(links) = {}
      BY DEF Init, Facts
    <3> QED BY <3>1, <3>2, <3>3 DEF TrailReplays
  <2>2. Init => TrailIsGranted /\ LanesAreGiven
    BY DEF Init, TrailIsGranted, NewTrail, LanesAreGiven, Items
  <2> QED BY <2>1, <2>2, InitLoads DEF HistoryInv
<1>2. HistoryInv /\ [Next]_vars => HistoryInv'
  <2>1. HistoryInv /\ [Next]_vars => LoadInv' /\ TypeOK'
    BY LoadInvStep DEF HistoryInv, LoadInv, IInv
  <2> QED BY <2>1, LanesStep, HistoryStep DEF HistoryInv
<1>3. HistoryInv => HistoriesVerify
  <2> SUFFICES ASSUME HistoryInv PROVE HistoriesVerify
    OBVIOUS
  <2>1. /\ trail.lane = state /\ trail.priority = priority /\ trail.parent = parent
        /\ trail.archived = archived /\ trail.facts = Facts(links) /\ ~trail.broken
    BY HistoryParts DEF Unbroken
  <2> QED BY <2>1, HistoryParts
       DEF HistoriesVerify, LanesReplay, ParentsReplay, ArchivesReplay, Facts
<1> QED BY <1>1, <1>2, <1>3, PTL DEF Spec

-------------------------------------------------------------------------------
(* Priorities: who asked.                                                    *)

(* Inheritance changes a card's priority only to that of a card below it,    *)
(* which keeps the rank it was given.                                        *)
LEMMA InheritanceIsOwed ==
  ASSUME NEW E, E \subseteq Card \X Card, NEW prio \in [Card -> Priority], NEW c \in Card,
         BlockingPriorities(E, prio)[c] # prio[c]
  PROVE  /\ Rank[BlockingPriorities(E, prio)[c]] < Rank[prio[c]]
         /\ \E d \in Downstream(E, c) \ {c} :
              /\ d \in Card
              /\ Rank[BlockingPriorities(E, prio)[d]] = Rank[BlockingPriorities(E, prio)[c]]
              /\ Rank[BlockingPriorities(E, prio)[d]] = Rank[prio[d]]
<1> DEFINE new == BlockingPriorities(E, prio)
<1>1. new \in [Card -> Priority] /\ \A d \in Card : Rank[new[d]] = Rank[Inherited(E, prio, d)]
  BY BlockingPrioritiesRank
<1>2. \A p \in Priority : Rank[p] \in Nat
  BY RankAssumption
<1>3. Rank[new[c]] # Rank[prio[c]]
  BY <1>1 DEF BlockingPriorities
<1>4. Rank[new[c]] <= Rank[prio[c]]
  BY NoDemotion
<1>5. PICK d \in Downstream(E, c) : Inherited(E, prio, c) = prio[d]
  BY InheritedIsLeast
<1>6. d \in Card /\ d # c
  BY <1>1, <1>3, <1>5 DEF Downstream
<1>7. Rank[new[d]] <= Rank[prio[d]]
  BY <1>6, NoDemotion
<1>8. Downstream(E, d) \subseteq Downstream(E, c)
  <2>1. Downstream(E, c) \in SUBSET Card /\ Closed(E, Downstream(E, c))
    BY DownstreamClosed DEF Downstream
  <2> QED BY <1>5, <2>1, DownstreamLeast
<1>9. PICK b \in Downstream(E, d) : Inherited(E, prio, d) = prio[b]
  BY <1>6, InheritedIsLeast
<1>10. Rank[Inherited(E, prio, c)] <= Rank[prio[b]]
  BY <1>8, <1>9, InheritedIsLeast
<1>11. Rank[new[c]] = Rank[prio[d]] /\ Rank[new[c]] <= Rank[new[d]]
  BY <1>1, <1>5, <1>6, <1>9, <1>10
<1>12. {Rank[new[c]], Rank[new[d]], Rank[prio[c]], Rank[prio[d]]} \subseteq Nat
  BY <1>1, <1>2, <1>6
<1> HIDE DEF new
<1>13. Rank[new[c]] < Rank[prio[c]] /\ Rank[new[d]] = Rank[new[c]] /\ Rank[new[d]] = Rank[prio[d]]
  BY <1>3, <1>4, <1>7, <1>11, <1>12
<1> QED BY <1>5, <1>6, <1>13 DEF new

(* What PriorityChangesAreOwed says of one step.                             *)
PriorityStepIsOwed == \A c \in Items : priority'[c] # priority[c] => Owed(c) \/ AskedFor(c)

(* A step that enforces inheritance on priorities that differ from the old   *)
(* ones only where they are asked for, or on a new card.                     *)
LEMMA EnforcementIsOwed ==
  ASSUME NEW prio \in [Card -> Priority], priority' = Enforced(links', state', prio),
         \A d \in Card : prio[d] # priority[d] => d \notin Items \/ AskedFor(d)
  PROVE  PriorityStepIsOwed
<1> DEFINE E == UrgentEdges(links', state')
<1> SUFFICES ASSUME NEW c \in Items, priority'[c] # priority[c], ~AskedFor(c) PROVE Owed(c)
  BY DEF PriorityStepIsOwed
<1>1. c \in Card /\ prio[c] = priority[c]
  BY DEF Items
<1>2. E \subseteq Card \X Card /\ priority' = BlockingPriorities(E, prio)
  BY DEF UrgentEdges, Enforced
<1> HIDE DEF E
<1>3. PICK d \in Downstream(E, c) \ {c} :
        /\ d \in Card
        /\ Rank[priority'[d]] = Rank[priority'[c]]
        /\ Rank[priority'[d]] = Rank[prio[d]]
  BY <1>1, <1>2, InheritanceIsOwed
<1>4. Rank[priority'[c]] < Rank[priority[c]]
  BY <1>1, <1>2, InheritanceIsOwed
<1>5. Rank[priority'[d]] = Rank[priority[d]] \/ d \notin Items \/ AskedFor(d)
  BY <1>3
<1> QED BY <1>3, <1>4, <1>5 DEF Owed, E

(* Commands ask for what they name; the rest is inheritance.                 *)
LEMMA OwedStep == TypeOK /\ [Next]_vars => PriorityStepIsOwed
<1> SUFFICES ASSUME TypeOK, [Next]_vars PROVE PriorityStepIsOwed
  OBVIOUS
<1>1. priority \in [Card -> Priority]
  BY DEF TypeOK
<1>2. ASSUME priority' = priority PROVE PriorityStepIsOwed
  BY <1>2 DEF PriorityStepIsOwed
<1>3. ASSUME priority' = Enforced(links', state', priority) PROVE PriorityStepIsOwed
  BY <1>1, <1>3, EnforcementIsOwed
<1>4. ASSUME NEW c \in Card, NEW lane \in Lane, NEW p \in Priority, NEW by \in Actor,
             NEW asked \in RelationRef, Create(c, lane, p, by, asked)
      PROVE  PriorityStepIsOwed
  <2> DEFINE prio == [priority EXCEPT ![c] = p]
  <2>1. prio \in [Card -> Priority] /\ \A d \in Card : prio[d] # priority[d] => d = c
    BY <1>1
  <2>2. c \notin Items
    BY <1>4 DEF Create
  <2>3. CASE priority' = prio
    BY <2>1, <2>2, <2>3 DEF PriorityStepIsOwed, Items
  <2>4. CASE priority' = Enforced(links', state', prio)
    <3> HIDE DEF prio
    <3> QED BY <2>1, <2>2, <2>4, EnforcementIsOwed
  <2>5. priority' = prio \/ priority' = Enforced(links', state', prio)
    BY <1>4 DEF Create
  <2> QED BY <2>3, <2>4, <2>5
<1>5. ASSUME NEW S \in SUBSET Items, NEW p \in Priority, ApplyTargets(Requested(S, p)),
             \A c \in S : AskedFor(c)
      PROVE  PriorityStepIsOwed
  <2> DEFINE prio == [c \in Card |-> IF c \in S THEN p ELSE priority[c]]
  <2>1. prio \in [Card -> Priority] /\ \A d \in Card : prio[d] # priority[d] => d \in S
    BY <1>1
  <2>2. priority' = Enforced(links', state', prio)
    BY <1>5 DEF ApplyTargets, Requested
  <2> HIDE DEF prio
  <2> QED BY <1>5, <2>1, <2>2, EnforcementIsOwed
<1>6. ASSUME NEW c \in Items, NEW p \in Priority, SetPriority(c, p) PROVE PriorityStepIsOwed
  <2>1. AskedFor(c)
    BY <1>6 DEF AskedFor
  <2> QED BY <1>5, <1>6, <2>1 DEF SetPriority
<1>7. ASSUME NEW S \in BatchRef, NEW p \in Priority, SetPriorities(S, p) PROVE PriorityStepIsOwed
  <2>1. \A c \in S : AskedFor(c)
    BY <1>7 DEF AskedFor
  <2> QED BY <1>5, <1>7, <2>1 DEF SetPriorities
<1>8. ASSUME NEW a, NEW b, NEW kind, Link(a, kind, b) \/ Unlink(a, kind, b)
      PROVE  PriorityStepIsOwed
  BY <1>2, <1>3, <1>8 DEF Link, Unlink
<1>9. ASSUME NEW a, NEW b, NEW old, NEW new, ReplaceLink(a, old, new, b)
      PROVE  PriorityStepIsOwed
  BY <1>3, <1>9 DEF ReplaceLink
<1>10. ASSUME NEW c, NEW p, SetParent(c, p) \/ ClearParent(c) PROVE PriorityStepIsOwed
  BY <1>2, <1>10 DEF SetParent, ClearParent
<1>11. ASSUME NEW c, NEW flag, NEW by, SetArchived(c, flag, by) PROVE PriorityStepIsOwed
  BY <1>2, <1>11 DEF SetArchived
<1>12. ASSUME NEW c, NEW to, NEW by, Move(c, to, by) PROVE PriorityStepIsOwed
  <2>1. priority' = priority \/ priority' = Enforced(links', state', priority)
    BY <1>12 DEF Move
  <2> QED BY <1>2, <1>3, <2>1
<1>13. ASSUME NEW c, NEW mentioned, NEW by, Comment(c, mentioned, by) PROVE PriorityStepIsOwed
  BY <1>2, <1>13 DEF Comment
<1>14. ASSUME NEW g, GrantPermissions(g) PROVE PriorityStepIsOwed
  BY <1>2, <1>14 DEF GrantPermissions, cards
<1>15. ASSUME NEW lane, RetireLane(lane) PROVE PriorityStepIsOwed
  BY <1>2, <1>15 DEF RetireLane, cards
<1>16. ASSUME NEW lane, NEW creators, NEW connected, AddLane(lane, creators, connected)
       PROVE  PriorityStepIsOwed
  BY <1>3, <1>16 DEF AddLane
<1>17. ASSUME NEW source, NEW destination, MigrateLaneId(source, destination)
       PROVE  PriorityStepIsOwed
  BY <1>3, <1>17 DEF MigrateLaneId
<1>18. CASE UNCHANGED vars
  BY <1>2, <1>18 DEF vars, cards
<1> QED
  BY <1>4, <1>6, <1>7, <1>8, <1>9, <1>10, <1>11, <1>12, <1>13, <1>14, <1>15, <1>16, <1>17,
     <1>18 DEF Next, ApproveReview

(* enforce_dependency_priorities promotes without demotions: in every step a *)
(* card nobody asked about changes its priority only to become more urgent,  *)
(* as urgent as a card below it that was not itself promoted.                *)
THEOREM ChangesAreAlwaysOwed == Spec => PriorityChangesAreOwed
<1>1. TypeOK /\ [Next]_vars =>
        [\A c \in Items : priority'[c] # priority[c] => Owed(c) \/ AskedFor(c)]_vars
  BY OwedStep DEF PriorityStepIsOwed
<1> QED BY <1>1, TypeCorrect, PTL DEF Spec, PriorityChangesAreOwed
===============================================================================
