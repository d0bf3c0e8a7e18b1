-------------------------------- MODULE Board --------------------------------
(***************************************************************************)
(* The board domain of localswim (board_state.py, class Board): one action *)
(* per command a client may have executed, each as atomic as               *)
(* BoardStore.execute makes it -- a command that raises leaves the board   *)
(* on disk as it was, so only the accepted ones are steps.  Lanes change   *)
(* offline, while no service runs.  verify() is no guard of any action: the *)
(* invariants say that it never has to refuse what a command made.         *)
(*                                                                         *)
(* Texts, owners, attachments and times are left out.  The audit lists are *)
(* kept as what replaying them yields (`trail'), which is how verify()     *)
(* reads them.                                                             *)
(***************************************************************************)
EXTENDS DependencyOrder, FiniteSets

CONSTANTS
  Actor, Human,            \* configured users; those of class human
  BrowserUser, CliUser,    \* the two operators
  Lane, Review, Completed, \* lane ids that may ever be used; "ready_for_review", "completed"
  DefaultPriority,
  FirstLane, FirstCreate, FirstMove,  \* the policy the board starts with
  None,
  (* what the callers of a run ask for *)
  KindRef,                 \* relationship spellings
  RelationRef,             \* relationships carried by a creation
  BatchRef,                \* cards of one bulk change of priority
  ParentRef, ArchiveRef, MentionRef, RetireRef, GrantRef,
  AddRef, MigrateRef       \* lanes to add, with their grants; lane ids <<from, to>> to migrate

VARIABLES
  ticket,      \* 0 while the card does not exist
  nextTicket,
  state, priority, archived, parent,
  links,       \* stored rows <<frm, kind, to>>
  lanes, retired, mayCreate, mayMove,   \* the embedded policy
  trail        \* what the histories replay to

cards  == <<ticket, nextTicket, state, priority, archived, parent, links>>
policy == <<lanes, retired, mayCreate, mayMove>>
vars   == <<cards, policy, trail>>

StoredKind == {"blocks", "duplicates", "references", "relates_to"}
Inverse == [blocked_by |-> "blocks", duplicated_by |-> "duplicates",
            referenced_by |-> "references"]
AnyKind == StoredKind \cup DOMAIN Inverse

Items == {c \in Card : ticket[c] > 0}
Operators == {BrowserUser, CliUser}

(* _index_edges: every edge joins two different lanes the policy has.      *)
EdgesFit ==
  \A m \in FirstMove : {m[2], m[3]} \subseteq FirstLane /\ m[2] # m[3]

(* _parse_rules: lanes, the edges of two different users, a known default. *)
RulesFit ==
  /\ FirstLane # {} /\ EdgesFit
  /\ BrowserUser # CliUser
  /\ DefaultPriority \in Priority

(* validate_actors: the policy names users of the board, and only the two  *)
(* operators move cards.                                                   *)
PolicyFitsUsers ==
  /\ Human \cup Operators \subseteq Actor
  /\ FirstCreate \subseteq Actor \X FirstLane
  /\ FirstMove \subseteq Operators \X Lane \X Lane

ASSUME BoardAssumption ==
  /\ RulesFit /\ PolicyFitsUsers
  /\ None \notin Lane \cup Card
  /\ FirstLane \subseteq Lane
  /\ KindRef \subseteq AnyKind
  /\ RelationRef \subseteq SUBSET (KindRef \X Card)
  /\ ParentRef \cup ArchiveRef \cup MentionRef \subseteq Card

-----------------------------------------------------------------------------
(* Relationships.                                                          *)

(* MUTANT of Row: the relationship is stored the way it was asked for.     *)
RowAsAsked(a, kind, b) == <<a, kind, b>>

(* _link_parts: both spellings of a relationship name one stored row.      *)
Row(a, kind, b) == IF kind \in StoredKind THEN <<a, kind, b>>
                                          ELSE <<b, Inverse[kind], a>>

(* The rows that state the same fact: relates_to is its own inverse.       *)
Spellings(row) == IF row[2] = "relates_to" THEN {row, <<row[3], row[2], row[1]>>}
                                           ELSE {row}

(* MUTANT of Found: a symmetric link is looked for in one direction only.  *)
FoundOneWay(ls, row) == {row} \cap ls

(* find_link: the stored rows that state this fact.                        *)
Found(ls, row) == Spellings(row) \cap ls

(* The edges urgency travels along: blocks links between unfinished cards. *)
UrgentEdges(ls, st) ==
  {e \in Card \X Card : /\ <<e[1], "blocks", e[2]>> \in ls
                        /\ st[e[1]] # Completed
                        /\ st[e[2]] # Completed}

(* enforce_dependency_priorities: every card's priority after inheritance. *)
Enforced(ls, st, prio) == BlockingPriorities(UrgentEdges(ls, st), prio)

ParentEdges(par) == {e \in Card \X Card : par[e[1]] = e[2]}

-----------------------------------------------------------------------------
(* The audit trail, folded as verify() replays it.                         *)

NewTrail ==
  [lane |-> [c \in Card |-> None], priority |-> [c \in Card |-> DefaultPriority],
   parent |-> [c \in Card |-> None], archived |-> [c \in Card |-> FALSE],
   facts |-> {}, created |-> {}, moved |-> {}, broken |-> FALSE]

(* A history entry of kind lane; frm = None is the creation entry.         *)
LaneEntry(t, c, by, frm, to) ==
  [t EXCEPT !.lane[c] = to,
            !.created = @ \cup (IF frm = None THEN {<<by, to>>} ELSE {}),
            !.moved   = @ \cup (IF frm = None THEN {} ELSE {<<by, frm, to>>}),
            !.broken  = @ \/ t.lane[c] # frm]

(* _apply_priority_targets: one entry for every card that changes.         *)
PriorityEntries(t, old, new) ==
  [t EXCEPT !.priority = [c \in Card |-> IF old[c] = new[c] THEN @[c] ELSE new[c]],
            !.broken   = @ \/ \E c \in Card : old[c] # new[c] /\ t.priority[c] # old[c]]

ParentEntry(t, c, frm, to) ==
  [t EXCEPT !.parent[c] = to, !.broken = @ \/ t.parent[c] # frm]

ArchiveEntry(t, c, flag) ==
  [t EXCEPT !.archived[c] = flag, !.broken = @ \/ t.archived[c] = flag]

(* relationshipHistory keeps the caller's spelling of each fact.           *)
Linked(t, rows)   == [t EXCEPT !.facts = @ \cup UNION {Spellings(r) : r \in rows}]
Unlinked(t, row)  == [t EXCEPT !.facts = @ \ Spellings(row)]

-----------------------------------------------------------------------------
Init ==
  /\ ticket = [c \in Card |-> 0] /\ nextTicket = 1
  /\ state = [c \in Card |-> None]
  /\ priority = [c \in Card |-> DefaultPriority]
  /\ archived = [c \in Card |-> FALSE]
  /\ parent = [c \in Card |-> None]
  /\ links = {}
  /\ lanes = FirstLane /\ retired = {}
  /\ mayCreate = FirstCreate /\ mayMove = FirstMove
  /\ trail = NewTrail

MayCreate(by, lane) == lane \notin retired /\ <<by, lane>> \in mayCreate
MayMove(by, frm, to) == to \notin retired /\ <<by, frm, to>> \in mayMove

(* Board.create, followed by Board.link for every relationship the same    *)
(* request carries.                                                        *)
Create(c, lane, p, by, asked) ==
  /\ c \notin Items
  /\ MayCreate(by, lane)
  /\ \A r \in asked : r[2] \in Items
  /\ LET rows   == {Row(c, r[1], r[2]) : r \in asked}
         prio   == [priority EXCEPT ![c] = p]
         placed == [state EXCEPT ![c] = lane]
         t      == LaneEntry([trail EXCEPT !.priority[c] = p], c, by, None, lane)
     IN  /\ state' = placed
         /\ links' = links \cup rows
         /\ priority' = IF rows = {} THEN prio
                                     ELSE Enforced(links \cup rows, placed, prio)
         /\ trail' = PriorityEntries(Linked(t, rows), prio, priority')
  /\ ticket' = [ticket EXCEPT ![c] = nextTicket]
  /\ nextTicket' = nextTicket + 1
  /\ UNCHANGED <<archived, parent, policy>>

(* Board.link; a fact already stored is answered without a write.          *)
Link(a, kind, b) ==
  /\ a # b
  /\ LET row == Row(a, kind, b)
     IN  /\ Found(links, row) = {}
         /\ links' = links \cup {row}
         /\ priority' = Enforced(links', state, priority)
         /\ trail' = PriorityEntries(Linked(trail, {row}), priority, priority')
  /\ UNCHANGED <<ticket, nextTicket, state, archived, parent, policy>>

(* Board.replace_link.                                                     *)
ReplaceLink(a, old, new, b) ==
  /\ a # b /\ old # new
  /\ LET was == Row(a, old, b)
         row == Row(a, new, b)
     IN  /\ Found(links, was) # {}
         /\ Found(links, row) = {}
         /\ links' = (links \ Found(links, was)) \cup {row}
         /\ priority' = Enforced(links', state, priority)
         /\ trail' = PriorityEntries(Linked(Unlinked(trail, was), {row}), priority, priority')
  /\ UNCHANGED <<ticket, nextTicket, state, archived, parent, policy>>

(* Board.unlink: nothing is demoted.                                       *)
Unlink(a, kind, b) ==
  /\ a # b
  /\ LET row == Row(a, kind, b)
     IN  /\ Found(links, row) # {}
         /\ links' = links \ Found(links, row)
         /\ trail' = Unlinked(trail, row)
  /\ UNCHANGED <<ticket, nextTicket, state, priority, archived, parent, policy>>

(* Every card's priority once p has been requested for the cards of S.     *)
Requested(S, p) ==
  Enforced(links, state, [c \in Card |-> IF c \in S THEN p ELSE priority[c]])

(* _apply_priority_targets: old entries name the stored priority.          *)
ApplyTargets(targets) ==
  /\ priority' = targets
  /\ trail' = PriorityEntries(trail, priority, targets)
  /\ UNCHANGED <<ticket, nextTicket, state, archived, parent, links, policy>>

(* Board.set_priority.                                                     *)
SetPriority(c, p) == c \in Items /\ ApplyTargets(Requested({c}, p))

(* Board.set_priorities: unfinished cards only, all or none.               *)
SetPriorities(S, p) ==
  /\ S # {} /\ S \subseteq Items
  /\ \A c \in S : state[c] # Completed
  /\ ApplyTargets(Requested(S, p))

(* Board.set_parent: set it, look for a loop, put it back if there is one. *)
SetParent(c, p) ==
  /\ {c, p} \subseteq Items /\ c # p /\ parent[c] # p
  /\ ~FallsIntoLoop(ParentEdges([parent EXCEPT ![c] = p]), c)
  /\ parent' = [parent EXCEPT ![c] = p]
  /\ trail' = ParentEntry(trail, c, parent[c], p)
  /\ UNCHANGED <<ticket, nextTicket, state, priority, archived, links, policy>>

ClearParent(c) ==
  /\ c \in Items /\ parent[c] # None
  /\ parent' = [parent EXCEPT ![c] = None]
  /\ trail' = ParentEntry(trail, c, parent[c], None)
  /\ UNCHANGED <<ticket, nextTicket, state, priority, archived, links, policy>>

(* MUTANT of SetArchived: a card is brought back wherever it was.          *)
SetArchivedAnywhere(c, flag, by) ==
  /\ by \in Operators
  /\ c \in Items /\ archived[c] # flag
  /\ archived' = [archived EXCEPT ![c] = flag]
  /\ trail' = ArchiveEntry(trail, c, flag)
  /\ UNCHANGED <<ticket, nextTicket, state, priority, parent, links, policy>>

(* Board.set_archived.                                                     *)
SetArchived(c, flag, by) ==
  /\ by \in Operators
  /\ c \in Items /\ archived[c] # flag
  /\ ~flag => state[c] \notin retired
  /\ archived' = [archived EXCEPT ![c] = flag]
  /\ trail' = ArchiveEntry(trail, c, flag)
  /\ UNCHANGED <<ticket, nextTicket, state, priority, parent, links, policy>>

(* MUTANT of Move: reopening a card does not make its blockers urgent.     *)
MoveQuietly(c, to, by) ==
  /\ c \in Items /\ state[c] # to
  /\ MayMove(by, state[c], to)
  /\ state' = [state EXCEPT ![c] = to]
  /\ trail' = LaneEntry(trail, c, by, state[c], to)
  /\ UNCHANGED <<ticket, nextTicket, priority, archived, parent, links, policy>>

(* Board.move: the log first, then the state; a reopened card rejoins the  *)
(* inheritance of urgency at once.                                         *)
Move(c, to, by) ==
  /\ c \in Items /\ state[c] # to
  /\ MayMove(by, state[c], to)
  /\ state' = [state EXCEPT ![c] = to]
  /\ priority' = IF state[c] = Completed THEN Enforced(links, state', priority)
                                         ELSE priority
  /\ trail' = PriorityEntries(LaneEntry(trail, c, by, state[c], to), priority, priority')
  /\ UNCHANGED <<ticket, nextTicket, archived, parent, links, policy>>

(* Board.approve_review: a human's comment and the move, or neither.       *)
ApproveReview(c, by) ==
  /\ by \in Human /\ {Review, Completed} \subseteq Lane
  /\ c \in Items /\ state[c] = Review
  /\ Move(c, Completed, by)

(* Board.comment: a human's mentions become references links.              *)
Comment(c, mentioned, by) ==
  /\ c \in Items
  /\ LET rows == {Row(c, "references", m) : m \in (mentioned \cap Items) \ {c}} \ links
     IN  /\ by \in Human /\ rows # {}
         /\ links' = links \cup rows
         /\ trail' = Linked(trail, rows)
  /\ UNCHANGED <<ticket, nextTicket, state, priority, archived, parent, policy>>

(* Board.grant_permissions: grants are only ever added; edge grants go to  *)
(* the two operators alone.                                                *)
GrantPermissions(g) ==
  /\ g.actors # {} /\ g.actors \subseteq Actor /\ (g.create # {} \/ g.moves # {})
  /\ \A lane \in g.create : lane \in lanes \ retired
  /\ \A m \in g.moves : {m[1], m[2]} \subseteq lanes \ retired /\ m[1] # m[2]
  /\ g.moves # {} => g.actors \subseteq Operators
  /\ mayCreate' = mayCreate \cup (g.actors \X g.create)
  /\ mayMove' = mayMove \cup {<<a, m[1], m[2]>> : a \in g.actors, m \in g.moves}
  /\ UNCHANGED <<cards, lanes, retired, trail>>

(* _parse_retired_lanes: done work keeps its lane, new work has one.       *)
RetiredLanesFit(gone) == gone \subseteq lanes \ {Completed} /\ gone # lanes

(* retire_lane, run offline: only archived cards may stay behind.          *)
RetireLane(lane) ==
  /\ lane \in lanes \ retired /\ RetiredLanesFit(retired \cup {lane})
  /\ \A c \in Items : state[c] = lane => archived[c]
  /\ retired' = retired \cup {lane}
  /\ UNCHANGED <<cards, lanes, mayCreate, mayMove, trail>>

(* add_lane, run offline: some operators may create in the new lane, some  *)
(* may move between it and every lane still offered.                       *)
AddLane(lane, creators, connected) ==
  /\ lane \in Lane \ lanes
  /\ creators \cup connected \subseteq Operators
  /\ lanes' = lanes \cup {lane}
  /\ mayCreate' = mayCreate \cup (creators \X {lane})
  /\ mayMove' = mayMove \cup
       UNION {{<<by, other, lane>>, <<by, lane, other>>} :
              by \in connected, other \in lanes \ retired}
  /\ priority' = Enforced(links, state, priority)
  /\ trail' = PriorityEntries(trail, priority, priority')
  /\ UNCHANGED <<ticket, nextTicket, state, archived, parent, links, retired>>

(* One lane id in place of another.                                        *)
Renamed(lane, source, destination) == IF lane = source THEN destination ELSE lane

(* MUTANT of RewrittenTrail: only the cards are rewritten, not histories.  *)
RewrittenNowhere(t, source, destination) == t

(* _rewrite_lane_values: the lane endpoints of every history entry.        *)
RewrittenTrail(t, source, destination) ==
  LET now(lane) == Renamed(lane, source, destination)
  IN  [t EXCEPT !.lane    = [c \in Card |-> now(@[c])],
                !.created = {<<e[1], now(e[2])>> : e \in @},
                !.moved   = {<<e[1], now(e[2]), now(e[3])>> : e \in @}]

(* migrate_lane_id, run offline: the policy, the cards and their histories *)
(* in one replacement of the file.                                         *)
MigrateLaneId(source, destination) ==
  LET now(lane) == Renamed(lane, source, destination)
  IN  /\ source \in lanes /\ destination \in Lane \ lanes
      /\ Completed \notin {source, destination}
      /\ lanes' = {now(lane) : lane \in lanes}
      /\ retired' = {now(lane) : lane \in retired}
      /\ mayCreate' = {<<g[1], now(g[2])>> : g \in mayCreate}
      /\ mayMove' = {<<g[1], now(g[2]), now(g[3])>> : g \in mayMove}
      /\ state' = [c \in Card |-> now(state[c])]
      /\ priority' = Enforced(links, state', priority)
      /\ trail' = PriorityEntries(RewrittenTrail(trail, source, destination), priority, priority')
      /\ UNCHANGED <<ticket, nextTicket, archived, parent, links>>

Next ==
  \/ \E c \in Card, lane \in Lane, p \in Priority, by \in Actor,
        asked \in RelationRef : Create(c, lane, p, by, asked)
  \/ \E a, b \in Items, kind \in KindRef : Link(a, kind, b) \/ Unlink(a, kind, b)
  \/ \E a, b \in Items, old, new \in KindRef : ReplaceLink(a, old, new, b)
  \/ \E c \in Items, p \in Priority : SetPriority(c, p)
  \/ \E S \in BatchRef, p \in Priority : SetPriorities(S, p)
  \/ \E c \in ParentRef, p \in ParentRef : SetParent(c, p)
  \/ \E c \in ParentRef : ClearParent(c)
  \/ \E c \in ArchiveRef, flag \in BOOLEAN, by \in Actor : SetArchived(c, flag, by)
  \/ \E c \in Items, to \in Lane, by \in Actor : Move(c, to, by)
  \/ \E c \in Items, by \in Actor : ApproveReview(c, by)
  \/ \E c \in MentionRef, mentioned \in SUBSET MentionRef, by \in Actor :
        Comment(c, mentioned, by)
  \/ \E g \in GrantRef : GrantPermissions(g)
  \/ \E lane \in RetireRef : RetireLane(lane)
  \/ \E a \in AddRef : AddLane(a.lane, a.creators, a.connected)
  \/ \E m \in MigrateRef : MigrateLaneId(m[1], m[2])

Spec == Init /\ [][Next]_vars

-----------------------------------------------------------------------------
(* Types; cards, permissions and retirements name lanes that exist.        *)
TypeOK ==
  /\ ticket \in [Card -> Nat] /\ nextTicket \in Nat \ {0}
  /\ lanes \subseteq Lane /\ retired \subseteq lanes
  /\ state \in [Card -> lanes \cup {None}]
  /\ priority \in [Card -> Priority]
  /\ archived \in [Card -> BOOLEAN]
  /\ parent \in [Card -> Card \cup {None}]
  /\ links \subseteq Card \X StoredKind \X Card
  /\ mayCreate \subseteq Actor \X lanes
  /\ mayMove \subseteq Actor \X lanes \X lanes

(* verify(), "blocker priority is below required": whatever was linked,    *)
(* completed, reopened or reprioritised, in any order, an unfinished card  *)
(* is at least as urgent as every unfinished card it blocks.               *)
BlockersKeepUp ==
  \A e \in UrgentEdges(links, state) : Rank[priority[e[1]]] <= Rank[priority[e[2]]]

(* verify(): the lane entries of a card end where it is stored, and each   *)
(* is granted by the policy as it is now.                                  *)
LanesReplay ==
  /\ \A c \in Items : trail.lane[c] = state[c]
  /\ trail.created \subseteq mayCreate /\ trail.moved \subseteq mayMove

(* _parent_history_problems: the entries end at the parent that is stored. *)
ParentsReplay == \A c \in Items : trail.parent[c] = parent[c]

(* _archive_history_problems: the entries end at the flag that is stored.  *)
ArchivesReplay == \A c \in Items : trail.archived[c] = archived[c]

(* verify(), "which the permission table forbids", "the chain is broken",  *)
(* _parent_history_problems, _archive_history_problems: every entry leaves *)
(* where the one before it arrived and is granted by the policy as it is   *)
(* now, and the histories end at what is stored, whatever was granted,     *)
(* retired, added or renamed since.  That priorities and relationships too *)
(* can be told from their histories is more than verify() looks for.       *)
HistoriesVerify ==
  /\ ~trail.broken /\ LanesReplay /\ ParentsReplay /\ ArchivesReplay
  /\ \A c \in Items : trail.priority[c] = priority[c]
  /\ trail.facts = UNION {Spellings(row) : row \in links}

(* _links_from_json, _check_parents: the ends of links exist and differ,   *)
(* one symmetric fact is not stored in both spellings, and no chain of     *)
(* parents comes back to a card, so the saved board can be loaded again.   *)
LoadsAgain ==
  /\ \A row \in links : /\ {row[1], row[3]} \subseteq Items /\ row[1] # row[3]
                        /\ Spellings(row) \cap links = {row}
  /\ \A c \in Items : ~FallsIntoLoop(ParentEdges(parent), c)

(* verify(), "active card in retired lane": no sequence of retiring,       *)
(* archiving, moving and unarchiving strands a visible card.               *)
RetiredLanesAreHidden == \A c \in Items : state[c] \in retired => archived[c]

(* The step is an explicit request for c's priority.                       *)
AskedFor(c) ==
  \/ \E p \in Priority : SetPriority(c, p)
  \/ \E S \in BatchRef, p \in Priority : c \in S /\ SetPriorities(S, p)

(* enforce_dependency_priorities, "Promote through unfinished cards        *)
(* without demotions": a card nobody asked about only ever becomes more    *)
(* urgent, and only as urgent as a card it blocks after the step that was  *)
(* not itself promoted by it.                                              *)
Owed(c) ==
  /\ Rank[priority'[c]] < Rank[priority[c]]
  /\ \E d \in Downstream(UrgentEdges(links', state'), c) \ {c} :
       /\ Rank[priority'[d]] = Rank[priority'[c]]
       /\ Rank[priority'[d]] = Rank[priority[d]] \/ d \notin Items \/ AskedFor(d)

PriorityChangesAreOwed ==
  [][\A c \in Items : priority'[c] # priority[c] => Owed(c) \/ AskedFor(c)]_vars
=============================================================================
