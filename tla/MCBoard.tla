------------------------------- MODULE MCBoard -------------------------------
(* Small boards for TLC: the cards are interchangeable; two of the three   *)
(* priorities have the same rank, as P1 and P01 have in priority_ranks.    *)
EXTENDS BoardOrder, TLC

CONSTANTS Relations  \* most relationships carried by one creation

MCRank == [p \in Priority |-> IF p = "P0" THEN 0 ELSE 1]

Relation == KindRef \X Card
MCRelationRef == {S \in SUBSET Relation : Cardinality(S) <= Relations}

MCPairs == {S \in SUBSET Card : Cardinality(S) = 2}

Symmetry == Permutations(Card)

(* One operator who may create in todo and complete and reopen cards.      *)
OneCreate == {<<"claude", "todo">>}
OneMove   == {<<"claude", "todo", "completed">>, <<"claude", "completed", "todo">>}

(* A human and a bot.  Only the human moves a card out of review, and the  *)
(* bot may not create in the done lane.                                    *)
TwoCreate == {<<"terry", "todo">>, <<"claude", "todo">>}
TwoMove   == {<<"claude", "todo", "ready_for_review">>,
              <<"terry", "ready_for_review", "completed">>,
              <<"terry", "completed", "todo">>}
(* Either a lane is added for the human, and the bot is let in, or the     *)
(* review lane is given the new id; the lane called old may be retired.    *)
OneAddition  == {[lane |-> "old", creators |-> {"terry"}, connected |-> {}]}
OneGrant     == {[actors |-> {"claude"}, create |-> {"old"}, moves |-> {<<"todo", "old">>, <<"old", "todo">>}]}
OneMigration == {<<"ready_for_review", "old">>}
=============================================================================
