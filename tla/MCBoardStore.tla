---------------------------- MODULE MCBoardStore ----------------------------
(* BoardStore with its bounds given by the .cfg files.                     *)
EXTENDS BoardStore, TLC

(* Clients are alike, and so are cards.                                    *)
Symmetry == Permutations(Client) \cup Permutations(Card)
=============================================================================
