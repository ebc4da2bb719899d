--------------------------- MODULE MCTurnControl ---------------------------
(* TurnControl on a small instance. *)
EXTENDS TurnControl
=============================================================================
