--------------------------- MODULE MCRequestBook ---------------------------
(* RequestBook with three requests, of which the second is a question. *)
EXTENDS RequestBook

MCQuestions == {2}
=============================================================================
