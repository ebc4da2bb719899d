--------------------------- MODULE MCMessageQueue ---------------------------
(* MessageQueue on small instances. *)
EXTENDS MessageQueue

\* Every result of a call, and those that leave the agent's answer clear.
AllResults == {"ok", "changing", "refused", "unconfirmed"}
PlainResults == {"ok", "refused"}
=============================================================================
