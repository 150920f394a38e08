----------------------------- MODULE MCReplService -----------------------------
(* Three calls from three threads; two of them carry the same command type,  *)
(* so the type in a reply does not tell which of them it answers.            *)
EXTENDS ReplService

MCType == {"CTRL_CMD", "ECAT_MASTER_CMD"}
Mctype == [r \in Request |-> IF r = 3 THEN "ECAT_MASTER_CMD" ELSE "CTRL_CMD"]
=============================================================================
