---------------------------- MODULE MCDdsReplService ----------------------------
(* Two clients, one of which makes two calls: the second call of a client    *)
(* can meet the response to its first one, and the response to another       *)
(* client's. Depth 1 lets a request be overwritten in the server's reader.   *)
EXTENDS DdsReplService

MCType == {"CTRL_CMD"}
Mctype == [r \in Request |-> "CTRL_CMD"]
Mcclient == [r \in Request |-> IF r = 3 THEN "other" ELSE "one"]
=============================================================================
