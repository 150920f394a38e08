--------------------------- MODULE MCShmInspector ---------------------------
(***************************************************************************)
(* Two memories with a queue of one slot each. Both masters come and go    *)
(* and come again, as often as they like.                                  *)
(***************************************************************************)
EXTENDS ShmInspector

MCQueues == <<{"motor"}, {"request"}>>

=============================================================================
