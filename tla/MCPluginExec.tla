----------------------------- MODULE MCPluginExec -----------------------------
(* Three adapters, as the DDS plugins register: publishers, subscribers and  *)
(* the service. The processes are numbered, so there is no symmetry.         *)
EXTENDS PluginExec
=============================================================================
