----------------------------- MODULE MCDebugLog -----------------------------
(* DebugLog with two threads.                                              *)
EXTENDS DebugLog

MCThreads == {"main", "worker"}
MCSetters == {"main", "worker"}
MCPaths   == {"a.log", "b.log"}
=============================================================================
