-------------------------- MODULE MCPlatformServices --------------------------
(* One key; three callers of one tool; two threads.                        *)
EXTENDS PlatformServices
==============================================================================
