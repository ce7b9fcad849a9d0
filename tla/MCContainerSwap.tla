-------------------------- MODULE MCContainerSwap --------------------------
(***************************************************************************)
(* ContainerSwap on a small instance: a raw app that may roll, one with a  *)
(* data volume, one with secrets, and two MCP v3 apps.                     *)
(***************************************************************************)
EXTENDS ContainerSwap

App(m, v, s) == [mcp |-> m, vol |-> v, sec |-> s]
MCApps == {App("no", "no", "no"), App("no", "yes", "no"), App("no", "no", "yes"),
           App("yes", "no", "yes"), App("yes", "yes", "yes")}

=============================================================================
