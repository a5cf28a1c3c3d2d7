------------------------- MODULE MCDependencyGraph -------------------------
(***************************************************************************)
(* DependencyGraph on all 65536 dependency maps over four engines, the     *)
(* ones in which an engine depends on itself included.                     *)
(***************************************************************************)
EXTENDS DependencyGraph

CONSTANTS e1, e2, e3, e4

MCNodes      == {e1, e2, e3, e4}
MCEntryOrder == <<e2, e3, e4, e1>>
MCNameOrder  == <<e1, e2, e3, e4>>
=============================================================================
