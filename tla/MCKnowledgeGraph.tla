-------------------------- MODULE MCKnowledgeGraph --------------------------
(* KnowledgeGraph for TLC: the constants get their values in the .cfg files. *)
EXTENDS KnowledgeGraph, TLC

Symmetric == Permutations(Callers)
=============================================================================
