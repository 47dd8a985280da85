-------------------------- MODULE MCKnowledgeGraph --------------------------
EXTENDS KnowledgeGraph, TLC

Symmetry == Permutations(Ids) \union Permutations(RelIds) \union Permutations(Paths)

=============================================================================
