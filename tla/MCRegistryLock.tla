--------------------------- MODULE MCRegistryLock ---------------------------
EXTENDS RegistryLock, TLC

Symmetry == Permutations(Procs) \union Permutations(Repos)

=============================================================================
