-------------------------- MODULE MCLifecycleEngine --------------------------
EXTENDS LifecycleEngine, TLC

\* Ids of a kind are interchangeable: no action or property tells them apart.
IdSymmetry == Permutations(LifecycleIds)
                \cup Permutations(ClientIds)
                \cup Permutations(VenueIds)

================================================================================
