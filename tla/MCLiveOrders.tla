------------------------------ MODULE MCLiveOrders ------------------------------
\* LiveOrders for TLC.  Placements and venue order ids are interchangeable.
EXTENDS LiveOrders, TLC

Symmetry == Permutations(Tasks) \cup Permutations(OrderIds)

================================================================================
