--------------------------- MODULE MCTokenEndpoint ---------------------------
(* Small instances of TokenEndpoint.                                       *)
EXTENDS TokenEndpoint, TLC

CONSTANTS c1, c2

\* Both clients may use every grant.
MCAllGrants == [c \in Clients |-> GrantTypes]

\* Slots are interchangeable, and so are clients with the same grants.
SlotSymmetry == Permutations(Requests)

ClientSymmetry == Permutations(Clients)

Symmetry == SlotSymmetry \cup ClientSymmetry

=============================================================================
