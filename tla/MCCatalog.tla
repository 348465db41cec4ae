------------------------------ MODULE MCCatalog ------------------------------
(* Instances of Catalog for TLC. *)
EXTENDS Catalog, TLC

CONSTANTS u1, u2, o1, o2, d1, r1, r2

\* Emails, slugs and request slots are interchangeable.
CatalogSymmetry == Permutations(User) \cup Permutations(Org) \cup Permutations(Request)
=============================================================================
