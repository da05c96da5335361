----------------------------- MODULE MC_Portfolio -----------------------------
(* Instances of Portfolio for TLC: a published page; two of them,
   one with a domain; or one with an alias. *)
EXTENDS Portfolio, PopularSearch, TLC

CONSTANTS u1, u2, a, b, c, g1, g2, h1

MCRows == Pages \cup LinkRows \cup DomainRows
PageOf(u, slug) == Page(u) :> [slug |-> slug, former |-> NoSlug, published |-> TRUE]
AliasOf(u, slug) == Link(1) :> [owner |-> u, slug |-> slug, active |-> TRUE]
DomainOf(u, host) == Domain(1) :> [owner |-> u, host |-> host]

MCFirstTables ==
    {PageOf(u1, a),
     PageOf(u1, a) @@ PageOf(u2, b) @@ DomainOf(u1, h1),
     PageOf(u1, a) @@ AliasOf(u1, c)}
MCLinksMax == [p \in Plans |-> IF p = "free" THEN 2 ELSE 3]
MCDomainsMax == [p \in Plans |-> IF p = "free" THEN 0 ELSE 1]

Symmetry == Permutations(Sessions) \cup Permutations({g1, g2})
=============================================================================
