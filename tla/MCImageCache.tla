---------------------------- MODULE MCImageCache ----------------------------
(* Two pullers, a reference that moves between two images that share a      *)
(* layer, and a second reference to one of them.                            *)
EXTENDS ImageCache, TLC

CONSTANTS p1, p2, r1, r2, d1, d2, l1, l2

MCTags == r1 :> {d1, d2} @@ r2 :> {d1}
MCLayersOf == d1 :> {l1} @@ d2 :> {l1, l2}

Sym == Permutations(Pullers)

\* A GC is explored with nothing old: it does not look at ages.
AgedForEvict == cpc \in {"refs", "remove"} => old = {}
=============================================================================
