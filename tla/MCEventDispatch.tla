-------------------------- MODULE MCEventDispatch --------------------------
(* Two URLs whose texts do not overlap, one interface id: by interface id    *)
(* both URLs compete for one registration, by URL they hold one each.        *)
EXTENDS EventDispatch, TLC

MCOverlap == {<<u, u>> : u \in Urls}

Sym == Permutations(Urls) \cup Permutations(Producers)

=============================================================================
