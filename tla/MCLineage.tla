----------------------------- MODULE MCLineage -----------------------------
(* Lineage for TLC: goroutines are interchangeable. *)
EXTENDS Lineage, TLC

Symmetry == Permutations(Proc)

\* One related channel of any kind.
AnyKind == [Related -> {"keyed", "reducible", "unkeyed"}]
\* The machine loses power; or the process is killed and its disk fails.  A kill
\* followed by a power loss is a gap of its own: see the README.
PowerOrKill == {{"power"}, {"kill", "io"}}
=============================================================================
