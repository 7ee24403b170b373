-------------------------- MODULE MCPendingReaders --------------------------
(***************************************************************************)
(* PendingReaders for TLC: threads and payloads are interchangeable.       *)
(***************************************************************************)
EXTENDS PendingReaders, TLC

Symmetry == Permutations(Thread) \cup Permutations(Payload)
=============================================================================
