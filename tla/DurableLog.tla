----------------------------- MODULE DurableLog -----------------------------
(***************************************************************************)
(* What one figwal log promises its callers, with no buffers, segments or  *)
(* threads: a sequence of records that grows at its end, and a prefix of   *)
(* it that no crash can take away.  A crash may drop any part of the       *)
(* suffix that was never reported durable.                                 *)
(***************************************************************************)
EXTENDS Naturals, Sequences

CONSTANT Payload      \* the records a caller may append

VARIABLES
  log,                \* the records, in index order; index 1 is log[1]
  durable             \* records 1..durable survive every crash

vars == <<log, durable>>

TypeOK ==
  /\ log \in Seq(Payload)
  /\ durable \in 0..Len(log)

Init ==
  /\ log = <<>>
  /\ durable = 0

\* A record is accepted at the next index and is readable from then on.
Accept(p) ==
  /\ log' = Append(log, p)
  /\ UNCHANGED durable

\* Some longer prefix is reported durable.
Persist(n) ==
  /\ n \in durable..Len(log)
  /\ durable' = n
  /\ UNCHANGED log

\* A crash keeps the durable prefix and any part of what follows it.
Crash(n) ==
  /\ n \in durable..Len(log)
  /\ log' = SubSeq(log, 1, n)
  /\ UNCHANGED durable

Next ==
  \/ \E p \in Payload : Accept(p)
  \/ \E n \in durable..Len(log) : Persist(n) \/ Crash(n)

Spec == Init /\ [][Next]_vars
=============================================================================
