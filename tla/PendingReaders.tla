--------------------------- MODULE PendingReaders ---------------------------
(***************************************************************************)
(* The lock-free readers of log.Log (src/log/log.go) running against the   *)
(* writers, syncs and crashes of PendingLog: Read, Range, ScanFromEnd and  *)
(* Snapshot.  Each loads the pending view, some load it twice, and then    *)
(* each takes one look at the disk log under its read lock.                *)
(***************************************************************************)
EXTENDS PendingLog

CONSTANTS
  Reader,       \* goroutines that read
  NotFound      \* the answer ErrNotFound

ASSUME ReaderAssumption == Reader \cap Thread = {} /\ NotFound \notin Payload

VARIABLE
  rd            \* each reader's locals
                \*   op    the call in progress or just finished
                \*   at    where it is
                \*   idx   Read's argument
                \*   view  the captured pending view
                \*   last  ScanFromEnd's start, a Snapshot's bound
                \*   out   what the call returned
                \*   floor history: how many records were accepted at the call

rvars == <<vars, rd>>

IdleReader == [op |-> "none", at |-> "idle", idx |-> 0, view |-> NoEntries,
               last |-> 0, out |-> <<>>, floor |-> 0]

RInit == Init /\ rd = [r \in Reader |-> IdleReader]

-----------------------------------------------------------------------------
\* Spelled out, though SequencesExt has both: without that module the proofs
\* about the readers take a quarter of the time.
Backwards(s) == [i \in 1..Len(s) |-> s[Len(s) - i + 1]]
PrefixOf(s, t) == Len(s) <= Len(t) /\ \A i \in 1..Len(s) : s[i] = t[i]

\* l.pend.Load() at the head of each call.
Begin(r, op, i, label) ==
  /\ rd[r].at \in {"idle", "done"}
  /\ rd' = [rd EXCEPT ![r] = [op |-> op, at |-> label, idx |-> i, view |-> pend,
                              last |-> 0, out |-> <<>>, floor |-> Len(accepted)]]
  /\ UNCHANGED vars

Finish(r, out) ==
  /\ rd' = [rd EXCEPT ![r] = [@ EXCEPT !.at = "done", !.out = out]]
  /\ UNCHANGED vars

\* Read: the captured view answers, or one look at the disk does.
CallRead(r, i) == Begin(r, "read", i, "disk")

\* A mutated form: the captured view is not consulted.
AnswerReadDiskOnly(r) ==
  LET i == rd[r].idx
  IN /\ rd[r].op = "read" /\ rd[r].at = "disk"
     /\ Finish(r, <<IF i <= Len(disk) THEN disk[i] ELSE NotFound>>)

AnswerRead(r) ==
  LET v == rd[r].view
      i == rd[r].idx
  IN /\ rd[r].op = "read" /\ rd[r].at = "disk"
     /\ Finish(r, <<IF InView(v, i) THEN ViewAt(v, i)
                    ELSE IF i <= Len(disk) THEN disk[i] ELSE NotFound>>)

\* The part of a view at or below index n, and of the disk.
ViewThrough(v, n) == SubSeq(v.entries, 1, n - v.first + 1)
DiskThrough(n) == SubSeq(disk, 1, IF n < Len(disk) THEN n ELSE Len(disk))

\* Range from index 1: the disk below the captured view, then the view.
\* The disk walk holds the disk log's read lock throughout.
CallRange(r) == Begin(r, "range", 0, "disk")

\* A mutated form: the disk walk is not stopped where the view begins.
AnswerRangeUnbounded(r) ==
  /\ rd[r].op = "range" /\ rd[r].at = "disk"
  /\ Finish(r, disk \o rd[r].view.entries)

AnswerRange(r) ==
  LET v == rd[r].view
  IN /\ rd[r].op = "range" /\ rd[r].at = "disk"
     /\ Finish(r, IF v.entries # <<>>
                    THEN DiskThrough(v.first - 1) \o v.entries
                    ELSE disk)

\* ScanFromEnd from the tail and Snapshot: after the captured view they call
\* LastIndex, which loads the view again and, when that one is empty, asks
\* the disk log.
CallScan(r) == Begin(r, "scan", 0, "tail")
CallSnapshot(r) == Begin(r, "snapshot", 0, "tail")

AfterTail(r) == IF rd[r].op = "scan" THEN "disk" ELSE "done"

\* A mutated form: the tail found in the view is one short.
LoadTailShort(r) ==
  /\ rd[r].at = "tail"
  /\ rd' = IF pend.entries # <<>>
             THEN [rd EXCEPT ![r].last = ViewLast(pend) - 1,
                             ![r].at = AfterTail(r)]
             ELSE [rd EXCEPT ![r].at = "diskTail"]
  /\ UNCHANGED vars

LoadTail(r) ==
  /\ rd[r].at = "tail"
  /\ rd' = IF pend.entries # <<>>
             THEN [rd EXCEPT ![r] = [@ EXCEPT !.last = ViewLast(pend), !.at = AfterTail(r)]]
             ELSE [rd EXCEPT ![r] = [@ EXCEPT !.at = "diskTail"]]
  /\ UNCHANGED vars

LoadDiskTail(r) ==
  /\ rd[r].at = "diskTail"
  /\ rd' = [rd EXCEPT ![r] = [@ EXCEPT !.last = Len(disk), !.at = AfterTail(r)]]
  /\ UNCHANGED vars

\* A mutated form: the disk part does not start below the view.
AnswerScanOverlapping(r) ==
  LET v == rd[r].view
      from == rd[r].last
      hi == IF from > ViewLast(v) THEN ViewLast(v) ELSE from
  IN /\ rd[r].op = "scan" /\ rd[r].at = "disk"
     /\ Finish(r, IF v.entries # <<>> /\ from >= v.first
                    THEN Backwards(ViewThrough(v, hi)) \o
                         Backwards(DiskThrough(from))
                    ELSE Backwards(DiskThrough(from)))

AnswerScan(r) ==
  LET v == rd[r].view
      from == rd[r].last
      hi == IF from > ViewLast(v) THEN ViewLast(v) ELSE from
  IN /\ rd[r].op = "scan" /\ rd[r].at = "disk"
     /\ Finish(r, IF v.entries # <<>> /\ from >= v.first
                    THEN Backwards(ViewThrough(v, hi)) \o
                         Backwards(DiskThrough(v.first - 1))
                    ELSE Backwards(DiskThrough(from)))

\* Snapshot.Read(i) on a finished snapshot.
SnapshotRead(s, i) ==
  IF i > s.last THEN NotFound
  ELSE IF InView(s.view, i) THEN ViewAt(s.view, i)
  ELSE IF i <= Len(disk) THEN disk[i] ELSE NotFound

\* A crash ends the readers with their process.
ReaderStep(r) ==
  \/ \E i \in 1..MaxIndex : CallRead(r, i)
  \/ CallRange(r) \/ CallScan(r) \/ CallSnapshot(r)
  \/ AnswerRead(r) \/ AnswerRange(r) \/ AnswerScan(r)
  \/ LoadTail(r) \/ LoadDiskTail(r)

Crashes == Kill \/ \E n \in synced..Len(disk) : PowerLoss(n)

RNext ==
  \/ \E r \in Reader : ReaderStep(r)
  \/ \E t \in Thread : /\ \/ Step(t)
                          \/ DiskFault(t)
                          \/ \E p \in Payload : Publish(t, p)
                          \/ \E n \in 1..MaxIndex : CallSync(t, n)
                       /\ UNCHANGED rd
  \/ Crashes /\ rd' = [r \in Reader |-> IdleReader]

RSpec == RInit /\ [][RNext]_rvars

-----------------------------------------------------------------------------
Done(r, op) == rd[r].op = op /\ rd[r].at = "done"

\* Read never misses a record accepted before the call, however a sync moves
\* it from the buffer to the disk meanwhile, and never returns another one.
ReadFindsAccepted ==
  \A r \in Reader : Done(r, "read") =>
    IF rd[r].out = <<NotFound>> THEN rd[r].idx > rd[r].floor
                                ELSE rd[r].out = <<accepted[rd[r].idx]>>

\* "a concurrent sync can neither duplicate nor drop a record mid-iteration":
\* Range yields every record accepted before the call, in order, once each.
RangeIsPrefix ==
  \A r \in Reader : Done(r, "range") =>
    /\ PrefixOf(rd[r].out, accepted)
    /\ Len(rd[r].out) >= rd[r].floor

\* ScanFromEnd yields the same records in descending order.
ScanIsReversedPrefix ==
  \A r \in Reader : Done(r, "scan") =>
    /\ PrefixOf(Backwards(rd[r].out), accepted)
    /\ Len(rd[r].out) >= rd[r].floor

\* A snapshot never shows a record at an index where another was accepted,
\* and serves every record accepted before the call, whatever is synced after.
SnapshotNeverLies ==
  \A r \in Reader : Done(r, "snapshot") =>
    \A i \in 1..Len(accepted) :
      LET got == SnapshotRead(rd[r], i)
      IN /\ got \in {accepted[i], NotFound}
         /\ i <= rd[r].floor => got = accepted[i]
=============================================================================
