----------------------------- MODULE PendingLog -----------------------------
(***************************************************************************)
(* log.Log (src/log/log.go) as log.Store hands it out: a disk log fronted  *)
(* by a buffer of accepted but unsynced records.  Write publishes into the *)
(* buffer; SyncThrough copies a captured batch to disk, fsyncs, and only   *)
(* then trims the buffer.  Threads interleave at every lock boundary, disk *)
(* writes and fsyncs may fail, the process may be killed and the machine   *)
(* may lose power at any point.                                            *)
(*                                                                         *)
(* A section under wmu is one step.  fmu is held across several steps, so  *)
(* it is a variable, and the locals of the one SyncThrough that holds it   *)
(* are the single record flush.  Every payload counts one byte.            *)
(***************************************************************************)
EXTENDS Naturals, Sequences, FiniteSets

CONSTANTS
  Thread,       \* goroutines that call Write and SyncThrough
  NoThread,     \* fmu is free
  Payload,      \* record payloads
  MaxLag,       \* Options.MaxUnflushedBytes, in records
  MaxIndex,     \* bound: no index above it is written
  DiskFaults    \* whether disk writes and fsyncs may fail

ASSUME ThreadAssumption == NoThread \notin Thread
ASSUME BoundAssumption == MaxLag \in Nat /\ MaxIndex \in Nat
ASSUME FaultAssumption == DiskFaults \in BOOLEAN

VARIABLES
  disk,         \* l.inner: the frames in the segment files, index 1 first
  synced,       \* how many of those frames an fsync has covered
  pend,         \* l.pend: the pending view [first, entries]
  pendingBytes, \* l.pendingBytes
  fmu,          \* the thread holding l.fmu, or NoThread
  flush,        \* locals of SyncThrough: first, batch, next index to copy
  pc,           \* where each thread is in Write / SyncThrough
  target,       \* the argument of each thread's SyncThrough
  accepted,     \* history: every record Write published and no crash lost
  promised,     \* history: highest index a SyncThrough fsynced and trimmed
  recovered,    \* history: how many records the last open found on disk
  writing       \* history: the threads whose Write has not returned

logVars == <<disk, synced, pend, pendingBytes>>
history == <<accepted, promised, recovered>>
vars == <<disk, synced, pend, pendingBytes, fmu, flush, pc, target,
          accepted, promised, recovered, writing>>

\* The pcs at which a thread holds fmu.
Flushing == {"capture", "durable", "copy", "fsync", "trim"}

\* Type invariant; pendingBytes, which SyncThrough decrements batch by batch,
\* never goes below zero.
TypeOK ==
  /\ disk \in Seq(Payload)
  /\ synced \in Nat
  /\ pend \in [first : Nat, entries : Seq(Payload)]
  /\ pendingBytes \in Nat
  /\ fmu \in Thread \cup {NoThread}
  /\ flush \in [first : Nat, batch : Seq(Payload), next : Nat]
  /\ pc \in [Thread -> {"idle", "over", "lock"} \cup Flushing]
  /\ target \in [Thread -> Nat]
  /\ accepted \in Seq(Payload)
  /\ promised \in Nat
  /\ recovered \in Nat
  /\ writing \subseteq Thread

-----------------------------------------------------------------------------
\* The empty view: pend is nil, or every entry has been trimmed.
NoEntries == [first |-> 1, entries |-> <<>>]
NoFlush == [first |-> 0, batch |-> <<>>, next |-> 0]

\* pendingView.last, and the index pendingView.at serves for a view.
ViewLast(v) == v.first + Len(v.entries) - 1
InView(v, i) == v.entries # <<>> /\ v.first <= i /\ i <= ViewLast(v)
ViewAt(v, i) == v.entries[i - v.first + 1]

LastIndex == IF pend.entries # <<>> THEN ViewLast(pend) ELSE Len(disk)

\* The one index write accepts; any other is refused with ErrOutOfOrder.
Expected == LastIndex + 1

Goto(t, label) == pc' = [pc EXCEPT ![t] = label]

Init ==
  /\ disk = <<>>
  /\ synced = 0
  /\ pend = NoEntries
  /\ pendingBytes = 0
  /\ fmu = NoThread
  /\ flush = NoFlush
  /\ pc = [t \in Thread |-> "idle"]
  /\ target = [t \in Thread |-> 0]
  /\ accepted = <<>>
  /\ promised = 0
  /\ recovered = 0
  /\ writing = {}

-----------------------------------------------------------------------------
\* A mutated form: an index already pending is accepted again and replaced.
PublishReplaces(t, p) ==
  /\ pc[t] = "idle"
  /\ Expected <= MaxIndex
  /\ IF pend.entries # <<>>
       THEN /\ pend' = [pend EXCEPT !.entries[Len(pend.entries)] = p]
            /\ accepted' = [accepted EXCEPT ![Len(accepted)] = p]
            /\ UNCHANGED pendingBytes
       ELSE /\ pend' = [first |-> Expected, entries |-> <<p>>]
            /\ accepted' = Append(accepted, p)
            /\ pendingBytes' = pendingBytes + 1
  /\ target' = [target EXCEPT ![t] = Expected]
  /\ writing' = writing \cup {t}
  /\ Goto(t, "over")
  /\ UNCHANGED <<disk, synced, fmu, flush, promised, recovered>>

\* Write: publish the record at Expected under wmu.
Publish(t, p) ==
  /\ pc[t] = "idle"
  /\ Expected <= MaxIndex
  /\ pend' = IF pend.entries # <<>>
               THEN [first |-> pend.first, entries |-> Append(pend.entries, p)]
               ELSE [first |-> Expected, entries |-> <<p>>]
  /\ pendingBytes' = pendingBytes + 1
  /\ target' = [target EXCEPT ![t] = Expected]
  /\ accepted' = Append(accepted, p)
  /\ writing' = writing \cup {t}
  /\ Goto(t, "over")
  /\ UNCHANGED <<disk, synced, fmu, flush, promised, recovered>>

\* A mutated form: the lag is compared one record too late.
CheckLagLate(t) ==
  /\ pc[t] = "over"
  /\ IF pendingBytes > MaxLag + 1
       THEN Goto(t, "lock") /\ UNCHANGED writing
       ELSE Goto(t, "idle") /\ writing' = writing \ {t}
  /\ UNCHANGED <<logVars, fmu, flush, target, history>>

\* Write's second wmu section: flush inline through the record just
\* published when the lag exceeds the bound, else return.
CheckLag(t) ==
  /\ pc[t] = "over"
  /\ IF pendingBytes > MaxLag
       THEN Goto(t, "lock") /\ UNCHANGED writing
       ELSE Goto(t, "idle") /\ writing' = writing \ {t}
  /\ UNCHANGED <<logVars, fmu, flush, target, history>>

\* A call of SyncThrough(n).  Sync is n = MaxIndex, above every index.
CallSync(t, n) ==
  /\ pc[t] = "idle"
  /\ target' = [target EXCEPT ![t] = n]
  /\ Goto(t, "lock")
  /\ UNCHANGED <<logVars, fmu, flush, history, writing>>

LockFlush(t) ==
  /\ pc[t] = "lock"
  /\ fmu = NoThread
  /\ fmu' = t
  /\ Goto(t, "capture")
  /\ UNCHANGED <<logVars, flush, target, history, writing>>

\* The deferred fmu.Unlock and the return, with or without an error.
Return(t) ==
  /\ fmu' = NoThread
  /\ Goto(t, "idle")
  /\ writing' = writing \ {t}

\* The number of pending records SyncThrough(target) captures.
BatchSize(t) ==
  IF pend.entries # <<>> /\ target[t] >= pend.first
    THEN IF target[t] - pend.first + 1 < Len(pend.entries)
           THEN target[t] - pend.first + 1
           ELSE Len(pend.entries)
    ELSE 0

\* A mutated form: the early return leaves fmu locked.
CaptureNothingLocked(t) ==
  /\ pc[t] = "capture"
  /\ BatchSize(t) = 0
  /\ Goto(t, "idle")
  /\ writing' = writing \ {t}
  /\ UNCHANGED <<logVars, fmu, flush, target, history>>

CaptureNothing(t) ==
  /\ pc[t] = "capture"
  /\ BatchSize(t) = 0
  /\ Return(t)
  /\ UNCHANGED <<logVars, flush, target, history>>

Capture(t) ==
  /\ pc[t] = "capture"
  /\ BatchSize(t) > 0
  /\ flush' = [first |-> pend.first,
               batch |-> SubSeq(pend.entries, 1, BatchSize(t)),
               next  |-> 0]
  /\ Goto(t, "durable")
  /\ UNCHANGED <<logVars, fmu, target, history, writing>>

BatchLast == flush.first + Len(flush.batch) - 1

\* durable := l.inner.LastIndex(): the batch records at or below it reached
\* the disk in an earlier attempt and are skipped.
ReadDurable(t) ==
  /\ pc[t] = "durable"
  /\ flush' = [flush EXCEPT !.next = IF Len(disk) >= flush.first
                                       THEN Len(disk) + 1 ELSE flush.first]
  /\ Goto(t, "copy")
  /\ UNCHANGED <<logVars, fmu, target, history, writing>>

\* inner.Write(next, payload).  The disk log refuses any index but its own
\* next one (ErrOutOfOrder), and SyncThrough then returns that error.
CopyRecord(t) ==
  /\ pc[t] = "copy"
  /\ flush.next <= BatchLast
  /\ IF flush.next = Len(disk) + 1
       THEN /\ disk' = Append(disk, flush.batch[flush.next - flush.first + 1])
            /\ flush' = [flush EXCEPT !.next = @ + 1]
            /\ UNCHANGED <<fmu, pc, writing>>
       ELSE /\ Return(t)
            /\ UNCHANGED <<disk, flush>>
  /\ UNCHANGED <<synced, pend, pendingBytes, target, history>>

CopyDone(t) ==
  /\ pc[t] = "copy"
  /\ flush.next > BatchLast
  /\ Goto(t, "fsync")
  /\ UNCHANGED <<logVars, fmu, flush, target, history, writing>>

\* A mutated form: the active segment is not fsynced.
FsyncNothing(t) ==
  /\ pc[t] = "fsync"
  /\ Goto(t, "trim")
  /\ UNCHANGED <<logVars, fmu, flush, target, history, writing>>

Fsync(t) ==
  /\ pc[t] = "fsync"
  /\ synced' = Len(disk)
  /\ Goto(t, "trim")
  /\ UNCHANGED <<disk, pend, pendingBytes, fmu, flush, target, history,
                 writing>>

\* A mutated form: a failed fsync drops the batch all the same.
DiskFaultTrims(t) ==
  /\ DiskFaults
  /\ pc[t] = "fsync"
  /\ pend' = [first |-> BatchLast + 1,
              entries |-> SubSeq(pend.entries, Len(flush.batch) + 1,
                                 Len(pend.entries))]
  /\ pendingBytes' = pendingBytes - Len(flush.batch)
  /\ Return(t)
  /\ UNCHANGED <<disk, synced, flush, target, history>>

\* inner.Write or inner.Sync returns an error: the buffer is left alone.
DiskFault(t) ==
  /\ DiskFaults
  /\ \/ pc[t] = "copy" /\ flush.next <= BatchLast
     \/ pc[t] = "fsync"
  /\ Return(t)
  /\ UNCHANGED <<logVars, flush, target, history>>

\* Mutated forms of the trim below: it empties the whole buffer, it forgets the
\* byte count, it subtracts the batch twice.
TrimAll(t) ==
  /\ pc[t] = "trim"
  /\ pend' = [first |-> BatchLast + 1, entries |-> <<>>]
  /\ pendingBytes' = 0
  /\ promised' = IF BatchLast > promised THEN BatchLast ELSE promised
  /\ Return(t)
  /\ UNCHANGED <<disk, synced, flush, target, accepted, recovered>>

TrimCounting(t, bytes) ==
  /\ pc[t] = "trim"
  /\ pend' = [first |-> BatchLast + 1,
              entries |-> SubSeq(pend.entries, Len(flush.batch) + 1,
                                 Len(pend.entries))]
  /\ pendingBytes' = pendingBytes - bytes
  /\ promised' = IF BatchLast > promised THEN BatchLast ELSE promised
  /\ Return(t)
  /\ UNCHANGED <<disk, synced, flush, target, accepted, recovered>>

TrimKeepsBytes(t) == TrimCounting(t, 0)
TrimSubtractsTwice(t) == TrimCounting(t, 2 * Len(flush.batch))

\* The closing wmu section: drop the batch from the buffer and return nil.
Trim(t) ==
  /\ pc[t] = "trim"
  /\ pend' = IF pend.first = flush.first
               THEN [first |-> BatchLast + 1,
                     entries |-> SubSeq(pend.entries, Len(flush.batch) + 1,
                                        Len(pend.entries))]
               ELSE pend
  /\ pendingBytes' = pendingBytes - Len(flush.batch)
  /\ promised' = IF BatchLast > promised THEN BatchLast ELSE promised
  /\ Return(t)
  /\ UNCHANGED <<disk, synced, flush, target, accepted, recovered>>

-----------------------------------------------------------------------------
\* The handle of a log reopened over n records: an empty buffer and no
\* call in progress.
Reopen(n) ==
  /\ pend' = NoEntries
  /\ pendingBytes' = 0
  /\ fmu' = NoThread
  /\ flush' = NoFlush
  /\ pc' = [t \in Thread |-> "idle"]
  /\ target' = [t \in Thread |-> 0]
  /\ accepted' = SubSeq(accepted, 1, n)
  /\ recovered' = n
  /\ writing' = {}
  /\ UNCHANGED promised

\* The process dies; what it had written to its files stays in them.
Kill ==
  /\ Reopen(Len(disk))
  /\ UNCHANGED <<disk, synced>>

\* The machine dies: any part of the unsynced suffix is gone, and what the
\* scan of segment.recover accepts is a prefix.
PowerLoss(n) ==
  /\ n \in synced..Len(disk)
  /\ Reopen(n)
  /\ disk' = SubSeq(disk, 1, n)
  /\ synced' = n

Step(t) ==
  \/ CheckLag(t) \/ LockFlush(t) \/ CaptureNothing(t) \/ Capture(t)
  \/ ReadDurable(t) \/ CopyRecord(t) \/ CopyDone(t) \/ Fsync(t) \/ Trim(t)

Next ==
  \/ \E t \in Thread : \/ Step(t)
                       \/ DiskFault(t)
                       \/ \E p \in Payload : Publish(t, p)
                       \/ \E n \in 1..MaxIndex : CallSync(t, n)
  \/ Kill
  \/ \E n \in synced..Len(disk) : PowerLoss(n)

Spec == Init /\ [][Next]_vars

\* A goroutine that can run does, and sync.Mutex hands a contended lock to
\* a waiter that has starved: once fmu is free again and again, each waiter
\* gets it.  Nothing makes a caller call, a disk fail or a machine crash.
Fairness ==
  \A t \in Thread : WF_vars(Step(t)) /\ SF_vars(LockFlush(t))

FairSpec == Spec /\ Fairness

-----------------------------------------------------------------------------
(* Properties.                                                             *)

\* What Read returns for an index in range: the buffer first, then the disk.
Served(i) == IF InView(pend, i) THEN ViewAt(pend, i) ELSE disk[i]

\* At every moment, also in the middle of a sync, after a failed one and
\* after a crash, the log serves exactly the accepted records, each at its
\* own index and with no hole at the seam between disk and buffer (Write,
\* SyncThrough, Read, LastIndex).
ServesAccepted ==
  /\ LastIndex = Len(accepted)
  /\ \A i \in 1..Len(accepted) :
       /\ InView(pend, i) \/ i <= Len(disk)
       /\ Served(i) = accepted[i]

\* A record that left the buffer through a successful SyncThrough has been
\* fsynced, so no later crash can lose it ("the buffer is trimmed only after
\* the fsync succeeds").
PromiseIsSynced == promised <= synced /\ synced <= Len(disk)

\* Every record this process accepted and no fsync has covered is still in
\* the buffer, so that the next SyncThrough retries it ("a failed sync
\* retries safely").
NoStrandedRecord ==
  \A i \in (recovered + 1)..Len(accepted) : i > synced => InView(pend, i)

\* The byte count that triggers inline flushes is that of the buffer, however
\* syncs fail and overlap with writes.
BytesMatchBuffer == pendingBytes = Len(pend.entries)

\* A healthy disk keeps the lag within the bound, save for one record of
\* each Write still in progress (Write publishes before it flushes).
LagBound ==
  ~DiskFaults => pendingBytes <= MaxLag + Cardinality(writing)

\* SyncThrough, and a Write that flushes inline, always return.
SyncReturns == \A t \in Thread : pc[t] = "lock" ~> pc[t] = "idle"

\* The buffered log is a durable log: history is append-only, and a crash
\* takes only what was never reported durable.
Durable == INSTANCE DurableLog WITH log <- accepted, durable <- promised
RefinesDurableLog == Durable!Spec
=============================================================================
