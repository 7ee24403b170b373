-------------------------- MODULE PendingLogProofs --------------------------
(***************************************************************************)
(* Proofs about PendingLog for every number of threads, set of payloads,   *)
(* lag bound and log length, with and without disk faults and crashes.     *)
(***************************************************************************)
EXTENDS PendingLog, SequenceTheorems, FiniteSetTheorems, TLAPS

\* Disk and buffer overlap or touch, and both agree with the history.
Content ==
  /\ Len(accepted) = LastIndex
  /\ Len(disk) <= Len(accepted)
  /\ pend.entries # <<>> => pend.first \in 1..(Len(disk) + 1)
  /\ \A i \in 1..Len(disk) : disk[i] = accepted[i]
  /\ \A i \in 1..Len(pend.entries) :
       pend.entries[i] = accepted[pend.first + i - 1]

\* What is unsynced and not inherited from an earlier process is buffered.
Durability ==
  /\ PromiseIsSynced
  /\ BytesMatchBuffer
  /\ pend.entries # <<>> => pend.first <= synced + 1 \/ pend.first <= recovered + 1
  /\ pend.entries = <<>> => Len(disk) <= synced \/ Len(disk) <= recovered

\* Only the holder of fmu flushes, and its batch is the head of the buffer:
\* nothing but its own trim, or a crash, removes buffered records.
FlushState ==
  \A t \in Thread :
    /\ pc[t] \in Flushing => fmu = t
    /\ pc[t] \in Flushing \ {"capture"} =>
         /\ Len(flush.batch) \in 1..Len(pend.entries)
         /\ flush.first = pend.first
         /\ \A i \in 1..Len(flush.batch) : flush.batch[i] = pend.entries[i]
    /\ pc[t] = "copy" => flush.next = Len(disk) + 1
    /\ pc[t] = "fsync" => Len(disk) >= BatchLast
    /\ pc[t] = "trim" => synced >= BatchLast

IInv == TypeOK /\ Content /\ Durability /\ FlushState

-----------------------------------------------------------------------------
\* The first n elements of a sequence, as Capture, Kill and PowerLoss keep.
LEMMA PrefixFacts ==
  ASSUME NEW S, NEW s \in Seq(S), NEW n \in 0..Len(s)
  PROVE  /\ SubSeq(s, 1, n) \in Seq(S)
         /\ Len(SubSeq(s, 1, n)) = n
         /\ \A i \in 1..n : SubSeq(s, 1, n)[i] = s[i]
<1>1. \A i \in 1..n : s[i] \in S
  BY ElementOfSeq
<1>. QED
  BY <1>1, SubSeqProperties

\* The elements of a sequence after the first n, as Trim keeps.
LEMMA SuffixFacts ==
  ASSUME NEW S, NEW s \in Seq(S), NEW n \in 0..Len(s)
  PROVE  /\ SubSeq(s, n + 1, Len(s)) \in Seq(S)
         /\ Len(SubSeq(s, n + 1, Len(s))) = Len(s) - n
         /\ \A i \in 1..(Len(s) - n) : SubSeq(s, n + 1, Len(s))[i] = s[n + i]
<1>1. \A i \in (n + 1)..Len(s) : s[i] \in S
  BY ElementOfSeq
<1>2. /\ SubSeq(s, n + 1, Len(s)) \in Seq(S)
      /\ Len(SubSeq(s, n + 1, Len(s))) =
           IF n + 1 <= Len(s) THEN Len(s) - (n + 1) + 1 ELSE 0
      /\ \A i \in 1..(Len(s) - (n + 1) + 1) :
           SubSeq(s, n + 1, Len(s))[i] = s[(n + 1) + i - 1]
  <2>. HIDE <1>1
  <2>. n + 1 \in Int /\ Len(s) \in Int
    BY LenProperties
  <2>. QED
    BY <1>1, SubSeqProperties
<1>. QED
  BY <1>2, LenProperties

\* The empty log satisfies the inductive invariant.
LEMMA InitIInv == Init => IInv
BY ThreadAssumption
   DEF Init, IInv, TypeOK, Content, Durability, FlushState, PromiseIsSynced,
       BytesMatchBuffer, NoEntries, NoFlush, LastIndex, Flushing

\* Write's publication keeps the invariant.
LEMMA PublishIInv ==
  ASSUME IInv, NEW t \in Thread, NEW p \in Payload, Publish(t, p)
  PROVE  IInv'
<1>. USE DEF IInv
<1>1. /\ Append(accepted, p) \in Seq(Payload)
      /\ Len(Append(accepted, p)) = Len(accepted) + 1
      /\ \A i \in 1..Len(accepted) : Append(accepted, p)[i] = accepted[i]
      /\ Append(accepted, p)[Len(accepted) + 1] = p
  BY AppendProperties DEF TypeOK
<1>2. /\ Append(pend.entries, p) \in Seq(Payload)
      /\ Append(pend.entries, p) # <<>>
      /\ Len(Append(pend.entries, p)) = Len(pend.entries) + 1
      /\ \A i \in 1..Len(pend.entries) :
           Append(pend.entries, p)[i] = pend.entries[i]
      /\ Append(pend.entries, p)[Len(pend.entries) + 1] = p
  BY AppendProperties DEF TypeOK
<1>3. Expected = Len(accepted) + 1 /\ Expected \in Nat
  BY DEF Expected, Content, TypeOK
<1>4. TypeOK'
  BY <1>1, <1>2, <1>3 DEF TypeOK, Publish, Goto, Flushing
<1>5. Content'
  <2>1. CASE pend.entries # <<>>
    <3>1. /\ pend'.first = pend.first
          /\ pend'.entries = Append(pend.entries, p)
          /\ accepted' = Append(accepted, p)
          /\ disk' = disk
      BY <2>1 DEF Publish, TypeOK
    <3>2. Len(accepted) = pend.first + Len(pend.entries) - 1
      BY <2>1 DEF Content, LastIndex, ViewLast
    <3>n. /\ Len(accepted) \in Nat /\ Len(pend.entries) \in Nat
          /\ Len(disk) \in Nat /\ pend.first \in Nat
      BY LenProperties DEF TypeOK
    <3>c. /\ Len(disk) <= Len(accepted)
          /\ pend.first \in 1..(Len(disk) + 1)
      BY <2>1 DEF Content
    <3>3. /\ Len(accepted') = LastIndex'
          /\ Len(disk') <= Len(accepted')
          /\ pend'.first \in 1..(Len(disk') + 1)
      <4>1. LastIndex' = pend.first + (Len(pend.entries) + 1) - 1
        BY <1>2, <3>1 DEF LastIndex, ViewLast
      <4>2. Len(accepted') = Len(accepted) + 1
        BY <1>1, <3>1
      <4>. QED
        BY <3>1, <3>2, <3>n, <3>c, <4>1, <4>2, SMTT(60)
    <3>4. \A i \in 1..Len(disk') : disk'[i] = accepted'[i]
      BY <1>1, <3>1 DEF Content, TypeOK
    <3>5. ASSUME NEW i \in 1..Len(pend'.entries)
          PROVE  pend'.entries[i] = accepted'[pend'.first + i - 1]
      <4>1. CASE i \in 1..Len(pend.entries)
        <5>1. pend.first + i - 1 \in 1..Len(accepted)
          BY <3>2, <3>n, <3>c, <4>1
        <5>. QED
          BY <1>1, <1>2, <3>1, <4>1, <5>1 DEF Content
      <4>2. CASE i = Len(pend.entries) + 1
        <5>1. pend.first + i - 1 = Len(accepted) + 1
          BY <3>2, <3>n, <4>2
        <5>. QED
          BY <1>1, <1>2, <3>1, <4>2, <5>1
      <4>3. /\ Len(pend'.entries) = Len(pend.entries) + 1
            /\ Len(pend.entries) \in Nat
        BY <1>2, <3>1, LenProperties DEF TypeOK
      <4>. QED
        BY <4>1, <4>2, <4>3
    <3>. QED
      BY <3>3, <3>4, <3>5, Zenon DEF Content
  <2>2. CASE pend.entries = <<>>
    <3>1. /\ pend'.first = Len(accepted) + 1
          /\ pend'.entries = <<p>>
          /\ accepted' = Append(accepted, p)
          /\ disk' = disk
          /\ Len(accepted) = Len(disk)
      BY <1>3, <2>2 DEF Publish, TypeOK, Content, LastIndex
    <3>. QED
      BY <1>1, <2>2, <3>1 DEF Content, LastIndex, ViewLast, TypeOK
  <2>. QED
    BY <2>1, <2>2
<1>6. Durability'
  <2>1. CASE pend.entries # <<>>
    BY <1>2, <2>1 DEF Durability, PromiseIsSynced, BytesMatchBuffer,
                      Publish, TypeOK
  <2>2. CASE pend.entries = <<>>
    BY <1>3, <2>2 DEF Durability, PromiseIsSynced, BytesMatchBuffer,
                      Publish, TypeOK, Content, LastIndex
  <2>. QED
    BY <2>1, <2>2
<1>7. FlushState'
  <2>. SUFFICES ASSUME NEW u \in Thread PROVE FlushState!(u)'
    BY DEF FlushState
  <2>1. CASE pc[u] \in Flushing \ {"capture"}
    <3>1. u # t /\ pc'[u] = pc[u]
      BY <2>1 DEF Publish, Goto, TypeOK, Flushing
    <3>2. Len(flush.batch) \in 1..Len(pend.entries) /\ pend.entries # <<>>
      BY <2>1, EmptySeq DEF FlushState, TypeOK
    <3>3. /\ pend'.first = pend.first
          /\ pend'.entries = Append(pend.entries, p)
      BY <3>2 DEF Publish, TypeOK
    <3>4. /\ UNCHANGED <<disk, synced, fmu, flush>>
          /\ BatchLast' = BatchLast
      BY DEF Publish, BatchLast
    <3>5. /\ Len(flush.batch) \in 1..Len(pend'.entries)
          /\ \A i \in 1..Len(flush.batch) : pend'.entries[i] = pend.entries[i]
      <4>1. /\ Len(pend'.entries) = Len(pend.entries) + 1
            /\ \A i \in 1..Len(pend.entries) : pend'.entries[i] = pend.entries[i]
        BY <1>2, <3>3
      <4>2. Len(flush.batch) \in Nat /\ Len(pend.entries) \in Nat
        BY LenProperties DEF TypeOK
      <4>. QED
        BY <3>2, <4>1, <4>2
    <3>6. FlushState!(u)
      BY DEF FlushState
    <3>7. /\ Len(flush.batch)' \in 1..Len(pend.entries)'
          /\ flush.first' = pend.first'
          /\ \A i \in 1..Len(flush.batch)' : flush.batch[i]' = pend.entries[i]'
      BY <2>1, <3>3, <3>4, <3>5, <3>6
    <3>. QED
      BY <2>1, <3>1, <3>4, <3>6, <3>7
  <2>2. CASE pc[u] \notin Flushing \ {"capture"}
    BY <2>2 DEF FlushState, Publish, Goto, TypeOK, Flushing
  <2>. QED
    BY <2>1, <2>2
<1>. QED
  BY <1>4, <1>5, <1>6, <1>7

\* A step that touches neither records nor history keeps what is said of them.
LEMMA SameRecords ==
  ASSUME IInv, UNCHANGED <<logVars, history>>
  PROVE  Content' /\ Durability'
BY DEF IInv, Content, Durability, PromiseIsSynced, BytesMatchBuffer,
       LastIndex, ViewLast, logVars, history

\* Write's lag check, the call of SyncThrough and its fmu.Lock keep the
\* invariant.
LEMMA EnterIInv ==
  ASSUME IInv, NEW t \in Thread,
         \/ CheckLag(t) \/ LockFlush(t)
         \/ \E n \in 1..MaxIndex : CallSync(t, n)
  PROVE  IInv'
<1>. USE DEF IInv
<1>1. Content' /\ Durability'
  BY SameRecords DEF CheckLag, CallSync, LockFlush
<1>2. TypeOK'
  <2>1. CASE CheckLag(t)
    BY <2>1, Zenon DEF TypeOK, CheckLag, Goto, Flushing, logVars, history
  <2>2. CASE LockFlush(t)
    BY <2>2 DEF TypeOK, LockFlush, Goto, Flushing, logVars, history
  <2>3. ASSUME NEW n \in 1..MaxIndex, CallSync(t, n) PROVE TypeOK'
    BY <2>3, BoundAssumption
       DEF TypeOK, CallSync, Goto, Flushing, logVars, history
  <2>. QED
    BY <2>1, <2>2, <2>3
<1>3. FlushState'
  <2>1. CASE CheckLag(t) \/ \E n \in 1..MaxIndex : CallSync(t, n)
    <3>1. /\ UNCHANGED <<logVars, fmu, flush>>
          /\ \A u \in Thread : pc'[u] = pc[u] \/ pc'[u] \in {"idle", "lock"}
      BY <2>1 DEF CheckLag, CallSync, Goto, TypeOK
    <3>2. BatchLast' = BatchLast
      BY <3>1 DEF BatchLast
    <3>. SUFFICES ASSUME NEW u \in Thread PROVE FlushState!(u)'
      BY DEF FlushState
    <3>3. CASE pc'[u] = pc[u]
      BY <3>1, <3>2, <3>3 DEF FlushState, logVars
    <3>4. CASE pc'[u] \in {"idle", "lock"}
      BY <3>4 DEF Flushing
    <3>. QED
      BY <3>1, <3>3, <3>4
  <2>2. CASE LockFlush(t)
    <3>1. \A u \in Thread : pc[u] \notin Flushing
      BY <2>2, ThreadAssumption DEF FlushState, LockFlush
    <3>. QED
      BY <2>2, <3>1, Zenon DEF FlushState, LockFlush, Goto, Flushing, TypeOK
  <2>. QED
    BY <2>1, <2>2
<1>. QED
  BY <1>1, <1>2, <1>3

\* While t holds fmu no other thread flushes.
LEMMA OnlyFlusher ==
  ASSUME IInv, NEW t \in Thread, pc[t] \in Flushing
  PROVE  \A u \in Thread \ {t} : pc[u] \notin Flushing
BY DEF IInv, FlushState

\* A return from SyncThrough leaves no thread flushing.
LEMMA ReturnFlushState ==
  ASSUME IInv, NEW t \in Thread, pc[t] \in Flushing, Return(t)
  PROVE  FlushState'
<1>1. \A u \in Thread : pc'[u] \notin Flushing
  BY OnlyFlusher DEF Return, Goto, IInv, TypeOK, Flushing
<1>. QED
  BY <1>1 DEF FlushState, Flushing

\* A SyncThrough that finds nothing to do, or that fails, keeps the invariant.
LEMMA GiveUpIInv ==
  ASSUME IInv, NEW t \in Thread, CaptureNothing(t) \/ DiskFault(t)
  PROVE  IInv'
<1>1. /\ pc[t] \in Flushing
      /\ Return(t)
      /\ UNCHANGED <<logVars, flush, target, history>>
  BY DEF CaptureNothing, DiskFault, Flushing
<1>2. Content' /\ Durability'
  BY <1>1, SameRecords
<1>3. TypeOK'
  BY <1>1 DEF IInv, TypeOK, Return, Goto, Flushing, logVars, history
<1>4. FlushState'
  BY <1>1, ReturnFlushState
<1>. QED
  BY <1>2, <1>3, <1>4 DEF IInv

\* The captured batch is the head of the buffer.
LEMMA CaptureIInv ==
  ASSUME IInv, NEW t \in Thread, Capture(t)
  PROVE  IInv'
<1>. USE DEF IInv
<1>1. BatchSize(t) \in 1..Len(pend.entries)
  BY LenProperties DEF Capture, BatchSize, TypeOK
<1>2. /\ SubSeq(pend.entries, 1, BatchSize(t)) \in Seq(Payload)
      /\ Len(SubSeq(pend.entries, 1, BatchSize(t))) = BatchSize(t)
      /\ \A i \in 1..BatchSize(t) :
           SubSeq(pend.entries, 1, BatchSize(t))[i] = pend.entries[i]
  <2>1. pend.entries \in Seq(Payload) /\ BatchSize(t) \in 0..Len(pend.entries)
    BY <1>1, LenProperties DEF TypeOK
  <2>. QED
    BY <2>1, PrefixFacts
<1>3. Content' /\ Durability'
  BY SameRecords DEF Capture
<1>4. TypeOK'
  BY <1>2, SMTT(60) DEF TypeOK, Capture, Goto, Flushing, logVars, history
<1>5. FlushState'
  <2>1. \A u \in Thread \ {t} : pc'[u] \notin Flushing
    BY OnlyFlusher, Zenon DEF Capture, Goto, TypeOK, Flushing
  <2>2. pc'[t] = "durable" /\ fmu' = t
    BY DEF Capture, Goto, TypeOK, FlushState, Flushing
  <2>3. /\ flush'.first = pend'.first
        /\ flush'.batch = SubSeq(pend.entries, 1, BatchSize(t))
        /\ pend' = pend
    BY Zenon DEF Capture, logVars
  <2>. QED
    BY <1>1, <1>2, <2>1, <2>2, <2>3 DEF FlushState, Flushing
<1>. QED
  BY <1>3, <1>4, <1>5

\* The copy starts at the record the disk expects next.
LEMMA ReadDurableIInv ==
  ASSUME IInv, NEW t \in Thread, ReadDurable(t)
  PROVE  IInv'
<1>. USE DEF IInv
<1>1. Content' /\ Durability'
  BY SameRecords DEF ReadDurable
<1>2. /\ flush'.first = flush.first
      /\ flush'.batch = flush.batch
      /\ flush'.next = IF Len(disk) >= flush.first
                         THEN Len(disk) + 1 ELSE flush.first
      /\ flush' \in [first : Nat, batch : Seq(Payload), next : Nat]
  <2>1. Len(disk) + 1 \in Nat
    BY LenProperties DEF TypeOK
  <2>. QED
    BY <2>1, Zenon DEF ReadDurable, TypeOK
<1>3. TypeOK'
  BY <1>2, SMTT(60) DEF TypeOK, ReadDurable, Goto, Flushing, logVars, history
<1>4. FlushState'
  <2>1. \A u \in Thread \ {t} : pc'[u] \notin Flushing
    BY OnlyFlusher, Zenon DEF ReadDurable, Goto, TypeOK, Flushing
  <2>2. pc'[t] = "copy" /\ fmu' = t
    BY DEF ReadDurable, Goto, TypeOK, FlushState, Flushing
  <2>3. /\ Len(flush.batch) \in 1..Len(pend.entries)
        /\ flush.first = pend.first
        /\ \A i \in 1..Len(flush.batch) : flush.batch[i] = pend.entries[i]
    BY DEF FlushState, ReadDurable, Flushing
  <2>4. pend.entries # <<>> /\ Len(disk) \in Nat
    BY <2>3, EmptySeq, LenProperties DEF TypeOK
  <2>5. flush'.next = Len(disk') + 1
    BY <1>2, <2>3, <2>4 DEF Content, ReadDurable, logVars
  <2>. QED
    BY <1>2, <2>1, <2>2, <2>3, <2>5
       DEF FlushState, Flushing, ReadDurable, logVars
<1>. QED
  BY <1>1, <1>3, <1>4

\* What FlushState says of the one thread past its capture.
LEMMA BatchFacts ==
  ASSUME IInv, NEW t \in Thread, pc[t] \in Flushing \ {"capture"}
  PROVE  /\ fmu = t
         /\ flush.first = pend.first
         /\ Len(flush.batch) \in 1..Len(pend.entries)
         /\ \A i \in 1..Len(flush.batch) : flush.batch[i] = pend.entries[i]
         /\ pend.entries # <<>>
         /\ pend.first \in 1..(Len(disk) + 1)
         /\ Len(accepted) = pend.first + Len(pend.entries) - 1
         /\ Len(disk) \in Nat /\ Len(pend.entries) \in Nat
<1>1. /\ fmu = t
      /\ flush.first = pend.first
      /\ Len(flush.batch) \in 1..Len(pend.entries)
      /\ \A i \in 1..Len(flush.batch) : flush.batch[i] = pend.entries[i]
  BY DEF IInv, FlushState, Flushing
<1>2. pend.entries # <<>>
  BY <1>1, EmptySeq DEF IInv, TypeOK
<1>. QED
  BY <1>1, <1>2, LenProperties
     DEF IInv, Content, LastIndex, ViewLast, TypeOK

\* The copy loop never meets ErrOutOfOrder, and the record it writes is the
\* one accepted at that index.
LEMMA CopyInOrder ==
  ASSUME IInv, NEW t \in Thread, pc[t] = "copy", flush.next <= BatchLast
  PROVE  /\ flush.next = Len(disk) + 1
         /\ flush.next - flush.first + 1 \in 1..Len(flush.batch)
         /\ flush.batch[flush.next - flush.first + 1] = accepted[Len(disk) + 1]
         /\ flush.batch[flush.next - flush.first + 1] \in Payload
         /\ Len(disk) + 1 <= Len(accepted)
<1>. DEFINE k == flush.next - flush.first + 1
<1>1. flush.next = Len(disk) + 1
  BY DEF IInv, FlushState
<1>2. k \in 1..Len(flush.batch)
  BY <1>1, BatchFacts DEF Flushing, BatchLast
<1>3. k \in 1..Len(pend.entries) /\ flush.batch[k] = pend.entries[k]
  BY <1>2, BatchFacts DEF Flushing
<1>4. pend.first + k - 1 = Len(disk) + 1
  BY <1>1, BatchFacts DEF Flushing
<1>5. flush.batch[k] = accepted[Len(disk) + 1]
  BY <1>3, <1>4 DEF IInv, Content
<1>6. flush.batch[k] \in Payload
  BY <1>2, ElementOfSeq DEF IInv, TypeOK
<1>7. Len(disk) + 1 <= Len(accepted)
  BY <1>3, <1>4, BatchFacts, SMTT(60) DEF Flushing
<1>. QED
  BY <1>1, <1>2, <1>5, <1>6, <1>7

\* inner.Write keeps the invariant.
LEMMA CopyRecordIInv ==
  ASSUME IInv, NEW t \in Thread, CopyRecord(t)
  PROVE  IInv'
<1>. DEFINE r == flush.batch[flush.next - flush.first + 1]
<1>1. pc[t] = "copy" /\ flush.next <= BatchLast
  BY DEF CopyRecord
<1>2. /\ flush.next = Len(disk) + 1
      /\ r = accepted[Len(disk) + 1]
      /\ r \in Payload
      /\ Len(disk) + 1 <= Len(accepted)
  BY <1>1, CopyInOrder
<1>3. /\ disk' = Append(disk, r)
      /\ flush' = [flush EXCEPT !.next = flush.next + 1]
      /\ UNCHANGED <<fmu, pc, writing, synced, pend, pendingBytes, target,
                     accepted, promised, recovered>>
  BY <1>2 DEF CopyRecord, history
<1>4. /\ disk' \in Seq(Payload)
      /\ Len(disk') = Len(disk) + 1
      /\ \A i \in 1..Len(disk) : disk'[i] = disk[i]
      /\ disk'[Len(disk) + 1] = r
      /\ Len(disk) \in Nat
  <2>. HIDE DEF r
  <2>1. disk \in Seq(Payload) /\ Len(disk) \in Nat
    BY LenProperties DEF IInv, TypeOK
  <2>. QED
    BY <1>2, <1>3, <2>1, AppendProperties
<1>5. /\ flush'.first = flush.first
      /\ flush'.batch = flush.batch
      /\ flush'.next = flush.next + 1
      /\ flush' \in [first : Nat, batch : Seq(Payload), next : Nat]
  <2>1. flush.next + 1 \in Nat
    BY DEF IInv, TypeOK
  <2>2. flush \in [first : Nat, batch : Seq(Payload), next : Nat]
    BY DEF IInv, TypeOK
  <2>3. flush' = [flush EXCEPT !.next = flush.next + 1]
    BY <1>3
  <2>. QED
    BY <2>1, <2>2, <2>3
<1>. HIDE DEF r
<1>6. TypeOK'
  BY <1>3, <1>4, <1>5, Zenon DEF IInv, TypeOK
<1>7. pend.entries # <<>> /\ pend.first \in 1..(Len(disk) + 1)
  BY <1>1, BatchFacts DEF Flushing
<1>8. Content'
  <2>1. \A i \in 1..Len(disk') : disk'[i] = accepted'[i]
    BY <1>2, <1>3, <1>4 DEF IInv, Content
  <2>2. /\ Len(accepted') = LastIndex'
        /\ Len(disk') <= Len(accepted')
        /\ pend'.first \in 1..(Len(disk') + 1)
    BY <1>2, <1>3, <1>4, <1>7 DEF IInv, Content, LastIndex, ViewLast
  <2>3. \A i \in 1..Len(pend'.entries) :
          pend'.entries[i] = accepted'[pend'.first + i - 1]
    BY <1>3, SMTT(60) DEF IInv, Content
  <2>. QED
    BY <2>1, <2>2, <2>3 DEF Content
<1>9. Durability'
  <2>1. promised <= synced /\ synced <= Len(disk) /\ synced \in Nat
    BY DEF IInv, TypeOK, Durability, PromiseIsSynced
  <2>2. PromiseIsSynced'
    BY <1>3, <1>4, <2>1 DEF PromiseIsSynced
  <2>. QED
    BY <1>3, <1>7, <2>2 DEF IInv, Durability, BytesMatchBuffer
<1>10. FlushState'
  <2>1. \A u \in Thread \ {t} : pc'[u] \notin Flushing
    BY <1>1, <1>3, OnlyFlusher DEF Flushing
  <2>2. pc'[t] = "copy" /\ fmu' = t /\ flush'.next = Len(disk') + 1
    BY <1>1, <1>2, <1>3, <1>4, <1>5, BatchFacts DEF Flushing
  <2>3. /\ flush'.first = pend'.first
        /\ Len(flush'.batch) \in 1..Len(pend'.entries)
        /\ \A i \in 1..Len(flush'.batch) : flush'.batch[i] = pend'.entries[i]
    BY <1>1, <1>3, <1>5, BatchFacts DEF Flushing
  <2>. QED
    BY <2>1, <2>2, <2>3 DEF FlushState, Flushing
<1>. QED
  BY <1>6, <1>8, <1>9, <1>10 DEF IInv

\* Leaving the copy loop and the fsync keep the invariant.
LEMMA CommitIInv ==
  ASSUME IInv, NEW t \in Thread, CopyDone(t) \/ Fsync(t)
  PROVE  IInv'
<1>1. /\ pc[t] \in Flushing \ {"capture"}
      /\ UNCHANGED <<disk, pend, pendingBytes, fmu, flush, target, accepted,
                     promised, recovered, writing>>
  BY DEF CopyDone, Fsync, Flushing, logVars, history
<1>2. synced' \in Nat /\ synced <= synced' /\ synced' <= Len(disk)
  BY LenProperties DEF CopyDone, Fsync, logVars, IInv, TypeOK, Durability,
                       PromiseIsSynced
<1>3. TypeOK'
  BY <1>1, <1>2, Zenon DEF IInv, TypeOK, CopyDone, Fsync, Goto, Flushing
<1>4. Content'
  BY <1>1 DEF IInv, Content, LastIndex, ViewLast
<1>5. Durability'
  BY <1>1, <1>2, LenProperties DEF IInv, TypeOK, Durability, PromiseIsSynced,
                                   BytesMatchBuffer
<1>6. FlushState'
  <2>1. \A u \in Thread \ {t} : pc'[u] \notin Flushing
    BY <1>1, OnlyFlusher DEF CopyDone, Fsync, Goto, IInv, TypeOK
  <2>2. /\ fmu' = t
        /\ flush'.first = pend'.first
        /\ Len(flush'.batch) \in 1..Len(pend'.entries)
        /\ \A i \in 1..Len(flush'.batch) : flush'.batch[i] = pend'.entries[i]
    BY <1>1, BatchFacts
  <2>3. CASE CopyDone(t)
    <3>1. pc'[t] = "fsync" /\ BatchLast' = BatchLast
      BY <1>1, <2>3 DEF CopyDone, Goto, IInv, TypeOK, BatchLast
    <3>2. Len(disk') >= BatchLast'
      <4>1. flush.next = Len(disk) + 1 /\ flush.next > BatchLast
        BY <2>3 DEF CopyDone, IInv, FlushState
      <4>2. BatchLast \in Int /\ Len(disk) \in Nat
        BY <1>1, BatchFacts DEF BatchLast
      <4>. QED
        BY <1>1, <3>1, <4>1, <4>2
    <3>. QED
      BY <2>1, <2>2, <3>1, <3>2 DEF FlushState, Flushing
  <2>4. CASE Fsync(t)
    <3>1. pc'[t] = "trim" /\ BatchLast' = BatchLast
      BY <1>1, <2>4, Zenon DEF Fsync, Goto, IInv, TypeOK, BatchLast
    <3>2. synced' >= BatchLast'
      BY <2>4, <3>1 DEF Fsync, IInv, FlushState
    <3>. QED
      BY <2>1, <2>2, <3>1, <3>2 DEF FlushState, Flushing
  <2>. QED
    BY <2>3, <2>4
<1>. QED
  BY <1>3, <1>4, <1>5, <1>6 DEF IInv

\* Trimming the synced batch keeps the invariant.
LEMMA TrimIInv ==
  ASSUME IInv, NEW t \in Thread, Trim(t)
  PROVE  IInv'
<1>. DEFINE n == Len(flush.batch)
            rest == SubSeq(pend.entries, n + 1, Len(pend.entries))
<1>1. /\ pc[t] \in Flushing \ {"capture"}
      /\ pc[t] = "trim"
      /\ Return(t)
      /\ UNCHANGED <<disk, synced, flush, target, accepted, recovered>>
  BY DEF Trim, Flushing
<1>2. /\ flush.first = pend.first
      /\ n \in 1..Len(pend.entries)
      /\ pend.first \in 1..(Len(disk) + 1)
      /\ Len(accepted) = pend.first + Len(pend.entries) - 1
      /\ Len(disk) \in Nat /\ Len(pend.entries) \in Nat
  BY <1>1, BatchFacts
<1>3. /\ rest \in Seq(Payload)
      /\ Len(rest) = Len(pend.entries) - n
      /\ \A i \in 1..(Len(pend.entries) - n) : rest[i] = pend.entries[n + i]
  <2>1. pend.entries \in Seq(Payload) /\ n \in 0..Len(pend.entries)
    BY <1>2 DEF IInv, TypeOK
  <2>. QED
    BY <2>1, SuffixFacts, Zenon
<1>4. /\ pend' = [first |-> BatchLast + 1, entries |-> rest]
      /\ pendingBytes' = pendingBytes - n
      /\ promised' = IF BatchLast > promised THEN BatchLast ELSE promised
      /\ BatchLast + 1 = pend.first + n
      /\ BatchLast \in Nat
      /\ BatchLast <= synced
  <2>1. pend.first = flush.first /\ synced >= BatchLast
    BY <1>1, <1>2 DEF IInv, FlushState
  <2>2. BatchLast + 1 = pend.first + n /\ BatchLast \in Nat
    BY <1>2, SMTT(60) DEF BatchLast
  <2>3. synced \in Nat
    BY DEF IInv, TypeOK
  <2>4. /\ pend' = [first |-> BatchLast + 1, entries |-> rest]
        /\ pendingBytes' = pendingBytes - n
        /\ promised' = IF BatchLast > promised THEN BatchLast ELSE promised
    BY <2>1 DEF Trim
  <2>. QED
    BY <2>1, <2>2, <2>3, <2>4
<1>. HIDE DEF rest, n
<1>5. rest = <<>> <=> n = Len(pend.entries)
  <2>1. Len(rest) = 0 <=> rest = <<>>
    BY <1>3, EmptySeq
  <2>. QED
    BY <1>2, <1>3, <2>1
<1>6. pendingBytes' = Len(rest)
  <2>1. pendingBytes = Len(pend.entries)
    BY DEF IInv, Durability, BytesMatchBuffer
  <2>. QED
    BY <1>2, <1>3, <1>4, <2>1
<1>7. pend'.first = pend.first + n /\ pend'.entries = rest
  BY <1>4
<1>8. TypeOK'
  <2>1. /\ pend' \in [first : Nat, entries : Seq(Payload)]
        /\ pendingBytes' \in Nat
        /\ promised' \in Nat
    <3>1. BatchLast + 1 \in Nat /\ pendingBytes' \in Nat
      BY <1>3, <1>4, <1>6, LenProperties
    <3>2. promised \in Nat
      BY DEF IInv, TypeOK
    <3>3. promised' \in Nat
      BY <1>4, <3>2
    <3>. QED
      BY <1>3, <1>4, <3>1, <3>3, Zenon
  <2>. QED
    BY <1>1, <2>1 DEF IInv, TypeOK, Return, Goto, Flushing
<1>9. Len(disk) <= Len(accepted) /\ synced <= Len(disk) /\ synced \in Nat
  BY DEF IInv, Content, Durability, PromiseIsSynced, TypeOK
<1>10. Content'
  <2>1. /\ Len(accepted') = LastIndex'
        /\ Len(disk') <= Len(accepted')
    <3>1. CASE rest = <<>>
      <4>1. LastIndex' = Len(disk)
        BY <1>1, <1>7, <3>1 DEF LastIndex
      <4>2. Len(disk) = Len(accepted)
        BY <1>2, <1>4, <1>5, <1>9, <3>1
      <4>. QED
        BY <1>1, <1>2, <4>1, <4>2
    <3>2. CASE rest # <<>>
      <4>1. LastIndex' = (pend.first + n) + Len(rest) - 1
        BY <1>7, <3>2 DEF LastIndex, ViewLast
      <4>2. n \in Nat /\ pend.first \in Nat
        BY <1>2
      <4>3. LastIndex' = Len(accepted)
        BY <1>2, <1>3, <4>1, <4>2
      <4>. QED
        BY <1>1, <1>9, <4>3
    <3>. QED
      BY <3>1, <3>2
  <2>2. pend'.first \in 1..(Len(disk') + 1)
    BY <1>1, <1>2, <1>4, <1>7, <1>9
  <2>3. \A i \in 1..Len(disk') : disk'[i] = accepted'[i]
    BY <1>1 DEF IInv, Content
  <2>4. ASSUME NEW i \in 1..Len(pend'.entries)
        PROVE  pend'.entries[i] = accepted'[pend'.first + i - 1]
    <3>1. n + i \in 1..Len(pend.entries) /\ rest[i] = pend.entries[n + i]
      BY <1>2, <1>3, <1>7
    <3>2. pend.entries[n + i] = accepted[pend.first + (n + i) - 1]
      BY <3>1 DEF IInv, Content
    <3>3. pend'.first + i - 1 = pend.first + (n + i) - 1
      BY <1>2, <1>7, <3>1
    <3>. QED
      BY <1>1, <1>7, <3>1, <3>2, <3>3
  <2>. QED
    BY <2>1, <2>2, <2>3, <2>4 DEF Content
<1>11. Durability'
  <2>1. PromiseIsSynced'
    BY <1>1, <1>4 DEF IInv, Durability, PromiseIsSynced
  <2>2. BytesMatchBuffer'
    BY <1>6, <1>7 DEF BytesMatchBuffer
  <2>3. pend'.first <= synced' + 1
    BY <1>1, <1>2, <1>4, <1>7, <1>9
  <2>4. pend'.entries = <<>> => Len(disk') <= synced'
    BY <1>1, <1>2, <1>4, <1>5, <1>7, <1>9
  <2>. QED
    BY <2>1, <2>2, <2>3, <2>4 DEF Durability
<1>12. FlushState'
  BY <1>1, ReturnFlushState
<1>. QED
  BY <1>8, <1>10, <1>11, <1>12 DEF IInv

\* A crash that leaves n records on disk, all of them frames that were there.
LEMMA CrashIInv ==
  ASSUME IInv, NEW n \in synced..Len(disk), Reopen(n),
         disk' = SubSeq(disk, 1, n), synced' \in synced..n
  PROVE  IInv'
<1>1. /\ n \in 0..Len(disk) /\ n \in 0..Len(accepted)
      /\ Len(disk) \in Nat /\ synced \in Nat /\ promised <= synced
  BY LenProperties, SMTT(60) DEF IInv, TypeOK, Content, Durability, PromiseIsSynced
<1>2. /\ disk' \in Seq(Payload)
      /\ Len(disk') = n
      /\ \A i \in 1..n : disk'[i] = disk[i]
  BY <1>1, PrefixFacts, Zenon DEF IInv, TypeOK
<1>3. /\ accepted' \in Seq(Payload)
      /\ Len(accepted') = n
      /\ \A i \in 1..n : accepted'[i] = accepted[i]
  BY <1>1, PrefixFacts DEF IInv, TypeOK, Reopen
<1>4. /\ pend' = NoEntries /\ pendingBytes' = 0 /\ recovered' = n
      /\ promised' = promised
      /\ \A t \in Thread : pc'[t] = "idle"
  BY DEF Reopen
<1>5. TypeOK'
  BY <1>1, <1>2, <1>3 DEF IInv, TypeOK, Reopen, NoEntries, NoFlush, Flushing
<1>6. Content'
  <2>1. \A i \in 1..n : disk[i] = accepted[i]
    BY <1>1 DEF IInv, Content
  <2>. QED
    BY <1>1, <1>2, <1>3, <1>4, <2>1 DEF Content, LastIndex, NoEntries
<1>7. Durability'
  BY <1>1, <1>2, <1>4, <1>5, SMTT(60)
     DEF Durability, PromiseIsSynced, BytesMatchBuffer, NoEntries, IInv, TypeOK
<1>8. FlushState'
  BY <1>4 DEF FlushState, Flushing
<1>. QED
  BY <1>5, <1>6, <1>7, <1>8 DEF IInv

\* Every step keeps the inductive invariant.
LEMMA NextIInv == IInv /\ [Next]_vars => IInv'
<1>. SUFFICES ASSUME IInv, [Next]_vars PROVE IInv'
  OBVIOUS
<1>1. ASSUME NEW t \in Thread, Step(t) PROVE IInv'
  BY <1>1, EnterIInv, GiveUpIInv, CaptureIInv, ReadDurableIInv,
     CopyRecordIInv, CommitIInv, TrimIInv DEF Step
<1>2. ASSUME NEW t \in Thread, DiskFault(t) PROVE IInv'
  BY <1>2, GiveUpIInv
<1>3. ASSUME NEW t \in Thread, NEW p \in Payload, Publish(t, p) PROVE IInv'
  BY <1>3, PublishIInv
<1>4. ASSUME NEW t \in Thread, NEW n \in 1..MaxIndex, CallSync(t, n)
      PROVE  IInv'
  BY <1>4, EnterIInv
<1>5. CASE Kill
  <2>1. /\ Len(disk) \in synced..Len(disk) /\ synced \in synced..Len(disk)
        /\ disk \in Seq(Payload)
    BY LenProperties DEF IInv, TypeOK, Durability, PromiseIsSynced
  <2>2. disk' = SubSeq(disk, 1, Len(disk)) /\ synced' \in synced..Len(disk)
    BY <1>5, <2>1, SubSeqFull DEF Kill
  <2>. QED
    BY <1>5, <2>1, <2>2, CrashIInv DEF Kill
<1>6. ASSUME NEW n \in synced..Len(disk), PowerLoss(n) PROVE IInv'
  <2>1. synced' \in synced..n
    BY <1>6, LenProperties DEF PowerLoss, IInv, TypeOK
  <2>. QED
    BY <1>6, <2>1, CrashIInv DEF PowerLoss
<1>7. CASE UNCHANGED vars
  BY <1>7 DEF vars, IInv, TypeOK, Content, Durability, FlushState,
              PromiseIsSynced, BytesMatchBuffer, LastIndex, ViewLast, BatchLast
<1>. QED
  BY <1>1, <1>2, <1>3, <1>4, <1>5, <1>6, <1>7 DEF Next

-----------------------------------------------------------------------------
\* The inductive invariant holds of every reachable state of the buffered
\* log (Write, SyncThrough, crashes and reopening).
THEOREM IInvAlways == Spec => []IInv
  BY InitIInv, NextIInv, PTL DEF Spec

\* Every variable of log.Log keeps its type, the byte count included: the
\* trim of SyncThrough never drives it below zero.
THEOREM TypeCorrect == Spec => []TypeOK
<1>1. IInv => TypeOK
  BY DEF IInv
<1>. QED
  BY <1>1, IInvAlways, PTL

\* Reads see exactly the accepted records whatever syncs, faults and crashes
\* interleave with Write.
THEOREM ServesAcceptedAlways == Spec => []ServesAccepted
<1>1. IInv => ServesAccepted
  <2>. SUFFICES ASSUME IInv PROVE ServesAccepted
    OBVIOUS
  <2>1. LastIndex = Len(accepted)
    BY DEF IInv, Content
  <2>2. ASSUME NEW i \in 1..Len(accepted)
        PROVE  (InView(pend, i) \/ i <= Len(disk)) /\ Served(i) = accepted[i]
    <3>1. /\ Len(accepted) \in Nat /\ Len(disk) \in Nat
          /\ Len(pend.entries) \in Nat /\ pend.first \in Nat
      BY LenProperties DEF IInv, TypeOK
    <3>2. CASE InView(pend, i)
      <4>1. i - pend.first + 1 \in 1..Len(pend.entries)
        BY <3>1, <3>2 DEF InView, ViewLast
      <4>2. pend.entries[i - pend.first + 1] =
              accepted[pend.first + (i - pend.first + 1) - 1]
        BY <4>1, SMTT(60) DEF IInv, Content
      <4>3. pend.first + (i - pend.first + 1) - 1 = i
        BY <3>1
      <4>. QED
        BY <3>2, <4>2, <4>3 DEF Served, ViewAt
    <3>3. CASE ~InView(pend, i)
      <4>1. i <= Len(disk)
        BY <2>1, <3>1, <3>3
           DEF IInv, Content, LastIndex, ViewLast, InView
      <4>2. disk[i] = accepted[i]
        BY <3>1, <4>1 DEF IInv, Content
      <4>. QED
        BY <3>3, <4>1, <4>2 DEF Served
    <3>. QED
      BY <3>2, <3>3
  <2>. QED
    BY <2>1, <2>2 DEF ServesAccepted
<1>. QED
  BY <1>1, IInvAlways, PTL

\* What SyncThrough reported durable has been fsynced.
THEOREM PromiseIsSyncedAlways == Spec => []PromiseIsSynced
<1>1. IInv => PromiseIsSynced
  BY DEF IInv, Durability
<1>. QED
  BY <1>1, IInvAlways, PTL

\* A record that a failed or interrupted SyncThrough left unsynced is still
\* buffered for the next one.
THEOREM NoStrandedRecordAlways == Spec => []NoStrandedRecord
<1>1. IInv => NoStrandedRecord
  <2>. SUFFICES ASSUME IInv,
                       NEW i \in (recovered + 1)..Len(accepted), i > synced
                PROVE  InView(pend, i)
    BY DEF NoStrandedRecord
  <2>1. /\ Len(accepted) \in Nat /\ Len(disk) \in Nat /\ synced \in Nat
        /\ recovered \in Nat /\ pend.first \in Nat
    BY LenProperties DEF IInv, TypeOK
  <2>2. pend.entries # <<>>
    BY <2>1 DEF IInv, Content, Durability, LastIndex
  <2>. QED
    BY <2>1, <2>2 DEF IInv, Content, Durability, LastIndex, InView
<1>. QED
  BY <1>1, IInvAlways, PTL

\* pendingBytes counts the buffer exactly.
THEOREM BytesMatchBufferAlways == Spec => []BytesMatchBuffer
<1>1. IInv => BytesMatchBuffer
  BY DEF IInv, Durability
<1>. QED
  BY <1>1, IInvAlways, PTL

\* A crash of the buffered log is a crash of the durable log.
LEMMA ReopenRefines ==
  ASSUME IInv, NEW n \in synced..Len(disk), Reopen(n)
  PROVE  Durable!Next
<1>1. n \in promised..Len(accepted)
  BY LenProperties
     DEF IInv, TypeOK, Content, Durability, PromiseIsSynced
<1>2. Durable!Crash(n)
  BY <1>1 DEF Durable!Crash, Reopen
<1>. QED
  BY <1>1, <1>2 DEF Durable!Next

\* Every step of log.Log is a step of the durable log or leaves it alone.
LEMMA StepRefines == IInv /\ [Next]_vars => [Durable!Next]_(Durable!vars)
<1>. SUFFICES ASSUME IInv, [Next]_vars
              PROVE  Durable!Next \/ UNCHANGED <<accepted, promised>>
  BY DEF Durable!vars
<1>1. ASSUME NEW t \in Thread, Trim(t)
      PROVE  Durable!Next \/ UNCHANGED <<accepted, promised>>
  <2>1. CASE BatchLast > promised
    <3>1. pc[t] \in Flushing \ {"capture"}
      BY <1>1 DEF Trim, Flushing
    <3>2. BatchLast \in promised..Len(accepted)
      <4>1. /\ Len(flush.batch) \in 1..Len(pend.entries)
            /\ flush.first = pend.first
            /\ Len(accepted) = pend.first + Len(pend.entries) - 1
            /\ Len(pend.entries) \in Nat
        BY <3>1, BatchFacts
      <4>2. promised \in Nat /\ pend.first \in Nat
        BY DEF IInv, TypeOK
      <4>. QED
        BY <2>1, <4>1, <4>2, SMTT(60) DEF BatchLast
    <3>3. Durable!Persist(BatchLast)
      BY <1>1, <2>1, <3>2 DEF Trim, Durable!Persist
    <3>. QED
      BY <3>2, <3>3 DEF Durable!Next
  <2>2. CASE ~(BatchLast > promised)
    BY <1>1, <2>2 DEF Trim
  <2>. QED
    BY <2>1, <2>2
<1>2. ASSUME NEW t \in Thread, Step(t), ~Trim(t)
      PROVE  UNCHANGED <<accepted, promised>>
  BY <1>2 DEF Step, CheckLag, LockFlush, CaptureNothing, Capture, ReadDurable,
              CopyRecord, CopyDone, Fsync, history
<1>3. ASSUME NEW t \in Thread, DiskFault(t)
      PROVE  UNCHANGED <<accepted, promised>>
  BY <1>3 DEF DiskFault, history
<1>4. ASSUME NEW t \in Thread, NEW p \in Payload, Publish(t, p)
      PROVE  Durable!Next
  BY <1>4 DEF Publish, Durable!Next, Durable!Accept
<1>5. ASSUME NEW t \in Thread, NEW n \in 1..MaxIndex, CallSync(t, n)
      PROVE  UNCHANGED <<accepted, promised>>
  BY <1>5 DEF CallSync, history
<1>6. CASE Kill
  <2>1. Len(disk) \in synced..Len(disk)
    BY LenProperties DEF IInv, TypeOK, Durability, PromiseIsSynced
  <2>. QED
    BY <1>6, <2>1, ReopenRefines DEF Kill
<1>7. ASSUME NEW n \in synced..Len(disk), PowerLoss(n) PROVE Durable!Next
  BY <1>7, ReopenRefines DEF PowerLoss
<1>8. CASE UNCHANGED vars
  BY <1>8 DEF vars
<1>. QED
  BY <1>1, <1>2, <1>3, <1>4, <1>5, <1>6, <1>7, <1>8 DEF Next

\* log.Log implements the durable log: history only grows at its end, and a
\* crash takes only what no SyncThrough ever reported durable.
THEOREM Refinement == Spec => RefinesDurableLog
<1>1. Init => Durable!Init
  BY DEF Init, Durable!Init
<1>. QED
  BY <1>1, StepRefines, IInvAlways, PTL
     DEF Spec, RefinesDurableLog, Durable!Spec

-----------------------------------------------------------------------------
\* The writers whose own record is above m.
Above(m) == {u \in writing : target[u] > m}

\* A Write in progress has published its record, and the flush it runs inline
\* captured that record.
Writers ==
  /\ IsFiniteSet(writing)
  /\ \A u \in writing :
       /\ pc[u] # "idle"
       /\ target[u] <= Len(accepted)
       /\ pc[u] \in Flushing \ {"capture"} => target[u] <= BatchLast

\* The bound on the lag for every tail of the buffer: what is buffered above m
\* exceeds MaxLag by no more than the writers whose record is up there.  The
\* bound on the whole buffer alone would not survive a trim, which takes the
\* records of writers that have not returned yet.
TailLag ==
  ~DiskFaults /\ pend.entries # <<>> =>
    \A m \in Nat : pend.first <= m + 1 /\ m <= Len(accepted) =>
      Len(accepted) - m <= MaxLag + Cardinality(Above(m))

LagInv == Writers /\ TailLag

\* A set of writers is finite, so that adding one to it counts one.
LEMMA AboveFinite ==
  ASSUME Writers, NEW m
  PROVE  IsFiniteSet(Above(m)) /\ Cardinality(Above(m)) \in Nat
<1>1. Above(m) \in SUBSET writing /\ IsFiniteSet(writing)
  BY Zenon DEF Above, Writers
<1>2. IsFiniteSet(Above(m))
  BY <1>1, FS_Subset
<1>. QED
  BY <1>2, FS_CardinalityType

\* A step of a call in progress that leaves buffer, history and batch alone.
LEMMA StayLag ==
  ASSUME LagInv, NEW t \in Thread,
         UNCHANGED <<pend, accepted, target, writing>>, BatchLast' = BatchLast,
         \A u \in Thread \ {t} : pc'[u] = pc[u],
         writing \subseteq Thread,
         pc'[t] # "idle",
         pc'[t] \in Flushing \ {"capture"} => pc[t] \in Flushing \ {"capture"}
  PROVE  LagInv'
<1>1. Writers'
  BY Zenon DEF LagInv, Writers
<1>2. \A m : Above(m)' = Above(m)
  BY Zenon DEF Above
<1>3. TailLag'
  BY <1>2, Zenon DEF LagInv, TailLag
<1>. QED
  BY <1>1, <1>3 DEF LagInv

\* A return of t leaves the other writers as they were.
LEMMA LeaveWriters ==
  ASSUME Writers, NEW t \in Thread, writing \subseteq Thread,
         UNCHANGED <<accepted, target>>, BatchLast' = BatchLast,
         writing' = writing \ {t},
         \A u \in Thread \ {t} : pc'[u] = pc[u]
  PROVE  Writers'
<1>1. IsFiniteSet(writing')
  BY FS_RemoveElement, Zenon DEF Writers
<1>. QED
  BY <1>1, Zenon DEF Writers

\* A writer whose record is not above m does not count there.
LEMMA LeaveAbove ==
  ASSUME NEW t, NEW m, writing' = writing \ {t}, UNCHANGED target,
         t \in writing => ~(target[t] > m)
  PROVE  Above(m)' = Above(m)
BY Zenon DEF Above

\* Write adds one record and one writer above every tail.
LEMMA PublishLag ==
  ASSUME IInv, LagInv, NEW t \in Thread, NEW p \in Payload, Publish(t, p)
  PROVE  LagInv'
<1>1. /\ Expected = Len(accepted) + 1
      /\ Len(accepted) \in Nat
      /\ Len(accepted') = Len(accepted) + 1
  <2>1. accepted \in Seq(Payload) /\ accepted' = Append(accepted, p)
    BY Zenon DEF IInv, TypeOK, Publish
  <2>2. Expected = Len(accepted) + 1
    BY DEF IInv, Content, Expected
  <2>. QED
    BY <2>1, <2>2, LenProperties, AppendProperties, Zenon
<1>2. /\ pc[t] = "idle" /\ t \notin writing
      /\ writing' = writing \cup {t}
      /\ flush' = flush
      /\ target \in [Thread -> Nat] /\ pc' = [pc EXCEPT ![t] = "over"]
      /\ target' = [target EXCEPT ![t] = Expected]
      /\ writing \subseteq Thread /\ DOMAIN pc = Thread
  BY Zenon DEF IInv, TypeOK, Publish, LagInv, Writers, Goto
<1>3. /\ target'[t] = Len(accepted) + 1 /\ pc'[t] = "over"
      /\ \A u \in Thread \ {t} : target'[u] = target[u] /\ pc'[u] = pc[u]
  BY <1>1, <1>2, Zenon
<1>4. Writers'
  <2>1. IsFiniteSet(writing')
    BY <1>2, FS_AddElement, Zenon DEF LagInv, Writers
  <2>2. BatchLast' = BatchLast
    BY <1>2, Zenon DEF BatchLast
  <2>3. ASSUME NEW u \in writing'
        PROVE  /\ pc'[u] # "idle"
               /\ target'[u] <= Len(accepted')
               /\ pc'[u] \in Flushing \ {"capture"} => target'[u] <= BatchLast'
    <3>1. CASE u = t
      BY <1>1, <1>3, <3>1 DEF Flushing
    <3>2. CASE u # t
      <4>1. u \in writing /\ u \in Thread \ {t} /\ target[u] \in Nat
        BY <1>2, <3>2, Zenon
      <4>2. /\ pc[u] # "idle" /\ target[u] <= Len(accepted)
            /\ pc[u] \in Flushing \ {"capture"} => target[u] <= BatchLast
        BY <4>1, Zenon DEF LagInv, Writers
      <4>3. target[u] <= Len(accepted')
        BY <1>1, <4>1, <4>2
      <4>. QED
        BY <1>3, <2>2, <4>1, <4>2, <4>3, Zenon
    <3>. QED
      BY <3>1, <3>2
  <2>. QED
    BY <2>1, <2>3, Zenon DEF Writers
<1>5. ASSUME ~DiskFaults, NEW m \in Nat,
             pend'.first <= m + 1, m <= Len(accepted')
      PROVE  Len(accepted') - m <= MaxLag + Cardinality(Above(m)')
  <2>1. CASE m = Len(accepted')
    <3>1. Above(m)' \in SUBSET writing' /\ IsFiniteSet(writing')
      BY <1>4, Zenon DEF Above, Writers
    <3>2. Cardinality(Above(m)') \in Nat
      BY <3>1, FS_Subset, FS_CardinalityType
    <3>. QED
      BY <1>1, <2>1, <3>2, BoundAssumption
  <2>2. CASE m # Len(accepted')
    <3>1. m <= Len(accepted) /\ Len(accepted) + 1 > m
      BY <1>1, <1>5, <2>2
    <3>2. Above(m)' = Above(m) \cup {t}
      BY <1>2, <1>3, <3>1, Zenon DEF Above
    <3>3. t \notin Above(m)
      BY <1>2, Zenon DEF Above
    <3>4. /\ Cardinality(Above(m)') = Cardinality(Above(m)) + 1
          /\ Cardinality(Above(m)) \in Nat
      BY <3>2, <3>3, AboveFinite, FS_AddElement, Zenon DEF LagInv
    <3>5. Len(accepted) - m <= MaxLag + Cardinality(Above(m))
      <4>1. CASE pend.entries # <<>>
        <5>1. pend'.first = pend.first
          BY <4>1, Zenon DEF Publish
        <5>2. pend.first <= m + 1
          BY <1>5, <5>1, Zenon
        <5>. QED
          BY <1>5, <3>1, <4>1, <5>2, Zenon DEF LagInv, TailLag
      <4>2. CASE pend.entries = <<>>
        <5>1. pend'.first = Expected
          BY <4>2, Zenon DEF Publish
        <5>2. m = Len(accepted)
          BY <1>1, <1>5, <3>1, <5>1
        <5>. QED
          BY <1>1, <3>4, <5>2, BoundAssumption
      <4>. QED
        BY <4>1, <4>2, Zenon
    <3>. QED
      BY <1>1, <3>4, <3>5, BoundAssumption
  <2>. QED
    BY <2>1, <2>2
<1>6. TailLag'
  BY <1>5, Zenon DEF TailLag
<1>. QED
  BY <1>4, <1>6 DEF LagInv

\* Write returns from its lag check only with the whole buffer within MaxLag.
LEMMA CheckLagLag ==
  ASSUME IInv, LagInv, NEW t \in Thread, CheckLag(t)
  PROVE  LagInv'
<1>1. /\ UNCHANGED <<pend, accepted, target, flush>>
      /\ writing \subseteq Thread /\ DOMAIN pc = Thread
  BY Zenon DEF CheckLag, logVars, history, IInv, TypeOK
<1>2. BatchLast' = BatchLast
  BY <1>1, Zenon DEF BatchLast
<1>3. CASE pendingBytes > MaxLag
  <2>1. /\ writing' = writing /\ pc'[t] = "lock"
        /\ \A u \in Thread \ {t} : pc'[u] = pc[u]
    BY <1>1, <1>3, Zenon DEF CheckLag, Goto
  <2>2. pc'[t] \notin Flushing /\ pc'[t] # "idle"
    BY <2>1 DEF Flushing
  <2>. QED
    BY <1>1, <1>2, <2>1, <2>2, StayLag, Zenon
<1>4. CASE ~(pendingBytes > MaxLag)
  <2>1. /\ writing' = writing \ {t}
        /\ \A u \in Thread \ {t} : pc'[u] = pc[u]
    BY <1>1, <1>4, Zenon DEF CheckLag, Goto
  <2>2. Writers'
    BY <1>1, <1>2, <2>1, LeaveWriters, Zenon DEF LagInv
  <2>3. ASSUME pend.entries # <<>>, NEW m \in Nat,
               pend.first <= m + 1, m <= Len(accepted)
        PROVE  Len(accepted) - m <= MaxLag + Cardinality(Above(m)')
    <3>1. /\ Len(accepted) = pend.first + Len(pend.entries) - 1
          /\ Len(pend.entries) <= MaxLag
          /\ pend.first \in Nat /\ Len(pend.entries) \in Nat
      BY <1>4, <2>3, LenProperties, BoundAssumption
         DEF IInv, TypeOK, Content, LastIndex, ViewLast, Durability,
             BytesMatchBuffer
    <3>2. Above(m)' \in SUBSET writing' /\ IsFiniteSet(writing')
      BY <2>2, Zenon DEF Above, Writers
    <3>3. Cardinality(Above(m)') \in Nat
      BY <3>2, FS_Subset, FS_CardinalityType
    <3>. QED
      BY <2>3, <3>1, <3>3, BoundAssumption
  <2>4. TailLag'
    BY <1>1, <2>3, Zenon DEF TailLag
  <2>. QED
    BY <2>2, <2>4 DEF LagInv
<1>. QED
  BY <1>3, <1>4

\* A caller of SyncThrough is not a writer, whatever its argument.
LEMMA CallSyncLag ==
  ASSUME IInv, LagInv, NEW t \in Thread, NEW n \in 1..MaxIndex, CallSync(t, n)
  PROVE  LagInv'
<1>1. /\ UNCHANGED <<pend, accepted, writing, flush>>
      /\ t \notin writing /\ writing \subseteq Thread
      /\ \A u \in writing : target'[u] = target[u] /\ pc'[u] = pc[u]
  BY Zenon DEF CallSync, logVars, history, IInv, TypeOK, LagInv, Writers, Goto
<1>2. Writers'
  <2>1. BatchLast' = BatchLast
    BY <1>1, Zenon DEF BatchLast
  <2>. QED
    BY <1>1, <2>1, Zenon DEF LagInv, Writers
<1>3. \A m : Above(m)' = Above(m)
  BY <1>1, Zenon DEF Above
<1>4. TailLag'
  BY <1>1, <1>3, Zenon DEF LagInv, TailLag
<1>. QED
  BY <1>2, <1>4 DEF LagInv

\* The inline flush of a Write captures the record of that Write.
LEMMA CaptureLag ==
  ASSUME IInv, LagInv, NEW t \in Thread, Capture(t)
  PROVE  LagInv'
<1>1. /\ UNCHANGED <<pend, accepted, writing, target>>
      /\ writing \subseteq Thread /\ pc'[t] = "durable"
      /\ \A u \in Thread \ {t} : pc'[u] = pc[u]
      /\ pc[t] \in Flushing
  BY Zenon DEF Capture, logVars, history, IInv, TypeOK, Goto, Flushing
<1>2. \A u \in Thread \ {t} : pc[u] \notin Flushing
  BY <1>1, OnlyFlusher, Zenon
<1>3. ASSUME t \in writing
      PROVE  target[t] <= BatchLast'
  <2>1. /\ target[t] \in Nat /\ pend.first \in Nat
        /\ pend.entries \in Seq(Payload) /\ Len(pend.entries) \in Nat
    BY LenProperties, Zenon DEF IInv, TypeOK
  <2>2. /\ BatchSize(t) \in 1..Len(pend.entries)
        /\ pend.entries # <<>>
        /\ \/ BatchSize(t) = target[t] - pend.first + 1
           \/ BatchSize(t) = Len(pend.entries)
    BY <2>1 DEF Capture, BatchSize
  <2>3. target[t] <= pend.first + Len(pend.entries) - 1
    <3>1. target[t] <= Len(accepted)
      BY <1>3, Zenon DEF LagInv, Writers
    <3>. QED
      BY <2>2, <3>1 DEF IInv, Content, LastIndex, ViewLast
  <2>4. Len(SubSeq(pend.entries, 1, BatchSize(t))) = BatchSize(t)
    <3>1. BatchSize(t) \in 0..Len(pend.entries)
      BY <2>1, <2>2
    <3>. QED
      BY <2>1, <3>1, PrefixFacts, Zenon
  <2>5. BatchLast' = pend.first + BatchSize(t) - 1
    BY <2>4, Zenon DEF Capture, BatchLast
  <2>. QED
    BY <2>1, <2>2, <2>3, <2>5
<1>4. Writers'
  <2>1. IsFiniteSet(writing')
    BY <1>1, Zenon DEF LagInv, Writers
  <2>2. ASSUME NEW u \in writing'
        PROVE  /\ pc'[u] # "idle"
               /\ target'[u] <= Len(accepted')
               /\ pc'[u] \in Flushing \ {"capture"} => target'[u] <= BatchLast'
    <3>1. /\ u \in writing /\ u \in Thread
          /\ pc[u] # "idle" /\ target'[u] <= Len(accepted')
      BY <1>1, Zenon DEF LagInv, Writers
    <3>2. CASE u = t
      BY <1>1, <1>3, <3>1, <3>2
    <3>3. CASE u # t
      BY <1>1, <1>2, <3>1, <3>3, Zenon
    <3>. QED
      BY <3>2, <3>3
  <2>. QED
    BY <2>1, <2>2, Zenon DEF Writers
<1>5. TailLag'
  <2>1. \A m : Above(m)' = Above(m)
    BY <1>1, Zenon DEF Above
  <2>. QED
    BY <1>1, <2>1, Zenon DEF LagInv, TailLag
<1>. QED
  BY <1>4, <1>5 DEF LagInv

\* fmu.Lock and the disk's part of SyncThrough touch neither buffer nor
\* writers; on a healthy disk the copy loop does not fail.
LEMMA QuietLag ==
  ASSUME IInv, LagInv, NEW t \in Thread,
         \/ LockFlush(t) \/ ReadDurable(t) \/ CopyRecord(t) \/ CopyDone(t)
         \/ Fsync(t)
  PROVE  LagInv'
<1>1. /\ UNCHANGED <<pend, accepted, target>>
      /\ writing \subseteq Thread /\ DOMAIN pc = Thread
  BY Zenon DEF LockFlush, ReadDurable, CopyRecord, CopyDone, Fsync, logVars,
               history, IInv, TypeOK
<1>2. CopyRecord(t) => flush.next = Len(disk) + 1
  BY Zenon DEF CopyRecord, IInv, FlushState
<1>3. writing' = writing
  BY <1>2, Zenon DEF LockFlush, ReadDurable, CopyRecord, CopyDone, Fsync
<1>4. BatchLast' = BatchLast
  <2>1. flush'.first = flush.first /\ flush'.batch = flush.batch
    BY <1>2, Zenon DEF LockFlush, ReadDurable, CopyRecord, CopyDone, Fsync,
                       IInv, TypeOK
  <2>. QED
    BY <2>1, Zenon DEF BatchLast
<1>5. /\ \A u \in Thread \ {t} : pc'[u] = pc[u]
      /\ pc'[t] # "idle"
      /\ pc'[t] \in Flushing \ {"capture"} => pc[t] \in Flushing \ {"capture"}
  <2>1. CASE LockFlush(t)
    BY <1>1, <2>1 DEF LockFlush, Goto, Flushing
  <2>2. CASE ReadDurable(t)
    BY <1>1, <2>2 DEF ReadDurable, Goto, Flushing
  <2>3. CASE CopyRecord(t)
    <3>1. pc' = pc /\ pc[t] = "copy"
      BY <1>2, <2>3, Zenon DEF CopyRecord
    <3>. QED
      BY <3>1 DEF Flushing
  <2>4. CASE CopyDone(t)
    BY <1>1, <2>4 DEF CopyDone, Goto, Flushing
  <2>5. CASE Fsync(t)
    BY <1>1, <2>5 DEF Fsync, Goto, Flushing
  <2>. QED
    BY <2>1, <2>2, <2>3, <2>4, <2>5
<1>. QED
  BY <1>1, <1>3, <1>4, <1>5, StayLag, Zenon

\* A flush ends with the record of its Write out of the buffer, so the return
\* of that Write changes the count above no tail that is left.
LEMMA ReturnLag ==
  ASSUME IInv, LagInv, NEW t \in Thread, CaptureNothing(t) \/ Trim(t)
  PROVE  LagInv'
<1>1. /\ UNCHANGED <<accepted, target, flush>>
      /\ writing' = writing \ {t}
      /\ \A u \in Thread \ {t} : pc'[u] = pc[u]
      /\ writing \subseteq Thread
  BY Zenon DEF CaptureNothing, Trim, Return, Goto, logVars, history, IInv, TypeOK
<1>2. Writers'
  <2>1. BatchLast' = BatchLast
    BY <1>1, Zenon DEF BatchLast
  <2>. QED
    BY <1>1, <2>1, LeaveWriters, Zenon DEF LagInv
<1>3. ASSUME NEW m \in Nat, pend'.entries # <<>>, pend'.first <= m + 1
      PROVE  /\ pend.entries # <<>> /\ pend.first <= m + 1
             /\ t \in writing => ~(target[t] > m)
  <2>1. pend.first \in Nat /\ target[t] \in Nat
    BY DEF IInv, TypeOK
  <2>2. CASE CaptureNothing(t)
    <3>1. pend' = pend
      BY <2>2, Zenon DEF CaptureNothing, logVars
    <3>2. Len(pend.entries) \in Nat /\ Len(pend.entries) # 0
      BY <1>3, <3>1, EmptySeq, LenProperties DEF IInv, TypeOK
    <3>3. target[t] < pend.first
      BY <1>3, <2>1, <2>2, <3>1, <3>2 DEF CaptureNothing, BatchSize
    <3>. QED
      BY <1>3, <2>1, <3>1, <3>3
  <2>3. CASE Trim(t)
    <3>1. pc[t] \in Flushing \ {"capture"}
      BY <2>3 DEF Trim, Flushing
    <3>2. /\ flush.first = pend.first /\ pend.entries # <<>>
          /\ Len(flush.batch) \in Nat
      BY <3>1, BatchFacts
    <3>3. pend'.first = BatchLast + 1
      BY <2>3, <3>2, Zenon DEF Trim
    <3>4. t \in writing => target[t] <= BatchLast
      BY <3>1, Zenon DEF LagInv, Writers
    <3>5. BatchLast \in Int /\ pend.first <= BatchLast + 1
      BY <2>1, <3>2 DEF BatchLast
    <3>. QED
      BY <1>3, <2>1, <3>2, <3>3, <3>4, <3>5
  <2>. QED
    BY <2>2, <2>3
<1>4. ASSUME NEW m \in Nat, pend'.entries # <<>>, pend'.first <= m + 1
      PROVE  Above(m)' = Above(m)
  BY <1>1, <1>3, <1>4, LeaveAbove, Zenon
<1>5. TailLag'
  BY <1>1, <1>3, <1>4, Zenon DEF LagInv, TailLag
<1>. QED
  BY <1>2, <1>5 DEF LagInv

\* A process that reopens the log has no Write in progress and no buffer.
LEMMA ReopenLag ==
  ASSUME NEW n, Reopen(n)
  PROVE  LagInv'
<1>1. writing' = {} /\ pend'.entries = <<>>
  BY Zenon DEF Reopen, NoEntries
<1>2. Writers'
  BY <1>1, FS_EmptySet, Zenon DEF Writers
<1>. QED
  BY <1>1, <1>2, Zenon DEF LagInv, TailLag

\* Every step keeps the bound on the tails of the buffer.
LEMMA NextLag == IInv /\ LagInv /\ [Next]_vars => LagInv'
<1>. SUFFICES ASSUME IInv, LagInv, [Next]_vars PROVE LagInv'
  OBVIOUS
<1>1. ASSUME NEW t \in Thread, Step(t) PROVE LagInv'
  BY <1>1, CheckLagLag, QuietLag, CaptureLag, ReturnLag, Zenon DEF Step
<1>2. ASSUME NEW t \in Thread, DiskFault(t) PROVE LagInv'
  <2>1. /\ DiskFaults /\ UNCHANGED <<accepted, target, flush>>
        /\ writing' = writing \ {t}
        /\ \A u \in Thread \ {t} : pc'[u] = pc[u]
        /\ writing \subseteq Thread
    BY <1>2, Zenon DEF DiskFault, Return, Goto, logVars, history, IInv, TypeOK
  <2>2. Writers'
    <3>1. BatchLast' = BatchLast
      BY <2>1, Zenon DEF BatchLast
    <3>. QED
      BY <2>1, <3>1, LeaveWriters, Zenon DEF LagInv
  <2>. QED
    BY <2>1, <2>2, Zenon DEF LagInv, TailLag
<1>3. ASSUME NEW t \in Thread, NEW p \in Payload, Publish(t, p) PROVE LagInv'
  BY <1>3, PublishLag
<1>4. ASSUME NEW t \in Thread, NEW n \in 1..MaxIndex, CallSync(t, n)
      PROVE  LagInv'
  BY <1>4, CallSyncLag
<1>5. CASE Kill
  BY <1>5, ReopenLag, Zenon DEF Kill
<1>6. ASSUME NEW n \in synced..Len(disk), PowerLoss(n) PROVE LagInv'
  BY <1>6, ReopenLag, Zenon DEF PowerLoss
<1>7. CASE UNCHANGED vars
  <2>1. UNCHANGED <<pend, accepted, target, writing, pc, flush>>
    BY <1>7, Zenon DEF vars
  <2>2. BatchLast' = BatchLast /\ \A m : Above(m)' = Above(m)
    BY <2>1, Zenon DEF BatchLast, Above
  <2>. QED
    BY <2>1, <2>2, Zenon DEF LagInv, Writers, TailLag
<1>. QED
  BY <1>1, <1>2, <1>3, <1>4, <1>5, <1>6, <1>7, Zenon DEF Next

\* The bound on the whole buffer is the one on its longest tail.
LEMMA LagInvImplies == IInv /\ LagInv => LagBound
<1>. SUFFICES ASSUME IInv, LagInv, ~DiskFaults
              PROVE  pendingBytes <= MaxLag + Cardinality(writing)
  BY DEF LagBound
<1>1. /\ pendingBytes = Len(pend.entries) /\ Len(pend.entries) \in Nat
      /\ pend.first \in Nat
  BY LenProperties DEF IInv, TypeOK, Durability, BytesMatchBuffer
<1>2. Cardinality(writing) \in Nat
  BY FS_CardinalityType DEF LagInv, Writers
<1>3. CASE pend.entries = <<>>
  BY <1>1, <1>2, <1>3, BoundAssumption
<1>4. CASE pend.entries # <<>>
  <2>1. /\ Len(accepted) = pend.first + Len(pend.entries) - 1
        /\ pend.first >= 1
    BY <1>4 DEF IInv, Content, LastIndex, ViewLast
  <2>2. PICK m \in Nat : m = pend.first - 1
    BY <1>1, <2>1
  <2>3. pend.first <= m + 1 /\ m <= Len(accepted)
    BY <1>1, <2>1, <2>2
  <2>4. Len(accepted) - m <= MaxLag + Cardinality(Above(m))
    BY <1>4, <2>3, Zenon DEF LagInv, TailLag
  <2>5. Above(m) \in SUBSET writing /\ IsFiniteSet(writing)
    BY Zenon DEF Above, LagInv, Writers
  <2>6. /\ Cardinality(Above(m)) <= Cardinality(writing)
        /\ Cardinality(Above(m)) \in Nat
    BY <2>5, FS_Subset, FS_CardinalityType
  <2>7. Len(accepted) - m = pendingBytes
    BY <1>1, <2>1, <2>2
  <2>. QED
    BY <1>1, <1>2, <2>4, <2>6, <2>7, BoundAssumption
<1>. QED
  BY <1>3, <1>4

\* On a healthy disk the unsynced records exceed Options.MaxUnflushedBytes by
\* no more than one record of each Write in progress, whatever the number of
\* writers and of concurrent SyncThrough calls.
THEOREM LagBoundAlways == Spec => []LagBound
<1>1. Init => LagInv
  <2>. SUFFICES ASSUME Init PROVE LagInv
    OBVIOUS
  <2>1. writing = {} /\ pend.entries = <<>>
    BY Zenon DEF Init, NoEntries
  <2>. QED
    BY <2>1, FS_EmptySet, Zenon DEF LagInv, Writers, TailLag
<1>. QED
  BY <1>1, NextLag, LagInvImplies, IInvAlways, PTL DEF Spec
=============================================================================
