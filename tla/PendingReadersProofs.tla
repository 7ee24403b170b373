------------------------ MODULE PendingReadersProofs ------------------------
(***************************************************************************)
(* What the lock-free readers return, for any number of readers, writers,  *)
(* payloads and records.  A reader's view was the buffer when it was       *)
(* captured: whatever a sync trims afterwards is on disk by then, so the   *)
(* view and the disk, looked at later, still touch.                        *)
(***************************************************************************)
EXTENDS PendingReaders, PendingLogProofs

Views == [first : Nat, entries : Seq(Payload)]
ReaderType ==
  [op : {"none", "read", "range", "scan", "snapshot"},
   at : {"idle", "disk", "tail", "diskTail", "done"},
   idx : Nat, view : Views, last : Nat, out : Seq(Payload \cup {NotFound}), floor : Nat]

\* A view captured when floor records were accepted: it ends there, agrees with
\* the history, and begins no later than the disk now ends.
Seen(v, floor) ==
  /\ floor <= Len(accepted)
  /\ v.entries = <<>> => floor <= Len(disk)
  /\ v.entries # <<>> => /\ v.first \in 1..(Len(disk) + 1)
                         /\ floor = v.first + Len(v.entries) - 1
  /\ \A i \in 1..Len(v.entries) : v.entries[i] = accepted[v.first + i - 1]

\* What a finished call returned.
ReadOK(i, floor, out) ==
  \/ out = <<NotFound>> /\ i > floor
  \/ i \in 1..Len(accepted) /\ out = <<accepted[i]>>
RangeOK(floor, out) ==
  /\ Len(out) >= floor /\ Len(out) <= Len(accepted)
  /\ \A i \in 1..Len(out) : out[i] = accepted[i]
ScanOK(floor, out) ==
  /\ Len(out) >= floor /\ Len(out) <= Len(accepted)
  /\ \A i \in 1..Len(out) : out[i] = accepted[Len(out) - i + 1]

ReaderOK(x) ==
  x.at # "idle" =>
    /\ Seen(x.view, x.floor)
    /\ x.op = "read" => x.idx >= 1
    /\ x.at \in {"tail", "diskTail"} => x.op \in {"scan", "snapshot"}
    /\ x.at = "diskTail" => x.floor <= Len(disk)
    /\ x.op = "scan" /\ x.at = "disk" => x.last >= x.floor
    /\ x.at = "done" /\ x.op = "snapshot" => x.last >= x.floor
    /\ x.at = "done" /\ x.op = "read" => ReadOK(x.idx, x.floor, x.out)
    /\ x.at = "done" /\ x.op = "range" => RangeOK(x.floor, x.out)
    /\ x.at = "done" /\ x.op = "scan" => ScanOK(x.floor, x.out)

RInv == IInv /\ rd \in [Reader -> ReaderType] /\ \A r \in Reader : ReaderOK(rd[r])

-----------------------------------------------------------------------------
(* Steps of the log under the readers.                                      *)

\* The history and the disk are only extended.
Grows ==
  /\ Len(disk) <= Len(disk') /\ Len(accepted) <= Len(accepted')
  /\ \A i \in 1..Len(accepted) : accepted'[i] = accepted[i]

LEMMA Lengths ==
  ASSUME IInv PROVE Len(disk) \in Nat /\ Len(accepted) \in Nat /\ Len(pend.entries) \in Nat
BY LenProperties DEF IInv, TypeOK

LEMMA LogGrows ==
  ASSUME IInv, NEW t \in Thread,
         \/ Step(t) \/ DiskFault(t)
         \/ \E p \in Payload : Publish(t, p)
         \/ \E n \in 1..MaxIndex : CallSync(t, n)
  PROVE  Grows
<1>1. CASE disk' = disk /\ accepted' = accepted
  BY <1>1, Lengths DEF Grows
<1>2. ASSUME NEW p \in Payload, Publish(t, p) PROVE Grows
  <2>1. accepted' = Append(accepted, p) /\ disk' = disk
    BY <1>2 DEF Publish
  <2>2. accepted \in Seq(Payload)
    BY DEF IInv, TypeOK
  <2>3. /\ Len(Append(accepted, p)) = Len(accepted) + 1
        /\ \A i \in 1..Len(accepted) : Append(accepted, p)[i] = accepted[i]
    BY <2>2, AppendProperties
  <2> QED BY <2>1, <2>3, Lengths DEF Grows
<1>3. CASE CopyRecord(t)
  <2>1. accepted' = accepted
    BY <1>3 DEF CopyRecord, history
  <2>2. pc[t] = "copy" /\ flush.next <= BatchLast
    BY <1>3 DEF CopyRecord
  <2>3. flush.next - flush.first + 1 \in 1..Len(flush.batch) /\ flush.next = Len(disk) + 1
    BY <2>2, CopyInOrder
  <2>4. PICK e : e = flush.batch[flush.next - flush.first + 1]
    BY Zenon
  <2>5. disk' = Append(disk, e)
    BY <1>3, <2>3, <2>4 DEF CopyRecord
  <2>6. disk \in Seq(Payload) /\ flush.batch \in Seq(Payload)
    BY DEF IInv, TypeOK
  <2>7. e \in Payload
    BY <2>3, <2>4, <2>6, ElementOfSeq
  <2>8. Len(disk') = Len(disk) + 1
    BY <2>5, <2>6, <2>7, AppendProperties
  <2> QED BY <2>1, <2>8, Lengths DEF Grows
<1>4. ASSUME NEW n \in 1..MaxIndex, CallSync(t, n) PROVE Grows
  BY <1>1, <1>4 DEF CallSync, logVars, history
<1>5. CASE DiskFault(t)
  BY <1>1, <1>5 DEF DiskFault, logVars, history
<1>6. CASE CheckLag(t) \/ LockFlush(t) \/ CaptureNothing(t) \/ Capture(t)
  BY <1>1, <1>6 DEF CheckLag, LockFlush, CaptureNothing, Capture, logVars, history
<1>7. CASE ReadDurable(t) \/ CopyDone(t) \/ Fsync(t) \/ Trim(t)
  BY <1>1, <1>7, Zenon DEF ReadDurable, CopyDone, Fsync, Trim, logVars, history
<1> QED BY <1>2, <1>3, <1>4, <1>5, <1>6, <1>7 DEF Step

\* What a reader knows outlives every step but a crash.
LEMMA GrowsKeeps ==
  ASSUME IInv, IInv', Grows, NEW x \in ReaderType, ReaderOK(x)
  PROVE  ReaderOK(x)'
<1>1. /\ Len(disk) \in Nat /\ Len(accepted) \in Nat /\ Len(disk') \in Nat /\ Len(accepted') \in Nat
      /\ Len(disk) <= Len(disk') /\ Len(accepted) <= Len(accepted')
      /\ \A i \in 1..Len(accepted) : accepted'[i] = accepted[i]
  <2>1. Len(disk') \in Nat /\ Len(accepted') \in Nat
    BY LenProperties DEF IInv, TypeOK
  <2> QED BY <2>1, Lengths DEF Grows
<1>2. /\ x.view.first \in Nat /\ x.floor \in Nat /\ x.idx \in Nat /\ x.last \in Nat
      /\ x.view.entries \in Seq(Payload) /\ Len(x.view.entries) \in Nat
      /\ x.out \in Seq(Payload \cup {NotFound}) /\ Len(x.out) \in Nat
  BY LenProperties DEF ReaderType, Views
<1>3. ASSUME Seen(x.view, x.floor) PROVE Seen(x.view, x.floor)'
  <2>0. /\ x.floor <= Len(accepted)
        /\ x.view.entries = <<>> => x.floor <= Len(disk)
        /\ x.view.entries # <<>> => /\ x.view.first \in 1..(Len(disk) + 1)
                                    /\ x.floor = x.view.first + Len(x.view.entries) - 1
    BY <1>3, Zenon DEF Seen
  <2>n. PICK f \in Nat, d \in Nat, e \in Nat :
          f = x.floor /\ d = Len(disk') /\ e = Len(disk)
    BY <1>1, <1>2, Zenon
  <2>1. x.floor <= Len(accepted') /\ (x.view.entries = <<>> => x.floor <= Len(disk'))
    <3>1. Len(accepted) \in Nat /\ Len(accepted') \in Nat /\ Len(accepted) <= Len(accepted')
      BY <1>1, Zenon
    <3>2. e <= d
      BY <1>1, <2>n, Zenon
    <3> QED BY <2>0, <2>n, <3>1, <3>2
  <2>2. x.view.entries # <<>> => /\ x.view.first \in 1..(Len(disk') + 1)
                                 /\ x.floor = x.view.first + Len(x.view.entries) - 1
    <3>1. e <= d
      BY <1>1, <2>n, Zenon
    <3>2. x.view.first \in 1..(e + 1) => x.view.first \in 1..(d + 1)
      BY <3>1
    <3> QED BY <2>0, <2>n, <3>2, Zenon
  <2>3. ASSUME NEW i \in 1..Len(x.view.entries)
        PROVE  x.view.entries[i] = accepted'[x.view.first + i - 1]
    <3>1. x.view.entries # <<>>
      <4>1. Len(<<>>) = 0 /\ 1..0 = {}
        OBVIOUS
      <4> QED BY <2>3, <4>1
    <3>2. /\ x.view.first >= 1 /\ x.floor = x.view.first + Len(x.view.entries) - 1
          /\ x.floor <= Len(accepted)
      <4>1. x.view.first \in 1..(Len(disk) + 1)
        BY <1>3, <3>1 DEF Seen
      <4>2. x.floor = x.view.first + Len(x.view.entries) - 1 /\ x.floor <= Len(accepted)
        BY <1>3, <3>1 DEF Seen
      <4> QED BY <1>1, <4>1, <4>2
    <3>3. Len(accepted) \in Nat /\ x.view.first \in Nat /\ Len(x.view.entries) \in Nat
      BY <1>1, <1>2
    <3>4. x.view.first + i - 1 \in 1..Len(accepted)
      <4>1. PICK a \in Nat, l \in Nat, n \in Nat :
              a = x.view.first /\ l = Len(x.view.entries) /\ n = Len(accepted)
        BY <3>3, Zenon
      <4>2. a >= 1 /\ a + l - 1 <= n
        BY <3>2, <4>1, Zenon
      <4>3. i \in 1..l
        BY <2>3, <4>1, Zenon
      <4>4. a + i - 1 \in 1..n
        BY <4>2, <4>3
      <4> QED BY <4>1, <4>4, Zenon
    <3>5. x.view.entries[i] = accepted[x.view.first + i - 1]
      BY <1>3, <2>3 DEF Seen
    <3> QED BY <1>1, <3>4, <3>5, Zenon
  <2> QED BY <2>1, <2>2, <2>3 DEF Seen
<1>4. ASSUME ReadOK(x.idx, x.floor, x.out) PROVE ReadOK(x.idx, x.floor, x.out)'
  BY <1>1, <1>2, <1>4 DEF ReadOK
<1>5. ASSUME RangeOK(x.floor, x.out) PROVE RangeOK(x.floor, x.out)'
  <2>1. Len(x.out) >= x.floor /\ Len(x.out) <= Len(accepted')
    BY <1>1, <1>2, <1>5 DEF RangeOK
  <2>2. ASSUME NEW i \in 1..Len(x.out) PROVE x.out[i] = accepted'[i]
    <3>1. i \in 1..Len(accepted)
      BY <1>1, <1>2, <1>5 DEF RangeOK
    <3> QED BY <1>1, <1>5, <3>1 DEF RangeOK
  <2> QED BY <2>1, <2>2 DEF RangeOK
<1>6. ASSUME ScanOK(x.floor, x.out) PROVE ScanOK(x.floor, x.out)'
  <2>1. Len(x.out) >= x.floor /\ Len(x.out) <= Len(accepted')
    BY <1>1, <1>2, <1>6 DEF ScanOK
  <2>2. ASSUME NEW i \in 1..Len(x.out) PROVE x.out[i] = accepted'[Len(x.out) - i + 1]
    <3>1. Len(x.out) - i + 1 \in 1..Len(accepted)
      BY <1>1, <1>2, <1>6 DEF ScanOK
    <3> QED BY <1>1, <1>6, <3>1, Zenon DEF ScanOK
  <2> QED BY <2>1, <2>2 DEF ScanOK
<1>7. x.floor <= Len(disk) => x.floor <= Len(disk')
  BY <1>1, <1>2
<1> QED BY <1>3, <1>4, <1>5, <1>6, <1>7 DEF ReaderOK
-----------------------------------------------------------------------------
(* Steps of the readers.                                                    *)

\* A reader moves to a state that is right; the log and the others stay.
LEMMA ReaderUpdate ==
  ASSUME RInv, UNCHANGED vars, NEW r \in Reader, NEW x \in ReaderType, ReaderOK(x),
         rd' = [rd EXCEPT ![r] = x]
  PROVE  RInv'
<1>1. IInv'
  <2>1. [Next]_vars
    BY Zenon
  <2> QED BY <2>1, NextIInv DEF RInv
<1>2. rd \in [Reader -> ReaderType]
  BY DEF RInv
<1>3. rd' \in [Reader -> ReaderType] /\ \A q \in Reader : rd'[q] = IF q = r THEN x ELSE rd[q]
  BY <1>2, Zenon
<1>4. disk' = disk /\ accepted' = accepted
  BY Zenon DEF vars
<1>5. ASSUME NEW y, ReaderOK(y) PROVE ReaderOK(y)'
  BY <1>4, <1>5 DEF ReaderOK, Seen, ReadOK, RangeOK, ScanOK
<1>6. ASSUME NEW q \in Reader PROVE ReaderOK(rd[q])
  BY Zenon DEF RInv
<1>7. ASSUME NEW q \in Reader PROVE ReaderOK(rd[q])'
  <2>1. PICK y : y = rd'[q]
    BY Zenon
  <2>2. ReaderOK(y)
    BY <1>3, <1>6, <2>1, Zenon
  <2>3. ReaderOK(y)'
    BY <1>5, <2>2
  <2> QED BY <2>1, <2>3 DEF ReaderOK, Seen, ReadOK, RangeOK, ScanOK
<1> QED BY <1>1, <1>3, <1>7 DEF RInv

\* The buffer as it is now is a view in this sense.
LEMMA PendSeen == ASSUME IInv PROVE Seen(pend, Len(accepted)) /\ pend \in Views
<1>1. pend \in Views
  BY DEF IInv, TypeOK, Views
<1>2. Len(accepted) = LastIndex /\ Len(accepted) \in Nat /\ Len(disk) \in Nat
  BY Lengths DEF IInv, Content
<1>3. pend.entries = <<>> => Len(accepted) <= Len(disk)
  BY <1>2 DEF LastIndex
<1>4. pend.entries # <<>> => Len(accepted) = pend.first + Len(pend.entries) - 1
  BY <1>2 DEF LastIndex, ViewLast
<1> QED BY <1>1, <1>2, <1>3, <1>4 DEF IInv, Content, Seen

LEMMA BeginRInv ==
  ASSUME RInv, NEW r \in Reader, NEW op, NEW i \in Nat, NEW label, Begin(r, op, i, label),
         \/ op = "read" /\ label = "disk" /\ i >= 1
         \/ op = "range" /\ label = "disk"
         \/ op \in {"scan", "snapshot"} /\ label = "tail"
  PROVE  RInv'
<1>1. PICK x : x = [op |-> op, at |-> label, idx |-> i, view |-> pend,
                    last |-> 0, out |-> <<>>, floor |-> Len(accepted)]
  BY Zenon
<1>2. rd' = [rd EXCEPT ![r] = x] /\ UNCHANGED vars
  BY <1>1 DEF Begin
<1>3. Seen(pend, Len(accepted)) /\ pend \in Views /\ Len(accepted) \in Nat
  BY PendSeen, Lengths, Zenon DEF RInv
<1>4. x \in ReaderType
  BY <1>1, <1>3 DEF ReaderType
<1>5. x.view = pend /\ x.floor = Len(accepted) /\ x.op = op /\ x.at = label /\ x.idx = i
  BY <1>1
<1>6. ReaderOK(x)
  BY <1>3, <1>5 DEF ReaderOK
<1> QED BY <1>2, <1>4, <1>6, ReaderUpdate, Zenon

\* A reader's record with its result, and with the tail it found.
DoneWith(y, out) == [y EXCEPT !.at = "done", !.out = out]
Tailed(y, n, label) == [y EXCEPT !.last = n, !.at = label]
MovedTo(y, label) == [y EXCEPT !.at = label]

LEMMA DoneFacts ==
  ASSUME NEW y \in ReaderType, NEW out \in Seq(Payload \cup {NotFound})
  PROVE  /\ DoneWith(y, out) \in ReaderType
         /\ DoneWith(y, out).op = y.op /\ DoneWith(y, out).at = "done"
         /\ DoneWith(y, out).idx = y.idx /\ DoneWith(y, out).view = y.view
         /\ DoneWith(y, out).out = out /\ DoneWith(y, out).floor = y.floor
<1>1. PICK a, b, c, d, e, f, g :
        /\ y = [op |-> a, at |-> b, idx |-> c, view |-> d, last |-> e, out |-> f, floor |-> g]
        /\ a \in {"none", "read", "range", "scan", "snapshot"} /\ c \in Nat /\ d \in Views
        /\ e \in Nat /\ f \in Seq(Payload \cup {NotFound}) /\ g \in Nat
  BY DEF ReaderType
<1>2. PICK z : z = [y EXCEPT !.at = "done"]
  BY Zenon
<1>3. DoneWith(y, out) = [z EXCEPT !.out = out]
  BY <1>2, Zenon DEF DoneWith
<1>4. z = [op |-> a, at |-> "done", idx |-> c, view |-> d, last |-> e, out |-> f, floor |-> g]
  BY <1>1, <1>2
<1>5. DoneWith(y, out) =
        [op |-> a, at |-> "done", idx |-> c, view |-> d, last |-> e, out |-> out, floor |-> g]
  BY <1>3, <1>4
<1> QED BY <1>1, <1>5 DEF ReaderType

LEMMA TailFacts ==
  ASSUME NEW y \in ReaderType, NEW n \in Nat, NEW label \in {"disk", "done"}
  PROVE  /\ Tailed(y, n, label) \in ReaderType
         /\ Tailed(y, n, label).op = y.op /\ Tailed(y, n, label).at = label
         /\ Tailed(y, n, label).view = y.view /\ Tailed(y, n, label).last = n
         /\ Tailed(y, n, label).floor = y.floor
<1>1. PICK a, b, c, d, e, f, g :
        /\ y = [op |-> a, at |-> b, idx |-> c, view |-> d, last |-> e, out |-> f, floor |-> g]
        /\ a \in {"none", "read", "range", "scan", "snapshot"} /\ c \in Nat /\ d \in Views
        /\ e \in Nat /\ f \in Seq(Payload \cup {NotFound}) /\ g \in Nat
  BY DEF ReaderType
<1>2. PICK z : z = [y EXCEPT !.last = n]
  BY Zenon
<1>3. Tailed(y, n, label) = [z EXCEPT !.at = label]
  BY <1>2, Zenon DEF Tailed
<1>4. z = [op |-> a, at |-> b, idx |-> c, view |-> d, last |-> n, out |-> f, floor |-> g]
  BY <1>1, <1>2
<1>5. Tailed(y, n, label) =
        [op |-> a, at |-> label, idx |-> c, view |-> d, last |-> n, out |-> f, floor |-> g]
  BY <1>3, <1>4
<1> QED BY <1>1, <1>5 DEF ReaderType

LEMMA MoveFacts ==
  ASSUME NEW y \in ReaderType
  PROVE  /\ MovedTo(y, "diskTail") \in ReaderType
         /\ MovedTo(y, "diskTail").op = y.op /\ MovedTo(y, "diskTail").at = "diskTail"
         /\ MovedTo(y, "diskTail").view = y.view /\ MovedTo(y, "diskTail").floor = y.floor
BY DEF MovedTo, ReaderType

\* A call may end with a result that is right for its operation.
LEMMA FinishRInv ==
  ASSUME RInv, NEW r \in Reader, NEW out \in Seq(Payload \cup {NotFound}), Finish(r, out),
         rd[r].at = "disk",
         \/ rd[r].op = "read" /\ ReadOK(rd[r].idx, rd[r].floor, out)
         \/ rd[r].op = "range" /\ RangeOK(rd[r].floor, out)
         \/ rd[r].op = "scan" /\ ScanOK(rd[r].floor, out)
  PROVE  RInv'
<1>1. PICK y : y = rd[r]
  BY Zenon
<1>2. PICK x : x = DoneWith(y, out)
  BY Zenon
<1>3. y \in ReaderType /\ ReaderOK(y)
  BY <1>1 DEF RInv
<1>4. rd' = [rd EXCEPT ![r] = x] /\ UNCHANGED vars
  BY <1>1, <1>2, Zenon DEF Finish, DoneWith
<1>5. /\ x \in ReaderType /\ x.op = y.op /\ x.at = "done" /\ x.idx = y.idx
      /\ x.view = y.view /\ x.out = out /\ x.floor = y.floor
  BY <1>2, <1>3, DoneFacts, Zenon
<1>6. ReaderOK(x)
  BY <1>1, <1>3, <1>5 DEF ReaderOK
<1> QED BY <1>4, <1>5, <1>6, ReaderUpdate, Zenon

\* What is known of a reader in the middle of a call.
LEMMA ReaderFacts ==
  ASSUME RInv, NEW r \in Reader, rd[r].at # "idle"
  PROVE  /\ Seen(rd[r].view, rd[r].floor)
         /\ rd[r].view.first \in Nat /\ rd[r].floor \in Nat /\ rd[r].idx \in Nat
         /\ rd[r].last \in Nat
         /\ rd[r].view.entries \in Seq(Payload) /\ Len(rd[r].view.entries) \in Nat
         /\ Len(disk) \in Nat /\ Len(accepted) \in Nat /\ Len(disk) <= Len(accepted)
         /\ disk \in Seq(Payload) /\ accepted \in Seq(Payload)
         /\ \A i \in 1..Len(disk) : disk[i] = accepted[i]
<1>1. rd[r] \in ReaderType /\ ReaderOK(rd[r]) /\ IInv
  BY DEF RInv
<1>2. disk \in Seq(Payload) /\ accepted \in Seq(Payload)
  BY <1>1 DEF IInv, TypeOK
<1>3. /\ rd[r].view.first \in Nat /\ rd[r].floor \in Nat /\ rd[r].idx \in Nat /\ rd[r].last \in Nat
      /\ rd[r].view.entries \in Seq(Payload)
  BY <1>1 DEF ReaderType, Views
<1>4. Len(rd[r].view.entries) \in Nat
  BY <1>3, LenProperties
<1>5. Len(disk) <= Len(accepted) /\ \A i \in 1..Len(disk) : disk[i] = accepted[i]
  BY <1>1, Zenon DEF IInv, Content
<1>6. Seen(rd[r].view, rd[r].floor)
  BY <1>1, Zenon DEF ReaderOK
<1> QED BY <1>1, <1>2, <1>3, <1>4, <1>5, <1>6, Lengths

\* The view, or the disk below it, or no such record yet.
LEMMA ViewOrDisk ==
  ASSUME NEW v, NEW i, NEW f, NEW got, Seen(v, f), i >= 1,
         v.first \in Nat, f \in Nat, i \in Nat, Len(v.entries) \in Nat,
         Len(disk) \in Nat, Len(accepted) \in Nat, Len(disk) <= Len(accepted),
         \A j \in 1..Len(disk) : disk[j] = accepted[j],
         got = IF InView(v, i) THEN ViewAt(v, i)
               ELSE IF i <= Len(disk) THEN disk[i] ELSE NotFound
  PROVE  (got = NotFound /\ i > f) \/ (i \in 1..Len(accepted) /\ got = accepted[i])
<1>1. CASE InView(v, i)
  <2>1. v.entries # <<>> /\ v.first <= i /\ i <= v.first + Len(v.entries) - 1
    BY <1>1 DEF InView, ViewLast
  <2>2. i - v.first + 1 \in 1..Len(v.entries) /\ v.first + (i - v.first + 1) - 1 = i
    BY <2>1
  <2>3. got = v.entries[i - v.first + 1]
    BY <1>1 DEF ViewAt
  <2>4. got = accepted[i]
    BY <2>2, <2>3, Zenon DEF Seen
  <2>5. i \in 1..Len(accepted)
    BY <2>1 DEF Seen
  <2> QED BY <2>4, <2>5
<1>2. CASE ~InView(v, i) /\ i <= Len(disk)
  BY <1>2
<1>3. CASE ~InView(v, i) /\ ~(i <= Len(disk))
  <2>1. got = NotFound
    BY <1>3
  <2>2. CASE v.entries = <<>>
    BY <1>3, <2>1, <2>2 DEF Seen
  <2>3. CASE v.entries # <<>>
    <3>1. v.first <= Len(disk) + 1 /\ f = v.first + Len(v.entries) - 1
      BY <2>3 DEF Seen
    <3>2. ~(v.first <= i /\ i <= v.first + Len(v.entries) - 1)
      BY <1>3, <2>3 DEF InView, ViewLast
    <3> QED BY <1>3, <2>1, <3>1, <3>2
  <2> QED BY <2>2, <2>3
<1> QED BY <1>1, <1>2, <1>3

LEMMA AnswerReadRInv ==
  ASSUME RInv, NEW r \in Reader, AnswerRead(r) PROVE RInv'
<1>1. PICK v, i, f : v = rd[r].view /\ i = rd[r].idx /\ f = rd[r].floor
  BY Zenon
<1>2. PICK got : got = IF InView(v, i) THEN ViewAt(v, i)
                       ELSE IF i <= Len(disk) THEN disk[i] ELSE NotFound
  BY Zenon
<1>3. PICK out : out = <<got>>
  BY Zenon
<1>4. rd[r].op = "read" /\ rd[r].at = "disk" /\ Finish(r, out)
  BY <1>1, <1>2, <1>3, Zenon DEF AnswerRead
<1>5. /\ Seen(v, f) /\ v.first \in Nat /\ f \in Nat /\ i \in Nat /\ Len(v.entries) \in Nat
      /\ Len(disk) \in Nat /\ Len(accepted) \in Nat /\ Len(disk) <= Len(accepted)
      /\ \A j \in 1..Len(disk) : disk[j] = accepted[j]
  BY <1>1, <1>4, ReaderFacts, Zenon
<1>6. i >= 1
  BY <1>1, <1>4, Zenon DEF RInv, ReaderOK
<1>7. (got = NotFound /\ i > f) \/ (i \in 1..Len(accepted) /\ got = accepted[i])
  BY <1>2, <1>5, <1>6, ViewOrDisk
<1>8. accepted \in Seq(Payload)
  BY DEF RInv, IInv, TypeOK
<1>9. got \in Payload \cup {NotFound}
  BY <1>7, <1>8, ElementOfSeq
<1>10. out \in Seq(Payload \cup {NotFound})
  BY <1>3, <1>9
<1>11. ReadOK(i, f, out)
  BY <1>3, <1>7 DEF ReadOK
<1> QED BY <1>1, <1>4, <1>10, <1>11, FinishRInv

\* Range: the disk below the view, then the view.
LEMMA AnswerRangeRInv ==
  ASSUME RInv, NEW r \in Reader, AnswerRange(r) PROVE RInv'
<1>1. PICK v, f : v = rd[r].view /\ f = rd[r].floor
  BY Zenon
<1>2. PICK out : out = IF v.entries # <<>> THEN DiskThrough(v.first - 1) \o v.entries ELSE disk
  BY Zenon
<1>3. rd[r].op = "range" /\ rd[r].at = "disk" /\ Finish(r, out)
  BY <1>1, <1>2, Zenon DEF AnswerRange
<1>4. /\ Seen(v, f) /\ v.first \in Nat /\ f \in Nat
      /\ v.entries \in Seq(Payload) /\ Len(v.entries) \in Nat
      /\ Len(disk) \in Nat /\ Len(accepted) \in Nat /\ Len(disk) <= Len(accepted)
      /\ disk \in Seq(Payload) /\ \A j \in 1..Len(disk) : disk[j] = accepted[j]
  BY <1>1, <1>3, ReaderFacts
<1>5. RangeOK(f, out) /\ out \in Seq(Payload)
  <2>1. CASE v.entries = <<>>
    <3>1. out = disk /\ f <= Len(disk)
      BY <1>2, <1>4, <2>1 DEF Seen
    <3> QED BY <1>4, <3>1 DEF RangeOK
  <2>2. CASE v.entries # <<>>
    <3>1. /\ v.first >= 1 /\ v.first <= Len(disk) + 1
          /\ f = v.first + Len(v.entries) - 1 /\ f <= Len(accepted)
      BY <1>4, <2>2 DEF Seen
    <3>2. PICK n : n = v.first - 1
      BY Zenon
    <3>3. n \in 0..Len(disk) /\ n \in Nat /\ v.first = n + 1 /\ f = n + Len(v.entries)
      BY <1>4, <3>1, <3>2, SMTT(60)
    <3>4. PICK d : d = SubSeq(disk, 1, n)
      BY Zenon
    <3>5. d \in Seq(Payload) /\ Len(d) = n /\ \A i \in 1..n : d[i] = disk[i]
      BY <1>4, <3>3, <3>4, PrefixFacts
    <3>6. DiskThrough(n) = d
      BY <1>4, <3>3, <3>4 DEF DiskThrough
    <3>7. out = d \o v.entries
      BY <1>2, <2>2, <3>2, <3>6, Zenon
    <3>8. PICK e : e = v.entries
      BY Zenon
    <3>9. /\ out \in Seq(Payload) /\ Len(out) = n + Len(e)
          /\ \A i \in 1..(n + Len(e)) : out[i] = IF i <= n THEN d[i] ELSE e[i - n]
      <4>1. e \in Seq(Payload) /\ out = d \o e
        BY <1>4, <3>7, <3>8
      <4>2. /\ d \o e \in Seq(Payload) /\ Len(d \o e) = Len(d) + Len(e)
            /\ \A i \in 1..(Len(d) + Len(e)) :
                 (d \o e)[i] = IF i <= Len(d) THEN d[i] ELSE e[i - Len(d)]
        BY <3>5, <4>1, ConcatProperties, Zenon
      <4> QED BY <3>5, <4>1, <4>2, Zenon
    <3>10. ASSUME NEW i \in 1..Len(out) PROVE out[i] = accepted[i]
      <4>1. Len(e) \in Nat /\ i \in 1..(n + Len(e))
        BY <1>4, <3>8, <3>9
      <4>2. CASE i <= n
        <5>1. i \in 1..n /\ i \in 1..Len(disk)
          BY <1>4, <3>3, <4>1, <4>2
        <5> QED BY <1>4, <3>5, <3>9, <4>1, <4>2, <5>1
      <4>3. CASE ~(i <= n)
        <5>1. i - n \in 1..Len(e) /\ v.first + (i - n) - 1 = i
          BY <3>3, <4>1, <4>3
        <5>2. e[i - n] = accepted[v.first + (i - n) - 1]
          BY <1>4, <3>8, <5>1, SMTT(60) DEF Seen
        <5> QED BY <3>9, <4>1, <4>3, <5>1, <5>2
      <4> QED BY <4>2, <4>3
    <3>11. Len(out) = f
      BY <3>3, <3>8, <3>9
    <3> QED BY <1>4, <3>1, <3>9, <3>10, <3>11 DEF RangeOK
  <2> QED BY <2>1, <2>2
<1>6. out \in Seq(Payload \cup {NotFound})
  BY <1>5
<1> QED BY <1>1, <1>3, <1>5, <1>6, FinishRInv

LEMMA BackwardsFacts ==
  ASSUME NEW S, NEW s \in Seq(S)
  PROVE  /\ Backwards(s) \in Seq(S) /\ Len(Backwards(s)) = Len(s)
         /\ \A i \in 1..Len(s) : Backwards(s)[i] = s[Len(s) - i + 1]
<1>1. Len(s) \in Nat /\ \A i \in 1..Len(s) : s[i] \in S
  BY LenProperties, ElementOfSeq
<1>2. \A i \in 1..Len(s) : Len(s) - i + 1 \in 1..Len(s)
  BY <1>1
<1> QED BY <1>1, <1>2 DEF Backwards

\* ScanFromEnd: the view backwards, then the disk below it.  The tail found is
\* no lower than the view's end, so the view is never cut.
LEMMA AnswerScanRInv ==
  ASSUME RInv, NEW r \in Reader, AnswerScan(r) PROVE RInv'
<1>1. PICK v, f, from : v = rd[r].view /\ f = rd[r].floor /\ from = rd[r].last
  BY Zenon
<1>2. PICK hi : hi = IF from > ViewLast(v) THEN ViewLast(v) ELSE from
  BY Zenon
<1>3. PICK out : out = IF v.entries # <<>> /\ from >= v.first
                         THEN Backwards(ViewThrough(v, hi)) \o Backwards(DiskThrough(v.first - 1))
                         ELSE Backwards(DiskThrough(from))
  BY Zenon
<1>4. rd[r].op = "scan" /\ rd[r].at = "disk" /\ Finish(r, out)
  BY <1>1, <1>2, <1>3, Zenon DEF AnswerScan
<1>5. /\ Seen(v, f) /\ v.first \in Nat /\ f \in Nat /\ from \in Nat
      /\ v.entries \in Seq(Payload) /\ Len(v.entries) \in Nat
      /\ Len(disk) \in Nat /\ Len(accepted) \in Nat /\ Len(disk) <= Len(accepted)
      /\ disk \in Seq(Payload) /\ \A j \in 1..Len(disk) : disk[j] = accepted[j]
  BY <1>1, <1>4, ReaderFacts, Zenon
<1>6. from >= f
  BY <1>1, <1>4, Zenon DEF RInv, ReaderOK
<1>7. ASSUME NEW n \in 0..Len(disk)
      PROVE  /\ Backwards(SubSeq(disk, 1, n)) \in Seq(Payload)
             /\ Len(Backwards(SubSeq(disk, 1, n))) = n
             /\ \A i \in 1..n : Backwards(SubSeq(disk, 1, n))[i] = accepted[n - i + 1]
  <2>1. PICK d : d = SubSeq(disk, 1, n)
    BY Zenon
  <2>2. d \in Seq(Payload) /\ Len(d) = n /\ \A i \in 1..n : d[i] = disk[i]
    BY <1>5, <2>1, PrefixFacts
  <2>3. PICK b : b = Backwards(d)
    BY Zenon
  <2>4. b \in Seq(Payload) /\ Len(b) = n /\ \A i \in 1..n : b[i] = d[n - i + 1]
    BY <2>2, <2>3, BackwardsFacts, SMTT(60)
  <2>5. ASSUME NEW i \in 1..n PROVE b[i] = accepted[n - i + 1]
    <3>1. n - i + 1 \in 1..n /\ n - i + 1 \in 1..Len(disk)
      BY <1>5
    <3> QED BY <1>5, <2>2, <2>4, <3>1, Zenon
  <2> QED BY <2>1, <2>3, <2>4, <2>5
<1>8. ScanOK(f, out) /\ out \in Seq(Payload)
  <2>1. CASE v.entries = <<>>
    <3>1. f <= Len(disk)
      BY <1>5, <2>1 DEF Seen
    <3>2. PICK n : n = IF from < Len(disk) THEN from ELSE Len(disk)
      BY Zenon
    <3>3. n \in 0..Len(disk) /\ n >= f /\ n <= Len(accepted)
      BY <1>5, <1>6, <3>1, <3>2
    <3>4. out = Backwards(SubSeq(disk, 1, n))
      BY <1>3, <2>1, <3>2 DEF DiskThrough
    <3>5. out \in Seq(Payload) /\ Len(out) = n /\ \A i \in 1..n : out[i] = accepted[n - i + 1]
      BY <1>7, <3>3, <3>4, Zenon
    <3> QED BY <3>3, <3>5 DEF ScanOK
  <2>2. CASE v.entries # <<>>
    <3>1. /\ v.first >= 1 /\ v.first <= Len(disk) + 1
          /\ f = v.first + Len(v.entries) - 1 /\ f <= Len(accepted)
      BY <1>5, <2>2 DEF Seen
    <3>2. PICK n, e : n = v.first - 1 /\ e = v.entries
      BY Zenon
    <3>3. /\ n \in 0..Len(disk) /\ n \in Nat /\ v.first = n + 1 /\ f = n + Len(e)
          /\ e \in Seq(Payload) /\ Len(e) \in Nat
      BY <1>5, <3>1, <3>2, SMTT(60)
    <3>4. Len(e) >= 1
      <4>1. e # <<>>
        BY <2>2, <3>2
      <4> QED BY <3>3, <4>1, EmptySeq
    <3>5. hi = f /\ from >= v.first /\ hi - v.first + 1 = Len(e)
      <4>1. ViewLast(v) = f
        BY <3>1 DEF ViewLast
      <4>2. /\ v.first \in Nat /\ f \in Nat /\ from \in Nat /\ Len(e) \in Nat
            /\ f = v.first - 1 + Len(e)
        BY <1>5, <3>2, <3>3, Zenon
      <4>3. hi = f
        BY <1>2, <1>6, <4>1, <4>2
      <4> QED BY <1>6, <3>4, <4>2, <4>3, SMTT(60)
    <3>6. PICK t : t = SubSeq(e, 1, Len(e))
      BY Zenon
    <3>7. t \in Seq(Payload) /\ Len(t) = Len(e) /\ \A i \in 1..Len(e) : t[i] = e[i]
      BY <3>3, <3>6, PrefixFacts
    <3>8. ViewThrough(v, hi) = t
      BY <3>2, <3>5, <3>6, Zenon DEF ViewThrough
    <3>9. DiskThrough(n) = SubSeq(disk, 1, n)
      BY <1>5, <3>3 DEF DiskThrough
    <3>10. PICK a, b : a = Backwards(t) /\ b = Backwards(SubSeq(disk, 1, n))
      BY Zenon
    <3>11. out = a \o b
      BY <1>3, <2>2, <3>2, <3>5, <3>8, <3>9, <3>10, Zenon
    <3>12. a \in Seq(Payload) /\ Len(a) = Len(e) /\ \A i \in 1..Len(e) : a[i] = t[Len(e) - i + 1]
      BY <3>7, <3>10, BackwardsFacts
    <3>13. b \in Seq(Payload) /\ Len(b) = n /\ \A i \in 1..n : b[i] = accepted[n - i + 1]
      BY <1>7, <3>3, <3>10
    <3>14. /\ out \in Seq(Payload) /\ Len(out) = Len(e) + n
           /\ \A i \in 1..(Len(e) + n) : out[i] = IF i <= Len(e) THEN a[i] ELSE b[i - Len(e)]
      <4>1. a \in Seq(Payload) /\ b \in Seq(Payload) /\ Len(a) = Len(e) /\ Len(b) = n
        BY <3>12, <3>13
      <4>2. /\ a \o b \in Seq(Payload) /\ Len(a \o b) = Len(a) + Len(b)
            /\ \A i \in 1..(Len(a) + Len(b)) :
                 (a \o b)[i] = IF i <= Len(a) THEN a[i] ELSE b[i - Len(a)]
        BY <4>1, ConcatProperties, Zenon
      <4> QED BY <3>11, <4>1, <4>2, Zenon
    <3>15. ASSUME NEW i \in 1..Len(out) PROVE out[i] = accepted[Len(out) - i + 1]
      <4>1. i \in 1..(Len(e) + n)
        BY <3>14, Zenon
      <4>2. CASE i <= Len(e)
        <5>1. i \in 1..Len(e) /\ Len(e) - i + 1 \in 1..Len(e)
          BY <3>3, <4>1, <4>2
        <5>2. out[i] = e[Len(e) - i + 1]
          BY <3>7, <3>12, <3>14, <4>1, <4>2, <5>1
        <5>3. e[Len(e) - i + 1] = accepted[v.first + (Len(e) - i + 1) - 1]
          BY <1>5, <3>2, <5>1, Zenon DEF Seen
        <5>4. v.first + (Len(e) - i + 1) - 1 = (Len(e) + n) - i + 1
          BY <3>3, <5>1
        <5> QED BY <3>14, <5>2, <5>3, <5>4
      <4>3. CASE ~(i <= Len(e))
        <5>1. i - Len(e) \in 1..n /\ n - (i - Len(e)) + 1 = (Len(e) + n) - i + 1
          BY <3>3, <4>1, <4>3
        <5>2. out[i] = b[i - Len(e)]
          BY <3>14, <4>1, <4>3, Zenon
        <5> QED BY <3>13, <3>14, <5>1, <5>2
      <4> QED BY <4>2, <4>3
    <3>16. Len(out) = f
      BY <3>3, <3>14
    <3> QED BY <1>5, <3>1, <3>14, <3>15, <3>16 DEF ScanOK
  <2> QED BY <2>1, <2>2
<1>9. out \in Seq(Payload \cup {NotFound})
  BY <1>8
<1> QED BY <1>1, <1>4, <1>8, <1>9, FinishRInv

\* LastIndex, called after the view was captured, is no lower than it ends.
LEMMA LoadTailRInv ==
  ASSUME RInv, NEW r \in Reader, LoadTail(r) \/ LoadDiskTail(r) PROVE RInv'
<1>1. PICK y : y = rd[r]
  BY Zenon
<1>2. y \in ReaderType /\ ReaderOK(y) /\ IInv
  BY <1>1 DEF RInv
<1>3. y.at \in {"tail", "diskTail"} /\ UNCHANGED vars
  BY <1>1 DEF LoadTail, LoadDiskTail
<1>4. PICK label : label = AfterTail(r)
  BY Zenon
<1>5. /\ y.op \in {"scan", "snapshot"} /\ Seen(y.view, y.floor) /\ y.floor \in Nat
      /\ label = IF y.op = "scan" THEN "disk" ELSE "done"
  BY <1>1, <1>2, <1>3, <1>4 DEF ReaderOK, ReaderType, AfterTail
<1>6. label \in {"disk", "done"}
  BY <1>5, Zenon
<1>7. /\ Len(disk) \in Nat /\ Len(accepted) \in Nat /\ y.floor <= Len(accepted)
      /\ Len(accepted) = LastIndex
  BY <1>2, <1>5, Lengths DEF IInv, Content, Seen
<1>8. ASSUME NEW n \in Nat, n >= y.floor, rd' = [rd EXCEPT ![r] = Tailed(y, n, label)]
      PROVE  RInv'
  <2>1. PICK x : x = Tailed(y, n, label)
    BY Zenon
  <2>3. /\ x \in ReaderType /\ x.op = y.op /\ x.at = label /\ x.last = n
        /\ x.view = y.view /\ x.floor = y.floor
    <3>1. n \in Nat /\ y \in ReaderType
      BY <1>2, <1>8
    <3>2. PICK k : k = label
      BY Zenon
    <3>3. k \in {"disk", "done"} /\ x = Tailed(y, n, k)
      BY <1>6, <2>1, <3>2, Zenon
    <3> QED BY <3>1, <3>2, <3>3, TailFacts
  <2>4. ReaderOK(x)
    BY <1>5, <1>6, <1>8, <2>3 DEF ReaderOK
  <2>5. rd' = [rd EXCEPT ![r] = x]
    BY <1>8, <2>1
  <2> QED BY <1>3, <2>3, <2>4, <2>5, ReaderUpdate, Zenon
<1>9. CASE LoadTail(r) /\ pend.entries # <<>>
  <2>1. PICK n : n = ViewLast(pend)
    BY Zenon
  <2>2. n = Len(accepted)
    BY <1>7, <1>9, <2>1 DEF LastIndex
  <2>3. rd' = [rd EXCEPT ![r] = Tailed(y, n, label)]
    BY <1>1, <1>4, <1>9, <2>1, Zenon DEF LoadTail, Tailed
  <2> QED BY <1>7, <1>8, <2>2, <2>3, Zenon
<1>10. CASE LoadTail(r) /\ pend.entries = <<>>
  <2>1. y.floor <= Len(disk)
    BY <1>7, <1>10 DEF LastIndex
  <2>2. PICK x : x = MovedTo(y, "diskTail")
    BY Zenon
  <2>3. rd' = [rd EXCEPT ![r] = x]
    BY <1>1, <1>10, <2>2, Zenon DEF LoadTail, MovedTo
  <2>5. /\ x \in ReaderType /\ x.op = y.op /\ x.at = "diskTail"
        /\ x.view = y.view /\ x.floor = y.floor
    BY <1>2, <2>2, MoveFacts, Zenon
  <2>6. ReaderOK(x)
    BY <1>5, <2>1, <2>5 DEF ReaderOK
  <2> QED BY <1>3, <2>3, <2>5, <2>6, ReaderUpdate, Zenon
<1>11. CASE LoadDiskTail(r)
  <2>1. y.at = "diskTail"
    BY <1>1, <1>11 DEF LoadDiskTail
  <2>2. PICK n : n = Len(disk)
    BY Zenon
  <2>3. n \in Nat /\ n >= y.floor
    BY <1>2, <1>5, <1>7, <2>1, <2>2 DEF ReaderOK
  <2>4. rd' = [rd EXCEPT ![r] = Tailed(y, n, label)]
    BY <1>1, <1>4, <1>11, <2>2, Zenon DEF LoadDiskTail, Tailed
  <2> QED BY <1>8, <2>3, <2>4, Zenon
<1> QED BY <1>9, <1>10, <1>11

-----------------------------------------------------------------------------
\* With no reader running the invariant is the log's own.
LEMMA InitRInv == RInit => RInv
<1> SUFFICES ASSUME RInit PROVE RInv
  OBVIOUS
<1>1. IInv
  BY InitIInv, Zenon DEF RInit
<1>2. IdleReader \in ReaderType /\ IdleReader.at = "idle"
  BY DEF IdleReader, ReaderType, Views, NoEntries
<1>3. rd \in [Reader -> ReaderType] /\ \A r \in Reader : rd[r] = IdleReader
  BY <1>2, Zenon DEF RInit
<1> QED BY <1>1, <1>2, <1>3 DEF RInv, ReaderOK

\* A crash ends every call.
LEMMA CrashRInv ==
  ASSUME RInv, IInv', rd' = [r \in Reader |-> IdleReader] PROVE RInv'
<1>1. IdleReader \in ReaderType /\ IdleReader.at = "idle"
  BY DEF IdleReader, ReaderType, Views, NoEntries
<1>2. rd' \in [Reader -> ReaderType] /\ \A r \in Reader : rd'[r] = IdleReader
  BY <1>1, Zenon
<1> QED BY <1>1, <1>2, Zenon DEF RInv, ReaderOK

\* A step of the log leaves what the readers hold true.
LEMMA LogRInv ==
  ASSUME RInv, IInv', Grows, rd' = rd PROVE RInv'
<1>1. rd \in [Reader -> ReaderType] /\ IInv
  BY Zenon DEF RInv
<1>2. ASSUME NEW r \in Reader PROVE ReaderOK(rd[r])'
  <2>1. PICK x : x = rd[r]
    BY Zenon
  <2>2. x \in ReaderType /\ ReaderOK(x)
    BY <2>1 DEF RInv
  <2>3. ReaderOK(x)'
    BY <1>1, <2>2, GrowsKeeps
  <2>4. rd'[r] = x
    BY <2>1
  <2> QED BY <2>3, <2>4 DEF ReaderOK, Seen, ReadOK, RangeOK, ScanOK
<1> QED BY <1>1, <1>2 DEF RInv

\* Every step of a reader keeps the invariant.
LEMMA ReaderStepRInv ==
  ASSUME RInv, NEW r \in Reader, ReaderStep(r) PROVE RInv'
<1>1. ASSUME NEW i \in 1..MaxIndex, CallRead(r, i) PROVE RInv'
  <2>1. i \in Nat /\ i >= 1
    BY BoundAssumption
  <2>2. Begin(r, "read", i, "disk")
    BY <1>1 DEF CallRead
  <2> QED BY <2>1, <2>2, BeginRInv
<1>2. CASE CallRange(r)
  BY <1>2, BeginRInv DEF CallRange
<1>3. CASE CallScan(r)
  BY <1>3, BeginRInv DEF CallScan
<1>4. CASE CallSnapshot(r)
  BY <1>4, BeginRInv DEF CallSnapshot
<1> QED BY <1>1, <1>2, <1>3, <1>4, AnswerReadRInv, AnswerRangeRInv, AnswerScanRInv, LoadTailRInv
        DEF ReaderStep

\* Every step of the log and its readers keeps the invariant.
LEMMA NextRInv == RInv /\ [RNext]_rvars => RInv'
<1> SUFFICES ASSUME RInv, [RNext]_rvars PROVE RInv'
  OBVIOUS
<1>1. ASSUME NEW r \in Reader, ReaderStep(r) PROVE RInv'
  BY <1>1, ReaderStepRInv
<1>2. ASSUME NEW t \in Thread, UNCHANGED rd,
             \/ Step(t) \/ DiskFault(t)
             \/ \E p \in Payload : Publish(t, p)
             \/ \E n \in 1..MaxIndex : CallSync(t, n)
      PROVE  RInv'
  <2>1. IInv
    BY DEF RInv
  <2>2. Next
    BY <1>2, Zenon DEF Next
  <2>3. IInv'
    BY <2>1, <2>2, NextIInv
  <2>4. Grows
    BY <1>2, <2>1, LogGrows, Zenon
  <2> QED BY <1>2, <2>3, <2>4, LogRInv
<1>3. CASE Crashes /\ rd' = [r \in Reader |-> IdleReader]
  <2>1. Next
    BY <1>3, Zenon DEF Crashes, Next
  <2>2. IInv'
    BY <2>1, NextIInv DEF RInv
  <2> QED BY <1>3, <2>2, CrashRInv
<1>4. CASE UNCHANGED rvars
  <2>1. UNCHANGED vars /\ rd' = rd
    BY <1>4 DEF rvars
  <2>2. IInv'
    BY <2>1, NextIInv DEF RInv
  <2>3. Grows
    BY <2>1, Lengths DEF Grows, vars, RInv
  <2> QED BY <2>1, <2>2, <2>3, LogRInv
<1> QED BY <1>1, <1>2, <1>3, <1>4, Zenon DEF RNext

\* The invariant holds of every reachable state of the log with readers.
LEMMA RInvAlways == RSpec => []RInv
BY InitRInv, NextRInv, PTL DEF RSpec

-----------------------------------------------------------------------------
\* A lock-free Read racing any writes, syncs, faults and crashes finds every
\* record accepted before it was called and never returns another one.
THEOREM ReadFindsAcceptedAlways == RSpec => []ReadFindsAccepted
<1>1. RInv => ReadFindsAccepted
  <2> SUFFICES ASSUME RInv, NEW r \in Reader, Done(r, "read")
               PROVE  IF rd[r].out = <<NotFound>> THEN rd[r].idx > rd[r].floor
                                                  ELSE rd[r].out = <<accepted[rd[r].idx]>>
    BY Zenon DEF ReadFindsAccepted
  <2>1. ReadOK(rd[r].idx, rd[r].floor, rd[r].out)
    BY DEF RInv, ReaderOK, Done
  <2>2. accepted \in Seq(Payload)
    BY Zenon DEF RInv, IInv, TypeOK
  <2>3. CASE rd[r].out = <<NotFound>> /\ rd[r].idx > rd[r].floor
    BY <2>3, Zenon
  <2>4. CASE rd[r].idx \in 1..Len(accepted) /\ rd[r].out = <<accepted[rd[r].idx]>>
    <3>1. PICK e : e = accepted[rd[r].idx]
      BY Zenon
    <3>2. e \in Payload
      BY <2>2, <2>4, <3>1, ElementOfSeq
    <3>3. <<e>> # <<NotFound>>
      BY <3>2, ReaderAssumption
    <3> QED BY <2>4, <3>1, <3>3
  <2> QED BY <2>1, <2>3, <2>4, Zenon DEF ReadOK
<1> QED BY <1>1, RInvAlways, PTL

\* A Range racing the syncs yields every record accepted before it was called,
\* in order and once each.
THEOREM RangeIsPrefixAlways == RSpec => []RangeIsPrefix
<1>1. RInv => RangeIsPrefix
  <2> SUFFICES ASSUME RInv, NEW r \in Reader, Done(r, "range")
               PROVE  PrefixOf(rd[r].out, accepted) /\ Len(rd[r].out) >= rd[r].floor
    BY DEF RangeIsPrefix
  <2>1. PICK s : s = rd[r].out
    BY Zenon
  <2>2. RangeOK(rd[r].floor, s)
    BY <2>1 DEF RInv, ReaderOK, Done
  <2>3. s \in Seq(Payload \cup {NotFound}) /\ accepted \in Seq(Payload \cup {NotFound})
    BY <2>1, SMTT(60) DEF RInv, IInv, TypeOK, ReaderType
  <2>4. PrefixOf(s, accepted)
    BY <2>2, Zenon DEF RangeOK, PrefixOf
  <2> QED BY <2>1, <2>2, <2>4 DEF RangeOK
<1> QED BY <1>1, RInvAlways, PTL

\* A ScanFromEnd racing the syncs yields the same records backwards.
THEOREM ScanIsReversedPrefixAlways == RSpec => []ScanIsReversedPrefix
<1>1. RInv => ScanIsReversedPrefix
  <2> SUFFICES ASSUME RInv, NEW r \in Reader, Done(r, "scan")
               PROVE  PrefixOf(Backwards(rd[r].out), accepted) /\ Len(rd[r].out) >= rd[r].floor
    BY DEF ScanIsReversedPrefix
  <2>1. PICK s : s = rd[r].out
    BY Zenon
  <2>2. ScanOK(rd[r].floor, s)
    BY <2>1 DEF RInv, ReaderOK, Done
  <2>3. s \in Seq(Payload \cup {NotFound}) /\ accepted \in Seq(Payload \cup {NotFound})
    BY <2>1, SMTT(60) DEF RInv, IInv, TypeOK, ReaderType
  <2>4. PICK b : b = Backwards(s)
    BY Zenon
  <2>5. /\ b \in Seq(Payload \cup {NotFound}) /\ Len(b) = Len(s)
        /\ \A i \in 1..Len(s) : b[i] = s[Len(s) - i + 1]
    BY <2>3, <2>4, BackwardsFacts
  <2>6. ASSUME NEW i \in 1..Len(b) PROVE b[i] = accepted[i]
    <3>1. Len(s) \in Nat
      BY <2>3, LenProperties
    <3>2. /\ i \in 1..Len(s) /\ Len(s) - i + 1 \in 1..Len(s)
          /\ Len(s) - (Len(s) - i + 1) + 1 = i
      BY <2>5, <3>1
    <3>3. s[Len(s) - i + 1] = accepted[Len(s) - (Len(s) - i + 1) + 1]
      BY <2>2, <3>2 DEF ScanOK
    <3> QED BY <2>5, <3>2, <3>3
  <2>7. Len(b) <= Len(accepted)
    BY <2>2, <2>5 DEF ScanOK
  <2>8. PrefixOf(b, accepted)
    BY <2>6, <2>7, Zenon DEF PrefixOf
  <2> QED BY <2>1, <2>2, <2>4, <2>8, Zenon DEF ScanOK
<1> QED BY <1>1, RInvAlways, PTL

\* A Snapshot serves every record accepted before it was taken, whatever is
\* trimmed later, and never shows another record at an index.
THEOREM SnapshotNeverLiesAlways == RSpec => []SnapshotNeverLies
<1>1. RInv => SnapshotNeverLies
  <2> SUFFICES ASSUME RInv, NEW r \in Reader, Done(r, "snapshot"), NEW i \in 1..Len(accepted)
               PROVE  /\ SnapshotRead(rd[r], i) \in {accepted[i], NotFound}
                      /\ i <= rd[r].floor => SnapshotRead(rd[r], i) = accepted[i]
    BY DEF SnapshotNeverLies
  <2>1. PICK v, f, last : v = rd[r].view /\ f = rd[r].floor /\ last = rd[r].last
    BY Zenon
  <2>2. PICK got : got = IF InView(v, i) THEN ViewAt(v, i)
                         ELSE IF i <= Len(disk) THEN disk[i] ELSE NotFound
    BY Zenon
  <2>3. rd[r].at # "idle" /\ last >= f
    BY <2>1, Zenon DEF RInv, ReaderOK, Done
  <2>4. /\ Seen(v, f) /\ v.first \in Nat /\ f \in Nat /\ last \in Nat /\ Len(v.entries) \in Nat
        /\ Len(disk) \in Nat /\ Len(accepted) \in Nat /\ Len(disk) <= Len(accepted)
        /\ \A j \in 1..Len(disk) : disk[j] = accepted[j]
    BY <2>1, <2>3, ReaderFacts
  <2>5. i \in Nat /\ i >= 1
    BY <2>4
  <2>6. (got = NotFound /\ i > f) \/ (i \in 1..Len(accepted) /\ got = accepted[i])
    BY <2>2, <2>4, <2>5, ViewOrDisk, Zenon
  <2>7. SnapshotRead(rd[r], i) = IF i > last THEN NotFound ELSE got
    BY <2>1, <2>2 DEF SnapshotRead
  <2> QED BY <2>1, <2>3, <2>4, <2>5, <2>6, <2>7
<1> QED BY <1>1, RInvAlways, PTL

-----------------------------------------------------------------------------
\* A lock-free reader changes nothing of the log: every step is one of the log
\* or leaves it alone.
LEMMA ReadersOnlyRead == [RNext]_rvars => [Next]_vars
<1> SUFFICES ASSUME [RNext]_rvars PROVE [Next]_vars
  OBVIOUS
<1>1. ASSUME NEW r \in Reader, ReaderStep(r) PROVE UNCHANGED vars
  BY <1>1, Zenon DEF ReaderStep, CallRead, CallRange, CallScan, CallSnapshot,
     AnswerRead, AnswerRange, AnswerScan, LoadTail, LoadDiskTail, Begin, Finish
<1>2. ASSUME NEW t \in Thread,
             \/ Step(t) \/ DiskFault(t)
             \/ \E p \in Payload : Publish(t, p)
             \/ \E n \in 1..MaxIndex : CallSync(t, n)
      PROVE  Next
  BY <1>2, Zenon DEF Next
<1>3. CASE Crashes
  BY <1>3, Zenon DEF Crashes, Next
<1>4. CASE UNCHANGED rvars
  BY <1>4, Zenon DEF rvars
<1> QED BY <1>1, <1>2, <1>3, <1>4, Zenon DEF RNext

\* The log with readers implements the log without them: whatever is proved of
\* log.Log holds while Read, Range, ScanFromEnd and Snapshot run.
THEOREM ReadersLeaveTheLogAlone == RSpec => Spec
<1>1. RInit => Init
  BY DEF RInit
<1> QED BY <1>1, ReadersOnlyRead, PTL DEF RSpec, Spec

\* The lag of unsynced records stays within its bound with readers as well.
THEOREM LagBoundWithReaders == RSpec => []LagBound
  BY ReadersLeaveTheLogAlone, LagBoundAlways, PTL
=============================================================================
