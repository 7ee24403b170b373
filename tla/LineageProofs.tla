--------------------------- MODULE LineageProofs ---------------------------
(***************************************************************************)
(* Proofs about Lineage, continued: appends, crashes and the repair keep   *)
(* the base invariant, a coherent flush keeps the cut on disk, and no step *)
(* takes back what was fsynced.                                            *)
(***************************************************************************)
EXTENDS LineageFlushProofs

(* The base invariant: the appends.                                         *)

\* A record that came to reference main record b.
Referred(r, b) == [r EXCEPT !.ref = b]

\* A reference changes nothing else of a record.
LEMMA ReferredIs ==
  ASSUME NEW r \in Rec, NEW b \in Nat, NEW k, k = Referred(r, b)
  PROVE  k \in Rec /\ k.m = r.m /\ k.id = r.id /\ k.ref = b
  BY Zenon DEF Rec, Referred

\* Every channel keeps its records in order, and has one more at most.
Grown ==
  /\ recs' \in [Chan -> Seq(Rec)]
  /\ \A c \in Chan : Grows(c) /\ Len(recs'[c]) <= Len(recs[c]) + 1
  /\ \A c \in Related : Sorted(c)'

\* The record AppendMain writes, and what it does to the related channels.
AppendsMain(r) ==
  /\ r \in Rec /\ r.m = MainTail + 1 /\ r.id = born + 1 /\ r.ref = 0
  /\ recs' \in [Chan -> Seq(Rec)] /\ recs'[Main] = Append(recs[Main], r)
  /\ \A c \in Related :
       /\ Len(recs'[c]) = Len(recs[c])
       /\ \A i \in 1..Len(recs[c]) :
            /\ recs'[c][i].m = recs[c][i].m /\ recs'[c][i].id = recs[c][i].id
            /\ recs'[c][i].ref = IF recs[c][i].m = MainTail + 1 /\ recs[c][i].ref = 0
                                   THEN born + 1 ELSE recs[c][i].ref

\* AppendMain does that.
LEMMA AppendMainIs ==
  ASSUME TypeOK, NEW p \in Proc, AppendMain(p)
  PROVE  \E r : AppendsMain(r)
<1>1. PICK n : n = MainTail + 1
  BY Zenon
<1>2. PICK r : r = [m |-> n, cur |-> [u \in Related |-> IF u \in Unkeyed THEN Len(recs[u]) ELSE 0],
                    id |-> born + 1, ref |-> 0]
  BY Zenon
<1>3. Main \in Chan /\ recs[Main] \in Seq(Rec) /\ n \in Nat /\ born \in Nat
  BY <1>1, ChanIs DEF TypeOK, MainTail
<1>4. r \in Rec /\ r.m = n /\ r.id = born + 1 /\ r.ref = 0
  <2>1. \A u \in Related : Len(recs[u]) \in Nat
    BY ChanIs DEF TypeOK
  <2>. QED
    BY <1>2, <1>3, <2>1 DEF Rec
<1>5. recs' = [c \in Chan |->
                 IF c = Main THEN Append(recs[c], r)
                 ELSE [i \in DOMAIN recs[c] |-> IF recs[c][i].m = n /\ recs[c][i].ref = 0
                                                  THEN Referred(recs[c][i], born + 1)
                                                  ELSE recs[c][i]]]
  BY <1>1, <1>2, Zenon DEF AppendMain, Referred
<1>6. recs'[Main] = Append(recs[Main], r) /\ recs'[Main] \in Seq(Rec)
  BY <1>3, <1>4, <1>5
<1>7. ASSUME NEW c \in Related
      PROVE  /\ recs'[c] \in Seq(Rec) /\ Len(recs'[c]) = Len(recs[c])
             /\ \A i \in 1..Len(recs[c]) :
                  /\ recs'[c][i].m = recs[c][i].m /\ recs'[c][i].id = recs[c][i].id
                  /\ recs'[c][i].ref = IF recs[c][i].m = n /\ recs[c][i].ref = 0
                                         THEN born + 1 ELSE recs[c][i].ref
  <2>1. c \in Chan /\ c # Main /\ recs[c] \in Seq(Rec)
    BY ChanIs DEF TypeOK
  <2>2. Len(recs[c]) \in Nat /\ DOMAIN recs[c] = 1..Len(recs[c])
    BY <2>1
  <2>3. recs'[c] = [i \in 1..Len(recs[c]) |-> IF recs[c][i].m = n /\ recs[c][i].ref = 0
                                                THEN Referred(recs[c][i], born + 1)
                                                ELSE recs[c][i]]
    BY <1>5, <2>1, <2>2
  <2>4. \A i \in 1..Len(recs[c]) :
          /\ recs'[c][i] \in Rec
          /\ recs'[c][i].m = recs[c][i].m /\ recs'[c][i].id = recs[c][i].id
          /\ recs'[c][i].ref = IF recs[c][i].m = n /\ recs[c][i].ref = 0
                                 THEN born + 1 ELSE recs[c][i].ref
    <3>1. TAKE i \in 1..Len(recs[c])
    <3>2. PICK o \in Rec : o = recs[c][i]
      BY <2>1, <2>2
    <3>3. PICK b \in Nat : b = born + 1
      BY <1>3
    <3>4. PICK k : k = Referred(o, b)
      BY Zenon
    <3>5. k \in Rec /\ k.m = o.m /\ k.id = o.id /\ k.ref = b
      BY <3>4, ReferredIs, Zenon
    <3>6. recs'[c][i] = IF o.m = n /\ o.ref = 0 THEN k ELSE o
      BY <2>3, <3>2, <3>3, <3>4
    <3>. QED
      BY <3>2, <3>3, <3>5, <3>6
  <2>5. recs'[c] \in Seq(Rec) /\ Len(recs'[c]) = Len(recs[c])
    BY <2>2, <2>3, <2>4
  <2>. QED
    BY <2>4, <2>5
<1>8. recs' \in [Chan -> Seq(Rec)]
  BY <1>5, <1>6, <1>7, ChanIs, Zenon
<1>. QED
  BY <1>1, <1>4, <1>6, <1>7, <1>8, Zenon DEF AppendsMain

\* What an append leaves alone.
Appended(p, c) ==
  /\ Free(p) /\ writer = NoProc /\ born < MaxBorn /\ born' = born + 1 /\ WriteReturns(p, c)
  /\ UNCHANGED <<disk, synced, trimmed, unclean, phase, todo, child, inherited, fmu>>

\* An append returns, or flushes its channel inline.
LEMMA AppendedKeeps ==
  ASSUME Base, UNCHANGED kind, NEW p \in Proc, NEW c \in Chan, Grown, Appended(p, c)
  PROVE  Base'
<1>1. /\ UNCHANGED <<disk, synced, trimmed, unclean, phase, todo, fmu>> /\ phase = "open"
      /\ pc[p] = "idle" /\ born' = born + 1 /\ born' <= MaxBorn /\ born' \in Nat
  BY LimitAssumption DEF Appended, Free, Base, TypeOK
<1>2. PICK j \in Job, s \in {"idle", "sync"} :
         /\ job' = [job EXCEPT ![p] = j] /\ pc' = [pc EXCEPT ![p] = s]
         /\ j.tail = 0 /\ (s = "idle" => j = NoJob)
  <2>1. CASE UNCHANGED <<writer, pc, job>>
    <3>1. job[p] = NoJob
      BY <1>1 DEF Base, Flushing
    <3>2. job' = [job EXCEPT ![p] = NoJob] /\ pc' = [pc EXCEPT ![p] = "idle"]
      BY <1>1, <2>1, <3>1 DEF Base, TypeOK
    <3>. QED
      BY <3>2, NoJobIs, Zenon
  <2>2. CASE Start(p, Flush({c}, FALSE, MaxBorn, "return", 0))
    <3>1. PICK j : j = Flush({c}, FALSE, MaxBorn, "return", 0)
      BY Zenon
    <3>2. j \in Job /\ j.tail = 0
      BY <3>1, ChanIs, LimitAssumption DEF Flush, Job
    <3>3. job' = [job EXCEPT ![p] = j] /\ pc' = [pc EXCEPT ![p] = "sync"]
      BY <2>2, <3>1 DEF Start
    <3>. QED
      BY <3>2, <3>3, Zenon
  <2>. QED
    BY <2>1, <2>2, Zenon DEF Appended, WriteReturns
<1>3. TypeOK'
  BY <1>1, <1>2 DEF Base, TypeOK, Grown
<1>4. ASSUME NEW d \in Chan
      PROVE  Ordered(d)'
  <2>1. /\ Ordered(d) /\ disk[d] \in Nat /\ trimmed[d] \in Nat /\ synced[d] \in Nat /\ born \in Nat
        /\ Len(recs[d]) \in Nat /\ Len(recs'[d]) \in Nat
        /\ Len(recs[d]) <= Len(recs'[d]) /\ Len(recs'[d]) <= Len(recs[d]) + 1
    BY DEF Base, TypeOK, Grown, Grows
  <2>. QED
    BY <1>1, <2>1 DEF Ordered
<1>5. ASSUME NEW q \in Proc
      PROVE  Flushing(q, job[q], pc[q])'
  <2>1. CASE q = p
    <3>1. Flushing(p, j, s)'
      BY <1>1, <1>2, ChanIs DEF Flushing, Base, TypeOK
    <3>2. job'[p] = j /\ pc'[p] = s
      BY <1>2 DEF Base, TypeOK
    <3>. QED
      BY <2>1, <3>1, <3>2
  <2>2. CASE q # p
    <3>1. PICK h \in Job, t \in PCs : h = job[q] /\ t = pc[q] /\ Flushing(q, h, t)
      BY Zenon DEF Base, TypeOK, PCs
    <3>2. recs' \in [Chan -> Seq(Rec)] /\ disk' \in [Chan -> Nat] /\ \A d \in Chan : Grows(d)
      BY <1>3 DEF TypeOK, Grown
    <3>3. disk[Main] <= disk'[Main]
      BY <1>1, ChanIs DEF Base, TypeOK
    <3>4. /\ t # "idle" => phase' \in {"open", "closing"}
          /\ t = "copy" => fmu'[h.chan] = q /\ trimmed'[h.chan] = trimmed[h.chan]
      BY <1>1, <3>1 DEF Flushing
    <3>5. Flushing(q, h, t)'
      BY <3>1, <3>2, <3>3, <3>4, FlushingGrows, Zenon
    <3>6. job'[q] = h /\ pc'[q] = t
      BY <1>2, <2>2, <3>1 DEF Base, TypeOK
    <3>. QED
      BY <3>5, <3>6, Zenon
  <2>. QED
    BY <2>1, <2>2
<1>. QED
  BY <1>1, <1>3, <1>4, <1>5, Zenon DEF Base, Grown

\* The appends.
LEMMA AppendIsOne ==
  ASSUME Base, UNCHANGED kind, NEW q \in Proc,
         \/ AppendMain(q)
         \/ \E c \in Keyed \cup Reducible, m \in 1..(MainTail + MaxAhead) : AppendKeyed(q, c, m)
         \/ \E c \in Unkeyed : AppendUnkeyed(q, c)
  PROVE  Grown /\ \E c \in Chan : Appended(q, c)
\* One more element.
<1>AppendIs.
    ASSUME NEW S, NEW s \in Seq(S), NEW r \in S
    PROVE  /\ Append(s, r) \in Seq(S) /\ Len(Append(s, r)) = Len(s) + 1 /\ Append(s, r)[Len(s) + 1] = r
           /\ \A i \in 1..Len(s) : Append(s, r)[i] = s[i]
    BY <1>AppendIs
\* AppendMain keeps every channel in order.
<1>AppendMainGrows.
    ASSUME Base, UNCHANGED kind, NEW p \in Proc, AppendMain(p)
    PROVE  Grown
  <2>. USE <1>AppendMainGrows
  <2>1. PICK r : AppendsMain(r)
    BY AppendMainIs, Zenon DEF Base
  <2>2. ASSUME NEW c \in Chan
        PROVE  Grows(c) /\ Len(recs'[c]) <= Len(recs[c]) + 1
    <3>1. recs[c] \in Seq(Rec) /\ Len(recs[c]) \in Nat
      BY DEF Base, TypeOK
    <3>2. CASE c = Main
      BY <2>1, <3>1, <3>2, <1>AppendIs DEF AppendsMain, Grows
    <3>3. CASE c # Main
      BY <2>1, <3>1, <3>3, ChanIs DEF AppendsMain, Grows
    <3>. QED
      BY <3>2, <3>3
  <2>3. ASSUME NEW c \in Related
        PROVE  Sorted(c)'
    <3>1. Sorted(c) /\ Len(recs'[c]) = Len(recs[c])
      BY <2>1 DEF Base, AppendsMain
    <3>2. \A i \in 1..Len(recs[c]) : recs'[c][i].m = recs[c][i].m
      BY <2>1 DEF AppendsMain
    <3>. QED
      BY <3>1, <3>2, Zenon DEF Sorted, Cuts, Unkeyed
  <2>. QED
    BY <2>1, <2>2, <2>3 DEF AppendsMain, Grown
\* A record of a related channel, in the order of the keys.
<1>AppendRelatedGrows.
    ASSUME Base, UNCHANGED kind, NEW c \in Related, NEW r \in Rec,
           recs' = [recs EXCEPT ![c] = Append(recs[c], r)],
           c \in Unkeyed => r.m = 0,
           recs[c] # <<>> => r.m >= recs[c][Len(recs[c])].m
    PROVE  Grown
  <2>. USE <1>AppendRelatedGrows
  <2>1. recs[c] \in Seq(Rec) /\ Len(recs[c]) \in Nat /\ c \in Chan /\ recs \in [Chan -> Seq(Rec)]
    BY ChanIs DEF Base, TypeOK
  <2>6. PICK s : s = Append(recs[c], r) /\ s = recs'[c]
    BY <2>1
  <2>2. /\ s \in Seq(Rec) /\ s = recs'[c] /\ Len(s) = Len(recs[c]) + 1 /\ s[Len(recs[c]) + 1] = r
        /\ \A i \in 1..Len(recs[c]) : s[i] = recs[c][i]
    BY <2>1, <2>6
  <2>3. recs' \in [Chan -> Seq(Rec)] /\ \A d \in Chan \ {c} : recs'[d] = recs[d]
    BY <2>1, <2>2
  <2>4. ASSUME NEW d \in Chan
        PROVE  Grows(d) /\ Len(recs'[d]) <= Len(recs[d]) + 1
    <3>1. Len(recs[d]) \in Nat
      BY <2>1
    <3>. QED
      BY <2>1, <2>2, <2>3, <3>1 DEF Grows
  <2>5. ASSUME NEW d \in Related
        PROVE  Sorted(d)'
    <3>1. Sorted(d)
      BY DEF Base
    <3>2. CASE d # c
      BY <2>3, <3>1, <3>2, ChanIs DEF Sorted, Cuts, Unkeyed
    <3>3. CASE d = c
      <4>1. \A i \in 1..Len(recs[c]) : recs[c][i].m \in Nat
        <5>1. \A i \in 1..Len(recs[c]) : recs[c][i] \in Rec
          BY <2>1
        <5>. QED
          BY <5>1 DEF Rec
      <4>2. r.m \in Nat
        BY DEF Rec
      <4>3. \A i \in 1..Len(recs[c]) : recs[c][i].m <= r.m
        <5>1. TAKE i \in 1..Len(recs[c])
        <5>2. recs[c] # <<>> /\ Len(recs[c]) \in 1..Len(recs[c]) /\ i <= Len(recs[c])
          BY <2>1
        <5>3. recs[c][i].m <= recs[c][Len(recs[c])].m /\ recs[c][Len(recs[c])].m <= r.m
          BY <3>1, <3>3, <4>1, <4>2, <5>2 DEF Sorted
        <5>. QED
          BY <4>1, <4>2, <5>2, <5>3
      <4>4. \A i, j \in 1..Len(s) : i <= j => s[i].m <= s[j].m
        <5>1. \A i \in 1..Len(s) : i \in 1..Len(recs[c]) \/ i = Len(recs[c]) + 1
          BY <2>1, <2>2
        <5>. QED
          BY <2>1, <2>2, <3>1, <3>3, <4>1, <4>2, <4>3, <5>1 DEF Sorted
      <4>5. c \in Unkeyed => \A i \in 1..Len(s) : s[i].m = 0
        BY <2>1, <2>2, <3>1, <3>3 DEF Sorted
      <4>6. Cuts(c)'
        <5>1. SUFFICES ASSUME NEW x \in Nat
                       PROVE  \E k \in 0..Len(s) : \A i \in 1..Len(s) : s[i].m <= x <=> i <= k
          BY <2>2, Zenon DEF Cuts
        <5>2. PICK k \in 0..Len(recs[c]) : \A i \in 1..Len(recs[c]) : recs[c][i].m <= x <=> i <= k
          BY <3>1, <3>3, Zenon DEF Sorted, Cuts
        <5>3. \A i \in 1..Len(s) : i \in 1..Len(recs[c]) \/ i = Len(recs[c]) + 1
          BY <2>1, <2>2
        <5>4. CASE r.m <= x
          <6>1. \A i \in 1..Len(s) : s[i].m <= x <=> i <= Len(s)
            <7>1. \A i \in 1..Len(recs[c]) : s[i].m <= r.m /\ s[i].m \in Nat
              BY <2>1, <2>2, <4>1, <4>2, <4>3
            <7>. QED
              BY <2>1, <2>2, <4>1, <4>2, <5>3, <5>4, <7>1
          <6>2. Len(s) \in 0..Len(s)
            BY <2>1, <2>2
          <6>. QED
            BY <6>1, <6>2, Zenon
        <5>5. CASE ~(r.m <= x)
          <6>1. \A i \in 1..Len(s) : s[i].m <= x <=> i <= k
            BY <2>1, <2>2, <5>2, <5>3, <5>5
          <6>2. k \in 0..Len(s)
            BY <2>1, <2>2
          <6>. QED
            BY <6>1, <6>2, Zenon
        <5>. QED
          BY <5>4, <5>5
      <4>. QED
        BY <2>2, <3>3, <4>4, <4>5, <4>6 DEF Sorted, Unkeyed
    <3>. QED
      BY <3>2, <3>3
  <2>. QED
    BY <2>3, <2>4, <2>5 DEF Grown
\* AppendKeyed does.
<1>AppendKeyedGrows.
    ASSUME Base, UNCHANGED kind, NEW p \in Proc, NEW c \in Keyed \cup Reducible, NEW m \in 1..(MainTail + MaxAhead),
           AppendKeyed(p, c, m)
    PROVE  Grown
  <2>. USE <1>AppendKeyedGrows
  <2>1. PICK r : r = [m |-> m, cur |-> NoCursor, id |-> born + 1,
                      ref |-> IF m <= MainTail THEN recs[Main][m].id ELSE 0]
    BY Zenon
  <2>2. Main \in Chan /\ recs[Main] \in Seq(Rec) /\ MainTail \in Nat /\ MainTail = Len(recs[Main]) /\ born \in Nat
    BY ChanIs DEF Base, TypeOK, MainTail
  <2>3. m \in Nat /\ (m <= MainTail => m \in 1..Len(recs[Main]))
    BY <2>2, LimitAssumption
  <2>4. m <= MainTail => recs[Main][m].id \in Nat
    <3>1. m <= MainTail => recs[Main][m] \in Rec
      BY <2>2, <2>3
    <3>. QED
      BY <3>1 DEF Rec
  <2>5. r \in Rec /\ r.m = m
    <3>1. NoCursor \in [Related -> Nat]
      BY DEF NoCursor
    <3>. QED
      BY <2>1, <2>2, <2>3, <2>4, <3>1 DEF Rec
  <2>6. c \in Related /\ c \notin Unkeyed
    BY Zenon DEF Keyed, Reducible, Unkeyed
  <2>7. recs' = [recs EXCEPT ![c] = Append(recs[c], r)] /\ (recs[c] # <<>> => r.m >= recs[c][Len(recs[c])].m)
    BY <2>1, <2>5 DEF AppendKeyed
  <2>. QED
    BY <2>5, <2>6, <2>7, <1>AppendRelatedGrows, Zenon
\* AppendUnkeyed does.
<1>AppendUnkeyedGrows.
    ASSUME Base, UNCHANGED kind, NEW p \in Proc, NEW c \in Unkeyed, AppendUnkeyed(p, c)
    PROVE  Grown
  <2>. USE <1>AppendUnkeyedGrows
  <2>1. PICK r : r = [m |-> 0, cur |-> NoCursor, id |-> born + 1, ref |-> 0]
    BY Zenon
  <2>2. r \in Rec /\ r.m = 0
    BY <2>1 DEF Rec, NoCursor, Base, TypeOK
  <2>3. c \in Related /\ recs[c] \in Seq(Rec)
    BY ChanIs DEF Unkeyed, Base, TypeOK
  <2>4. recs' = [recs EXCEPT ![c] = Append(recs[c], r)]
    BY <2>1 DEF AppendUnkeyed
  <2>5. recs[c] # <<>> => r.m >= recs[c][Len(recs[c])].m
    <3>1. recs[c] # <<>> => Len(recs[c]) \in 1..Len(recs[c])
      BY <2>3
    <3>. QED
      BY <2>2, <2>3, <3>1 DEF Base, Sorted
  <2>. QED
    BY <2>2, <2>3, <2>4, <2>5, <1>AppendRelatedGrows, Zenon
<1>1. CASE AppendMain(q)
  BY <1>1, <1>AppendMainGrows, ChanIs DEF AppendMain, Appended, files
<1>2. ASSUME NEW c \in Keyed \cup Reducible, NEW m \in 1..(MainTail + MaxAhead), AppendKeyed(q, c, m)
      PROVE  Grown /\ Appended(q, c) /\ c \in Chan
  BY <1>2, <1>AppendKeyedGrows, ChanIs, Zenon DEF AppendKeyed, Appended, files, Keyed, Reducible
<1>3. ASSUME NEW c \in Unkeyed, AppendUnkeyed(q, c)
      PROVE  Grown /\ Appended(q, c) /\ c \in Chan
  BY <1>3, <1>AppendUnkeyedGrows, ChanIs, Zenon DEF AppendUnkeyed, Appended, files, Unkeyed
<1>. QED
  BY <1>1, <1>2, <1>3

-----------------------------------------------------------------------------
(* The base invariant: crashes, repair and the whole of Next.               *)

\* c is cut to its first n records.
CutTo(c, n) ==
  /\ recs'[c] \in Seq(Rec) /\ Len(recs'[c]) = n
  /\ \A i \in 1..n : recs'[c][i] = recs[c][i]
  /\ n = Len(recs[c]) => recs'[c] = recs[c]

\* A prefix is in the order of its keys.
LEMMA CutSorted ==
  ASSUME TypeOK, UNCHANGED kind, NEW c \in Related, Sorted(c), NEW n \in 0..Len(recs[c]), CutTo(c, n)
  PROVE  Sorted(c)'
<1>1. Len(recs[c]) \in Nat
  BY ChanIs DEF TypeOK
<1>2. \A i \in 1..n : i \in 1..Len(recs[c]) /\ recs'[c][i] = recs[c][i]
  BY <1>1 DEF CutTo
<1>3. Len(recs'[c]) = n
  BY DEF CutTo
<1>4. Cuts(c)'
  <2>1. SUFFICES ASSUME NEW x \in Nat
                 PROVE  \E k \in 0..n : \A i \in 1..n : recs'[c][i].m <= x <=> i <= k
    BY <1>3, Zenon DEF Cuts
  <2>2. PICK k \in 0..Len(recs[c]) : \A i \in 1..Len(recs[c]) : recs[c][i].m <= x <=> i <= k
    BY Zenon DEF Sorted, Cuts
  <2>3. PICK l \in 0..n : l = IF k <= n THEN k ELSE n
    BY <1>1
  <2>4. \A i \in 1..n : recs'[c][i].m <= x <=> i <= l
    BY <1>1, <1>2, <2>2, <2>3
  <2>. QED
    BY <2>4, Zenon
<1>. QED
  BY <1>2, <1>3, <1>4, Zenon DEF Sorted, Unkeyed

\* A crash: k[c] records of every channel are left, all that were on disk
\* unless the machine lost power.
Crash(k) ==
  /\ k \in [Chan -> Nat] /\ Down(k)
  /\ \A c \in Chan : k[c] <= disk[c] /\ synced'[c] <= k[c] /\ synced[c] <= k[c]
  /\ synced' \in [Chan -> Nat] /\ unclean' \in BOOLEAN
  /\ \/ k = disk /\ synced' = synced /\ (Kill \/ \E p \in Proc : ClearUnclean(p))
     \/ synced' = k /\ unclean' = unclean /\ "power" \in faults

\* ClearUnclean, Kill and PowerLoss.
LEMMA CrashIsDown ==
  ASSUME Base, NEW n \in [Chan -> 0..MaxBorn],
         Kill \/ (\E p \in Proc : ClearUnclean(p)) \/ PowerLoss(n)
  PROVE  Crash(disk) \/ Crash(n)
<1>1. /\ disk \in [Chan -> Nat] /\ synced \in [Chan -> Nat] /\ unclean \in BOOLEAN
      /\ \A c \in Chan : disk[c] <= disk[c] /\ synced[c] <= disk[c]
  BY DEF Base, TypeOK, Ordered
<1>2. CASE Kill
  <2>1. Down(disk) /\ synced' = synced /\ unclean' \in BOOLEAN
    BY <1>1, <1>2 DEF Kill
  <2>. QED
    BY <1>1, <1>2, <2>1 DEF Crash
<1>3. CASE \E p \in Proc : ClearUnclean(p)
  <2>1. Down(disk) /\ synced' = synced /\ unclean' \in BOOLEAN
    BY <1>3, Zenon DEF ClearUnclean
  <2>. QED
    BY <1>1, <1>3, <2>1 DEF Crash
<1>4. CASE PowerLoss(n)
  <2>1. n \in [Chan -> Nat] /\ Down(n) /\ synced' = n /\ unclean' = unclean
    BY <1>4, LimitAssumption DEF PowerLoss
  <2>2. \A c \in Chan : n[c] \in synced[c]..disk[c]
    BY <1>4 DEF PowerLoss
  <2>3. \A c \in Chan : n[c] <= disk[c] /\ synced'[c] <= n[c] /\ synced[c] <= n[c]
    BY <1>1, <2>1, <2>2
  <2>. QED
    BY <1>1, <1>4, <2>1, <2>3 DEF Crash, PowerLoss
<1>. QED
  BY <1>2, <1>3, <1>4

\* A crash keeps the base invariant.
LEMMA CrashKeeps ==
  ASSUME Base, UNCHANGED kind, NEW k, Crash(k)
  PROVE  Base' /\ \A c \in Chan : CutTo(c, k[c])
\* Nothing of the flush survives the process: Kill and PowerLoss take n from
\* the files.
<1>DownKeeps.
    ASSUME Base, UNCHANGED kind, NEW n \in [Chan -> Nat], \A c \in Chan : n[c] <= disk[c], Down(n),
           synced' \in [Chan -> Nat], \A c \in Chan : synced'[c] <= n[c], unclean' \in BOOLEAN
    PROVE  Base' /\ \A c \in Chan : CutTo(c, n[c])
  <2>. USE <1>DownKeeps
  <2>1. ASSUME NEW c \in Chan
        PROVE  CutTo(c, n[c]) /\ n[c] \in 0..Len(recs[c]) /\ Len(recs[c]) <= born
    <3>1. recs[c] \in Seq(Rec) /\ Len(recs[c]) \in Nat /\ n[c] \in Nat /\ disk[c] \in Nat /\ Ordered(c)
      BY DEF Base, TypeOK
    <3>2. n[c] \in 0..Len(recs[c]) /\ Len(recs[c]) <= born
      BY <3>1 DEF Ordered
    <3>3. recs'[c] = Prefix(recs[c], n[c])
      BY DEF Down
    <3>4. /\ Prefix(recs[c], n[c]) \in Seq(Rec) /\ Len(Prefix(recs[c], n[c])) = n[c]
          /\ \A i \in 1..n[c] : Prefix(recs[c], n[c])[i] = recs[c][i]
          /\ n[c] = Len(recs[c]) => Prefix(recs[c], n[c]) = recs[c]
      BY <3>1, <3>2, PrefixIs, Zenon
    <3>. QED
      BY <3>2, <3>3, <3>4, Zenon DEF CutTo
  <2>2. /\ disk' = n /\ trimmed' = n /\ phase' = "down" /\ todo' = {} /\ fmu' = [c \in Chan |-> NoProc]
        /\ pc' = [p \in Proc |-> "idle"] /\ job' = [p \in Proc |-> NoJob] /\ born' = born
    BY DEF Down
  <2>3. TypeOK'
    <3>1. recs' \in [Chan -> Seq(Rec)]
      BY <2>1 DEF Down, CutTo
    <3>. QED
      BY <2>2, <3>1, NoJobIs DEF Base, TypeOK
  <2>4. ASSUME NEW c \in Chan
        PROVE  Ordered(c)' /\ disk'[c] = Len(recs'[c])
    <3>1. Len(recs'[c]) = n[c] /\ n[c] \in Nat /\ born \in Nat /\ Len(recs[c]) \in Nat
      BY <2>1 DEF CutTo, Base, TypeOK
    <3>. QED
      BY <2>1, <2>2, <3>1 DEF Ordered
  <2>5. \A c \in Related : Sorted(c)'
    BY <2>1, CutSorted, ChanIs DEF Base
  <2>6. ASSUME NEW q \in Proc
        PROVE  Flushing(q, job[q], pc[q])'
    <3>1. job'[q] = NoJob /\ pc'[q] = "idle" /\ disk'[Main] \in Nat
      BY <2>2, ChanIs
    <3>. QED
      BY <3>1, NoJobIs DEF Flushing
  <2>. QED
    BY <2>1, <2>3, <2>4, <2>5, <2>6 DEF Base
<1>. QED
  BY <1>DownKeeps DEF Crash

\* What RepairChannel cuts off: the records whose keys are beyond main's tail.
Repaired(c, k) ==
  /\ k \in 0..Len(recs[c]) /\ \A i \in 1..Len(recs[c]) : recs[c][i].m <= disk[Main] + Slack(c) => i <= k
  /\ k > 0 => recs[c][k].m <= disk[Main] + Slack(c)
  /\ CutTo(c, k)
  /\ recs' = [recs EXCEPT ![c] = recs'[c]]
  /\ disk' = [disk EXCEPT ![c] = k] /\ synced' = [synced EXCEPT ![c] = k] /\ trimmed' = [trimmed EXCEPT ![c] = k]

\* RepairChannel cuts one channel, or passes it over.
LEMMA RepairIs ==
  ASSUME TypeOK, NEW c \in Related, Sorted(c), RepairChannel(c)
  PROVE  \/ child = NoChild /\ \E k \in Nat : Repaired(c, k)
         \/ UNCHANGED <<recs, files>> /\ (child = NoChild => Len(recs[c]) <= Kept(c))
<1>1. PICK k \in Nat : k = Kept(c)
  BY KeptIs, ChanIs
<1>2. c \in Chan /\ recs[c] \in Seq(Rec) /\ Len(recs[c]) \in Nat
  BY ChanIs DEF TypeOK
<1>3. /\ k <= Len(recs[c])
      /\ k > 0 => recs[c][k].m <= disk[Main] + Slack(c)
      /\ \A i \in 1..Len(recs[c]) : recs[c][i].m <= disk[Main] + Slack(c) => i <= k
  BY <1>1, <1>2, KeptIs
<1>4. CASE child = NoChild /\ k < Len(recs[c])
  <2>1. recs' = [recs EXCEPT ![c] = Prefix(recs[c], k)] /\ disk' = [disk EXCEPT ![c] = k]
        /\ synced' = [synced EXCEPT ![c] = k] /\ trimmed' = [trimmed EXCEPT ![c] = k]
    BY <1>1, <1>4 DEF RepairChannel
  <2>2. k \in 0..Len(recs[c])
    BY <1>2, <1>3
  <2>3. recs'[c] = Prefix(recs[c], k)
    BY <1>2, <2>1 DEF TypeOK
  <2>4. CutTo(c, k)
    BY <1>2, <2>2, <2>3, PrefixIs DEF CutTo
  <2>5. Repaired(c, k)
    BY <1>3, <2>1, <2>2, <2>3, <2>4, Zenon DEF Repaired
  <2>. QED
    BY <1>4, <2>5
<1>5. CASE ~(child = NoChild /\ k < Len(recs[c]))
  BY <1>1, <1>2, <1>5 DEF RepairChannel
<1>. QED
  BY <1>4, <1>5

\* repairCoherentCuts keeps the base invariant.
LEMMA RepairKeeps ==
  ASSUME Base, UNCHANGED kind, NEW c \in Related, RepairChannel(c)
  PROVE  Base'
<1>1. /\ UNCHANGED <<unclean, phase, fmu, pc, job, born>> /\ todo' \subseteq Related /\ phase = "repair"
  BY DEF RepairChannel, Base, TypeOK
<1>2. ASSUME NEW q \in Proc
      PROVE  pc[q] = "idle" /\ job[q] = NoJob
  BY <1>1, Zenon DEF Base, Flushing
<1>3. ASSUME NEW k \in Nat, Repaired(c, k)
      PROVE  Base'
  <2>1. c \in Chan /\ k \in 0..Len(recs[c]) /\ CutTo(c, k) /\ recs' = [recs EXCEPT ![c] = recs'[c]]
        /\ disk' = [disk EXCEPT ![c] = k] /\ synced' = [synced EXCEPT ![c] = k] /\ trimmed' = [trimmed EXCEPT ![c] = k]
    BY <1>3, ChanIs DEF Repaired
  <2>2. recs \in [Chan -> Seq(Rec)] /\ disk \in [Chan -> Nat] /\ synced \in [Chan -> Nat] /\ trimmed \in [Chan -> Nat]
        /\ Len(recs[c]) \in Nat /\ born \in Nat
    BY <2>1 DEF Base, TypeOK
  <2>3. TypeOK'
    <3>1. recs' \in [Chan -> Seq(Rec)]
      BY <2>1, <2>2, Zenon DEF CutTo
    <3>. QED
      BY <1>1, <2>1, <2>2, <3>1 DEF Base, TypeOK
  <2>4. ASSUME NEW d \in Chan
        PROVE  Ordered(d)' /\ disk'[d] = Len(recs'[d])
    <3>1. Ordered(d) /\ disk[d] = Len(recs[d])
      BY <1>1 DEF Base
    <3>2. CASE d = c
      <4>1. Len(recs'[c]) = k /\ disk'[c] = k /\ synced'[c] = k /\ trimmed'[c] = k
        BY <2>1, <2>2 DEF CutTo
      <4>. QED
        BY <1>1, <2>1, <2>2, <3>1, <3>2, <4>1 DEF Ordered
    <3>3. CASE d # c
      BY <1>1, <2>1, <2>2, <3>1, <3>3 DEF Ordered
    <3>. QED
      BY <3>2, <3>3, Zenon
  <2>5. ASSUME NEW d \in Related
        PROVE  Sorted(d)'
    <3>1. CASE d = c
      BY <2>1, <3>1, CutSorted DEF Base
    <3>2. CASE d # c
      <4>1. recs'[d] = recs[d] /\ Sorted(d)
        BY <2>1, <2>2, <3>2, ChanIs DEF Base
      <4>. QED
        BY <4>1 DEF Sorted, Cuts, Unkeyed
    <3>. QED
      BY <3>1, <3>2
  <2>6. ASSUME NEW q \in Proc
        PROVE  Flushing(q, job[q], pc[q])'
    <3>1. job'[q] = NoJob /\ pc'[q] = "idle" /\ disk'[Main] \in Nat
      BY <1>1, <1>2, <2>3, ChanIs DEF TypeOK
    <3>. QED
      BY <3>1, NoJobIs DEF Flushing
  <2>. QED
    BY <2>3, <2>4, <2>5, <2>6, Zenon DEF Base
<1>4. CASE UNCHANGED <<recs, files>>
  <2>1. UNCHANGED <<recs, disk, synced, trimmed>>
    BY <1>4 DEF files
  <2>2. TypeOK'
    BY <1>1, <2>1 DEF Base, TypeOK
  <2>3. (\A d \in Chan : Ordered(d)') /\ \A d \in Related : Sorted(d)'
    BY <1>1, <2>1, Zenon DEF Base, Ordered, Sorted, Cuts, Unkeyed
  <2>4. \A q \in Proc : Flushing(q, job[q], pc[q])'
    BY <1>1, <2>1, Zenon DEF Base, Flushing, Slack, Reducible
  <2>. QED
    BY <1>1, <2>1, <2>2, <2>3, <2>4 DEF Base
<1>. QED
  BY <1>3, <1>4, RepairIs DEF Base

-----------------------------------------------------------------------------
\* The store is opened: nothing but its phase changes.
LEMMA OpenKeeps ==
  ASSUME Base, UNCHANGED kind, Open \/ RepairDone \/ MarkUnclean
  PROVE  Base'
<1>1. /\ UNCHANGED <<recs, disk, synced, trimmed, fmu, pc, job, born>>
      /\ phase \in {"down", "repair", "mark"}
  BY DEF Open, RepairDone, MarkUnclean, files
<1>2. unclean' \in BOOLEAN /\ phase' \in {"repair", "mark", "open"} /\ todo' \subseteq Related
  BY Zenon DEF Open, RepairDone, MarkUnclean, Base, TypeOK
<1>3. \A q \in Proc : pc[q] = "idle"
  BY <1>1, Zenon DEF Base, Flushing
<1>4. TypeOK'
  BY <1>1, <1>2 DEF Base, TypeOK
<1>5. (\A d \in Chan : Ordered(d)') /\ \A d \in Related : Sorted(d)'
  BY <1>1, Zenon DEF Base, Ordered, Sorted, Cuts, Unkeyed
<1>6. \A q \in Proc : Flushing(q, job[q], pc[q])'
  BY <1>1, <1>3, Zenon DEF Base, Flushing
<1>7. \A c \in Chan : disk'[c] = Len(recs'[c])
  BY <1>1 DEF Base
<1>. QED
  BY <1>4, <1>5, <1>6, <1>7, Zenon DEF Base

\* A new store.
LEMMA BaseStarts == Init => Base
<1>. SUFFICES ASSUME Init PROVE Base
  OBVIOUS
<1>1. TypeOK
  BY ChannelAssumption, LimitAssumption, NoJobIs DEF Init, TypeOK
<1>2. \A c \in Chan : Ordered(c)
  BY DEF Init, Ordered
<1>3. \A c \in Related : Sorted(c)
  BY ChanIs DEF Init, Sorted, Cuts
<1>4. \A q \in Proc : Flushing(q, job[q], pc[q])
  BY ChanIs, NoJobIs DEF Init, Flushing
<1>. QED
  BY <1>1, <1>2, <1>3, <1>4 DEF Init, Base

\* Every step keeps the base invariant.
LEMMA BaseStep == Base /\ [Next]_vars => Base'
<1>. SUFFICES ASSUME Base, [Next]_vars PROVE Base'
  OBVIOUS
<1>1. CASE UNCHANGED vars
  <2>1. /\ UNCHANGED <<kind, recs, disk, synced, trimmed, unclean, phase, todo, fmu, pc, job, born>>
    BY <1>1 DEF vars, files
  <2>2. TypeOK'
    BY <2>1 DEF Base, TypeOK
  <2>3. (\A d \in Chan : Ordered(d)') /\ \A d \in Related : Sorted(d)'
    BY <2>1, Zenon DEF Base, Ordered, Sorted, Cuts, Unkeyed
  <2>4. \A q \in Proc : Flushing(q, job[q], pc[q])'
    BY <2>1 DEF Base, Flushing, Slack, Reducible
  <2>. QED
    BY <2>1, <2>2, <2>3, <2>4, Zenon DEF Base
<1>2. CASE Next
  <2>0. UNCHANGED kind
    BY <1>2 DEF Next
  <2>1. ASSUME NEW p \in Proc, Call(p)
        PROVE  Base'
    <3>1. CASE \/ AppendMain(p)
               \/ \E c \in Keyed \cup Reducible, m \in 1..(MainTail + MaxAhead) : AppendKeyed(p, c, m)
               \/ \E c \in Unkeyed : AppendUnkeyed(p, c)
      BY <2>0, <3>1, AppendIsOne, AppendedKeeps
    <3>2. CASE \/ BeginSync(p) \/ BeginEvict(p) \/ BeginClose(p)
               \/ \E c \in Chan : \E n \in 1..Len(recs[c]) : BeginSyncChannel(p, c, n)
               \/ \E at \in 0..MainTail : BeginFork(p, at)
      BY <2>0, <3>2, FlushKeeps, Zenon DEF FlushSteps, BeginSteps
    <3>. QED
      BY <2>1, <3>1, <3>2 DEF Call
  <2>2. ASSUME NEW n \in [Chan -> 0..MaxBorn], Kill \/ (\E p \in Proc : ClearUnclean(p)) \/ PowerLoss(n)
        PROVE  Base'
    BY <2>0, <2>2, CrashIsDown, CrashKeeps
  <2>3. PICK z : z = [c \in Chan |-> 0]
    BY Zenon
  <2>4. z \in [Chan -> 0..MaxBorn]
    BY <2>3, LimitAssumption
  <2>5. ASSUME NEW p \in Proc, Work(p) \/ Fail(p)
        PROVE  Base'
    <3>1. CASE ClearUnclean(p)
      BY <2>2, <2>4, <3>1
    <3>2. CASE FlushSteps(p)
      BY <2>0, <3>2, FlushKeeps, Zenon
    <3>. QED
      BY <2>5, <3>1, <3>2, Zenon DEF Work, FlushSteps
  <2>6. CASE Open \/ RepairDone \/ MarkUnclean
    BY <2>0, <2>6, OpenKeeps
  <2>7. CASE \E c \in Related : RepairChannel(c)
    BY <2>0, <2>7, RepairKeeps
  <2>. QED
    BY <1>2, <2>1, <2>2, <2>4, <2>5, <2>6, <2>7 DEF Next
<1>. QED
  BY <1>1, <1>2

\* The base invariant holds.
THEOREM BaseHolds == Spec => []Base
  BY BaseStarts, BaseStep, PTL DEF Spec

-----------------------------------------------------------------------------
(* What a step may not do.                                                  *)

\* The cut: what a coherent flush writes is keyed within main's tail on disk.
LEMMA CopyIsCut ==
  ASSUME Base, NEW p \in Proc, NEW n \in 1..MaxBorn, Copy(p, n), job[p].cut, job[p].chan \in Keyed
  PROVE  recs[job[p].chan][n].m <= disk[Main]
<1>1. PICK j \in Job : j = job[p] /\ Flushing(p, j, "copy")
  BY Busy DEF Copy
<1>2. PICK c \in Keyed : c = j.chan
  BY <1>1
<1>3. c \in Related /\ c \in Chan /\ c # Main /\ Slack(c) = 0
  BY ChanIs, SlackIs DEF Keyed
<1>4. n \in (disk[c] + 1)..j.goal /\ j.cut
  BY <1>1, <1>2 DEF Copy
<1>5. /\ disk[c] \in Nat /\ disk[Main] \in Nat /\ j.goal \in Nat /\ j.tail \in Nat
      /\ recs[c] \in Seq(Rec) /\ Len(recs[c]) \in Nat
  BY <1>3, ChanIs, ChannelIs, Zenon DEF Job
<1>6. n \in 1..Len(recs[c]) /\ j.goal \in 1..Len(recs[c]) /\ n <= j.goal
  BY <1>1, <1>2, <1>4, <1>5 DEF Flushing
<1>7. recs[c][n].m \in Nat /\ recs[c][j.goal].m \in Nat
  <2>1. recs[c][n] \in Rec /\ recs[c][j.goal] \in Rec
    BY <1>5, <1>6
  <2>. QED
    BY <2>1 DEF Rec
<1>8. recs[c][n].m <= recs[c][j.goal].m
  BY <1>3, <1>6, Zenon DEF Base, Sorted
<1>9. recs[c][j.goal].m <= j.tail /\ j.tail <= disk[Main]
  BY <1>1, <1>2, <1>3, <1>4, <1>5, <1>6, <1>7 DEF Flushing
<1>10. PICK a \in Nat, b \in Nat : a = recs[c][n].m /\ b = recs[c][j.goal].m
  BY <1>7, Zenon
<1>11. a <= b /\ b <= j.tail /\ j.tail <= disk[Main]
  BY <1>8, <1>9, <1>10, Zenon
<1>12. PICK t \in Nat, d \in Nat : t = j.tail /\ d = disk[Main]
  BY <1>5, Zenon
<1>13. a <= d
  BY <1>11, <1>12
<1>. QED
  BY <1>1, <1>2, <1>10, <1>12, <1>13, Zenon

\* syncCoherent, coherentTarget: a flush under the cut never puts a related
\* record on disk before the main record it is keyed to.
THEOREM CutHolds == Spec => CutHoldsOnDisk
<1>. DEFINE Step == \A p \in Proc, n \in 1..MaxBorn :
                      Copy(p, n) /\ job[p].cut /\ job[p].chan \in Keyed => recs[job[p].chan][n].m <= disk[Main]
<1>1. Base => Step
  BY CopyIsCut, Zenon
<1>. QED
  BY <1>1, BaseHolds, PTL DEF CutHoldsOnDisk

\* What a step does to the records: nothing, an append, a crash or a repair.
LEMMA StepIs ==
  ASSUME Base, Next
  PROVE  \/ UNCHANGED recs
         \/ Grown /\ \E p \in Proc, c \in Chan : Appended(p, c)
         \/ \E k : Crash(k)
         \/ \E c \in Related, k \in Nat : RepairChannel(c) /\ child = NoChild /\ Repaired(c, k)
<1>0. UNCHANGED kind
  BY DEF Next
<1>1. ASSUME NEW p \in Proc, Call(p)
      PROVE  \/ UNCHANGED recs
             \/ Grown /\ \E c \in Chan : Appended(p, c)
  <2>1. CASE \/ AppendMain(p)
             \/ \E c \in Keyed \cup Reducible, m \in 1..(MainTail + MaxAhead) : AppendKeyed(p, c, m)
             \/ \E c \in Unkeyed : AppendUnkeyed(p, c)
    BY <1>0, <2>1, AppendIsOne
  <2>2. CASE \/ BeginSync(p) \/ BeginEvict(p) \/ BeginClose(p)
             \/ \E c \in Chan : \E n \in 1..Len(recs[c]) : BeginSyncChannel(p, c, n)
             \/ \E at \in 0..MainTail : BeginFork(p, at)
    BY <2>2, Zenon DEF BeginSync, BeginEvict, BeginClose, BeginSyncChannel, BeginFork
  <2>. QED
    BY <1>1, <2>1, <2>2 DEF Call
<1>2. PICK z : z = [c \in Chan |-> 0]
  BY Zenon
<1>3. z \in [Chan -> 0..MaxBorn]
  BY <1>2, LimitAssumption
<1>4. ASSUME NEW p \in Proc, Work(p) \/ Fail(p)
      PROVE  UNCHANGED recs \/ \E k : Crash(k)
  <2>1. CASE ClearUnclean(p)
    BY <1>3, <2>1, CrashIsDown
  <2>2. CASE ~ClearUnclean(p)
    BY <1>4, <2>2, Zenon DEF Work, Aim, Capture, Copy, Fsync, ReadTail, Return, ForkCommit, CloseStore, Fail
  <2>. QED
    BY <2>1, <2>2
<1>5. CASE Open \/ RepairDone \/ MarkUnclean
  BY <1>5 DEF Open, RepairDone, MarkUnclean
<1>6. ASSUME NEW c \in Related, RepairChannel(c)
      PROVE  UNCHANGED recs \/ \E k \in Nat : RepairChannel(c) /\ child = NoChild /\ Repaired(c, k)
  BY <1>6, RepairIs DEF Base
<1>7. ASSUME NEW n \in [Chan -> 0..MaxBorn], Kill \/ PowerLoss(n)
      PROVE  \E k : Crash(k)
  BY <1>7, CrashIsDown
<1>. QED
  BY <1>1, <1>3, <1>4, <1>5, <1>6, <1>7 DEF Next

\* A record that was fsynced, and whose turn was, is removed by no crash and by
\* no repair: a hard crash loses at most the flush lag.
THEOREM DurableStaysAlways == Spec => DurableStays
\* What was fsynced under the cut stays, in one step.
<1>DurableStep.
    ASSUME Base, [Next]_vars, NEW c \in Chan, NEW i \in 1..synced[c], recs[c][i].m <= synced[Main] + Slack(c)
    PROVE  i <= Len(recs'[c]) /\ recs'[c][i].id = recs[c][i].id
  <2>. USE <1>DurableStep
  <2>1. /\ recs[c] \in Seq(Rec) /\ Len(recs[c]) \in Nat /\ synced[c] \in Nat /\ disk[c] \in Nat
        /\ synced[c] <= disk[c] /\ disk[c] <= Len(recs[c])
    BY DEF Base, TypeOK, Ordered
  <2>2. i \in 1..Len(recs[c]) /\ i \in Nat
    BY <2>1
  <2>3. CASE UNCHANGED recs
    BY <2>1, <2>2, <2>3
  <2>4. CASE Grown
    <3>1. Grows(c) /\ Len(recs'[c]) \in Nat
      BY <2>4 DEF Grown
    <3>. QED
      BY <2>1, <2>2, <3>1 DEF Grows
  <2>5. ASSUME Next, NEW k, Crash(k)
        PROVE  i <= Len(recs'[c]) /\ recs'[c][i].id = recs[c][i].id
    <3>3. UNCHANGED kind
      BY <2>5 DEF Next
    <3>2. CutTo(c, k[c])
      BY <2>5, <3>3, CrashKeeps, Zenon
    <3>1. CutTo(c, k[c]) /\ k[c] \in Nat /\ synced[c] <= k[c]
      BY <2>5, <3>2 DEF Crash
    <3>. QED
      BY <2>1, <2>2, <3>1 DEF CutTo
  <2>6. ASSUME NEW d \in Related, NEW k \in Nat, Repaired(d, k)
        PROVE  i <= Len(recs'[c]) /\ recs'[c][i].id = recs[c][i].id
    <3>1. CASE d = c
      <4>1. CutTo(c, k)
        BY <2>6, <3>1 DEF Repaired
      <4>2. recs[c][i].m \in Nat /\ synced[Main] \in Nat /\ disk[Main] \in Nat /\ synced[Main] <= disk[Main] /\ Slack(c) \in Nat
        <5>1. recs[c][i] \in Rec
          BY <2>1, <2>2
        <5>. QED
          BY <5>1, ChanIs, SlackIs, Zenon DEF Rec, Base, TypeOK, Ordered
      <4>3. recs[c][i].m <= disk[Main] + Slack(c)
        BY <4>2
      <4>4. i <= k
        BY <2>2, <2>6, <3>1, <4>3 DEF Repaired
      <4>. QED
        BY <2>2, <4>1, <4>4 DEF CutTo
    <3>2. CASE d # c
      <4>1. recs'[c] = recs[c]
        BY <2>6, <3>2, Zenon DEF Repaired, Base, TypeOK
      <4>. QED
        BY <2>1, <2>2, <4>1
    <3>. QED
      BY <3>1, <3>2
  <2>7. CASE UNCHANGED vars
    BY <2>3, <2>7 DEF vars
  <2>8. CASE Next
    BY <2>3, <2>4, <2>5, <2>6, <2>8, StepIs, Zenon
  <2>. QED
    BY <2>7, <2>8, Zenon
<1>. DEFINE Step == \A c \in Chan : \A i \in 1..synced[c] :
                      recs[c][i].m <= synced[Main] + Slack(c)
                        => i <= Len(recs'[c]) /\ recs'[c][i].id = recs[c][i].id
<1>1. Base /\ [Next]_vars => Step
  BY <1>DurableStep, Zenon
<1>. QED
  BY <1>1, BaseHolds, PTL DEF Spec, DurableStays
=============================================================================
