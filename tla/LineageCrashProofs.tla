------------------------ MODULE LineageCrashProofs -------------------------
(***************************************************************************)
(* Proofs about Lineage, concluded: forks, appends, crashes and the repair *)
(* keep the whole invariant, and what that says of references, of a        *)
(* child's inherited records and of a clean close.                         *)
(***************************************************************************)
EXTENDS LineageProofs, LineageSafeProofs

\* channelBases: a fork inherits no more than what was trimmed.
LEMMA BasesAreSafe ==
  ASSUME Base, Whole, NEW p \in Proc, Finished(p, "fork"), NEW c \in Chan
  PROVE  /\ ChannelBases(job[p].at)[c] \in Nat \ {0}
         /\ ChannelBases(job[p].at)[c] - 1 <= trimmed[c]
<1>1. PICK j \in Job : j = job[p] /\ Forking(p, j, "sync") /\ j.then = "fork" /\ j.left = {}
  BY Knows DEF Finished
<1>2. MainTail <= trimmed[Main] /\ \A d \in Related : Covered(d, trimmed[d])
  BY <1>1 DEF Forking
<1>3. PICK at \in Nat : at = j.at
  BY DEF Job
<1>. DEFINE tailFork == at = 0 \/ at >= MainTail
            last == IF tailFork THEN MainTail ELSE at
<1>4. MainTail \in Nat
  BY ChanIs DEF Base, TypeOK, MainTail
<1>6. last \in Nat /\ last <= MainTail /\ (~tailFork => at \in 1..MainTail)
  BY <1>3, <1>4
<1>7. ChannelBases(job[p].at)[c] =
        IF c = Main THEN last + 1
        ELSE IF c \notin Unkeyed THEN Max({0} \cup {i \in DOMAIN recs[c] : recs[c][i].m <= last}) + 1
        ELSE IF tailFork THEN Len(recs[c]) + 1
        ELSE Min({recs[Main][at].cur[c], Len(recs[c])}) + 1
  BY <1>1, <1>3 DEF ChannelBases
<1>8. recs[c] \in Seq(Rec) /\ Len(recs[c]) \in Nat /\ DOMAIN recs[c] = 1..Len(recs[c]) /\ trimmed[c] \in Nat
  BY DEF Base, TypeOK
<1>9. CASE c = Main
  BY <1>2, <1>4, <1>6, <1>7, <1>8, <1>9
<1>10. CASE c # Main /\ c \notin Unkeyed
  <2>1. PICK S : S = {0} \cup {i \in DOMAIN recs[c] : recs[c][i].m <= last}
    BY Zenon
  <2>2. c \in Related
    BY <1>10, ChanIs
  <2>3. S = Upto(c, 0, last) /\ 0 \in Nat
    BY <1>8, <2>1 DEF Upto
  <2>4. Max(S) \in S /\ Max(S) \in Nat
    BY <1>6, <2>2, <2>3, LastIs, Zenon DEF Base
  <2>5. \A i \in 1..Len(recs[c]) : recs[c][i].m \in Nat
    <3>1. \A i \in 1..Len(recs[c]) : recs[c][i] \in Rec
      BY <1>8
    <3>. QED
      BY <3>1 DEF Rec
  <2>6. \A y \in S : y <= trimmed[c]
    BY <1>2, <1>4, <1>6, <1>8, <2>1, <2>2, <2>5 DEF Covered
  <2>7. PICK l \in Nat : l = Max(S) /\ l <= trimmed[c]
    BY <2>4, <2>6
  <2>8. ChannelBases(job[p].at)[c] = l + 1
    BY <1>7, <1>10, <2>1, <2>7, Zenon
  <2>. QED
    BY <1>8, <2>7, <2>8
<1>11. CASE c \in Unkeyed
  <2>1. c \in Related /\ c # Main
    BY <1>11, ChanIs DEF Unkeyed
  <2>2. Len(recs[c]) <= trimmed[c]
    BY <1>2, <1>4, <1>8, <1>11, <2>1 DEF Covered, Base, Sorted
  <2>3. CASE tailFork
    BY <1>7, <1>8, <1>11, <2>1, <2>2, <2>3
  <2>4. CASE ~tailFork
    <3>1. PICK n \in Nat : n = recs[Main][at].cur[c]
      <4>1. recs[Main] \in Seq(Rec) /\ at \in 1..Len(recs[Main])
        BY <1>6, <2>4, ChanIs DEF Base, TypeOK, MainTail
      <4>2. recs[Main][at] \in Rec
        BY <4>1
      <4>. QED
        BY <2>1, <4>2 DEF Rec
    <3>4. PICK l : l = Min({n, Len(recs[c])})
      BY Zenon
    <3>2. l \in Nat /\ l = Min({n, Len(recs[c])}) /\ l <= Len(recs[c])
      BY <1>8, <3>4, MinIs, Zenon
    <3>3. ChannelBases(job[p].at)[c] = l + 1
      BY <1>7, <1>11, <2>1, <2>4, <3>1, <3>2
    <3>. QED
      BY <1>8, <2>2, <3>2, <3>3
  <2>. QED
    BY <2>3, <2>4
<1>. QED
  BY <1>9, <1>10, <1>11

\* The ids of the first n records.
LEMMA IdsIs ==
  ASSUME NEW s \in Seq(Rec), NEW n \in 0..Len(s)
  PROVE  Ids(Prefix(s, n)) = [i \in 1..n |-> s[i].id]
<1>1. PICK t : t = Prefix(s, n)
  BY Zenon
<1>2. t \in Seq(Rec) /\ Len(t) = n /\ \A i \in 1..n : t[i] = s[i]
  BY <1>1, PrefixIs
<1>3. DOMAIN t = 1..n
  BY <1>2
<1>. QED
  BY <1>1, <1>2, <1>3 DEF Ids

\* The child is committed.
LEMMA ForkWhole ==
  ASSUME Base, Base', Whole, UNCHANGED <<kind, faults>>, NEW p \in Proc, ForkCommit(p)
  PROVE  Whole'
<1>1. /\ Finished(p, "fork") /\ UNCHANGED <<recs, disk, synced, trimmed, unclean, phase, todo>>
      /\ pc' = [pc EXCEPT ![p] = "idle"] /\ job' = [job EXCEPT ![p] = NoJob]
  BY DEF ForkCommit, files
<1>2. PICK bases : bases = ChannelBases(job[p].at)
  BY Zenon
<1>3. child' = bases /\ inherited' = [c \in Chan |-> Ids(Prefix(recs[c], bases[c] - 1))]
  BY <1>2 DEF ForkCommit
<1>4. job[p].then = "fork" /\ writer = p /\ child = NoChild
  BY <1>1, Knows DEF Finished, Forking
<1>5. \A c \in Chan : Safe(c)' = Safe(c) /\ trimmed[c] <= Safe(c) /\ Safe(c) \in Nat /\ trimmed[c] \in Nat
  BY <1>1 DEF Safe, Whole, Durable, Base, TypeOK
<1>6. ASSUME NEW q \in Proc
      PROVE  Closing(q, job[q], pc[q])' /\ Forking(q, job[q], pc[q])'
  <2>1. CASE q = p
    <3>1. job'[q] = NoJob /\ NoJob \in Job /\ NoJob.then = "return" /\ NoJob.ok
      BY <1>1, <2>1, NoJobIs, Zenon DEF Base, TypeOK, NoJob, Flush
    <3>. QED
      BY <3>1, PlainJob
  <2>2. CASE q # p
    <3>1. PICK j \in Job, s \in PCs : j = job[q] /\ s = pc[q] /\ Closing(q, j, s) /\ Forking(q, j, s)
      BY Knows
    <3>2. \A c \in Chan : trimmed[c] <= trimmed'[c]
      BY <1>1, <1>5
    <3>3. Closing(q, j, s)'
      BY <1>1, <3>1, <3>2, ClosingStays
    <3>4. Forking(q, j, s)'
      BY <1>4, <2>2, <3>1 DEF Forking
    <3>5. job'[q] = j /\ pc'[q] = s
      BY <1>1, <2>2, <3>1 DEF Base, TypeOK
    <3>. QED
      BY <3>3, <3>4, <3>5
  <2>. QED
    BY <2>1, <2>2
<1>7. Durable'
  BY <1>1, <1>5, <1>6 DEF Whole, Durable
<1>8. Inherits'
  <2>1. ASSUME NEW c \in Chan
        PROVE  /\ child'[c] \in Nat \ {0} /\ child'[c] - 1 <= Safe(c)'
               /\ inherited'[c] = [i \in 1..(child'[c] - 1) |-> recs'[c][i].id]
    <3>1. bases[c] \in Nat \ {0} /\ bases[c] - 1 <= trimmed[c]
      BY <1>1, <1>2, BasesAreSafe
    <3>2. recs[c] \in Seq(Rec) /\ Len(recs[c]) \in Nat /\ trimmed[c] <= Len(recs[c])
      BY <1>5 DEF Base, TypeOK, Ordered
    <3>3. PICK n : n = bases[c] - 1
      BY Zenon
    <3>4. n \in 0..Len(recs[c]) /\ n <= Safe(c)
      BY <1>5, <3>1, <3>2, <3>3
    <3>5. inherited'[c] = [i \in 1..n |-> recs[c][i].id]
      BY <1>3, <3>2, <3>3, <3>4, IdsIs, Zenon
    <3>. QED
      BY <1>1, <1>3, <1>5, <3>1, <3>3, <3>4, <3>5
  <2>. QED
    BY <1>6, <2>1 DEF Inherits
<1>9. Attaches'
  BY <1>1, <1>4, Zenon DEF Whole, Attaches, Keyed, Faithful, Reaches, MainTail
<1>. QED
  BY <1>7, <1>8, <1>9 DEF Whole

-----------------------------------------------------------------------------
\* An append finds no fork and no close in progress.
LEMMA AppendedWhole ==
  ASSUME Base, Base', Whole, UNCHANGED <<kind, faults>>, NEW p \in Proc, NEW c \in Chan, Grown, Appended(p, c)
  PROVE  Durable' /\ Inherits'
<1>1. /\ UNCHANGED <<disk, synced, trimmed, unclean, phase, todo, child, inherited>>
      /\ phase = "open" /\ writer = NoProc /\ pc[p] = "idle"
  BY DEF Appended, Free
<1>2. \A d \in Chan : Safe(d)' = Safe(d) /\ Safe(d) \in Nat /\ Safe(d) <= Len(recs[d]) /\ Len(recs[d]) \in Nat
  BY <1>1 DEF Safe, Base, TypeOK, Ordered
<1>3. ASSUME NEW q \in Proc
      PROVE  Closing(q, job[q], pc[q])' /\ Forking(q, job[q], pc[q])'
  <2>1. PICK j \in Job : j = job[q] /\ Closing(q, j, pc[q]) /\ Forking(q, j, pc[q])
    BY Knows, Zenon
  <2>4. j.then = "return"
    BY <1>1, <2>1, ProcAssumption, Zenon DEF Closing, Forking, Job
  <2>5. ~j.ok => "io" \in faults
    BY <2>1, Zenon DEF Closing
  <2>2. CASE job'[q] = j
    BY <2>2, <2>4, <2>5 DEF Closing, Forking
  <2>3. CASE job'[q] = Flush({c}, FALSE, MaxBorn, "return", 0)
    <3>1. job'[q].then = "return" /\ job'[q].ok
      BY <2>3 DEF Flush
    <3>. QED
      BY <3>1 DEF Closing, Forking
  <2>. QED
    BY <2>1, <2>2, <2>3, Zenon DEF Appended, WriteReturns, Start, Base, TypeOK
<1>4. Durable'
  BY <1>1, <1>2, <1>3, Zenon DEF Whole, Durable
<1>5. Inherits'
  <2>1. ASSUME child # NoChild, NEW d \in Chan
        PROVE  inherited'[d] = [i \in 1..(child'[d] - 1) |-> recs'[d][i].id]
    <3>1. child[d] \in Nat \ {0} /\ child[d] - 1 <= Safe(d) /\ inherited[d] = [i \in 1..(child[d] - 1) |-> recs[d][i].id]
      BY <2>1 DEF Whole, Inherits
    <3>2. \A i \in 1..(child[d] - 1) : recs'[d][i].id = recs[d][i].id
      <4>1. \A i \in 1..(child[d] - 1) : i \in 1..Len(recs[d])
        BY <1>2, <3>1
      <4>2. Grows(d)
        BY DEF Grown
      <4>. QED
        BY <4>1, <4>2 DEF Grows
    <3>. QED
      BY <1>1, <3>1, <3>2
  <2>. QED
    BY <1>1, <1>2, <1>3, <2>1, Zenon DEF Whole, Inherits
<1>. QED
  BY <1>4, <1>5

\* A record of a related channel references what is there.
LEMMA AppendRelatedAttaches ==
  ASSUME Base, Whole, phase = "open", UNCHANGED <<kind, unclean, phase, todo, child>>,
         NEW c \in Related, NEW r \in Rec, recs' = [recs EXCEPT ![c] = Append(recs[c], r)],
         c \in Keyed /\ r.ref # 0 => r.m # 0 /\ r.m <= MainTail /\ recs[Main][r.m].id = r.ref
  PROVE  Attaches'
<1>. SUFFICES ASSUME child = NoChild PROVE Attaches'
  BY DEF Attaches
<1>1. c \in Chan /\ Main \in Chan /\ c # Main /\ recs \in [Chan -> Seq(Rec)] /\ Keyed' = Keyed /\ Keyed \subseteq Related
  BY ChanIs DEF Base, TypeOK, Keyed
<1>2. recs'[Main] = recs[Main] /\ MainTail' = MainTail
  BY <1>1 DEF MainTail
<1>3. ASSUME NEW d \in Keyed
      PROVE  Faithful(d)' /\ Reaches(d)'
  <2>1. Faithful(d) /\ Reaches(d)
    BY DEF Whole, Attaches
  <2>2. CASE d # c
    <3>1. recs'[d] = recs[d]
      BY <1>1, <2>2, ChanIs
    <3>. QED
      BY <1>2, <2>1, <3>1, Zenon DEF Faithful, Reaches
  <2>3. CASE d = c
    <3>1. recs[d] \in Seq(Rec) /\ Len(recs[d]) \in Nat
      BY <1>1, <2>3
    <3>2. /\ Len(recs'[d]) = Len(recs[d]) + 1 /\ recs'[d][Len(recs[d]) + 1] = r
          /\ \A i \in 1..Len(recs[d]) : recs'[d][i] = recs[d][i]
      BY <1>1, <2>3, <3>1
    <3>3. \A i \in 1..Len(recs'[d]) : i \in 1..Len(recs[d]) \/ i = Len(recs[d]) + 1
      BY <3>1, <3>2
    <3>4. r.ref # 0 => r.m # 0 /\ r.m <= MainTail /\ recs[Main][r.m].id = r.ref
      BY <2>3
    <3>5. Faithful(d)'
      BY <1>2, <2>1, <3>2, <3>3, <3>4, Zenon DEF Faithful
    <3>6. Reaches(d)'
      BY <1>2, <2>1, <3>2, <3>3, <3>4 DEF Reaches
    <3>. QED
      BY <3>5, <3>6
  <2>. QED
    BY <2>2, <2>3
<1>. QED
  BY <1>1, <1>3, Zenon DEF Attaches

\* AppendMain: what was keyed ahead of main references the new record.
LEMMA AppendMainAttaches ==
  ASSUME Base, Whole, phase = "open", UNCHANGED <<kind, unclean, phase, todo, child>>, NEW p \in Proc, AppendMain(p)
  PROVE  Attaches'
<1>. SUFFICES ASSUME child = NoChild PROVE Attaches'
  BY DEF Attaches
<1>1. PICK r : AppendsMain(r)
  BY AppendMainIs, Zenon DEF Base
<1>2. MainTail = Len(recs[Main]) /\ MainTail \in Nat /\ recs[Main] \in Seq(Rec) /\ Keyed' = Keyed /\ Keyed \subseteq Related
  BY ChanIs DEF Base, TypeOK, MainTail, Keyed
<1>3. /\ MainTail' = MainTail + 1 /\ recs'[Main][MainTail + 1] = r
      /\ \A i \in 1..MainTail : recs'[Main][i] = recs[Main][i]
  BY <1>1, <1>2 DEF AppendsMain, MainTail
<1>4. ASSUME NEW d \in Keyed
      PROVE  Faithful(d)' /\ Reaches(d)'
  <2>1. Faithful(d) /\ Reaches(d)
    BY DEF Whole, Attaches
  <2>2. d \in Related /\ Len(recs'[d]) = Len(recs[d])
    BY <1>1, <1>2 DEF AppendsMain
  <2>3. ASSUME NEW i \in 1..Len(recs[d])
        PROVE  recs'[d][i].ref # 0 => /\ recs'[d][i].m # 0 /\ recs'[d][i].m <= MainTail + 1
                                      /\ recs'[Main][recs'[d][i].m].id = recs'[d][i].ref
    <3>1. PICK m, f : m = recs[d][i].m /\ f = recs[d][i].ref
      BY Zenon
    <3>2. m \in Nat
      <4>1. recs[d] \in Seq(Rec)
        BY <2>2, ChanIs DEF Base, TypeOK
      <4>2. recs[d][i] \in Rec
        BY <4>1
      <4>. QED
        BY <3>1, <4>2 DEF Rec
    <3>3. recs'[d][i].m = m /\ recs'[d][i].ref = IF m = MainTail + 1 /\ f = 0 THEN born + 1 ELSE f
      BY <1>1, <2>2, <3>1, Zenon DEF AppendsMain
    <3>4. f # 0 => m <= MainTail /\ m # 0 /\ recs[Main][m].id = f
      BY <2>1, <3>1 DEF Faithful, Reaches
    <3>5. CASE m = MainTail + 1 /\ f = 0
      BY <1>1, <1>2, <1>3, <3>3, <3>5 DEF AppendsMain
    <3>6. CASE ~(m = MainTail + 1 /\ f = 0)
      BY <1>2, <1>3, <3>2, <3>3, <3>4, <3>6
    <3>. QED
      BY <3>5, <3>6
  <2>4. Faithful(d)'
    BY <2>2, <2>3 DEF Faithful
  <2>5. Reaches(d)'
    BY <1>3, <2>2, <2>3 DEF Reaches
  <2>. QED
    BY <2>4, <2>5
<1>. QED
  BY <1>2, <1>4 DEF Attaches

\* The appends.
LEMMA AppendWhole ==
  ASSUME Base, Base', Whole, UNCHANGED <<kind, faults>>, NEW w \in Proc,
         \/ AppendMain(w)
         \/ \E c \in Keyed \cup Reducible, m \in 1..(MainTail + MaxAhead) : AppendKeyed(w, c, m)
         \/ \E c \in Unkeyed : AppendUnkeyed(w, c)
  PROVE  Whole'
<1>1. Grown /\ \E c \in Chan : Appended(w, c)
  BY AppendIsOne
<1>2. Durable' /\ Inherits'
  BY <1>1, AppendedWhole
<1>3. phase = "open" /\ UNCHANGED <<kind, unclean, phase, todo, child>>
  BY <1>1 DEF Appended, Free
<1>4. ASSUME AppendMain(w)
      PROVE  Attaches'
  BY <1>3, <1>4, AppendMainAttaches
<1>5. ASSUME NEW c \in Keyed \cup Reducible, NEW m \in 1..(MainTail + MaxAhead), AppendKeyed(w, c, m)
      PROVE  Attaches'
  <2>1. PICK r : r = [m |-> m, cur |-> NoCursor, id |-> born + 1,
                      ref |-> IF m <= MainTail THEN recs[Main][m].id ELSE 0]
    BY Zenon
  <2>2. recs' = [recs EXCEPT ![c] = Append(recs[c], r)] /\ c \in Related
    BY <1>5, <2>1, Zenon DEF AppendKeyed, Keyed, Reducible
  <2>3. recs[Main] \in Seq(Rec) /\ MainTail \in Nat /\ MainTail = Len(recs[Main]) /\ born \in Nat
    BY ChanIs DEF Base, TypeOK, MainTail
  <2>4. m \in Nat \ {0} /\ (m <= MainTail => m \in 1..Len(recs[Main]))
    BY <2>3, LimitAssumption
  <2>5. m <= MainTail => recs[Main][m].id \in Nat
    <3>1. m <= MainTail => recs[Main][m] \in Rec
      BY <2>3, <2>4
    <3>. QED
      BY <3>1 DEF Rec
  <2>6. r \in Rec /\ r.m = m /\ r.ref = IF m <= MainTail THEN recs[Main][m].id ELSE 0
    <3>1. NoCursor \in [Related -> Nat]
      BY DEF NoCursor
    <3>. QED
      BY <2>1, <2>3, <2>4, <2>5, <3>1 DEF Rec
  <2>7. r.ref # 0 => r.m # 0 /\ r.m <= MainTail /\ recs[Main][r.m].id = r.ref
    BY <2>4, <2>6
  <2>. QED
    BY <1>3, <2>2, <2>6, <2>7, AppendRelatedAttaches, Zenon
<1>6. ASSUME NEW c \in Unkeyed, AppendUnkeyed(w, c)
      PROVE  Attaches'
  <2>1. PICK r : r = [m |-> 0, cur |-> NoCursor, id |-> born + 1, ref |-> 0]
    BY Zenon
  <2>2. r \in Rec /\ r.ref = 0
    BY <2>1 DEF Rec, NoCursor, Base, TypeOK
  <2>3. recs' = [recs EXCEPT ![c] = Append(recs[c], r)] /\ c \in Related
    BY <1>6, <2>1 DEF AppendUnkeyed, Unkeyed
  <2>. QED
    BY <1>3, <2>2, <2>3, AppendRelatedAttaches, Zenon
<1>. QED
  BY <1>2, <1>4, <1>5, <1>6 DEF Whole

-----------------------------------------------------------------------------
\* Nothing is left of a flush, and what is left of the records is safe.
LEMMA CrashIsSafe ==
  ASSUME Base, Base', Whole, UNCHANGED <<kind, faults>>, NEW k, Crash(k)
  PROVE  \A c \in Chan : /\ Safe(c) <= k[c] /\ Safe(c)' = k[c] /\ k[c] \in Nat
                         /\ k[c] <= Len(recs[c]) /\ CutTo(c, k[c])
<1>1. TAKE c \in Chan
<1>2. CutTo(c, k[c])
  BY CrashKeeps
<1>3. /\ k[c] \in Nat /\ k[c] <= disk[c] /\ synced[c] <= k[c] /\ disk' = k
      /\ disk[c] \in Nat /\ synced[c] \in Nat /\ Len(recs[c]) \in Nat /\ disk[c] <= Len(recs[c])
      /\ trimmed[c] <= Safe(c)
  BY DEF Crash, Down, Base, TypeOK, Ordered, Whole, Durable
<1>4. CASE "power" \notin faults
  <2>1. k = disk
    BY <1>4, Zenon DEF Crash
  <2>. QED
    BY <1>2, <1>3, <1>4, <2>1 DEF Safe
<1>5. CASE "power" \in faults /\ synced' = k
  BY <1>2, <1>3, <1>5 DEF Safe
<1>6. CASE "power" \in faults /\ synced' # k
  <2>1. faults = {"power"}
    BY <1>6 DEF Whole, Durable
  <2>2. ~Kill
    BY <2>1 DEF Kill
  <2>3. ASSUME NEW p \in Proc, ClearUnclean(p)
        PROVE  synced[c] = disk[c] /\ synced' = synced
    <3>1. PICK j \in Job : j = job[p] /\ j.then = "clear" /\ j.left = {} /\ Closing(p, j, "sync")
      BY <2>3, Knows DEF ClearUnclean, Finished
    <3>2. j.ok
      BY <2>1, <3>1 DEF Closing
    <3>3. Len(recs[c]) <= trimmed[c]
      BY <3>1, <3>2 DEF Closing
    <3>4. trimmed[c] <= synced[c] /\ trimmed[c] \in Nat
      BY <1>3, <1>6 DEF Safe, Base, TypeOK
    <3>. QED
      BY <1>3, <1>6, <2>3, <3>3, <3>4 DEF ClearUnclean
  <2>4. synced[c] = disk[c] /\ synced' = synced /\ k = disk
    <3>1. k = disk /\ \E p \in Proc : ClearUnclean(p)
      BY <1>6, <2>2, Zenon DEF Crash
    <3>. QED
      BY <2>3, <3>1
  <2>. QED
    BY <1>2, <1>3, <1>6, <2>4 DEF Safe
<1>. QED
  BY <1>4, <1>5, <1>6

\* .unclean is absent: nothing is lost.
LEMMA CleanCrash ==
  ASSUME Base, Base', Whole, UNCHANGED <<kind, faults>>, NEW k, Crash(k), ~unclean'
  PROVE  /\ recs' = recs
         /\ phase = "closing" \/ ~unclean
<1>1. \A c \in Chan : /\ Safe(c) <= k[c] /\ Safe(c)' = k[c] /\ k[c] \in Nat
                      /\ k[c] <= Len(recs[c]) /\ CutTo(c, k[c])
  BY CrashIsSafe
<1>2. \A c \in Chan : Len(recs[c]) \in Nat /\ Safe(c) \in Nat /\ trimmed[c] \in Nat /\ trimmed[c] <= Safe(c)
  BY DEF Base, TypeOK, Safe, Whole, Durable
<1>3. recs \in [Chan -> Seq(Rec)] /\ recs' \in [Chan -> Seq(Rec)]
  BY DEF Base, TypeOK
<1>4. SUFFICES (\A c \in Chan : k[c] = Len(recs[c])) /\ (phase = "closing" \/ ~unclean)
  <2>1. ASSUME \A c \in Chan : k[c] = Len(recs[c])
        PROVE  recs' = recs
    <3>1. \A c \in Chan : recs'[c] = recs[c]
      BY <1>1, <2>1 DEF CutTo
    <3>. QED
      BY <1>3, <3>1
  <2>. QED
    BY <2>1
<1>5. CASE unclean' = unclean
  <2>1. ~unclean
    BY <1>5, Zenon
  <2>2. phase \notin {"open", "closing"}
    BY <2>1 DEF Whole, Durable
  <2>3. \A c \in Chan : Safe(c) = Len(recs[c])
    BY <2>2 DEF Whole, Durable
  <2>4. \A c \in Chan : k[c] = Len(recs[c])
    BY <1>1, <1>2, <2>3
  <2>. QED
    BY <2>1, <2>4
<1>6. ASSUME NEW p \in Proc, ClearUnclean(p)
      PROVE  (\A c \in Chan : k[c] = Len(recs[c])) /\ (phase = "closing" \/ ~unclean)
  <2>1. PICK j \in Job : j = job[p] /\ j.then = "clear" /\ j.left = {} /\ Closing(p, j, "sync")
    BY <1>6, Knows DEF ClearUnclean, Finished
  <2>2. j.ok
    BY <1>6, <2>1, Zenon DEF ClearUnclean
  <2>3. \A c \in Chan : Len(recs[c]) <= trimmed[c]
    BY <2>1, <2>2 DEF Closing
  <2>4. \A c \in Chan : k[c] = Len(recs[c])
    BY <1>1, <1>2, <2>3
  <2>5. phase = "closing"
    BY <2>1 DEF Closing
  <2>. QED
    BY <2>4, <2>5
<1>7. CASE Kill
  BY <1>5, <1>7 DEF Kill
<1>. QED
  BY <1>5, <1>6, <1>7, Zenon DEF Crash

\* A crash keeps the whole of the invariant.
LEMMA CrashWhole ==
  ASSUME Base, Base', Whole, UNCHANGED <<kind, faults>>, NEW k, Crash(k)
  PROVE  Whole'
<1>1. \A c \in Chan : /\ Safe(c) <= k[c] /\ Safe(c)' = k[c] /\ k[c] \in Nat
                      /\ k[c] <= Len(recs[c]) /\ CutTo(c, k[c])
  BY CrashIsSafe
<1>2. /\ trimmed' = k /\ phase' = "down" /\ todo' = {} /\ UNCHANGED <<child, inherited>>
      /\ \A q \in Proc : job'[q] = NoJob
  BY DEF Crash, Down
<1>3. ASSUME NEW q \in Proc
      PROVE  Closing(q, job[q], pc[q])' /\ Forking(q, job[q], pc[q])'
  <2>1. NoJob.then = "return" /\ NoJob.ok
    BY Zenon DEF NoJob, Flush
  <2>. QED
    BY <1>2, <2>1 DEF Closing, Forking
<1>4. Durable'
  BY <1>1, <1>2, <1>3 DEF Whole, Durable, CutTo
<1>5. Inherits'
  <2>1. ASSUME child # NoChild, NEW d \in Chan
        PROVE  /\ child'[d] \in Nat \ {0} /\ child'[d] - 1 <= Safe(d)'
               /\ inherited'[d] = [i \in 1..(child'[d] - 1) |-> recs'[d][i].id]
    <3>1. child[d] \in Nat \ {0} /\ child[d] - 1 <= Safe(d) /\ inherited[d] = [i \in 1..(child[d] - 1) |-> recs[d][i].id]
      BY <2>1, Zenon DEF Whole, Inherits
    <3>2. Safe(d) \in Nat
      BY DEF Safe, Base, TypeOK
    <3>3. \A i \in 1..(child[d] - 1) : i \in 1..k[d]
      BY <1>1, <3>1, <3>2
    <3>4. \A i \in 1..(child[d] - 1) : recs'[d][i].id = recs[d][i].id
      BY <1>1, <3>3 DEF CutTo
    <3>. QED
      BY <1>1, <1>2, <3>1, <3>2, <3>4
  <2>. QED
    BY <1>2, <1>3, <2>1 DEF Inherits
<1>6. Attaches'
  <2>. SUFFICES ASSUME child = NoChild, NEW d \in Keyed'
                PROVE  Faithful(d)' /\ (~unclean' => Reaches(d)')
    BY <1>2 DEF Attaches
  <2>1. d \in Keyed /\ d \in Chan /\ Main \in Chan
    BY ChanIs DEF Keyed
  <2>2. Faithful(d)
    BY <2>1 DEF Whole, Attaches
  <2>3. /\ Len(recs'[d]) = k[d] /\ MainTail' = k[Main] /\ k[Main] <= MainTail /\ k[Main] \in Nat /\ MainTail \in Nat
        /\ \A i \in 1..k[d] : recs'[d][i] = recs[d][i] /\ i \in 1..Len(recs[d])
        /\ \A i \in 1..k[Main] : recs'[Main][i] = recs[Main][i]
    <3>1. Len(recs[d]) \in Nat /\ Len(recs[Main]) \in Nat
      BY <2>1, ChannelIs, Zenon
    <3>. QED
      BY <1>1, <2>1, <3>1 DEF CutTo, MainTail
  <2>4. Faithful(d)'
    <3>1. \A i \in 1..k[d] : recs[d][i].m \in Nat
      <4>1. recs[d] \in Seq(Rec)
        BY <2>1 DEF Base, TypeOK
      <4>2. \A i \in 1..k[d] : recs[d][i] \in Rec
        BY <2>3, <4>1
      <4>. QED
        BY <4>2 DEF Rec
    <3>2. ASSUME NEW i \in 1..k[d], recs[d][i].ref # 0, recs[d][i].m <= k[Main]
          PROVE  recs[d][i].m # 0 /\ recs'[Main][recs[d][i].m].id = recs[d][i].ref
      <4>1. PICK m \in Nat : m = recs[d][i].m
        BY <3>1
      <4>2. i \in 1..Len(recs[d]) /\ m <= MainTail
        BY <2>3, <3>2, <4>1
      <4>3. m # 0 /\ recs[Main][m].id = recs[d][i].ref
        BY <2>2, <3>2, <4>1, <4>2, Zenon DEF Faithful
      <4>4. m \in 1..k[Main]
        BY <2>3, <3>2, <4>1, <4>3
      <4>. QED
        BY <2>3, <4>1, <4>3, <4>4
    <3>. QED
      BY <2>3, <3>2, Zenon DEF Faithful
  <2>5. ~unclean' => Reaches(d)'
    <3>1. HAVE ~unclean'
    <3>2. recs' = recs /\ (phase = "closing" \/ ~unclean)
      BY <3>1, CleanCrash
    <3>3. Reaches(d)
      BY <2>1, <3>2, Zenon DEF Whole, Attaches
    <3>. QED
      BY <3>2, <3>3 DEF Reaches, MainTail
  <2>. QED
    BY <2>4, <2>5
<1>. QED
  BY <1>4, <1>5, <1>6 DEF Whole

\* No flush is in progress while the store is not open.
LEMMA NoneFlushes ==
  ASSUME Base, phase \notin {"open", "closing"}, UNCHANGED job, NEW q \in Proc
  PROVE  Closing(q, job[q], pc[q])' /\ Forking(q, job[q], pc[q])'
<1>1. job'[q] = NoJob
  BY DEF Base, Flushing
<1>2. NoJob.then = "return" /\ NoJob.ok
  BY DEF NoJob, Flush
<1>. QED
  BY <1>1, <1>2, Zenon DEF Closing, Forking

\* OpenStore, around the repair.
LEMMA OpenWhole ==
  ASSUME Base, Base', Whole, UNCHANGED <<kind, faults>>, Open \/ RepairDone \/ MarkUnclean
  PROVE  Whole'
<1>1. UNCHANGED <<kind, faults, recs, disk, synced, trimmed, child, inherited, job>> /\ phase \in {"down", "repair", "mark"}
  BY DEF Open, RepairDone, MarkUnclean, files
<1>2. \A q \in Proc : Closing(q, job[q], pc[q])' /\ Forking(q, job[q], pc[q])'
  BY <1>1, NoneFlushes
<1>3. \A c \in Chan : Safe(c)' = Safe(c)
  BY <1>1 DEF Safe
<1>4. phase' \in {"open", "closing", "repair"} => unclean'
  BY Zenon DEF Open, RepairDone, MarkUnclean, Whole, Durable
<1>5. Durable'
  BY <1>1, <1>2, <1>3, <1>4 DEF Whole, Durable
<1>6. Inherits'
  BY <1>1, <1>2, <1>3, Zenon DEF Whole, Inherits
<1>7. ASSUME child = NoChild, NEW c \in Keyed
      PROVE  /\ Faithful(c)
             /\ phase' \in {"open", "closing", "mark"} \/ ~unclean' => Reaches(c)
             /\ phase' = "repair" /\ c \notin todo' => Reaches(c)
  <2>1. /\ Faithful(c)
        /\ phase \in {"open", "closing", "mark"} \/ ~unclean => Reaches(c)
        /\ phase = "repair" /\ c \notin todo => Reaches(c)
    BY <1>7 DEF Whole, Attaches
  <2>2. c \in Related
    BY DEF Keyed
  <2>3. CASE Open
    BY <2>1, <2>2, <2>3 DEF Open
  <2>4. CASE RepairDone
    BY <2>1, <2>4 DEF RepairDone
  <2>5. CASE MarkUnclean
    BY <2>1, <2>5, Zenon DEF MarkUnclean
  <2>. QED
    BY <2>3, <2>4, <2>5
<1>8. Attaches'
  BY <1>1, <1>7 DEF Attaches, Keyed, Faithful, Reaches, MainTail
<1>. QED
  BY <1>5, <1>6, <1>8 DEF Whole

\* repairCoherentCuts: what it leaves of a channel, main's tail covers.
LEMMA RepairWhole ==
  ASSUME Base, Base', Whole, UNCHANGED <<kind, faults>>, NEW c \in Related, RepairChannel(c)
  PROVE  Whole'
<1>1. /\ UNCHANGED <<kind, faults, unclean, phase, child, inherited, job>> /\ phase = "repair" /\ todo' = todo \ {c}
  BY DEF RepairChannel
<1>2. \A q \in Proc : Closing(q, job[q], pc[q])' /\ Forking(q, job[q], pc[q])'
  BY <1>1, NoneFlushes, Zenon
<1>3. c \in Chan /\ Main \in Chan /\ c # Main /\ recs[c] \in Seq(Rec) /\ Len(recs[c]) \in Nat /\ disk[Main] = MainTail
      /\ MainTail \in Nat
  BY <1>1, ChanIs DEF Base, TypeOK, MainTail
<1>4. \A i \in 1..Len(recs[c]) : recs[c][i].m \in Nat
  <2>1. \A i \in 1..Len(recs[c]) : recs[c][i] \in Rec
    BY <1>3
  <2>. QED
    BY <2>1 DEF Rec
<1>5. ASSUME child = NoChild, NEW k \in Nat, Repaired(c, k)
      PROVE  Whole'
  <2>1. /\ k \in 0..Len(recs[c]) /\ CutTo(c, k) /\ recs' = [recs EXCEPT ![c] = recs'[c]]
        /\ (k > 0 => recs[c][k].m <= MainTail + Slack(c))
        /\ disk' = [disk EXCEPT ![c] = k] /\ synced' = [synced EXCEPT ![c] = k] /\ trimmed' = [trimmed EXCEPT ![c] = k]
    BY <1>3, <1>5 DEF Repaired
  <2>2. /\ recs \in [Chan -> Seq(Rec)] /\ disk \in [Chan -> Nat] /\ synced \in [Chan -> Nat]
        /\ trimmed \in [Chan -> Nat]
    BY DEF Base, TypeOK
  <2>3. ASSUME NEW d \in Chan
        PROVE  trimmed'[d] <= Safe(d)' /\ Safe(d)' = Len(recs'[d])
    <3>1. CASE d = c
      BY <1>1, <2>1, <2>2, <3>1 DEF Safe, CutTo
    <3>2. CASE d # c
      <4>1. trimmed[d] <= Safe(d) /\ Safe(d) = Len(recs[d])
        BY <1>1, Zenon DEF Whole, Durable
      <4>. QED
        BY <1>1, <2>1, <2>2, <3>2, <4>1 DEF Safe
    <3>. QED
      BY <3>1, <3>2
  <2>4. Durable'
    BY <1>1, <1>2, <2>3, Zenon DEF Whole, Durable
  <2>5. Inherits'
    BY <1>1, <1>2, <1>5, Zenon DEF Inherits
  <2>6. recs'[Main] = recs[Main] /\ MainTail' = MainTail
    BY <1>3, <2>1, <2>2 DEF MainTail
  <2>7. ASSUME NEW d \in Keyed
        PROVE  Faithful(d)' /\ (~unclean => Reaches(d)') /\ (d \notin todo' => Reaches(d)')
    <3>1. /\ d \in Chan /\ d \in Related /\ Faithful(d) /\ (~unclean => Reaches(d)) /\ (d \notin todo => Reaches(d))
      BY <1>1, <1>5, ChanIs, Zenon DEF Keyed, Whole, Attaches
    <3>2. CASE d # c
      <4>1. recs'[d] = recs[d]
        BY <2>1, <2>2, <3>1, <3>2
      <4>. QED
        BY <1>1, <2>6, <3>1, <3>2, <4>1, Zenon DEF Faithful, Reaches
    <3>3. CASE d = c
      <4>1. Len(recs'[c]) = k /\ \A i \in 1..k : recs'[c][i] = recs[c][i] /\ i \in 1..Len(recs[c])
        BY <1>3, <2>1 DEF CutTo
      <4>2. Faithful(d)'
        BY <2>6, <3>1, <3>3, <4>1 DEF Faithful
      <4>3. \A i \in 1..k : recs[c][i].m <= MainTail
        <5>1. TAKE i \in 1..k
        <5>2. k \in 1..Len(recs[c]) /\ i \in 1..Len(recs[c]) /\ i <= k
          BY <1>3, <2>1
        <5>3. recs[c][i].m <= recs[c][k].m
          BY <5>2, Zenon DEF Base, Sorted
        <5>4. recs[c][k].m <= MainTail
          BY <1>3, <1>4, <2>1, <3>3, <5>2, SlackIs
        <5>. QED
          BY <1>3, <1>4, <5>2, <5>3, <5>4
      <4>4. Reaches(d)'
        BY <2>6, <3>3, <4>1, <4>3 DEF Reaches
      <4>. QED
        BY <4>2, <4>4, Zenon
    <3>. QED
      BY <3>2, <3>3
  <2>8. Attaches'
    BY <1>1, <2>7 DEF Attaches, Keyed
  <2>. QED
    BY <2>4, <2>5, <2>8 DEF Whole
<1>6. ASSUME UNCHANGED <<recs, files>>, child = NoChild => Len(recs[c]) <= Kept(c)
      PROVE  Whole'
  <2>1. UNCHANGED <<recs, disk, synced, trimmed>>
    BY <1>6 DEF files
  <2>2. \A d \in Chan : Safe(d)' = Safe(d)
    BY <1>1, <2>1, Zenon DEF Safe
  <2>3. Durable'
    BY <1>1, <1>2, <2>1, <2>2, Zenon DEF Whole, Durable
  <2>4. Inherits'
    BY <1>1, <1>2, <2>1, <2>2 DEF Whole, Inherits
  <2>5. ASSUME child = NoChild, NEW d \in Keyed
        PROVE  Faithful(d) /\ (~unclean => Reaches(d)) /\ (d \notin todo' => Reaches(d))
    <3>1. Faithful(d) /\ (~unclean => Reaches(d)) /\ (d \notin todo => Reaches(d))
      BY <1>1, <2>5 DEF Whole, Attaches
    <3>2. CASE d # c
      BY <1>1, <3>1, <3>2, Zenon
    <3>3. CASE d = c
      <4>1. PICK k \in Nat : k = Kept(c) /\ k <= Len(recs[c]) /\ (k > 0 => recs[c][k].m <= disk[Main] + Slack(c))
        BY <1>3, KeptIs, Zenon DEF Base
      <4>2. k = Len(recs[c]) /\ Slack(c) = 0
        BY <1>3, <1>6, <2>5, <3>3, <4>1, SlackIs
      <4>3. \A i \in 1..Len(recs[c]) : recs[c][i].m <= MainTail
        <5>1. TAKE i \in 1..Len(recs[c])
        <5>2. k \in 1..Len(recs[c]) /\ i <= k /\ k > 0
          BY <1>3, <4>2
        <5>3. recs[c][i].m <= recs[c][k].m
          BY <5>2 DEF Base, Sorted
        <5>. QED
          BY <1>3, <1>4, <4>1, <4>2, <5>2, <5>3
      <4>. QED
        BY <3>1, <3>3, <4>3 DEF Reaches
    <3>. QED
      BY <3>2, <3>3
  <2>6. Attaches'
    BY <1>1, <2>1, <2>5, Zenon DEF Attaches, Keyed, Faithful, Reaches, MainTail
  <2>. QED
    BY <2>3, <2>4, <2>6 DEF Whole
<1>. QED
  BY <1>5, <1>6, RepairIs, Zenon DEF Base

-----------------------------------------------------------------------------
\* A new store.
LEMMA WholeStarts ==
  ASSUME PowerAlone, Init
  PROVE  Whole
<1>1. "power" \in faults => faults = {"power"}
  BY DEF PowerAlone, Init
<1>2. \A c \in Chan : trimmed[c] <= Safe(c)
  BY DEF Init, Safe
<1>3. ASSUME NEW q \in Proc
      PROVE  Closing(q, job[q], pc[q]) /\ Forking(q, job[q], pc[q])
  <2>1. job[q] = NoJob /\ NoJob.then = "return" /\ NoJob.ok
    BY DEF Init, NoJob, Flush
  <2>. QED
    BY <2>1, Zenon DEF Closing, Forking
<1>4. Durable
  BY <1>1, <1>2, <1>3 DEF Init, Durable
<1>5. Inherits
  BY <1>3, Zenon DEF Init, Inherits
<1>6. Attaches
  BY ChanIs DEF Init, Attaches, Keyed, Faithful, Reaches
<1>. QED
  BY <1>4, <1>5, <1>6 DEF Whole

\* Every step keeps the whole of the invariant.
LEMMA WholeStep ==
  ASSUME Base, Base', Whole, [Next]_vars
  PROVE  Whole'
<1>1. CASE UNCHANGED vars
  <2>1. /\ UNCHANGED <<kind, faults, recs, disk, synced, trimmed, unclean, phase, todo, child, inherited, writer, pc, job>>
    BY <1>1, Zenon DEF vars, files
  <2>2. Durable'
    BY <2>1 DEF Whole, Durable, Safe, Closing
  <2>3. Inherits'
    BY <2>1, Zenon DEF Whole, Inherits, Safe, Forking, Covered, MainTail
  <2>4. Attaches'
    BY <2>1, Zenon DEF Whole, Attaches, Keyed, Faithful, Reaches, MainTail
  <2>. QED
    BY <2>2, <2>3, <2>4 DEF Whole
<1>2. CASE Next
  <2>0. UNCHANGED <<kind, faults>>
    BY <1>2 DEF Next
  <2>1. ASSUME NEW p \in Proc, Call(p)
        PROVE  Whole'
    <3>1. CASE \/ AppendMain(p)
               \/ \E c \in Keyed \cup Reducible, m \in 1..(MainTail + MaxAhead) : AppendKeyed(p, c, m)
               \/ \E c \in Unkeyed : AppendUnkeyed(p, c)
      BY <2>0, <3>1, AppendWhole
    <3>2. CASE BeginSteps(p)
      BY <2>0, <3>2, FlushWhole, ForkWhole, Zenon DEF FlushSteps
    <3>. QED
      BY <2>1, <3>1, <3>2, Zenon DEF Call, BeginSteps
  <2>2. ASSUME NEW n \in [Chan -> 0..MaxBorn], Kill \/ (\E p \in Proc : ClearUnclean(p)) \/ PowerLoss(n)
        PROVE  Whole'
    BY <2>0, <2>2, CrashIsDown, CrashWhole
  <2>3. PICK z : z = [c \in Chan |-> 0]
    BY Zenon
  <2>4. z \in [Chan -> 0..MaxBorn]
    BY <2>3, LimitAssumption
  <2>5. ASSUME NEW p \in Proc, Work(p) \/ Fail(p)
        PROVE  Whole'
    <3>1. CASE ClearUnclean(p)
      BY <2>2, <2>4, <3>1
    <3>2. CASE FlushSteps(p)
      BY <2>0, <3>2, FlushWhole, ForkWhole, Zenon
    <3>. QED
      BY <2>5, <3>1, <3>2, Zenon DEF Work, FlushSteps
  <2>6. CASE Open \/ RepairDone \/ MarkUnclean
    BY <2>0, <2>6, OpenWhole
  <2>7. CASE \E c \in Related : RepairChannel(c)
    BY <2>0, <2>7, RepairWhole
  <2>. QED
    BY <1>2, <2>1, <2>2, <2>4, <2>5, <2>6, <2>7 DEF Next
<1>. QED
  BY <1>1, <1>2

\* The whole invariant of a lineage, with the crashes that leave what is on
\* disk and those that leave what is fsynced in different histories.
THEOREM LineageInvariant ==
  ASSUME PowerAlone
  PROVE  Spec => [](Base /\ Whole)
<1>1. Init => Base /\ Whole
  BY BaseStarts, WholeStarts
<1>2. Base /\ Whole /\ [Next]_vars => Base' /\ Whole'
  BY BaseStep, WholeStep
<1>. QED
  BY <1>1, <1>2, PTL DEF Spec

\* A related record never outlives the main record it references, nor comes to
\* reference another, in a node without children.
THEOREM RefsStayAttached ==
  ASSUME PowerAlone
  PROVE  Spec => []RefsAttachedLeaf
<1>1. ASSUME Base, Whole
      PROVE  RefsAttachedLeaf
  <2>. SUFFICES ASSUME child = NoChild, phase = "open", NEW c \in Keyed PROVE Attached(c)
    BY DEF RefsAttachedLeaf, RefsAttached
  <2>1. Faithful(c) /\ Reaches(c)
    BY <1>1 DEF Whole, Attaches
  <2>2. DOMAIN recs[c] = 1..Len(recs[c])
    <3>1. recs[c] \in Seq(Rec)
      BY <1>1, ChanIs DEF Keyed, Base, TypeOK
    <3>. QED
      BY <3>1
  <2>. QED
    BY <2>1, <2>2 DEF Attached, Faithful, Reaches
<1>. QED
  BY <1>1, LineageInvariant, PTL

\* What a child inherited stays in the parent's files, record for record,
\* through every later flush, crash, repair and append.
THEOREM InheritedStaysIntact ==
  ASSUME PowerAlone
  PROVE  Spec => []InheritedIntact
<1>1. ASSUME Base, Whole
      PROVE  InheritedIntact
  <2>. SUFFICES ASSUME child # NoChild, NEW c \in Chan
                PROVE  Len(recs[c]) >= child[c] - 1 /\ Ids(Prefix(recs[c], child[c] - 1)) = inherited[c]
    BY Zenon DEF InheritedIntact
  <2>1. /\ child[c] \in Nat \ {0} /\ child[c] - 1 <= Safe(c)
        /\ inherited[c] = [i \in 1..(child[c] - 1) |-> recs[c][i].id]
    BY <1>1, Zenon DEF Whole, Inherits
  <2>2. /\ recs[c] \in Seq(Rec) /\ Len(recs[c]) \in Nat /\ Safe(c) \in Nat /\ Safe(c) <= Len(recs[c])
    BY <1>1 DEF Base, TypeOK, Ordered, Safe
  <2>3. PICK n : n = child[c] - 1
    BY Zenon
  <2>4. n \in 0..Len(recs[c]) /\ Len(recs[c]) >= n
    BY <2>1, <2>2, <2>3
  <2>5. Ids(Prefix(recs[c], n)) = [i \in 1..n |-> recs[c][i].id]
    BY <2>2, <2>4, IdsIs, Zenon
  <2>. QED
    BY <2>1, <2>3, <2>4, <2>5, Zenon
<1>. QED
  BY <1>1, LineageInvariant, PTL

\* A close that clears .unclean, and any crash of a store that is marked clean,
\* loses no record.
THEOREM CloseLosesNothingAlways ==
  ASSUME PowerAlone
  PROVE  Spec => CloseLosesNothing
<1>. DEFINE Step == phase' = "down" /\ ~unclean' => recs' = recs
<1>1. ASSUME Base, Whole, [Next]_vars
      PROVE  Step
  <2>. SUFFICES ASSUME phase' = "down", ~unclean' PROVE recs' = recs
    OBVIOUS
  <2>1. CASE UNCHANGED vars
    BY <2>1 DEF vars
  <2>2. CASE Next
    <3>1. Base'
      BY <1>1, BaseStep
    <3>2. UNCHANGED <<kind, faults>>
      BY <2>2 DEF Next
    <3>3. CASE UNCHANGED recs
      BY <3>3
    <3>4. ASSUME NEW p \in Proc, NEW c \in Chan, Appended(p, c)
          PROVE  FALSE
      BY <3>4 DEF Appended, Free
    <3>5. ASSUME NEW k, Crash(k)
          PROVE  recs' = recs
      BY <1>1, <3>1, <3>2, <3>5, CleanCrash
    <3>6. ASSUME NEW c \in Related, RepairChannel(c)
          PROVE  FALSE
      BY <3>6 DEF RepairChannel
    <3>. QED
      BY <1>1, <2>2, <3>3, <3>4, <3>5, <3>6, StepIs
  <2>. QED
    BY <1>1, <2>1, <2>2
<1>2. Base /\ Whole /\ [Next]_vars => Step
  BY <1>1
<1>. QED
  BY <1>2, LineageInvariant, PTL DEF Spec, CloseLosesNothing
=============================================================================
