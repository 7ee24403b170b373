------------------------- MODULE LineageFlushProofs ------------------------
(***************************************************************************)
(* Proofs about Lineage for any channels, kinds, goroutines and bounds.    *)
(* This module has the base invariant, what the operators of the model     *)
(* return, and that no step of a flush breaks the invariant.  The counts   *)
(* of a channel are ordered, a flush in progress belongs to the goroutine  *)
(* that holds fmu, and the records of a channel are in the order of their  *)
(* keys, so that a cut is a prefix.                                        *)
(***************************************************************************)
EXTENDS Lineage, TLAPS

Rec == [m : Nat, cur : [Related -> Nat], id : Nat, ref : Nat]
Job == [left : SUBSET Chan, cut : BOOLEAN, tail : Nat, chan : Chan, goal : Nat, limit : Nat,
        then : {"return", "fork", "drain", "clear"}, at : Nat, ok : BOOLEAN]

TypeOK ==
  /\ kind \in [Related -> {"keyed", "reducible", "unkeyed"}]
  /\ recs \in [Chan -> Seq(Rec)]
  /\ disk \in [Chan -> Nat] /\ synced \in [Chan -> Nat] /\ trimmed \in [Chan -> Nat]
  /\ unclean \in BOOLEAN /\ phase \in {"down", "repair", "mark", "open", "closing"}
  /\ todo \subseteq Related
  /\ pc \in [Proc -> {"idle", "sync", "tail", "take", "copy"}]
  /\ job \in [Proc -> Job]
  /\ born \in Nat /\ born <= MaxBorn
  /\ fmu \in [Chan -> Proc \cup {NoProc}]

\* A channel's counts, and the order of its keys: the records keyed at or below
\* any x are the first few.
Ordered(c) ==
  /\ trimmed[c] <= disk[c] /\ synced[c] <= disk[c] /\ disk[c] <= Len(recs[c])
  /\ Len(recs[c]) <= born
Cuts(c) ==
  \A x \in Nat : \E k \in 0..Len(recs[c]) : \A i \in 1..Len(recs[c]) : recs[c][i].m <= x <=> i <= k
Sorted(c) ==
  /\ \A i, j \in 1..Len(recs[c]) : i <= j => recs[c][i].m <= recs[c][j].m
  /\ Cuts(c)
  /\ c \in Unkeyed => \A i \in 1..Len(recs[c]) : recs[c][i].m = 0

\* A flush in progress: s is pc[q] and j is job[q].
Flushing(q, j, s) ==
  /\ s = "idle" => j = NoJob
  /\ s # "idle" => phase \in {"open", "closing"}
  /\ j.tail <= disk[Main]
  /\ s = "take" => j.chan # Main
  /\ s = "copy" => fmu[j.chan] = q /\ trimmed[j.chan] < j.goal
  /\ s \in {"take", "copy"} => j.goal <= Len(recs[j.chan])
  /\ s \in {"take", "copy"} /\ j.cut /\ j.chan # Main /\ j.goal > 0
       => recs[j.chan][j.goal].m <= j.tail + Slack(j.chan)

\* The base invariant.
Base ==
  /\ TypeOK
  /\ \A c \in Chan : Ordered(c)
  /\ \A c \in Related : Sorted(c)
  /\ \A q \in Proc : Flushing(q, job[q], pc[q])
  /\ phase \notin {"open", "closing"} => \A c \in Chan : disk[c] = Len(recs[c])

-----------------------------------------------------------------------------
(* Numbers and sequences.                                                   *)

\* The largest element of a set that has one.
LEMMA MaxIs ==
  ASSUME NEW S \in SUBSET Nat, NEW k \in S, \A y \in S : y <= k
  PROVE  Max(S) = k
<1>1. \E x \in S : \A y \in S : x >= y
  OBVIOUS
<1>2. Max(S) \in S /\ \A y \in S : Max(S) >= y
  BY <1>1, Zenon DEF Max
<1>3. PICK m \in Nat : m = Max(S)
  BY <1>2, Zenon
<1>4. m <= k /\ k <= m
  BY <1>2, <1>3
<1>. QED
  BY <1>3, <1>4

\* Min of two numbers.
LEMMA MinIs ==
  ASSUME NEW a \in Nat, NEW b \in Nat
  PROVE  Min({a, b}) \in Nat /\ Min({a, b}) <= a /\ Min({a, b}) <= b /\ (b <= a => Min({a, b}) = b)
<1>1. \E x \in {a, b} : \A y \in {a, b} : x <= y
  OBVIOUS
<1>2. Min({a, b}) \in {a, b} /\ \A y \in {a, b} : Min({a, b}) <= y
  BY <1>1 DEF Min
<1>. QED
  BY <1>2

\* The first n elements of a sequence.
LEMMA PrefixIs ==
  ASSUME NEW S, NEW s \in Seq(S), NEW n \in 0..Len(s)
  PROVE  /\ Prefix(s, n) \in Seq(S) /\ Len(Prefix(s, n)) = n
         /\ \A i \in 1..n : Prefix(s, n)[i] = s[i]
         /\ n = Len(s) => Prefix(s, n) = s
<1>1. Prefix(s, n) \in Seq(S) /\ Len(Prefix(s, n)) = n /\ \A i \in 1..n : Prefix(s, n)[i] = s[i]
  BY DEF Prefix
<1>2. n = Len(s) => Prefix(s, n) = s
  BY <1>1
<1>. QED
  BY <1>1, <1>2

-----------------------------------------------------------------------------
(* The operators of the model.                                              *)

\* Main is a channel, and so is every related one.
LEMMA ChanIs == Main \in Chan /\ Related \subseteq Chan /\ Main \notin Related /\ Chan \ {Main} = Related
  BY ChannelAssumption DEF Chan

\* One turn of slack, or none.
LEMMA SlackIs == \A c : Slack(c) \in Nat /\ (c \in Keyed => Slack(c) = 0)
  BY DEF Slack, Keyed, Reducible

\* The records past the first l that are keyed at or below x, and 0 for none.
Upto(c, l, x) == {0} \cup {i \in (l + 1)..Len(recs[c]) : recs[c][i].m <= x}

\* They have a last one.
LEMMA LastIs ==
  ASSUME TypeOK, NEW c \in Related, Sorted(c), NEW x \in Nat, NEW l \in Nat
  PROVE  LET S == Upto(c, l, x)
         IN  Max(S) \in S /\ Max(S) \in Nat /\ \A y \in S : y <= Max(S)
<1>. PICK S : S = Upto(c, l, x) /\ S = {0} \cup {i \in (l + 1)..Len(recs[c]) : recs[c][i].m <= x}
  BY Zenon DEF Upto
<1>. SUFFICES Max(S) \in S /\ Max(S) \in Nat /\ \A y \in S : y <= Max(S)
  BY Zenon
<1>1. Len(recs[c]) \in Nat
  BY ChanIs DEF TypeOK
<1>2. PICK k \in 0..Len(recs[c]) : \A i \in 1..Len(recs[c]) : recs[c][i].m <= x <=> i <= k
  BY Zenon DEF Sorted, Cuts
<1>3. S \in SUBSET Nat
  BY <1>1
<1>4. CASE k <= l
  <2>1. 0 \in S /\ \A y \in S : y <= 0
    BY <1>1, <1>2, <1>4
  <2>. QED
    BY <1>3, <2>1, MaxIs
<1>5. CASE k > l
  <2>1. k \in S /\ \A y \in S : y <= k
    BY <1>1, <1>2, <1>5
  <2>. QED
    BY <1>3, <2>1, MaxIs, Zenon
<1>. QED
  BY <1>1, <1>2, <1>4, <1>5

\* coherentTarget: the last pending record within the cut.
LEMMA TargetIs ==
  ASSUME TypeOK, NEW c \in Related, Sorted(c), NEW tail \in Nat
  PROVE  /\ CoherentTarget(c, tail) \in Nat /\ CoherentTarget(c, tail) <= Len(recs[c])
         /\ CoherentTarget(c, tail) > 0 => recs[c][CoherentTarget(c, tail)].m <= tail + Slack(c)
         /\ \A i \in 1..Len(recs[c]) :
              i > trimmed[c] /\ recs[c][i].m <= tail + Slack(c) => i <= CoherentTarget(c, tail)
<1>1. recs[c] \in Seq(Rec) /\ trimmed[c] \in Nat /\ Len(recs[c]) \in Nat /\ tail + Slack(c) \in Nat
  BY ChanIs, SlackIs DEF TypeOK
<1>2. PICK x \in Nat, l \in Nat : x = tail + Slack(c) /\ l = trimmed[c]
  BY <1>1
<1>3. PICK S : S = Upto(c, l, x) /\ S = {0} \cup {i \in (l + 1)..Len(recs[c]) : recs[c][i].m <= x}
  BY Zenon DEF Upto
<1>4. Max(S) \in S /\ Max(S) \in Nat /\ \A y \in S : y <= Max(S)
  BY <1>3, LastIs, Zenon
<1>5. CoherentTarget(c, tail) = Max(S)
  BY <1>2, <1>3, Zenon DEF CoherentTarget
<1>6. PICK g \in Nat : g = Max(S)
  BY <1>4, Zenon
<1>7. g <= Len(recs[c]) /\ (g > 0 => recs[c][g].m <= x)
  BY <1>1, <1>3, <1>4, <1>6
<1>8. \A i \in 1..Len(recs[c]) : i > l /\ recs[c][i].m <= x => i <= g
  BY <1>1, <1>3, <1>4, <1>6
<1>. QED
  BY <1>2, <1>5, <1>6, <1>7, <1>8, Zenon

\* trimChannelNode: the last record that main's tail on disk covers.
LEMMA KeptIs ==
  ASSUME TypeOK, NEW c \in Related, Sorted(c)
  PROVE  /\ Kept(c) \in Nat /\ Kept(c) <= Len(recs[c])
         /\ Kept(c) > 0 => recs[c][Kept(c)].m <= disk[Main] + Slack(c)
         /\ \A i \in 1..Len(recs[c]) : recs[c][i].m <= disk[Main] + Slack(c) => i <= Kept(c)
<1>1. Len(recs[c]) \in Nat /\ DOMAIN recs[c] = 1..Len(recs[c]) /\ disk[Main] + Slack(c) \in Nat
  BY ChanIs, SlackIs DEF TypeOK
<1>2. PICK x \in Nat : x = disk[Main] + Slack(c)
  BY <1>1
<1>3. PICK S : S = {0} \cup {i \in DOMAIN recs[c] : recs[c][i].m <= x}
  BY Zenon
<1>4. Max(S) \in S /\ Max(S) \in Nat /\ \A y \in S : y <= Max(S)
  <2>1. S = Upto(c, 0, x) /\ 0 \in Nat
    BY <1>1, <1>3 DEF Upto
  <2>. QED
    BY <2>1, LastIs, Zenon
<1>5. Kept(c) = Max(S)
  BY <1>2, <1>3, Zenon DEF Kept
<1>6. PICK g \in Nat : g = Max(S)
  BY <1>4, Zenon
<1>7. g <= Len(recs[c]) /\ (g > 0 => recs[c][g].m <= x)
  BY <1>1, <1>3, <1>4, <1>6
<1>8. \A i \in 1..Len(recs[c]) : recs[c][i].m <= x => i <= g
  BY <1>1, <1>3, <1>4, <1>6
<1>. QED
  BY <1>2, <1>5, <1>6, <1>7, <1>8, Zenon

-----------------------------------------------------------------------------
(* The base invariant: flushes.                                             *)

PCs == {"idle", "sync", "tail", "take", "copy"}
Data == <<kind, recs, disk, synced, trimmed, todo, born>>

\* A job that starts, aims at a channel, or is done with one.
Aimed(j, c, g) == [j EXCEPT !.chan = c, !.goal = g]
Passed(j, c) == [j EXCEPT !.left = @ \ {c}, !.chan = Main, !.goal = 0]
Tailed(j, t) == [j EXCEPT !.tail = t]
Failed(j, b, left) == [j EXCEPT !.ok = b, !.left = left]

\* The fields of a job that starts.
LEMMA FlushIs ==
  ASSUME NEW left \in SUBSET Chan, NEW cut \in BOOLEAN, NEW limit \in Nat,
         NEW then \in {"return", "fork", "drain", "clear"}, NEW a \in Nat,
         NEW j, j = Flush(left, cut, limit, then, a)
  PROVE  /\ j \in Job
         /\ j.left = left /\ j.cut = cut /\ j.limit = limit /\ j.then = then /\ j.at = a
         /\ j.tail = 0 /\ j.ok = TRUE
  BY ChanIs DEF Flush, Job

\* A job that aims at a channel.
LEMMA AimedIs ==
  ASSUME NEW j \in Job, NEW c \in Chan, NEW g \in Nat, NEW k, k = Aimed(j, c, g)
  PROVE  /\ k \in Job /\ k.chan = c /\ k.goal = g /\ k.left = j.left /\ k.cut = j.cut /\ k.tail = j.tail
         /\ k.limit = j.limit /\ k.then = j.then /\ k.at = j.at /\ k.ok = j.ok
  BY Zenon DEF Aimed, Job

\* A job that is done with a channel.
LEMMA PassedIs ==
  ASSUME NEW j \in Job, NEW c \in Chan, NEW k, k = Passed(j, c)
  PROVE  /\ k \in Job /\ k.left = j.left \ {c} /\ k.chan = Main /\ k.goal = 0 /\ k.cut = j.cut
         /\ k.tail = j.tail /\ k.limit = j.limit /\ k.then = j.then /\ k.at = j.at /\ k.ok = j.ok
<1>1. j.left \ {c} \in SUBSET Chan /\ 0 \in Nat /\ Main \in Chan
  BY ChanIs DEF Job
<1>. QED
  BY <1>1, Zenon DEF Passed, Job

\* A job that has read main's tail.
LEMMA TailedIs ==
  ASSUME NEW j \in Job, NEW t \in Nat, NEW k, k = Tailed(j, t)
  PROVE  /\ k \in Job /\ k.tail = t /\ k.chan = j.chan /\ k.goal = j.goal /\ k.left = j.left /\ k.cut = j.cut
         /\ k.limit = j.limit /\ k.then = j.then /\ k.at = j.at /\ k.ok = j.ok
  BY Zenon DEF Job, Tailed

\* A job that failed while the store closes.
LEMMA FailedIs ==
  ASSUME NEW j \in Job, NEW b \in BOOLEAN, NEW left \in SUBSET Chan,
         NEW k, k = Failed(j, b, left)
  PROVE  /\ k \in Job /\ k.ok = b /\ k.left = left /\ k.chan = j.chan /\ k.goal = j.goal /\ k.cut = j.cut
         /\ k.limit = j.limit /\ k.then = j.then /\ k.at = j.at /\ k.tail = j.tail
  BY Zenon DEF Job, Failed

\* The records and the counts of a channel.
LEMMA ChannelIs ==
  ASSUME Base, NEW c \in Chan
  PROVE  recs[c] \in Seq(Rec) /\ Len(recs[c]) \in Nat /\ disk[c] \in Nat /\ trimmed[c] \in Nat
<1>1. recs[c] \in Seq(Rec) /\ disk[c] \in Nat /\ trimmed[c] \in Nat
  BY Zenon DEF Base, TypeOK
<1>. QED
  BY <1>1

\* No flush is in progress.
LEMMA NoJobIs == NoJob \in Job /\ NoJob.then = "return" /\ NoJob.tail = 0
  BY ChanIs DEF NoJob, Flush, Job

\* A goroutine that is in a call: the store is open or closing.
LEMMA Busy ==
  ASSUME Base, NEW p \in Proc, pc[p] # "idle"
  PROVE  phase \in {"open", "closing"} /\ job[p] \in Job /\ Flushing(p, job[p], pc[p])
  BY DEF Base, TypeOK, Flushing

\* SyncThrough with its target g: the one aimed at, or the whole channel up to
\* the limit.  With nothing to flush it is done with the channel.
CaptureTo(p, c, j, g) ==
  /\ g <= Len(recs[c])
  /\ \/ pc[p] = "take" /\ c = j.chan /\ g = j.goal
     \/ pc[p] = "sync" /\ c \in j.left /\ (j.cut => c = Main) /\ g = Min({j.limit, Len(recs[c])})
  /\ \/ /\ g > trimmed[c] /\ fmu' = [fmu EXCEPT ![c] = p]
        /\ job' = [job EXCEPT ![p] = Aimed(j, c, g)] /\ pc' = [pc EXCEPT ![p] = "copy"]
     \/ /\ g <= trimmed[c] /\ fmu' = fmu
        /\ job' = [job EXCEPT ![p] = Passed(j, c)] /\ pc' = [pc EXCEPT ![p] = After(p, c)]

\* Capture is SyncThrough with some target.
LEMMA CaptureIs ==
  ASSUME Base, NEW p \in Proc, NEW c \in Chan, Capture(p, c), NEW j, j = job[p]
  PROVE  /\ fmu[c] = NoProc /\ j \in Job /\ Flushing(p, j, pc[p]) /\ phase \in {"open", "closing"}
         /\ UNCHANGED <<recs, files, unclean, phase, todo, child, inherited, writer, born>>
         /\ \E g \in Nat : CaptureTo(p, c, j, g)
<1>. DEFINE aimed == pc[p] = "take" /\ c = j.chan
            plain == pc[p] = "sync" /\ c \in j.left /\ (j.cut => c = Main)
<1>1. (aimed \/ plain) /\ fmu[c] = NoProc
  BY DEF Capture
<1>2. j \in Job /\ Flushing(p, j, pc[p]) /\ phase \in {"open", "closing"}
  BY <1>1, Busy
<1>3. UNCHANGED <<recs, files, unclean, phase, todo, child, inherited, writer, born>>
  BY DEF Capture
<1>4. PICK g : g = IF aimed THEN j.goal ELSE Min({j.limit, Len(recs[c])})
  BY Zenon
<1>5. Len(recs[c]) \in Nat /\ trimmed[c] \in Nat /\ j.limit \in Nat /\ j.goal \in Nat
  BY <1>2 DEF Base, TypeOK, Job
<1>6. g \in Nat /\ g <= Len(recs[c])
  <2>1. CASE aimed
    BY <2>1, <1>2, <1>4, <1>5 DEF Flushing
  <2>2. CASE ~aimed
    BY <2>2, <1>4, <1>5, MinIs, Zenon
  <2>. QED
    BY <2>1, <2>2
<1>7. CASE g > trimmed[c]
  <2>1. fmu' = [fmu EXCEPT ![c] = p] /\ pc' = [pc EXCEPT ![p] = "copy"]
    BY <1>4, <1>7 DEF Capture
  <2>2. job' = [job EXCEPT ![p].chan = c, ![p].goal = g]
    BY <1>4, <1>7, Zenon DEF Capture
  <2>3. job' = [job EXCEPT ![p] = Aimed(j, c, g)]
    BY <2>2, Zenon DEF Aimed, Base, TypeOK
  <2>. QED
    BY <1>1, <1>2, <1>3, <1>4, <1>6, <1>7, <2>1, <2>3, Zenon DEF CaptureTo
<1>8. CASE ~(g > trimmed[c])
  <2>0. g <= trimmed[c]
    BY <1>5, <1>6, <1>8
  <2>1. fmu' = fmu /\ pc' = [pc EXCEPT ![p] = After(p, c)]
    BY <1>4, <1>8, Zenon DEF Capture
  <2>2. job' = [job EXCEPT ![p].left = @ \ {c}, ![p].chan = Main, ![p].goal = 0]
    BY <1>4, <1>8, Zenon DEF Capture
  <2>3. job' = [job EXCEPT ![p] = Passed(j, c)]
    BY <2>2, Zenon DEF Passed, Base, TypeOK
  <2>. QED
    BY <1>1, <1>2, <1>3, <1>4, <1>6, <2>0, <2>1, <2>3, Zenon DEF CaptureTo
<1>. QED
  BY <1>7, <1>8

\* After is a step of a flush.
LEMMA AfterIs == \A p, c : After(p, c) \in {"tail", "sync"}
  BY DEF After

-----------------------------------------------------------------------------
(* The base invariant: the files.                                           *)

\* The records of c are still there, with their keys and ids.
Grows(c) ==
  /\ Len(recs[c]) <= Len(recs'[c])
  /\ \A i \in 1..Len(recs[c]) : recs'[c][i].m = recs[c][i].m /\ recs'[c][i].id = recs[c][i].id

\* What a flush in progress knows stays so while channels and files grow.
LEMMA FlushingGrows ==
  ASSUME Base, NEW q \in Proc, NEW j \in Job, NEW s, Flushing(q, j, s), UNCHANGED kind,
         recs' \in [Chan -> Seq(Rec)], disk' \in [Chan -> Nat],
         \A c \in Chan : Grows(c), disk[Main] <= disk'[Main],
         s # "idle" => phase' \in {"open", "closing"},
         s = "copy" => fmu'[j.chan] = q /\ trimmed'[j.chan] = trimmed[j.chan]
  PROVE  Flushing(q, j, s)'
<1>1. PICK c \in Chan : c = j.chan
  BY DEF Job
<1>2. j.tail \in Nat /\ j.goal \in Nat /\ disk[Main] \in Nat /\ disk'[Main] \in Nat
  BY ChanIs DEF Job, Base, TypeOK
<1>3. Len(recs[c]) \in Nat /\ Len(recs'[c]) \in Nat
  BY DEF Base, TypeOK
<1>4. s \in {"take", "copy"} => j.goal <= Len(recs'[c])
  BY <1>1, <1>2, <1>3 DEF Flushing, Grows
<1>5. s \in {"take", "copy"} /\ j.cut /\ c # Main /\ j.goal > 0 => recs'[c][j.goal].m <= j.tail + Slack(c)
  BY <1>1, <1>2, <1>3 DEF Flushing, Grows
<1>6. Slack(c)' = Slack(c)
  BY DEF Slack, Reducible
<1>7. j.tail <= disk'[Main]
  BY <1>2 DEF Flushing
<1>. QED
  BY <1>1, <1>4, <1>5, <1>6, <1>7 DEF Flushing

\* The calls that flush, and the steps of a flush.
BeginSteps(p) ==
  \/ BeginSync(p) \/ BeginEvict(p) \/ BeginClose(p)
  \/ \E c \in Chan : \E n \in 1..Len(recs[c]) : BeginSyncChannel(p, c, n)
  \/ \E at \in 0..MainTail : BeginFork(p, at)
FlushSteps(p) ==
  \/ BeginSteps(p) \/ \E c \in Chan : Aim(p, c) \/ Capture(p, c)
  \/ \E n \in 1..MaxBorn : Copy(p, n)
  \/ Fsync(p) \/ ReadTail(p) \/ Return(p) \/ ForkCommit(p) \/ CloseStore(p) \/ Fail(p)

\* Every step of a flush keeps the base invariant.
LEMMA FlushKeeps ==
  Base /\ UNCHANGED kind => \A p \in Proc : FlushSteps(p) => Base'
\* What a goroutine q that does not move knows stays so while the records and
\* the counts do.
<1>FlushingStays.
    ASSUME NEW q \in Proc, NEW j, NEW s, Flushing(q, j, s), UNCHANGED Data,
           s # "idle" => phase' \in {"open", "closing"},
           s = "copy" => fmu'[j.chan] = q
    PROVE  Flushing(q, j, s)'
    BY <1>FlushingStays DEF Data, Flushing, Slack, Reducible
\* One goroutine goes on with its flush.
<1>JobKeeps.
    ASSUME Base, UNCHANGED Data, NEW p \in Proc, NEW j \in Job, NEW s \in PCs,
           pc' = [pc EXCEPT ![p] = s], job' = [job EXCEPT ![p] = j], Flushing(p, j, s)',
           unclean' \in BOOLEAN, phase' \in {"open", "closing"},
           fmu' \in [Chan -> Proc \cup {NoProc}],
           \A q \in Proc \ {p} : pc[q] = "copy" => fmu'[job[q].chan] = q
    PROVE  Base'
  <2>. USE <1>JobKeeps
  <2>1. TypeOK'
    BY DEF Base, TypeOK, Data, PCs
  <2>2. \A c \in Chan : Ordered(c)'
    BY DEF Base, Data, Ordered
  <2>3. \A c \in Related : Sorted(c)'
    BY Zenon DEF Base, Data, Sorted, Cuts, Unkeyed
  <2>4. ASSUME NEW q \in Proc
        PROVE  Flushing(q, job[q], pc[q])'
    <3>1. CASE q = p
      BY <3>1 DEF Base, TypeOK
    <3>2. CASE q # p
      <4>1. PICK k, t : k = job[q] /\ t = pc[q]
        BY Zenon
      <4>2. Flushing(q, k, t) /\ (t = "copy" => fmu'[k.chan] = q)
        BY <3>2, <4>1 DEF Base
      <4>3. Flushing(q, k, t)'
        BY <4>2, <1>FlushingStays, Zenon
      <4>4. job'[q] = k /\ pc'[q] = t
        BY <3>2, <4>1 DEF Base, TypeOK
      <4>. QED
        BY <4>3, <4>4
    <3>. QED
      BY <3>1, <3>2
  <2>. QED
    BY <2>1, <2>2, <2>3, <2>4 DEF Base
\* Start begins a flush.
<1>StartKeeps.
    ASSUME Base, UNCHANGED Data, UNCHANGED <<unclean, fmu>>, NEW p \in Proc, pc[p] = "idle",
           NEW j \in Job, j.tail = 0, Start(p, j), phase' \in {"open", "closing"}
    PROVE  Base'
  <2>. USE <1>StartKeeps
  <2>1. Flushing(p, j, "sync")'
    BY ChanIs DEF Flushing, Base, TypeOK, Data
  <2>2. unclean' \in BOOLEAN /\ fmu' \in [Chan -> Proc \cup {NoProc}]
    BY DEF Base, TypeOK
  <2>3. \A q \in Proc \ {p} : pc[q] = "copy" => fmu'[job[q].chan] = q
    BY DEF Base, Flushing
  <2>4. pc' = [pc EXCEPT ![p] = "sync"] /\ job' = [job EXCEPT ![p] = j] /\ "sync" \in PCs
    BY DEF Start, PCs
  <2>. QED
    BY <2>1, <2>2, <2>3, <2>4, <1>JobKeeps, Zenon
\* The calls that flush.
<1>BeginKeeps.
    ASSUME Base, UNCHANGED kind, NEW p \in Proc,
           \/ BeginSync(p) \/ BeginEvict(p) \/ BeginClose(p)
           \/ \E c \in Chan : \E n \in 1..Len(recs[c]) : BeginSyncChannel(p, c, n)
           \/ \E a \in 0..MainTail : BeginFork(p, a)
    PROVE  Base'
  <2>. USE <1>BeginKeeps
  <2>0. MaxBorn \in Nat /\ MainTail \in Nat
    BY LimitAssumption, ChanIs DEF Base, TypeOK, MainTail
  <2>1. CASE BeginSync(p)
    <3>1. PICK j : j = Flush(Chan, TRUE, MaxBorn, "return", 0)
      BY Zenon
    <3>4. j \in Job /\ j.tail = 0
      BY <2>0, <3>1, ChanIs DEF Flush, Job
    <3>2. UNCHANGED Data /\ UNCHANGED <<unclean, fmu>> /\ Start(p, j) /\ phase' \in {"open", "closing"}
      BY <2>1, <3>1, Zenon DEF BeginSync, Data, files, Free
    <3>3. pc[p] = "idle"
      BY <2>1 DEF BeginSync, Free
    <3>. QED
      BY <3>2, <3>3, <3>4, <1>StartKeeps, Zenon
  <2>2. CASE BeginEvict(p)
    <3>1. PICK j : j = Flush(Chan, FALSE, MaxBorn, "return", 0)
      BY Zenon
    <3>4. j \in Job /\ j.tail = 0
      BY <2>0, <3>1, ChanIs DEF Flush, Job
    <3>2. UNCHANGED Data /\ UNCHANGED <<unclean, fmu>> /\ Start(p, j) /\ phase' \in {"open", "closing"}
      BY <2>2, <3>1, Zenon DEF BeginEvict, Data, files, Free
    <3>3. pc[p] = "idle"
      BY <2>2 DEF BeginEvict, Free
    <3>. QED
      BY <3>2, <3>3, <3>4, <1>StartKeeps, Zenon
  <2>3. CASE BeginClose(p)
    <3>1. PICK j : j = Flush(Chan, TRUE, MaxBorn, "drain", 0)
      BY Zenon
    <3>4. j \in Job /\ j.tail = 0
      BY <2>0, <3>1, ChanIs DEF Flush, Job
    <3>2. UNCHANGED Data /\ UNCHANGED <<unclean, fmu>> /\ Start(p, j) /\ phase' \in {"open", "closing"}
      BY <2>3, <3>1, Zenon DEF BeginClose, Data, files
    <3>3. pc[p] = "idle"
      BY <2>3 DEF BeginClose
    <3>. QED
      BY <3>2, <3>3, <3>4, <1>StartKeeps, Zenon
  <2>4. ASSUME NEW c \in Chan, NEW n \in 1..Len(recs[c]), BeginSyncChannel(p, c, n)
        PROVE  Base'
    <3>0. n \in Nat
      OBVIOUS
    <3>1. PICK j : j = Flush({c}, FALSE, n, "return", 0)
      BY Zenon
    <3>4. j \in Job /\ j.tail = 0
      BY <3>0, <3>1, ChanIs DEF Flush, Job
    <3>2. UNCHANGED Data /\ UNCHANGED <<unclean, fmu>> /\ Start(p, j) /\ phase' \in {"open", "closing"}
      BY <2>4, <3>1, Zenon DEF BeginSyncChannel, Data, files, Free
    <3>3. pc[p] = "idle"
      BY <2>4 DEF BeginSyncChannel, Free
    <3>. QED
      BY <3>2, <3>3, <3>4, <1>StartKeeps, Zenon
  <2>5. ASSUME NEW a \in 0..MainTail, BeginFork(p, a)
        PROVE  Base'
    <3>0. a \in Nat
      BY <2>0
    <3>1. PICK j : j = Flush(Chan, TRUE, MaxBorn, "fork", a)
      BY Zenon
    <3>4. j \in Job /\ j.tail = 0
      BY <2>0, <3>0, <3>1, ChanIs DEF Flush, Job
    <3>2. UNCHANGED Data /\ UNCHANGED <<unclean, fmu>> /\ Start(p, j) /\ phase' \in {"open", "closing"}
      BY <2>5, <3>1, Zenon DEF BeginFork, Data, files, Free
    <3>3. pc[p] = "idle"
      BY <2>5 DEF BeginFork, Free
    <3>. QED
      BY <3>2, <3>3, <3>4, <1>StartKeeps, Zenon
  <2>. QED
    BY <2>1, <2>2, <2>3, <2>4, <2>5
\* syncCoherent aims at a related channel.
<1>AimKeeps.
    ASSUME Base, UNCHANGED kind, NEW p \in Proc, NEW c \in Chan, Aim(p, c)
    PROVE  Base'
  <2>. USE <1>AimKeeps
  <2>1. PICK j \in Job : j = job[p] /\ Flushing(p, j, "sync") /\ phase \in {"open", "closing"}
    BY Busy DEF Aim
  <2>5. c # Main /\ c \in Related
    BY ChanIs DEF Aim
  <2>2. PICK g \in Nat : g = CoherentTarget(c, j.tail)
    BY <2>1, <2>5, TargetIs, ChanIs DEF Base, Job
  <2>3. g <= Len(recs[c]) /\ (g > 0 => recs[c][g].m <= j.tail + Slack(c))
    BY <2>1, <2>2, <2>5, TargetIs, Zenon DEF Base, Job
  <2>4. PICK k \in Job : k = Aimed(j, c, g) /\ k.chan = c /\ k.goal = g /\ k.tail = j.tail
    BY <2>1, <2>2, AimedIs
  <2>6. UNCHANGED Data /\ UNCHANGED <<unclean, phase, fmu>>
    BY DEF Aim, Data, files
  <2>7. Flushing(p, k, "take")'
    <3>1. Flushing(p, k, "take")
      BY <2>1, <2>3, <2>4, <2>5 DEF Flushing
    <3>. QED
      BY <2>1, <2>6, <3>1, <1>FlushingStays
  <2>8. pc' = [pc EXCEPT ![p] = "take"] /\ job' = [job EXCEPT ![p] = k] /\ "take" \in PCs
    BY <2>1, <2>2, <2>4, Zenon DEF Aim, Aimed, PCs, Base, TypeOK
  <2>9. unclean' \in BOOLEAN /\ phase' \in {"open", "closing"} /\ fmu' \in [Chan -> Proc \cup {NoProc}]
    BY <2>1, <2>6 DEF Base, TypeOK
  <2>10. \A q \in Proc \ {p} : pc[q] = "copy" => fmu'[job[q].chan] = q
    BY <2>6 DEF Base, Flushing
  <2>. QED
    BY <2>6, <2>7, <2>8, <2>9, <2>10, <1>JobKeeps, Zenon
\* A goroutine that copies is alone on its channel.
<1>CopyIsAlone.
    ASSUME Base, NEW c \in Chan, NEW q \in Proc, pc[q] = "copy", job[q].chan = c
    PROVE  fmu[c] = q /\ fmu[c] # NoProc
    BY <1>CopyIsAlone, ProcAssumption DEF Base, Flushing
\* Capture keeps the base invariant.
<1>CaptureKeeps.
    ASSUME Base, UNCHANGED kind, NEW p \in Proc, NEW c \in Chan, Capture(p, c)
    PROVE  Base'
  <2>. USE <1>CaptureKeeps
  <2>1. PICK j : j = job[p]
    BY Zenon
  <2>2. /\ fmu[c] = NoProc /\ j \in Job /\ Flushing(p, j, pc[p]) /\ phase \in {"open", "closing"}
        /\ UNCHANGED <<recs, files, unclean, phase, todo, child, inherited, writer, born>>
    BY <2>1, CaptureIs
  <2>3. PICK g \in Nat : CaptureTo(p, c, j, g)
    BY <2>1, CaptureIs, Zenon
  <2>4. UNCHANGED Data
    BY <2>2 DEF Data, files
  <2>5. unclean' \in BOOLEAN /\ phase' \in {"open", "closing"} /\ fmu' \in [Chan -> Proc \cup {NoProc}]
    BY <2>2, <2>3, Zenon DEF CaptureTo, Base, TypeOK
  <2>6. \A q \in Proc \ {p} : pc[q] = "copy" => fmu'[job[q].chan] = q
    <3>1. SUFFICES ASSUME NEW q \in Proc \ {p}, pc[q] = "copy" PROVE fmu'[job[q].chan] = q
      OBVIOUS
    <3>2. PICK d \in Chan : d = job[q].chan
      BY Zenon DEF Base, TypeOK, Job
    <3>3. fmu[d] = q /\ d # c
      BY <2>2, <3>1, <3>2, <1>CopyIsAlone, Zenon
    <3>. QED
      BY <2>3, <3>2, <3>3, Zenon DEF CaptureTo, Base, TypeOK
  <2>7. CASE g > trimmed[c]
    <3>1. PICK k \in Job : k = Aimed(j, c, g) /\ k.chan = c /\ k.goal = g /\ k.tail = j.tail /\ k.cut = j.cut
      BY <2>2, <2>3, AimedIs
    <3>2. trimmed[c] \in Nat /\ fmu' = [fmu EXCEPT ![c] = p] /\ job' = [job EXCEPT ![p] = k] /\ pc' = [pc EXCEPT ![p] = "copy"]
      BY <2>3, <2>7, <3>1 DEF CaptureTo, Base, TypeOK
    <3>3. j.cut /\ c # Main /\ g > 0 => recs[c][g].m <= j.tail + Slack(c)
      BY <2>2, <2>3 DEF CaptureTo, Flushing
    <3>4. j.tail <= disk[Main]
      BY <2>2 DEF Flushing
    <3>5. fmu'[c] = p
      BY <3>2 DEF Base, TypeOK
    <3>6. Flushing(p, k, "copy")'
      BY <2>2, <2>3, <2>4, <2>7, <3>1, <3>3, <3>4, <3>5, Zenon DEF CaptureTo, Data, Flushing, Slack, Reducible
    <3>7. "copy" \in PCs
      BY DEF PCs
    <3>. QED
      BY <2>4, <2>5, <2>6, <3>1, <3>2, <3>6, <3>7, <1>JobKeeps, Zenon
  <2>8. CASE g <= trimmed[c] /\ ~(g > trimmed[c])
    <3>1. PICK k \in Job : k = Passed(j, c) /\ k.tail = j.tail
      BY <2>2, PassedIs
    <3>2. PICK s \in {"tail", "sync"} : s = After(p, c)
      BY AfterIs
    <3>3. job' = [job EXCEPT ![p] = k] /\ pc' = [pc EXCEPT ![p] = s] /\ s \in PCs
      BY <2>3, <2>8, <3>1, <3>2 DEF CaptureTo, PCs
    <3>4. j.tail <= disk[Main]
      BY <2>2 DEF Flushing
    <3>5. Flushing(p, k, s)'
      BY <2>4, <2>5, <3>1, <3>2, <3>4 DEF Data, Flushing
    <3>. QED
      BY <2>4, <2>5, <2>6, <3>1, <3>3, <3>5, <1>JobKeeps, Zenon
  <2>9. trimmed[c] \in Nat /\ g \in Nat
    BY <2>3 DEF Base, TypeOK
  <2>. QED
    BY <2>7, <2>8, <2>9
\* mainTail is what main has on disk.
<1>ReadTailKeeps.
    ASSUME Base, UNCHANGED kind, NEW p \in Proc, ReadTail(p)
    PROVE  Base'
  <2>. USE <1>ReadTailKeeps
  <2>1. PICK j \in Job : j = job[p] /\ phase \in {"open", "closing"}
    BY Busy DEF ReadTail
  <2>2. disk[Main] \in Nat
    BY ChanIs DEF Base, TypeOK
  <2>9. PICK k : k = Tailed(j, disk[Main])
    BY Zenon
  <2>3. k \in Job /\ k.tail = disk[Main]
    BY <2>1, <2>2, <2>9, TailedIs, Zenon
  <2>4. UNCHANGED Data /\ UNCHANGED <<unclean, phase, fmu>>
    BY DEF ReadTail, Data, files
  <2>5. Flushing(p, k, "sync")'
    BY <2>1, <2>2, <2>3, <2>4 DEF Data, Flushing
  <2>6. pc' = [pc EXCEPT ![p] = "sync"] /\ job' = [job EXCEPT ![p] = k] /\ "sync" \in PCs
    BY <2>1, <2>9, Zenon DEF ReadTail, PCs, Base, TypeOK, Tailed
  <2>7. unclean' \in BOOLEAN /\ phase' \in {"open", "closing"} /\ fmu' \in [Chan -> Proc \cup {NoProc}]
    BY <2>1, <2>4 DEF Base, TypeOK
  <2>8. \A q \in Proc \ {p} : pc[q] = "copy" => fmu'[job[q].chan] = q
    BY <2>4 DEF Base, Flushing
  <2>. QED
    BY <2>3, <2>4, <2>5, <2>6, <2>7, <2>8, <1>JobKeeps, Zenon
\* A call returns.
<1>IdleKeeps.
    ASSUME Base, UNCHANGED Data, UNCHANGED <<unclean, phase>>, NEW p \in Proc, pc[p] # "idle",
           pc' = [pc EXCEPT ![p] = "idle"], job' = [job EXCEPT ![p] = NoJob],
           fmu' \in [Chan -> Proc \cup {NoProc}],
           \A q \in Proc \ {p} : pc[q] = "copy" => fmu'[job[q].chan] = q
    PROVE  Base'
  <2>. USE <1>IdleKeeps
  <2>1. Flushing(p, NoJob, "idle")'
    BY NoJobIs, ChanIs DEF Data, Flushing, Base, TypeOK
  <2>2. unclean' \in BOOLEAN /\ phase' \in {"open", "closing"} /\ "idle" \in PCs
    BY Busy DEF Base, TypeOK, PCs
  <2>. QED
    BY <2>1, <2>2, NoJobIs, <1>JobKeeps, Zenon
\* A flush that is over, with or without a fork.
<1>ReturnKeeps.
    ASSUME Base, UNCHANGED kind, NEW p \in Proc, Return(p) \/ ForkCommit(p)
    PROVE  Base'
  <2>. USE <1>ReturnKeeps
  <2>1. /\ pc[p] # "idle" /\ pc' = [pc EXCEPT ![p] = "idle"] /\ job' = [job EXCEPT ![p] = NoJob]
        /\ UNCHANGED Data /\ UNCHANGED <<unclean, phase, fmu>>
    BY Zenon DEF Return, ForkCommit, Finished, Data, files
  <2>2. fmu' \in [Chan -> Proc \cup {NoProc}] /\ \A q \in Proc \ {p} : pc[q] = "copy" => fmu'[job[q].chan] = q
    BY <2>1 DEF Base, TypeOK, Flushing
  <2>. QED
    BY <2>1, <2>2, <1>IdleKeeps, Zenon
\* The last pass of a close.
<1>CloseStoreKeeps.
    ASSUME Base, UNCHANGED kind, NEW p \in Proc, CloseStore(p)
    PROVE  Base'
  <2>. USE <1>CloseStoreKeeps
  <2>1. PICK j : j = Flush(Chan, FALSE, MaxBorn, "clear", 0)
    BY Zenon
  <2>2. j \in Job /\ j.tail = 0
    BY <2>1, ChanIs, LimitAssumption DEF Flush, Job
  <2>3. /\ pc[p] = "sync" /\ job' = [job EXCEPT ![p] = j] /\ pc' = pc
        /\ UNCHANGED Data /\ UNCHANGED <<unclean, phase, fmu>>
    BY <2>1 DEF CloseStore, Finished, Data, files
  <2>4. pc' = [pc EXCEPT ![p] = "sync"] /\ "sync" \in PCs
    BY <2>3 DEF Base, TypeOK, PCs
  <2>5. unclean' \in BOOLEAN /\ phase' \in {"open", "closing"} /\ fmu' \in [Chan -> Proc \cup {NoProc}]
    BY <2>3, Busy, Zenon DEF Base, TypeOK
  <2>6. \A q \in Proc \ {p} : pc[q] = "copy" => fmu'[job[q].chan] = q
    BY <2>3 DEF Base, Flushing
  <2>7. Flushing(p, j, "sync")'
    <3>1. disk' = disk /\ disk[Main] \in Nat /\ phase' \in {"open", "closing"}
      BY <2>3, <2>5, ChanIs DEF Data, Base, TypeOK
    <3>. QED
      BY <2>2, <3>1 DEF Flushing
  <2>. QED
    BY <2>2, <2>3, <2>4, <2>5, <2>6, <2>7, <1>JobKeeps, Zenon
\* Whoever lets fmu go held it: nobody else copies that channel.
<1>ReleaseFmu.
    ASSUME Base, NEW p \in Proc, pc[p] = "copy", fmu' = [fmu EXCEPT ![job[p].chan] = NoProc]
    PROVE  /\ fmu' \in [Chan -> Proc \cup {NoProc}]
           /\ \A q \in Proc \ {p} : pc[q] = "copy" => fmu'[job[q].chan] = q /\ job[q].chan # job[p].chan
  <2>. USE <1>ReleaseFmu
  <2>1. PICK c \in Chan : c = job[p].chan /\ fmu[c] = p
    BY <1>CopyIsAlone, Zenon DEF Base, TypeOK, Job
  <2>2. fmu \in [Chan -> Proc \cup {NoProc}] /\ fmu' = [fmu EXCEPT ![c] = NoProc]
    BY <2>1 DEF Base, TypeOK
  <2>3. ASSUME NEW q \in Proc \ {p}, pc[q] = "copy"
        PROVE  fmu'[job[q].chan] = q /\ job[q].chan # job[p].chan
    <3>1. PICK d \in Chan : d = job[q].chan /\ fmu[d] = q
      BY <2>3, <1>CopyIsAlone, Zenon DEF Base, TypeOK, Job
    <3>. QED
      BY <2>1, <2>2, <3>1
  <2>. QED
    BY <2>2, <2>3, Zenon
\* A write or an fsync fails.
<1>FailKeeps.
    ASSUME Base, UNCHANGED kind, NEW p \in Proc, Fail(p)
    PROVE  Base'
  <2>. USE <1>FailKeeps
  <2>1. /\ pc[p] = "copy" /\ fmu' = [fmu EXCEPT ![job[p].chan] = NoProc]
        /\ UNCHANGED Data /\ UNCHANGED <<unclean, phase>>
    BY DEF Fail, Data, files
  <2>2. /\ fmu' \in [Chan -> Proc \cup {NoProc}]
        /\ \A q \in Proc \ {p} : pc[q] = "copy" => fmu'[job[q].chan] = q
    BY <2>1, <1>ReleaseFmu, Zenon
  <2>3. CASE phase # "closing"
    <3>1. pc' = [pc EXCEPT ![p] = "idle"] /\ job' = [job EXCEPT ![p] = NoJob]
      BY <2>3 DEF Fail
    <3>2. pc[p] # "idle"
      BY <2>1
    <3>. QED
      BY <2>1, <2>2, <3>1, <3>2, <1>IdleKeeps, Zenon
  <2>4. CASE phase = "closing"
    <3>1. PICK j \in Job : j = job[p] /\ Flushing(p, j, "copy")
      BY <2>1, Busy
    <3>2. PICK b \in BOOLEAN, left \in SUBSET Chan :
             /\ b = (j.then = "drain")
             /\ left = IF j.then = "drain" THEN {} ELSE j.left \ {j.chan}
      BY <3>1, Zenon DEF Job
    <3>9. PICK k : k = Failed(j, b, left)
      BY Zenon
    <3>3. k \in Job /\ k.tail = j.tail
      BY <3>9, FailedIs
    <3>4. job' = [job EXCEPT ![p].ok = b, ![p].left = left]
      BY <2>4, <3>1, <3>2, Zenon DEF Fail
    <3>5. job' = [job EXCEPT ![p] = k]
      BY <3>1, <3>4, <3>9, Zenon DEF Base, TypeOK, Failed
    <3>6. pc' = [pc EXCEPT ![p] = "sync"] /\ "sync" \in PCs
      BY <2>4 DEF Fail, PCs
    <3>7. Flushing(p, k, "sync")'
      BY <2>1, <2>4, <3>1, <3>3 DEF Data, Flushing
    <3>8. unclean' \in BOOLEAN /\ phase' \in {"open", "closing"}
      BY <2>1, <2>4 DEF Base, TypeOK
    <3>. QED
      BY <2>1, <2>2, <3>3, <3>5, <3>6, <3>7, <3>8, <1>JobKeeps, Zenon
  <2>. QED
    BY <2>3, <2>4
\* The records did not change.
<1>SameGrows. recs \in [Chan -> Seq(Rec)] /\ UNCHANGED recs => \A c \in Chan : Grows(c)
    BY DEF Grows
\* inner.Write.
<1>CopyKeeps.
    ASSUME Base, UNCHANGED kind, NEW p \in Proc, NEW n \in 1..MaxBorn, Copy(p, n)
    PROVE  Base'
  <2>. USE <1>CopyKeeps
  <2>1. PICK j \in Job : j = job[p] /\ Flushing(p, j, "copy") /\ phase \in {"open", "closing"}
    BY Busy DEF Copy
  <2>2. PICK c \in Chan : c = j.chan
    BY <2>1 DEF Job
  <2>3. n \in (disk[c] + 1)..j.goal /\ disk' = [disk EXCEPT ![c] = n]
    BY <2>1, <2>2, Zenon DEF Copy
  <2>4. UNCHANGED <<recs, synced, trimmed, unclean, phase, todo, fmu, pc, job, born>>
    BY DEF Copy
  <2>5. j.goal \in Nat /\ disk[c] \in Nat /\ j.goal <= Len(recs[c]) /\ Len(recs[c]) \in Nat
    BY <2>1, <2>2 DEF Flushing, Job, Base, TypeOK
  <2>6. n \in Nat /\ disk[c] <= n /\ n <= Len(recs[c])
    BY <2>3, <2>5, LimitAssumption
  <2>7. TypeOK'
    BY <2>3, <2>4, <2>6, Zenon DEF Base, TypeOK
  <2>8. ASSUME NEW d \in Chan
        PROVE  Ordered(d)' /\ disk[d] <= disk'[d]
    <3>1. Ordered(d) /\ disk \in [Chan -> Nat] /\ trimmed[d] \in Nat /\ synced[d] \in Nat
      BY DEF Base, TypeOK
    <3>. QED
      BY <2>3, <2>4, <2>6, <3>1 DEF Ordered
  <2>9. \A d \in Related : Sorted(d)'
    BY <2>4, Zenon DEF Base, Sorted, Cuts, Unkeyed
  <2>10. ASSUME NEW q \in Proc
         PROVE  Flushing(q, job[q], pc[q])'
    <3>1. PICK k \in Job, s \in PCs : k = job[q] /\ s = pc[q] /\ Flushing(q, k, s)
      BY Zenon DEF Base, TypeOK, PCs
    <3>2. recs' \in [Chan -> Seq(Rec)] /\ disk' \in [Chan -> Nat] /\ \A d \in Chan : Grows(d)
      BY <2>4, <2>7, <1>SameGrows DEF TypeOK
    <3>3. disk[Main] <= disk'[Main]
      BY <2>8, ChanIs
    <3>4. /\ s # "idle" => phase' \in {"open", "closing"}
          /\ s = "copy" => fmu'[k.chan] = q /\ trimmed'[k.chan] = trimmed[k.chan]
      BY <2>1, <2>4, <3>1 DEF Flushing
    <3>5. Flushing(q, k, s)'
      BY <3>1, <3>2, <3>3, <3>4, FlushingGrows, Zenon
    <3>. QED
      BY <2>4, <3>1, <3>5
  <2>. QED
    BY <2>1, <2>4, <2>7, <2>8, <2>9, <2>10 DEF Base
\* inner.Sync, and the trim.
<1>FsyncKeeps.
    ASSUME Base, UNCHANGED kind, NEW p \in Proc, Fsync(p)
    PROVE  Base'
  <2>. USE <1>FsyncKeeps
  <2>1. PICK j \in Job : j = job[p] /\ Flushing(p, j, "copy") /\ phase \in {"open", "closing"}
    BY Busy DEF Fsync
  <2>2. PICK c \in Chan : c = j.chan
    BY <2>1 DEF Job
  <2>3. /\ j.goal <= disk[c] /\ synced' = [synced EXCEPT ![c] = disk[c]]
        /\ trimmed' = [trimmed EXCEPT ![c] = j.goal] /\ fmu' = [fmu EXCEPT ![c] = NoProc]
        /\ pc[p] = "copy"
    BY <2>1, <2>2 DEF Fsync, Job, Base, TypeOK
  <2>4. UNCHANGED <<recs, disk, unclean, phase, todo, born>>
    BY DEF Fsync
  <2>5. j.goal \in Nat /\ disk[c] \in Nat
    BY <2>1, <2>2 DEF Job, Base, TypeOK
  <2>6. PICK k \in Job : k = Passed(j, c) /\ k.tail = j.tail
    BY <2>1, PassedIs
  <2>7. PICK s \in {"tail", "sync"} : s = After(p, c)
    BY AfterIs
  <2>8. job' = [job EXCEPT ![p] = k] /\ pc' = [pc EXCEPT ![p] = s]
    <3>1. job' = [job EXCEPT ![p].left = @ \ {c}, ![p].chan = Main, ![p].goal = 0] /\ pc' = [pc EXCEPT ![p] = After(p, c)]
      BY <2>1, <2>2, Zenon DEF Fsync
    <3>. QED
      BY <2>1, <2>6, <2>7, <3>1, Zenon DEF Passed, Base, TypeOK
  <2>9. TypeOK'
    BY <2>3, <2>4, <2>5, <2>6, <2>7, <2>8 DEF Base, TypeOK
  <2>10. ASSUME NEW d \in Chan
         PROVE  Ordered(d)'
    <3>1. Ordered(d) /\ disk[d] \in Nat /\ trimmed \in [Chan -> Nat] /\ synced \in [Chan -> Nat]
      BY DEF Base, TypeOK
    <3>. QED
      BY <2>3, <2>4, <2>5, <3>1 DEF Ordered
  <2>11. \A d \in Related : Sorted(d)'
    BY <2>4, Zenon DEF Base, Sorted, Cuts, Unkeyed
  <2>12. ASSUME NEW q \in Proc
         PROVE  Flushing(q, job[q], pc[q])'
    <3>1. CASE q = p
      <4>1. Flushing(p, k, s)'
        BY <2>1, <2>4, <2>6, <2>7 DEF Flushing
      <4>2. job'[p] = k /\ pc'[p] = s
        BY <2>8 DEF Base, TypeOK
      <4>. QED
        BY <3>1, <4>1, <4>2, Zenon
    <3>2. CASE q # p
      <4>1. PICK h \in Job, t \in PCs : h = job[q] /\ t = pc[q] /\ Flushing(q, h, t)
        BY Zenon DEF Base, TypeOK, PCs
      <4>2. recs' \in [Chan -> Seq(Rec)] /\ disk' \in [Chan -> Nat] /\ \A d \in Chan : Grows(d)
        BY <2>4, <2>9, <1>SameGrows DEF TypeOK
      <4>3. disk[Main] <= disk'[Main]
        BY <2>4, ChanIs DEF Base, TypeOK
      <4>4. t = "copy" => fmu'[h.chan] = q /\ h.chan # c
        BY <2>1, <2>2, <2>3, <3>2, <4>1, <1>ReleaseFmu, Zenon
      <4>5. t = "copy" => fmu'[h.chan] = q /\ trimmed'[h.chan] = trimmed[h.chan]
        BY <2>3, <4>1, <4>4 DEF Base, TypeOK, Job
      <4>6. t # "idle" => phase' \in {"open", "closing"}
        BY <2>1, <2>4
      <4>7. Flushing(q, h, t)'
        BY <4>1, <4>2, <4>3, <4>5, <4>6, FlushingGrows, Zenon
      <4>8. job'[q] = h /\ pc'[q] = t
        BY <2>8, <3>2, <4>1 DEF Base, TypeOK
      <4>. QED
        BY <4>7, <4>8
    <3>. QED
      BY <3>1, <3>2
  <2>. QED
    BY <2>1, <2>4, <2>9, <2>10, <2>11, <2>12, Zenon DEF Base
<1>. SUFFICES ASSUME Base, UNCHANGED kind, NEW p \in Proc PROVE FlushSteps(p) => Base'
  BY Zenon
<1>1. BeginSteps(p) => Base'
  BY <1>BeginKeeps, Zenon DEF BeginSteps
<1>2. ASSUME NEW c \in Chan PROVE (Aim(p, c) => Base') /\ (Capture(p, c) => Base')
  BY <1>AimKeeps, <1>CaptureKeeps, Zenon
<1>3. ASSUME NEW n \in 1..MaxBorn PROVE Copy(p, n) => Base'
  BY <1>CopyKeeps, Zenon
<1>4. (Fsync(p) => Base') /\ (ReadTail(p) => Base') /\ (Return(p) \/ ForkCommit(p) => Base')
  BY <1>FsyncKeeps, <1>ReadTailKeeps, <1>ReturnKeeps, Zenon
<1>5. (CloseStore(p) => Base') /\ (Fail(p) => Base')
  BY <1>CloseStoreKeeps, <1>FailKeeps, Zenon
<1>. QED
  BY <1>1, <1>2, <1>3, <1>4, <1>5, Zenon DEF FlushSteps
=============================================================================
