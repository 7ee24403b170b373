------------------------- MODULE LineageSafeProofs -------------------------
(***************************************************************************)
(* Proofs about Lineage, continued: the invariant that a crash keeps, and  *)
(* that no step of a flush breaks it.  A crash leaves at least Safe: the   *)
(* fsynced records when the machine may lose power, those on disk when     *)
(* only the process dies.                                                  *)
(***************************************************************************)
EXTENDS LineageFlushProofs

\* The records of c that main's tail covers are the first n, or fewer.
Covered(c, n) == \A i \in 1..Len(recs[c]) : recs[c][i].m <= MainTail => i <= n

\* The flush in front of a fork: the channels it is done with are covered.
Forking(q, j, s) ==
  j.then = "fork" =>
    /\ writer = q /\ child = NoChild /\ j.cut /\ j.limit = MaxBorn /\ phase = "open"
    /\ Main \notin j.left => MainTail <= trimmed[Main] /\ (s # "tail" => MainTail <= j.tail)
    /\ \A c \in Related \ j.left : Covered(c, trimmed[c])
    /\ s \in {"take", "copy"} /\ j.chan # Main =>
         /\ Main \notin j.left
         /\ Covered(j.chan, trimmed[j.chan]) \/ Covered(j.chan, j.goal)
    /\ s = "copy" /\ j.chan = Main => MainTail <= j.goal

\* The last flush of a close: the channels it is done with are flushed in full.
Closing(q, j, s) ==
  /\ ~j.ok => "io" \in faults
  /\ j.then \in {"drain", "clear"} => phase = "closing"
  /\ j.then = "clear" /\ j.ok =>
       /\ ~j.cut /\ j.limit = MaxBorn /\ s # "take"
       /\ \A c \in Chan \ j.left : Len(recs[c]) <= trimmed[c]
       /\ s = "copy" => Len(recs[j.chan]) <= j.goal

\* A power loss befalls a store that nothing else befalls: what a kill, or a
\* close whose fsync failed, leaves unsynced is served by the next process, and
\* nothing fsyncs it again before the power goes.
PowerAlone == \A r \in Regimes : "power" \in r => r = {"power"}

\* What a crash leaves of c, at least.
Safe(c) == IF "power" \in faults THEN synced[c] ELSE disk[c]

\* The durable part of the invariant.
Durable ==
  /\ "power" \in faults => faults = {"power"}
  /\ \A c \in Chan : trimmed[c] <= Safe(c)
  /\ phase \notin {"open", "closing"} => \A c \in Chan : Safe(c) = Len(recs[c])
  /\ phase \in {"open", "closing", "repair"} => unclean
  /\ \A q \in Proc : Closing(q, job[q], pc[q])

Inherits ==
  /\ \A q \in Proc : Forking(q, job[q], pc[q])
  /\ child # NoChild => \A c \in Chan :
       /\ child[c] \in Nat \ {0} /\ child[c] - 1 <= Safe(c)
       /\ inherited[c] = [i \in 1..(child[c] - 1) |-> recs[c][i].id]

\* A reference that main's tail covers is the one it was made to.
Faithful(c) ==
  \A i \in 1..Len(recs[c]) :
    LET r == recs[c][i]
    IN r.ref # 0 /\ r.m <= MainTail => r.m # 0 /\ recs[Main][r.m].id = r.ref
Reaches(c) == \A i \in 1..Len(recs[c]) : recs[c][i].ref # 0 => recs[c][i].m <= MainTail
Attaches ==
  child = NoChild => \A c \in Keyed :
    /\ Faithful(c)
    /\ phase \in {"open", "closing", "mark"} \/ ~unclean => Reaches(c)
    /\ phase = "repair" /\ c \notin todo => Reaches(c)

\* The invariant that a crash keeps.
Whole == Durable /\ Inherits /\ Attaches

-----------------------------------------------------------------------------
(* Calls that start or return.                                              *)

\* What p knows of its flush.
LEMMA Knows ==
  ASSUME Base, Whole, NEW p \in Proc
  PROVE  job[p] \in Job /\ pc[p] \in PCs /\ Closing(p, job[p], pc[p]) /\ Forking(p, job[p], pc[p])
  BY Zenon DEF Base, TypeOK, PCs, Whole, Durable, Inherits

\* What the last flush of a close knows stays so while it trims more.
LEMMA ClosingStays ==
  ASSUME Base, Base', NEW q \in Proc, NEW j \in Job, NEW s, Closing(q, j, s), UNCHANGED <<recs, phase, faults>>,
         \A c \in Chan : trimmed[c] <= trimmed'[c]
  PROVE  Closing(q, j, s)'
<1>1. \A c \in Chan : Len(recs[c]) \in Nat /\ trimmed[c] \in Nat /\ trimmed'[c] \in Nat
  BY DEF Base, TypeOK
<1>2. (\A c \in Chan \ j.left : Len(recs[c]) <= trimmed[c]) => \A c \in Chan \ j.left : Len(recs'[c]) <= trimmed'[c]
  BY <1>1
<1>. QED
  BY <1>2, Zenon DEF Closing

\* A job that neither forks nor closes knows nothing more.
LEMMA PlainJob ==
  ASSUME NEW p, NEW k \in Job, NEW s, k.then = "return", k.ok
  PROVE  Closing(p, k, s)' /\ Forking(p, k, s)'
  BY DEF Closing, Forking

-----------------------------------------------------------------------------
(* Steps of a flush.                                                        *)

\* Every step of a flush keeps the whole invariant.
LEMMA FlushWhole ==
  Base /\ Base' /\ Whole /\ UNCHANGED <<kind, faults>> => \A p \in Proc : FlushSteps(p) => ForkCommit(p) \/ Whole'
\* What the flush in front of a fork knows stays so while it trims more.
<1>ForkingStays.
    ASSUME Base, Base', NEW q \in Proc, NEW j \in Job, NEW s, Forking(q, j, s), UNCHANGED <<recs, phase, child>>,
           \A c \in Chan : trimmed[c] <= trimmed'[c], writer = q => writer' = q
    PROVE  Forking(q, j, s)'
  <2>. USE <1>ForkingStays
  <2>. SUFFICES ASSUME j.then = "fork" PROVE Forking(q, j, s)'
    BY Zenon DEF Forking
  <2>1. \A c \in Chan : Len(recs[c]) \in Nat /\ trimmed[c] \in Nat /\ trimmed'[c] \in Nat
    BY DEF Base, TypeOK
  <2>2. Main \in Chan /\ Related \subseteq Chan /\ MainTail' = MainTail /\ MainTail \in Nat /\ j.chan \in Chan
    BY <2>1, ChanIs DEF MainTail, Job
  <2>3. \A c \in Chan : Covered(c, trimmed[c]) => Covered(c, trimmed[c])'
    <3>1. TAKE c \in Chan
    <3>2. HAVE Covered(c, trimmed[c])
    <3>. QED
      BY <2>1, <2>2, <3>2 DEF Covered
  <2>4. Covered(j.chan, j.goal) => Covered(j.chan, j.goal)'
    BY <2>2 DEF Covered
  <2>5. MainTail <= trimmed[Main] => MainTail' <= trimmed'[Main]
    BY <2>1, <2>2
  <2>6. Forking(q, j, s)
    OBVIOUS
  <2>7. writer' = q /\ child' = NoChild /\ j.cut /\ j.limit = MaxBorn /\ phase' = "open"
    BY <2>6 DEF Forking
  <2>8. Main \notin j.left => MainTail' <= trimmed'[Main] /\ (s # "tail" => MainTail' <= j.tail)
    BY <2>2, <2>5, <2>6 DEF Forking
  <2>9. \A c \in Related \ j.left : Covered(c, trimmed[c])'
    BY <2>2, <2>3, <2>6 DEF Forking
  <2>10. s \in {"take", "copy"} /\ j.chan # Main =>
           /\ Main \notin j.left
           /\ Covered(j.chan, trimmed[j.chan])' \/ Covered(j.chan, j.goal)'
    BY <2>2, <2>3, <2>4, <2>6 DEF Forking
  <2>11. s = "copy" /\ j.chan = Main => MainTail' <= j.goal
    BY <2>2, <2>6 DEF Forking
  <2>. QED
    BY <2>7, <2>8, <2>9, <2>10, <2>11, Zenon DEF Forking
\* One goroutine goes on with its flush; the others do not notice.
<1>OthersStay.
    ASSUME Base, Base', Whole, UNCHANGED <<recs, phase, faults, child>>, NEW p \in Proc, NEW k \in Job, NEW s \in PCs,
           pc' = [pc EXCEPT ![p] = s], job' = [job EXCEPT ![p] = k], Closing(p, k, s)', Forking(p, k, s)',
           \A c \in Chan : trimmed[c] <= trimmed'[c],
           \A q \in Proc \ {p} : writer = q => writer' = q
    PROVE  \A q \in Proc : Closing(q, job[q], pc[q])' /\ Forking(q, job[q], pc[q])'
  <2>. USE <1>OthersStay
  <2>1. TAKE q \in Proc
  <2>2. CASE q = p
    BY <2>2 DEF Base, TypeOK
  <2>3. CASE q # p
    <3>1. PICK j \in Job, t \in PCs : j = job[q] /\ t = pc[q]
      BY DEF Base, TypeOK, PCs
    <3>2. Closing(q, j, t) /\ Forking(q, j, t) /\ (writer = q => writer' = q)
      BY <2>3, <3>1 DEF Whole, Durable, Inherits
    <3>3. Closing(q, j, t)'
      BY <3>2, ClosingStays, Zenon
    <3>4. Forking(q, j, t)'
      BY <3>2, <1>ForkingStays, Zenon
    <3>5. job'[q] = j /\ pc'[q] = t
      BY <2>3, <3>1 DEF Base, TypeOK
    <3>. QED
      BY <3>3, <3>4, <3>5
  <2>. QED
    BY <2>2, <2>3
\* Safe and the references are read from the records and the files alone.
<1>MoveKeeps.
    ASSUME Base, Base', Whole, UNCHANGED Data, UNCHANGED <<faults, unclean, phase, child, inherited>>,
           NEW p \in Proc, NEW k \in Job, NEW s \in PCs,
           pc' = [pc EXCEPT ![p] = s], job' = [job EXCEPT ![p] = k], Closing(p, k, s)', Forking(p, k, s)',
           \A q \in Proc \ {p} : writer = q => writer' = q
    PROVE  Whole'
  <2>. USE <1>MoveKeeps
  <2>1. UNCHANGED <<kind, recs, disk, synced, trimmed, todo>>
    BY DEF Data
  <2>2. \A c \in Chan : trimmed[c] <= trimmed'[c]
    BY <2>1 DEF Base, TypeOK
  <2>3. \A q \in Proc : Closing(q, job[q], pc[q])' /\ Forking(q, job[q], pc[q])'
    BY <2>1, <2>2, <1>OthersStay, Zenon
  <2>4. \A c \in Chan : Safe(c)' = Safe(c)
    BY <2>1 DEF Safe
  <2>5. Durable'
    BY <2>1, <2>3, <2>4 DEF Whole, Durable
  <2>6. Inherits'
    BY <2>1, <2>3, <2>4 DEF Whole, Inherits
  <2>7. Attaches'
    BY <2>1, Zenon DEF Whole, Attaches, Keyed, Faithful, Reaches, MainTail
  <2>. QED
    BY <2>5, <2>6, <2>7 DEF Whole
\* The calls that flush but do not close.
<1>BeginWhole.
    ASSUME Base, Base', Whole, UNCHANGED <<kind, faults>>, NEW p \in Proc,
           \/ BeginSync(p) \/ BeginEvict(p)
           \/ \E c \in Chan : \E n \in 1..Len(recs[c]) : BeginSyncChannel(p, c, n)
           \/ \E a \in 0..MainTail : BeginFork(p, a)
    PROVE  Whole'
  <2>. USE <1>BeginWhole
  <2>1. /\ UNCHANGED Data /\ UNCHANGED <<unclean, phase, child, inherited>> /\ pc' = [pc EXCEPT ![p] = "sync"]
        /\ phase = "open"
    BY Zenon DEF BeginSync, BeginEvict, BeginSyncChannel, BeginFork, Data, files, Start, Free
  <2>2. \A q \in Proc \ {p} : writer = q => writer' = q
    BY ProcAssumption, Zenon DEF BeginSync, BeginEvict, BeginSyncChannel, BeginFork
  <2>3. "sync" \in PCs /\ MaxBorn \in Nat /\ MainTail \in Nat
    BY LimitAssumption, ChanIs DEF PCs, Base, TypeOK, MainTail
  <2>4. ASSUME NEW left \in SUBSET Chan, NEW cut \in BOOLEAN, NEW n \in Nat, Start(p, Flush(left, cut, n, "return", 0))
        PROVE  Whole'
    <3>1. PICK k : k = Flush(left, cut, n, "return", 0)
      BY Zenon
    <3>2. k \in Job /\ k.then = "return" /\ k.ok
      BY <3>1, ChanIs DEF Flush, Job
    <3>3. job' = [job EXCEPT ![p] = k]
      BY <2>4, <3>1 DEF Start
    <3>4. Closing(p, k, "sync")' /\ Forking(p, k, "sync")'
      BY <3>2, PlainJob
    <3>. QED
      BY <2>1, <2>2, <2>3, <3>2, <3>3, <3>4, <1>MoveKeeps, Zenon
  <2>5. CASE BeginSync(p)
    BY <2>3, <2>4, <2>5, Zenon DEF BeginSync
  <2>6. CASE BeginEvict(p)
    BY <2>3, <2>4, <2>6, Zenon DEF BeginEvict
  <2>7. ASSUME NEW c \in Chan, NEW n \in 1..Len(recs[c]), BeginSyncChannel(p, c, n)
        PROVE  Whole'
    <3>1. {c} \in SUBSET Chan /\ n \in Nat /\ FALSE \in BOOLEAN
      OBVIOUS
    <3>. QED
      BY <2>4, <2>7, <3>1, Zenon DEF BeginSyncChannel
  <2>8. ASSUME NEW a \in 0..MainTail, BeginFork(p, a)
        PROVE  Whole'
    <3>1. PICK k : k = Flush(Chan, TRUE, MaxBorn, "fork", a)
      BY Zenon
    <3>2. a \in Nat
      BY <2>3
    <3>3. k \in Job /\ k.then = "fork" /\ k.ok /\ k.left = Chan /\ k.cut /\ k.limit = MaxBorn /\ k.chan = Main
      BY <2>3, <3>1, <3>2, ChanIs DEF Flush, Job
    <3>4. job' = [job EXCEPT ![p] = k] /\ writer' = p /\ child = NoChild
      BY <2>8, <3>1 DEF BeginFork, Start
    <3>5. Closing(p, k, "sync")' /\ Forking(p, k, "sync")'
      BY <2>1, <3>3, <3>4, ChanIs, Zenon DEF Closing, Forking
    <3>. QED
      BY <2>1, <2>2, <2>3, <3>3, <3>4, <3>5, <1>MoveKeeps, Zenon
  <2>. QED
    BY <2>5, <2>6, <2>7, <2>8
\* A close begins with nothing else running.
<1>BeginCloseWhole.
    ASSUME Base, Base', Whole, UNCHANGED <<kind, faults>>, NEW p \in Proc, BeginClose(p)
    PROVE  Whole'
  <2>. USE <1>BeginCloseWhole
  <2>1. /\ UNCHANGED <<kind, recs, disk, synced, trimmed, todo, unclean, child, inherited, faults>>
        /\ phase = "open" /\ phase' = "closing" /\ \A q \in Proc : pc[q] = "idle"
    BY DEF BeginClose, files
  <2>2. PICK k : k = Flush(Chan, TRUE, MaxBorn, "drain", 0)
    BY Zenon
  <2>3. k.then = "drain" /\ k.ok /\ job' = [job EXCEPT ![p] = k]
    BY <2>2 DEF Flush, BeginClose, Start
  <2>4. ASSUME NEW q \in Proc
        PROVE  Closing(q, job[q], pc[q])' /\ Forking(q, job[q], pc[q])'
    <3>1. CASE q = p
      <4>1. job'[q] = k
        BY <2>3, <3>1 DEF Base, TypeOK
      <4>2. \A s : Closing(q, k, s)' /\ Forking(q, k, s)'
        BY <2>1, <2>3, Zenon DEF Closing, Forking
      <4>. QED
        BY <4>1, <4>2
    <3>2. CASE q # p
      <4>1. job'[q] = NoJob
        <5>1. job[q] = NoJob
          BY <2>1, Zenon DEF Base, Flushing
        <5>2. job \in [Proc -> Job]
          BY Zenon DEF Base, TypeOK
        <5>. QED
          BY <2>3, <3>2, <5>1, <5>2
      <4>2. NoJob.then = "return" /\ NoJob.ok
        BY DEF NoJob, Flush
      <4>. QED
        BY <4>1, <4>2 DEF Closing, Forking
    <3>. QED
      BY <3>1, <3>2
  <2>5. \A c \in Chan : Safe(c)' = Safe(c)
    BY <2>1, Zenon DEF Safe
  <2>6. Durable'
    BY <2>1, <2>4, <2>5, Zenon DEF Whole, Durable
  <2>7. Inherits'
    BY <2>1, <2>4, <2>5 DEF Whole, Inherits
  <2>8. Attaches'
    BY <2>1, Zenon DEF Whole, Attaches, Keyed, Faithful, Reaches, MainTail
  <2>. QED
    BY <2>6, <2>7, <2>8 DEF Whole
\* A call that is over.
<1>IdleWhole.
    ASSUME Base, Base', Whole, UNCHANGED <<kind, faults>>, NEW p \in Proc,
           Return(p) \/ (Fail(p) /\ phase # "closing")
    PROVE  Whole'
  <2>. USE <1>IdleWhole
  <2>1. /\ UNCHANGED Data /\ UNCHANGED <<unclean, phase, child, inherited, faults>>
        /\ pc' = [pc EXCEPT ![p] = "idle"] /\ job' = [job EXCEPT ![p] = NoJob]
    BY DEF Return, Fail, Data, files
  <2>2. \A q \in Proc \ {p} : writer = q => writer' = q
    BY DEF Return, Fail, Release
  <2>3. NoJob \in Job /\ NoJob.then = "return" /\ NoJob.ok /\ "idle" \in PCs
    BY NoJobIs DEF NoJob, Flush, PCs
  <2>4. Closing(p, NoJob, "idle")' /\ Forking(p, NoJob, "idle")'
    BY <2>3, PlainJob
  <2>. QED
    BY <2>1, <2>2, <2>3, <2>4, <1>MoveKeeps, Zenon
\* The first records of a channel are covered by any larger count.
<1>CoveredMore.
    ASSUME Base, NEW c \in Chan, NEW a \in Nat, NEW b \in Nat, a <= b, Covered(c, a)
    PROVE  Covered(c, b)
  <2>. USE <1>CoveredMore
  <2>1. Len(recs[c]) \in Nat
    BY DEF Base, TypeOK
  <2>. QED
    BY <2>1 DEF Covered
\* The target covers what main's tail does, unless what is trimmed does.
<1>TargetCovers.
    ASSUME Base, NEW c \in Related, NEW t \in Nat, MainTail <= t
    PROVE  Covered(c, trimmed[c]) \/ Covered(c, CoherentTarget(c, t))
  <2>. USE <1>TargetCovers
  <2>1. PICK g \in Nat : g = CoherentTarget(c, t)
    BY TargetIs DEF Base
  <2>2. \A i \in 1..Len(recs[c]) : i > trimmed[c] /\ recs[c][i].m <= t + Slack(c) => i <= g
    BY <2>1, TargetIs, Zenon DEF Base
  <2>3. trimmed[c] \in Nat /\ MainTail \in Nat /\ Slack(c) \in Nat /\ recs[c] \in Seq(Rec) /\ Len(recs[c]) \in Nat
    BY ChanIs, SlackIs DEF Base, TypeOK, MainTail
  <2>4. \A i \in 1..Len(recs[c]) : recs[c][i].m \in Nat
    <3>1. \A i \in 1..Len(recs[c]) : recs[c][i] \in Rec
      BY <2>3
    <3>. QED
      BY <3>1, Zenon DEF Rec
  <2>5. \A i \in 1..Len(recs[c]) : i > trimmed[c] /\ recs[c][i].m <= MainTail => i <= g
    BY <2>2, <2>3, <2>4
  <2>6. CASE g <= trimmed[c]
    BY <2>3, <2>5, <2>6 DEF Covered
  <2>7. CASE g > trimmed[c]
    <3>1. Covered(c, g)
      BY <2>3, <2>5, <2>7 DEF Covered
    <3>. QED
      BY <2>1, <3>1
  <2>. QED
    BY <2>3, <2>6, <2>7
\* A goroutine that learnt something about its flush.
<1>LearnKeeps.
    ASSUME Base, Base', Whole, UNCHANGED <<kind, faults>>,
           UNCHANGED <<recs, files, unclean, phase, todo, child, inherited, writer, born>>,
           NEW p \in Proc, NEW k \in Job, NEW s \in PCs,
           pc' = [pc EXCEPT ![p] = s], job' = [job EXCEPT ![p] = k], Closing(p, k, s), Forking(p, k, s)
    PROVE  Whole'
  <2>. USE <1>LearnKeeps
  <2>1. UNCHANGED Data /\ UNCHANGED <<faults, unclean, phase, child, inherited, recs, trimmed, writer>>
    BY DEF Data, files
  <2>2. \A c \in Chan : trimmed[c] <= trimmed'[c]
    BY <2>1 DEF Base, TypeOK
  <2>3. Closing(p, k, s)'
    BY <2>1, <2>2, ClosingStays
  <2>4. Forking(p, k, s)'
    BY <2>1, <2>2, <1>ForkingStays
  <2>5. \A q \in Proc \ {p} : writer = q => writer' = q
    BY <2>1
  <2>. QED
    BY <2>1, <2>3, <2>4, <2>5, <1>MoveKeeps, Zenon
\* syncCoherent aims at what main's tail covers.
<1>AimWhole.
    ASSUME Base, Base', Whole, UNCHANGED <<kind, faults>>, NEW p \in Proc, NEW c \in Chan, Aim(p, c)
    PROVE  Whole'
  <2>. USE <1>AimWhole
  <2>1. PICK j \in Job : j = job[p] /\ Closing(p, j, "sync") /\ Forking(p, j, "sync")
    BY Knows DEF Aim
  <2>2. PICK g \in Nat : g = CoherentTarget(c, j.tail) /\ c \in Related /\ j.tail \in Nat
    <3>1. c \in Related /\ TypeOK /\ Sorted(c)
      BY <2>1, ChanIs, Zenon DEF Aim, Base, Chan
    <3>2. j.tail \in Nat
      BY DEF Job
    <3>. QED
      BY <3>1, <3>2, TargetIs
  <2>3. PICK k : k = Aimed(j, c, g)
    BY Zenon
  <2>4. /\ k \in Job /\ k.chan = c /\ k.goal = g /\ k.left = j.left /\ k.cut = j.cut /\ k.tail = j.tail
        /\ k.limit = j.limit /\ k.then = j.then /\ k.ok = j.ok
    BY <2>3, AimedIs
  <2>5. j.cut /\ Main \notin j.left /\ c # Main
    BY <2>1 DEF Aim
  <2>6. UNCHANGED <<recs, files, unclean, phase, todo, child, inherited, writer, born>>
    BY DEF Aim
  <2>7. pc' = [pc EXCEPT ![p] = "take"] /\ job' = [job EXCEPT ![p] = k] /\ "take" \in PCs
    BY <2>1, <2>2, <2>3, Zenon DEF Aim, Aimed, PCs, Base, TypeOK
  <2>8. Closing(p, k, "take")
    BY <2>1, <2>4, <2>5 DEF Closing
  <2>9. Forking(p, k, "take")
    <3>1. j.then = "fork" => MainTail <= j.tail
      BY <2>1, <2>5 DEF Forking
    <3>2. j.then = "fork" => Covered(c, trimmed[c]) \/ Covered(c, g)
      BY <2>2, <3>1, <1>TargetCovers
    <3>. QED
      BY <2>1, <2>4, <2>5, <3>2, Zenon DEF Forking
  <2>. QED
    BY <2>4, <2>6, <2>7, <2>8, <2>9, <1>LearnKeeps, Zenon
\* SyncThrough of the whole of a channel.
<1>WholeChannel.
    ASSUME Base, NEW c \in Chan, NEW g, g = Min({MaxBorn, Len(recs[c])})
    PROVE  g = Len(recs[c])
  <2>. USE <1>WholeChannel
  <2>1. Len(recs[c]) \in Nat /\ MaxBorn \in Nat /\ Len(recs[c]) <= MaxBorn
    BY LimitAssumption DEF Base, TypeOK, Ordered
  <2>. QED
    BY <2>1, MinIs
\* SyncThrough captures what it aims at.
<1>CaptureWhole.
    ASSUME Base, Base', Whole, UNCHANGED <<kind, faults>>, NEW p \in Proc, NEW c \in Chan, Capture(p, c)
    PROVE  Whole'
  <2>. USE <1>CaptureWhole
  <2>1. PICK j : j = job[p]
    BY Zenon
  <2>2. PICK g \in Nat : CaptureTo(p, c, j, g)
    BY <2>1, CaptureIs, Zenon
  <2>3. /\ j \in Job /\ Flushing(p, j, pc[p])
        /\ UNCHANGED <<recs, files, unclean, phase, todo, child, inherited, writer, born>>
    BY <2>1, CaptureIs, Zenon
  <2>4. Closing(p, j, pc[p]) /\ Forking(p, j, pc[p])
    BY <2>1, Knows
  <2>5. trimmed[c] \in Nat /\ Len(recs[c]) \in Nat /\ MainTail = Len(recs[Main]) /\ MainTail \in Nat /\ MaxBorn \in Nat
    BY ChanIs, ChannelIs, LimitAssumption, Zenon DEF MainTail
  <2>6. \/ pc[p] = "take" /\ c = j.chan /\ g = j.goal /\ c # Main
        \/ pc[p] = "sync" /\ c \in j.left /\ (j.cut => c = Main) /\ g = Min({j.limit, Len(recs[c])})
    BY <2>2, <2>3, Zenon DEF CaptureTo, Flushing
  <2>7. j.then = "clear" /\ j.ok => g = Len(recs[c]) /\ pc[p] = "sync" /\ ~j.cut
    BY <2>4, <2>6, <1>WholeChannel DEF Closing
  <2>8. j.then = "fork" => \/ pc[p] = "take" /\ c = j.chan /\ g = j.goal /\ c # Main
                           \/ pc[p] = "sync" /\ c = Main /\ Main \in j.left /\ g = MainTail
    BY <2>4, <2>5, <2>6, <1>WholeChannel, Zenon DEF Forking
  <2>9. CASE g > trimmed[c] /\ job' = [job EXCEPT ![p] = Aimed(j, c, g)] /\ pc' = [pc EXCEPT ![p] = "copy"]
    <3>1. PICK k : k = Aimed(j, c, g)
      BY Zenon
    <3>2. /\ k \in Job /\ k.chan = c /\ k.goal = g /\ k.left = j.left /\ k.cut = j.cut /\ k.tail = j.tail
          /\ k.limit = j.limit /\ k.then = j.then /\ k.ok = j.ok
      BY <2>3, <3>1, AimedIs
    <3>3. Closing(p, k, "copy")
      BY <2>4, <2>5, <2>7, <3>2 DEF Closing
    <3>4. Forking(p, k, "copy")
      BY <2>4, <2>5, <2>8, <3>2 DEF Forking
    <3>5. pc' = [pc EXCEPT ![p] = "copy"] /\ job' = [job EXCEPT ![p] = k] /\ "copy" \in PCs
      BY <2>9, <3>1 DEF PCs
    <3>. QED
      BY <2>3, <3>2, <3>3, <3>4, <3>5, <1>LearnKeeps, Zenon
  <2>10. CASE g <= trimmed[c] /\ job' = [job EXCEPT ![p] = Passed(j, c)] /\ pc' = [pc EXCEPT ![p] = After(p, c)]
    <3>1. PICK k : k = Passed(j, c)
      BY Zenon
    <3>2. /\ k \in Job /\ k.left = j.left \ {c} /\ k.chan = Main /\ k.goal = 0 /\ k.cut = j.cut
          /\ k.tail = j.tail /\ k.limit = j.limit /\ k.then = j.then /\ k.ok = j.ok
      BY <2>3, <3>1, PassedIs
    <3>3. PICK s \in PCs : s = After(p, c) /\ s \in {"tail", "sync"} /\ (j.cut /\ c = Main => s = "tail")
      BY <2>1, AfterIs DEF After, PCs
    <3>4. Closing(p, k, s)
      BY <2>4, <2>5, <2>7, <2>10, <3>2, <3>3, Zenon DEF Closing
    <3>5. Forking(p, k, s)
      <4>1. SUFFICES ASSUME j.then = "fork" PROVE Forking(p, k, s)
        BY <3>2, Zenon DEF Forking
      <4>2. CASE pc[p] = "take" /\ c = j.chan /\ g = j.goal /\ c # Main
        <5>1. Covered(c, trimmed[c])
          BY <2>4, <2>5, <2>10, <4>1, <4>2, <1>CoveredMore, Zenon DEF Forking
        <5>. QED
          BY <2>4, <3>2, <3>3, <4>1, <4>2, <5>1, Zenon DEF Forking
      <4>3. CASE pc[p] = "sync" /\ c = Main /\ Main \in j.left /\ g = MainTail
        BY <2>4, <2>10, <3>2, <3>3, <4>1, <4>3, ChanIs, Zenon DEF Forking
      <4>. QED
        BY <2>8, <4>1, <4>2, <4>3, Zenon
    <3>6. pc' = [pc EXCEPT ![p] = s] /\ job' = [job EXCEPT ![p] = k]
      BY <2>10, <3>1, <3>3
    <3>. QED
      BY <2>3, <3>2, <3>3, <3>4, <3>5, <3>6, <1>LearnKeeps, Zenon
  <2>. QED
    BY <2>2, <2>9, <2>10, Zenon DEF CaptureTo
\* mainTail is at least what was trimmed.
<1>ReadTailWhole.
    ASSUME Base, Base', Whole, UNCHANGED <<kind, faults>>, NEW p \in Proc, ReadTail(p)
    PROVE  Whole'
  <2>. USE <1>ReadTailWhole
  <2>1. PICK j \in Job : j = job[p] /\ Closing(p, j, "tail") /\ Forking(p, j, "tail")
    BY Knows DEF ReadTail
  <2>2. /\ disk[Main] \in Nat /\ trimmed[Main] \in Nat /\ trimmed[Main] <= disk[Main]
        /\ MainTail \in Nat
    BY ChanIs DEF Base, TypeOK, Ordered, MainTail
  <2>3. PICK k : k = Tailed(j, disk[Main])
    BY Zenon
  <2>4. /\ k \in Job /\ k.tail = disk[Main] /\ k.chan = j.chan /\ k.goal = j.goal /\ k.left = j.left /\ k.cut = j.cut
        /\ k.limit = j.limit /\ k.then = j.then /\ k.ok = j.ok
    BY <2>2, <2>3, TailedIs
  <2>5. UNCHANGED <<recs, files, unclean, phase, todo, child, inherited, writer, born>>
    BY DEF ReadTail
  <2>6. pc' = [pc EXCEPT ![p] = "sync"] /\ job' = [job EXCEPT ![p] = k] /\ "sync" \in PCs
    BY <2>1, <2>3, Zenon DEF ReadTail, PCs, Base, TypeOK, Tailed
  <2>7. Closing(p, k, "sync")
    BY <2>1, <2>4, Zenon DEF Closing
  <2>8. Forking(p, k, "sync")
    BY <2>1, <2>2, <2>4 DEF Forking
  <2>. QED
    BY <2>4, <2>5, <2>6, <2>7, <2>8, <1>LearnKeeps, Zenon
\* The last pass of a close begins.
<1>CloseStoreWhole.
    ASSUME Base, Base', Whole, UNCHANGED <<kind, faults>>, NEW p \in Proc, CloseStore(p)
    PROVE  Whole'
  <2>. USE <1>CloseStoreWhole
  <2>1. PICK j \in Job : j = job[p] /\ j.then = "drain" /\ phase = "closing" /\ pc[p] = "sync"
    BY Knows DEF CloseStore, Finished, Closing
  <2>2. PICK k : k = Flush(Chan, FALSE, MaxBorn, "clear", 0)
    BY Zenon
  <2>3. k \in Job /\ k.left = Chan /\ k.then = "clear" /\ k.ok /\ ~k.cut /\ k.limit = MaxBorn
    BY <2>2, ChanIs, LimitAssumption DEF Flush, Job
  <2>4. UNCHANGED <<recs, files, unclean, phase, todo, child, inherited, writer, born>>
    BY DEF CloseStore
  <2>5. pc' = [pc EXCEPT ![p] = "sync"] /\ job' = [job EXCEPT ![p] = k] /\ "sync" \in PCs
    BY <2>1, <2>2, Zenon DEF CloseStore, PCs, Base, TypeOK
  <2>6. Closing(p, k, "sync") /\ Forking(p, k, "sync")
    BY <2>1, <2>3 DEF Closing, Forking
  <2>. QED
    BY <2>3, <2>4, <2>5, <2>6, <1>LearnKeeps, Zenon
\* A close goes on after a failed write, and keeps .unclean.
<1>FailWhole.
    ASSUME Base, Base', Whole, UNCHANGED <<kind, faults>>, NEW p \in Proc, Fail(p), phase = "closing"
    PROVE  Whole'
  <2>. USE <1>FailWhole
  <2>1. PICK j \in Job : j = job[p] /\ Closing(p, j, "copy") /\ Forking(p, j, "copy")
    BY Knows DEF Fail
  <2>2. PICK b \in BOOLEAN, left \in SUBSET Chan :
           /\ b = (j.then = "drain")
           /\ left = IF j.then = "drain" THEN {} ELSE j.left \ {j.chan}
    BY <2>1, Zenon DEF Job
  <2>3. PICK k : k = Failed(j, b, left)
    BY Zenon
  <2>4. k \in Job /\ k.ok = b /\ k.then = j.then
    BY <2>3, FailedIs
  <2>5. UNCHANGED <<recs, files, unclean, phase, todo, child, inherited, writer, born>> /\ "io" \in faults
    BY DEF Fail
  <2>6. job' = [job EXCEPT ![p].ok = b, ![p].left = left]
    BY <2>1, <2>2, Zenon DEF Fail
  <2>7. job' = [job EXCEPT ![p] = k]
    BY <2>1, <2>3, <2>6, Zenon DEF Base, TypeOK, Failed
  <2>8. pc' = [pc EXCEPT ![p] = "sync"] /\ "sync" \in PCs
    BY DEF Fail, PCs
  <2>9. Closing(p, k, "sync")
    BY <2>2, <2>4, <2>5, Zenon DEF Closing
  <2>10. Forking(p, k, "sync")
    BY <2>1, <2>4 DEF Forking
  <2>. QED
    BY <2>4, <2>5, <2>7, <2>8, <2>9, <2>10, <1>LearnKeeps, Zenon
\* The files grow while the store is open.
<1>FilesKeep.
    ASSUME Base, Base', Whole, phase \in {"open", "closing"},
           UNCHANGED <<kind, recs, faults, unclean, phase, todo, child, inherited>>,
           \A c \in Chan : Safe(c) <= Safe(c)' /\ trimmed'[c] <= Safe(c)',
           \A q \in Proc : Closing(q, job[q], pc[q])' /\ Forking(q, job[q], pc[q])'
    PROVE  Whole'
  <2>. USE <1>FilesKeep
  <2>1. Durable'
    BY Zenon DEF Whole, Durable
  <2>2. Inherits'
    <3>1. ASSUME child # NoChild, NEW c \in Chan
          PROVE  child[c] - 1 <= Safe(c)'
      <4>1. child[c] \in Nat \ {0} /\ child[c] - 1 <= Safe(c) /\ Safe(c) \in Nat /\ Safe(c)' \in Nat
        BY <3>1, Zenon DEF Whole, Inherits, Safe, Base, TypeOK
      <4>. QED
        BY <4>1
    <3>. QED
      BY <3>1, Zenon DEF Whole, Inherits
  <2>3. Attaches'
    BY Zenon DEF Whole, Attaches, Keyed, Faithful, Reaches, MainTail
  <2>. QED
    BY <2>1, <2>2, <2>3 DEF Whole
\* inner.Write adds to what is on disk.
<1>CopyWhole.
    ASSUME Base, Base', Whole, UNCHANGED <<kind, faults>>, NEW p \in Proc, NEW n \in 1..MaxBorn, Copy(p, n)
    PROVE  Whole'
  <2>. USE <1>CopyWhole
  <2>1. PICK c \in Chan : c = job[p].chan
    BY Zenon DEF Base, TypeOK, Job
  <2>2. /\ UNCHANGED <<recs, synced, trimmed, unclean, phase, todo, child, inherited, writer, pc, job>>
        /\ phase \in {"open", "closing"} /\ n \in (disk[c] + 1)..job[p].goal /\ disk' = [disk EXCEPT ![c] = n]
    BY <2>1, Busy DEF Copy
  <2>3. job[p].goal \in Nat /\ disk \in [Chan -> Nat] /\ trimmed \in [Chan -> Nat] /\ synced \in [Chan -> Nat]
    BY Zenon DEF Base, TypeOK, Job
  <2>4. \A d \in Chan : disk[d] <= disk'[d] /\ disk'[d] \in Nat
    BY <2>2, <2>3
  <2>5. \A d \in Chan : trimmed[d] <= trimmed'[d]
    BY <2>2, <2>3
  <2>6. \A d \in Chan : Safe(d) <= Safe(d)' /\ trimmed'[d] <= Safe(d)'
    BY <2>2, <2>3, <2>4 DEF Safe, Whole, Durable
  <2>7. ASSUME NEW q \in Proc
        PROVE  Closing(q, job[q], pc[q])' /\ Forking(q, job[q], pc[q])'
    <3>1. PICK j \in Job, s \in PCs : j = job[q] /\ s = pc[q] /\ Closing(q, j, s) /\ Forking(q, j, s)
      BY Knows, Zenon
    <3>2. Closing(q, j, s)'
      BY <2>2, <2>5, <3>1, ClosingStays
    <3>3. Forking(q, j, s)'
      BY <2>2, <2>5, <3>1, <1>ForkingStays
    <3>. QED
      BY <2>2, <3>1, <3>2, <3>3
  <2>. QED
    BY <2>2, <2>6, <2>7, <1>FilesKeep
\* inner.Sync: what is trimmed is fsynced, and covers what the flush aimed at.
<1>FsyncWhole.
    ASSUME Base, Base', Whole, UNCHANGED <<kind, faults>>, NEW p \in Proc, Fsync(p)
    PROVE  Whole'
  <2>. USE <1>FsyncWhole
  <2>1. PICK j \in Job : j = job[p] /\ Closing(p, j, "copy") /\ Forking(p, j, "copy") /\ Flushing(p, j, "copy")
    BY Knows, Busy DEF Fsync
  <2>2. PICK c \in Chan : c = j.chan
    BY <2>1 DEF Job
  <2>3. /\ j.goal <= disk[c] /\ synced' = [synced EXCEPT ![c] = disk[c]]
        /\ trimmed' = [trimmed EXCEPT ![c] = j.goal] /\ pc[p] = "copy" /\ trimmed[c] < j.goal
        /\ phase \in {"open", "closing"}
    BY <2>1, <2>2, Busy, Zenon DEF Fsync, Job, Base, TypeOK, Flushing
  <2>4. UNCHANGED <<recs, disk, unclean, phase, todo, child, inherited, writer>>
    BY DEF Fsync
  <2>5. /\ j.goal \in Nat /\ disk \in [Chan -> Nat] /\ trimmed \in [Chan -> Nat] /\ synced \in [Chan -> Nat]
        /\ MainTail \in Nat /\ MainTail' = MainTail
        /\ \A d \in Chan : Len(recs[d]) \in Nat /\ synced[d] <= disk[d] /\ trimmed[d] <= disk[d]
    <3>1. j.goal \in Nat
      BY DEF Job
    <3>2. MainTail \in Nat /\ MainTail' = MainTail
      BY <2>4, ChanIs DEF Base, TypeOK, MainTail
    <3>. QED
      BY <3>1, <3>2 DEF Base, TypeOK, Ordered
  <2>6. \A d \in Chan : trimmed[d] <= trimmed'[d] /\ trimmed'[d] \in Nat
    BY <2>3, <2>5
  <2>7. \A d \in Chan : Safe(d) <= Safe(d)' /\ trimmed'[d] <= Safe(d)'
    <3>1. \A d \in Chan : synced[d] <= synced'[d] /\ disk'[d] = disk[d]
      BY <2>3, <2>4, <2>5
    <3>2. \A d \in Chan : trimmed[d] <= Safe(d)
      BY DEF Whole, Durable
    <3>3. ASSUME NEW d \in Chan
          PROVE  trimmed'[d] <= Safe(d)'
      <4>1. CASE d = c
        BY <2>3, <2>4, <2>5, <4>1 DEF Safe
      <4>2. CASE d # c
        BY <2>3, <2>4, <2>5, <3>2, <4>2 DEF Safe
      <4>. QED
        BY <4>1, <4>2
    <3>. QED
      BY <2>5, <3>1, <3>3 DEF Safe
  <2>8. PICK k : k = Passed(j, c)
    BY Zenon
  <2>9. /\ k \in Job /\ k.left = j.left \ {c} /\ k.chan = Main /\ k.goal = 0 /\ k.cut = j.cut
        /\ k.tail = j.tail /\ k.limit = j.limit /\ k.then = j.then /\ k.ok = j.ok
    BY <2>8, PassedIs
  <2>10. PICK s \in PCs : s = After(p, c) /\ s \in {"tail", "sync"} /\ (j.cut /\ c = Main => s = "tail")
    BY <2>1, AfterIs DEF After, PCs
  <2>11. job' = [job EXCEPT ![p] = k] /\ pc' = [pc EXCEPT ![p] = s]
    <3>1. job' = [job EXCEPT ![p].left = @ \ {c}, ![p].chan = Main, ![p].goal = 0] /\ pc' = [pc EXCEPT ![p] = After(p, c)]
      BY <2>1, <2>2, Zenon DEF Fsync
    <3>. QED
      BY <2>1, <2>8, <2>10, <3>1, Zenon DEF Passed, Base, TypeOK
  <2>12. Closing(p, k, s)'
    <3>1. Closing(p, j, "copy")'
      BY <2>1, <2>4, <2>6, ClosingStays, Zenon
    <3>2. j.then = "clear" /\ j.ok => Len(recs'[c]) <= trimmed'[c]
      BY <2>1, <2>2, <2>3, <2>4, <2>5, Zenon DEF Closing
    <3>. QED
      BY <2>9, <2>10, <3>1, <3>2, Zenon DEF Closing
  <2>13. Forking(p, k, s)'
    <3>1. SUFFICES ASSUME j.then = "fork" PROVE Forking(p, k, s)'
      BY <2>9 DEF Forking
    <3>2. Forking(p, j, "copy")'
      BY <2>1, <2>4, <2>6, <1>ForkingStays, Zenon
    <3>3. c # Main => Covered(c, trimmed[c])'
      <4>1. c # Main => Covered(c, j.goal)
        BY <2>1, <2>2, <2>3, <2>5, <3>1, <1>CoveredMore DEF Forking
      <4>2. trimmed'[c] = j.goal
        BY <2>3, <2>5, Zenon
      <4>. QED
        BY <2>4, <2>5, <4>1, <4>2, Zenon DEF Covered
    <3>4. c = Main => MainTail' <= trimmed'[Main]
      BY <2>1, <2>2, <2>3, <2>5, <3>1 DEF Forking
    <3>5. \A d \in Related \ k.left : Covered(d, trimmed[d])'
      <4>1. TAKE d \in Related \ k.left
      <4>2. CASE d = c
        BY <3>3, <4>2, ChanIs, Zenon
      <4>3. CASE d # c
        BY <2>9, <3>1, <3>2, <4>3, Zenon DEF Forking
      <4>. QED
        BY <4>2, <4>3
    <3>6. Main \notin k.left => MainTail' <= trimmed'[Main] /\ (s # "tail" => MainTail' <= k.tail)
      BY <2>9, <2>10, <3>1, <3>2, <3>4 DEF Forking
    <3>. QED
      BY <2>9, <2>10, <3>1, <3>2, <3>5, <3>6, Zenon DEF Forking
  <2>14. \A q \in Proc \ {p} : writer = q => writer' = q
    BY <2>4
  <2>15. \A q \in Proc : Closing(q, job[q], pc[q])' /\ Forking(q, job[q], pc[q])'
    BY <2>4, <2>6, <2>9, <2>11, <2>12, <2>13, <2>14, <1>OthersStay, Zenon
  <2>. QED
    BY <2>3, <2>4, <2>7, <2>15, <1>FilesKeep
<1>. SUFFICES ASSUME Base, Base', Whole, UNCHANGED <<kind, faults>>, NEW p \in Proc PROVE FlushSteps(p) => ForkCommit(p) \/ Whole'
  BY Zenon
<1>1. BeginSteps(p) => Whole'
  BY <1>BeginWhole, <1>BeginCloseWhole, Zenon DEF BeginSteps
<1>2. ASSUME NEW c \in Chan PROVE (Aim(p, c) => Whole') /\ (Capture(p, c) => Whole')
  BY <1>AimWhole, <1>CaptureWhole, Zenon
<1>3. ASSUME NEW n \in 1..MaxBorn PROVE Copy(p, n) => Whole'
  BY <1>CopyWhole, Zenon
<1>4. (Fsync(p) => Whole') /\ (ReadTail(p) => Whole')
  BY <1>FsyncWhole, <1>ReadTailWhole, Zenon
<1>5. (Return(p) => Whole') /\ (CloseStore(p) => Whole')
  BY <1>IdleWhole, <1>CloseStoreWhole, Zenon
<1>6. Fail(p) => Whole'
  BY <1>IdleWhole, <1>FailWhole, Zenon
<1>. QED
  BY <1>1, <1>2, <1>3, <1>4, <1>5, <1>6, Zenon DEF FlushSteps

=============================================================================
