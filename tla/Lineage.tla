------------------------------ MODULE Lineage ------------------------------
(***************************************************************************)
(* One trunk node of an xwal.Store: its main channel and its related       *)
(* channels (src/xwal/xwal.go), the flushes that move them to disk, the    *)
(* fork of a child below it, clean close, crash, and the repair that runs  *)
(* when an unclean store is opened (src/xwal/repair.go, store.go).         *)
(*                                                                         *)
(* Each channel is a log.Log as PendingLog describes it, reduced to its    *)
(* records and three counts: how many are on disk, how many are fsynced,   *)
(* and how many the pending buffer no longer holds.  Store.Append and fork *)
(* hold the lineage lock; a flush does not.                                *)
(***************************************************************************)
EXTENDS Naturals, Sequences, FiniteSets, FiniteSetsExt

CONSTANTS
  Main,         \* the main channel
  Related,      \* the related channels
  Kinds,        \* what they may be: functions on Related to "keyed", a log whose
                \* records name a main LT; "reducible", keyed and allowed to run
                \* one turn ahead; "unkeyed", its position stamped on main's records
  Proc,         \* goroutines that append, flush, fork and close
  NoProc,       \* a lock is free
  NoChild,      \* no child has been forked
  Regimes,      \* which of "kill", "power" and "io" may happen together
  MaxBorn,      \* bound: records ever appended
  MaxAhead      \* bound: how far ahead of main a record may be keyed

Chan == {Main} \cup Related

ASSUME ChannelAssumption ==
  /\ Main \notin Related
  /\ Kinds \subseteq [Related -> {"keyed", "reducible", "unkeyed"}]
ASSUME ProcAssumption == NoProc \notin Proc
ASSUME RegimesAssumption == Regimes \subseteq SUBSET {"kill", "power", "io"}
ASSUME LimitAssumption == MaxBorn \in Nat /\ MaxAhead \in Nat

VARIABLES
  kind, faults, \* the store's channels, and what befalls it
  recs,         \* every channel's records, the pending ones included
  disk,         \* how many of them are in the segment files
  synced,       \* how many an fsync has covered
  trimmed,      \* how many the pending buffer no longer holds
  unclean,      \* the .unclean marker is on disk
  phase,        \* of the store: down, repair, mark, open or closing
  todo,         \* channels the repair has not visited
  child,        \* the child's fork base in every channel, or NoChild
  inherited,    \* history: the ids of the records the child inherited
  fmu,          \* each channel's log.Log flush lock
  writer,       \* the lineage lock: who is writing
  pc,           \* idle, sync, tail, take or copy
  job,          \* each goroutine's flush in progress
  born          \* history: how many records were ever appended

files == <<disk, synced, trimmed>>
vars == <<kind, faults, recs, disk, synced, trimmed, unclean, phase, todo, child, inherited,
          fmu, writer, pc, job, born>>

\* The fields of a record: m is the main LT it carries and cur the cursors
\* stamped on a main record; id and ref are history, the record's own identity
\* and that of the main record it came to reference.
\*
\* The fields of a job: left, the channels still to be flushed; cut, whether
\* related channels are held to the coherent cut; tail, mainTail; chan and goal,
\* the SyncThrough in progress; then, what follows; ok, no flush of it failed.

-----------------------------------------------------------------------------
Keyed == {c \in Related : kind[c] = "keyed"}
Reducible == {c \in Related : kind[c] = "reducible"}
Unkeyed == {c \in Related : kind[c] = "unkeyed"}
Prefix(s, n) == SubSeq(s, 1, n)
\* The one-ahead convention: a reducible record may be keyed to the next turn.
Slack(c) == IF c \in Reducible THEN 1 ELSE 0
NoCursor == [u \in Related |-> 0]
MainTail == Len(recs[Main])

\* A flush of the channels in left: cut as syncCoherent cuts it, or channel
\* by channel up to limit.
Flush(left, cut, limit, then, at) ==
  [left |-> left, cut |-> cut, tail |-> 0, chan |-> Main, goal |-> 0,
   limit |-> limit, then |-> then, at |-> at, ok |-> TRUE]

NoJob == Flush({}, FALSE, 0, "return", 0)

Init ==
  /\ kind \in Kinds /\ faults \in Regimes
  /\ recs = [c \in Chan |-> <<>>]
  /\ disk = [c \in Chan |-> 0]
  /\ synced = [c \in Chan |-> 0]
  /\ trimmed = [c \in Chan |-> 0]
  /\ unclean = TRUE
  /\ phase = "open"
  /\ todo = {}
  /\ child = NoChild
  /\ inherited = [c \in Chan |-> <<>>]
  /\ fmu = [c \in Chan |-> NoProc]
  /\ writer = NoProc
  /\ pc = [p \in Proc |-> "idle"]
  /\ job = [p \in Proc |-> NoJob]
  /\ born = 0

\* p may start a call of the open store.
Free(p) == phase = "open" /\ pc[p] = "idle"

Start(p, flush) ==
  /\ pc' = [pc EXCEPT ![p] = "sync"]
  /\ job' = [job EXCEPT ![p] = flush]

\* The end of an append: the lag bound is not exceeded, or it is and the
\* channel is flushed inline, with the lineage lock held.
WriteReturns(p, c) ==
  \/ UNCHANGED <<writer, pc, job>>
  \/ /\ Start(p, Flush({c}, FALSE, MaxBorn, "return", 0))
     /\ writer' = p

\* XWAL.AppendMainCursors: the record is stamped with every unkeyed
\* channel's tail.  Records keyed ahead of main now reference it.
AppendMain(p) ==
  LET next == MainTail + 1
      r == [m |-> next, cur |-> [u \in Related |-> IF u \in Unkeyed THEN Len(recs[u]) ELSE 0],
            id |-> born + 1, ref |-> 0]
      Refer(s) == [i \in DOMAIN s |-> IF s[i].m = next /\ s[i].ref = 0
                                        THEN [s[i] EXCEPT !.ref = born + 1]
                                        ELSE s[i]]
  IN /\ Free(p) /\ writer = NoProc /\ born < MaxBorn
     /\ recs' = [c \in Chan |-> IF c = Main THEN Append(recs[c], r)
                                            ELSE Refer(recs[c])]
     /\ born' = born + 1
     /\ WriteReturns(p, Main)
     /\ UNCHANGED <<files, unclean, phase, todo, child, inherited, fmu>>

\* XWAL.Append on a keyed channel: the key may not decrease, and may exceed
\* the main tail.
AppendKeyed(p, c, m) ==
  LET s == recs[c]
      r == [m |-> m, cur |-> NoCursor, id |-> born + 1,
            ref |-> IF m <= MainTail THEN recs[Main][m].id ELSE 0]
  IN /\ Free(p) /\ writer = NoProc /\ born < MaxBorn
     /\ s # <<>> => m >= s[Len(s)].m
     /\ recs' = [recs EXCEPT ![c] = Append(s, r)]
     /\ born' = born + 1
     /\ WriteReturns(p, c)
     /\ UNCHANGED <<files, unclean, phase, todo, child, inherited, fmu>>

\* XWAL.Append on an unkeyed channel: main is never read.
AppendUnkeyed(p, c) ==
  /\ Free(p) /\ writer = NoProc /\ born < MaxBorn
  /\ recs' = [recs EXCEPT ![c] = Append(@, [m |-> 0, cur |-> NoCursor,
                                            id |-> born + 1, ref |-> 0])]
  /\ born' = born + 1
  /\ WriteReturns(p, c)
  /\ UNCHANGED <<files, unclean, phase, todo, child, inherited, fmu>>

-----------------------------------------------------------------------------
\* syncCoherent, as the flusher (syncLineage, syncHot) calls it: main first,
\* then the related channels up to the cut.
BeginSync(p) ==
  /\ Free(p)
  /\ Start(p, Flush(Chan, TRUE, MaxBorn, "return", 0))
  /\ UNCHANGED <<recs, files, unclean, phase, todo, child, inherited, fmu,
                 writer, born>>

\* SyncChannelThrough: one channel, no cut.
BeginSyncChannel(p, c, n) ==
  /\ Free(p)
  /\ Start(p, Flush({c}, FALSE, n, "return", 0))
  /\ UNCHANGED <<recs, files, unclean, phase, todo, child, inherited, fmu,
                 writer, born>>

\* evictLineage: every channel is synced in full, appenders excluded.
BeginEvict(p) ==
  /\ Free(p) /\ writer = NoProc
  /\ Start(p, Flush(Chan, FALSE, MaxBorn, "return", 0))
  /\ writer' = p
  /\ UNCHANGED <<recs, files, unclean, phase, todo, child, inherited, fmu, born>>

\* A mutated form: the parent's pending records are not flushed before a fork.
BeginForkUnflushed(p, at) ==
  /\ Free(p) /\ writer = NoProc /\ child = NoChild
  /\ Start(p, Flush({}, TRUE, MaxBorn, "fork", at))
  /\ writer' = p
  /\ UNCHANGED <<recs, files, unclean, phase, todo, child, inherited, fmu, born>>

\* ForkAt and ForkTail: with the lineage locked, a coherent flush comes first
\* (beginFlatCreate); at = 0 is the tail.
BeginFork(p, at) ==
  /\ Free(p) /\ writer = NoProc /\ child = NoChild
  /\ Start(p, Flush(Chan, TRUE, MaxBorn, "fork", at))
  /\ writer' = p
  /\ UNCHANGED <<recs, files, unclean, phase, todo, child, inherited, fmu, born>>

\* Store.Close with every other call returned: a last coherent flush, then
\* log.Store.Close syncs the channels in any order, then .unclean goes.
BeginClose(p) ==
  /\ phase = "open" /\ \A q \in Proc : pc[q] = "idle"
  /\ phase' = "closing"
  /\ Start(p, Flush(Chan, TRUE, MaxBorn, "drain", 0))
  /\ UNCHANGED <<recs, files, unclean, todo, child, inherited, fmu, writer, born>>

-----------------------------------------------------------------------------
\* coherentTarget: the last pending record of c whose key is within the main
\* tail, one more for a reducible channel; 0 when there is none.
CoherentTarget(c, tail) ==
  Max({0} \cup {i \in (trimmed[c] + 1)..Len(recs[c]) :
                  recs[c][i].m <= tail + Slack(c)})

\* syncCoherent picks a related channel and its target, before SyncThrough
\* takes the lock.
Aim(p, c) ==
  /\ pc[p] = "sync" /\ job[p].cut
  /\ Main \notin job[p].left /\ c \in job[p].left
  /\ job' = [job EXCEPT ![p].chan = c,
                        ![p].goal = CoherentTarget(c, job[p].tail)]
  /\ pc' = [pc EXCEPT ![p] = "take"]
  /\ UNCHANGED <<recs, files, unclean, phase, todo, child, inherited, fmu,
                 writer, born>>

\* After main, syncCoherent reads the tail that bounds the cut.
After(p, c) == IF job[p].cut /\ c = Main THEN "tail" ELSE "sync"

\* SyncThrough takes fmu and captures the pending records up to its target.
\* With none it returns at once and fsyncs nothing.
Capture(p, c) ==
  LET aimed == pc[p] = "take" /\ c = job[p].chan
      plain == pc[p] = "sync" /\ c \in job[p].left /\ (job[p].cut => c = Main)
      target == IF aimed THEN job[p].goal
                         ELSE Min({job[p].limit, Len(recs[c])})
  IN /\ (aimed \/ plain) /\ fmu[c] = NoProc
     /\ IF target > trimmed[c]
          THEN /\ fmu' = [fmu EXCEPT ![c] = p]
               /\ job' = [job EXCEPT ![p].chan = c, ![p].goal = target]
               /\ pc' = [pc EXCEPT ![p] = "copy"]
          ELSE /\ job' = [job EXCEPT ![p].left = @ \ {c}, ![p].chan = Main,
                                     ![p].goal = 0]
               /\ pc' = [pc EXCEPT ![p] = After(p, c)]
               /\ UNCHANGED fmu
     /\ UNCHANGED <<recs, files, unclean, phase, todo, child, inherited,
                    writer, born>>

\* inner.Write of some more of the batch.
Copy(p, n) ==
  LET c == job[p].chan
  IN /\ pc[p] = "copy"
     /\ n \in (disk[c] + 1)..job[p].goal
     /\ disk' = [disk EXCEPT ![c] = n]
     /\ UNCHANGED <<recs, synced, trimmed, unclean, phase, todo, child,
                    inherited, fmu, writer, pc, job, born>>

\* inner.Sync and the trim of the buffer.
Fsync(p) ==
  LET c == job[p].chan
  IN /\ pc[p] = "copy" /\ disk[c] >= job[p].goal
     /\ synced' = [synced EXCEPT ![c] = disk[c]]
     /\ trimmed' = [trimmed EXCEPT ![c] = job[p].goal]
     /\ fmu' = [fmu EXCEPT ![c] = NoProc]
     /\ job' = [job EXCEPT ![p].left = @ \ {c}, ![p].chan = Main,
                           ![p].goal = 0]
     /\ pc' = [pc EXCEPT ![p] = After(p, c)]
     /\ UNCHANGED <<recs, disk, unclean, phase, todo, child, inherited,
                    writer, born>>

\* A mutated form: the cut is bounded by the tail in memory.
ReadTailMemory(p) ==
  /\ pc[p] = "tail"
  /\ job' = [job EXCEPT ![p].tail = MainTail]
  /\ pc' = [pc EXCEPT ![p] = "sync"]
  /\ UNCHANGED <<recs, files, unclean, phase, todo, child, inherited, fmu,
                 writer, born>>

\* mainTail := main.log.Disk().LastIndex()
ReadTail(p) ==
  /\ pc[p] = "tail"
  /\ job' = [job EXCEPT ![p].tail = disk[Main]]
  /\ pc' = [pc EXCEPT ![p] = "sync"]
  /\ UNCHANGED <<recs, files, unclean, phase, todo, child, inherited, fmu,
                 writer, born>>

Release(p) == writer' = IF writer = p THEN NoProc ELSE writer

\* A write or fsync fails.  The call returns the error, so that a fork is
\* refused; Store.Close goes on and keeps .unclean.
Fail(p) ==
  /\ "io" \in faults
  /\ pc[p] = "copy"
  /\ fmu' = [fmu EXCEPT ![job[p].chan] = NoProc]
  /\ IF phase = "closing"
       THEN /\ job' = [job EXCEPT ![p].ok = job[p].then = "drain",
                                  ![p].left = IF job[p].then = "drain"
                                                THEN {} ELSE @ \ {job[p].chan}]
            /\ pc' = [pc EXCEPT ![p] = "sync"]
            /\ UNCHANGED writer
       ELSE /\ pc' = [pc EXCEPT ![p] = "idle"]
            /\ job' = [job EXCEPT ![p] = NoJob]
            /\ Release(p)
  /\ UNCHANGED <<recs, files, unclean, phase, todo, child, inherited, born>>

Finished(p, then) == pc[p] = "sync" /\ job[p].left = {} /\ job[p].then = then

Return(p) ==
  /\ Finished(p, "return")
  /\ pc' = [pc EXCEPT ![p] = "idle"]
  /\ job' = [job EXCEPT ![p] = NoJob]
  /\ Release(p)
  /\ UNCHANGED <<recs, files, unclean, phase, todo, child, inherited, fmu, born>>

-----------------------------------------------------------------------------
\* channelBases(node, at): where the child's own records begin.  A keyed
\* channel is inherited up to its last record keyed at or below the fork, an
\* unkeyed one up to the tail or, for an interior fork, to the cursor stamped
\* on the main record there, but never past the parent's own tail.
ChannelBases(at) ==
  LET tailFork == at = 0 \/ at >= MainTail
      last == IF tailFork THEN MainTail ELSE at
      AtOrBelow(c) == Max({0} \cup {i \in DOMAIN recs[c] : recs[c][i].m <= last})
  IN [c \in Chan |->
        IF c = Main THEN last + 1
        ELSE IF c \notin Unkeyed THEN AtOrBelow(c) + 1
        ELSE IF tailFork THEN Len(recs[c]) + 1
        ELSE Min({recs[Main][at].cur[c], Len(recs[c])}) + 1]

Ids(s) == [i \in DOMAIN s |-> s[i].id]

\* forkFlat, forkFlatAt: the fork bases, then .node, which commits the child.
ForkCommit(p) ==
  LET bases == ChannelBases(job[p].at)
  IN /\ Finished(p, "fork")
     /\ child' = bases
     /\ inherited' = [c \in Chan |-> Ids(Prefix(recs[c], bases[c] - 1))]
     /\ pc' = [pc EXCEPT ![p] = "idle"]
     /\ job' = [job EXCEPT ![p] = NoJob]
     /\ Release(p)
     /\ UNCHANGED <<recs, files, unclean, phase, todo, fmu, born>>

\* A mutated form: the channels are closed without a last sync.
CloseStoreUndrained(p) ==
  /\ Finished(p, "drain")
  /\ job' = [job EXCEPT ![p] = Flush({}, FALSE, MaxBorn, "clear", 0)]
  /\ UNCHANGED <<recs, files, unclean, phase, todo, child, inherited, fmu,
                 writer, pc, born>>

\* Trunks.Close: the hot store is closed, every channel synced, whatever the
\* coherent pass returned.
CloseStore(p) ==
  /\ Finished(p, "drain")
  /\ job' = [job EXCEPT ![p] = Flush(Chan, FALSE, MaxBorn, "clear", 0)]
  /\ UNCHANGED <<recs, files, unclean, phase, todo, child, inherited, fmu,
                 writer, pc, born>>

-----------------------------------------------------------------------------
\* The process is gone: n[c] records of each channel are in its files.
Down(n) ==
  /\ recs' = [c \in Chan |-> Prefix(recs[c], n[c])]
  /\ disk' = n
  /\ trimmed' = n
  /\ phase' = "down"
  /\ todo' = {}
  /\ fmu' = [c \in Chan |-> NoProc]
  /\ writer' = NoProc
  /\ pc' = [p \in Proc |-> "idle"]
  /\ job' = [p \in Proc |-> NoJob]
  /\ UNCHANGED <<child, inherited, born>>

\* clearUnclean, once every log has been closed without an error.
ClearUnclean(p) ==
  /\ Finished(p, "clear")
  /\ Down(disk)
  /\ unclean' = ~job[p].ok
  /\ UNCHANGED synced

Kill ==
  /\ "kill" \in faults /\ phase # "down"
  /\ Down(disk)
  /\ UNCHANGED <<synced, unclean>>

\* The machine loses power: of every channel a prefix survives that holds at
\* least the fsynced records.
PowerLoss(n) ==
  /\ "power" \in faults
  /\ \A c \in Chan : n[c] \in synced[c]..disk[c]
  /\ Down(n)
  /\ synced' = n
  /\ UNCHANGED unclean

-----------------------------------------------------------------------------
\* OpenStore: an unclean store is repaired, then marked unclean and served.
Open ==
  /\ phase = "down"
  /\ phase' = IF unclean THEN "repair" ELSE "mark"
  /\ todo' = IF unclean THEN Related ELSE {}
  /\ UNCHANGED <<recs, files, unclean, child, inherited, fmu, writer, pc, job,
                 born>>

\* A mutated form: every channel gets the reducible channel's turn of slack.
KeptWithSlack(c) ==
  Max({0} \cup {i \in DOMAIN recs[c] : recs[c][i].m <= disk[Main] + 1})

\* A mutated form: the records of the last turn are cut too.
KeptStrict(c) ==
  Max({0} \cup {i \in DOMAIN recs[c] : recs[c][i].m < disk[Main] + Slack(c)})

\* trimChannelNode: how many records of c stay when the tail that references
\* main records beyond mainTail is cut off.
Kept(c) ==
  Max({0} \cup {i \in DOMAIN recs[c] : recs[c][i].m <= disk[Main] + Slack(c)})

\* repairCoherentCuts for one channel.  A node with a child is no leaf and is
\* passed over.  A file that is cut is fsynced.
RepairChannel(c) ==
  /\ phase = "repair" /\ c \in todo
  /\ todo' = todo \ {c}
  /\ IF child = NoChild /\ Kept(c) < Len(recs[c])
       THEN /\ recs' = [recs EXCEPT ![c] = Prefix(@, Kept(c))]
            /\ disk' = [disk EXCEPT ![c] = Kept(c)]
            /\ synced' = [synced EXCEPT ![c] = Kept(c)]
            /\ trimmed' = [trimmed EXCEPT ![c] = Kept(c)]
       ELSE UNCHANGED <<recs, files>>
  /\ UNCHANGED <<unclean, phase, child, inherited, fmu, writer, pc, job, born>>

RepairDone ==
  /\ phase = "repair" /\ todo = {}
  /\ phase' = "mark"
  /\ UNCHANGED <<recs, files, unclean, todo, child, inherited, fmu, writer, pc,
                 job, born>>

MarkUnclean ==
  /\ phase = "mark"
  /\ unclean' = TRUE
  /\ phase' = "open"
  /\ UNCHANGED <<recs, files, todo, child, inherited, fmu, writer, pc, job, born>>

Call(p) ==
  \/ AppendMain(p)
  \/ \E c \in Keyed \cup Reducible, m \in 1..(MainTail + MaxAhead) :
       AppendKeyed(p, c, m)
  \/ \E c \in Unkeyed : AppendUnkeyed(p, c)
  \/ BeginSync(p) \/ BeginEvict(p) \/ BeginClose(p)
  \/ \E c \in Chan : \E n \in 1..Len(recs[c]) : BeginSyncChannel(p, c, n)
  \/ \E at \in 0..MainTail : BeginFork(p, at)

Work(p) ==
  \/ \E c \in Chan : Aim(p, c) \/ Capture(p, c)
  \/ \E n \in 1..MaxBorn : Copy(p, n)
  \/ Fsync(p) \/ ReadTail(p) \/ Return(p) \/ ForkCommit(p)
  \/ CloseStore(p) \/ ClearUnclean(p)

Next ==
  /\ \/ \E p \in Proc : Call(p) \/ Work(p) \/ Fail(p)
     \/ Open \/ (\E c \in Related : RepairChannel(c)) \/ RepairDone \/ MarkUnclean
     \/ Kill \/ \E n \in [Chan -> 0..MaxBorn] : PowerLoss(n)
  /\ UNCHANGED <<kind, faults>>

Spec == Init /\ [][Next]_vars

-----------------------------------------------------------------------------
(* Properties.                                                             *)

\* Every record of c that came to reference a main record still finds that
\* very record at its key.
Attached(c) ==
  \A i \in DOMAIN recs[c] :
    LET r == recs[c][i]
    IN r.ref # 0 => r.m <= MainTail /\ recs[Main][r.m].id = r.ref

\* docs/memory-first.md: "a related-channel record never survives without the
\* main-channel record it references", whatever crashed and was appended
\* since; a reference never comes to name another turn.
RefsAttached == phase = "open" => \A c \in Keyed : Attached(c)

\* The same for a node without children, which is what repairCoherentCuts
\* repairs.
RefsAttachedLeaf == child = NoChild => RefsAttached

\* A child's inherited prefix never changes nor tears: every record below its
\* fork base is still there in the parent, and still the same record, after
\* any flush, crash, repair and further append.
InheritedIntact ==
  child # NoChild =>
    \A c \in Chan :
      /\ Len(recs[c]) >= child[c] - 1
      /\ Ids(Prefix(recs[c], child[c] - 1)) = inherited[c]

\* docs/memory-first.md: "Cooperative shutdown (Close) loses nothing", and
\* nothing lost after it either.
CloseLosesNothing == [][phase' = "down" /\ ~unclean' => recs' = recs]_vars

\* docs/memory-first.md: "Hard crash loses at most the flush lag".  A record
\* that was fsynced, and whose turn was (one turn of slack for a reducible
\* channel), is removed by no crash and by no repair.
DurableStays ==
  [][\A c \in Chan : \A i \in 1..synced[c] :
       recs[c][i].m <= synced[Main] + Slack(c)
         => i <= Len(recs'[c]) /\ recs'[c][i].id = recs[c][i].id]_vars

\* A flush under the cut never puts a related record on disk before the main
\* record it is keyed to (syncCoherent, coherentTarget).
CutHoldsOnDisk ==
  [][\A p \in Proc, n \in 1..MaxBorn :
       Copy(p, n) /\ job[p].cut /\ job[p].chan \in Keyed
         => recs[job[p].chan][n].m <= disk[Main]]_vars
=============================================================================
