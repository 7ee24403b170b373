------------------------------ MODULE HotStore ------------------------------
(***************************************************************************)
(* The hot generations of a Trunks handle.  A generation is a log store    *)
(* with the heads opened in it; appends, views, topology operations and    *)
(* the flusher borrow the current one.  A rebuild of the index, or a quiet *)
(* flusher pass, retires it: the next borrow starts a new one, which reads *)
(* the files, and the retired one syncs and closes when its last borrower  *)
(* releases it.  A log keeps its own idea of the file's tail and writes    *)
(* there, so a record must never wait in one generation while another      *)
(* serves its trunk.                                                       *)
(*                                                                         *)
(* One log per trunk stands for its channels; a coherent sync writes a     *)
(* prefix of what is pending (which one, Lineage says), a full sync all.   *)
(***************************************************************************)
EXTENDS Integers, Sequences, FiniteSets, FiniteSetsExt

CONSTANTS
  Trunk,           \* trunks with a live head
  Calls,           \* goroutines that append through the store
  Views,           \* goroutines that hold a Head or StumpHead handle
  MaxGen,          \* bound: generations
  MaxBorn,         \* bound: records
  MaxFaults,       \* bound: failed closes
  MaxWindows       \* bound: windows entered before the last operation or pass begins

ASSUME GenAssumption == MaxGen \in Nat /\ MaxBorn \in Nat /\ Trunk # {}
ASSUME ActorsAssumption == Calls \cap Views = {} /\ "flusher" \notin Calls \cup Views

VARIABLES
  disk,            \* trunk -> the records in its files
  gen,             \* the generations there have been
  hot,             \* the current one, or 0
  call,            \* append in progress: step, trunk, generation borrowed, record
  view,            \* handle: trunk and generation borrowed
  gate,            \* the operation that holds t.mu exclusively, and its step
  flusher,         \* the background goroutine: step, trunk, generation borrowed
  mode,            \* "up", "closing", "closed"
  dirty,           \* trunks appended to since their last flush
  acked,           \* records whose append returned: trunk, index, record
  born, faults,
  entered          \* history of the windows below

vars == <<disk, gen, hot, call, view, gate, flusher, mode, dirty, acked, born, faults, entered>>

(* The windows, each recorded in entered when a behaviour goes through it:  *)
(*   "late"   a handle appends to a generation a Detach retired under it    *)
(*   "held"   an operation retires a generation that a flusher or a handle  *)
(*            uses and that buffers acked records                           *)
(*   "quiet"  a quiet pass retires a generation in use that buffers acked   *)
(*            records, or that goes on to take one and is not closed at once *)
(*   "evict"  a head opens between an eviction's two locks on its log       *)
(*   "fail"   the sync of a closing generation fails                        *)

NoLog == [tail |-> -1, pend |-> <<>>, head |-> FALSE, listed |-> FALSE]
NewGen == [retired |-> "no", closed |-> FALSE, log |-> [k \in Trunk |-> NoLog]]
At(step, k, g) == [step |-> step, k |-> k, g |-> g, at |-> 0, id |-> 0]
Idle == At("idle", 0, 0)
NoGate == [op |-> "none", step |-> "free", k |-> 0]
Gens == 1..Len(gen)
Retired(g) == gen[g].retired # "no"
Followed == Cardinality(entered) <= MaxWindows
Entering(window, in) == IF in THEN entered \cup {window} ELSE entered

\* Who holds a reference to a generation, and to one head in it.
Holders(g) ==
  {c \in Calls : call[c].step \in {"borrowed", "appended"} /\ call[c].g = g}
  \cup {v \in Views : view[v].step = "open" /\ view[v].g = g}
  \cup (IF flusher.step \in {"head", "stray"} /\ flusher.g = g THEN {"flusher"} ELSE {})
\* A mutated form: handles are not counted on their head.
HeadHoldersOfCalls(g, k) == {c \in Calls : c \in Holders(g) /\ call[c].k = k}
HeadHolders(g, k) ==
  {c \in Calls : c \in Holders(g) /\ call[c].k = k}
  \cup {v \in Views : v \in Holders(g) /\ view[v].k = k}
OpenHeadRefs == UNION {Holders(g) : g \in Gens}
\* lockLineage: an append or an eviction holds the trunk.
Locked(k) ==
  \/ \E c \in Calls : call[c].step \in {"borrowed", "appended"} /\ call[c].k = k
  \/ flusher.step \in {"evicted", "deleted"} /\ flusher.k = k

-----------------------------------------------------------------------------
(* Logs and generations. *)

\* disk.Log.Write: the records go to the log's own tail, over what is there.
WriteAt(file, tail, recs) ==
  [i \in 1..Max({Len(file), tail + Len(recs)}) |->
     IF i \in tail + 1..tail + Len(recs) THEN recs[i - tail] ELSE file[i]]
Written(log, n) == [log EXCEPT !.tail = @ + n, !.pend = SubSeq(@, n + 1, Len(@))]
\* Sync of n[k] pending records of each trunk's log in generation g.
SyncLogs(g, n) ==
  /\ disk' = [k \in Trunk |-> IF n[k] = 0 THEN disk[k]
                              ELSE WriteAt(disk[k], gen[g].log[k].tail,
                                           SubSeq(gen[g].log[k].pend, 1, n[k]))]
  /\ gen' = [gen EXCEPT ![g].log = [k \in Trunk |-> Written(@[k], n[k])]]
Pending(g, k) == Len(gen[g].log[k].pend)
\* syncCoherent of the heads in which: some prefix of each.
Cuts(g, which) ==
  {n \in [Trunk -> 0..MaxBorn] :
     \A k \in Trunk : n[k] <= IF k \in which /\ gen[g].log[k].head THEN Pending(g, k) ELSE 0}
\* A mutated form: closing forgets the buffers.
CloseSyncsNothing(g) == [k \in Trunk |-> 0]
\* log.Store.Close: syncs the logs it lists, and closes them all.
CloseSyncs(g) == [k \in Trunk |-> IF gen[g].log[k].listed THEN Pending(g, k) ELSE 0]
CloseGen(g, done) ==
  /\ disk' = [k \in Trunk |-> IF CloseSyncs(g)[k] = 0 \/ ~done THEN disk[k]
                              ELSE WriteAt(disk[k], gen[g].log[k].tail, gen[g].log[k].pend)]
  /\ gen' = [gen EXCEPT ![g] = [retired |-> "closed", closed |-> TRUE, log |-> [k \in Trunk |-> NoLog]]]
  /\ faults' = IF done THEN faults ELSE faults + 1
  /\ entered' = Entering("fail", ~done)
\* Whether the sync of a closing generation succeeds; its error goes nowhere.
Outcomes(g) ==
  IF faults < MaxFaults /\ \E k \in Trunk : CloseSyncs(g)[k] > 0 THEN BOOLEAN ELSE {TRUE}

\* open of a head: the listed log, or a new one over the disk log, or both new.
OpenLog(log, k) ==
  IF log.head \/ log.listed THEN [log EXCEPT !.head = TRUE]
  ELSE [tail |-> IF log.tail >= 0 THEN log.tail ELSE Len(disk[k]),
        pend |-> <<>>, head |-> TRUE, listed |-> TRUE]
\* borrowHotUntracked: the generations after a borrow, and the one borrowed.
Borrowed == IF hot = 0 THEN Append(gen, NewGen) ELSE gen
BorrowedGen == IF hot = 0 THEN Len(gen) + 1 ELSE hot
Opening(gs, g, k) == [gs EXCEPT ![g].log[k] = OpenLog(@, k)]
CanBorrow == hot # 0 \/ Len(gen) < MaxGen
\* The head of k opens while an eviction has unlisted the head, not yet the log.
InEviction(k) == flusher.step = "deleted" /\ flusher.k = k

\* A mutated form: the first one out closes it.
ReleaseHotEager(who, g) ==
  IF Retired(g) THEN \E done \in Outcomes(g) : CloseGen(g, done)
  ELSE UNCHANGED <<disk, gen, faults, entered>>
\* A mutated form: the last one out of a retired generation leaves it open.
ReleaseHotLeak(who, g) ==
  /\ entered' = Entering("quiet", Retired(g) /\ who \in Calls /\ Pending(g, call[who].k) > 0)
  /\ UNCHANGED <<disk, gen, faults>>

\* releaseHot by one holder: the last one out of a retired generation closes it.
ReleaseHot(who, g) ==
  IF Retired(g) /\ Holders(g) = {who}
  THEN \E done \in Outcomes(g) : CloseGen(g, done)
  ELSE /\ entered' = Entering("quiet", /\ Retired(g) /\ who \in Calls
                                       /\ Pending(g, call[who].k) > 0)
       /\ UNCHANGED <<disk, gen, faults>>
\* retireHot: closes the current generation unless it is in use.
RetireHot(by) ==
  /\ hot' = 0
  /\ IF hot = 0 THEN UNCHANGED <<disk, gen, faults, entered>>
     ELSE IF Holders(hot) = {}
     THEN \E done \in Outcomes(hot) : CloseGen(hot, done)
     ELSE /\ gen' = [gen EXCEPT ![hot].retired = by]
          /\ entered' = Entering(by, \E r \in acked : \E i \in 1..Pending(hot, r.k) :
                                     gen[hot].log[r.k].pend[i] = r.id)
          /\ UNCHANGED <<disk, faults>>

-----------------------------------------------------------------------------
(* Appends: appendMainWith, AppendChannel. *)

\* A record not spoken for is left under the bound.
Room == born + Cardinality({c \in Calls : call[c].step = "borrowed"}) < MaxBorn

\* lockLineage, beginTrackedRead with t.mu held for reading, borrowHotUntracked.
BeginAppend(c, k) ==
  /\ mode = "up" /\ gate = NoGate /\ call[c] = Idle /\ ~Locked(k) /\ Room /\ CanBorrow
  /\ gen' = Borrowed /\ hot' = BorrowedGen
  /\ call' = [call EXCEPT ![c] = At("borrowed", k, BorrowedGen)]
  /\ UNCHANGED <<disk, view, gate, flusher, mode, dirty, acked, born, faults, entered>>

\* The head opens if it is not cached, and its log takes the record.
AppendRecord(c) ==
  /\ call[c].step = "borrowed"
  /\ LET g == call[c].g  k == call[c].k
         log == OpenLog(gen[g].log[k], k)
     IN  /\ gen' = [gen EXCEPT ![g].log[k] = [log EXCEPT !.pend = Append(@, born + 1)]]
         /\ call' = [call EXCEPT ![c] = [step |-> "appended", k |-> k, g |-> g, id |-> born + 1,
                                         at |-> log.tail + Len(log.pend) + 1]]
  /\ born' = born + 1
  /\ UNCHANGED <<disk, hot, view, gate, flusher, mode, dirty, acked, faults, entered>>

\* release, whose error the append drops; then the locks.
Release(c) ==
  /\ call[c].step = "appended"
  /\ ReleaseHot(c, call[c].g)
  /\ acked' = acked \cup {[k |-> call[c].k, at |-> call[c].at, id |-> call[c].id]}
  /\ call' = [call EXCEPT ![c].step = "released"]
  /\ UNCHANGED <<hot, view, gate, flusher, mode, dirty, born>>

\* Store.Append: markDirty, with no lock held.
Return(c) ==
  /\ call[c].step = "released"
  /\ dirty' = dirty \cup {call[c].k}
  /\ call' = [call EXCEPT ![c] = Idle]
  /\ UNCHANGED <<disk, gen, hot, view, gate, flusher, mode, acked, born, faults, entered>>

-----------------------------------------------------------------------------
(* Handles: Head and StumpHead, whose appends take no lock of the handle's. *)

OpenView(v, k) ==
  /\ mode = "up" /\ gate = NoGate /\ view[v] = Idle /\ ~Locked(k) /\ CanBorrow
  /\ gen' = Opening(Borrowed, BorrowedGen, k) /\ hot' = BorrowedGen
  /\ view' = [view EXCEPT ![v] = At("open", k, BorrowedGen)]
  /\ UNCHANGED <<disk, call, gate, flusher, mode, dirty, acked, born, faults, entered>>

ViewAppend(v) ==
  /\ view[v].step = "open" /\ Room
  /\ LET g == view[v].g  k == view[v].k
     IN  /\ gen' = [gen EXCEPT ![g].log[k].pend = Append(@, born + 1)]
         /\ acked' = acked \cup {[k |-> k, at |-> gen[g].log[k].tail + Pending(g, k) + 1, id |-> born + 1]}
         /\ entered' = Entering(IF gen[g].retired = "quiet" THEN "quiet" ELSE "late", Retired(g))
  /\ born' = born + 1
  /\ UNCHANGED <<disk, hot, call, view, gate, flusher, mode, dirty, faults>>

\* SyncCoherent, SyncStump.
ViewSync(v) ==
  /\ view[v].step = "open"
  /\ \E n \in Cuts(view[v].g, {view[v].k}) : SyncLogs(view[v].g, n)
  /\ UNCHANGED <<hot, call, view, gate, flusher, mode, dirty, acked, born, faults, entered>>

CloseView(v) ==
  /\ view[v].step = "open"
  /\ ReleaseHot(v, view[v].g)
  /\ view' = [view EXCEPT ![v] = Idle]
  /\ UNCHANGED <<hot, call, gate, flusher, mode, dirty, acked, born>>

-----------------------------------------------------------------------------
(* Operations that hold t.mu exclusively.  "create": SpawnChildKind, ForkTail *)
(* and the other creators open the parent's head.  "detach": Detach, and a    *)
(* fork below the trunk's own first record, retire the generation without     *)
(* waiting.  "mutate": remove, ensureChannel, Clear first wait until no head  *)
(* is open.                                                                   *)

\* beginFlatCreate, beginTopologyMutation: no append is in the read lock, and a
\* mutation finds no borrower; then syncHot.
BeginGate(op, k) ==
  /\ mode = "up" /\ gate = NoGate /\ Followed
  /\ \A c \in Calls : call[c].step \in {"idle", "released"}
  /\ op = "mutate" => OpenHeadRefs \cap (Views \cup Calls) = {} /\ flusher.step # "head"
  /\ gate' = [op |-> op, step |-> IF op = "mutate" THEN "waiting" ELSE "synced",
              k |-> IF op = "create" THEN k ELSE 0]
  /\ IF hot = 0 THEN UNCHANGED <<disk, gen>>
     ELSE \E n \in Cuts(hot, Trunk) : SyncLogs(hot, n)
  /\ UNCHANGED <<hot, call, view, flusher, mode, dirty, acked, born, faults, entered>>

\* ensureNoOpenHeads: no reference is left, or the wait times out.
EnsureNoOpenHeads ==
  /\ gate.step = "waiting"
  /\ gate' = IF OpenHeadRefs = {} THEN [gate EXCEPT !.step = "synced"] ELSE NoGate
  /\ UNCHANGED <<disk, gen, hot, call, view, flusher, mode, dirty, acked, born, faults, entered>>
\* openHotTopology of the parent, closed at once: the head stays cached.
Create ==
  /\ gate.step = "synced" /\ gate.op = "create" /\ CanBorrow
  /\ gen' = Opening(Borrowed, BorrowedGen, gate.k) /\ hot' = BorrowedGen
  /\ entered' = Entering("evict", InEviction(gate.k))
  /\ gate' = NoGate
  /\ UNCHANGED <<disk, call, view, flusher, mode, dirty, acked, born, faults>>

\* rebuild, retireRootHotPreservingValidation.
Retire ==
  /\ gate.step = "synced" /\ gate.op # "create"
  /\ RetireHot("held")
  /\ gate' = NoGate
  /\ UNCHANGED <<call, view, flusher, mode, dirty, acked, born>>

-----------------------------------------------------------------------------
(* The flusher: run, syncDirty, evictIdle. *)

Rest == flusher.step = "idle" /\ mode = "up" /\ Followed

\* syncLineage borrows the head of a dirty trunk; then it syncs and releases it.
FlushHead(k) ==
  /\ Rest /\ k \in dirty /\ gate = NoGate /\ ~Locked(k) /\ CanBorrow
  /\ gen' = Opening(Borrowed, BorrowedGen, k) /\ hot' = BorrowedGen
  /\ dirty' = dirty \ {k}
  /\ flusher' = At("head", k, BorrowedGen)
  /\ UNCHANGED <<disk, call, view, gate, mode, acked, born, faults, entered>>

\* syncHot at the end of a pass borrows every head there is.
FlushStray ==
  /\ Rest /\ hot # 0
  /\ flusher' = At("stray", 0, hot)
  /\ UNCHANGED <<disk, gen, hot, call, view, gate, mode, dirty, acked, born, faults, entered>>

\* syncCoherent of what was borrowed, and releaseHot, which syncs the rest if it
\* closes the generation.
FlushEnd ==
  /\ flusher.step \in {"head", "stray"}
  /\ IF Retired(flusher.g) /\ Holders(flusher.g) = {"flusher"}
     THEN ReleaseHot("flusher", flusher.g)
     ELSE /\ \E n \in Cuts(flusher.g, IF flusher.step = "head" THEN {flusher.k} ELSE Trunk) :
               SyncLogs(flusher.g, n)
          /\ UNCHANGED <<faults, entered>>
  /\ flusher' = Idle
  /\ UNCHANGED <<hot, call, view, gate, mode, dirty, acked, born>>

\* evictLineage of a trunk long untouched: locks it, finds its head unborrowed,
\* and syncs its log.
Evict(k) ==
  /\ Rest /\ k \notin dirty /\ gate = NoGate /\ ~Locked(k)
  /\ hot # 0 /\ gen[hot].log[k].head /\ HeadHolders(hot, k) = {}
  /\ SyncLogs(hot, [j \in Trunk |-> IF j = k THEN Pending(hot, k) ELSE 0])
  /\ flusher' = At("evicted", k, hot)
  /\ UNCHANGED <<hot, call, view, gate, mode, dirty, acked, born, faults, entered>>

\* The head is dropped unless it was borrowed, or the generation retired, since.
EvictHead ==
  /\ flusher.step = "evicted"
  /\ IF hot = flusher.g /\ gen[hot].log[flusher.k].head /\ HeadHolders(hot, flusher.k) = {}
     THEN /\ gen' = [gen EXCEPT ![hot].log[flusher.k].head = FALSE]
          /\ flusher' = [flusher EXCEPT !.step = "deleted"]
     ELSE /\ flusher' = Idle
          /\ UNCHANGED gen
  /\ UNCHANGED <<disk, hot, call, view, gate, mode, dirty, acked, born, faults, entered>>

\* log.Store.Evict: syncs the log and unlists it; the disk log stays.
EvictLog ==
  /\ flusher.step = "deleted"
  /\ LET g == flusher.g  k == flusher.k  log == gen[g].log[k]
     IN  IF gen[g].closed THEN UNCHANGED <<disk, gen>>
         ELSE /\ disk' = [disk EXCEPT ![k] = WriteAt(@, log.tail, log.pend)]
              /\ gen' = [gen EXCEPT ![g].log[k] = [Written(log, Len(log.pend)) EXCEPT !.listed = FALSE]]
  /\ flusher' = Idle
  /\ UNCHANGED <<hot, call, view, gate, mode, dirty, acked, born, faults, entered>>

\* evictIdle found every trunk idle; later it retires the generation, t.mu or not.
Quiet ==
  /\ Rest /\ dirty = {}
  /\ flusher' = At("quiet", 0, 0)
  /\ UNCHANGED <<disk, gen, hot, call, view, gate, mode, dirty, acked, born, faults, entered>>

RetireQuiet ==
  /\ flusher.step = "quiet"
  /\ RetireHot("quiet")
  /\ flusher' = Idle
  /\ UNCHANGED <<call, view, gate, mode, dirty, acked, born>>

-----------------------------------------------------------------------------
(* Store.Close: no call is running; the flusher stops, the dirty lineages are *)
(* synced, and the generations close unless a handle is open.                 *)

BeginClose ==
  /\ Rest /\ gate = NoGate /\ \A c \in Calls : call[c] = Idle
  /\ mode' = "closing"
  /\ IF hot = 0 THEN UNCHANGED <<disk, gen>>
     ELSE \E n \in Cuts(hot, Trunk) : SyncLogs(hot, n)
  /\ dirty' = {}
  /\ UNCHANGED <<hot, call, view, gate, flusher, acked, born, faults, entered>>

FinishClose ==
  /\ mode = "closing" /\ OpenHeadRefs = {}
  /\ IF hot = 0 THEN UNCHANGED <<disk, gen, faults, entered>> /\ mode' = "closed"
     ELSE \E done \in Outcomes(hot) :
            /\ CloseGen(hot, done)
            /\ mode' = IF done THEN "closed" ELSE "failed"
  /\ hot' = 0
  /\ UNCHANGED <<call, view, gate, flusher, dirty, acked, born>>

Refused ==
  /\ mode = "closing" /\ OpenHeadRefs # {}
  /\ mode' = "failed"
  /\ UNCHANGED <<disk, gen, hot, call, view, gate, flusher, dirty, acked, born, faults, entered>>

-----------------------------------------------------------------------------

Init ==
  /\ disk = [k \in Trunk |-> <<>>]
  /\ gen = <<>> /\ hot = 0
  /\ call = [c \in Calls |-> Idle] /\ view = [v \in Views |-> Idle]
  /\ gate = NoGate /\ flusher = Idle /\ mode = "up"
  /\ dirty = {} /\ acked = {} /\ born = 0 /\ faults = 0 /\ entered = {}

Append1(c) == AppendRecord(c) \/ Release(c) \/ Return(c)
Gate1 == EnsureNoOpenHeads \/ Create \/ Retire
Flush1 == FlushEnd \/ EvictHead \/ EvictLog \/ RetireQuiet

Next ==
  \/ \E c \in Calls : (\E k \in Trunk : BeginAppend(c, k)) \/ Append1(c)
  \/ \E v \in Views : (\E k \in Trunk : OpenView(v, k)) \/ ViewAppend(v) \/ ViewSync(v) \/ CloseView(v)
  \/ \E op \in {"create", "detach", "mutate"}, k \in Trunk : BeginGate(op, k)
  \/ Gate1 \/ Flush1
  \/ \E k \in Trunk : FlushHead(k) \/ Evict(k)
  \/ FlushStray \/ Quiet
  \/ BeginClose \/ FinishClose \/ Refused

Spec == Init /\ [][Next]_vars

\* The scheduler runs what can run, and a caller closes the handles it opens.
FairSpec ==
  /\ Spec
  /\ \A c \in Calls : WF_vars(Append1(c))
  /\ \A v \in Views : WF_vars(CloseView(v))
  /\ WF_vars(Gate1) /\ WF_vars(Flush1)

-----------------------------------------------------------------------------
(* Properties. *)

\* What the next borrower of k's head reads.
Serving(k) ==
  IF hot # 0 /\ gen[hot].log[k].tail >= 0
  THEN SubSeq(disk[k], 1, gen[hot].log[k].tail) \o gen[hot].log[k].pend
  ELSE disk[k]

\* Outside the windows, whatever opens a trunk next reads every record an append
\* of it returned for, at the index it returned: retireHot, releaseHot and
\* evictLineage never leave one behind in a generation or a log that is no
\* longer served.
NextOpenServesAcked ==
  entered = {} =>
    \A r \in acked : r.at <= Len(Serving(r.k)) /\ Serving(r.k)[r.at] = r.id

\* releaseHot closes a generation after its last borrower, never under one.
NoUseAfterClose ==
  \A g \in Gens : gen[g].closed => Holders(g) = {}

\* A log that buffers a record is one its store will sync when it closes:
\* evictLineage unlists no log that a head still appends to.
PendingIsListed ==
  "evict" \notin entered =>
    \A g \in Gens : \A k \in Trunk : Pending(g, k) > 0 => gen[g].log[k].listed

\* A retired generation is closed in the end, so its buffered records reach the
\* files and its handles are freed (retireHot, releaseHot).
RetiredCloses ==
  \A g \in 1..MaxGen : (g \in Gens /\ Retired(g)) ~> (g \in Gens /\ gen[g].closed)
=============================================================================
