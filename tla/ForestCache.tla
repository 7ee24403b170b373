---------------------------- MODULE ForestCache ----------------------------
(***************************************************************************)
(* forest.Cache, a byte-budgeted window of materialized units over a log,  *)
(* and forest.Budget, which meters it.  A read walks the runs of a node    *)
(* with c.mu held, but lets c.mu go whenever it charges the budget, since  *)
(* the eviction that follows may pick this very cache.  Meanwhile others   *)
(* insert into the slice it is walking.                                    *)
(*                                                                         *)
(* A unit is its coordinate, and what the source returns for a range does  *)
(* not change, so a run is its range, whether its units are in memory and  *)
(* whether it is pinned.  Which unpinned run is coldest is left open.  The *)
(* lineage read is a root and a child that begins at Base.                 *)
(***************************************************************************)
EXTENDS Integers, Sequences, FiniteSets, FiniteSetsExt, SequencesExt

CONSTANTS
  Readers, Owners, \* goroutines that call Range; and Put, Drop, Close, TrimIdle
  None,
  Base, Top,      \* the child's fork base, and the last coordinate
  Unit,            \* the coordinates the source has a unit for
  Empty,           \* those whose unit has no bytes
  Limit,           \* the budget's limit
  Chunk,           \* runChunk
  From, To,        \* the ends of the ranges that calls name
  MaxRuns,         \* bound: runs made
  MaxCalls         \* bound: calls made

ASSUME CacheAssumption ==
  /\ Base \in 1..Top /\ Chunk \in Nat \ {0} /\ Limit \in Nat \ {0}
  /\ From \cup To \subseteq 0..Top /\ Unit \subseteq 1..Top /\ Empty \subseteq Unit

VARIABLES
  run,             \* the runs made, each [from, to, resident, pinned]
  runs,            \* map of nodes (a new one after Close) -> node -> its runs
  closed,          \* 1 once Close has replaced the map of nodes, else 0
  mu,              \* the holder of c.mu
  bytes,           \* Budget.bytes
  proc,            \* goroutine -> its call
  calls,
  entered          \* history: "ghost", Close ran under a call; "empty", a run
                   \* without bytes was picked for eviction

vars == <<run, runs, closed, mu, bytes, proc, calls, entered>>

Procs == Readers \cup Owners
Nodes == {"root", "child"}
Units(from, to) == SetToSortSeq({u \in Unit : u > from /\ u <= to}, <)
BytesOf(r) == Cardinality({u \in Unit \ Empty : u > r.from /\ u <= r.to})
Idle == [step |-> "idle", then |-> "idle", cuts |-> <<>>, pos |-> 0, view |-> <<>>,
         live |-> FALSE, i |-> 1, r |-> 0, map |-> 0, lo |-> 0, hi |-> 0, delta |-> 0,
         out |-> <<>>, from |-> 0, to |-> 0]

Init ==
  /\ run = <<>> /\ runs = [g \in 0..1 |-> [n \in Nodes |-> <<>>]] /\ closed = 0
  /\ mu = None /\ bytes = 0 /\ proc = [p \in Procs |-> Idle] /\ calls = 0
  /\ entered = {}

\* --- the runs of a node ---

\* sort.Search: where a run that begins at from belongs
Place(s, from) ==
  Min({i \in 1..Len(s) : run[s[i]].from >= from} \cup {Len(s) + 1})

Inserted(s, r, id) == InsertAt(s, Place(s, r.from), id)

At(s, from, to) ==
  LET i == Place(s, from)
  IN  IF i <= Len(s) /\ run[s[i]].from = from /\ run[s[i]].to = to THEN s[i] ELSE None

\* append keeps the array while it has room; its capacity doubles from one
InPlace(s) == Len(s) \notin {0, 1, 2, 4, 8, 16}

\* insert: the goroutines walking this very array see their elements shift
Walked(ps, g, n, s, new) ==
  [p \in Procs |->
     IF ps[p].live /\ ps[p].map = g /\ ps[p].cuts # <<>> /\ Head(ps[p].cuts).node = n
     THEN IF InPlace(s) THEN [ps[p] EXCEPT !.view = SubSeq(new, 1, Len(@))]
                        ELSE [ps[p] EXCEPT !.live = FALSE]
     ELSE ps[p]]

Evictable(g) ==
  {id \in UNION {Range(runs[g][n]) : n \in Nodes} : run[id].resident /\ ~run[id].pinned}

Step(p, rec) == proc' = [proc EXCEPT ![p] = rec]
Start(p) == /\ proc[p].step = "idle" /\ calls < MaxCalls /\ closed = 0
            /\ calls' = calls + 1

\* --- Range ---

\* split: below the child's base the root serves, from it on the child
Split(from, to) ==
  LET hi == IF Base - 1 < to THEN Base - 1 ELSE to
  IN  (IF hi > from THEN <<[node |-> "root", from |-> from, to |-> hi]>> ELSE <<>>)
      \o (LET lo == IF hi > from THEN hi ELSE from
          IN  IF to > lo THEN <<[node |-> "child", from |-> lo, to |-> to]>> ELSE <<>>)

BeginRange(p, from, to) ==
  /\ Start(p) /\ from < to
  /\ Step(p, [Idle EXCEPT !.step = "lock", !.cuts = Split(from, to),
                          !.from = from, !.to = to])
  /\ UNCHANGED <<run, runs, closed, mu, bytes, entered>>

LockNode(p) ==
  /\ proc[p].step = "lock" /\ mu = None /\ mu' = p
  /\ LET cut == Head(proc[p].cuts)
     IN  Step(p, [proc[p] EXCEPT !.step = "visit", !.pos = cut.from, !.i = 1, !.live = TRUE,
                                 !.map = closed, !.view = runs[closed][cut.node]])
  /\ UNCHANGED <<run, runs, closed, bytes, calls, entered>>

\* The gap up to hi, if there is one, is filled before the walk goes on.
Fill(q, hi, then) ==
  [q EXCEPT !.step = IF q.pos < hi THEN "fill" ELSE then, !.then = then, !.lo = q.pos, !.hi = hi]

\* A mutated form: runs are compared with the start of the cut.
VisitFromCut(p) ==
  /\ proc[p].step = "visit"
  /\ LET q == proc[p]
         cut == Head(q.cuts)
         i == Min({j \in q.i..Len(q.view) : /\ run[q.view[j]].to > cut.from
                                            /\ run[q.view[j]].from < cut.to}
                  \cup {Len(q.view) + 1})
     IN  Step(p, IF i > Len(q.view)
                 THEN Fill(q, cut.to, "unlock")
                 ELSE [Fill(q, run[q.view[i]].from, "serve") EXCEPT !.i = i, !.r = q.view[i]])
  /\ UNCHANGED <<run, runs, closed, mu, bytes, calls, entered>>

\* The loop over the runs, to the next one in the cut; past the last, its end.
Visit(p) ==
  /\ proc[p].step = "visit"
  /\ LET q == proc[p]
         cut == Head(q.cuts)
         i == Min({j \in q.i..Len(q.view) : /\ run[q.view[j]].to > q.pos
                                            /\ run[q.view[j]].from < cut.to}
                  \cup {Len(q.view) + 1})
     IN  Step(p, IF i > Len(q.view)
                 THEN Fill(q, cut.to, "unlock")
                 ELSE [Fill(q, run[q.view[i]].from, "serve") EXCEPT !.i = i, !.r = q.view[i]])
  /\ UNCHANGED <<run, runs, closed, mu, bytes, calls, entered>>

\* materializeLocked: the gap becomes new runs of at most Chunk, each charged
\* with c.mu let go
Materialize(p) ==
  /\ proc[p].step = "fill" /\ Len(run) < MaxRuns
  /\ LET q == proc[p]
         n == Head(q.cuts).node
         hi == IF q.lo + Chunk > q.hi THEN q.hi ELSE q.lo + Chunk
         r == [from |-> q.lo, to |-> hi, resident |-> TRUE, pinned |-> FALSE]
         s == runs[q.map][n]
         new == Inserted(s, r, Len(run) + 1)
     IN  /\ run' = Append(run, r)
         /\ runs' = [runs EXCEPT ![q.map][n] = new]
         /\ proc' = Walked([proc EXCEPT ![p] = [q EXCEPT !.step = "charge", !.lo = hi,
                                !.delta = BytesOf(r), !.out = @ \o Units(q.lo, hi)]],
                           q.map, n, s, new)
  /\ mu' = None
  /\ UNCHANGED <<closed, bytes, calls, entered>>

\* A resident run serves its slice at once; a hollow one is refilled and charged
\* first, and what was fetched is sliced even when it is evicted meanwhile.
ServeRun(p) ==
  /\ proc[p].step = "serve"
  /\ LET q == proc[p]
         id == q.r
     IN  /\ run' = [run EXCEPT ![id].resident = TRUE]
         /\ LET served == [q EXCEPT !.out = @ \o Units(Max({q.pos, run[id].from}),
                                                       Min({run[id].to, Head(q.cuts).to})),
                                    !.pos = run[id].to, !.i = @ + 1]
            IN  IF run[id].resident
                THEN Step(p, [served EXCEPT !.step = "visit"]) /\ UNCHANGED mu
                ELSE /\ Step(p, [served EXCEPT !.step = "charge", !.then = "visit",
                                               !.lo = q.hi, !.delta = BytesOf(run[id])])
                     /\ mu' = None
  /\ UNCHANGED <<runs, closed, bytes, calls, entered>>

\* The source fails: the call returns its error, and nothing is left behind.
FetchFails(p) ==
  /\ \/ proc[p].step = "fill"
     \/ proc[p].step = "serve" /\ ~run[proc[p].r].resident
  /\ mu' = None /\ Step(p, Idle)
  /\ UNCHANGED <<run, runs, closed, bytes, calls, entered>>

UnlockNode(p) ==
  /\ proc[p].step = "unlock" /\ mu' = None
  /\ LET rest == Tail(proc[p].cuts)
     IN  Step(p, [Idle EXCEPT !.cuts = rest, !.step = IF rest = <<>> THEN "done" ELSE "lock",
                              !.out = proc[p].out, !.from = proc[p].from, !.to = proc[p].to])
  /\ UNCHANGED <<run, runs, closed, bytes, calls, entered>>

Return(p) ==
  /\ proc[p].step = "done" /\ Step(p, Idle)
  /\ UNCHANGED <<run, runs, closed, mu, bytes, calls, entered>>

\* --- Budget.charge ---

Charge(p) ==
  /\ proc[p].step = "charge"
  /\ bytes' = bytes + proc[p].delta
  /\ Step(p, [proc[p] EXCEPT !.step = "check", !.delta = 0])
  /\ UNCHANGED <<run, runs, closed, mu, calls, entered>>

Charged(p) == IF p \in Readers THEN "relock" ELSE "idle"

\* Over the limit, look for a victim; coldest locks c.mu.
PickVictim(p) ==
  /\ proc[p].step = "check"
  /\ bytes > Limit => mu = None
  /\ Step(p, [proc[p] EXCEPT !.step =
       IF bytes > Limit /\ Evictable(closed) # {} THEN "evict" ELSE Charged(p)])
  /\ UNCHANGED <<run, runs, closed, mu, bytes, calls, entered>>

\* evictColdest, for a charge or for TrimIdle; the victim may have raced away.
Evict(p, free, over) ==
  /\ mu = None
  /\ \/ /\ Evictable(closed) = {}
        /\ Step(p, [proc[p] EXCEPT !.step = over])
        /\ UNCHANGED <<run, entered>>
     \/ \E id \in Evictable(closed) :
          LET freed == BytesOf(run[id])
          IN  /\ run' = [run EXCEPT ![id].resident = FALSE]
              /\ Step(p, [proc[p] EXCEPT !.delta = -freed,
                                         !.step = IF freed > 0 THEN free ELSE over])
              /\ entered' = IF freed > 0 THEN entered ELSE entered \cup {"empty"}
  /\ UNCHANGED <<runs, closed, mu, bytes, calls>>

EvictColdest(p) == proc[p].step = "evict" /\ Evict(p, "free", Charged(p))

\* A mutated form: one eviction, whether the budget fits or not.
FreeOnce(p) ==
  /\ proc[p].step \in {"free", "swept", "release"}
  /\ bytes' = bytes + proc[p].delta
  /\ Step(p, [proc[p] EXCEPT !.delta = 0,
       !.step = CASE @ = "free" -> Charged(p) [] @ = "swept" -> "trim" [] OTHER -> "idle"])
  /\ UNCHANGED <<run, runs, closed, mu, calls, entered>>

\* The bytes freed go back: the charge looks again, the sweep goes on, Drop and
\* Close return.
Free(p) ==
  /\ proc[p].step \in {"free", "swept", "release"}
  /\ bytes' = bytes + proc[p].delta
  /\ Step(p, [proc[p] EXCEPT !.delta = 0,
       !.step = CASE @ = "free" -> "check" [] @ = "swept" -> "trim" [] OTHER -> "idle"])
  /\ UNCHANGED <<run, runs, closed, mu, calls, entered>>

\* chargeLocked takes c.mu back, and the fill or the walk goes on.
Relock(p) ==
  /\ proc[p].step = "relock" /\ mu = None /\ mu' = p
  /\ Step(p, [proc[p] EXCEPT !.step = IF proc[p].lo < proc[p].hi THEN "fill" ELSE proc[p].then])
  /\ UNCHANGED <<run, runs, closed, bytes, calls, entered>>

\* --- Put, Drop, Close, TrimIdle ---

\* A mutated form: a replaced run is charged again in full.
PutChargesWhole(p, n, from, to, pinned) ==
  /\ Start(p) /\ from < to /\ to < Base /\ mu = None /\ Len(run) < MaxRuns
  /\ LET r == [from |-> from, to |-> to, resident |-> TRUE, pinned |-> pinned]
         s == runs[closed][n]
         old == At(s, from, to)
         new == Inserted(s, r, Len(run) + 1)
         paying(d, ps) == [ps EXCEPT ![p] = [Idle EXCEPT !.step = "charge", !.delta = d]]
     IN  IF old # None
         THEN /\ run' = [run EXCEPT ![old] = r]
              /\ proc' = paying(BytesOf(r), proc)
              /\ UNCHANGED runs
         ELSE /\ run' = Append(run, r)
              /\ runs' = [runs EXCEPT ![closed][n] = new]
              /\ proc' = paying(BytesOf(r), Walked(proc, closed, n, s, new))
  /\ UNCHANGED <<closed, mu, bytes, entered>>

\* Put replaces the run at exactly this range, or inserts one.
Put(p, n, from, to, pinned) ==
  /\ Start(p) /\ from < to /\ to < Base /\ mu = None /\ Len(run) < MaxRuns
  /\ LET r == [from |-> from, to |-> to, resident |-> TRUE, pinned |-> pinned]
         s == runs[closed][n]
         old == At(s, from, to)
         new == Inserted(s, r, Len(run) + 1)
         paying(d, ps) == [ps EXCEPT ![p] = [Idle EXCEPT !.step = "charge", !.delta = d]]
     IN  IF old # None
         THEN /\ run' = [run EXCEPT ![old] = r]
              /\ proc' = paying(IF run[old].resident THEN 0 ELSE BytesOf(r), proc)
              /\ UNCHANGED runs
         ELSE /\ run' = Append(run, r)
              /\ runs' = [runs EXCEPT ![closed][n] = new]
              /\ proc' = paying(BytesOf(r), Walked(proc, closed, n, s, new))
  /\ UNCHANGED <<closed, mu, bytes, entered>>

Drop(p, n, from, to) ==
  /\ Start(p) /\ mu = None
  /\ LET id == At(runs[closed][n], from, to)
     IN  /\ id # None /\ run[id].resident
         /\ run' = [run EXCEPT ![id].resident = FALSE, ![id].pinned = FALSE]
         /\ Step(p, [Idle EXCEPT !.step = "release", !.delta = -BytesOf(run[id])])
  /\ UNCHANGED <<runs, closed, mu, bytes, entered>>

BeginTrim(p) ==
  /\ Start(p) /\ Step(p, [Idle EXCEPT !.step = "trim"])
  /\ UNCHANGED <<run, runs, closed, mu, bytes, entered>>

\* TrimIdle: stop at a run read since the cutoff, or evict and go on
TrimIdle(p) ==
  /\ proc[p].step = "trim"
  /\ \/ Evict(p, "swept", "idle")
     \/ mu = None /\ Step(p, Idle) /\ UNCHANGED <<run, runs, closed, mu, bytes, calls, entered>>

ResidentBytes(ids) ==
  MapThenSumSet(LAMBDA id : IF run[id].resident THEN BytesOf(run[id]) ELSE 0, ids)
Counted(g) == UNION {Range(runs[g][n]) : n \in Nodes}

Close(p) ==
  /\ Start(p) /\ mu = None
  /\ closed' = 1
  /\ Step(p, [Idle EXCEPT !.step = "release", !.delta = -ResidentBytes(Counted(0))])
  /\ entered' = IF \E q \in Procs \ {p} : proc[q].step # "idle"
                THEN entered \cup {"ghost"} ELSE entered
  /\ UNCHANGED <<run, runs, mu, bytes>>

RangeStep(p) ==
  \/ \E from \in From, to \in To : BeginRange(p, from, to)
  \/ LockNode(p) \/ Visit(p) \/ Materialize(p) \/ ServeRun(p)
  \/ FetchFails(p) \/ UnlockNode(p) \/ Return(p) \/ Relock(p)

OwnerStep(p) ==
  \/ \E from \in From, to \in To, pinned \in BOOLEAN : Put(p, "root", from, to, pinned)
  \/ \E from \in From, to \in To : Drop(p, "root", from, to)
  \/ BeginTrim(p) \/ TrimIdle(p) \/ Close(p)

BudgetStep(p) == Charge(p) \/ PickVictim(p) \/ EvictColdest(p) \/ Free(p)

Next ==
  \/ \E p \in Readers : RangeStep(p)
  \/ \E p \in Owners : OwnerStep(p)
  \/ \E p \in Procs : BudgetStep(p)

Spec == Init /\ [][Next]_vars

\* --- properties ---

\* Range (cache.go:140) returns the units of the range it was asked for, each
\* once and in order, whatever was inserted, evicted, replaced or dropped while it
\* had let c.mu go, and even when the run it just filled was evicted again.
RangeReturnsUnits ==
  \A p \in Readers : proc[p].step = "done" => proc[p].out = Units(proc[p].from, proc[p].to)

\* Budget (forest.go:133, "the meter still tells the truth"): what it counts is
\* the bytes resident, but for what calls in progress have still to add or return.
\* Close under a call is left out: what that call then adds is never returned.
MeterIsTrue ==
  "ghost" \notin entered =>
    bytes + MapThenSumSet(LAMBDA p : IF proc[p].step \in {"charge", "free", "swept", "release"}
                                     THEN proc[p].delta ELSE 0, Procs)
      = IF closed = 1 THEN 0 ELSE ResidentBytes(Counted(0))

\* charge (forest.go:111) "evicts the globally coldest runs until the budget
\* fits": with no charge or sweep under way the bytes are within the limit, or only
\* pinned runs are left.  A run without bytes ends the loop early and is left out.
BudgetFits ==
  (/\ entered = {}
   /\ \A p \in Procs : proc[p].step \notin {"charge", "check", "evict", "free", "swept", "release"})
     => bytes <= Limit \/ Evictable(closed) = {}
=============================================================================
