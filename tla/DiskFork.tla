------------------------------ MODULE DiskFork ------------------------------
(***************************************************************************)
(* disk.Log.Fork: splitting a log at an index into nested directories.     *)
(* The directory keeps the prefix and becomes a read-only branch point;    *)
(* the records at and after the index move to its "old future"             *)
(* subdirectory, a new empty child starts at the index, and child forks    *)
(* that descend from the moved records move with them.  A directory names  *)
(* its parent by being inside it, so every rename below changes what some  *)
(* lineage reads.                                                          *)
(*                                                                         *)
(* A fork is many system calls behind a .fork-pending sentinel.  One of    *)
(* them may fail, or the process may be killed between any two.  Records   *)
(* are numbered by birth.  Segments are fsynced here (the fork does so     *)
(* first); DiskLog is about the ones that are not.                         *)
(***************************************************************************)
EXTENDS Naturals, Sequences, FiniteSets, SequencesExt

CONSTANTS
  Names,        \* names a caller may give to a child or an old future
  RootName,     \* the base name of the top directory
  Capacity,     \* records per segment
  MaxBorn,      \* bound: records written
  MaxForks      \* bound: forks begun

VARIABLES
  headered,     \* the log is reducible: segments begin with a header
  tree,         \* path -> directory; a path is the names below the top
  pc, plan,     \* the fork in progress: its next step and what it decided
  broken,       \* a fork failed and left its files "for the operator"
  born, forks

vars == <<headered, tree, pc, plan, broken, born, forks>>

\* want is the history: all records the lineage ending here must read.
Directory(segs, base, want) ==
  [segs |-> segs, base |-> base, pending |-> FALSE, tmp |-> <<>>, want |-> want]
Segment(base, hdr, recs) == [base |-> base, hdr |-> hdr, recs |-> recs]

BaseName(p) == IF p = <<>> THEN RootName ELSE Last(p)
Kids(p) == {n \in Names \cup {RootName} : Append(p, n) \in DOMAIN tree}
SegLast(s) == s.base + Len(s.recs) - 1
Empty(d) == \A i \in DOMAIN d.segs : d.segs[i].recs = <<>>
FirstOwn(d) == d.segs[1].base
LastOwn(d) == IF Empty(d) THEN 0 ELSE SegLast(Last(SelectSeq(d.segs, LAMBDA s : s.recs # <<>>)))

\* Reads climb `..` while the index is below the directory's marker.
Above(p) == {SubSeq(p, 1, k) : k \in 0..Len(p)}
Server(p, i) ==
  CHOOSE q \in Above(p) :
    /\ i >= tree[q].base
    /\ \A r \in Above(p) : Len(r) > Len(q) => i < tree[r].base
SegAt(p, i) == SelectSeq(tree[Server(p, i)].segs, LAMBDA s : s.base <= i /\ i <= SegLast(s))
Reads(p, i) == SegAt(p, i) # <<>>
Read(p, i) == LET s == SegAt(p, i)[1] IN s.recs[i - s.base + 1]
StateAt(p, i) == LET s == SegAt(p, i)[1] IN s.hdr \o SubSeq(s.recs, 1, i - s.base + 1)
LastIndex(p) ==
  IF ~Empty(tree[p]) THEN LastOwn(tree[p])
  ELSE IF tree[p].base > 0 THEN tree[p].base - 1 ELSE 0

\* Open refuses a directory with the sentinel, and opens every parent.
Opens(p) == \A q \in Above(p) : ~tree[q].pending

-----------------------------------------------------------------------------
(* Write on a leaf, as DiskLog has it: rotation and the header included.    *)

HeaderFor(p) ==
  LET d == tree[p]
  IN  IF ~headered THEN <<>>
      ELSE IF d.segs # <<>> THEN Last(d.segs).hdr \o Last(d.segs).recs
      ELSE IF d.base > 1 THEN StateAt(p, d.base - 1) ELSE <<>>
Write(p) ==
  /\ pc = "idle" /\ ~broken /\ born < MaxBorn
  /\ Opens(p) /\ Kids(p) = {}
  /\ LET d == tree[p]
         full == d.segs = <<>> \/ Len(Last(d.segs).recs) = Capacity
         segs == IF full THEN Append(d.segs, Segment(LastIndex(p) + 1, HeaderFor(p), <<born + 1>>))
                         ELSE [d.segs EXCEPT ![Len(d.segs)].recs = Append(@, born + 1)]
     IN  tree' = [tree EXCEPT ![p].segs = segs, ![p].want = Append(@, born + 1)]
  /\ born' = born + 1
  /\ UNCHANGED <<headered, pc, plan, broken, forks>>

-----------------------------------------------------------------------------
(* Fork.                                                                    *)

\* The index must leave a prefix, except in a fork, whose own records may all
\* move, and in an empty log, which forks only where it would write next.
IndexOK(d, at) ==
  IF Empty(d) THEN at = IF d.base = 0 THEN 1 ELSE d.base
  ELSE /\ at > FirstOwn(d) \/ (d.base > 0 /\ at = FirstOwn(d))
       /\ at <= LastOwn(d) + 1
Keeps(s, at) == SegLast(s) < at
Moves(s, at) == s.recs # <<>> /\ s.base >= at
Splits(s, at) == ~Keeps(s, at) /\ ~Moves(s, at) /\ s.recs # <<>>

\* A mutated form: children stay where they are.
RehomeNone(p, at, explicit) == {}
\* Which children move with the suffix: all of them when records move, or the
\* caller's list (ForkRehome), here the children that start above the split.
Rehome(p, at, explicit) ==
  IF explicit THEN {n \in Kids(p) : tree[Append(p, n)].base > at}
  ELSE IF \E i \in DOMAIN tree[p].segs :
            LET s == tree[p].segs[i] IN Moves(s, at) \/ Splits(s, at)
       THEN Kids(p) ELSE {}

\* A mutated form: the last segment's header, its records not folded.
WatermarkOfSegment(p, at) ==
  IF ~headered \/ tree[p].segs = <<>> THEN <<>> ELSE Last(tree[p].segs).hdr
\* The state at at-1, computed while the log is whole; where no segment holds
\* at-1 (a fork of an empty log, forked at 1) the fork is refused.
Watermark(p, at) ==
  LET d == tree[p]
  IN  IF ~headered THEN <<>>
      ELSE IF Empty(d) THEN IF d.segs # <<>> THEN Last(d.segs).hdr
                            ELSE IF at > 1 THEN StateAt(p, at - 1) ELSE <<>>
      ELSE StateAt(p, at - 1)

\* Validation and planning, ending with the sentinel.  old = "" is the default
\* name, which an old future is only created under when records move.
BeginFork(p, at, child, old, explicit) ==
  /\ pc = "idle" /\ ~broken /\ forks < MaxForks
  /\ Opens(p)
  /\ LET d == tree[p]
         name == IF old = "" THEN BaseName(p) ELSE old
         rehome == Rehome(p, at, explicit)
         dataMoves == \E i \in DOMAIN d.segs : Moves(d.segs[i], at) \/ Splits(d.segs[i], at)
         makeOld == old # "" \/ dataMoves \/ rehome # {}
     IN  /\ child # name /\ child \notin Kids(p)
         /\ IndexOK(d, at)
         /\ (headered /\ ~Empty(d)) => Reads(p, at - 1)
         /\ makeOld => name \notin Kids(p)
         /\ plan' = [dir |-> p, at |-> at, child |-> Append(p, child),
                     old |-> Append(p, name), makeOld |-> makeOld,
                     rehome |-> rehome, watermark |-> Watermark(p, at)]
  /\ tree' = [tree EXCEPT ![p].pending = TRUE]
  /\ pc' = "dirs"
  /\ forks' = forks + 1
  /\ UNCHANGED <<headered, broken, born>>

Forked == tree[plan.dir]
Boundary == SelectSeq(Forked.segs, LAMBDA s : Splits(s, plan.at))
MoveSet == {s \in Range(Forked.segs) : Moves(s, plan.at)}
Prefix(s) == Segment(s.base, s.hdr, SubSeq(s.recs, 1, plan.at - s.base))
Suffix(s) == Segment(plan.at, plan.watermark, SubSeq(s.recs, plan.at - s.base + 1, Len(s.recs)))

\* The subdirectories; in header mode a header-only segment seeds the child,
\* and the old future when no segment of its own begins at the split.
MakeDirs ==
  /\ pc = "dirs"
  /\ LET want == SubSeq(Forked.want, 1, plan.at - 1)
         seed == IF headered THEN <<Segment(plan.at, plan.watermark, <<>>)>> ELSE <<>>
         oldSeed == IF Boundary # <<>> \/ \E s \in MoveSet : s.base = plan.at THEN <<>> ELSE seed
     IN  tree' = [q \in DOMAIN tree \cup {plan.child} \cup (IF plan.makeOld THEN {plan.old} ELSE {}) |->
                   IF q = plan.child THEN Directory(seed, 0, want)
                   ELSE IF q = plan.old /\ plan.makeOld THEN Directory(oldSeed, 0, Forked.want)
                   ELSE IF q = plan.dir /\ plan.makeOld THEN [tree[q] EXCEPT !.want = want]
                   ELSE tree[q]]
  /\ pc' = "split"
  /\ UNCHANGED <<headered, plan, broken, born, forks>>

\* A mutated form: the prefix replaces the segment before the suffix is written.
SplitPrefixFirst ==
  /\ pc = "split"
  /\ tree' = IF Boundary = <<>> THEN tree
             ELSE [tree EXCEPT ![plan.dir].segs =
                     [i \in DOMAIN @ |-> IF Splits(@[i], plan.at) THEN Prefix(@[i]) ELSE @[i]]]
  /\ pc' = "swap"
  /\ UNCHANGED <<headered, plan, broken, born, forks>>
\* The boundary segment: its prefix to a temporary file, its suffix to the old
\* future, both fsynced, and only then the prefix renamed over the original.
SplitBoundary ==
  /\ pc = "split"
  /\ tree' = IF Boundary = <<>> THEN tree
             ELSE [tree EXCEPT ![plan.dir].tmp = <<Prefix(Boundary[1])>>,
                               ![plan.old].segs = Append(@, Suffix(Boundary[1]))]
  /\ pc' = "swap"
  /\ UNCHANGED <<headered, plan, broken, born, forks>>
SwapPrefix ==
  /\ pc = "swap"
  /\ tree' = IF Forked.tmp = <<>> THEN tree
             ELSE [tree EXCEPT ![plan.dir].tmp = <<>>,
                     ![plan.dir].segs =
                       [i \in DOMAIN @ |-> IF Splits(@[i], plan.at) THEN Prefix(@[i]) ELSE @[i]]]
  /\ pc' = "move"
  /\ UNCHANGED <<headered, plan, broken, born, forks>>

\* Whole segments are renamed into the old future, oldest first.
MoveSegment ==
  /\ pc = "move" /\ MoveSet # {}
  /\ LET s == CHOOSE s \in MoveSet : \A t \in MoveSet : s.base <= t.base
     IN  tree' = [tree EXCEPT ![plan.old].segs = Append(@, s),
                              ![plan.dir].segs = SelectSeq(@, LAMBDA t : t # s)]
  /\ UNCHANGED <<headered, pc, plan, broken, born, forks>>

\* A child is renamed into the old future, and everything below it moves along.
Under(q, p) == Len(p) <= Len(q) /\ SubSeq(q, 1, Len(p)) = p
Rename(q, src, dst) == IF Under(q, src) THEN dst \o SubSeq(q, Len(src) + 1, Len(q)) ELSE q
RehomeChild ==
  /\ pc = "move" /\ MoveSet = {}
  /\ \E n \in plan.rehome :
       LET src == Append(plan.dir, n)
           dst == Append(plan.old, n)
       IN  /\ src \in DOMAIN tree
           /\ tree' = [q \in {Rename(x, src, dst) : x \in DOMAIN tree} |->
                        tree[CHOOSE x \in DOMAIN tree : Rename(x, src, dst) = q]]
           /\ plan' = [plan EXCEPT !.rehome = @ \ {n}]
  /\ UNCHANGED <<headered, pc, broken, born, forks>>

\* The .fork markers, the old future's first.
MarkOld ==
  /\ pc = "move" /\ MoveSet = {} /\ plan.rehome = {}
  /\ tree' = IF plan.makeOld THEN [tree EXCEPT ![plan.old].base = plan.at] ELSE tree
  /\ pc' = "mark"
  /\ UNCHANGED <<headered, plan, broken, born, forks>>
MarkChild ==
  /\ pc = "mark"
  /\ tree' = [tree EXCEPT ![plan.child].base = plan.at]
  /\ pc' = "finish"
  /\ UNCHANGED <<headered, plan, broken, born, forks>>
NoPlan == [dir |-> <<>>, at |-> 0, child |-> <<>>, old |-> <<>>, makeOld |-> FALSE,
           rehome |-> {}, watermark |-> <<>>]
\* The sentinel goes last.
Finish ==
  /\ pc = "finish"
  /\ tree' = [tree EXCEPT ![plan.dir].pending = FALSE]
  /\ pc' = "idle" /\ plan' = NoPlan
  /\ UNCHANGED <<headered, broken, born, forks>>

\* rollbackPending: a failing call clears the sentinel and leaves the rest.
Fail ==
  /\ pc # "idle"
  /\ tree' = [tree EXCEPT ![plan.dir].pending = FALSE]
  /\ pc' = "idle" /\ plan' = NoPlan
  /\ broken' = TRUE
  /\ UNCHANGED <<headered, born, forks>>
\* The process is killed; the sentinel stays.
Kill ==
  /\ pc # "idle"
  /\ pc' = "idle" /\ plan' = NoPlan
  /\ UNCHANGED <<headered, tree, broken, born, forks>>

-----------------------------------------------------------------------------
Init ==
  /\ headered \in BOOLEAN
  /\ tree = [p \in {<<>>} |-> Directory(<<>>, 0, <<>>)]
  /\ pc = "idle" /\ plan = NoPlan /\ broken = FALSE
  /\ born = 0 /\ forks = 0

Next ==
  \/ \E p \in DOMAIN tree : Write(p)
  \/ \E p \in DOMAIN tree, at \in 1..MaxBorn + 1, child \in Names,
        old \in Names \cup {""}, explicit \in BOOLEAN :
       BeginFork(p, at, child, old, explicit)
  \/ MakeDirs \/ SplitBoundary \/ SwapPrefix \/ MoveSegment \/ RehomeChild
  \/ MarkOld \/ MarkChild \/ Finish
  \/ Fail \/ Kill

Spec == Init /\ [][Next]_vars

-----------------------------------------------------------------------------
\* Every lineage that Open accepts reads exactly its history, whatever was
\* forked, re-split or re-homed around it, and whenever a fork was killed:
\* a half-made fork is always behind its sentinel.  (A fork that failed clears
\* the sentinel and leaves its files for the operator.)
LineagesIntact ==
  ~broken =>
    \A p \in DOMAIN tree : Opens(p) =>
      /\ LastIndex(p) = Len(tree[p].want)
      /\ \A i \in 1..Len(tree[p].want) : Reads(p, i) /\ Read(p, i) = tree[p].want[i]

\* In a reducible log every segment a lineage opens starts from the fold of
\* exactly the records before it, so both branches of a fork keep the state.
HeadersFold ==
  (headered /\ ~broken) =>
    \A p \in DOMAIN tree : Opens(p) =>
      \A i \in DOMAIN tree[p].segs :
        LET s == tree[p].segs[i] IN s.hdr = SubSeq(tree[p].want, 1, s.base - 1)

\* At every instant of a fork, whether it then fails or is killed, each record
\* ever written is in some segment file of the tree.
NothingLost ==
  \A r \in 1..born :
    \E p \in DOMAIN tree : \E i \in DOMAIN tree[p].segs : r \in Range(tree[p].segs[i].recs)
=============================================================================
