------------------------------ MODULE Channels ------------------------------
(***************************************************************************)
(* How a related channel comes to exist in a store that already has nodes. *)
(* The first append that misses it creates it (Store.autoCreateChannel):   *)
(* a .channel-pending plan is written, every node of the main channel gets *)
(* a directory with its fork base and its watermark, the manifest lists    *)
(* the channel, and the plan is removed.  An open completes a plan it      *)
(* finds, and materializes a channel the manifest lists without a          *)
(* directory.  RenameChannel moves a channel under another name while the  *)
(* store is closed; Clear empties a node's channel.                        *)
(*                                                                         *)
(* The channel is reducible: a record is a patch, the folded state is the  *)
(* sequence of the patches applied, and a segment's header is the state    *)
(* before its first record.  Every file operation is a step.               *)
(***************************************************************************)
EXTENDS Naturals, Sequences, SequencesExt

CONSTANTS
  Old, New,        \* the channel's name, and the one a migration gives it
  Writers,         \* goroutines that append to the channel
  MaxNode,         \* bound: nodes 1..MaxNode; 0 is the channel root
  MaxBorn,         \* bound: records
  MaxFaults        \* bound: failed file operations and kills

ASSUME NamesAssumption == Old # New /\ Writers # {}

VARIABLES
  parent,          \* node -> the node it was forked from, for the nodes there are
  dirs,            \* name -> node -> directory
  manifest,        \* the related channels xwal.json lists
  plan,            \* the channels .channel-pending names: at most one
  build,           \* the name by which the running build knows the channel
  mode,            \* "down", "starting", "up", or "refused": the open failed
  job,             \* the mutation that holds the topology
  missed,          \* writers that got ErrNoChannel and will create the channel
  want,            \* node -> the patches its reader must see
  born, faults,
  entered          \* history: "twice", a plan was to run over a channel that forks
                   \* inherit from; "stale", a migration ran while a plan was
                   \* pending; "clear", a clear stopped half way or emptied a node
                   \* that others read through

vars == <<parent, dirs, manifest, plan, build, mode, job, missed, want, born, faults, entered>>
files == <<dirs, manifest, plan>>
history == <<parent, want, born>>

Root == 0
Nodes == 0..MaxNode
Names == {Old, New}
NoSeg == [there |-> FALSE, base |-> 0, head |-> <<>>, recs |-> <<>>]
Seg(base, head, recs) == [there |-> TRUE, base |-> base, head |-> head, recs |-> recs]
NoDir == [there |-> FALSE, fork |-> 0, seg |-> NoSeg]
NoTree == [n \in Nodes |-> NoDir]
Idle == [who |-> "nobody", step |-> "none", pass |-> 0, todo |-> <<>>]
Live == {n \in Nodes : n = Root \/ parent[n] \in Nodes \ {n}}
InOrder == SetToSortSeq(Live, <)
Entering(window, in) == IF in THEN entered \cup {window} ELSE entered

-----------------------------------------------------------------------------
(* Reading: own records from the fork base up, older ones through the chain. *)

ChannelDir(c, n) == IF dirs[c][n].there THEN n ELSE Root
Above(c, n) ==
  LET up[m \in Nodes] == IF m = Root \/ dirs[c][m].there THEN m ELSE up[parent[m]]
  IN  up[parent[n]]
SegLast(s) == s.base + Len(s.recs) - 1
LastIndex(c, n) ==
  LET d == dirs[c][ChannelDir(c, n)]
  IN  IF d.seg.there /\ d.seg.recs # <<>> THEN SegLast(d.seg)
      ELSE IF d.fork > 0 THEN d.fork - 1 ELSE 0
\* StateAt(i): the header of the segment that holds i, and its records up to i.
StateAt(c, n, i) ==
  LET at[m \in Nodes] ==
        LET s == dirs[c][m].seg
        IN  IF s.there /\ i \in s.base - 1..SegLast(s) THEN s.head \o SubSeq(s.recs, 1, i - s.base + 1)
            ELSE IF m = Root \/ i >= dirs[c][m].fork THEN <<>>
            ELSE at[Above(c, m)]
  IN  at[ChannelDir(c, n)]

\* AppendChannel.  The first record of a node makes its first segment, headed
\* by the parent's state before the fork base.
Write(c, n) ==
  LET d == dirs[c][n]
      base == LastIndex(c, n) + 1
      seg == IF d.seg.there THEN [d.seg EXCEPT !.recs = Append(@, born + 1)]
             ELSE Seg(base, StateAt(c, n, base - 1), <<born + 1>>)
  IN  /\ dirs' = [dirs EXCEPT ![c][n].seg = seg]
      /\ want' = [want EXCEPT ![n] = Append(@, born + 1)]
      /\ born' = born + 1
AppendRecord(n) ==
  /\ mode = "up" /\ job = Idle /\ plan = {} /\ born < MaxBorn
  /\ n \in Live \ {Root}
  /\ build \in manifest /\ dirs[build][n].there
  /\ Write(build, n)
  /\ UNCHANGED <<parent, manifest, plan, build, mode, job, missed, faults, entered>>

\* Store.Append finds no such channel.
Miss(w) ==
  /\ mode = "up" /\ job = Idle
  /\ build \notin manifest /\ w \notin missed
  /\ missed' = missed \cup {w}
  /\ UNCHANGED <<files, history, build, mode, job, faults, entered>>

\* A tail fork: each channel the manifest lists starts after the parent's tail.
Fork(p, n) ==
  /\ mode = "up" /\ job = Idle /\ plan = {}
  /\ p \in Live /\ n \notin Live /\ n - 1 \in Live
  /\ parent' = [parent EXCEPT ![n] = p]
  /\ dirs' = IF build \in manifest
             THEN [dirs EXCEPT ![build][n] =
                     [there |-> TRUE, fork |-> LastIndex(build, p) + 1, seg |-> NoSeg]]
             ELSE dirs
  /\ want' = [want EXCEPT ![n] = want[p]]
  /\ UNCHANGED <<manifest, plan, build, mode, job, missed, born, faults, entered>>

-----------------------------------------------------------------------------
(* Creating the channel.                                                    *)

\* ensureChannel: complete any plan first, then write one and complete it.
Ensure(w) ==
  /\ mode = "up" /\ job = Idle /\ w \in missed
  /\ job' = [who |-> w, step |-> IF plan = {} THEN "plan" ELSE "fill", pass |-> 1, todo |-> InOrder]
  /\ missed' = missed \ {w}
  /\ UNCHANGED <<files, history, build, mode, faults, entered>>

\* A failed call has left its plan, and the hot logs are retired: whatever opens
\* a node next (an append, a fork, a clear) completes the plan first.
OpenHead ==
  /\ mode = "up" /\ job = Idle /\ plan # {}
  /\ job' = [who |-> "head", step |-> "fill", pass |-> 2, todo |-> InOrder]
  /\ UNCHANGED <<files, history, build, mode, missed, faults, entered>>

\* A plan can be completed when backfillWatermarkState finds the state each
\* fork starts from; it looks for it in the channel root.
Has(c, i) == i <= LastIndex(c, Root)
Completes(c) == \A n \in Live \ {Root} : dirs[c][n].fork > 1 => Has(c, dirs[c][n].fork - 1)

WritePlan ==
  /\ job.step = "plan"
  /\ entered' = Entering("twice", ~Completes(build))
  /\ plan' = {build}
  /\ job' = [job EXCEPT !.step = "fill", !.pass = 2, !.todo = InOrder]
  /\ UNCHANGED <<dirs, manifest, history, build, mode, missed, faults>>

\* backfillChannel visits the root, then every node of the main channel.
Planned == CHOOSE c \in plan : TRUE
FillState(n) ==
  LET b == dirs[Planned][n].fork
  IN  IF b <= 1 THEN <<>> ELSE StateAt(Planned, Root, b - 1)
MakeDir ==
  /\ job.step = "fill" /\ job.todo # <<>>
  /\ ~dirs[Planned][Head(job.todo)].there
  /\ dirs' = [dirs EXCEPT ![Planned][Head(job.todo)] = [NoDir EXCEPT !.there = TRUE]]
  /\ UNCHANGED <<manifest, plan, history, build, mode, job, missed, faults, entered>>

\* ensureBackfillFork: a marker keeps its base, a segment gives it, and a node
\* with neither starts after the channel root's tail.
NeedsFork(n) == n # Root /\ dirs[Planned][n].fork = 0 /\ ~dirs[Planned][n].seg.there
\* A mutated form: the base skips an index.
WriteForkPastTail ==
  /\ job.step = "fill" /\ job.todo # <<>>
  /\ LET n == Head(job.todo)
     IN  /\ dirs[Planned][n].there /\ NeedsFork(n)
         /\ dirs' = [dirs EXCEPT ![Planned][n].fork = LastIndex(Planned, Root) + 2]
  /\ UNCHANGED <<manifest, plan, history, build, mode, job, missed, faults, entered>>
WriteFork ==
  /\ job.step = "fill" /\ job.todo # <<>>
  /\ LET n == Head(job.todo)
     IN  /\ dirs[Planned][n].there /\ NeedsFork(n)
         /\ dirs' = [dirs EXCEPT ![Planned][n].fork = LastIndex(Planned, Root) + 1]
  /\ UNCHANGED <<manifest, plan, history, build, mode, job, missed, faults, entered>>

\* A mutated form: the segment is written anew, without its records.
MarkAnew(n) ==
  LET d == dirs[Planned][n]
      base == IF d.fork = 0 THEN 1 ELSE d.fork
  IN  Seg(base, FillState(n), <<>>)
\* ensureWatermark: the segment at the base gets the header it should have and
\* keeps its records.
Mark(n) ==
  LET d == dirs[Planned][n]
      base == IF d.fork = 0 THEN 1 ELSE d.fork
  IN  Seg(base, FillState(n), IF d.seg.there /\ d.seg.base = base THEN d.seg.recs ELSE <<>>)
WriteMark ==
  /\ job.step = "fill" /\ job.todo # <<>>
  /\ LET n == Head(job.todo)
     IN  /\ dirs[Planned][n].there /\ ~NeedsFork(n)
         /\ dirs[Planned][n].fork > 1 => Has(Planned, dirs[Planned][n].fork - 1)
         /\ dirs' = [dirs EXCEPT ![Planned][n].seg = Mark(n)]
  /\ job' = [job EXCEPT !.todo = Tail(@)]
  /\ UNCHANGED <<manifest, plan, history, build, mode, missed, faults, entered>>

\* The state of the fork is not in the channel root: the error ends the job and
\* the plan stays.
FillFails ==
  /\ job.step = "fill" /\ job.todo # <<>>
  /\ LET n == Head(job.todo)
     IN  dirs[Planned][n].fork > 1 /\ ~Has(Planned, dirs[Planned][n].fork - 1)
  /\ job' = Idle
  /\ mode' = IF mode = "starting" THEN "refused" ELSE mode
  /\ UNCHANGED <<files, history, build, missed, faults, entered>>

\* A mutated form: the manifest does not wait for the backfill.
WriteManifestEarly ==
  /\ job.step = "fill"
  /\ manifest' = manifest \cup plan
  /\ job' = [job EXCEPT !.step = "unplan"]
  /\ UNCHANGED <<dirs, plan, history, build, mode, missed, faults, entered>>
WriteManifest ==
  /\ job.step = "fill" /\ job.todo = <<>>
  /\ manifest' = manifest \cup plan
  /\ job' = [job EXCEPT !.step = "unplan"]
  /\ UNCHANGED <<dirs, plan, history, build, mode, missed, faults, entered>>
\* An open goes on to what the manifest lists, ensureChannel to its own plan.
RemovePlan ==
  /\ job.step = "unplan"
  /\ plan' = {}
  /\ job' = IF job.who = "open" THEN [Idle EXCEPT !.who = "open", !.step = "materialize"]
            ELSE IF job.pass = 1 THEN [job EXCEPT !.step = "plan"] ELSE Idle
  /\ UNCHANGED <<dirs, manifest, history, build, mode, missed, faults, entered>>

-----------------------------------------------------------------------------
(* Starting: a build that knows the new name migrates before it opens.      *)

Start ==
  /\ mode = "down"
  /\ mode' = "starting"
  /\ job' = [Idle EXCEPT !.who = "open", !.step = IF build = New THEN "move" ELSE "recover"]
  /\ UNCHANGED <<files, history, build, missed, faults, entered>>
Close ==
  /\ mode = "up" /\ job = Idle
  /\ mode' = "down" /\ missed' = {}
  /\ UNCHANGED <<files, history, build, job, faults, entered>>
Upgrade ==
  /\ mode = "down" /\ build = Old
  /\ build' = New
  /\ UNCHANGED <<files, history, mode, job, missed, faults, entered>>

\* A mutated form: only the manifest is renamed.
MoveDirSkipped ==
  /\ job.step = "move"
  /\ entered' = Entering("stale", Old \in plan)
  /\ IF Old \notin manifest
     THEN /\ job' = [job EXCEPT !.step = "recover"]
          /\ UNCHANGED dirs
     ELSE /\ UNCHANGED dirs
          /\ job' = [job EXCEPT !.step = "rename"]
  /\ UNCHANGED <<manifest, plan, history, build, mode, missed, faults>>
\* RenameChannel: the directory first, then the manifest.  A store whose
\* manifest has only the new name, or neither, has nothing to rename; both at
\* once would be refused, and no store that migrates before it opens has both.
MoveDir ==
  /\ job.step = "move"
  /\ entered' = Entering("stale", Old \in plan)
  /\ IF Old \notin manifest
     THEN /\ job' = [job EXCEPT !.step = "recover"]
          /\ UNCHANGED dirs
     ELSE /\ dirs' = IF dirs[Old][Root].there
                     THEN [dirs EXCEPT ![New] = dirs[Old], ![Old] = NoTree] ELSE dirs
          /\ job' = [job EXCEPT !.step = "rename"]
  /\ UNCHANGED <<manifest, plan, history, build, mode, missed, faults>>
RenameEntry ==
  /\ job.step = "rename"
  /\ manifest' = (manifest \ {Old}) \cup {New}
  /\ job' = [job EXCEPT !.step = "recover"]
  /\ UNCHANGED <<dirs, plan, history, build, mode, missed, faults, entered>>

\* openTrunks: recoverChannelPending, then materializeManifestChannels.  A build
\* has a reducer for the name it knows only.
Recover ==
  /\ job.step = "recover"
  /\ plan \subseteq {build}
  /\ job' = IF plan # {} THEN [job EXCEPT !.step = "fill", !.todo = InOrder]
                         ELSE [job EXCEPT !.step = "materialize"]
  /\ UNCHANGED <<files, history, build, mode, missed, faults, entered>>
NoReducer ==
  /\ job.step = "recover"
  /\ ~(plan \subseteq {build})
  /\ job' = Idle /\ mode' = "refused"
  /\ UNCHANGED <<files, history, build, missed, faults, entered>>
Materialize ==
  /\ job.step = "materialize"
  /\ IF build \in manifest /\ ~dirs[build][Root].there
     THEN job' = [job EXCEPT !.step = "plan"] /\ UNCHANGED mode
     ELSE job' = Idle /\ mode' = "up"
  /\ UNCHANGED <<files, history, build, missed, faults, entered>>

-----------------------------------------------------------------------------
(* Clear: wipe the directory, make it again, seed it.                       *)

BeginClear(n) ==
  /\ mode = "up" /\ job = Idle /\ plan = {} /\ build \in manifest
  /\ n \in Live \ {Root} /\ dirs[build][n].there
  /\ entered' = Entering("clear", \E m \in Live : parent[m] = n)
  /\ dirs' = [dirs EXCEPT ![build][n] = NoDir]
  /\ want' = [want EXCEPT ![n] = <<>>]
  /\ job' = [Idle EXCEPT !.who = "clear", !.step = "seed", !.todo = <<n>>]
  /\ UNCHANGED <<parent, manifest, plan, build, mode, missed, born, faults>>
Seeded == [there |-> TRUE, fork |-> 0, seg |-> Seg(1, <<>>, <<>>)]
FinishClear ==
  /\ job.step = "seed"
  /\ dirs' = [dirs EXCEPT ![build][Head(job.todo)] = Seeded]
  /\ job' = Idle
  /\ UNCHANGED <<manifest, plan, history, build, mode, missed, faults, entered>>

-----------------------------------------------------------------------------
\* A file operation fails: the call returns, what it wrote stays.
Fail ==
  /\ mode \in {"up", "starting"} /\ job.step \in {"plan", "fill", "unplan", "seed"}
  /\ entered' = Entering("clear", job.step = "seed")
  /\ faults < MaxFaults /\ faults' = faults + 1
  /\ job' = Idle
  /\ mode' = IF mode = "starting" THEN "down" ELSE mode
  /\ UNCHANGED <<files, history, build, missed>>
Kill ==
  /\ mode \in {"up", "starting"}
  /\ entered' = Entering("clear", job.step = "seed")
  /\ faults < MaxFaults /\ faults' = faults + 1
  /\ mode' = "down" /\ job' = Idle /\ missed' = {}
  /\ UNCHANGED <<files, history, build>>

\* A store with one node, of an earlier build: its manifest does not list the
\* channel, or lists it with nothing on disk.
Init ==
  /\ parent = [n \in Nodes |-> IF n <= 1 THEN Root ELSE n]
  /\ dirs = [c \in Names |-> NoTree]
  /\ manifest \in {{}, {Old}}
  /\ plan = {} /\ build = Old /\ mode = "down" /\ job = Idle /\ missed = {}
  /\ want = [n \in Nodes |-> <<>>]
  /\ born = 0 /\ faults = 0 /\ entered = {}

Next ==
  \/ \E n \in Nodes : AppendRecord(n) \/ BeginClear(n) \/ \E p \in Nodes : Fork(p, n)
  \/ \E w \in Writers : Miss(w) \/ Ensure(w)
  \/ OpenHead \/ WritePlan \/ MakeDir \/ WriteFork \/ WriteMark \/ FillFails \/ WriteManifest \/ RemovePlan
  \/ Start \/ Close \/ Upgrade \/ MoveDir \/ RenameEntry \/ Recover \/ NoReducer \/ Materialize
  \/ FinishClear \/ Fail \/ Kill

Spec == Init /\ [][Next]_vars

-----------------------------------------------------------------------------
\* Creating the channel again is harmless, as the test of EnsureChannel calls it
\* idempotent: two writers that both missed the channel, one creating it after
\* the other has written and forked, never leave a store that cannot be opened.
EnsureIsIdempotent == mode = "refused" => "stale" \in entered

\* An open refuses a plan only if the plan met a channel that forks inherit
\* from, or a migration met the plan: completing a plan again, over whatever
\* part of it was done before a crash, succeeds.
PlansComplete == mode = "refused" => entered \cap {"twice", "stale"} # {}

\* Once the store is up and the manifest lists the channel, every node has its
\* own directory in it, so no node's appends fall through to the channel root.
EveryNodeHasChannel ==
  (mode = "up" /\ job = Idle /\ build \in manifest /\ "clear" \notin entered) =>
    \A n \in Live : dirs[build][n].there

\* Each node folds exactly the patches written to it and inherited at its fork,
\* whatever was backfilled, completed again, renamed or cleared around it.
NodesFoldTheirPatches ==
  (mode = "up" /\ job = Idle /\ build \in manifest /\ "clear" \notin entered) =>
    \A n \in Live \ {Root} :
      /\ LastIndex(build, n) = Len(want[n])
      /\ StateAt(build, n, LastIndex(build, n)) = want[n]

\* A migration never leaves patches behind under the name it renamed.
NothingLeftBehind ==
  (mode = "up" /\ build = New) => \A n \in Live : dirs[Old][n].seg.recs = <<>>
=============================================================================
