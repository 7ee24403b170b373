----------------------------- MODULE FlatForest -----------------------------
(***************************************************************************)
(* xwal.Trunks on disk: the forest of nodes in the flat layout.  A node is *)
(* one directory per channel, all siblings; its .fork markers say at which *)
(* index each channel's own records start, its .node marker (in the main   *)
(* channel) names its parent and its trunk, and is the commit point of its *)
(* creation.  Lower indexes are read through the parent chain.             *)
(*                                                                         *)
(* Creating, detaching and removing a node are several file operations     *)
(* with no journal; the process may be killed between any two, and appends *)
(* through open heads run between them.  Records are durable at once here  *)
(* (Lineage and DiskLog are about the ones that are not) and are numbered  *)
(* by birth.                                                               *)
(***************************************************************************)
EXTENDS Naturals, Sequences, FiniteSets, SequencesExt

CONSTANTS
  Main, Related,   \* the channels, in manifest order
  MaxKey,          \* bound: node keys 1..MaxKey can be minted; 0 is the root
  Stumps,          \* keys above MaxKey that callers give to stumps
  MaxBorn,         \* bound: records appended after the genesis
  MaxFaults        \* bound: failed operations and kills

ASSUME ChannelsAssumption == Main # Related
ASSUME StumpsAssumption == \A k \in Stumps : k \in Nat /\ k > MaxKey

VARIABLES
  dirs,            \* channel -> key -> directory
  marker,          \* key -> the .node marker in the main channel's directory
  up,              \* a process has the store open
  idx,             \* key -> [from, trunk]: the in-memory Index
  nodeSeq, trunkSeq,
  hot,             \* the logs <<channel, key>> opened while they had no segment
  op,              \* the topology operation in progress
  want,            \* channel -> key -> history: what the node must read
  born, faults,
  entered          \* history: "remove", a removal stopped half way; "absorb",
                   \* Detach ran again after the segment of its first attempt
                   \* had taken records

disk == <<dirs, marker>>
memory == <<up, idx, nodeSeq, trunkSeq, hot>>
vars == <<dirs, marker, up, idx, nodeSeq, trunkSeq, hot, op, want, born, faults, entered>>

Root == 0
Channels == {Main, Related}
Keys == 0..MaxKey \cup Stumps
Absent == [there |-> FALSE, fork |-> 0, segs |-> <<>>]
Dir(fork, segs) == [there |-> TRUE, fork |-> fork, segs |-> segs]
NoMarker == [there |-> FALSE, from |-> 0, trunk |-> 0]
Marker(from, trunk) == [there |-> TRUE, from |-> from, trunk |-> trunk]
NoOp == [kind |-> "none"]
Entering(window, in) == IF in THEN entered \cup {window} ELSE entered

-----------------------------------------------------------------------------
(* Reading a node's channel.                                                *)

\* channelDir falls back to the channel root; openFlatParent passes through
\* an ancestor that has no directory in the channel, and disk.Open takes the
\* channel root when nothing is left.
ChannelDir(c, k) == IF dirs[c][k].there THEN k ELSE Root
ParentOf(k) == IF k \in DOMAIN idx THEN idx[k].from ELSE Root
Server(c, k, i) ==
  LET climb[n \in Keys] ==
        IF n = Root \/ (dirs[c][n].there /\ i >= dirs[c][n].fork) THEN n
        ELSE climb[ParentOf(n)]
  IN  climb[ChannelDir(c, k)]
SegLast(s) == s.base + Len(s.recs) - 1
OwnLast(d) == IF \E i \in DOMAIN d.segs : d.segs[i].recs # <<>> THEN SegLast(Last(d.segs)) ELSE 0
LastIndex(c, k) ==
  LET d == dirs[c][ChannelDir(c, k)]
  IN  IF OwnLast(d) > 0 THEN OwnLast(d) ELSE IF d.fork > 0 THEN d.fork - 1 ELSE 0
FirstIndex(c, k) == IF LastIndex(c, k) = 0 THEN 0 ELSE 1
Holding(c, k, i) ==
  SelectSeq(dirs[c][Server(c, k, i)].segs, LAMBDA s : s.base <= i /\ i <= SegLast(s))
Record(c, k, i) ==
  LET s == Holding(c, k, i)[1] IN s.recs[i - s.base + 1]
Readable(c, k, i) == Holding(c, k, i) # <<>>

\* Append to a node's channel.  A log opened before its directory got its
\* first segment file still has no active segment and creates one.
AppendTo(c, k, rec) ==
  LET n == ChannelDir(c, k)
      d == dirs[c][n]
      at == LastIndex(c, k) + 1
      segs == IF d.segs = <<>> \/ <<c, n>> \in hot
              THEN Append(d.segs, [base |-> at, recs |-> <<rec>>])
              ELSE [d.segs EXCEPT ![Len(d.segs)].recs = Append(@, rec)]
  IN  /\ dirs' = [dirs EXCEPT ![c][n].segs = segs]
      /\ hot' = hot \ {<<c, n>>}

\* A record of the main timeline, or a related one keyed to the last turn or
\* to the coming one.
AppendRecord(c, k, ahead) ==
  /\ up /\ k \in DOMAIN idx \ {Root} /\ born < MaxBorn
  /\ op.kind # "remove"          \* a removal refuses to run with open heads
  /\ ChannelDir(c, k) # Root     \* a channel root with nodes under it is read-only
  /\ LET m == LastIndex(Main, k) + ahead
     IN  /\ c = Main => ahead = 0
         /\ \A i \in 1..LastIndex(c, k) : Readable(c, k, i) /\ Record(c, k, i).m <= m
         /\ AppendTo(c, k, [id |-> born + 1, m |-> m])
  /\ want' = [want EXCEPT ![c][k] = Append(@, born + 1)]
  /\ born' = born + 1
  /\ UNCHANGED <<marker, up, idx, nodeSeq, trunkSeq, op, faults, entered>>

-----------------------------------------------------------------------------
(* Creating a node: forkFlat, forkFlatAt, forkFlatNamed.                    *)

\* channelBases: the main channel starts after at; a related one inherits
\* what is keyed at or below at.
KeyedUpTo(k, at) ==
  Cardinality({i \in 1..LastIndex(Related, k) :
                 Readable(Related, k, i) /\ Record(Related, k, i).m <= at})
\* A mutated form: a related channel is inherited up to its tail.
BasePastTurn(c, k, at) == IF c = Main THEN at + 1 ELSE LastIndex(c, k) + 1
BaseOf(c, k, at) ==
  LET base == IF c = Main THEN at + 1 ELSE KeyedUpTo(k, at) + 1
  IN  IF base < FirstIndex(c, k) THEN FirstIndex(c, k) ELSE base

\* ownerOf: the nearest ancestor whose own range covers the fork point.
OwnerOf(k, at) ==
  LET climb[n \in Keys] ==
        IF n = Root \/ dirs[Main][n].fork <= at THEN n ELSE climb[ParentOf(n)]
  IN  climb[k]

Forking(key, parent, at, trunk) ==
  [kind |-> "fork", key |-> key, from |-> parent, trunk |-> trunk, todo |-> Channels,
   bases |-> [c \in Channels |-> BaseOf(c, parent, at)],
   prefix |-> [c \in Channels |-> SubSeq(want[c][parent], 1,
                 Min({BaseOf(c, parent, at) - 1, Len(want[c][parent])}))]]

\* ForkAt, ForkTail (at is the tail), SpawnChild and the spawns under the root
\* and under a stump, which are tail forks.
BeginFork(k, at) ==
  /\ up /\ op.kind = "none" /\ k \in DOMAIN idx
  /\ nodeSeq <= MaxKey
  /\ at \in 1..LastIndex(Main, k)
  /\ k \in {Root} \cup Stumps => at = LastIndex(Main, k)
  /\ op' = Forking(nodeSeq, IF at = LastIndex(Main, k) THEN k ELSE OwnerOf(k, at), at, trunkSeq)
  /\ nodeSeq' = nodeSeq + 1
  /\ trunkSeq' = trunkSeq + 1
  /\ UNCHANGED <<disk, up, idx, hot, want, born, faults, entered>>

\* CreateStump: a named child of the root that carries no trunk.
BeginStump(k) ==
  /\ up /\ op.kind = "none" /\ k \in Stumps \ DOMAIN idx
  /\ op' = Forking(k, Root, LastIndex(Main, Root), 0)
  /\ UNCHANGED <<disk, memory, want, born, faults, entered>>

\* MkdirAll and the .fork marker, channel by channel in map order.
ForkDir(c) ==
  /\ up /\ op.kind = "fork" /\ c \in op.todo
  /\ dirs' = [dirs EXCEPT ![c][op.key] = Dir(op.bases[c], @.segs)]
  /\ op' = [op EXCEPT !.todo = @ \ {c}]
  /\ UNCHANGED <<marker, memory, want, born, faults, entered>>

\* A mutated form: the marker does not wait for the directories.
CommitForkFirst ==
  /\ up /\ op.kind = "fork"
  /\ marker' = [marker EXCEPT ![op.key] = Marker(op.from, op.trunk)]
  /\ idx' = [n \in DOMAIN idx \cup {op.key} |->
               IF n = op.key THEN [from |-> op.from, trunk |-> op.trunk] ELSE idx[n]]
  /\ want' = [c \in Channels |-> [want[c] EXCEPT ![op.key] = op.prefix[c]]]
  /\ op' = NoOp
  /\ UNCHANGED <<dirs, up, nodeSeq, trunkSeq, hot, born, faults, entered>>
\* The .node marker commits; SpawnFlat records the node.
CommitFork ==
  /\ up /\ op.kind = "fork" /\ op.todo = {}
  /\ marker' = [marker EXCEPT ![op.key] = Marker(op.from, op.trunk)]
  /\ idx' = [n \in DOMAIN idx \cup {op.key} |->
               IF n = op.key THEN [from |-> op.from, trunk |-> op.trunk] ELSE idx[n]]
  /\ want' = [c \in Channels |-> [want[c] EXCEPT ![op.key] = op.prefix[c]]]
  /\ op' = NoOp
  /\ UNCHANGED <<dirs, up, nodeSeq, trunkSeq, hot, born, faults, entered>>

-----------------------------------------------------------------------------
(* Detach: a node copies what it reads through its ancestors.               *)

BeginDetach(k) ==
  /\ up /\ op.kind = "none" /\ k \in DOMAIN idx \ {Root}
  /\ op' = [kind |-> "absorb", key |-> k, todo |-> <<Main, Related>>]
     \* openHotTopology opens the node's logs before anything is written
  /\ hot' = hot \cup {<<c, k>> : c \in {ch \in Channels : dirs[ch][k].segs = <<>>}}
  /\ UNCHANGED <<disk, up, idx, nodeSeq, trunkSeq, want, born, faults, entered>>

\* Range over [1, fork): what the chain holds of it, in order.
PrefixOf(c, k) ==
  LET held == SelectSeq([i \in 1..dirs[c][k].fork - 1 |-> i], LAMBDA i : Readable(c, k, i))
  IN  [j \in DOMAIN held |-> Record(c, k, held[j])]
\* absorbPrefix: [1, base) as one segment based at 1, renamed over any other.
Absorbed(c, k) ==
  <<[base |-> 1, recs |-> PrefixOf(c, k)]>> \o SelectSeq(dirs[c][k].segs, LAMBDA s : s.base # 1)
Overwrites(d) == d.fork > 1 /\ d.segs # <<>> /\ d.segs[1].base = 1 /\ SegLast(d.segs[1]) >= d.fork
Absorb ==
  /\ up /\ op.kind = "absorb" /\ op.todo # <<>>
  /\ LET c == Head(op.todo)
     IN  /\ entered' = Entering("absorb", Overwrites(dirs[c][op.key]))
         /\ dirs' = IF dirs[c][op.key].there /\ dirs[c][op.key].fork > 1
                 THEN [dirs EXCEPT ![c][op.key].segs = Absorbed(c, op.key)] ELSE dirs
  /\ op' = [op EXCEPT !.todo = Tail(@)]
  /\ UNCHANGED <<marker, memory, want, born, faults>>

\* The .fork markers are flipped, and the .node marker last.
BeginFlip ==
  /\ up /\ op.kind = "absorb" /\ op.todo = <<>>
  /\ op' = [op EXCEPT !.kind = "flip", !.todo = <<Main, Related>>]
  /\ UNCHANGED <<disk, memory, want, born, faults, entered>>
FlipFork ==
  /\ up /\ op.kind = "flip" /\ op.todo # <<>>
  /\ LET c == Head(op.todo)
     IN  dirs' = IF dirs[c][op.key].there THEN [dirs EXCEPT ![c][op.key].fork = 1] ELSE dirs
  /\ op' = [op EXCEPT !.todo = Tail(@)]
  /\ UNCHANGED <<marker, memory, want, born, faults, entered>>

\* rebuild: RebuildFrom reads every marker; retiring the hot store closes logs.
IndexOf(m) ==
  [k \in {Root} \cup {n \in Keys : m[n].there} |-> [from |-> m[k].from, trunk |-> m[k].trunk]]
NextFree(s) == IF s = {} THEN 1 ELSE 1 + CHOOSE x \in s : \A y \in s : y <= x
\* A mutated form: trunk ids are minted afresh.
RebuildKeysOnly(m) ==
  /\ idx' = IndexOf(m)
  /\ nodeSeq' = NextFree({n \in Keys \ Stumps : m[n].there})
  /\ trunkSeq' = 1
  /\ hot' = {}
Rebuild(m) ==
  /\ idx' = IndexOf(m)
  /\ nodeSeq' = NextFree({n \in Keys \ Stumps : m[n].there})
  /\ trunkSeq' = NextFree({m[n].trunk : n \in {x \in Keys : m[x].there}})
  /\ hot' = {}
FinishDetach ==
  /\ up /\ op.kind = "flip" /\ op.todo = <<>>
  /\ marker' = [marker EXCEPT ![op.key] = Marker(Root, idx[op.key].trunk)]
  /\ op' = NoOp
  /\ Rebuild(marker')
  /\ UNCHANGED <<dirs, up, want, born, faults, entered>>

-----------------------------------------------------------------------------
(* Remove: the subtree of a trunk's node, channel by channel.               *)

Below(k) ==
  LET under[n \in Keys] ==
        n = k \/ (n # Root /\ n \in DOMAIN idx /\ idx[n].from # n /\ under[idx[n].from])
  IN  {n \in DOMAIN idx \ {Root} : under[n]}
Depth(k) ==
  LET d[n \in Keys] == IF n = Root THEN 0 ELSE 1 + d[ParentOf(n)] IN d[k]
\* walk visits a node before its children.
Preorder(s) == SetToSortSeq(s, LAMBDA a, b : Depth(a) < Depth(b) \/ (Depth(a) = Depth(b) /\ a < b))

BeginRemove(k, recursive) ==
  /\ up /\ op.kind = "none" /\ k \in DOMAIN idx \ {Root}
  /\ (recursive /\ k \notin Stumps) \/ Below(k) = {k}     \* RemoveStump takes no children
  /\ LET keys == Preorder(Below(k))
     IN  op' = [kind |-> "remove", keys |-> Range(keys),
                todo |-> [i \in 1..2 * Len(keys) |->
                            IF i <= Len(keys) THEN <<Main, keys[i]>>
                                              ELSE <<Related, keys[i - Len(keys)]>>]]
  /\ hot' = {}
  /\ UNCHANGED <<disk, up, idx, nodeSeq, trunkSeq, want, born, faults, entered>>
RemoveDir ==
  /\ up /\ op.kind = "remove" /\ op.todo # <<>>
  /\ LET c == Head(op.todo)[1]
         k == Head(op.todo)[2]
     IN  /\ dirs' = [dirs EXCEPT ![c][k] = Absent]
         /\ marker' = IF c = Main THEN [marker EXCEPT ![k] = NoMarker] ELSE marker
  /\ op' = [op EXCEPT !.todo = Tail(@)]
  /\ UNCHANGED <<memory, want, born, faults, entered>>
FinishRemove ==
  /\ up /\ op.kind = "remove" /\ op.todo = <<>>
  /\ op' = NoOp
  /\ Rebuild(marker)
  /\ want' = [c \in Channels |-> [k \in Keys |-> IF k \in op.keys THEN <<>> ELSE want[c][k]]]
  /\ UNCHANGED <<disk, up, born, faults, entered>>

-----------------------------------------------------------------------------
\* A file operation fails: the operation returns its error, and what it wrote
\* stays.
Fail ==
  /\ up /\ op.kind # "none"
  /\ entered' = Entering("remove", op.kind = "remove")
  /\ op' = NoOp
  /\ faults < MaxFaults /\ faults' = faults + 1
  /\ UNCHANGED <<disk, memory, want, born>>
Kill ==
  /\ up
  /\ entered' = Entering("remove", op.kind = "remove" /\ Len(op.todo) < 2 * Cardinality(op.keys))
  /\ up' = FALSE
  /\ op' = NoOp
  /\ faults < MaxFaults /\ faults' = faults + 1
  /\ Rebuild([k \in Keys |-> NoMarker])     \* what was in memory is gone
  /\ UNCHANGED <<disk, want, born>>
OpenTrunks ==
  /\ ~up
  /\ up' = TRUE
  /\ Rebuild(marker)
  /\ UNCHANGED <<disk, op, want, born, faults, entered>>

\* createTrunks seeds the genesis in the root's main log.
Genesis == [id |-> 0, m |-> 0]
Init ==
  /\ dirs = [c \in Channels |-> [k \in Keys |->
               IF k # Root THEN Absent
               ELSE Dir(0, IF c = Main THEN <<[base |-> 1, recs |-> <<Genesis>>]>> ELSE <<>>)]]
  /\ marker = [k \in Keys |-> NoMarker]
  /\ up = TRUE
  /\ idx = IndexOf(marker)
  /\ nodeSeq = 1 /\ trunkSeq = 1
  /\ hot = {}
  /\ op = NoOp
  /\ want = [c \in Channels |-> [k \in Keys |-> IF k = Root /\ c = Main THEN <<0>> ELSE <<>>]]
  /\ born = 0 /\ faults = 0 /\ entered = {}

Next ==
  \/ \E c \in Channels, k \in Keys, ahead \in 0..1 : AppendRecord(c, k, ahead)
  \/ \E k \in Keys, at \in 1..MaxBorn + 1 : BeginFork(k, at)
  \/ \E k \in Stumps : BeginStump(k)
  \/ \E c \in Channels : ForkDir(c)
  \/ CommitFork
  \/ \E k \in Keys : BeginDetach(k)
  \/ Absorb \/ BeginFlip \/ FlipFork \/ FinishDetach
  \/ \E k \in Keys, recursive \in BOOLEAN : BeginRemove(k, recursive)
  \/ RemoveDir \/ FinishRemove
  \/ Fail \/ Kill \/ OpenTrunks

Spec == Init /\ [][Next]_vars

-----------------------------------------------------------------------------
\* Every node the index lists reads, in every channel, exactly its history:
\* its parent's prefix at the fork and its own records.  No later fork, detach
\* or removal of another node changes it, and no crash part way through one,
\* save a removal's; nor does a second try at a Detach, save one after appends.
NodesReadTheirHistory ==
  (entered = {} /\ up /\ op.kind # "remove") =>
    \A c \in Channels, k \in DOMAIN idx :
      /\ LastIndex(c, k) = Len(want[c][k])
      /\ \A i \in 1..Len(want[c][k]) :
           Readable(c, k, i) /\ Record(c, k, i).id = want[c][k][i]

\* A fork takes over no related record keyed past the turn it was made at, be
\* it of the parent's own or of an ancestor's.
InheritsByTurn ==
  \A k \in Keys \ {Root} :
    (entered = {} /\ up /\ op.kind # "remove" /\ k \in DOMAIN idx /\ dirs[Main][k].fork > 1) =>
      \A i \in 1..dirs[Related][k].fork - 1 : Record(Related, k, i).m < dirs[Main][k].fork

\* At most one live head per trunk: an id is minted again only when no node
\* carries it, so RebuildFrom never refuses the forest.
OneHeadPerTrunk ==
  \A j, k \in Keys : (j # k /\ marker[j].trunk # 0 /\ marker[k].there) => marker[j].trunk # marker[k].trunk
=============================================================================
