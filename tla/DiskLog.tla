------------------------------ MODULE DiskLog ------------------------------
(***************************************************************************)
(* disk.Log: one directory of segment files.  Records are appended to the  *)
(* active (newest) segment; a full one is fsynced, sealed and followed by  *)
(* a new file named for its first index.  A reducible channel's log also   *)
(* has a header in every segment: the fold of everything before it, so a   *)
(* reader never folds past one segment.  A forked log starts at forkBase   *)
(* and serves lower indexes from its parent.                               *)
(*                                                                         *)
(* One writer at a time holds l.mu, so the steps of a Write or of a        *)
(* TruncateFront interleave only with failing system calls, a killed       *)
(* process and a power loss; readers run between them.                     *)
(*                                                                         *)
(* A record is the number of its birth, so a record written again at an    *)
(* index that a crash freed is told from the one that was lost.  The fold  *)
(* (OnSegmentOpen) is the sequence of records folded: two states are equal *)
(* exactly when they come from the same records in the same order.         *)
(***************************************************************************)
EXTENDS Naturals, Sequences, FiniteSets, SequencesExt

CONSTANTS
  Capacity,     \* records a segment takes before Append returns ErrFull
  MaxBorn,      \* bound: records ever offered to Write
  Kinds         \* the logs of the instance: [headered |-> , forkBase |-> ]

ASSUME CapacityAssumption == Capacity \in Nat \ {0}

VARIABLES
  headered,     \* opts.OnSegmentOpen # nil
  forkBase,     \* the .fork marker's base, 0 for a root
  dir,          \* the segment files in base order
  up,           \* the log is open
  refused,      \* the last Open returned ErrForkMismatch
  sealed,       \* l.sealed: base and last, by file name
  active,       \* base of l.active, 0 for nil
  pc,           \* the step the holder of l.mu is at
  big,          \* the payload being written exceeds a whole segment
  before,       \* TruncateFront's argument while it runs
  accepted,     \* every record the lineage holds, by index
  promised,     \* the last index a Sync reported durable
  cut,          \* indexes below cut were given up to TruncateFront
  born,         \* records born
  entered       \* history of the windows below

disk == <<dir, sealed, active>>
fixed == <<headered, forkBase>>
history == <<accepted, promised, cut, born>>
vars == <<headered, forkBase, dir, up, refused, sealed, active, pc, big, before,
          accepted, promised, cut, born, entered>>

-----------------------------------------------------------------------------
(* Segment files.  A frame is a record (id # 0) or a header.  kept counts   *)
(* the frames that are fsynced, linked says the directory entry is.         *)

RecordFrame(id) == [id |-> id, state |-> <<>>]
HeaderFrame(s) == [id |-> 0, state |-> s]
NewFile(b) == [base |-> b, frames |-> <<>>, kept |-> 0, linked |-> FALSE]
SyncFile(f) == [f EXCEPT !.kept = Len(f.frames)]

\* recover: in header mode the first frame, whatever it is, is the header.
HeaderOf(f) == IF headered /\ f.frames # <<>> THEN f.frames[1].state ELSE <<>>
Records(f) ==
  LET fs == IF headered /\ f.frames # <<>> THEN Tail(f.frames) ELSE f.frames
  IN  [j \in DOMAIN fs |-> fs[j].id]
LastOf(f) == f.base + Len(Records(f)) - 1
File(b) == CHOOSE f \in Range(dir) : f.base = b
HasFile(b) == \E f \in Range(dir) : f.base = b

\* OnSegmentOpen(header, payloads), and the parent's records below the fork.
Fold(state, records) == state \o records
Inherited(n) == [j \in 1..n |-> j]
ParentLast == IF forkBase > 0 THEN forkBase - 1 ELSE 0

-----------------------------------------------------------------------------
(* Reads, under the read lock.                                              *)

Count == IF active = 0 THEN 0 ELSE Len(Records(File(active)))
IsEmpty == sealed = <<>> /\ Count = 0
FirstOwn == IF sealed # <<>> THEN sealed[1].base ELSE IF Count > 0 THEN active ELSE 0
LastOwn ==
  IF Count > 0 THEN active + Count - 1
  ELSE IF sealed # <<>> THEN Last(sealed).last ELSE 0
LastIndex == IF LastOwn > 0 THEN LastOwn ELSE ParentLast
Expected ==
  IF IsEmpty THEN IF forkBase > 0 THEN forkBase ELSE 1 ELSE LastOwn + 1

\* searchSealed's answer: the first sealed segment whose named range reaches idx.
SearchSealed(idx) ==
  CHOOSE i \in 1..Len(sealed) + 1 :
    /\ \A j \in 1..i - 1 : sealed[j].last < idx
    /\ i <= Len(sealed) => sealed[i].last >= idx
\* findSegmentLocked: the base of the segment idx is routed to, 0 for none.
FindSegment(idx) ==
  LET i == SearchSealed(idx)
  IN  IF i <= Len(sealed) /\ idx >= sealed[i].base
      THEN IF HasFile(sealed[i].base) THEN sealed[i].base ELSE 0
      ELSE IF Count > 0 /\ idx \in active..active + Count - 1 THEN active ELSE 0

NotFound == 0
Read(idx) ==
  IF idx < forkBase THEN idx
  ELSE LET b == FindSegment(idx)
       IN  IF b # 0 /\ idx <= LastOf(File(b)) THEN Records(File(b))[idx - b + 1]
                                               ELSE NotFound
StateAt(idx) ==
  IF idx < forkBase THEN Inherited(idx)
  ELSE LET f == File(FindSegment(idx))
       IN  Fold(HeaderOf(f), SubSeq(Records(f), 1, idx - f.base + 1))

\* Range's loop turns at index cur only if cur's segment reaches cur: it goes
\* on from that segment's own last index, not from its named one.
RangeAdvancesAt(cur) ==
  LET b == FindSegment(cur) IN b = 0 \/ LastOf(File(b)) >= cur

-----------------------------------------------------------------------------
(* Write.                                                                   *)

\* The checks at the top of Write.  A branch point is DiskFork's subject: this
\* directory has no subdirectories.  Append's ErrFull on an empty segment is
\* ErrPayloadTooLarge and changes nothing.
BeginWrite(huge) ==
  /\ up /\ pc = "idle" /\ born < MaxBorn
  /\ big' = huge
  /\ pc' = IF active = 0 THEN "create"
           ELSE IF Count < Capacity /\ ~huge THEN "append"
           ELSE IF Count = 0 THEN "idle" ELSE "rotate"
  /\ UNCHANGED <<fixed, disk, up, refused, before, history>>

\* A mutated form: the segment is sealed without an fsync.
RotateUnsynced ==
  /\ pc = "rotate"
  /\ sealed' = Append(sealed, [base |-> active, last |-> active + Count - 1])
  /\ active' = 0
  /\ pc' = "create"
  /\ UNCHANGED <<fixed, dir, up, refused, big, before, history>>
\* A mutated form: the sealed range reaches one index too far.
RotateOverlapping ==
  /\ pc = "rotate"
  /\ dir' = [dir EXCEPT ![Len(dir)] = SyncFile(@)]
  /\ sealed' = Append(sealed, [base |-> active, last |-> active + Count])
  /\ active' = 0
  /\ pc' = "create"
  /\ UNCHANGED <<fixed, up, refused, big, before, history>>
\* rotateLocked: fsync the active segment and seal it.
Rotate ==
  /\ pc = "rotate"
  /\ dir' = [dir EXCEPT ![Len(dir)] = SyncFile(@)]
  /\ sealed' = Append(sealed, [base |-> active, last |-> active + Count - 1])
  /\ active' = 0
  /\ pc' = "create"
  /\ UNCHANGED <<fixed, up, refused, big, before, history>>

\* segment.Create is O_EXCL: a file left by an earlier attempt refuses it.
Create ==
  /\ pc = "create"
  /\ IF HasFile(Expected)
     THEN pc' = "idle" /\ UNCHANGED dir
     ELSE /\ dir' = Append(dir, NewFile(Expected))
          /\ pc' = IF headered THEN "header" ELSE "link"
  /\ UNCHANGED <<fixed, up, refused, sealed, active, big, before, history>>

\* The state a new segment's header carries.
FoldOfSealed ==
  LET prev == File(Last(sealed).base) IN Fold(HeaderOf(prev), Records(prev))
NextHeader ==
  IF sealed # <<>> THEN FoldOfSealed
  ELSE IF forkBase > 1 THEN Inherited(forkBase - 1) ELSE <<>>
\* A mutated form: a fork's first header does not fold the parent.
WriteHeaderBlank ==
  /\ pc = "header"
  /\ dir' = [dir EXCEPT ![Len(dir)].frames =
               <<HeaderFrame(IF sealed # <<>> THEN FoldOfSealed ELSE <<>>)>>]
  /\ pc' = "link"
  /\ UNCHANGED <<fixed, up, refused, sealed, active, big, before, history>>
WriteHeader ==
  /\ pc = "header"
  /\ dir' = [dir EXCEPT ![Len(dir)].frames = <<HeaderFrame(NextHeader)>>]
  /\ pc' = "link"
  /\ UNCHANGED <<fixed, up, refused, sealed, active, big, before, history>>

\* syncDir, then l.active = s.
Link ==
  /\ pc = "link"
  /\ dir' = [i \in DOMAIN dir |-> [dir[i] EXCEPT !.linked = TRUE]]
  /\ active' = Last(dir).base
  /\ pc' = "append"
  /\ UNCHANGED <<fixed, up, refused, sealed, big, before, history>>

\* The Append that succeeds, or the one that finds the payload too large even
\* for an empty segment and leaves that segment behind.
AppendRecord ==
  /\ pc = "append"
  /\ pc' = "idle"
  /\ IF big THEN UNCHANGED <<dir, history>>
     ELSE /\ dir' = [dir EXCEPT ![Len(dir)].frames = Append(@, RecordFrame(born + 1))]
          /\ accepted' = Append(accepted, born + 1)
          /\ born' = born + 1
          /\ UNCHANGED <<promised, cut>>
  /\ UNCHANGED <<fixed, up, refused, sealed, active, big, before>>

\* Any system call of the operation in progress may fail; what was done stays.
Fail ==
  /\ up /\ pc # "idle"
  /\ pc' = "idle"
  /\ UNCHANGED <<fixed, disk, up, refused, big, before, history>>

\* Sync fsyncs the active segment only.
SyncActive ==
  /\ up /\ pc = "idle"
  /\ dir' = IF active = 0 THEN dir ELSE [dir EXCEPT ![Len(dir)] = SyncFile(@)]
  /\ promised' = LastIndex
  /\ UNCHANGED <<fixed, up, refused, sealed, active, pc, big, before, accepted, cut, born>>

-----------------------------------------------------------------------------
(* TruncateFront: whole sealed segments below an index, one unlink at a     *)
(* time; l.sealed is replaced only when all of them are gone.               *)

BeginTruncate(idx) ==
  /\ up /\ pc = "idle" /\ sealed # <<>> /\ idx > cut
  /\ before' = idx
  /\ cut' = idx
  /\ pc' = "unlink"
  /\ UNCHANGED <<fixed, disk, up, refused, big, accepted, promised, born>>
UnlinkOldest ==
  /\ pc = "unlink"
  /\ \E s \in Range(sealed) :
       /\ s.last < before /\ HasFile(s.base)
       /\ \A o \in Range(sealed) : HasFile(o.base) => s.base <= o.base
       /\ dir' = SelectSeq(dir, LAMBDA f : f.base # s.base)
  /\ UNCHANGED <<fixed, up, refused, sealed, active, pc, big, before, history>>
\* A mutated form: the segment that straddles the index goes too.
FinishTruncateLoose ==
  /\ pc = "unlink"
  /\ \A s \in Range(sealed) : s.last < before => ~HasFile(s.base)
  /\ sealed' = SelectSeq(sealed, LAMBDA s : s.base >= before)
  /\ pc' = "idle"
  /\ UNCHANGED <<fixed, dir, up, refused, active, big, before, history>>
FinishTruncate ==
  /\ pc = "unlink"
  /\ \A s \in Range(sealed) : s.last < before => ~HasFile(s.base)
  /\ sealed' = SelectSeq(sealed, LAMBDA s : s.last >= before)
  /\ pc' = "idle"
  /\ UNCHANGED <<fixed, dir, up, refused, active, big, before, history>>

-----------------------------------------------------------------------------
(* Stopping, losing power, and coming back.                                 *)

\* What a process leaves in its files is the log the next one finds.
LastOnDisk(d) == IF d = <<>> THEN ParentLast ELSE LastOf(Last(d))
Down ==
  /\ up' = FALSE /\ sealed' = <<>> /\ active' = 0
  /\ pc' = "idle" /\ big' = FALSE /\ before' = 0
  /\ UNCHANGED <<fixed, refused>>
\* Close, or the process killed at any point; an unfinished frame is cut off
\* by recover at the next Open.
Stop ==
  /\ up /\ Down
  /\ UNCHANGED <<dir, history>>
\* A power loss keeps at least the fsynced frames of every file, in order, and
\* may lose a file whose directory entry was never fsynced.
PowerLoss ==
  /\ Down
  /\ \E n \in [DOMAIN dir -> 0..Capacity + 1], gone \in SUBSET DOMAIN dir :
       /\ \A i \in DOMAIN dir : n[i] \in dir[i].kept..Len(dir[i].frames)
       /\ \A i \in gone : ~dir[i].linked
       /\ LET left == [i \in DOMAIN dir |->
                         [dir[i] EXCEPT !.frames = SubSeq(@, 1, n[i]), !.kept = n[i]]]
              there == SetToSortSeq(DOMAIN dir \ gone, <)
          IN  dir' = [j \in DOMAIN there |-> [left[there[j]] EXCEPT !.linked = TRUE]]
  /\ accepted' = SubSeq(accepted, 1, LastOnDisk(dir'))
  /\ UNCHANGED <<promised, cut, born>>

\* trimChannelNode: repair drops the records past index k, segment by segment
\* from the newest.  A plain segment it empties is removed, unless it is the
\* first; a headered one, and one that was empty already, stays.
TrimFile(f, k) ==
  LET keep == Len(f.frames) - Cardinality({j \in DOMAIN Records(f) : f.base + j - 1 > k})
  IN  [f EXCEPT !.frames = SubSeq(@, 1, keep), !.kept = IF keep < Len(f.frames) THEN keep ELSE @]
Trim(k) ==
  /\ ~up /\ dir # <<>> /\ k \in ParentLast..Len(accepted) - 1 /\ k >= dir[1].base - 1
  /\ LET gone(i) == i > 1 /\ ~headered /\ Records(dir[i]) # <<>> /\ dir[i].base > k
         there == SetToSortSeq({i \in DOMAIN dir : ~gone(i)}, <)
     IN  dir' = [j \in DOMAIN there |-> TrimFile(dir[there[j]], k)]
  /\ accepted' = SubSeq(accepted, 1, k)
  /\ promised' = IF promised > k THEN k ELSE promised
  /\ UNCHANGED <<fixed, up, refused, sealed, active, pc, big, before, cut, born>>

\* loadSegments and reseedEmptyActiveHeader, and Open's check of the marker.
NamedRange(i) == [base |-> dir[i].base, last |-> dir[i + 1].base - 1]
ReseedHeader ==
  IF Len(dir) > 1 THEN Fold(HeaderOf(dir[Len(dir) - 1]), Records(dir[Len(dir) - 1]))
                  ELSE <<>>
Open ==
  /\ ~up /\ ~refused
  /\ dir' = IF headered /\ dir # <<>> /\ Last(dir).frames = <<>>
            THEN [dir EXCEPT ![Len(dir)].frames = <<HeaderFrame(ReseedHeader)>>,
                             ![Len(dir)].kept = 1]
            ELSE dir
  /\ refused' = (forkBase > 0 /\ dir # <<>> /\ dir[1].base > forkBase)
  /\ up' = ~refused'
  /\ IF up' THEN /\ sealed' = [i \in 1..Len(dir) - 1 |-> NamedRange(i)]
                 /\ active' = IF dir = <<>> THEN 0 ELSE Last(dir).base
            ELSE UNCHANGED <<sealed, active>>
  /\ UNCHANGED <<fixed, pc, big, before, history>>

-----------------------------------------------------------------------------
Init ==
  /\ \E kind \in Kinds : headered = kind.headered /\ forkBase = kind.forkBase
  /\ dir = <<>> /\ up = TRUE /\ refused = FALSE
  /\ sealed = <<>> /\ active = 0
  /\ pc = "idle" /\ big = FALSE /\ before = 0
  /\ accepted = Inherited(ParentLast) /\ promised = ParentLast
  /\ cut = 0 /\ born = ParentLast /\ entered = {}

(* Four windows in which this code breaks its own promise, each recorded in *)
(* entered by the step that goes into it.                                   *)
\*   seed  a forked log's first segment file is left without its header
\*   span  repair leaves a file whose records end before the next file's base
\*   front TruncateFront drops the file a fork's marker names, or no record is
\*         left of a truncated log, which then numbers its records afresh
\*   link  Open takes over a file whose directory entry was never fsynced
SeedWindow == headered /\ forkBase > 1 /\ ~up /\ Len(dir) = 1 /\ dir[1].frames = <<>>
SpanWindow == \E i \in 1..Len(dir) - 1 : LastOf(dir[i]) + 1 # dir[i + 1].base
FrontWindow ==
  \/ forkBase > 0 /\ dir # <<>> /\ dir[1].base > forkBase
  \/ cut > 0 /\ \A f \in Range(dir) : Records(f) = <<>>
LinkWindow == up /\ pc = "idle" /\ active # 0 /\ ~Last(dir).linked
Windows ==
  {w \in {"seed", "span", "front", "link"} :
     \/ w = "seed" /\ SeedWindow
     \/ w = "span" /\ SpanWindow
     \/ w = "front" /\ FrontWindow
     \/ w = "link" /\ LinkWindow}

Step ==
  \/ \E huge \in BOOLEAN : BeginWrite(huge)
  \/ Rotate \/ Create \/ WriteHeader \/ Link \/ AppendRecord \/ Fail
  \/ SyncActive
  \/ \E idx \in 2..MaxBorn : BeginTruncate(idx)
  \/ UnlinkOldest \/ FinishTruncate
  \/ Stop \/ PowerLoss \/ Open
  \/ \E k \in 0..MaxBorn : Trim(k)
Next == Step /\ entered' = entered \cup Windows'

Spec == Init /\ [][Next]_vars

\* Bound: a behaviour is followed as far as its first step into a window.
Followed == entered = {}

-----------------------------------------------------------------------------
\* Read routes every index the log still owes to the very record accepted at
\* it, and LastIndex is the last of them: across rotations and their failures,
\* truncation, kills, power losses, repair and reopening.
ReadsBack ==
  (up /\ entered = {}) =>
    /\ LastIndex = Len(accepted)
    /\ \A i \in 1..Len(accepted) : i >= cut => Read(i) = accepted[i]

\* In header mode the state at every index is the fold of the whole lineage up
\* to it, the parent's part included, although each StateAt reads one segment.
StateFolds ==
  (up /\ headered /\ entered = {}) =>
    \A i \in 1..Len(accepted) : i >= cut => StateAt(i) = SubSeq(accepted, 1, i)

\* Range terminates: at every index up to the last its loop moves on.
RangeEnds ==
  (up /\ entered = {}) => \A i \in 1..LastOwn : RangeAdvancesAt(i)

\* No crash takes back a record a Sync reported durable, although Sync fsyncs
\* the active segment only and nothing fsyncs a new segment's header.
SyncedSurvives == entered = {} => promised <= Len(accepted)
=============================================================================
