------------------------------- MODULE Locks -------------------------------
(***************************************************************************)
(* The locks of a Trunks handle, and the order in which its calls take     *)
(* them: the lineage lock of each trunk, t.mu (a Go RWMutex, whose waiting *)
(* writer keeps new readers out), the root's borrow count and its mutation *)
(* lease, and the references to the hot generation.  A call is the         *)
(* sequence of its lock steps.  A goroutine may keep the handle Head gives *)
(* it while it makes other calls.  One Trunks is open on the root.         *)
(***************************************************************************)
EXTENDS Naturals, Sequences, FiniteSets

CONSTANTS
  Proc,            \* goroutines
  Trunk,           \* trunks
  None,            \* nobody
  Ops,             \* the calls the goroutines make
  MaxCalls         \* bound: calls made

ASSUME OpsAssumption ==
  /\ Ops \subseteq {"append", "fork", "create", "mutate", "head", "close", "evict", "read", "list", "sync"}
  /\ None \notin Proc \cup Trunk

VARIABLES
  at,              \* goroutine -> its call, the steps it has left, the trunk
  view,            \* goroutine -> the trunk of the handle it holds, or None
  writing,         \* trunk -> the goroutine that holds its lineage
  writer, readers, \* t.mu: the writer that holds it or waits for it, and the readers
  mutating,        \* the goroutine that holds the root's mutation lease
  borrows, refs,   \* goroutine -> its root borrows, its hot references
  calls            \* calls made

vars == <<at, view, writing, writer, readers, mutating, borrows, refs, calls>>

Idle == [op |-> "none", todo |-> <<>>, k |-> None]
NoBorrower == \A p \in Proc : borrows[p] = 0
NoOpenHead == \A p \in Proc : refs[p] = 0

-----------------------------------------------------------------------------
(* The calls. *)

\* appendMainWith, AppendChannel, LatestChannelRecord: a tracked read, which
\* borrows before it locks and unborrows before it unlocks, inside the lineage.
AppendCall == <<"lock", "borrow", "rlock", "ref", "unref", "unborrow", "runlock", "unlock">>
\* beginTrackedRead and what it returns: ListLight, Nodes, Kind, OwnerTrunk.
ReadCall == <<"borrow", "rlock", "unborrow", "runlock">>
\* List locks each lineage inside its tracked read.
ListCall == <<"borrow", "rlock", "lock", "ref", "unref", "unlock", "unborrow", "runlock">>
\* beginFlatCreate: SpawnChildKind, CreateStump, SpawnUnder*, Detach.
CreateCall == <<"wait", "wlock", "ref", "unref", "wunlock">>
\* A mutated form: the gate before the lineage.
ForkCallGateFirst == <<"wait", "wlock", "lock", "ref", "unref", "unlock", "wunlock">>
\* ForkAt, ForkTail.
ForkCall == <<"lock", "wait", "wlock", "ref", "unref", "wunlock", "unlock">>
\* Head and StumpHead, whose read lock ends but not the borrow, and the Close of
\* the handle.
HeadCall == <<"hold", "borrow", "rlock", "ref", "runlock">>
CloseCall == <<"unref", "unborrow", "unhold">>
\* evictLineage looks its head up under the lineage lock.
EvictCall == <<"lock", "rlock", "runlock", "unlock">>
\* syncHot.
SyncCall == <<"ref", "unref">>
\* remove, RemoveStump, ensureChannel, Clear, Refresh: beginTopologyMutation, and
\* ensureNoOpenHeads.
MutateCall == <<"wait", "wlock", "lease", "quiesce", "body", "unlease", "wunlock">>
\* The same after a refused lease: the heads and the borrows are waited for.
MutateAgain == <<"drain", "wunlock", "borrowers",
                 "wait", "wlock", "lease", "quiesce", "body", "unlease", "wunlock">>

Steps(op) ==
  CASE op = "append" -> AppendCall [] op = "read" -> ReadCall [] op = "list" -> ListCall
    [] op = "create" -> CreateCall [] op = "fork" -> ForkCall [] op = "head" -> HeadCall
    [] op = "close" -> CloseCall [] op = "evict" -> EvictCall [] op = "sync" -> SyncCall
    [] op = "mutate" -> MutateCall

\* A goroutine closes the handle it holds, or makes another call.
Begin(p, op, k) ==
  /\ at[p] = Idle /\ calls < MaxCalls /\ op \in Ops
  /\ CASE op = "close" -> k = view[p]
       [] op = "head" -> k \in Trunk /\ view[p] = None
       [] OTHER -> k \in Trunk
  /\ at' = [at EXCEPT ![p] = [op |-> op, todo |-> Steps(op), k |-> k]]
  /\ calls' = calls + 1
  /\ UNCHANGED <<view, writing, writer, readers, mutating, borrows, refs>>

\* The step p is at; taking it, p goes on to the next one.
Next1(p, step) == at[p].todo # <<>> /\ Head(at[p].todo) = step
Goto(p, todo) ==
  at' = [at EXCEPT ![p] = IF todo = <<>> THEN Idle ELSE [@ EXCEPT !.todo = todo]]
Done(p, step) == Next1(p, step) /\ Goto(p, Tail(at[p].todo))

-----------------------------------------------------------------------------
(* The locks. *)

\* lockLineage: handles of this Trunks do not keep its own writers out.
LockLineage(p) ==
  /\ Done(p, "lock") /\ writing[at[p].k] = None
  /\ writing' = [writing EXCEPT ![at[p].k] = p]
  /\ UNCHANGED <<view, writer, readers, mutating, borrows, refs, calls>>

UnlockLineage(p) ==
  /\ Done(p, "unlock")
  /\ writing' = [writing EXCEPT ![at[p].k] = None]
  /\ UNCHANGED <<view, writer, readers, mutating, borrows, refs, calls>>

\* holdLineageHead waits for a writer to finish, and then keeps nobody out.
HoldLineageHead(p) ==
  /\ Done(p, "hold") /\ writing[at[p].k] = None
  /\ view' = [view EXCEPT ![p] = at[p].k]
  /\ UNCHANGED <<writing, writer, readers, mutating, borrows, refs, calls>>

ReleaseLineageHead(p) ==
  /\ Done(p, "unhold")
  /\ view' = [view EXCEPT ![p] = None]
  /\ UNCHANGED <<writing, writer, readers, mutating, borrows, refs, calls>>

\* t.mu.RLock waits for a writer, waiting ones included.
RLock(p) ==
  /\ Done(p, "rlock") /\ writer = None
  /\ readers' = readers \cup {p}
  /\ UNCHANGED <<view, writing, writer, mutating, borrows, refs, calls>>

RUnlock(p) ==
  /\ Done(p, "runlock")
  /\ readers' = readers \ {p}
  /\ UNCHANGED <<view, writing, writer, mutating, borrows, refs, calls>>

\* t.mu.Lock: one writer at a time announces itself and waits for the readers.
Announce(p) ==
  /\ Done(p, "wait") /\ writer = None
  /\ writer' = p
  /\ UNCHANGED <<view, writing, readers, mutating, borrows, refs, calls>>

WLock(p) ==
  /\ Done(p, "wlock") /\ readers = {}
  /\ UNCHANGED <<view, writing, writer, readers, mutating, borrows, refs, calls>>

WUnlock(p) ==
  /\ Done(p, "wunlock")
  /\ writer' = None
  /\ UNCHANGED <<view, writing, readers, mutating, borrows, refs, calls>>

\* beginRootBorrow waits for a mutation to end.
Borrow(p) ==
  /\ Done(p, "borrow") /\ mutating = None
  /\ borrows' = [borrows EXCEPT ![p] = @ + 1]
  /\ UNCHANGED <<view, writing, writer, readers, mutating, refs, calls>>

EndBorrow(p) ==
  /\ Done(p, "unborrow")
  /\ borrows' = [borrows EXCEPT ![p] = @ - 1]
  /\ UNCHANGED <<view, writing, writer, readers, mutating, refs, calls>>

\* borrowHotUntracked, releaseHot.
Ref(p) ==
  /\ Done(p, "ref")
  /\ refs' = [refs EXCEPT ![p] = @ + 1]
  /\ UNCHANGED <<view, writing, writer, readers, mutating, borrows, calls>>

Unref(p) ==
  /\ Done(p, "unref")
  /\ refs' = [refs EXCEPT ![p] = @ - 1]
  /\ UNCHANGED <<view, writing, writer, readers, mutating, borrows, calls>>

-----------------------------------------------------------------------------
(* The gate of a topology mutation. *)

\* A mutated form: the borrowers are not looked at.
LeaseAnyway(p) ==
  /\ Done(p, "lease") /\ mutating = None
  /\ mutating' = p
  /\ UNCHANGED <<view, writing, writer, readers, borrows, refs, calls>>

\* beginRootTopologyMutationFor.  With borrowers, all of this Trunks, it refuses:
\* the caller waits for the heads to close, lets t.mu go, waits for the borrows
\* to end and starts again.
Lease(p) ==
  /\ Next1(p, "lease") /\ mutating = None
  /\ IF NoBorrower
     THEN mutating' = p /\ Goto(p, Tail(at[p].todo))
     ELSE Goto(p, MutateAgain) /\ UNCHANGED mutating
  /\ UNCHANGED <<view, writing, writer, readers, borrows, refs, calls>>
\* ensureNoOpenHeads, waitRootBorrowers: the wait ends when nobody is left.
Drained(p) ==
  /\ \/ Done(p, "drain") /\ NoOpenHead
     \/ Done(p, "borrowers") /\ NoBorrower
     \/ Done(p, "quiesce") /\ NoOpenHead
  /\ UNCHANGED <<view, writing, writer, readers, mutating, borrows, refs, calls>>

\* topologyWaitTimeout: the mutation gives up, and releases what it holds.
Timeout(p) ==
  /\ \/ Next1(p, "drain") /\ ~NoOpenHead /\ Goto(p, <<"wunlock">>)
     \/ Next1(p, "borrowers") /\ ~NoBorrower /\ Goto(p, <<>>)
     \/ Next1(p, "quiesce") /\ ~NoOpenHead /\ Goto(p, <<"unlease", "wunlock">>)
  /\ UNCHANGED <<view, writing, writer, readers, mutating, borrows, refs, calls>>

\* The directories are removed, made or renamed.
Mutate(p) ==
  /\ Done(p, "body")
  /\ UNCHANGED <<view, writing, writer, readers, mutating, borrows, refs, calls>>

EndMutation(p) ==
  /\ Done(p, "unlease")
  /\ mutating' = None
  /\ UNCHANGED <<view, writing, writer, readers, borrows, refs, calls>>

-----------------------------------------------------------------------------

Init ==
  /\ at = [p \in Proc |-> Idle] /\ view = [p \in Proc |-> None]
  /\ writing = [k \in Trunk |-> None] /\ writer = None /\ readers = {}
  /\ mutating = None
  /\ borrows = [p \in Proc |-> 0] /\ refs = [p \in Proc |-> 0]
  /\ calls = 0

Step(p) ==
  \/ LockLineage(p) \/ UnlockLineage(p) \/ HoldLineageHead(p) \/ ReleaseLineageHead(p)
  \/ RLock(p) \/ RUnlock(p) \/ Announce(p) \/ WLock(p) \/ WUnlock(p)
  \/ Borrow(p) \/ EndBorrow(p) \/ Ref(p) \/ Unref(p)
  \/ Lease(p) \/ Drained(p) \/ Timeout(p) \/ Mutate(p) \/ EndMutation(p)

Next ==
  \E p \in Proc : Step(p) \/ \E op \in Ops, k \in Trunk : Begin(p, op, k)

Spec == Init /\ [][Next]_vars

\* A goroutine that can go on does.  Nobody has to close a handle.
FairSpec == Spec /\ \A p \in Proc : WF_vars(Step(p))

-----------------------------------------------------------------------------
(* Properties. *)

\* While a mutation moves directories, nobody reads the index, nobody is between
\* its borrow and its head, and no head is in use, save by a flush that began
\* after ensureNoOpenHeads looked (syncHot takes no lock).
MutationIsAlone ==
  \A p \in Proc : Next1(p, "body") =>
    /\ writer = p /\ readers = {} /\ NoBorrower
    /\ \A q \in Proc : refs[q] > 0 => at[q].op = "sync"

\* Every call returns, whoever forks, evicts or mutates meanwhile and whatever
\* handles stay open: the lock order has no cycle, a waiting writer of t.mu
\* included, and a mutation that waits for handles gives up.
CallsReturn ==
  \A p \in Proc : at[p] # Idle ~> at[p] = Idle

\* What beginFlatCreate promises, "an aria forks itself without blocking anyone",
\* of the listings that run meanwhile.
ForkBlocksNobody ==
  \A p \in Proc : at[p].op = "list" ~> at[p] = Idle
=============================================================================
