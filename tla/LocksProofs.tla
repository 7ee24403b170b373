---------------------------- MODULE LocksProofs ----------------------------
(***************************************************************************)
(* Proofs about Locks for any goroutines, any trunks, any choice of calls  *)
(* and any number of them.                                                 *)
(*                                                                         *)
(* The steps a goroutine has left are an end of its call, those of a       *)
(* mutation an end of MutateAgain: how many are left says where it is, and *)
(* where it is says which locks, borrows and references it holds.          *)
(***************************************************************************)
EXTENDS Locks, SequenceTheorems, TLAPS

AllOps == {"append", "fork", "create", "mutate", "head", "close", "evict", "read", "list", "sync"}
AllSteps ==
  {"lock", "unlock", "hold", "unhold", "borrow", "unborrow", "rlock", "runlock", "ref", "unref",
   "wait", "wlock", "wunlock", "lease", "unlease", "drain", "borrowers", "quiesce", "body"}

\* t is an end of script, and not empty.
EndOf(t, script) ==
  /\ Len(t) \in 1..Len(script)
  /\ \A i \in 1..Len(t) : t[i] = script[Len(script) - Len(t) + i]
OnScript(a) ==
  \/ a = Idle
  \/ /\ a \in [op : AllOps, todo : Seq(AllSteps), k : Trunk]
     /\ \/ a.op = "append" /\ EndOf(a.todo, AppendCall)
        \/ a.op = "read" /\ EndOf(a.todo, ReadCall)
        \/ a.op = "list" /\ EndOf(a.todo, ListCall)
        \/ a.op = "create" /\ EndOf(a.todo, CreateCall)
        \/ a.op = "fork" /\ EndOf(a.todo, ForkCall)
        \/ a.op = "head" /\ EndOf(a.todo, HeadCall)
        \/ a.op = "close" /\ EndOf(a.todo, CloseCall)
        \/ a.op = "evict" /\ EndOf(a.todo, EvictCall)
        \/ a.op = "sync" /\ EndOf(a.todo, SyncCall)
        \/ a.op = "mutate" /\ EndOf(a.todo, MutateAgain)

\* What a goroutine with n steps left of op holds.
Reads(op, n) ==
  \/ op = "append" /\ n \in 2..5
  \/ op = "read" /\ n \in 1..2
  \/ op = "list" /\ n \in 1..6
  \/ op = "head" /\ n \in 1..2
  \/ op = "evict" /\ n = 2
Announced(op, n) ==
  \/ op = "create" /\ n \in 1..4
  \/ op = "fork" /\ n \in 2..5
  \/ op = "mutate" /\ n \in 1..6 \cup 9..10
Excludes(op, n) ==
  \/ op = "create" /\ n \in 1..3
  \/ op = "fork" /\ n \in 2..4
  \/ op = "mutate" /\ n \in 1..5 \cup 9..10
Leases(op, n) == op = "mutate" /\ n \in 2..4
Borrows(op, n) ==
  \/ op = "append" /\ n \in 3..6
  \/ op = "read" /\ n \in 2..3
  \/ op = "list" /\ n \in 2..7
References(op, n) ==
  \/ op = "append" /\ n = 4
  \/ op = "list" /\ n = 4
  \/ op = "create" /\ n = 2
  \/ op = "fork" /\ n = 3
  \/ op = "sync" /\ n = 1
\* What a handle holds, unless it is being opened or closed.
ViewBorrows(op, n) == ~(op = "head" /\ n = 4) /\ ~(op = "close" /\ n = 1)
ViewReferences(op, n) == ~(op = "head" /\ n \in 2..4) /\ ~(op = "close" /\ n \in 1..2)

\* A handle is there once Head has it, and until Close lets it go.
Handle(op, n, b) ==
  /\ op = "head" => (b <=> n # 5)
  /\ op = "close" => b

One(b) == IF b THEN 1 ELSE 0
\* The borrows and the references of a goroutine, b when it has a handle.
BorrowsAt(op, n, b) == One(b /\ ViewBorrows(op, n)) + One(Borrows(op, n))
RefsAt(op, n, b) == One(b /\ ViewReferences(op, n)) + One(References(op, n))

Holds(p, op, n) ==
  /\ p \in readers <=> Reads(op, n)
  /\ writer = p <=> Announced(op, n)
  /\ mutating = p <=> Leases(op, n)
  /\ Handle(op, n, view[p] # None)
  /\ borrows[p] = BorrowsAt(op, n, view[p] # None)
  /\ refs[p] = RefsAt(op, n, view[p] # None)

Where == [op : AllOps \cup {"none"}, todo : Seq(AllSteps), k : Trunk \cup {None}]
TypeOK ==
  /\ at \in [Proc -> Where]
  /\ view \in [Proc -> Trunk \cup {None}]
  /\ borrows \in [Proc -> Nat] /\ refs \in [Proc -> Nat]
  /\ readers \subseteq Proc

\* Every goroutine is on its script and holds what it should; a writer that is
\* past its wait has no reader beside it, and a lease no borrower.
LInv ==
  /\ TypeOK
  /\ \A p \in Proc : OnScript(at[p])
  /\ \A p \in Proc : Holds(p, at[p].op, Len(at[p].todo))
  /\ \A p \in Proc : Excludes(at[p].op, Len(at[p].todo)) => readers = {}
  /\ mutating # None => NoBorrower

-----------------------------------------------------------------------------
(* Where a goroutine is.                                                    *)

\* Steps gives each call its own sequence.
LEMMA StepsAre ==
  /\ Steps("append") = AppendCall /\ Steps("read") = ReadCall /\ Steps("list") = ListCall
  /\ Steps("create") = CreateCall /\ Steps("fork") = ForkCall /\ Steps("head") = HeadCall
  /\ Steps("close") = CloseCall /\ Steps("evict") = EvictCall /\ Steps("sync") = SyncCall
  /\ Steps("mutate") = MutateCall
  BY Zenon DEF Steps

\* AppendCall, step by step.
LEMMA AppendCallIs ==
  /\ AppendCall \in Seq(AllSteps) /\ Len(AppendCall) = 8 /\ AppendCall[1] = "lock"
  /\ AppendCall[2] = "borrow" /\ AppendCall[3] = "rlock" /\ AppendCall[4] = "ref"
  /\ AppendCall[5] = "unref" /\ AppendCall[6] = "unborrow" /\ AppendCall[7] = "runlock"
  /\ AppendCall[8] = "unlock"
  BY DEF AppendCall, AllSteps

\* ReadCall, step by step.
LEMMA ReadCallIs ==
  /\ ReadCall \in Seq(AllSteps) /\ Len(ReadCall) = 4 /\ ReadCall[1] = "borrow"
  /\ ReadCall[2] = "rlock" /\ ReadCall[3] = "unborrow" /\ ReadCall[4] = "runlock"
  BY DEF ReadCall, AllSteps

\* ListCall, step by step.
LEMMA ListCallIs ==
  /\ ListCall \in Seq(AllSteps) /\ Len(ListCall) = 8 /\ ListCall[1] = "borrow"
  /\ ListCall[2] = "rlock" /\ ListCall[3] = "lock" /\ ListCall[4] = "ref"
  /\ ListCall[5] = "unref" /\ ListCall[6] = "unlock" /\ ListCall[7] = "unborrow"
  /\ ListCall[8] = "runlock"
  BY DEF ListCall, AllSteps

\* CreateCall, step by step.
LEMMA CreateCallIs ==
  /\ CreateCall \in Seq(AllSteps) /\ Len(CreateCall) = 5 /\ CreateCall[1] = "wait"
  /\ CreateCall[2] = "wlock" /\ CreateCall[3] = "ref" /\ CreateCall[4] = "unref"
  /\ CreateCall[5] = "wunlock"
  BY DEF CreateCall, AllSteps

\* ForkCall, step by step.
LEMMA ForkCallIs ==
  /\ ForkCall \in Seq(AllSteps) /\ Len(ForkCall) = 7 /\ ForkCall[1] = "lock"
  /\ ForkCall[2] = "wait" /\ ForkCall[3] = "wlock" /\ ForkCall[4] = "ref"
  /\ ForkCall[5] = "unref" /\ ForkCall[6] = "wunlock" /\ ForkCall[7] = "unlock"
  BY DEF ForkCall, AllSteps

\* HeadCall, step by step.
LEMMA HeadCallIs ==
  /\ HeadCall \in Seq(AllSteps) /\ Len(HeadCall) = 5 /\ HeadCall[1] = "hold"
  /\ HeadCall[2] = "borrow" /\ HeadCall[3] = "rlock" /\ HeadCall[4] = "ref"
  /\ HeadCall[5] = "runlock"
  BY DEF HeadCall, AllSteps

\* CloseCall, step by step.
LEMMA CloseCallIs ==
  /\ CloseCall \in Seq(AllSteps) /\ Len(CloseCall) = 3 /\ CloseCall[1] = "unref"
  /\ CloseCall[2] = "unborrow" /\ CloseCall[3] = "unhold"
  BY DEF CloseCall, AllSteps

\* EvictCall, step by step.
LEMMA EvictCallIs ==
  /\ EvictCall \in Seq(AllSteps) /\ Len(EvictCall) = 4 /\ EvictCall[1] = "lock"
  /\ EvictCall[2] = "rlock" /\ EvictCall[3] = "runlock" /\ EvictCall[4] = "unlock"
  BY DEF EvictCall, AllSteps

\* SyncCall, step by step.
LEMMA SyncCallIs ==
  /\ SyncCall \in Seq(AllSteps) /\ Len(SyncCall) = 2 /\ SyncCall[1] = "ref"
  /\ SyncCall[2] = "unref"
  BY DEF SyncCall, AllSteps

\* MutateAgain, step by step.
LEMMA MutateAgainIs ==
  /\ MutateAgain \in Seq(AllSteps) /\ Len(MutateAgain) = 10 /\ MutateAgain[1] = "drain"
  /\ MutateAgain[2] = "wunlock" /\ MutateAgain[3] = "borrowers" /\ MutateAgain[4] = "wait"
  /\ MutateAgain[5] = "wlock" /\ MutateAgain[6] = "lease" /\ MutateAgain[7] = "quiesce"
  /\ MutateAgain[8] = "body" /\ MutateAgain[9] = "unlease" /\ MutateAgain[10] = "wunlock"
  BY DEF MutateAgain, AllSteps

\* MutateCall, step by step.
LEMMA MutateCallIs ==
  /\ MutateCall \in Seq(AllSteps) /\ Len(MutateCall) = 7 /\ MutateCall[1] = "wait"
  /\ MutateCall[2] = "wlock" /\ MutateCall[3] = "lease" /\ MutateCall[4] = "quiesce"
  /\ MutateCall[5] = "body" /\ MutateCall[6] = "unlease" /\ MutateCall[7] = "wunlock"
  BY DEF MutateCall, AllSteps

\* The location at which a call begins.
FirstAt(op, n) ==
  \/ op = "append" /\ n = 8
  \/ op = "read" /\ n = 4
  \/ op = "list" /\ n = 8
  \/ op = "create" /\ n = 5
  \/ op = "fork" /\ n = 7
  \/ op = "head" /\ n = 5
  \/ op = "close" /\ n = 3
  \/ op = "evict" /\ n = 4
  \/ op = "sync" /\ n = 2
  \/ op = "mutate" /\ n = 7

\* A call begins on its script.
LEMMA BeginsOnScript ==
  ASSUME NEW op \in AllOps, NEW k \in Trunk, NEW a, a = [op |-> op, todo |-> Steps(op), k |-> k]
  PROVE  OnScript(a) /\ FirstAt(op, Len(a.todo)) /\ a # Idle /\ a.op = op /\ a.k = k
<1>1. a.op = op /\ a.todo = Steps(op) /\ a.k = k
  OBVIOUS
<1>2. a # Idle
  BY <1>1 DEF Idle, AllOps
<1>3. CASE op = "append"
  <2>1. a.todo = AppendCall
    BY <1>1, <1>3, StepsAre
  <2>2. a \in [op : AllOps, todo : Seq(AllSteps), k : Trunk]
    BY <1>1, <2>1, AppendCallIs
  <2>3. EndOf(AppendCall, AppendCall)
    BY AppendCallIs DEF EndOf
  <2>4. FirstAt(op, Len(a.todo))
    BY <1>3, <2>1, AppendCallIs DEF FirstAt
  <2>. QED
    BY <1>1, <1>2, <1>3, <2>1, <2>2, <2>3, <2>4 DEF OnScript
<1>4. CASE op = "read"
  <2>1. a.todo = ReadCall
    BY <1>1, <1>4, StepsAre
  <2>2. a \in [op : AllOps, todo : Seq(AllSteps), k : Trunk]
    BY <1>1, <2>1, ReadCallIs
  <2>3. EndOf(ReadCall, ReadCall)
    BY ReadCallIs DEF EndOf
  <2>4. FirstAt(op, Len(a.todo))
    BY <1>4, <2>1, ReadCallIs DEF FirstAt
  <2>. QED
    BY <1>1, <1>2, <1>4, <2>1, <2>2, <2>3, <2>4 DEF OnScript
<1>5. CASE op = "list"
  <2>1. a.todo = ListCall
    BY <1>1, <1>5, StepsAre
  <2>2. a \in [op : AllOps, todo : Seq(AllSteps), k : Trunk]
    BY <1>1, <2>1, ListCallIs
  <2>3. EndOf(ListCall, ListCall)
    BY ListCallIs DEF EndOf
  <2>4. FirstAt(op, Len(a.todo))
    BY <1>5, <2>1, ListCallIs DEF FirstAt
  <2>. QED
    BY <1>1, <1>2, <1>5, <2>1, <2>2, <2>3, <2>4 DEF OnScript
<1>6. CASE op = "create"
  <2>1. a.todo = CreateCall
    BY <1>1, <1>6, StepsAre
  <2>2. a \in [op : AllOps, todo : Seq(AllSteps), k : Trunk]
    BY <1>1, <2>1, CreateCallIs
  <2>3. EndOf(CreateCall, CreateCall)
    BY CreateCallIs DEF EndOf
  <2>4. FirstAt(op, Len(a.todo))
    BY <1>6, <2>1, CreateCallIs DEF FirstAt
  <2>. QED
    BY <1>1, <1>2, <1>6, <2>1, <2>2, <2>3, <2>4 DEF OnScript
<1>7. CASE op = "fork"
  <2>1. a.todo = ForkCall
    BY <1>1, <1>7, StepsAre
  <2>2. a \in [op : AllOps, todo : Seq(AllSteps), k : Trunk]
    BY <1>1, <2>1, ForkCallIs
  <2>3. EndOf(ForkCall, ForkCall)
    BY ForkCallIs DEF EndOf
  <2>4. FirstAt(op, Len(a.todo))
    BY <1>7, <2>1, ForkCallIs DEF FirstAt
  <2>. QED
    BY <1>1, <1>2, <1>7, <2>1, <2>2, <2>3, <2>4 DEF OnScript
<1>8. CASE op = "head"
  <2>1. a.todo = HeadCall
    BY <1>1, <1>8, StepsAre
  <2>2. a \in [op : AllOps, todo : Seq(AllSteps), k : Trunk]
    BY <1>1, <2>1, HeadCallIs
  <2>3. EndOf(HeadCall, HeadCall)
    BY HeadCallIs DEF EndOf
  <2>4. FirstAt(op, Len(a.todo))
    BY <1>8, <2>1, HeadCallIs DEF FirstAt
  <2>. QED
    BY <1>1, <1>2, <1>8, <2>1, <2>2, <2>3, <2>4 DEF OnScript
<1>9. CASE op = "close"
  <2>1. a.todo = CloseCall
    BY <1>1, <1>9, StepsAre
  <2>2. a \in [op : AllOps, todo : Seq(AllSteps), k : Trunk]
    BY <1>1, <2>1, CloseCallIs
  <2>3. EndOf(CloseCall, CloseCall)
    BY CloseCallIs DEF EndOf
  <2>4. FirstAt(op, Len(a.todo))
    BY <1>9, <2>1, CloseCallIs DEF FirstAt
  <2>. QED
    BY <1>1, <1>2, <1>9, <2>1, <2>2, <2>3, <2>4 DEF OnScript
<1>10. CASE op = "evict"
  <2>1. a.todo = EvictCall
    BY <1>1, <1>10, StepsAre
  <2>2. a \in [op : AllOps, todo : Seq(AllSteps), k : Trunk]
    BY <1>1, <2>1, EvictCallIs
  <2>3. EndOf(EvictCall, EvictCall)
    BY EvictCallIs DEF EndOf
  <2>4. FirstAt(op, Len(a.todo))
    BY <1>10, <2>1, EvictCallIs DEF FirstAt
  <2>. QED
    BY <1>1, <1>2, <1>10, <2>1, <2>2, <2>3, <2>4 DEF OnScript
<1>11. CASE op = "sync"
  <2>1. a.todo = SyncCall
    BY <1>1, <1>11, StepsAre
  <2>2. a \in [op : AllOps, todo : Seq(AllSteps), k : Trunk]
    BY <1>1, <2>1, SyncCallIs
  <2>3. EndOf(SyncCall, SyncCall)
    BY SyncCallIs DEF EndOf
  <2>4. FirstAt(op, Len(a.todo))
    BY <1>11, <2>1, SyncCallIs DEF FirstAt
  <2>. QED
    BY <1>1, <1>2, <1>11, <2>1, <2>2, <2>3, <2>4 DEF OnScript
<1>12. CASE op = "mutate"
  <2>1. a.todo = MutateCall
    BY <1>1, <1>12, StepsAre
  <2>2. a \in [op : AllOps, todo : Seq(AllSteps), k : Trunk]
    BY <1>1, <2>1, MutateCallIs
  <2>3. EndOf(MutateCall, MutateAgain)
    BY MutateCallIs, MutateAgainIs DEF EndOf
  <2>4. FirstAt(op, Len(a.todo))
    BY <1>12, <2>1, MutateCallIs DEF FirstAt
  <2>. QED
    BY <1>1, <1>2, <1>12, <2>1, <2>2, <2>3, <2>4 DEF OnScript
<1>. QED
  BY <1>3, <1>4, <1>5, <1>6, <1>7, <1>8, <1>9, <1>10, <1>11, <1>12 DEF AllOps

\* Taking a step leaves a shorter end of the same script.
LEMMA TailEnds ==
  ASSUME NEW t \in Seq(AllSteps), NEW script \in Seq(AllSteps), EndOf(t, script), Len(t) > 1
  PROVE  Tail(t) \in Seq(AllSteps) /\ EndOf(Tail(t), script) /\ Len(Tail(t)) = Len(t) - 1
<1>1. /\ Len(t) \in Nat /\ Len(script) \in Nat /\ Len(t) <= Len(script)
      /\ \A i \in 1..Len(t) : t[i] = script[Len(script) - Len(t) + i]
  BY DEF EndOf
<1>2. Tail(t) \in Seq(AllSteps) /\ Len(Tail(t)) = Len(t) - 1
  BY <1>1
<1>3. \A i \in 1..Len(Tail(t)) : Tail(t)[i] = t[i + 1]
  BY <1>1
<1>4. \A i \in 1..Len(Tail(t)) : Tail(t)[i] = script[Len(script) - Len(Tail(t)) + i]
  BY <1>1, <1>2, <1>3
<1>. QED
  BY <1>1, <1>2, <1>4 DEF EndOf

\* The same for whichever call it is.
LEMMA TailOnScript ==
  ASSUME NEW a, NEW b, OnScript(a), a # Idle, Len(a.todo) > 1, b = [a EXCEPT !.todo = Tail(a.todo)]
  PROVE  OnScript(b) /\ b # Idle /\ b.op = a.op /\ b.k = a.k /\ Len(b.todo) = Len(a.todo) - 1
<1>1. a \in [op : AllOps, todo : Seq(AllSteps), k : Trunk]
  BY DEF OnScript
<1>2. PICK t \in Seq(AllSteps) : t = a.todo /\ Len(t) > 1
  BY <1>1
<1>3. Tail(t) \in Seq(AllSteps) /\ Len(Tail(t)) = Len(t) - 1
  BY <1>2
<1>4. /\ b \in [op : AllOps, todo : Seq(AllSteps), k : Trunk]
      /\ b.op = a.op /\ b.k = a.k /\ b.todo = Tail(t)
  BY <1>1, <1>2, <1>3, Zenon
<1>5. b # Idle
  BY <1>1, <1>4 DEF Idle, AllOps
<1>6. CASE a.op = "append" /\ EndOf(a.todo, AppendCall)
  BY <1>6, <1>2, <1>3, <1>4, <1>5, AppendCallIs, TailEnds DEF OnScript
<1>7. CASE a.op = "read" /\ EndOf(a.todo, ReadCall)
  BY <1>7, <1>2, <1>3, <1>4, <1>5, ReadCallIs, TailEnds DEF OnScript
<1>8. CASE a.op = "list" /\ EndOf(a.todo, ListCall)
  BY <1>8, <1>2, <1>3, <1>4, <1>5, ListCallIs, TailEnds DEF OnScript
<1>9. CASE a.op = "create" /\ EndOf(a.todo, CreateCall)
  BY <1>9, <1>2, <1>3, <1>4, <1>5, CreateCallIs, TailEnds DEF OnScript
<1>10. CASE a.op = "fork" /\ EndOf(a.todo, ForkCall)
  BY <1>10, <1>2, <1>3, <1>4, <1>5, ForkCallIs, TailEnds DEF OnScript
<1>11. CASE a.op = "head" /\ EndOf(a.todo, HeadCall)
  BY <1>11, <1>2, <1>3, <1>4, <1>5, HeadCallIs, TailEnds DEF OnScript
<1>12. CASE a.op = "close" /\ EndOf(a.todo, CloseCall)
  BY <1>12, <1>2, <1>3, <1>4, <1>5, CloseCallIs, TailEnds DEF OnScript
<1>13. CASE a.op = "evict" /\ EndOf(a.todo, EvictCall)
  BY <1>13, <1>2, <1>3, <1>4, <1>5, EvictCallIs, TailEnds DEF OnScript
<1>14. CASE a.op = "sync" /\ EndOf(a.todo, SyncCall)
  BY <1>14, <1>2, <1>3, <1>4, <1>5, SyncCallIs, TailEnds DEF OnScript
<1>15. CASE a.op = "mutate" /\ EndOf(a.todo, MutateAgain)
  BY <1>15, <1>2, <1>3, <1>4, <1>5, MutateAgainIs, TailEnds DEF OnScript
<1>. QED
  BY <1>6, <1>7, <1>8, <1>9, <1>10, <1>11, <1>12, <1>13, <1>14, <1>15 DEF OnScript

\* At which locations a step is taken.
Table(step, op, n) ==
  /\ step = "lock" => \/ (op = "append" /\ n = 8) \/ (op = "list" /\ n = 6) \/ (op = "fork" /\ n = 7)
                      \/ (op = "evict" /\ n = 4)
  /\ step = "borrow" => \/ (op = "append" /\ n = 7) \/ (op = "read" /\ n = 4) \/ (op = "list" /\ n = 8)
                        \/ (op = "head" /\ n = 4)
  /\ step = "rlock" => \/ (op = "append" /\ n = 6) \/ (op = "read" /\ n = 3) \/ (op = "list" /\ n = 7)
                       \/ (op = "head" /\ n = 3) \/ (op = "evict" /\ n = 3)
  /\ step = "ref" => \/ (op = "append" /\ n = 5) \/ (op = "list" /\ n = 5) \/ (op = "create" /\ n = 3)
                     \/ (op = "fork" /\ n = 4) \/ (op = "head" /\ n = 2) \/ (op = "sync" /\ n = 2)
  /\ step = "unref" => \/ (op = "append" /\ n = 4) \/ (op = "list" /\ n = 4) \/ (op = "create" /\ n = 2)
                       \/ (op = "fork" /\ n = 3) \/ (op = "close" /\ n = 3) \/ (op = "sync" /\ n = 1)
  /\ step = "unborrow" => \/ (op = "append" /\ n = 3) \/ (op = "read" /\ n = 2) \/ (op = "list" /\ n = 2)
                          \/ (op = "close" /\ n = 2)
  /\ step = "runlock" => \/ (op = "append" /\ n = 2) \/ (op = "read" /\ n = 1) \/ (op = "list" /\ n = 1)
                         \/ (op = "head" /\ n = 1) \/ (op = "evict" /\ n = 2)
  /\ step = "unlock" => \/ (op = "append" /\ n = 1) \/ (op = "list" /\ n = 3) \/ (op = "fork" /\ n = 1)
                        \/ (op = "evict" /\ n = 1)
  /\ step = "wait" => \/ (op = "create" /\ n = 5) \/ (op = "fork" /\ n = 6) \/ (op = "mutate" /\ n = 7)
  /\ step = "wlock" => \/ (op = "create" /\ n = 4) \/ (op = "fork" /\ n = 5) \/ (op = "mutate" /\ n = 6)
  /\ step = "wunlock" => \/ (op = "create" /\ n = 1) \/ (op = "fork" /\ n = 2) \/ (op = "mutate" /\ n = 9)
                         \/ (op = "mutate" /\ n = 1)
  /\ step = "hold" => op = "head" /\ n = 5
  /\ step = "unhold" => op = "close" /\ n = 1
  /\ step = "drain" => op = "mutate" /\ n = 10
  /\ step = "borrowers" => op = "mutate" /\ n = 8
  /\ step = "lease" => op = "mutate" /\ n = 5
  /\ step = "quiesce" => op = "mutate" /\ n = 4
  /\ step = "body" => op = "mutate" /\ n = 3
  /\ step = "unlease" => op = "mutate" /\ n = 2

\* The first step of an end of a script.
LEMMA HeadOfEnd ==
  ASSUME NEW t \in Seq(AllSteps), NEW script \in Seq(AllSteps), EndOf(t, script)
  PROVE  \E j \in 1..Len(script) : j = Len(script) - Len(t) + 1 /\ Len(t) \in 1..Len(script) /\ Head(t) = script[j]
<1>1. Len(t) \in 1..Len(script) /\ Len(script) \in Nat /\ t[1] = script[Len(script) - Len(t) + 1]
  BY DEF EndOf
<1>2. Head(t) = t[1]
  BY <1>1
<1>3. Len(script) - Len(t) + 1 \in 1..Len(script)
  BY <1>1
<1>. QED
  BY <1>1, <1>2, <1>3

\* The step a goroutine is at says where in which call it is.
LEMMA StepTable ==
  ASSUME NEW a, OnScript(a), a # Idle
  PROVE  Len(a.todo) \in Nat /\ (Len(a.todo) = 1 \/ Len(a.todo) > 1) /\ Table(Head(a.todo), a.op, Len(a.todo))
<1>1. PICK t \in Seq(AllSteps) : t = a.todo
  BY DEF OnScript
<1>2. CASE a.op = "append" /\ EndOf(a.todo, AppendCall)
  <2>1. PICK j, h, n : j \in 1..8 /\ j = 8 - n + 1 /\ n \in 1..8 /\ n = Len(t) /\ h = Head(t) /\ h = AppendCall[j]
    <3>1. PICK j \in 1..Len(AppendCall) :
            j = Len(AppendCall) - Len(t) + 1 /\ Len(t) \in 1..Len(AppendCall) /\ Head(t) = AppendCall[j]
      BY <1>1, <1>2, HeadOfEnd, AppendCallIs, Zenon
    <3>. QED
      BY <3>1, AppendCallIs, Zenon
  <2>2. \/ j = 1 /\ h = "lock"
        \/ j = 2 /\ h = "borrow"
        \/ j = 3 /\ h = "rlock"
        \/ j = 4 /\ h = "ref"
        \/ j = 5 /\ h = "unref"
        \/ j = 6 /\ h = "unborrow"
        \/ j = 7 /\ h = "runlock"
        \/ j = 8 /\ h = "unlock"
    <3>1. j \in 1..8 /\ h = AppendCall[j]
      BY <2>1
    <3>. QED
      BY <3>1, AppendCallIs
  <2>3. n \in Nat /\ (n = 1 \/ n > 1) /\ Table(h, "append", n)
    BY <2>1, <2>2, SMTT(60) DEF Table
  <2>. QED
    BY <1>1, <1>2, <2>1, <2>3, Zenon
<1>3. CASE a.op = "read" /\ EndOf(a.todo, ReadCall)
  <2>1. PICK j, h, n : j \in 1..4 /\ j = 4 - n + 1 /\ n \in 1..4 /\ n = Len(t) /\ h = Head(t) /\ h = ReadCall[j]
    <3>1. PICK j \in 1..Len(ReadCall) :
            j = Len(ReadCall) - Len(t) + 1 /\ Len(t) \in 1..Len(ReadCall) /\ Head(t) = ReadCall[j]
      BY <1>1, <1>3, HeadOfEnd, ReadCallIs, Zenon
    <3>. QED
      BY <3>1, ReadCallIs, Zenon
  <2>2. \/ j = 1 /\ h = "borrow"
        \/ j = 2 /\ h = "rlock"
        \/ j = 3 /\ h = "unborrow"
        \/ j = 4 /\ h = "runlock"
    <3>1. j \in 1..4 /\ h = ReadCall[j]
      BY <2>1
    <3>. QED
      BY <3>1, ReadCallIs
  <2>3. n \in Nat /\ (n = 1 \/ n > 1) /\ Table(h, "read", n)
    BY <2>1, <2>2, SMTT(60) DEF Table
  <2>. QED
    BY <1>1, <1>3, <2>1, <2>3, Zenon
<1>4. CASE a.op = "list" /\ EndOf(a.todo, ListCall)
  <2>1. PICK j, h, n : j \in 1..8 /\ j = 8 - n + 1 /\ n \in 1..8 /\ n = Len(t) /\ h = Head(t) /\ h = ListCall[j]
    <3>1. PICK j \in 1..Len(ListCall) :
            j = Len(ListCall) - Len(t) + 1 /\ Len(t) \in 1..Len(ListCall) /\ Head(t) = ListCall[j]
      BY <1>1, <1>4, HeadOfEnd, ListCallIs, Zenon
    <3>. QED
      BY <3>1, ListCallIs, Zenon
  <2>2. \/ j = 1 /\ h = "borrow"
        \/ j = 2 /\ h = "rlock"
        \/ j = 3 /\ h = "lock"
        \/ j = 4 /\ h = "ref"
        \/ j = 5 /\ h = "unref"
        \/ j = 6 /\ h = "unlock"
        \/ j = 7 /\ h = "unborrow"
        \/ j = 8 /\ h = "runlock"
    <3>1. j \in 1..8 /\ h = ListCall[j]
      BY <2>1
    <3>. QED
      BY <3>1, ListCallIs
  <2>3. n \in Nat /\ (n = 1 \/ n > 1) /\ Table(h, "list", n)
    BY <2>1, <2>2, SMTT(60) DEF Table
  <2>. QED
    BY <1>1, <1>4, <2>1, <2>3, Zenon
<1>5. CASE a.op = "create" /\ EndOf(a.todo, CreateCall)
  <2>1. PICK j, h, n : j \in 1..5 /\ j = 5 - n + 1 /\ n \in 1..5 /\ n = Len(t) /\ h = Head(t) /\ h = CreateCall[j]
    <3>1. PICK j \in 1..Len(CreateCall) :
            j = Len(CreateCall) - Len(t) + 1 /\ Len(t) \in 1..Len(CreateCall) /\ Head(t) = CreateCall[j]
      BY <1>1, <1>5, HeadOfEnd, CreateCallIs, Zenon
    <3>. QED
      BY <3>1, CreateCallIs
  <2>2. \/ j = 1 /\ h = "wait"
        \/ j = 2 /\ h = "wlock"
        \/ j = 3 /\ h = "ref"
        \/ j = 4 /\ h = "unref"
        \/ j = 5 /\ h = "wunlock"
    <3>1. j \in 1..5 /\ h = CreateCall[j]
      BY <2>1
    <3>. QED
      BY <3>1, CreateCallIs
  <2>3. n \in Nat /\ (n = 1 \/ n > 1) /\ Table(h, "create", n)
    BY <2>1, <2>2, SMTT(60) DEF Table
  <2>. QED
    BY <1>1, <1>5, <2>1, <2>3, Zenon
<1>6. CASE a.op = "fork" /\ EndOf(a.todo, ForkCall)
  <2>1. PICK j, h, n : j \in 1..7 /\ j = 7 - n + 1 /\ n \in 1..7 /\ n = Len(t) /\ h = Head(t) /\ h = ForkCall[j]
    <3>1. PICK j \in 1..Len(ForkCall) :
            j = Len(ForkCall) - Len(t) + 1 /\ Len(t) \in 1..Len(ForkCall) /\ Head(t) = ForkCall[j]
      BY <1>1, <1>6, HeadOfEnd, ForkCallIs, Zenon
    <3>. QED
      BY <3>1, ForkCallIs, Zenon
  <2>2. \/ j = 1 /\ h = "lock"
        \/ j = 2 /\ h = "wait"
        \/ j = 3 /\ h = "wlock"
        \/ j = 4 /\ h = "ref"
        \/ j = 5 /\ h = "unref"
        \/ j = 6 /\ h = "wunlock"
        \/ j = 7 /\ h = "unlock"
    <3>1. j \in 1..7 /\ h = ForkCall[j]
      BY <2>1
    <3>. QED
      BY <3>1, ForkCallIs
  <2>3. n \in Nat /\ (n = 1 \/ n > 1) /\ Table(h, "fork", n)
    BY <2>1, <2>2, SMTT(60) DEF Table
  <2>. QED
    BY <1>1, <1>6, <2>1, <2>3, Zenon
<1>7. CASE a.op = "head" /\ EndOf(a.todo, HeadCall)
  <2>1. PICK j, h, n : j \in 1..5 /\ j = 5 - n + 1 /\ n \in 1..5 /\ n = Len(t) /\ h = Head(t) /\ h = HeadCall[j]
    <3>1. PICK j \in 1..Len(HeadCall) :
            j = Len(HeadCall) - Len(t) + 1 /\ Len(t) \in 1..Len(HeadCall) /\ Head(t) = HeadCall[j]
      BY <1>1, <1>7, HeadOfEnd, HeadCallIs, Zenon
    <3>. QED
      BY <3>1, HeadCallIs
  <2>2. \/ j = 1 /\ h = "hold"
        \/ j = 2 /\ h = "borrow"
        \/ j = 3 /\ h = "rlock"
        \/ j = 4 /\ h = "ref"
        \/ j = 5 /\ h = "runlock"
    <3>1. j \in 1..5 /\ h = HeadCall[j]
      BY <2>1
    <3>. QED
      BY <3>1, HeadCallIs
  <2>3. n \in Nat /\ (n = 1 \/ n > 1) /\ Table(h, "head", n)
    BY <2>1, <2>2, SMTT(60) DEF Table
  <2>. QED
    BY <1>1, <1>7, <2>1, <2>3, Zenon
<1>8. CASE a.op = "close" /\ EndOf(a.todo, CloseCall)
  <2>1. PICK j, h, n : j \in 1..3 /\ j = 3 - n + 1 /\ n \in 1..3 /\ n = Len(t) /\ h = Head(t) /\ h = CloseCall[j]
    <3>1. PICK j \in 1..Len(CloseCall) :
            j = Len(CloseCall) - Len(t) + 1 /\ Len(t) \in 1..Len(CloseCall) /\ Head(t) = CloseCall[j]
      BY <1>1, <1>8, HeadOfEnd, CloseCallIs, Zenon
    <3>. QED
      BY <3>1, CloseCallIs, Zenon
  <2>2. \/ j = 1 /\ h = "unref"
        \/ j = 2 /\ h = "unborrow"
        \/ j = 3 /\ h = "unhold"
    <3>1. j \in 1..3 /\ h = CloseCall[j]
      BY <2>1
    <3>. QED
      BY <3>1, CloseCallIs
  <2>3. n \in Nat /\ (n = 1 \/ n > 1) /\ Table(h, "close", n)
    BY <2>1, <2>2, SMTT(60) DEF Table
  <2>. QED
    BY <1>1, <1>8, <2>1, <2>3, Zenon
<1>9. CASE a.op = "evict" /\ EndOf(a.todo, EvictCall)
  <2>1. PICK j, h, n : j \in 1..4 /\ j = 4 - n + 1 /\ n \in 1..4 /\ n = Len(t) /\ h = Head(t) /\ h = EvictCall[j]
    <3>1. PICK j \in 1..Len(EvictCall) :
            j = Len(EvictCall) - Len(t) + 1 /\ Len(t) \in 1..Len(EvictCall) /\ Head(t) = EvictCall[j]
      BY <1>1, <1>9, HeadOfEnd, EvictCallIs, Zenon
    <3>. QED
      BY <3>1, EvictCallIs, Zenon
  <2>2. \/ j = 1 /\ h = "lock"
        \/ j = 2 /\ h = "rlock"
        \/ j = 3 /\ h = "runlock"
        \/ j = 4 /\ h = "unlock"
    <3>1. j \in 1..4 /\ h = EvictCall[j]
      BY <2>1
    <3>. QED
      BY <3>1, EvictCallIs
  <2>3. n \in Nat /\ (n = 1 \/ n > 1) /\ Table(h, "evict", n)
    BY <2>1, <2>2, SMTT(60) DEF Table
  <2>. QED
    BY <1>1, <1>9, <2>1, <2>3, Zenon
<1>10. CASE a.op = "sync" /\ EndOf(a.todo, SyncCall)
  <2>1. PICK j, h, n : j \in 1..2 /\ j = 2 - n + 1 /\ n \in 1..2 /\ n = Len(t) /\ h = Head(t) /\ h = SyncCall[j]
    <3>1. PICK j \in 1..Len(SyncCall) :
            j = Len(SyncCall) - Len(t) + 1 /\ Len(t) \in 1..Len(SyncCall) /\ Head(t) = SyncCall[j]
      BY <1>1, <1>10, HeadOfEnd, SyncCallIs, Zenon
    <3>. QED
      BY <3>1, SyncCallIs, Zenon
  <2>2. \/ j = 1 /\ h = "ref"
        \/ j = 2 /\ h = "unref"
    <3>1. j \in 1..2 /\ h = SyncCall[j]
      BY <2>1
    <3>. QED
      BY <3>1, SyncCallIs
  <2>3. n \in Nat /\ (n = 1 \/ n > 1) /\ Table(h, "sync", n)
    BY <2>1, <2>2, SMTT(60) DEF Table
  <2>. QED
    BY <1>1, <1>10, <2>1, <2>3, Zenon
<1>11. CASE a.op = "mutate" /\ EndOf(a.todo, MutateAgain)
  <2>1. PICK j, h, n : j \in 1..10 /\ j = 10 - n + 1 /\ n \in 1..10 /\ n = Len(t) /\ h = Head(t) /\ h = MutateAgain[j]
    <3>1. PICK j \in 1..Len(MutateAgain) :
            j = Len(MutateAgain) - Len(t) + 1 /\ Len(t) \in 1..Len(MutateAgain) /\ Head(t) = MutateAgain[j]
      BY <1>1, <1>11, HeadOfEnd, MutateAgainIs, Zenon
    <3>. QED
      BY <3>1, MutateAgainIs, Zenon
  <2>2. \/ j = 1 /\ h = "drain"
        \/ j = 2 /\ h = "wunlock"
        \/ j = 3 /\ h = "borrowers"
        \/ j = 4 /\ h = "wait"
        \/ j = 5 /\ h = "wlock"
        \/ j = 6 /\ h = "lease"
        \/ j = 7 /\ h = "quiesce"
        \/ j = 8 /\ h = "body"
        \/ j = 9 /\ h = "unlease"
        \/ j = 10 /\ h = "wunlock"
    <3>1. j \in 1..10 /\ h = MutateAgain[j]
      BY <2>1
    <3>. QED
      BY <3>1, MutateAgainIs
  <2>3. n \in Nat /\ (n = 1 \/ n > 1) /\ Table(h, "mutate", n)
    BY <2>1, <2>2, SMTT(60) DEF Table
  <2>. QED
    BY <1>1, <1>11, <2>1, <2>3, Zenon
<1>. QED
  BY <1>2, <1>3, <1>4, <1>5, <1>6, <1>7, <1>8, <1>9, <1>10, <1>11 DEF OnScript

-----------------------------------------------------------------------------
(* One step of one goroutine.                                               *)

\* p comes to have n steps left of op, and nobody else moves.
MovesTo(p, op, n) ==
  /\ at' \in [Proc -> Where]
  /\ \A q \in Proc \ {p} : at'[q] = at[q]
  /\ OnScript(at'[p]) /\ at'[p].op = op /\ Len(at'[p].todo) = n

\* An idle goroutine is in no call.
LEMMA IdleIs == OnScript(Idle) /\ Idle \in Where /\ Idle.op = "none" /\ Len(Idle.todo) = 0
  BY DEF OnScript, Idle, Where

\* A goroutine on its script that is not idle.
LEMMA OnScriptType ==
  ASSUME NEW a, OnScript(a)
  PROVE  a \in Where /\ (a # Idle => a \in [op : AllOps, todo : Seq(AllSteps), k : Trunk])
  BY IdleIs DEF OnScript, Where

\* A goroutine that is put somewhere on its script.
LEMMA PutMoves ==
  ASSUME LInv, NEW p \in Proc, NEW b, OnScript(b), at' = [at EXCEPT ![p] = b]
  PROVE  MovesTo(p, b.op, Len(b.todo))
<1>1. b \in Where
  BY OnScriptType
<1>2. at \in [Proc -> Where]
  BY DEF LInv, TypeOK
<1>. QED
  BY <1>1, <1>2 DEF MovesTo

\* What a step leaves, and when it was the last.
LEMMA TailFacts ==
  ASSUME NEW t \in Seq(AllSteps)
  PROVE  (Len(t) = 1 => Tail(t) = <<>>) /\ (Len(t) > 1 => Tail(t) # <<>>)
<1>1. CASE t = <<>>
  BY <1>1
<1>2. CASE t # <<>>
  <2>1. Tail(t) \in Seq(AllSteps) /\ Len(Tail(t)) = Len(t) - 1
    BY <1>2, HeadTailProperties
  <2>2. Tail(t) = <<>> <=> Len(Tail(t)) = 0
    BY <2>1, EmptySeq, Zenon
  <2>. QED
    BY <2>1, <2>2
<1>. QED
  BY <1>1, <1>2

\* The next location of a goroutine that takes a step.
LEMMA AfterStep ==
  ASSUME NEW a, NEW b, OnScript(a), a # Idle,
         b = IF Tail(a.todo) = <<>> THEN Idle ELSE [a EXCEPT !.todo = Tail(a.todo)]
  PROVE  /\ OnScript(b)
         /\ Len(a.todo) = 1 => b = Idle
         /\ Len(a.todo) > 1 => b.op = a.op /\ Len(b.todo) = Len(a.todo) - 1
<1>1. PICK t \in Seq(AllSteps) : t = a.todo
  BY OnScriptType
<1>2. CASE Len(a.todo) = 1
  BY <1>1, <1>2, TailFacts, IdleIs
<1>3. CASE Len(a.todo) > 1
  <2>1. b = [a EXCEPT !.todo = Tail(a.todo)]
    BY <1>1, <1>3, TailFacts, Zenon
  <2>2. OnScript(b) /\ b.op = a.op /\ Len(b.todo) = Len(a.todo) - 1
    BY <2>1, <1>3, TailOnScript, Zenon
  <2>3. Len(a.todo) # 1
    <3>1. \A m \in Nat : m > 1 => m # 1
      OBVIOUS
    <3>2. Len(t) \in Nat
      OBVIOUS
    <3>. QED
      BY <3>1, <3>2, <1>1, <1>3, Zenon
  <2>. QED
    BY <2>2, <2>3, <1>3, Zenon
<1>. QED
  BY <1>2, <1>3, StepTable, Zenon

\* The location after one: the next in the call, or none.
NextAt(op, n, o, m) == (n = 1 /\ o = "none" /\ m = 0) \/ (n > 1 /\ o = op /\ m = n - 1)

\* Done takes the step the goroutine is at, and ends the call with its last one.
LEMMA DoneMoves ==
  ASSUME LInv, NEW p \in Proc, NEW step, Done(p, step), NEW op, NEW n,
         op = at[p].op, n = Len(at[p].todo)
  PROVE  /\ n \in Nat /\ Table(step, op, n) /\ Holds(p, op, n)
         /\ \E o, m : NextAt(op, n, o, m) /\ MovesTo(p, o, m)
<1>1. at[p].todo # <<>> /\ Head(at[p].todo) = step /\ Goto(p, Tail(at[p].todo))
  BY DEF Done, Next1
<1>2. PICK a : a = at[p] /\ OnScript(a)
  BY DEF LInv
<1>3. a # Idle
  BY <1>1, <1>2 DEF Idle
<1>4. n \in Nat /\ (n = 1 \/ n > 1) /\ Table(step, op, n)
  BY <1>1, <1>2, <1>3, StepTable
<1>5. PICK b : b = IF Tail(a.todo) = <<>> THEN Idle ELSE [a EXCEPT !.todo = Tail(a.todo)]
  BY Zenon
<1>6. at' = [at EXCEPT ![p] = b]
  BY <1>1, <1>2, <1>5, Zenon DEF Goto
<1>7. /\ OnScript(b)
      /\ n = 1 => b = Idle
      /\ n > 1 => b.op = op /\ Len(b.todo) = n - 1
  BY <1>2, <1>3, <1>5, AfterStep, Zenon
<1>8. MovesTo(p, b.op, Len(b.todo))
  BY <1>6, <1>7, PutMoves, Zenon
<1>9. NextAt(op, n, b.op, Len(b.todo))
  BY <1>4, <1>7, IdleIs DEF NextAt
<1>10. Holds(p, op, n)
  BY DEF LInv
<1>. QED
  BY <1>4, <1>8, <1>9, <1>10

\* Another goroutine holds what it held.
Same(q) ==
  /\ (q \in readers') = (q \in readers)
  /\ (writer' = q) = (writer = q) /\ (mutating' = q) = (mutating = q)
  /\ view'[q] = view[q] /\ borrows'[q] = borrows[q] /\ refs'[q] = refs[q]

\* What is left to show of a step: the goroutine that takes it, and the two
\* facts that are not about one goroutine.
LEMMA StepKeeps ==
  ASSUME LInv, NEW p \in Proc, NEW op, NEW n, MovesTo(p, op, n),
         view' \in [Proc -> Trunk \cup {None}], borrows' \in [Proc -> Nat], refs' \in [Proc -> Nat],
         readers' \subseteq Proc,
         \A q \in Proc \ {p} : Same(q),
         Holds(p, op, n)',
         readers' # {} => (writer' = None /\ ~Excludes(op, n)) \/ readers' \subseteq readers,
         Excludes(op, n) => readers' = {},
         mutating' # None => \A q \in Proc : borrows'[q] = 0
  PROVE  LInv'
<1>1. TypeOK'
  BY DEF TypeOK, MovesTo
<1>2. ASSUME NEW q \in Proc
      PROVE  OnScript(at'[q])
  BY Zenon DEF MovesTo, LInv
<1>3. ASSUME NEW q \in Proc \ {p}
      PROVE  Holds(q, at[q].op, Len(at[q].todo))'
  <2>1. PICK a : a = at[q] /\ at'[q] = a
    BY DEF MovesTo
  <2>2. Holds(q, a.op, Len(a.todo)) /\ Same(q)
    BY <2>1, Zenon DEF LInv
  <2>3. Holds(q, a.op, Len(a.todo))'
    BY <2>2 DEF Holds, Same
  <2>. QED
    BY <2>1, <2>3
<1>4. Holds(p, at[p].op, Len(at[p].todo))'
  BY DEF MovesTo
<1>5. ASSUME NEW q \in Proc \ {p}, Excludes(at[q].op, Len(at[q].todo))
      PROVE  readers' = {}
  <2>1. PICK o, m : o = at[q].op /\ m = Len(at[q].todo)
    BY Zenon
  <2>2. Excludes(o, m) /\ Holds(q, o, m) /\ readers = {}
    BY <1>5, <2>1 DEF LInv
  <2>3. Announced(o, m)
    BY <2>2 DEF Excludes, Announced
  <2>4. writer' = q
    BY <2>2, <2>3 DEF Holds, Same
  <2>. QED
    BY <2>2, <2>4, OpsAssumption
<1>6. ASSUME NEW q \in Proc
      PROVE  (Excludes(at[q].op, Len(at[q].todo)) => readers = {})'
  BY <1>5, Zenon DEF MovesTo
<1>7. (mutating # None => NoBorrower)'
  BY DEF NoBorrower
<1>. QED
  BY <1>1, <1>2, <1>3, <1>4, <1>6, <1>7 DEF LInv

-----------------------------------------------------------------------------
(* The steps.                                                               *)

\* What a step does to the locks, the borrows, the references and the handle.
Effect(p, step) ==
  /\ step = "rlock" => writer = None /\ readers' = readers \cup {p}
  /\ step = "runlock" => readers' = readers \ {p}
  /\ step \notin {"rlock", "runlock"} => readers' = readers
  /\ step = "wait" => writer = None /\ writer' = p
  /\ step = "wlock" => readers = {}
  /\ step = "wunlock" => writer' = None
  /\ step \notin {"wait", "wunlock"} => writer' = writer
  /\ step = "lease" => NoBorrower /\ mutating = None /\ mutating' = p
  /\ step = "unlease" => mutating' = None
  /\ step \notin {"lease", "unlease"} => mutating' = mutating
  /\ step = "borrow" => mutating = None /\ borrows' = [borrows EXCEPT ![p] = borrows[p] + 1]
  /\ step = "unborrow" => borrows' = [borrows EXCEPT ![p] = borrows[p] - 1]
  /\ step \notin {"borrow", "unborrow"} => borrows' = borrows
  /\ step = "ref" => refs' = [refs EXCEPT ![p] = refs[p] + 1]
  /\ step = "unref" => refs' = [refs EXCEPT ![p] = refs[p] - 1]
  /\ step \notin {"ref", "unref"} => refs' = refs
  /\ step = "hold" => view' = [view EXCEPT ![p] = at[p].k]
  /\ step = "unhold" => view' = [view EXCEPT ![p] = None]
  /\ step \notin {"hold", "unhold"} => view' = view

\* Taking a step, a goroutine comes to be where it holds t.mu for reading when
\* the step takes it, and not when it gives it back.
LEMMA ReadsAfter ==
  ASSUME NEW step \in AllSteps, NEW op, NEW n \in Nat, NEW o, NEW m,
         Table(step, op, n), NextAt(op, n, o, m)
  PROVE  /\ step = "rlock" => Reads(o, m)
         /\ step = "runlock" => ~Reads(o, m)
         /\ step \notin {"rlock", "runlock"} => (Reads(op, n) <=> Reads(o, m))
  BY SMTT(60) DEF AllSteps, Table, NextAt, Reads

\* The same for writing: its wait to its unlock.
LEMMA AnnouncedAfter ==
  ASSUME NEW step \in AllSteps, NEW op, NEW n \in Nat, NEW o, NEW m,
         Table(step, op, n), NextAt(op, n, o, m)
  PROVE  /\ step = "wait" => Announced(o, m)
         /\ step = "wunlock" => Announced(op, n) /\ ~Announced(o, m)
         /\ step \notin {"wait", "wunlock"} => (Announced(op, n) <=> Announced(o, m))
  BY SMTT(60) DEF AllSteps, Table, NextAt, Announced

\* A writer comes to be past its wait with wlock.
LEMMA ExcludesAfter ==
  ASSUME NEW step \in AllSteps, NEW op, NEW n \in Nat, NEW o, NEW m,
         Table(step, op, n), NextAt(op, n, o, m)
  PROVE  /\ Excludes(o, m) => Excludes(op, n) \/ step = "wlock"
         /\ step = "rlock" => ~Excludes(o, m)
  BY SMTT(60) DEF AllSteps, Table, NextAt, Excludes

\* The same for the mutation lease.
LEMMA LeasesAfter ==
  ASSUME NEW step \in AllSteps, NEW op, NEW n \in Nat, NEW o, NEW m,
         Table(step, op, n), NextAt(op, n, o, m)
  PROVE  /\ step = "lease" => Leases(o, m)
         /\ step = "unlease" => Leases(op, n) /\ ~Leases(o, m)
         /\ step \notin {"lease", "unlease"} => (Leases(op, n) <=> Leases(o, m))
  BY SMTT(60) DEF AllSteps, Table, NextAt, Leases

\* A handle comes and goes with hold and unhold.
LEMMA HandleAfter ==
  ASSUME NEW step \in AllSteps, NEW op, NEW n \in Nat, NEW o, NEW m,
         Table(step, op, n), NextAt(op, n, o, m),
         NEW b \in BOOLEAN, NEW c \in BOOLEAN, Handle(op, n, b),
         step = "hold" => c, step = "unhold" => ~c, step \notin {"hold", "unhold"} => c = b
  PROVE  Handle(o, m, c)
  BY SMTT(60) DEF AllSteps, Table, NextAt, Handle

\* The borrows at a location are those before it and the one the step makes.
LEMMA BorrowsAfter ==
  ASSUME NEW step \in AllSteps, NEW op, NEW n \in Nat, NEW o, NEW m,
         Table(step, op, n), NextAt(op, n, o, m),
         NEW b \in BOOLEAN, NEW c \in BOOLEAN, Handle(op, n, b),
         step = "hold" => c, step = "unhold" => ~c, step \notin {"hold", "unhold"} => c = b
  PROVE  /\ BorrowsAt(op, n, b) \in Nat /\ BorrowsAt(o, m, c) \in Nat
         /\ step = "borrow" => BorrowsAt(o, m, c) = BorrowsAt(op, n, b) + 1
         /\ step = "unborrow" => BorrowsAt(op, n, b) = BorrowsAt(o, m, c) + 1
         /\ step \notin {"borrow", "unborrow"} => BorrowsAt(o, m, c) = BorrowsAt(op, n, b)
  BY SMTT(60) DEF AllSteps, Table, NextAt, Handle, BorrowsAt, One, Borrows, ViewBorrows

\* The same for the references.
LEMMA RefsAfter ==
  ASSUME NEW step \in AllSteps, NEW op, NEW n \in Nat, NEW o, NEW m,
         Table(step, op, n), NextAt(op, n, o, m),
         NEW b \in BOOLEAN, NEW c \in BOOLEAN, Handle(op, n, b),
         step = "hold" => c, step = "unhold" => ~c, step \notin {"hold", "unhold"} => c = b
  PROVE  /\ RefsAt(op, n, b) \in Nat /\ RefsAt(o, m, c) \in Nat
         /\ step = "ref" => RefsAt(o, m, c) = RefsAt(op, n, b) + 1
         /\ step = "unref" => RefsAt(op, n, b) = RefsAt(o, m, c) + 1
         /\ step \notin {"ref", "unref"} => RefsAt(o, m, c) = RefsAt(op, n, b)
  BY SMTT(60) DEF AllSteps, Table, NextAt, Handle, RefsAt, One, References, ViewReferences

\* A step with its effect keeps the invariant, whichever step it is.
LEMMA EffectKeeps ==
  ASSUME LInv, NEW p \in Proc, NEW step \in AllSteps, Done(p, step), Effect(p, step)
  PROVE  LInv'
<1>1. PICK op, n : op = at[p].op /\ n = Len(at[p].todo)
  BY Zenon
<1>2. PICK o, m : /\ n \in Nat /\ Table(step, op, n) /\ Holds(p, op, n)
                  /\ NextAt(op, n, o, m) /\ MovesTo(p, o, m)
  BY <1>1, DoneMoves
<1>3. PICK b \in BOOLEAN, c \in BOOLEAN : b = (view[p] # None) /\ c = (view'[p] # None)
  BY Zenon
<1>4. step = "hold" => at[p].k \in Trunk
  <2>1. OnScript(at[p]) /\ at[p] # Idle
    BY DEF LInv, Done, Next1, Idle
  <2>. QED
    BY <2>1, OnScriptType
<1>5. view' \in [Proc -> Trunk \cup {None}] /\ \A q \in Proc \ {p} : view'[q] = view[q]
  BY <1>4, Zenon DEF LInv, TypeOK, Effect
<1>6. /\ Handle(op, n, b)
      /\ step = "hold" => c
      /\ step = "unhold" => ~c
      /\ step \notin {"hold", "unhold"} => c = b
  <2>1. Handle(op, n, b)
    BY <1>2, <1>3, Zenon DEF Holds
  <2>2. step = "hold" => view'[p] \in Trunk
    BY <1>4 DEF LInv, TypeOK, Effect
  <2>3. step = "unhold" => view'[p] = None
    BY DEF LInv, TypeOK, Effect
  <2>4. step \notin {"hold", "unhold"} => view'[p] = view[p]
    BY DEF Effect
  <2>. QED
    BY <2>1, <2>2, <2>3, <2>4, <1>3, OpsAssumption, Zenon
<1>7. borrows'[p] = BorrowsAt(o, m, c) /\ borrows' \in [Proc -> Nat] /\ \A q \in Proc \ {p} : borrows'[q] = borrows[q]
  <2>1. borrows[p] = BorrowsAt(op, n, b) /\ borrows \in [Proc -> Nat]
    BY <1>2, <1>3, Zenon DEF Holds, LInv, TypeOK
  <2>2. PICK x \in Nat, y \in Nat : x = BorrowsAt(op, n, b) /\ y = BorrowsAt(o, m, c)
    BY <1>2, <1>6, BorrowsAfter
  <2>3. /\ step = "borrow" => y = x + 1
        /\ step = "unborrow" => x = y + 1
        /\ step \notin {"borrow", "unborrow"} => y = x
    BY <1>2, <1>6, <2>2, BorrowsAfter
  <2>4. borrows' = [borrows EXCEPT ![p] = y]
    BY <2>1, <2>2, <2>3 DEF Effect
  <2>. QED
    BY <2>1, <2>2, <2>4
<1>8. refs'[p] = RefsAt(o, m, c) /\ refs' \in [Proc -> Nat] /\ \A q \in Proc \ {p} : refs'[q] = refs[q]
  <2>1. refs[p] = RefsAt(op, n, b) /\ refs \in [Proc -> Nat]
    BY <1>2, <1>3, Zenon DEF Holds, LInv, TypeOK
  <2>2. PICK x \in Nat, y \in Nat : x = RefsAt(op, n, b) /\ y = RefsAt(o, m, c)
    BY <1>2, <1>6, RefsAfter
  <2>3. /\ step = "ref" => y = x + 1
        /\ step = "unref" => x = y + 1
        /\ step \notin {"ref", "unref"} => y = x
    BY <1>2, <1>6, <2>2, RefsAfter
  <2>4. refs' = [refs EXCEPT ![p] = y]
    BY <2>1, <2>2, <2>3, SMTT(60) DEF Effect
  <2>. QED
    BY <2>1, <2>2, <2>4
<1>9. /\ readers' \subseteq Proc /\ (p \in readers' <=> Reads(o, m))
      /\ \A q \in Proc \ {p} : q \in readers' <=> q \in readers
  <2>1. p \in readers <=> Reads(op, n)
    BY <1>2, Zenon DEF Holds
  <2>. QED
    BY <1>2, <2>1, ReadsAfter, Zenon DEF LInv, TypeOK, Effect
<1>10. /\ writer' = p <=> Announced(o, m)
       /\ \A q \in Proc \ {p} : writer' = q <=> writer = q
  <2>1. writer = p <=> Announced(op, n)
    BY <1>2, Zenon DEF Holds
  <2>. QED
    BY <1>2, <2>1, AnnouncedAfter, OpsAssumption, Zenon DEF Effect
<1>11. /\ mutating' = p <=> Leases(o, m)
       /\ \A q \in Proc \ {p} : mutating' = q <=> mutating = q
  <2>1. mutating = p <=> Leases(op, n)
    BY <1>2 DEF Holds
  <2>. QED
    BY <1>2, <2>1, LeasesAfter, OpsAssumption, Zenon DEF Effect
<1>12. Handle(o, m, c)
  BY <1>2, <1>6, HandleAfter
<1>13. Holds(p, o, m)'
  BY <1>3, <1>7, <1>8, <1>9, <1>10, <1>11, <1>12, Zenon DEF Holds
<1>14. \A q \in Proc \ {p} : Same(q)
  BY <1>5, <1>7, <1>8, <1>9, <1>10, <1>11, SMTT(60) DEF Same
<1>15. Excludes(o, m) => readers' = {}
  <2>1. Excludes(op, n) => readers = {}
    BY <1>1, Zenon DEF LInv
  <2>2. Excludes(o, m) => readers = {} /\ step # "rlock"
    BY <1>2, <2>1, ExcludesAfter, Zenon DEF Effect
  <2>. QED
    BY <2>2 DEF Effect
<1>16. readers' # {} => (writer' = None /\ ~Excludes(o, m)) \/ readers' \subseteq readers
  BY <1>2, ExcludesAfter DEF Effect
<1>17. mutating' # None => \A q \in Proc : borrows'[q] = 0
  <2>1. CASE step = "lease"
    BY <2>1 DEF Effect, NoBorrower
  <2>2. CASE step # "lease" /\ mutating' # None
    <3>1. mutating # None /\ NoBorrower /\ step # "borrow"
      BY <2>2 DEF Effect, LInv
    <3>2. step # "unborrow"
      <4>1. SUFFICES ASSUME step = "unborrow" PROVE FALSE
        BY Zenon
      <4>2. borrows'[p] \in Nat /\ borrows'[p] = borrows[p] - 1 /\ borrows[p] = 0
        BY <4>1, <3>1, <1>7 DEF Effect, NoBorrower, LInv, TypeOK
      <4>. QED
        BY <4>2
    <3>. QED
      BY <3>1, <3>2, Zenon DEF Effect, NoBorrower
  <2>. QED
    BY <2>1, <2>2
<1>. QED
  BY <1>2, <1>5, <1>7, <1>8, <1>9, <1>13, <1>14, <1>15, <1>16, <1>17, StepKeeps, Zenon

\* A jump to a location at which the same is held.
Alike(op, n, o, m, b) ==
  /\ Reads(op, n) <=> Reads(o, m)
  /\ Announced(op, n) <=> Announced(o, m)
  /\ Leases(op, n) <=> Leases(o, m)
  /\ BorrowsAt(op, n, b) = BorrowsAt(o, m, b)
  /\ RefsAt(op, n, b) = RefsAt(o, m, b)
  /\ Handle(o, m, b)
  /\ Excludes(o, m) => Excludes(op, n)

\* It keeps the invariant.
LEMMA JumpKeeps ==
  ASSUME LInv, NEW p \in Proc, NEW op, NEW n, NEW o, NEW m,
         op = at[p].op, n = Len(at[p].todo), MovesTo(p, o, m), Alike(op, n, o, m, view[p] # None),
         UNCHANGED <<view, writer, readers, mutating, borrows, refs>>
  PROVE  LInv'
<1>1. Holds(p, op, n) /\ (Excludes(op, n) => readers = {})
  BY DEF LInv
<1>2. Holds(p, o, m)'
  BY <1>1, Zenon DEF Holds, Alike
<1>3. \A q \in Proc \ {p} : Same(q)
  BY DEF Same
<1>4. /\ view' \in [Proc -> Trunk \cup {None}] /\ borrows' \in [Proc -> Nat] /\ refs' \in [Proc -> Nat]
      /\ readers' \subseteq Proc
      /\ mutating' # None => \A q \in Proc : borrows'[q] = 0
  BY Zenon DEF LInv, TypeOK, NoBorrower
<1>5. readers' \subseteq readers /\ (Excludes(o, m) => readers' = {})
  BY <1>1 DEF Alike
<1>. QED
  BY <1>2, <1>3, <1>4, <1>5, StepKeeps, Zenon

\* Where a mutation is at a step it may jump from.
LEMMA NextIsAt ==
  ASSUME LInv, NEW p \in Proc, NEW step, Next1(p, step)
  PROVE  Table(step, at[p].op, Len(at[p].todo)) /\ at[p] # Idle /\ OnScript(at[p])
<1>1. PICK a : a = at[p] /\ OnScript(a) /\ a.todo # <<>> /\ Head(a.todo) = step
  BY DEF LInv, Next1
<1>2. a # Idle
  BY <1>1 DEF Idle
<1>. QED
  BY <1>1, <1>2, StepTable

\* A mutation that goes on somewhere else on its script.
LEMMA MutationMoves ==
  ASSUME LInv, NEW p \in Proc, at[p] # Idle, at[p].op = "mutate",
         NEW t \in Seq(AllSteps), EndOf(t, MutateAgain), t # <<>>, Goto(p, t)
  PROVE  MovesTo(p, "mutate", Len(t))
<1>1. PICK a : a = at[p] /\ a \in [op : AllOps, todo : Seq(AllSteps), k : Trunk]
  BY OnScriptType DEF LInv
<1>2. PICK b : b = [a EXCEPT !.todo = t]
  BY Zenon
<1>3. b \in [op : AllOps, todo : Seq(AllSteps), k : Trunk] /\ b.op = "mutate" /\ b.todo = t
  BY <1>1, <1>2
<1>4. OnScript(b)
  BY <1>3 DEF OnScript
<1>5. at' = [at EXCEPT ![p] = b]
  BY <1>1, <1>2, Zenon DEF Goto
<1>. QED
  BY <1>3, <1>4, <1>5, PutMoves, Zenon

\* A refused lease holds t.mu and nothing else, and so does the wait for the heads.
LEMMA LeaseKeeps ==
  ASSUME LInv, NEW p \in Proc, Lease(p)
  PROVE  LInv'
<1>1. CASE NoBorrower
  <2>1. Done(p, "lease") /\ "lease" \in AllSteps
    BY <1>1, Zenon DEF Lease, Done, AllSteps
  <2>2. Effect(p, "lease")
    BY <1>1, Zenon DEF Lease, Effect
  <2>. QED
    BY <2>1, <2>2, EffectKeeps
<1>2. CASE ~NoBorrower
  <2>1. Next1(p, "lease") /\ Goto(p, MutateAgain) /\ UNCHANGED <<view, writer, readers, mutating, borrows, refs>>
    BY <1>2 DEF Lease
  <2>2. PICK op, n : op = at[p].op /\ n = Len(at[p].todo)
    BY Zenon
  <2>3. op = "mutate" /\ n = 5 /\ at[p] # Idle
    BY <2>1, <2>2, NextIsAt DEF Table
  <2>4. EndOf(MutateAgain, MutateAgain) /\ MutateAgain # <<>> /\ Len(MutateAgain) = 10
    BY MutateAgainIs DEF EndOf
  <2>5. MovesTo(p, "mutate", 10)
    BY <2>1, <2>2, <2>3, <2>4, MutateAgainIs, MutationMoves, Zenon
  <2>6. Alike(op, n, "mutate", 10, view[p] # None)
    BY <2>3 DEF Alike, Reads, Announced, Leases, BorrowsAt, RefsAt, Borrows, References, ViewBorrows,
                ViewReferences, Handle, Excludes
  <2>. QED
    BY <2>1, <2>2, <2>5, <2>6, JumpKeeps
<1>. QED
  BY <1>1, <1>2

\* A mutation that gives up goes where it releases what it holds.
LEMMA TimeoutKeeps ==
  ASSUME LInv, NEW p \in Proc, Timeout(p)
  PROVE  LInv'
<1>1. PICK op, n : op = at[p].op /\ n = Len(at[p].todo)
  BY Zenon
<1>2. UNCHANGED <<view, writer, readers, mutating, borrows, refs>>
  BY Zenon DEF Timeout
<1>3. CASE Next1(p, "drain") /\ Goto(p, <<"wunlock">>)
  <2>1. op = "mutate" /\ n = 10 /\ at[p] # Idle
    BY <1>1, <1>3, NextIsAt DEF Table
  <2>2. /\ <<"wunlock">> \in Seq(AllSteps) /\ <<"wunlock">> # <<>> /\ Len(<<"wunlock">>) = 1
        /\ EndOf(<<"wunlock">>, MutateAgain)
    BY MutateAgainIs DEF EndOf, AllSteps
  <2>3. MovesTo(p, "mutate", 1)
    BY <1>1, <1>3, <2>1, <2>2, MutationMoves, Zenon
  <2>4. Alike(op, n, "mutate", 1, view[p] # None)
    BY <2>1 DEF Alike, Reads, Announced, Leases, BorrowsAt, RefsAt, Borrows, References, ViewBorrows,
                ViewReferences, Handle, Excludes
  <2>. QED
    BY <1>1, <1>2, <2>3, <2>4, JumpKeeps, Zenon
<1>4. CASE Next1(p, "borrowers") /\ Goto(p, <<>>)
  <2>1. op = "mutate" /\ n = 8
    BY <1>1, <1>4, NextIsAt DEF Table
  <2>2. at' = [at EXCEPT ![p] = Idle]
    BY <1>4 DEF Goto
  <2>3. MovesTo(p, "none", 0)
    BY <2>2, PutMoves, IdleIs, Zenon
  <2>4. Alike(op, n, "none", 0, view[p] # None)
    BY <2>1 DEF Alike, Reads, Announced, Leases, BorrowsAt, RefsAt, Borrows, References, ViewBorrows,
                ViewReferences, Handle, Excludes
  <2>. QED
    BY <1>1, <1>2, <2>3, <2>4, JumpKeeps, Zenon
<1>5. CASE Next1(p, "quiesce") /\ Goto(p, <<"unlease", "wunlock">>)
  <2>1. op = "mutate" /\ n = 4 /\ at[p] # Idle
    BY <1>1, <1>5, NextIsAt DEF Table
  <2>2. PICK t : t = <<"unlease", "wunlock">>
    BY Zenon
  <2>3. t \in Seq(AllSteps) /\ t # <<>> /\ Len(t) = 2 /\ t[1] = "unlease" /\ t[2] = "wunlock"
    BY <2>2 DEF AllSteps
  <2>4. EndOf(t, MutateAgain)
    BY <2>3, MutateAgainIs DEF EndOf
  <2>5. MovesTo(p, "mutate", 2)
    BY <1>1, <1>5, <2>1, <2>2, <2>3, <2>4, MutationMoves, Zenon
  <2>6. Alike(op, n, "mutate", 2, view[p] # None)
    BY <2>1 DEF Alike, Reads, Announced, Leases, BorrowsAt, RefsAt, Borrows, References, ViewBorrows,
                ViewReferences, Handle, Excludes
  <2>. QED
    BY <1>1, <1>2, <2>5, <2>6, JumpKeeps, Zenon
<1>. QED
  BY <1>3, <1>4, <1>5 DEF Timeout

\* A call begins with nothing held but by the handle.
LEMMA BeginKeeps ==
  ASSUME LInv, NEW p \in Proc, NEW op \in Ops, NEW k \in Trunk, Begin(p, op, k)
  PROVE  LInv'
<1>1. op \in AllOps
  BY OpsAssumption DEF AllOps
<1>2. PICK a : a = [op |-> op, todo |-> Steps(op), k |-> k]
  BY Zenon
<1>3. OnScript(a) /\ FirstAt(op, Len(a.todo)) /\ a.op = op
  BY <1>1, <1>2, BeginsOnScript
<1>4. PICK m : m = Len(a.todo)
  BY Zenon
<1>5. at[p] = Idle /\ at' = [at EXCEPT ![p] = a] /\ UNCHANGED <<view, writer, readers, mutating, borrows, refs>>
  BY <1>2, Zenon DEF Begin
<1>6. MovesTo(p, op, m)
  BY <1>3, <1>4, <1>5, PutMoves, Zenon
<1>7. at[p].op = "none" /\ Len(at[p].todo) = 0
  BY <1>5, IdleIs
<1>8. PICK b \in BOOLEAN : b = (view[p] # None)
  BY Zenon
<1>9. (op = "head" => ~b) /\ (op = "close" => b)
  <2>1. op = "head" => view[p] = None
    BY Zenon DEF Begin
  <2>2. op = "close" => view[p] = k
    BY Zenon DEF Begin
  <2>. QED
    BY <2>1, <2>2, <1>8, OpsAssumption, Zenon
<1>10. FirstAt(op, m)
  BY <1>3, <1>4
<1>11. Alike("none", 0, op, m, b)
  <2>1. Reads(op, m) <=> Reads("none", 0)
    BY <1>10 DEF FirstAt, Reads
  <2>2. Announced(op, m) <=> Announced("none", 0)
    BY <1>10 DEF FirstAt, Announced
  <2>3. (Leases(op, m) <=> Leases("none", 0)) /\ ~Excludes(op, m)
    BY <1>10 DEF FirstAt, Leases, Excludes
  <2>4. BorrowsAt("none", 0, b) = BorrowsAt(op, m, b)
    BY <1>9, <1>10 DEF FirstAt, BorrowsAt, One, Borrows, ViewBorrows
  <2>5. RefsAt("none", 0, b) = RefsAt(op, m, b)
    BY <1>9, <1>10 DEF FirstAt, RefsAt, One, References, ViewReferences
  <2>6. Handle(op, m, b)
    BY <1>9, <1>10 DEF FirstAt, Handle
  <2>. QED
    BY <2>1, <2>2, <2>3, <2>4, <2>5, <2>6, Zenon DEF Alike
<1>. QED
  BY <1>5, <1>6, <1>7, <1>8, <1>11, JumpKeeps

\* The steps of a goroutine, one by one.
LEMMA StepsKeep ==
  ASSUME LInv, NEW p \in Proc, Step(p)
  PROVE  LInv'
<1>. USE DEF AllSteps
<1>1. CASE LockLineage(p)
  BY <1>1, EffectKeeps, Zenon DEF LockLineage, Effect
<1>2. CASE UnlockLineage(p)
  BY <1>2, EffectKeeps DEF UnlockLineage, Effect
<1>3. CASE HoldLineageHead(p)
  BY <1>3, EffectKeeps, Zenon DEF HoldLineageHead, Effect
<1>4. CASE ReleaseLineageHead(p)
  BY <1>4, EffectKeeps, Zenon DEF ReleaseLineageHead, Effect
<1>5. CASE RLock(p)
  BY <1>5, EffectKeeps, Zenon DEF RLock, Effect
<1>6. CASE RUnlock(p)
  BY <1>6, EffectKeeps, Zenon DEF RUnlock, Effect
<1>7. CASE Announce(p)
  BY <1>7, EffectKeeps, Zenon DEF Announce, Effect
<1>8. CASE WLock(p)
  BY <1>8, EffectKeeps, Zenon DEF WLock, Effect
<1>9. CASE WUnlock(p)
  BY <1>9, EffectKeeps DEF WUnlock, Effect
<1>10. CASE Borrow(p)
  BY <1>10, EffectKeeps, Zenon DEF Borrow, Effect
<1>11. CASE EndBorrow(p)
  BY <1>11, EffectKeeps, Zenon DEF EndBorrow, Effect
<1>12. CASE Ref(p)
  BY <1>12, EffectKeeps, Zenon DEF Ref, Effect
<1>13. CASE Unref(p)
  BY <1>13, EffectKeeps, Zenon DEF Unref, Effect
<1>14. CASE Drained(p)
  BY <1>14, EffectKeeps, Zenon DEF Drained, Effect
<1>15. CASE Mutate(p)
  BY <1>15, EffectKeeps, Zenon DEF Mutate, Effect
<1>16. CASE EndMutation(p)
  BY <1>16, EffectKeeps DEF EndMutation, Effect
<1>. QED
  BY <1>1, <1>2, <1>3, <1>4, <1>5, <1>6, <1>7, <1>8, <1>9, <1>10, <1>11, <1>12, <1>13, <1>14, <1>15,
     <1>16, LeaseKeeps, TimeoutKeeps, SMTT(60) DEF Step

\* Nobody has begun.
LEMMA InitHolds ==
  ASSUME Init
  PROVE  LInv
<1>1. \A p \in Proc : at[p] = Idle /\ view[p] = None /\ borrows[p] = 0 /\ refs[p] = 0
  BY DEF Init
<1>2. TypeOK
  BY IdleIs DEF Init, TypeOK
<1>3. ASSUME NEW p \in Proc
      PROVE  Holds(p, "none", 0) /\ ~Excludes("none", 0)
  <2>1. ~Reads("none", 0) /\ ~Announced("none", 0) /\ ~Leases("none", 0) /\ ~Excludes("none", 0)
    BY DEF Reads, Announced, Leases, Excludes
  <2>2. Handle("none", 0, FALSE) /\ BorrowsAt("none", 0, FALSE) = 0 /\ RefsAt("none", 0, FALSE) = 0
    BY DEF Handle, BorrowsAt, RefsAt, One, Borrows, References
  <2>3. (view[p] # None) = FALSE
    BY <1>1
  <2>4. p \notin readers /\ writer # p /\ mutating # p
    BY OpsAssumption DEF Init
  <2>. QED
    BY <1>1, <2>1, <2>2, <2>3, <2>4, Zenon DEF Holds
<1>4. \A p \in Proc : Holds(p, at[p].op, Len(at[p].todo)) /\ (Excludes(at[p].op, Len(at[p].todo)) => readers = {})
  BY <1>1, <1>3, IdleIs
<1>. QED
  BY <1>1, <1>2, <1>4, IdleIs DEF LInv, Init

\* The inductive invariant.
THEOREM LocksInvariant == Spec => []LInv
<1>1. Init => LInv
  BY InitHolds
<1>2. LInv /\ [Next]_vars => LInv'
  <2>1. SUFFICES ASSUME LInv, [Next]_vars PROVE LInv'
    OBVIOUS
  <2>2. CASE Next
    BY <2>1, <2>2, StepsKeep, BeginKeeps, Zenon DEF Next
  <2>3. CASE UNCHANGED vars
    BY <2>1, <2>3, Zenon DEF vars, LInv, TypeOK, Holds, NoBorrower
  <2>. QED
    BY <2>1, <2>2, <2>3
<1>. QED
  BY <1>1, <1>2, PTL DEF Spec

\* While a mutation moves directories it has t.mu to itself, nobody borrows the
\* root, and only a flush that takes no lock may use the hot generation.
LEMMA AloneAtBody ==
  ASSUME LInv
  PROVE  MutationIsAlone
<1>1. SUFFICES ASSUME NEW p \in Proc, Next1(p, "body")
               PROVE  /\ writer = p /\ readers = {} /\ NoBorrower
                      /\ \A q \in Proc : refs[q] > 0 => at[q].op = "sync"
  BY DEF MutationIsAlone
<1>2. PICK op, n : op = at[p].op /\ n = Len(at[p].todo) /\ Holds(p, op, n) /\ (Excludes(op, n) => readers = {})
  BY Zenon DEF LInv
<1>3. op = "mutate" /\ n = 3
  BY <1>1, <1>2, NextIsAt DEF Table
<1>4. Announced(op, n) /\ Excludes(op, n) /\ Leases(op, n)
  BY <1>3, SMTT(60) DEF Announced, Excludes, Leases
<1>5. writer = p /\ readers = {} /\ mutating = p
  BY <1>2, <1>4 DEF Holds
<1>6. NoBorrower
  BY <1>5, OpsAssumption DEF LInv
<1>7. ASSUME NEW q \in Proc, refs[q] > 0
      PROVE  at[q].op = "sync"
  <2>1. PICK o, m : o = at[q].op /\ m = Len(at[q].todo) /\ Holds(q, o, m)
    BY DEF LInv
  <2>2. PICK b \in BOOLEAN : b = (view[q] # None)
    BY Zenon
  <2>3. BorrowsAt(o, m, b) = 0 /\ RefsAt(o, m, b) > 0
    BY <1>6, <1>7, <2>1, <2>2, Zenon DEF Holds, NoBorrower
  <2>4. ~(b /\ ViewBorrows(o, m)) /\ ~Borrows(o, m)
    BY <2>3 DEF BorrowsAt, One
  <2>5. References(o, m) \/ (b /\ ViewReferences(o, m))
    BY <2>3 DEF RefsAt, One
  <2>6. References(o, m)
    BY <2>4, <2>5 DEF ViewBorrows, ViewReferences
  <2>7. ~Announced(o, m)
    <3>1. CASE q = p
      BY <3>1, <1>2, <1>3, <2>1, <2>6, Zenon DEF References
    <3>2. CASE q # p
      BY <3>2, <1>5, <2>1 DEF Holds
    <3>. QED
      BY <3>1, <3>2
  <2>8. o = "sync"
    BY <2>4, <2>6, <2>7 DEF References, Announced, Borrows
  <2>. QED
    BY <2>1, <2>8
<1>. QED
  BY <1>5, <1>6, <1>7

\* Whoever calls what, a mutation of the topology moves directories alone.
THEOREM MutationIsAloneAlways == Spec => []MutationIsAlone
<1>1. LInv => MutationIsAlone
  BY AloneAtBody
<1>. QED
  BY <1>1, LocksInvariant, PTL
=============================================================================
