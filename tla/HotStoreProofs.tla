--------------------------- MODULE HotStoreProofs ---------------------------
(***************************************************************************)
(* NoUseAfterClose and PendingIsListed for any trunks, goroutines, handles *)
(* and bounds.                                                             *)
(*                                                                         *)
(* What is buffered and what is on disk plays no part in the first, so its *)
(* invariant HInv leaves the logs of a generation untyped: a generation is *)
(* a record with the three fields, whatever its logs hold.  PInv adds what *)
(* the second needs of the logs, and takes HInv from the first.            *)
(***************************************************************************)
EXTENDS HotStore, SequenceTheorems, TLAPS

IsGen(r) == r = [retired |-> r.retired, closed |-> r.closed, log |-> r.log]
\* gs is a sequence of generations.
IsGens(gs) ==
  /\ Len(gs) \in Nat
  /\ gs = [g \in 1..Len(gs) |-> gs[g]]
  /\ \A g \in 1..Len(gs) : IsGen(gs[g]) /\ gs[g].closed \in BOOLEAN
\* hs is gs, possibly longer, with other logs.
SameStates(gs, hs) ==
  /\ Len(gs) <= Len(hs)
  /\ \A g \in 1..Len(gs) : hs[g].closed = gs[g].closed /\ hs[g].retired = gs[g].retired
\* hs is gs but for generation g; none is open in one and closed in the other.
SameBut(gs, hs, g) == \A h \in 1..Len(gs) \ {g} : hs[h] = gs[h]
SameClosed(gs, hs) == \A h \in 1..Len(gs) : hs[h].closed = gs[h].closed

IsActor(a) == a = [step |-> a.step, k |-> a.k, g |-> a.g, at |-> a.at, id |-> a.id]

ActorShape ==
  /\ call = [c \in Calls |-> call[c]] /\ \A c \in Calls : IsActor(call[c])
  /\ view = [v \in Views |-> view[v]] /\ \A v \in Views : IsActor(view[v])
  /\ IsActor(flusher)

Shape == IsGens(gen) /\ hot \in 0..Len(gen) /\ ActorShape

\* Whoever holds a generation holds one that exists; the current one is open.
Held ==
  /\ \A c \in Calls : call[c].step \in {"borrowed", "appended"} => call[c].g \in 1..Len(gen)
  /\ \A v \in Views : view[v].step = "open" => view[v].g \in 1..Len(gen)
  /\ flusher.step \in {"head", "stray", "evicted", "deleted"} => flusher.g \in 1..Len(gen)
  /\ hot # 0 => ~gen[hot].closed /\ gen[hot].retired = "no"

HInv == Shape /\ Held /\ NoUseAfterClose

\* An actor that holds a generation after a step held it before, or takes hold of
\* one in G.
TakesHoldOf(G) ==
  /\ \A c \in Calls : call'[c].step \in {"borrowed", "appended"} =>
       (call[c].step \in {"borrowed", "appended"} /\ call'[c].g = call[c].g) \/ call'[c].g \in G
  /\ \A v \in Views : view'[v].step = "open" =>
       (view[v].step = "open" /\ view'[v].g = view[v].g) \/ view'[v].g \in G
  /\ flusher'.step \in {"head", "stray"} =>
       (flusher.step \in {"head", "stray"} /\ flusher'.g = flusher.g) \/ flusher'.g \in G
  /\ flusher'.step \in {"evicted", "deleted"} => flusher'.g \in 1..Len(gen)

-----------------------------------------------------------------------------
\* Replacing the logs of one generation leaves the others, and its own state.
LEMMA LogUpdate ==
  ASSUME NEW gs, IsGens(gs), NEW g \in 1..Len(gs), NEW log
  PROVE  LET hs == [gs EXCEPT ![g].log = log]
         IN  IsGens(hs) /\ Len(hs) = Len(gs) /\ SameStates(gs, hs)
<1> DEFINE hs == [gs EXCEPT ![g].log = log]
<1>1. Len(gs) \in Nat /\ gs = [h \in 1..Len(gs) |-> gs[h]]
  BY DEF IsGens
<1>2. hs = [h \in 1..Len(gs) |-> IF h = g THEN [gs[g] EXCEPT !.log = log] ELSE gs[h]]
  BY <1>1, Zenon
<1>3. DOMAIN hs = 1..Len(gs) /\ Len(hs) = Len(gs)
  BY <1>1, <1>2
<1>4. IsGen(gs[g])
  BY DEF IsGens
<1>5. [gs[g] EXCEPT !.log = log] = [retired |-> gs[g].retired, closed |-> gs[g].closed, log |-> log]
  BY <1>4 DEF IsGen
<1>6. \A h \in 1..Len(gs) : IsGen(hs[h]) /\ hs[h].closed = gs[h].closed /\ hs[h].retired = gs[h].retired
  BY <1>2, <1>5, <1>1 DEF IsGens, IsGen
<1>7. hs = [h \in 1..Len(hs) |-> hs[h]]
  BY <1>2, <1>3
<1> HIDE DEF hs
<1>8. IsGens(hs) /\ Len(hs) = Len(gs) /\ SameStates(gs, hs)
  BY <1>1, <1>3, <1>6, <1>7 DEF IsGens, SameStates
<1> QED BY <1>8 DEF hs

\* Closing one generation leaves the others.
LEMMA CloseUpdate ==
  ASSUME NEW gs, IsGens(gs), NEW g \in 1..Len(gs), NEW log
  PROVE  LET hs == [gs EXCEPT ![g] = [retired |-> "closed", closed |-> TRUE, log |-> log]]
         IN  IsGens(hs) /\ Len(hs) = Len(gs) /\ SameBut(gs, hs, g)
<1> DEFINE hs == [gs EXCEPT ![g] = [retired |-> "closed", closed |-> TRUE, log |-> log]]
<1>1. Len(gs) \in Nat /\ gs = [h \in 1..Len(gs) |-> gs[h]]
  BY DEF IsGens
<1>2. hs = [h \in 1..Len(gs) |-> IF h = g THEN [retired |-> "closed", closed |-> TRUE, log |-> log]
                                  ELSE gs[h]]
  BY <1>1, Zenon
<1>3. DOMAIN hs = 1..Len(gs) /\ Len(hs) = Len(gs)
  BY <1>1, <1>2
<1>4. \A h \in 1..Len(gs) : IsGen(hs[h]) /\ hs[h].closed \in BOOLEAN
  BY <1>2, <1>1, Zenon DEF IsGens, IsGen
<1>5. hs = [h \in 1..Len(hs) |-> hs[h]]
  BY <1>2, <1>3, Zenon
<1>6. \A h \in 1..Len(gs) \ {g} : hs[h] = gs[h]
  BY <1>2
<1> HIDE DEF hs
<1>7. IsGens(hs) /\ Len(hs) = Len(gs) /\ SameBut(gs, hs, g)
  BY <1>1, <1>3, <1>4, <1>5, <1>6 DEF IsGens, SameBut
<1> QED BY <1>7 DEF hs

\* A borrow finds the current generation or starts one; either is open.
LEMMA BorrowUpdate ==
  ASSUME HInv
  PROVE  /\ IsGens(Borrowed) /\ BorrowedGen \in 1..Len(Borrowed) /\ Len(gen) <= Len(Borrowed)
         /\ ~Borrowed[BorrowedGen].closed /\ Borrowed[BorrowedGen].retired = "no"
         /\ \A g \in 1..Len(Borrowed) : Borrowed[g].closed => g \in 1..Len(gen) /\ gen[g].closed
<1>1. IsGens(gen) /\ hot \in 0..Len(gen) /\ Len(gen) \in Nat
  BY DEF HInv, Shape, IsGens
<1>2. CASE hot # 0
  <2>1. Borrowed = gen /\ BorrowedGen = hot
    BY <1>2 DEF Borrowed, BorrowedGen
  <2> QED BY <1>1, <1>2, <2>1 DEF HInv, Held
<1>3. CASE hot = 0
  <2> DEFINE S == {gen[g] : g \in 1..Len(gen)} \cup {NewGen}
  <2>1. gen \in Seq(S)
    <3>1. gen = [g \in 1..Len(gen) |-> gen[g]]
      BY DEF HInv, Shape, IsGens
    <3>2. \A g \in 1..Len(gen) : gen[g] \in S
      OBVIOUS
    <3> HIDE DEF S
    <3>3. gen \in [1..Len(gen) -> S]
      BY <3>1, <3>2
    <3> QED BY <1>1, <3>3, SeqDef
  <2>2. NewGen \in S
    OBVIOUS
  <2> HIDE DEF S
  <2> DEFINE hs == Append(gen, NewGen)
  <2>3. /\ hs \in Seq(S) /\ Len(hs) = Len(gen) + 1 /\ hs[Len(gen) + 1] = NewGen
        /\ \A g \in 1..Len(gen) : hs[g] = gen[g]
    BY <2>1, <2>2, AppendProperties
  <2>4. hs = [g \in 1..Len(hs) |-> hs[g]]
    BY <2>3, LenProperties, Zenon
  <2>5. Borrowed = hs /\ BorrowedGen = Len(gen) + 1
    BY <1>3 DEF Borrowed, BorrowedGen
  <2> HIDE DEF hs
  <2>6. IsGen(NewGen) /\ NewGen.closed = FALSE /\ NewGen.retired = "no"
    BY DEF IsGen, NewGen
  <2>7. \A g \in 1..Len(hs) : g = Len(gen) + 1 \/ g \in 1..Len(gen)
    BY <1>1, <2>3
  <2>8. \A g \in 1..Len(hs) : IsGen(hs[g]) /\ hs[g].closed \in BOOLEAN
    BY <1>1, <2>3, <2>6, <2>7, Zenon DEF IsGens
  <2>9. Len(hs) \in Nat /\ Len(gen) + 1 \in 1..Len(hs) /\ Len(gen) <= Len(hs)
    BY <1>1, <2>3
  <2>10. IsGens(hs)
    BY <2>4, <2>8, <2>9 DEF IsGens
  <2>11. \A g \in 1..Len(hs) : hs[g].closed => g \in 1..Len(gen) /\ gen[g].closed
    BY <2>3, <2>6, <2>7
  <2> QED BY <2>3, <2>5, <2>6, <2>9, <2>10, <2>11
<1> QED BY <1>2, <1>3

\* What every step comes down to: nobody takes hold of a generation but the
\* current one, which is open, and one is closed when nobody holds it.
LEMMA Preserve ==
  ASSUME HInv, Shape', Len(gen) <= Len(gen'),
         hot' # 0 => ~gen'[hot'].closed /\ gen'[hot'].retired = "no",
         \A c \in Calls : call'[c].step \in {"borrowed", "appended"} =>
           \/ call[c].step \in {"borrowed", "appended"} /\ call'[c].g = call[c].g
           \/ hot' # 0 /\ call'[c].g = hot',
         \A v \in Views : view'[v].step = "open" =>
           \/ view[v].step = "open" /\ view'[v].g = view[v].g
           \/ hot' # 0 /\ view'[v].g = hot',
         flusher'.step \in {"head", "stray"} =>
           \/ flusher.step \in {"head", "stray"} /\ flusher'.g = flusher.g
           \/ hot' # 0 /\ flusher'.g = hot',
         flusher'.step \in {"evicted", "deleted"} => flusher'.g \in 1..Len(gen),
         \A g \in 1..Len(gen') :
           gen'[g].closed => (g \in 1..Len(gen) /\ gen[g].closed) \/ Holders(g)' = {}
  PROVE  HInv'
<1>1. Len(gen) \in Nat /\ Len(gen') \in Nat /\ hot' \in 0..Len(gen')
  BY DEF HInv, Shape, IsGens
<1>2. 1..Len(gen) \subseteq 1..Len(gen') /\ (hot' # 0 => hot' \in 1..Len(gen'))
  BY <1>1
<1>3. Held'
  <2>1. ASSUME NEW c \in Calls, call'[c].step \in {"borrowed", "appended"}
        PROVE  call'[c].g \in 1..Len(gen')
    BY <1>2, <2>1 DEF HInv, Held
  <2>2. ASSUME NEW v \in Views, view'[v].step = "open"
        PROVE  view'[v].g \in 1..Len(gen')
    BY <1>2, <2>2 DEF HInv, Held
  <2>3. ASSUME flusher'.step \in {"head", "stray", "evicted", "deleted"}
        PROVE  flusher'.g \in 1..Len(gen')
    BY <1>2, <2>3 DEF HInv, Held
  <2> QED BY <2>1, <2>2, <2>3 DEF Held
<1>4. NoUseAfterClose'
  <2> SUFFICES ASSUME NEW g \in 1..Len(gen'), gen'[g].closed, Holders(g)' # {}
               PROVE  FALSE
    BY DEF NoUseAfterClose, Gens
  <2>1. g \in 1..Len(gen) /\ gen[g].closed /\ hot' # g
    OBVIOUS
  <2>2. Holders(g) = {}
    BY <2>1 DEF HInv, NoUseAfterClose, Gens
  <2>3. \A c \in Calls : ~(call'[c].step \in {"borrowed", "appended"} /\ call'[c].g = g)
    BY <2>1, <2>2 DEF Holders
  <2>4. \A v \in Views : ~(view'[v].step = "open" /\ view'[v].g = g)
    BY <2>1, <2>2 DEF Holders
  <2>5. ~(flusher'.step \in {"head", "stray"} /\ flusher'.g = g)
    BY <2>1, <2>2, SMTT(60) DEF Holders
  <2> QED BY <2>3, <2>4, <2>5 DEF Holders
<1> QED BY <1>3, <1>4 DEF HInv

\* A step that lets nobody take hold and at most replaces logs.
LEMMA LogsOnly ==
  ASSUME HInv, UNCHANGED <<hot, call, view, flusher>>, IsGens(gen'),
         Len(gen') = Len(gen), SameStates(gen, gen')
  PROVE  HInv'
<1>1. Shape'
  BY DEF HInv, Shape, ActorShape
<1>2. \A g \in 1..Len(gen') : gen'[g].closed => g \in 1..Len(gen) /\ gen[g].closed
  BY DEF SameStates
<1>3. hot' # 0 => ~gen'[hot'].closed /\ gen'[hot'].retired = "no"
  <2>1. hot \in 0..Len(gen) /\ Len(gen) \in Nat
    BY DEF HInv, Shape, IsGens
  <2>2. hot # 0 => hot \in 1..Len(gen)
    BY <2>1
  <2> QED BY <2>2 DEF HInv, Held, SameStates
<1>4. Len(gen) <= Len(gen') /\ (flusher.step \in {"evicted", "deleted"} => flusher.g \in 1..Len(gen))
  BY DEF SameStates, HInv, Held
<1> QED BY <1>1, <1>2, <1>3, <1>4, Preserve

\* SyncLogs replaces logs.
LEMMA SyncUpdate ==
  ASSUME IsGens(gen), NEW g \in 1..Len(gen), NEW n, SyncLogs(g, n)
  PROVE  IsGens(gen') /\ Len(gen') = Len(gen) /\ SameStates(gen, gen')
<1> DEFINE log == [k \in Trunk |-> Written(gen[g].log[k], n[k])]
<1>1. gen' = [gen EXCEPT ![g].log = log]
  BY DEF SyncLogs
<1> HIDE DEF log
<1> QED BY <1>1, LogUpdate, ZenonT(60)

LEMMA Same ==
  ASSUME IsGens(gen), gen' = gen
  PROVE  IsGens(gen') /\ Len(gen') = Len(gen) /\ SameStates(gen, gen')
<1>1. Len(gen) <= Len(gen)
  BY DEF IsGens
<1> QED BY <1>1 DEF SameStates

-----------------------------------------------------------------------------
(* Steps that leave the borrows as they are.                                *)

LEMMA ViewAppendHInv == ASSUME HInv, NEW v \in Views, ViewAppend(v) PROVE HInv'
<1> DEFINE g == view[v].g
           k == view[v].k
           log == [gen[g].log EXCEPT ![k].pend = Append(@, born + 1)]
<1>1. IsGens(gen) /\ g \in 1..Len(gen)
  BY ZenonT(60) DEF HInv, Shape, Held, ViewAppend
<1>2. gen' = [gen EXCEPT ![g].log = log]
  BY Zenon DEF ViewAppend
<1> HIDE DEF log, g
<1>3. IsGens(gen') /\ Len(gen') = Len(gen) /\ SameStates(gen, gen')
  BY <1>1, <1>2, LogUpdate, Zenon
<1> QED BY <1>3, LogsOnly, Zenon DEF ViewAppend

LEMMA ViewSyncHInv == ASSUME HInv, NEW v \in Views, ViewSync(v) PROVE HInv'
<1>1. IsGens(gen) /\ view[v].g \in 1..Len(gen)
  BY DEF HInv, Shape, Held, ViewSync
<1>2. PICK n : SyncLogs(view[v].g, n)
  BY DEF ViewSync
<1>3. IsGens(gen') /\ Len(gen') = Len(gen) /\ SameStates(gen, gen')
  BY <1>1, <1>2, SyncUpdate
<1> QED BY <1>3, LogsOnly DEF ViewSync

\* BeginGate and BeginClose sync the current generation, if there is one.
LEMMA SyncHotHInv ==
  ASSUME HInv, UNCHANGED <<hot, call, view, flusher>>,
         IF hot = 0 THEN UNCHANGED <<disk, gen>> ELSE \E n \in Cuts(hot, Trunk) : SyncLogs(hot, n)
  PROVE  HInv'
<1>1. IsGens(gen) /\ hot \in 0..Len(gen) /\ Len(gen) \in Nat
  BY DEF HInv, Shape, IsGens
<1>2. IsGens(gen') /\ Len(gen') = Len(gen) /\ SameStates(gen, gen')
  <2>1. CASE hot = 0
    BY <1>1, <2>1, Same
  <2>2. CASE hot # 0
    <3>1. PICK n : SyncLogs(hot, n)
      BY <2>2
    <3>2. hot \in 1..Len(gen)
      BY <1>1, <2>2
    <3> QED BY <1>1, <3>1, <3>2, SyncUpdate
  <2> QED BY <2>1, <2>2
<1> QED BY <1>2, LogsOnly

LEMMA IdleStepsHInv ==
  ASSUME HInv, UNCHANGED <<gen, hot, call, view, flusher>> PROVE HInv'
<1>1. IsGens(gen)
  BY DEF HInv, Shape
<1> QED BY <1>1, Same, LogsOnly

-----------------------------------------------------------------------------
(* Steps that borrow.                                                       *)

\* The head opened in the generation borrowed.
LEMMA OpenUpdate ==
  ASSUME HInv, NEW k, gen' = Opening(Borrowed, BorrowedGen, k), hot' = BorrowedGen
  PROVE  /\ IsGens(gen') /\ hot' \in 1..Len(gen') /\ Len(gen) <= Len(gen')
         /\ ~gen'[hot'].closed /\ gen'[hot'].retired = "no"
         /\ \A g \in 1..Len(gen') : gen'[g].closed => g \in 1..Len(gen) /\ gen[g].closed
<1>1. PICK gs, b : gs = Borrowed /\ b = BorrowedGen
  OBVIOUS
<1>2. /\ IsGens(gs) /\ b \in 1..Len(gs) /\ Len(gen) <= Len(gs)
      /\ ~gs[b].closed /\ gs[b].retired = "no"
      /\ \A g \in 1..Len(gs) : gs[g].closed => g \in 1..Len(gen) /\ gen[g].closed
  BY <1>1, BorrowUpdate
<1>3. PICK log : log = [gs[b].log EXCEPT ![k] = OpenLog(@, k)]
  BY Zenon
<1>4. gen' = [gs EXCEPT ![b].log = log]
  BY <1>1, <1>3 DEF Opening
<1>5. IsGens(gs) /\ b \in 1..Len(gs)
  BY <1>2
<1>6. PICK hs : hs = [gs EXCEPT ![b].log = log]
  BY Zenon
<1>7. IsGens(hs) /\ Len(hs) = Len(gs) /\ SameStates(gs, hs)
  BY <1>5, <1>6, LogUpdate, Zenon
<1>8. gen' = hs /\ hot' = b
  BY <1>1, <1>4, <1>6
<1> QED BY <1>2, <1>7, <1>8 DEF SameStates

LEMMA AtIsActor ==
  \A s, k, g : IsActor(At(s, k, g)) /\ At(s, k, g).step = s /\ At(s, k, g).g = g
BY DEF IsActor, At

LEMMA CallUpdate ==
  ASSUME ActorShape, NEW c \in Calls, NEW a, IsActor(a), call' = [call EXCEPT ![c] = a]
  PROVE  /\ call' = [d \in Calls |-> call'[d]] /\ \A d \in Calls : IsActor(call'[d])
         /\ \A d \in Calls : call'[d] = IF d = c THEN a ELSE call[d]
<1>1. call = [d \in Calls |-> call[d]]
  BY DEF ActorShape
<1>2. call' = [d \in Calls |-> IF d = c THEN a ELSE call[d]]
  BY <1>1
<1>3. \A d \in Calls : call'[d] = IF d = c THEN a ELSE call[d]
  BY <1>2
<1>4. \A d \in Calls : IsActor(call'[d])
  BY <1>3 DEF ActorShape
<1> QED BY <1>2, <1>3, <1>4, Zenon

LEMMA ViewUpdate ==
  ASSUME ActorShape, NEW v \in Views, NEW a, IsActor(a), view' = [view EXCEPT ![v] = a]
  PROVE  /\ view' = [w \in Views |-> view'[w]] /\ \A w \in Views : IsActor(view'[w])
         /\ \A w \in Views : view'[w] = IF w = v THEN a ELSE view[w]
<1>1. view = [w \in Views |-> view[w]]
  BY DEF ActorShape
<1>2. view' = [w \in Views |-> IF w = v THEN a ELSE view[w]]
  BY <1>1
<1>3. \A w \in Views : view'[w] = IF w = v THEN a ELSE view[w]
  BY <1>2
<1>4. \A w \in Views : IsActor(view'[w])
  BY <1>3 DEF ActorShape
<1> QED BY <1>2, <1>3, <1>4, Zenon

\* The actor's step that a borrow of the current generation comes with.
LEMMA Borrows ==
  ASSUME HInv, ActorShape', IsGens(gen'), hot' \in 1..Len(gen'), Len(gen) <= Len(gen'),
         ~gen'[hot'].closed, gen'[hot'].retired = "no",
         \A g \in 1..Len(gen') : gen'[g].closed => g \in 1..Len(gen) /\ gen[g].closed,
         TakesHoldOf({hot'})
  PROVE  HInv'
<1>1. hot' \in 0..Len(gen') /\ hot' # 0
  BY DEF IsGens
<1>2. Shape'
  BY <1>1 DEF Shape
<1> QED BY <1>1, <1>2, Preserve DEF TakesHoldOf

LEMMA BeginAppendHInv ==
  ASSUME HInv, NEW c \in Calls, NEW k \in Trunk, BeginAppend(c, k) PROVE HInv'
<1> DEFINE a == At("borrowed", k, BorrowedGen)
<1>1. /\ gen' = Borrowed /\ hot' = BorrowedGen /\ view' = view /\ flusher' = flusher
      /\ call' = [call EXCEPT ![c] = a]
  BY DEF BeginAppend
<1>2. /\ IsGens(gen') /\ hot' \in 1..Len(gen') /\ Len(gen) <= Len(gen')
      /\ ~gen'[hot'].closed /\ gen'[hot'].retired = "no"
      /\ \A g \in 1..Len(gen') : gen'[g].closed => g \in 1..Len(gen) /\ gen[g].closed
  BY <1>1, BorrowUpdate
<1>3. IsActor(a) /\ a.step = "borrowed" /\ a.g = hot'
  BY <1>1, AtIsActor
<1>4. ActorShape /\ Held
  BY DEF HInv, Shape
<1> HIDE DEF a
<1>5. /\ call' = [d \in Calls |-> call'[d]] /\ \A d \in Calls : IsActor(call'[d])
      /\ \A d \in Calls : call'[d] = IF d = c THEN a ELSE call[d]
  BY <1>1, <1>3, <1>4, CallUpdate, Zenon
<1>6. ActorShape'
  BY <1>1, <1>4, <1>5 DEF ActorShape
<1>7. TakesHoldOf({hot'})
  BY <1>1, <1>3, <1>4, <1>5 DEF TakesHoldOf, Held
<1> QED BY <1>2, <1>6, <1>7, Borrows

LEMMA OpenViewHInv ==
  ASSUME HInv, NEW v \in Views, NEW k \in Trunk, OpenView(v, k) PROVE HInv'
<1> DEFINE a == At("open", k, BorrowedGen)
<1>1. /\ gen' = Opening(Borrowed, BorrowedGen, k) /\ hot' = BorrowedGen
      /\ call' = call /\ flusher' = flusher /\ view' = [view EXCEPT ![v] = a]
  BY DEF OpenView
<1>2. /\ IsGens(gen') /\ hot' \in 1..Len(gen') /\ Len(gen) <= Len(gen')
      /\ ~gen'[hot'].closed /\ gen'[hot'].retired = "no"
      /\ \A g \in 1..Len(gen') : gen'[g].closed => g \in 1..Len(gen) /\ gen[g].closed
  BY <1>1, OpenUpdate
<1>3. IsActor(a) /\ a.step = "open" /\ a.g = hot'
  BY <1>1, AtIsActor
<1>4. ActorShape /\ Held
  BY DEF HInv, Shape
<1> HIDE DEF a
<1>5. /\ view' = [w \in Views |-> view'[w]] /\ \A w \in Views : IsActor(view'[w])
      /\ \A w \in Views : view'[w] = IF w = v THEN a ELSE view[w]
  BY <1>1, <1>3, <1>4, ViewUpdate, Zenon
<1>6. ActorShape'
  BY <1>1, <1>4, <1>5 DEF ActorShape
<1>7. TakesHoldOf({hot'})
  BY <1>1, <1>3, <1>4, <1>5 DEF TakesHoldOf, Held
<1> QED BY <1>2, <1>6, <1>7, Borrows

LEMMA FlushHeadHInv ==
  ASSUME HInv, NEW k \in Trunk, FlushHead(k) PROVE HInv'
<1>1. /\ gen' = Opening(Borrowed, BorrowedGen, k) /\ hot' = BorrowedGen
      /\ call' = call /\ view' = view /\ flusher' = At("head", k, BorrowedGen)
  BY DEF FlushHead
<1>2. /\ IsGens(gen') /\ hot' \in 1..Len(gen') /\ Len(gen) <= Len(gen')
      /\ ~gen'[hot'].closed /\ gen'[hot'].retired = "no"
      /\ \A g \in 1..Len(gen') : gen'[g].closed => g \in 1..Len(gen) /\ gen[g].closed
  BY <1>1, OpenUpdate
<1>3. IsActor(flusher') /\ flusher'.step = "head" /\ flusher'.g = hot'
  BY <1>1, AtIsActor
<1>4. ActorShape
  BY DEF HInv, Shape
<1>5. ActorShape'
  BY <1>1, <1>3, <1>4 DEF ActorShape
<1>6. TakesHoldOf({hot'})
  BY <1>1, <1>3 DEF TakesHoldOf
<1> QED BY <1>2, <1>5, <1>6, Borrows

LEMMA CreateHInv == ASSUME HInv, Create PROVE HInv'
<1>1. /\ gen' = Opening(Borrowed, BorrowedGen, gate.k) /\ hot' = BorrowedGen
      /\ call' = call /\ view' = view /\ flusher' = flusher
  BY DEF Create
<1>2. /\ IsGens(gen') /\ hot' \in 1..Len(gen') /\ Len(gen) <= Len(gen')
      /\ ~gen'[hot'].closed /\ gen'[hot'].retired = "no"
      /\ \A g \in 1..Len(gen') : gen'[g].closed => g \in 1..Len(gen) /\ gen[g].closed
  BY <1>1, OpenUpdate
<1>3. ActorShape /\ Held
  BY DEF HInv, Shape
<1>4. ActorShape'
  BY <1>1, <1>3 DEF ActorShape
<1>5. TakesHoldOf({hot'})
  BY <1>1, <1>3 DEF TakesHoldOf, Held
<1> QED BY <1>2, <1>4, <1>5, Borrows

LEMMA FlushStrayHInv == ASSUME HInv, FlushStray PROVE HInv'
<1>1. /\ gen' = gen /\ hot' = hot /\ hot # 0
      /\ call' = call /\ view' = view /\ flusher' = At("stray", 0, hot)
  BY DEF FlushStray
<1>2. IsGens(gen) /\ hot \in 0..Len(gen) /\ Len(gen) \in Nat
  BY DEF HInv, Shape, IsGens
<1>3. hot \in 1..Len(gen) /\ Len(gen) <= Len(gen)
  BY <1>1, <1>2
<1>4. ~gen[hot].closed /\ gen[hot].retired = "no"
  BY <1>1 DEF HInv, Held
<1>5. IsActor(flusher') /\ flusher'.step = "stray" /\ flusher'.g = hot'
  BY <1>1, AtIsActor
<1>6. ActorShape
  BY DEF HInv, Shape
<1>7. ActorShape'
  BY <1>1, <1>5, <1>6 DEF ActorShape
<1>8. TakesHoldOf({hot'})
  BY <1>1, <1>5 DEF TakesHoldOf
<1> QED BY <1>1, <1>2, <1>3, <1>4, <1>7, <1>8, Borrows

-----------------------------------------------------------------------------
(* Steps in which actors move on, or let go, and none takes hold.            *)

LEMMA LogStep ==
  ASSUME HInv, ActorShape', TakesHoldOf({}), hot' = hot,
         IsGens(gen'), Len(gen') = Len(gen), SameStates(gen, gen')
  PROVE  HInv'
<1>1. hot \in 0..Len(gen) /\ Len(gen) \in Nat
  BY DEF HInv, Shape, IsGens
<1>2. Shape'
  BY <1>1 DEF Shape
<1>3. hot # 0 => hot \in 1..Len(gen)
  BY <1>1
<1>4. hot' # 0 => ~gen'[hot'].closed /\ gen'[hot'].retired = "no"
  BY <1>3 DEF HInv, Held, SameStates
<1>5. \A g \in 1..Len(gen') : gen'[g].closed => g \in 1..Len(gen) /\ gen[g].closed
  BY DEF SameStates
<1>6. Len(gen) <= Len(gen')
  BY DEF SameStates
<1> QED BY <1>2, <1>4, <1>5, <1>6, Preserve DEF TakesHoldOf

LEMMA AppendRecordHInv == ASSUME HInv, NEW c \in Calls, AppendRecord(c) PROVE HInv'
<1>1. PICK g, k, l, a :
        /\ g = call[c].g /\ k = call[c].k
        /\ l = OpenLog(gen[g].log[k], k)
        /\ a = [step |-> "appended", k |-> k, g |-> g, id |-> born + 1,
                at |-> l.tail + Len(l.pend) + 1]
  BY Zenon
<1>2. PICK log : log = [gen[g].log EXCEPT ![k] = [l EXCEPT !.pend = Append(@, born + 1)]]
  BY Zenon
<1>3. /\ call[c].step = "borrowed" /\ call' = [call EXCEPT ![c] = a]
      /\ hot' = hot /\ view' = view /\ flusher' = flusher
  BY <1>1, ZenonT(60) DEF AppendRecord
<1>4. gen' = [gen EXCEPT ![g].log = log]
  BY <1>1, <1>2, ZenonT(60) DEF AppendRecord
<1>5. ActorShape /\ Held /\ IsGens(gen) /\ g \in 1..Len(gen)
  BY <1>1, <1>3, Zenon DEF HInv, Shape, Held
<1>6. PICK hs : hs = [gen EXCEPT ![g].log = log]
  BY Zenon
<1>7. IsGens(hs) /\ Len(hs) = Len(gen) /\ SameStates(gen, hs)
  BY <1>5, <1>6, LogUpdate, ZenonT(60)
<1>8. gen' = hs
  BY <1>4, <1>6
<1>9. IsActor(a) /\ a.g = call[c].g /\ a.step = "appended"
  BY <1>1 DEF IsActor
<1>10. /\ call' = [d \in Calls |-> call'[d]] /\ \A d \in Calls : IsActor(call'[d])
       /\ \A d \in Calls : call'[d] = IF d = c THEN a ELSE call[d]
  BY <1>3, <1>5, <1>9, CallUpdate, Zenon
<1>11. ActorShape'
  BY <1>3, <1>5, <1>10 DEF ActorShape
<1>12. TakesHoldOf({})
  BY <1>3, <1>5, <1>9, <1>10 DEF TakesHoldOf, Held
<1> QED BY <1>3, <1>7, <1>8, <1>11, <1>12, LogStep

LEMMA ReturnHInv == ASSUME HInv, NEW c \in Calls, Return(c) PROVE HInv'
<1>1. /\ call' = [call EXCEPT ![c] = Idle]
      /\ gen' = gen /\ hot' = hot /\ view' = view /\ flusher' = flusher
  BY DEF Return
<1>2. ActorShape /\ Held /\ IsGens(gen)
  BY DEF HInv, Shape
<1>3. IsActor(Idle) /\ Idle.step = "idle"
  BY AtIsActor DEF Idle
<1>4. /\ call' = [d \in Calls |-> call'[d]] /\ \A d \in Calls : IsActor(call'[d])
      /\ \A d \in Calls : call'[d] = IF d = c THEN Idle ELSE call[d]
  BY <1>1, <1>2, <1>3, CallUpdate, Zenon
<1>5. ActorShape'
  BY <1>1, <1>2, <1>4 DEF ActorShape
<1>6. TakesHoldOf({})
  BY <1>1, <1>2, <1>3, <1>4 DEF TakesHoldOf, Held
<1>7. IsGens(gen') /\ Len(gen') = Len(gen) /\ SameStates(gen, gen')
  BY <1>1, <1>2, Same
<1> QED BY <1>1, <1>5, <1>6, <1>7, LogStep

\* A step of the flusher that borrows nothing.
LEMMA FlusherStep ==
  ASSUME HInv, IsActor(flusher'), flusher'.step \notin {"head", "stray"},
         flusher'.step \in {"evicted", "deleted"} => flusher'.g \in 1..Len(gen),
         UNCHANGED <<hot, call, view>>,
         IsGens(gen'), Len(gen') = Len(gen), SameStates(gen, gen')
  PROVE  HInv'
<1>1. ActorShape
  BY DEF HInv, Shape
<1>2. ActorShape'
  BY <1>1 DEF ActorShape
<1>3. TakesHoldOf({})
  BY DEF TakesHoldOf
<1> QED BY <1>2, <1>3, LogStep

LEMMA EvictHInv == ASSUME HInv, NEW k \in Trunk, Evict(k) PROVE HInv'
<1>1. /\ hot # 0 /\ flusher' = At("evicted", k, hot) /\ hot' = hot /\ call' = call /\ view' = view
      /\ \E n : SyncLogs(hot, n)
  BY DEF Evict
<1>2. IsGens(gen) /\ hot \in 0..Len(gen) /\ Len(gen) \in Nat
  BY DEF HInv, Shape, IsGens
<1>3. hot \in 1..Len(gen)
  BY <1>1, <1>2
<1>4. PICK n : SyncLogs(hot, n)
  BY <1>1
<1>5. IsGens(gen') /\ Len(gen') = Len(gen) /\ SameStates(gen, gen')
  BY <1>2, <1>3, <1>4, SyncUpdate
<1>6. IsActor(flusher') /\ flusher'.step = "evicted" /\ flusher'.g = hot
  BY <1>1, AtIsActor
<1> QED BY <1>1, <1>3, <1>5, <1>6, FlusherStep

LEMMA EvictHeadHInv == ASSUME HInv, EvictHead PROVE HInv'
<1>1. hot' = hot /\ call' = call /\ view' = view /\ flusher.step = "evicted"
  BY DEF EvictHead
<1>2. IsGens(gen) /\ IsActor(flusher) /\ flusher.g \in 1..Len(gen)
  BY <1>1 DEF HInv, Shape, ActorShape, Held
<1>3. CASE flusher' = Idle /\ gen' = gen
  <2>1. IsActor(flusher') /\ flusher'.step = "idle"
    BY <1>3, AtIsActor DEF Idle
  <2>2. IsGens(gen') /\ Len(gen') = Len(gen) /\ SameStates(gen, gen')
    BY <1>2, <1>3, Same
  <2> QED BY <1>1, <2>1, <2>2, FlusherStep
<1>4. CASE /\ hot = flusher.g /\ gen' = [gen EXCEPT ![hot].log[flusher.k].head = FALSE]
           /\ flusher' = [flusher EXCEPT !.step = "deleted"]
  <2>1. PICK f : f = [step |-> "deleted", k |-> flusher.k, g |-> flusher.g, at |-> flusher.at, id |-> flusher.id]
    BY Zenon
  <2>2. flusher' = f /\ IsActor(f) /\ f.step = "deleted" /\ f.g = flusher.g
    BY <1>2, <1>4, <2>1 DEF IsActor
  <2>3. PICK log : log = [gen[hot].log EXCEPT ![flusher.k].head = FALSE]
    BY Zenon
  <2>4. PICK hs : hs = [gen EXCEPT ![hot].log = log]
    BY Zenon
  <2>5. gen' = hs
    BY <1>4, <2>3, <2>4
  <2>6. hot \in 1..Len(gen)
    BY <1>2, <1>4
  <2>7. IsGens(hs) /\ Len(hs) = Len(gen) /\ SameStates(gen, hs)
    BY <1>2, <2>4, <2>6, LogUpdate, Zenon
  <2> QED BY <1>1, <1>2, <2>2, <2>5, <2>7, FlusherStep
<1> QED BY <1>3, <1>4 DEF EvictHead

LEMMA EvictLogHInv == ASSUME HInv, EvictLog PROVE HInv'
<1>1. /\ hot' = hot /\ call' = call /\ view' = view /\ flusher.step = "deleted"
      /\ flusher' = Idle
  BY DEF EvictLog
<1>2. IsGens(gen) /\ flusher.g \in 1..Len(gen)
  BY <1>1 DEF HInv, Shape, Held
<1>3. IsActor(flusher') /\ flusher'.step = "idle"
  BY <1>1, AtIsActor DEF Idle
<1>4. IsGens(gen') /\ Len(gen') = Len(gen) /\ SameStates(gen, gen')
  <2>1. PICK g, k, l, log :
          /\ g = flusher.g /\ k = flusher.k /\ l = gen[g].log[k]
          /\ log = [gen[g].log EXCEPT ![k] = [Written(l, Len(l.pend)) EXCEPT !.listed = FALSE]]
    BY Zenon
  <2>2. PICK hs : hs = [gen EXCEPT ![g].log = log]
    BY ZenonT(60)
  <2>3. gen' = gen \/ gen' = hs
    BY <2>1, <2>2, Zenon DEF EvictLog
  <2>4. g \in 1..Len(gen)
    BY <1>2, <2>1
  <2>5. IsGens(hs) /\ Len(hs) = Len(gen) /\ SameStates(gen, hs)
    BY <1>2, <2>2, <2>4, LogUpdate, Zenon
  <2> QED BY <1>2, <2>3, <2>5, Same
<1> QED BY <1>1, <1>3, <1>4, FlusherStep

LEMMA QuietHInv == ASSUME HInv, Quiet PROVE HInv'
<1>1. gen' = gen /\ hot' = hot /\ call' = call /\ view' = view /\ flusher' = At("quiet", 0, 0)
  BY DEF Quiet
<1>2. IsActor(flusher') /\ flusher'.step = "quiet"
  BY <1>1, AtIsActor
<1>3. IsGens(gen)
  BY DEF HInv, Shape
<1>4. IsGens(gen') /\ Len(gen') = Len(gen) /\ SameStates(gen, gen')
  BY <1>1, <1>3, Same
<1> QED BY <1>1, <1>2, <1>4, FlusherStep

-----------------------------------------------------------------------------
(* Steps that close or retire a generation.                                 *)

\* When nobody takes hold, the holders of a generation only become fewer.
LEMMA HoldersShrink ==
  ASSUME TakesHoldOf({}), NEW g PROVE Holders(g)' \subseteq Holders(g)
BY DEF TakesHoldOf, Holders

\* A generation that is closed has no holder left and is not the current one.
LEMMA CloseStep ==
  ASSUME HInv, ActorShape', TakesHoldOf({}), NEW g \in 1..Len(gen), NEW done, CloseGen(g, done),
         hot' = 0 \/ hot' = hot, hot' # g, Holders(g)' = {}
  PROVE  HInv'
<1>1. IsGens(gen) /\ hot \in 0..Len(gen) /\ Len(gen) \in Nat
  BY DEF HInv, Shape, IsGens
<1>2. PICK log : log = [k \in Trunk |-> NoLog]
  BY Zenon
<1>3. PICK hs : hs = [gen EXCEPT ![g] = [retired |-> "closed", closed |-> TRUE, log |-> log]]
  BY Zenon
<1>4. gen' = hs
  BY <1>2, <1>3 DEF CloseGen
<1>5. IsGens(hs) /\ Len(hs) = Len(gen) /\ SameBut(gen, hs, g)
  BY <1>1, <1>3, CloseUpdate, Zenon
<1>6. IsGens(gen') /\ Len(gen') = Len(gen) /\ \A h \in 1..Len(gen) \ {g} : gen'[h] = gen[h]
  BY <1>4, <1>5 DEF SameBut
<1>7. hot' \in 0..Len(gen') /\ (hot' # 0 => hot' = hot /\ hot' \in 1..Len(gen) \ {g})
  BY <1>1, <1>6
<1>8. Shape'
  BY <1>6, <1>7 DEF Shape
<1>9. hot' # 0 => ~gen'[hot'].closed /\ gen'[hot'].retired = "no"
  BY <1>6, <1>7 DEF HInv, Held
<1>10. \A h \in 1..Len(gen') :
         gen'[h].closed => (h \in 1..Len(gen) /\ gen[h].closed) \/ Holders(h)' = {}
  BY <1>6
<1>11. Len(gen) <= Len(gen')
  BY <1>1, <1>6
<1> QED BY <1>8, <1>9, <1>10, <1>11, Preserve DEF TakesHoldOf

\* releaseHot by an actor that holds the generation no longer.
LEMMA ReleaseStep ==
  ASSUME HInv, ActorShape', TakesHoldOf({}), NEW g \in 1..Len(gen), NEW who, ReleaseHot(who, g),
         hot' = hot, who \notin Holders(g)'
  PROVE  HInv'
<1>1. CASE Retired(g) /\ Holders(g) = {who}
  <2>1. PICK done : CloseGen(g, done)
    BY <1>1 DEF ReleaseHot
  <2>2. Holders(g)' = {}
    BY <1>1, HoldersShrink
  <2>3. hot \in 0..Len(gen) /\ (hot # 0 => gen[hot].retired = "no")
    BY DEF HInv, Shape, Held
  <2>4. hot # g
    <3>1. g # 0
      BY DEF HInv, Shape, IsGens
    <3> QED BY <1>1, <2>3, <3>1 DEF Retired
  <2> QED BY <2>1, <2>2, <2>4, CloseStep
<1>2. CASE ~(Retired(g) /\ Holders(g) = {who})
  <2>1. gen' = gen
    BY <1>2, Zenon DEF ReleaseHot
  <2>2. IsGens(gen)
    BY DEF HInv, Shape
  <2>3. IsGens(gen') /\ Len(gen') = Len(gen) /\ SameStates(gen, gen')
    BY <2>1, <2>2, Same
  <2> QED BY <2>3, LogStep
<1> QED BY <1>1, <1>2

LEMMA ReleaseHInv == ASSUME HInv, NEW c \in Calls, Release(c) PROVE HInv'
<1>1. PICK a : a = [step |-> "released", k |-> call[c].k, g |-> call[c].g,
                    at |-> call[c].at, id |-> call[c].id]
  BY Zenon
<1>2. IsActor(a) /\ a.step = "released"
  BY <1>1 DEF IsActor
<1>3. ActorShape /\ Held /\ IsActor(call[c])
  BY DEF HInv, Shape, ActorShape
<1>4. /\ call[c].step = "appended" /\ ReleaseHot(c, call[c].g)
      /\ hot' = hot /\ view' = view /\ flusher' = flusher
      /\ call' = [call EXCEPT ![c].step = "released"]
  BY DEF Release
<1>5. [call[c] EXCEPT !.step = "released"] = a
  BY <1>1, <1>3 DEF IsActor
<1>6. call' = [call EXCEPT ![c] = a]
  BY <1>4, <1>5, Zenon
<1>7. /\ call' = [d \in Calls |-> call'[d]] /\ \A d \in Calls : IsActor(call'[d])
      /\ \A d \in Calls : call'[d] = IF d = c THEN a ELSE call[d]
  BY <1>2, <1>3, <1>6, CallUpdate, Zenon
<1>8. ActorShape'
  BY <1>3, <1>4, <1>7 DEF ActorShape
<1>9. TakesHoldOf({})
  BY <1>2, <1>3, <1>4, <1>7 DEF TakesHoldOf, Held
<1>10. call[c].g \in 1..Len(gen)
  BY <1>3, <1>4 DEF Held
<1>11. c \notin Views /\ c # "flusher" /\ call'[c].step = "released"
  BY <1>2, <1>7, ActorsAssumption
<1>12. PICK g : g = call[c].g
  OBVIOUS
<1>13. c \notin Holders(g)'
  BY <1>11 DEF Holders
<1> QED BY <1>4, <1>8, <1>9, <1>10, <1>12, <1>13, ReleaseStep

LEMMA CloseViewHInv == ASSUME HInv, NEW v \in Views, CloseView(v) PROVE HInv'
<1>1. /\ view[v].step = "open" /\ ReleaseHot(v, view[v].g) /\ view' = [view EXCEPT ![v] = Idle]
      /\ hot' = hot /\ call' = call /\ flusher' = flusher
  BY DEF CloseView
<1>2. ActorShape /\ Held
  BY DEF HInv, Shape
<1>3. IsActor(Idle) /\ Idle.step = "idle"
  BY AtIsActor DEF Idle
<1>4. /\ view' = [w \in Views |-> view'[w]] /\ \A w \in Views : IsActor(view'[w])
      /\ \A w \in Views : view'[w] = IF w = v THEN Idle ELSE view[w]
  BY <1>1, <1>2, <1>3, ViewUpdate, Zenon
<1>5. ActorShape'
  BY <1>1, <1>2, <1>4 DEF ActorShape
<1>6. TakesHoldOf({})
  BY <1>1, <1>2, <1>3, <1>4 DEF TakesHoldOf, Held
<1>7. view[v].g \in 1..Len(gen)
  BY <1>1, <1>2 DEF Held
<1>8. v \notin Calls /\ v # "flusher" /\ view'[v].step = "idle"
  BY <1>3, <1>4, ActorsAssumption
<1>9. PICK g : g = view[v].g
  OBVIOUS
<1>10. v \notin Holders(g)'
  BY <1>8 DEF Holders
<1> QED BY <1>1, <1>5, <1>6, <1>7, <1>9, <1>10, ReleaseStep

LEMMA FlushEndHInv == ASSUME HInv, FlushEnd PROVE HInv'
<1>1. /\ flusher.step \in {"head", "stray"} /\ flusher' = Idle
      /\ hot' = hot /\ call' = call /\ view' = view
  BY DEF FlushEnd
<1>2. ActorShape /\ Held /\ IsGens(gen)
  BY DEF HInv, Shape
<1>3. IsActor(flusher') /\ flusher'.step = "idle"
  BY <1>1, AtIsActor DEF Idle
<1>4. ActorShape'
  BY <1>1, <1>2, <1>3 DEF ActorShape
<1>5. TakesHoldOf({})
  BY <1>1, <1>3 DEF TakesHoldOf
<1>6. flusher.g \in 1..Len(gen)
  BY <1>1, <1>2 DEF Held
<1>7. PICK g : g = flusher.g
  OBVIOUS
<1>8. CASE ReleaseHot("flusher", g)
  <2>1. "flusher" \notin Holders(g)'
    BY <1>3, ActorsAssumption DEF Holders
  <2> QED BY <1>1, <1>4, <1>5, <1>6, <1>7, <1>8, <2>1, ReleaseStep
<1>9. CASE \E n : SyncLogs(g, n)
  <2>1. PICK n : SyncLogs(g, n)
    BY <1>9
  <2>2. g \in 1..Len(gen)
    BY <1>6, <1>7
  <2>3. IsGens(gen') /\ Len(gen') = Len(gen) /\ SameStates(gen, gen')
    BY <1>2, <2>1, <2>2, SyncUpdate
  <2> QED BY <1>1, <1>4, <1>5, <2>3, LogStep
<1> QED BY <1>7, <1>8, <1>9 DEF FlushEnd

\* Marking one generation leaves the others, and closes none.
LEMMA RetireUpdate ==
  ASSUME NEW gs, IsGens(gs), NEW g \in 1..Len(gs), NEW by
  PROVE  LET hs == [gs EXCEPT ![g].retired = by]
         IN  IsGens(hs) /\ Len(hs) = Len(gs) /\ SameClosed(gs, hs)
<1> DEFINE hs == [gs EXCEPT ![g].retired = by]
<1>1. Len(gs) \in Nat /\ gs = [h \in 1..Len(gs) |-> gs[h]]
  BY DEF IsGens
<1>2. hs = [h \in 1..Len(gs) |-> IF h = g THEN [gs[g] EXCEPT !.retired = by] ELSE gs[h]]
  BY <1>1, Zenon
<1>3. DOMAIN hs = 1..Len(gs) /\ Len(hs) = Len(gs)
  BY <1>1, <1>2
<1>4. IsGen(gs[g])
  BY DEF IsGens
<1>5. [gs[g] EXCEPT !.retired = by] = [retired |-> by, closed |-> gs[g].closed, log |-> gs[g].log]
  BY <1>4 DEF IsGen
<1>6. \A h \in 1..Len(gs) : IsGen(hs[h]) /\ hs[h].closed = gs[h].closed
  BY <1>2, <1>5, <1>1 DEF IsGens, IsGen
<1>7. hs = [h \in 1..Len(hs) |-> hs[h]]
  BY <1>2, <1>3
<1> HIDE DEF hs
<1>8. IsGens(hs) /\ Len(hs) = Len(gs) /\ SameClosed(gs, hs)
  BY <1>1, <1>3, <1>6, <1>7 DEF IsGens, SameClosed
<1> QED BY <1>8 DEF hs

\* retireHot: the current generation is closed if nobody holds it.
LEMMA RetireStep ==
  ASSUME HInv, ActorShape', TakesHoldOf({}), NEW by, RetireHot(by)
  PROVE  HInv'
<1>1. IsGens(gen) /\ hot \in 0..Len(gen) /\ Len(gen) \in Nat /\ hot' = 0
  BY DEF HInv, Shape, IsGens, RetireHot
<1>2. hot # 0 => hot \in 1..Len(gen)
  BY <1>1
<1>3. CASE hot = 0
  <2>1. gen' = gen
    BY <1>3 DEF RetireHot
  <2>2. IsGens(gen') /\ Len(gen') = Len(gen) /\ SameStates(gen, gen')
    BY <1>1, <2>1, Same
  <2> QED BY <1>1, <1>3, <2>2, LogStep
<1>4. CASE hot # 0 /\ Holders(hot) = {}
  <2>1. PICK done : CloseGen(hot, done)
    BY <1>4 DEF RetireHot
  <2>2. PICK g : g = hot
    OBVIOUS
  <2>3. Holders(g)' = {}
    BY <1>4, <2>2, HoldersShrink
  <2>4. g \in 1..Len(gen) /\ hot' # g /\ CloseGen(g, done)
    BY <1>1, <1>2, <1>4, <2>1, <2>2
  <2> QED BY <1>1, <2>3, <2>4, CloseStep
<1>5. CASE hot # 0 /\ Holders(hot) # {}
  <2>1. PICK hs : hs = [gen EXCEPT ![hot].retired = by]
    BY Zenon
  <2>2. gen' = hs
    BY <1>5, <2>1, Zenon DEF RetireHot
  <2>3. hot \in 1..Len(gen)
    BY <1>2, <1>5
  <2>4. IsGens(hs) /\ Len(hs) = Len(gen) /\ SameClosed(gen, hs)
    BY <1>1, <2>1, <2>3, RetireUpdate, Zenon
  <2>5. IsGens(gen') /\ Len(gen') = Len(gen) /\ \A h \in 1..Len(gen) : gen'[h].closed = gen[h].closed
    BY <2>2, <2>4 DEF SameClosed
  <2>6. Shape'
    BY <1>1, <2>5 DEF Shape
  <2>7. Len(gen) <= Len(gen')
    BY <1>1, <2>5
  <2>8. \A g \in 1..Len(gen') : gen'[g].closed => g \in 1..Len(gen) /\ gen[g].closed
    BY <2>5
  <2> QED BY <1>1, <2>6, <2>7, <2>8, Preserve DEF TakesHoldOf
<1> QED BY <1>3, <1>4, <1>5

LEMMA RetireHInv == ASSUME HInv, Retire PROVE HInv'
<1>1. RetireHot("held") /\ call' = call /\ view' = view /\ flusher' = flusher
  BY DEF Retire
<1>2. ActorShape /\ Held
  BY DEF HInv, Shape
<1>3. ActorShape' /\ TakesHoldOf({})
  BY <1>1, <1>2 DEF ActorShape, TakesHoldOf, Held
<1> QED BY <1>1, <1>3, RetireStep

LEMMA RetireQuietHInv == ASSUME HInv, RetireQuiet PROVE HInv'
<1>1. RetireHot("quiet") /\ call' = call /\ view' = view /\ flusher' = Idle
  BY DEF RetireQuiet
<1>2. ActorShape
  BY DEF HInv, Shape
<1>3. IsActor(flusher') /\ flusher'.step = "idle"
  BY <1>1, AtIsActor DEF Idle
<1>4. ActorShape' /\ TakesHoldOf({})
  BY <1>1, <1>2, <1>3 DEF ActorShape, TakesHoldOf
<1> QED BY <1>1, <1>4, RetireStep

LEMMA FinishCloseHInv == ASSUME HInv, FinishClose PROVE HInv'
<1>1. /\ OpenHeadRefs = {} /\ hot' = 0 /\ call' = call /\ view' = view /\ flusher' = flusher
      /\ IF hot = 0 THEN gen' = gen ELSE \E done : CloseGen(hot, done)
  BY DEF FinishClose
<1>2. /\ IsGens(gen) /\ hot \in 0..Len(gen) /\ Len(gen) \in Nat
      /\ ActorShape /\ Held
  BY DEF HInv, Shape, IsGens
<1>3. ActorShape' /\ TakesHoldOf({})
  BY <1>1, <1>2 DEF ActorShape, TakesHoldOf, Held
<1>4. CASE hot = 0
  <2>1. IsGens(gen') /\ Len(gen') = Len(gen) /\ SameStates(gen, gen')
    BY <1>1, <1>2, <1>4, Same
  <2> QED BY <1>1, <1>3, <1>4, <2>1, LogStep
<1>5. CASE hot # 0
  <2>1. PICK g : g = hot
    OBVIOUS
  <2>2. PICK done : CloseGen(g, done)
    BY <1>1, <1>5, <2>1
  <2>3. g \in 1..Len(gen) /\ hot' # g
    BY <1>1, <1>2, <1>5, <2>1
  <2>4. Holders(g) = {}
    BY <1>1, <2>3 DEF OpenHeadRefs, Gens
  <2>5. Holders(g)' = {}
    BY <1>3, <2>4, HoldersShrink
  <2> QED BY <1>1, <1>3, <2>2, <2>3, <2>5, CloseStep
<1> QED BY <1>4, <1>5

-----------------------------------------------------------------------------

LEMMA InitHInv == Init => HInv
<1> SUFFICES ASSUME Init PROVE HInv
  OBVIOUS
<1>1. gen = <<>> /\ Len(gen) = 0 /\ hot = 0 /\ 1..0 = {}
  BY DEF Init
<1>2. IsActor(Idle) /\ Idle.step = "idle"
  BY AtIsActor DEF Idle
<1>3. call = [c \in Calls |-> Idle] /\ view = [v \in Views |-> Idle] /\ flusher = Idle
  BY DEF Init
<1>4. gen = [g \in 1..Len(gen) |-> gen[g]]
  BY <1>1
<1>5. IsGens(gen)
  BY <1>1, <1>4 DEF IsGens
<1>6. ActorShape
  BY <1>2, <1>3 DEF ActorShape
<1>7. Held
  BY <1>1, <1>2, <1>3 DEF Held
<1>8. NoUseAfterClose
  BY <1>1 DEF NoUseAfterClose, Gens
<1> QED BY <1>1, <1>5, <1>6, <1>7, <1>8 DEF HInv, Shape

\* Every step of the store keeps the inductive invariant.
LEMMA NextHInv == HInv /\ [Next]_vars => HInv'
<1> SUFFICES ASSUME HInv, [Next]_vars PROVE HInv'
  OBVIOUS
<1>1. ASSUME NEW c \in Calls, NEW k \in Trunk, BeginAppend(c, k) PROVE HInv'
  BY <1>1, BeginAppendHInv
<1>2. ASSUME NEW c \in Calls, Append1(c) PROVE HInv'
  BY <1>2, AppendRecordHInv, ReleaseHInv, ReturnHInv DEF Append1
<1>3. ASSUME NEW v \in Views, NEW k \in Trunk, OpenView(v, k) PROVE HInv'
  BY <1>3, OpenViewHInv
<1>4. ASSUME NEW v \in Views, ViewAppend(v) \/ ViewSync(v) \/ CloseView(v) PROVE HInv'
  BY <1>4, ViewAppendHInv, ViewSyncHInv, CloseViewHInv
<1>5. ASSUME NEW op, NEW k, BeginGate(op, k) PROVE HInv'
  BY <1>5, SyncHotHInv DEF BeginGate
<1>6. CASE Gate1
  <2>1. CASE EnsureNoOpenHeads
    BY <2>1, IdleStepsHInv DEF EnsureNoOpenHeads
  <2> QED BY <1>6, <2>1, CreateHInv, RetireHInv DEF Gate1
<1>7. CASE Flush1
  BY <1>7, FlushEndHInv, EvictHeadHInv, EvictLogHInv, RetireQuietHInv DEF Flush1
<1>8. ASSUME NEW k \in Trunk, FlushHead(k) \/ Evict(k) PROVE HInv'
  BY <1>8, FlushHeadHInv, EvictHInv
<1>9. CASE FlushStray \/ Quiet
  BY <1>9, FlushStrayHInv, QuietHInv
<1>10. CASE BeginClose
  BY <1>10, SyncHotHInv DEF BeginClose
<1>11. CASE FinishClose
  BY <1>11, FinishCloseHInv
<1>12. CASE Refused
  BY <1>12, IdleStepsHInv DEF Refused
<1>13. CASE UNCHANGED vars
  BY <1>13, IdleStepsHInv DEF vars
<1> QED
  BY <1>1, <1>2, <1>3, <1>4, <1>5, <1>6, <1>7, <1>8, <1>9, <1>10, <1>11, <1>12, <1>13 DEF Next

\* borrowHotUntracked, releaseHot and retireHot between them never close a
\* generation while an append, a handle or the flusher holds it, for any number
\* of goroutines, handles, trunks and generations.
THEOREM NoUseAfterCloseAlways == Spec => []NoUseAfterClose
<1>1. HInv => NoUseAfterClose
  BY DEF HInv
<1> QED BY InitHInv, NextHInv, <1>1, PTL DEF Spec

-----------------------------------------------------------------------------
(* PendingIsListed.  Here the logs of a generation matter: their fields, but *)
(* neither where their tail is nor what is on disk.                         *)

IsLog(r) ==
  /\ r = [tail |-> r.tail, pend |-> r.pend, head |-> r.head, listed |-> r.listed]
  /\ r.pend \in Seq(Nat) /\ r.head \in BOOLEAN /\ r.listed \in BOOLEAN
AreLogs(gs) ==
  \A g \in 1..Len(gs) :
    gs[g].log = [k \in Trunk |-> gs[g].log[k]] /\ \A k \in Trunk : IsLog(gs[g].log[k])

\* A log that a head uses, or that buffers a record, is listed.
Kept(r) == r.head \/ r.pend # <<>> => r.listed
AreKept(gs) == \A g \in 1..Len(gs) : \A k \in Trunk : Kept(gs[g].log[k])

\* Who is at work on which trunk.
InTrunk ==
  /\ \A c \in Calls : call[c].step \in {"borrowed", "appended"} => call[c].k \in Trunk
  /\ \A v \in Views : view[v].step = "open" => view[v].k \in Trunk
  /\ flusher.step \in {"evicted", "deleted"} => flusher.k \in Trunk
  /\ gate = [op |-> gate.op, step |-> gate.step, k |-> gate.k]
  /\ gate.op = "create" => gate.k \in Trunk

\* No append runs on the trunk that the flusher evicts, and between the
\* eviction's two locks its log has no head and no handle.
NoCallAt(k) == \A c \in Calls : call[c].step \in {"borrowed", "appended"} => call[c].k # k
NoViewAt(g, k) == \A v \in Views : view[v].step = "open" => ~(view[v].g = g /\ view[v].k = k)
Evicting ==
  /\ flusher.step \in {"evicted", "deleted"} => NoCallAt(flusher.k)
  /\ flusher.step = "deleted" => /\ ~gen[flusher.g].log[flusher.k].head
                                 /\ NoViewAt(flusher.g, flusher.k)

\* The log of an open handle is listed, so that it may append.
InUse == \A v \in Views : view[v].step = "open" => gen[view[v].g].log[view[v].k].listed

Logs == born \in Nat /\ AreLogs(gen) /\ InTrunk
Listing == AreKept(gen) /\ InUse /\ Evicting
PInv == HInv /\ Logs /\ ("evict" \notin entered => Listing)

\* A sync leaves head and list alone and buffers nothing new.
Shrinks(r, s) ==
  IsLog(s) /\ s.head = r.head /\ s.listed = r.listed /\ (r.pend = <<>> => s.pend = <<>>)

LEMMA WrittenShrinks ==
  ASSUME NEW r, IsLog(r), NEW n \in Nat
  PROVE  Shrinks(r, Written(r, n)) /\ (n = Len(r.pend) => Written(r, n).pend = <<>>)
<1>1. PICK p : p = r.pend
  BY Zenon
<1>2. p \in Seq(Nat) /\ Len(p) \in Nat /\ n + 1 \in Int /\ Len(p) \in Int
  BY <1>1, LenProperties DEF IsLog
<1>3. PICK q : q = SubSeq(p, n + 1, Len(p))
  BY Zenon
<1>4. \A i \in (n + 1)..Len(p) : p[i] \in Nat
  BY <1>2, ElementOfSeq
<1>5. q \in Seq(Nat) /\ Len(q) = IF n + 1 <= Len(p) THEN Len(p) - (n + 1) + 1 ELSE 0
  BY <1>2, <1>3, <1>4, SubSeqProperties
<1>6. (p = <<>> => Len(p) = 0) /\ (Len(q) = 0 => q = <<>>)
  BY <1>2, <1>5, EmptySeq
<1>7. (p = <<>> => q = <<>>) /\ (n = Len(p) => q = <<>>)
  BY <1>2, <1>5, <1>6
<1>8. Written(r, n) = [tail |-> r.tail + n, pend |-> q, head |-> r.head, listed |-> r.listed]
  <2>1. PICK a, h, l : r = [tail |-> a, pend |-> p, head |-> h, listed |-> l]
    BY <1>1, Zenon DEF IsLog
  <2>2. Written(r, n) = [r EXCEPT !.tail = @ + n, !.pend = q]
    BY <1>1, <1>3, Zenon DEF Written
  <2> QED BY <2>1, <2>2
<1> QED BY <1>1, <1>5, <1>7, <1>8 DEF Shrinks, IsLog

\* A log that stays as it is.
LEMMA ShrinksSame ==
  ASSUME NEW r, IsLog(r) PROVE Shrinks(r, r)
BY DEF Shrinks

\* An open leaves a head with a listed log, provided a head had one before.
LEMMA OpenLogIs ==
  ASSUME NEW r, IsLog(r), NEW k
  PROVE  LET s == OpenLog(r, k)
         IN  IsLog(s) /\ s.head /\ (Kept(r) => s.listed) /\ (r.listed => s.listed)
<1>1. CASE r.head \/ r.listed
  <2>1. OpenLog(r, k) = [tail |-> r.tail, pend |-> r.pend, head |-> TRUE, listed |-> r.listed]
    BY <1>1 DEF OpenLog, IsLog
  <2> QED BY <1>1, <2>1 DEF IsLog, Kept
<1>2. CASE ~(r.head \/ r.listed)
  <2>1. PICK t : OpenLog(r, k) = [tail |-> t, pend |-> <<>>, head |-> TRUE, listed |-> TRUE]
    BY <1>2, Zenon DEF OpenLog
  <2>2. <<>> \in Seq(Nat)
    BY EmptySeq
  <2> QED BY <2>1, <2>2 DEF IsLog, Kept
<1> QED BY <1>1, <1>2

\* A record more in the buffer.
LEMMA AppendedIs ==
  ASSUME NEW r, IsLog(r), NEW n \in Nat
  PROVE  LET s == [r EXCEPT !.pend = Append(@, n)]
         IN  IsLog(s) /\ s.head = r.head /\ s.listed = r.listed
<1>1. [r EXCEPT !.pend = Append(@, n)] =
        [tail |-> r.tail, pend |-> Append(r.pend, n), head |-> r.head, listed |-> r.listed]
  <2>1. PICK a, p, h, l : r = [tail |-> a, pend |-> p, head |-> h, listed |-> l]
    BY Zenon DEF IsLog
  <2> QED BY <2>1
<1>2. Append(r.pend, n) \in Seq(Nat)
  BY AppendProperties DEF IsLog
<1> QED BY <1>1, <1>2 DEF IsLog

\* hs is gs with s for one log of one generation.
Replaced(gs, hs, g, k, s) ==
  /\ Len(hs) = Len(gs) /\ AreLogs(hs)
  /\ \A h \in 1..Len(gs), j \in Trunk :
       hs[h].log[j] = IF h = g /\ j = k THEN s ELSE gs[h].log[j]

\* One log of one generation is replaced.
LEMMA ReplaceLog ==
  ASSUME NEW gs, IsGens(gs), AreLogs(gs), NEW g \in 1..Len(gs), NEW k \in Trunk, NEW s, IsLog(s),
         NEW hs, hs = [gs EXCEPT ![g].log = [gs[g].log EXCEPT ![k] = s]]
  PROVE  Replaced(gs, hs, g, k, s)
<1>1. PICK log : log = [gs[g].log EXCEPT ![k] = s]
  BY Zenon
<1>2. hs = [gs EXCEPT ![g].log = log]
  BY <1>1, Zenon
<1>3. IsGens(hs) /\ Len(hs) = Len(gs)
  <2>1. IsGens([gs EXCEPT ![g].log = log]) /\ Len([gs EXCEPT ![g].log = log]) = Len(gs)
    BY LogUpdate
  <2> QED BY <1>2, <2>1, Zenon
<1>4. gs[g].log = [j \in Trunk |-> gs[g].log[j]]
  BY Zenon DEF AreLogs
<1>5. log = [j \in Trunk |-> IF j = k THEN s ELSE gs[g].log[j]]
  BY <1>1, <1>4, Zenon
<1>6. gs = [h \in 1..Len(gs) |-> gs[h]] /\ IsGen(gs[g])
  BY Zenon DEF IsGens
<1>7. hs[g].log = log /\ \A h \in 1..Len(gs) \ {g} : hs[h] = gs[h]
  BY <1>2, <1>6 DEF IsGen
<1>8. \A h \in 1..Len(gs), j \in Trunk :
        hs[h].log[j] = IF h = g /\ j = k THEN s ELSE gs[h].log[j]
  <2> SUFFICES ASSUME NEW h \in 1..Len(gs), NEW j \in Trunk
               PROVE  hs[h].log[j] = IF h = g /\ j = k THEN s ELSE gs[h].log[j]
    BY Zenon
  <2>1. CASE h = g
    BY <2>1, <1>5, <1>7
  <2>2. CASE h # g
    BY <2>2, <1>7
  <2> QED BY <2>1, <2>2
<1>9. log = [j \in Trunk |-> log[j]] /\ \A j \in Trunk : IsLog(log[j])
  BY <1>5, Zenon DEF AreLogs
<1>10. AreLogs(hs)
  <2> SUFFICES ASSUME NEW h \in 1..Len(gs)
               PROVE  /\ hs[h].log = [j \in Trunk |-> hs[h].log[j]]
                      /\ \A j \in Trunk : IsLog(hs[h].log[j])
    BY <1>3, Zenon DEF AreLogs
  <2>1. CASE h = g
    BY <2>1, <1>7, <1>9, Zenon
  <2>2. CASE h # g
    BY <2>2, <1>7, Zenon DEF AreLogs
  <2> QED BY <2>1, <2>2
<1> QED BY <1>3, <1>8, <1>10, Zenon DEF Replaced

\* hs is gs after syncs and closes.
Faded(gs, hs) ==
  /\ Len(hs) = Len(gs) /\ AreLogs(hs)
  /\ \A g \in 1..Len(gs), k \in Trunk :
       \/ Shrinks(gs[g].log[k], hs[g].log[k])
       \/ hs[g].closed /\ hs[g].log[k] = NoLog

\* hs is gs after heads of the trunks in K were opened and records appended.
Grown(gs, hs, K) ==
  /\ Len(gs) <= Len(hs) /\ AreLogs(hs)
  /\ \A g \in 1..Len(gs), k \in Trunk :
       /\ gs[g].log[k].listed => hs[g].log[k].listed
       /\ k \notin K => hs[g].log[k].head = gs[g].log[k].head

\* Generations whose logs stayed.
LEMMA SameFades ==
  ASSUME NEW gs, AreLogs(gs), NEW hs, Len(hs) = Len(gs), \A g \in 1..Len(gs) : hs[g].log = gs[g].log
  PROVE  Faded(gs, hs)
<1>1. AreLogs(hs)
  BY Zenon DEF AreLogs
<1>2. \A g \in 1..Len(gs), k \in Trunk : Shrinks(gs[g].log[k], hs[g].log[k])
  BY ShrinksSame, Zenon DEF AreLogs
<1> QED BY <1>1, <1>2, Zenon DEF Faded

\* A generation marked retired.
LEMMA RetiredFades ==
  ASSUME NEW gs, IsGens(gs), AreLogs(gs), NEW g \in 1..Len(gs), NEW by,
         NEW hs, hs = [gs EXCEPT ![g].retired = by]
  PROVE  Faded(gs, hs)
<1>1. gs = [h \in 1..Len(gs) |-> gs[h]] /\ IsGen(gs[g]) /\ Len(gs) \in Nat
  BY Zenon DEF IsGens
<1>2. hs = [h \in 1..Len(gs) |-> IF h = g THEN [gs[g] EXCEPT !.retired = by] ELSE gs[h]]
  BY <1>1, Zenon
<1>3. Len(hs) = Len(gs)
  BY <1>1, <1>2
<1>4. PICK a, b, log : gs[g] = [retired |-> a, closed |-> b, log |-> log]
  BY <1>1, Zenon DEF IsGen
<1>5. [gs[g] EXCEPT !.retired = by].log = gs[g].log
  BY <1>4
<1>6. \A h \in 1..Len(gs) : hs[h].log = gs[h].log
  BY <1>2, <1>5
<1> QED BY <1>3, <1>6, SameFades, Zenon

\* A sync.
LEMMA SyncFades ==
  ASSUME HInv, AreLogs(gen), NEW g \in 1..Len(gen), NEW n, \A k \in Trunk : n[k] \in Nat, SyncLogs(g, n)
  PROVE  Faded(gen, gen')
<1>1. IsGens(gen)
  BY DEF HInv, Shape
<1>2. PICK log : log = [k \in Trunk |-> Written(gen[g].log[k], n[k])]
  BY Zenon
<1>3. gen' = [gen EXCEPT ![g].log = log]
  BY <1>2, Zenon DEF SyncLogs
<1>4. Len(gen') = Len(gen)
  <2>1. Len([gen EXCEPT ![g].log = log]) = Len(gen)
    BY <1>1, LogUpdate
  <2> QED BY <1>3, <2>1, Zenon
<1>5. gen = [h \in 1..Len(gen) |-> gen[h]] /\ IsGen(gen[g])
  BY <1>1, Zenon DEF IsGens
<1>6. gen'[g].log = log /\ \A h \in 1..Len(gen) \ {g} : gen'[h] = gen[h]
  BY <1>3, <1>5 DEF IsGen
<1>7. log = [k \in Trunk |-> log[k]] /\ \A k \in Trunk : Shrinks(gen[g].log[k], log[k])
  BY <1>2, WrittenShrinks, Zenon DEF AreLogs
<1>8. \A k \in Trunk : IsLog(log[k])
  BY <1>7, Zenon DEF Shrinks
<1>9. ASSUME NEW h \in 1..Len(gen)
      PROVE  /\ gen'[h].log = [k \in Trunk |-> gen'[h].log[k]]
             /\ \A k \in Trunk : IsLog(gen'[h].log[k]) /\ Shrinks(gen[h].log[k], gen'[h].log[k])
  <2>1. CASE h = g
    BY <2>1, <1>6, <1>7, <1>8, Zenon
  <2>2. CASE h # g
    BY <2>2, <1>6, ShrinksSame, Zenon DEF AreLogs
  <2> QED BY <2>1, <2>2
<1>10. AreLogs(gen')
  BY <1>4, <1>9, Zenon DEF AreLogs
<1> QED BY <1>4, <1>9, <1>10, Zenon DEF Faded

\* NoLog is a log, and kept.
LEMMA NoLogIs == IsLog(NoLog) /\ Kept(NoLog) /\ ~NoLog.head
<1>1. <<>> \in Seq(Nat)
  BY EmptySeq
<1> QED BY <1>1 DEF NoLog, IsLog, Kept

\* A close.
LEMMA CloseFades ==
  ASSUME HInv, AreLogs(gen), NEW g \in 1..Len(gen), NEW done, CloseGen(g, done)
  PROVE  Faded(gen, gen') /\ entered \subseteq entered'
<1>1. IsGens(gen)
  BY DEF HInv, Shape
<1>2. PICK log : log = [k \in Trunk |-> NoLog]
  BY Zenon
<1>3. gen' = [gen EXCEPT ![g] = [retired |-> "closed", closed |-> TRUE, log |-> log]]
  BY <1>2, Zenon DEF CloseGen
<1>4. Len(gen') = Len(gen) /\ SameBut(gen, gen', g)
  BY <1>1, <1>3, CloseUpdate, Zenon
<1>5. gen = [h \in 1..Len(gen) |-> gen[h]]
  BY <1>1, Zenon DEF IsGens
<1>6. gen'[g].log = log /\ gen'[g].closed
  BY <1>3, <1>5
<1>7. log = [k \in Trunk |-> log[k]] /\ \A k \in Trunk : log[k] = NoLog
  BY <1>2, Zenon
<1>8. ASSUME NEW h \in 1..Len(gen)
      PROVE  /\ gen'[h].log = [k \in Trunk |-> gen'[h].log[k]]
             /\ \A k \in Trunk : /\ IsLog(gen'[h].log[k])
                                 /\ \/ Shrinks(gen[h].log[k], gen'[h].log[k])
                                    \/ gen'[h].closed /\ gen'[h].log[k] = NoLog
  <2>1. CASE h = g
    BY <2>1, <1>6, <1>7, NoLogIs, Zenon
  <2>2. CASE h # g
    BY <2>2, <1>4, ShrinksSame, Zenon DEF AreLogs, SameBut
  <2> QED BY <2>1, <2>2
<1>9. AreLogs(gen')
  BY <1>4, <1>8, Zenon DEF AreLogs
<1>10. entered \subseteq entered'
  BY Zenon DEF CloseGen, Entering
<1> QED BY <1>4, <1>8, <1>9, <1>10, Zenon DEF Faded

\* What the steps come down to that open nothing and append nothing: a handle
\* still open has its generation open, so its log was at most synced.
LEMMA LetGo ==
  ASSUME PInv, HInv', Faded(gen, gen'), born' = born, entered \subseteq entered',
         \A c \in Calls : call'[c].step \in {"borrowed", "appended"} =>
           call[c].step \in {"borrowed", "appended"} /\ call'[c].k = call[c].k,
         \A v \in Views : view'[v].step = "open" =>
           view[v].step = "open" /\ view'[v].g = view[v].g /\ view'[v].k = view[v].k,
         flusher'.step \in {"evicted", "deleted"} =>
           \/ flusher' = flusher
           \/ flusher'.step = "evicted" /\ flusher'.k \in Trunk /\ NoCallAt(flusher'.k),
         gate' = [op |-> gate'.op, step |-> gate'.step, k |-> gate'.k],
         gate'.op = "create" => gate'.k \in Trunk
  PROVE  PInv'
<1>1. HInv /\ born \in Nat /\ AreLogs(gen) /\ InTrunk
  BY DEF PInv, Logs
<1>2. Logs'
  <2>1. AreLogs(gen')
    BY Zenon DEF Faded
  <2>2. InTrunk'
    BY <1>1, Zenon DEF InTrunk
  <2> QED BY <1>1, <2>1, <2>2, Zenon DEF Logs
<1>3. ASSUME "evict" \notin entered' PROVE Listing'
  <2>1. AreKept(gen) /\ InUse /\ Evicting
    BY <1>3, Zenon DEF PInv, Listing
  <2>2. AreKept(gen')
    <3> SUFFICES ASSUME NEW g \in 1..Len(gen), NEW k \in Trunk PROVE Kept(gen'[g].log[k])
      BY Zenon DEF AreKept, Faded
    <3>1. CASE Shrinks(gen[g].log[k], gen'[g].log[k])
      BY <2>1, <3>1, Zenon DEF AreKept, Kept, Shrinks
    <3>2. CASE gen'[g].log[k] = NoLog
      BY <3>2, NoLogIs, Zenon
    <3> QED BY <3>1, <3>2, Zenon DEF Faded
  <2>3. InUse'
    <3> SUFFICES ASSUME NEW v \in Views, view'[v].step = "open"
                 PROVE  gen'[view'[v].g].log[view'[v].k].listed
      BY Zenon DEF InUse
    <3>1. view[v].step = "open" /\ view'[v].g = view[v].g /\ view'[v].k = view[v].k
      BY Zenon
    <3>2. view[v].g \in 1..Len(gen) /\ view[v].k \in Trunk /\ view'[v].g \in 1..Len(gen')
      BY <1>1, <3>1, Zenon DEF HInv, Held, InTrunk
    <3>3. ~gen'[view'[v].g].closed
      BY <3>2, Zenon DEF HInv, NoUseAfterClose, Gens, Holders
    <3>4. Shrinks(gen[view[v].g].log[view[v].k], gen'[view[v].g].log[view[v].k])
      BY <3>1, <3>2, <3>3, Zenon DEF Faded
    <3> QED BY <2>1, <3>1, <3>4, Zenon DEF InUse, Shrinks
  <2>4. ASSUME flusher'.step \in {"evicted", "deleted"}
        PROVE  /\ NoCallAt(flusher.k)'
               /\ flusher'.step = "deleted" => /\ ~gen'[flusher'.g].log[flusher'.k].head
                                               /\ NoViewAt(flusher.g, flusher.k)'
    <3>1. CASE flusher' = flusher
      <4>1. NoCallAt(flusher.k)'
        BY <2>1, <2>4, <3>1, Zenon DEF Evicting, NoCallAt
      <4>2. ASSUME flusher.step = "deleted"
            PROVE  ~gen'[flusher.g].log[flusher.k].head /\ NoViewAt(flusher.g, flusher.k)'
        <5>1. flusher.g \in 1..Len(gen) /\ flusher.k \in Trunk
          BY <1>1, <4>2 DEF HInv, Held, InTrunk
        <5>2. ~gen[flusher.g].log[flusher.k].head /\ NoViewAt(flusher.g, flusher.k)
          BY <2>1, <4>2, Zenon DEF Evicting
        <5>3. NoViewAt(flusher.g, flusher.k)'
          BY <3>1, <5>2, Zenon DEF NoViewAt
        <5> QED BY <5>1, <5>2, <5>3, NoLogIs, Zenon DEF Faded, Shrinks
      <4> QED BY <3>1, <4>1, <4>2, Zenon
    <3>2. CASE flusher'.step = "evicted" /\ NoCallAt(flusher'.k)
      <4>1. NoCallAt(flusher.k)'
        BY <3>2, Zenon DEF NoCallAt
      <4>2. flusher'.step # "deleted"
        BY <3>2
      <4> QED BY <4>1, <4>2, Zenon
    <3> QED BY <2>4, <3>1, <3>2, Zenon
  <2>5. Evicting'
    BY <2>4, Zenon DEF Evicting
  <2> QED BY <2>2, <2>3, <2>5, Zenon DEF Listing
<1> QED BY <1>2, <1>3, Zenon DEF PInv

\* What the steps come down to that open a head or append: no head of the log
\* being evicted is opened, and no append starts on its trunk.
LEMMA TakeUp ==
  ASSUME PInv, HInv', NEW K, Grown(gen, gen', K), born' \in Nat, entered \subseteq entered',
         "evict" \notin entered' /\ Listing => AreKept(gen'),
         \A c \in Calls : call'[c].step \in {"borrowed", "appended"} =>
           \/ call[c].step \in {"borrowed", "appended"} /\ call'[c].k = call[c].k
           \/ call'[c].k \in Trunk /\ ~Locked(call'[c].k),
         \A v \in Views : view'[v].step = "open" =>
           \/ view[v].step = "open" /\ view'[v].g = view[v].g /\ view'[v].k = view[v].k
           \/ view'[v].k \in Trunk \cap K /\ gen'[view'[v].g].log[view'[v].k].head,
         flusher'.step \in {"evicted", "deleted"} => flusher' = flusher,
         "evict" \notin entered' /\ Listing /\ flusher.step = "deleted" => flusher.k \notin K,
         gate' = [op |-> gate'.op, step |-> gate'.step, k |-> gate'.k],
         gate'.op = "create" => gate'.k \in Trunk
  PROVE  PInv'
<1>1. HInv /\ born \in Nat /\ AreLogs(gen) /\ InTrunk
  BY DEF PInv, Logs
<1>2. Logs'
  <2>1. AreLogs(gen')
    BY Zenon DEF Grown
  <2>2. InTrunk'
    BY <1>1, Zenon DEF InTrunk
  <2> QED BY <1>1, <2>1, <2>2, Zenon DEF Logs
<1>3. ASSUME "evict" \notin entered' PROVE Listing'
  <2>1. Listing /\ AreKept(gen) /\ InUse /\ Evicting
    BY <1>3, Zenon DEF PInv, Listing
  <2>2. AreKept(gen')
    BY <1>3, <2>1, Zenon
  <2>3. InUse'
    <3> SUFFICES ASSUME NEW v \in Views, view'[v].step = "open"
                 PROVE  gen'[view'[v].g].log[view'[v].k].listed
      BY Zenon DEF InUse
    <3>1. CASE view[v].step = "open" /\ view'[v].g = view[v].g /\ view'[v].k = view[v].k
      <4>1. view[v].g \in 1..Len(gen) /\ view[v].k \in Trunk
        BY <1>1, <3>1, Zenon DEF HInv, Held, InTrunk
      <4> QED BY <2>1, <3>1, <4>1, Zenon DEF InUse, Grown
    <3>2. CASE view'[v].k \in Trunk \cap K /\ gen'[view'[v].g].log[view'[v].k].head
      <4>1. view'[v].g \in 1..Len(gen')
        BY Zenon DEF HInv, Held
      <4> QED BY <2>2, <3>2, <4>1, Zenon DEF AreKept, Kept
    <3> QED BY <3>1, <3>2, Zenon
  <2>4. ASSUME flusher'.step \in {"evicted", "deleted"}
        PROVE  /\ flusher' = flusher /\ NoCallAt(flusher.k)'
               /\ flusher.step = "deleted" => /\ ~gen'[flusher.g].log[flusher.k].head
                                              /\ NoViewAt(flusher.g, flusher.k)'
    <3>1. flusher' = flusher
      BY <2>4, Zenon
    <3>2. NoCallAt(flusher.k)'
      BY <2>1, <2>4, <3>1, Zenon DEF Evicting, NoCallAt, Locked
    <3>3. ASSUME flusher.step = "deleted"
          PROVE  ~gen'[flusher.g].log[flusher.k].head /\ NoViewAt(flusher.g, flusher.k)'
      <4>1. flusher.g \in 1..Len(gen) /\ flusher.k \in Trunk
        BY <1>1, <3>3 DEF HInv, Held, InTrunk
      <4>2. ~gen[flusher.g].log[flusher.k].head /\ NoViewAt(flusher.g, flusher.k) /\ flusher.k \notin K
        BY <1>3, <2>1, <3>3, Zenon DEF Evicting
      <4>3. NoViewAt(flusher.g, flusher.k)'
        BY <3>1, <4>2, Zenon DEF NoViewAt
      <4> QED BY <4>1, <4>2, <4>3, Zenon DEF Grown
    <3> QED BY <3>1, <3>2, <3>3, Zenon
  <2>5. Evicting'
    BY <2>4, Zenon DEF Evicting
  <2> QED BY <2>2, <2>3, <2>5, Zenon DEF Listing
<1> QED BY <1>2, <1>3, Zenon DEF PInv

-----------------------------------------------------------------------------
(* Steps that sync, close or let go.                                        *)

\* What a coherent sync writes of each log.
LEMMA CutsAreNat ==
  ASSUME NEW g, NEW which, NEW n \in Cuts(g, which) PROVE \A k \in Trunk : n[k] \in Nat
<1>1. n \in [Trunk -> 0..MaxBorn]
  BY Zenon DEF Cuts
<1> QED BY <1>1, GenAssumption

\* The parts of PInv that most steps use.
LEMMA PInvParts ==
  ASSUME PInv
  PROVE  /\ HInv /\ AreLogs(gen) /\ IsGens(gen) /\ InTrunk /\ born \in Nat /\ ActorShape
         /\ hot = 0 \/ hot \in 1..Len(gen)
<1>1. HInv /\ AreLogs(gen) /\ InTrunk /\ born \in Nat /\ IsGens(gen) /\ ActorShape
  BY DEF PInv, Logs, HInv, Shape
<1>2. hot \in 0..Len(gen) /\ Len(gen) \in Nat
  BY <1>1 DEF HInv, Shape, IsGens
<1>3. hot = 0 \/ hot \in 1..Len(gen)
  BY <1>2
<1> QED BY <1>1, <1>3

\* syncHot, if there is a current generation.
LEMMA SyncHotFades ==
  ASSUME PInv, IF hot = 0 THEN gen' = gen ELSE \E n \in Cuts(hot, Trunk) : SyncLogs(hot, n)
  PROVE  Faded(gen, gen')
<1>1. HInv /\ AreLogs(gen) /\ (hot = 0 \/ hot \in 1..Len(gen))
  BY PInvParts
<1>2. CASE hot = 0
  BY <1>1, <1>2, SameFades, Zenon
<1>3. CASE hot # 0
  <2>1. PICK n \in Cuts(hot, Trunk) : SyncLogs(hot, n)
    BY <1>3, Zenon
  <2>2. \A k \in Trunk : n[k] \in Nat
    BY CutsAreNat, Zenon
  <2> QED BY <1>1, <1>3, <2>1, <2>2, SyncFades, Zenon
<1> QED BY <1>2, <1>3

\* releaseHot.
LEMMA ReleaseFades ==
  ASSUME PInv, NEW who, NEW g \in 1..Len(gen), ReleaseHot(who, g)
  PROVE  Faded(gen, gen') /\ entered \subseteq entered'
<1>1. HInv /\ AreLogs(gen)
  BY PInvParts
<1>2. (\E done : CloseGen(g, done)) \/ (gen' = gen /\ entered \subseteq entered')
  BY Zenon DEF ReleaseHot, Entering
<1>3. ASSUME NEW done, CloseGen(g, done) PROVE Faded(gen, gen') /\ entered \subseteq entered'
  BY <1>1, <1>3, CloseFades, Zenon
<1>4. gen' = gen => Faded(gen, gen')
  BY <1>1, SameFades, Zenon
<1> QED BY <1>2, <1>3, <1>4, Zenon

\* retireHot.
LEMMA RetireHotFades ==
  ASSUME PInv, NEW by, RetireHot(by)
  PROVE  Faded(gen, gen') /\ entered \subseteq entered'
<1>1. HInv /\ AreLogs(gen) /\ IsGens(gen) /\ (hot = 0 \/ hot \in 1..Len(gen))
  BY PInvParts
<1>2. CASE hot = 0
  <2>1. gen' = gen /\ entered' = entered
    BY <1>2, Zenon DEF RetireHot
  <2> QED BY <1>1, <2>1, SameFades, Zenon
<1>3. CASE hot # 0
  <2>1. \/ \E done : CloseGen(hot, done)
        \/ gen' = [gen EXCEPT ![hot].retired = by] /\ entered \subseteq entered'
    BY <1>3, Zenon DEF RetireHot, Entering
  <2>2. ASSUME NEW done, CloseGen(hot, done) PROVE Faded(gen, gen') /\ entered \subseteq entered'
    BY <1>1, <1>3, <2>2, CloseFades, Zenon
  <2>3. gen' = [gen EXCEPT ![hot].retired = by] => Faded(gen, gen')
    BY <1>1, <1>3, RetiredFades, Zenon
  <2> QED BY <2>1, <2>2, <2>3, Zenon
<1> QED BY <1>2, <1>3

\* The actors stay as they are.
LEMMA ActorsStay ==
  ASSUME PInv, HInv', Faded(gen, gen'), born' = born, entered \subseteq entered',
         call' = call, view' = view, flusher' = flusher \/ flusher'.step \notin {"evicted", "deleted"},
         gate' = gate \/ gate' = NoGate
  PROVE  PInv'
<1>1. /\ gate' = [op |-> gate'.op, step |-> gate'.step, k |-> gate'.k]
      /\ gate'.op = "create" => gate'.k \in Trunk
  <2>1. /\ NoGate = [op |-> NoGate.op, step |-> NoGate.step, k |-> NoGate.k]
        /\ NoGate.op # "create" /\ InTrunk
    BY PInvParts DEF NoGate
  <2> QED BY <2>1, Zenon DEF InTrunk
<1> QED BY <1>1, LetGo, Zenon

\* beginFlatCreate and beginTopologyMutation sync and take the gate.
LEMMA BeginGatePInv ==
  ASSUME PInv, HInv', NEW op, NEW k \in Trunk, BeginGate(op, k) PROVE PInv'
<1>1. /\ born' = born /\ entered' = entered /\ call' = call /\ view' = view /\ flusher' = flusher
      /\ IF hot = 0 THEN gen' = gen ELSE \E n \in Cuts(hot, Trunk) : SyncLogs(hot, n)
  BY Zenon DEF BeginGate
<1>2. PICK s : gate' = [op |-> op, step |-> s, k |-> IF op = "create" THEN k ELSE 0]
  BY Zenon DEF BeginGate
<1>3. /\ gate' = [op |-> gate'.op, step |-> gate'.step, k |-> gate'.k]
      /\ gate'.op = "create" => gate'.k \in Trunk
  BY <1>2
<1>4. Faded(gen, gen')
  BY <1>1, SyncHotFades, Zenon
<1> QED BY <1>1, <1>3, <1>4, LetGo, Zenon

\* The sync that Store.Close begins with.
LEMMA BeginClosePInv == ASSUME PInv, HInv', BeginClose PROVE PInv'
<1>1. /\ born' = born /\ entered' = entered /\ call' = call /\ view' = view /\ flusher' = flusher /\ gate' = gate
      /\ IF hot = 0 THEN gen' = gen ELSE \E n \in Cuts(hot, Trunk) : SyncLogs(hot, n)
  BY Zenon DEF BeginClose
<1>2. Faded(gen, gen')
  BY <1>1, SyncHotFades, Zenon
<1> QED BY <1>1, <1>2, ActorsStay, Zenon

\* EnsureNoOpenHeads, FlushStray, Quiet, Refused and stuttering.
LEMMA SameLogsPInv ==
  ASSUME PInv, HInv', UNCHANGED <<gen, call, view, born, entered>>,
         flusher' = flusher \/ flusher'.step \notin {"evicted", "deleted"},
         gate' = gate \/ gate' = NoGate \/ gate' = [gate EXCEPT !.step = "synced"]
  PROVE  PInv'
<1>1. /\ gate' = [op |-> gate'.op, step |-> gate'.step, k |-> gate'.k]
      /\ gate'.op = "create" => gate'.k \in Trunk
  <2>1. InTrunk
    BY PInvParts
  <2>2. PICK op, s, k : gate = [op |-> op, step |-> s, k |-> k] /\ (op = "create" => k \in Trunk)
    BY <2>1, Zenon DEF InTrunk
  <2>3. \/ gate' = [op |-> op, step |-> s, k |-> k]
        \/ gate' = [op |-> op, step |-> "synced", k |-> k]
        \/ gate' = [op |-> "none", step |-> "free", k |-> 0]
    BY <2>2 DEF NoGate
  <2> QED BY <2>2, <2>3
<1>2. Faded(gen, gen')
  BY PInvParts, SameFades, Zenon
<1> QED BY <1>1, <1>2, LetGo, Zenon

\* A handle's sync.
LEMMA ViewSyncPInv == ASSUME PInv, HInv', NEW v \in Views, ViewSync(v) PROVE PInv'
<1>1. /\ born' = born /\ entered' = entered /\ call' = call /\ view' = view /\ flusher' = flusher /\ gate' = gate
      /\ view[v].step = "open"
  BY Zenon DEF ViewSync
<1>2. PICK n \in Cuts(view[v].g, {view[v].k}) : SyncLogs(view[v].g, n)
  BY Zenon DEF ViewSync
<1>3. HInv /\ AreLogs(gen) /\ view[v].g \in 1..Len(gen)
  BY <1>1, PInvParts, Zenon DEF HInv, Held
<1>4. \A k \in Trunk : n[k] \in Nat
  BY CutsAreNat, Zenon
<1>5. Faded(gen, gen')
  BY <1>2, <1>3, <1>4, SyncFades, Zenon
<1> QED BY <1>1, <1>5, ActorsStay, Zenon

LEMMA ReleasePInv == ASSUME PInv, HInv', NEW c \in Calls, Release(c) PROVE PInv'
<1>1. /\ born' = born /\ view' = view /\ flusher' = flusher /\ gate' = gate
      /\ call[c].step = "appended" /\ ReleaseHot(c, call[c].g)
      /\ call' = [call EXCEPT ![c].step = "released"]
  BY Zenon DEF Release
<1>2. /\ HInv /\ call[c].g \in 1..Len(gen)
      /\ call = [d \in Calls |-> call[d]] /\ IsActor(call[c]) /\ InTrunk
  BY <1>1, PInvParts, Zenon DEF HInv, Held, ActorShape
<1>3. Faded(gen, gen') /\ entered \subseteq entered'
  BY <1>1, <1>2, ReleaseFades, Zenon
<1>4. call' = [d \in Calls |-> IF d = c THEN [call[c] EXCEPT !.step = "released"] ELSE call[d]]
  BY <1>1, <1>2, Zenon
<1>5. [call[c] EXCEPT !.step = "released"].step = "released"
  <2>1. PICK s, k, g, a, i : call[c] = [step |-> s, k |-> k, g |-> g, at |-> a, id |-> i]
    BY <1>2, Zenon DEF IsActor
  <2> QED BY <2>1
<1>6. \A d \in Calls : call'[d].step = "released" \/ call'[d] = call[d]
  BY <1>4, <1>5, Zenon
<1>7. \A d \in Calls : call'[d].step \in {"borrowed", "appended"} =>
        call[d].step \in {"borrowed", "appended"} /\ call'[d].k = call[d].k
  BY <1>6
<1> QED BY <1>1, <1>2, <1>3, <1>7, LetGo, Zenon DEF InTrunk

\* Who is idle is at work on nothing.
LEMMA IdleIs == Idle.step = "idle"
BY DEF Idle, At

\* An append returns.
LEMMA ReturnPInv == ASSUME PInv, HInv', NEW c \in Calls, Return(c) PROVE PInv'
<1>1. /\ born' = born /\ view' = view /\ flusher' = flusher /\ gate' = gate /\ gen' = gen
      /\ entered' = entered /\ call' = [call EXCEPT ![c] = Idle]
  BY Zenon DEF Return
<1>2. /\ AreLogs(gen) /\ call = [d \in Calls |-> call[d]] /\ InTrunk
  BY PInvParts, Zenon DEF ActorShape
<1>3. Faded(gen, gen')
  BY <1>1, <1>2, SameFades, Zenon
<1>4. \A d \in Calls : call'[d] = Idle \/ call'[d] = call[d]
  BY <1>1, <1>2, Zenon
<1>5. \A d \in Calls : call'[d].step \in {"borrowed", "appended"} =>
        call[d].step \in {"borrowed", "appended"} /\ call'[d].k = call[d].k
  BY <1>4, IdleIs
<1> QED BY <1>1, <1>2, <1>3, <1>5, LetGo, Zenon DEF InTrunk

\* A handle lets go.
LEMMA CloseViewPInv == ASSUME PInv, HInv', NEW v \in Views, CloseView(v) PROVE PInv'
<1>1. /\ born' = born /\ call' = call /\ flusher' = flusher /\ gate' = gate
      /\ view[v].step = "open" /\ ReleaseHot(v, view[v].g)
      /\ view' = [view EXCEPT ![v] = Idle]
  BY Zenon DEF CloseView
<1>2. view[v].g \in 1..Len(gen) /\ view = [w \in Views |-> view[w]] /\ InTrunk
  BY <1>1, PInvParts, Zenon DEF HInv, Held, ActorShape
<1>3. Faded(gen, gen') /\ entered \subseteq entered'
  BY <1>1, <1>2, ReleaseFades, Zenon
<1>4. \A w \in Views : view'[w] = Idle \/ view'[w] = view[w]
  BY <1>1, <1>2, Zenon
<1>5. \A w \in Views : view'[w].step = "open" =>
        view[w].step = "open" /\ view'[w].g = view[w].g /\ view'[w].k = view[w].k
  BY <1>4, IdleIs
<1> QED BY <1>1, <1>2, <1>3, <1>5, LetGo, Zenon DEF InTrunk

\* The flusher syncs and lets go.
LEMMA FlushEndPInv == ASSUME PInv, HInv', FlushEnd PROVE PInv'
<1>1. /\ born' = born /\ call' = call /\ view' = view /\ gate' = gate /\ flusher' = Idle
      /\ flusher.step \in {"head", "stray"}
      /\ \/ ReleaseHot("flusher", flusher.g)
         \/ entered' = entered /\ \E W : \E n \in Cuts(flusher.g, W) : SyncLogs(flusher.g, n)
  BY Zenon DEF FlushEnd
<1>2. HInv /\ AreLogs(gen) /\ flusher.g \in 1..Len(gen)
  BY <1>1, PInvParts, Zenon DEF HInv, Held
<1>3. ASSUME NEW W, NEW n \in Cuts(flusher.g, W), SyncLogs(flusher.g, n) PROVE Faded(gen, gen')
  <2>1. \A k \in Trunk : n[k] \in Nat
    BY CutsAreNat, Zenon
  <2> QED BY <1>2, <1>3, <2>1, SyncFades, Zenon
<1>4. ReleaseHot("flusher", flusher.g) => Faded(gen, gen') /\ entered \subseteq entered'
  BY <1>2, ReleaseFades, Zenon
<1>5. Faded(gen, gen') /\ entered \subseteq entered'
  BY <1>1, <1>3, <1>4, Zenon
<1>6. flusher'.step \notin {"evicted", "deleted"}
  BY <1>1, IdleIs
<1> QED BY <1>1, <1>5, <1>6, ActorsStay, Zenon

\* An operation or a quiet pass retires the current generation.
LEMMA RetirePInv == ASSUME PInv, HInv', Retire \/ RetireQuiet PROVE PInv'
<1>1. /\ born' = born /\ call' = call /\ view' = view /\ (gate' = gate \/ gate' = NoGate)
      /\ flusher' = flusher \/ flusher' = Idle
      /\ \E by : RetireHot(by)
  BY Zenon DEF Retire, RetireQuiet
<1>2. Faded(gen, gen') /\ entered \subseteq entered'
  BY <1>1, RetireHotFades, Zenon
<1>3. flusher' = flusher \/ flusher'.step \notin {"evicted", "deleted"}
  BY <1>1, IdleIs
<1> QED BY <1>1, <1>2, <1>3, ActorsStay, Zenon

\* Store.Close closes the current generation.
LEMMA FinishClosePInv == ASSUME PInv, HInv', FinishClose PROVE PInv'
<1>1. /\ born' = born /\ call' = call /\ view' = view /\ gate' = gate /\ flusher' = flusher
      /\ IF hot = 0 THEN gen' = gen /\ entered' = entered ELSE \E done : CloseGen(hot, done)
  BY Zenon DEF FinishClose
<1>2. HInv /\ AreLogs(gen) /\ (hot = 0 \/ hot \in 1..Len(gen))
  BY PInvParts
<1>3. hot = 0 => Faded(gen, gen') /\ entered \subseteq entered'
  BY <1>1, <1>2, SameFades, Zenon
<1>4. hot # 0 => Faded(gen, gen') /\ entered \subseteq entered'
  BY <1>1, <1>2, CloseFades, Zenon
<1> QED BY <1>1, <1>3, <1>4, ActorsStay, Zenon

-----------------------------------------------------------------------------
(* The eviction.                                                            *)

\* An eviction begins on a trunk that no append holds.
LEMMA EvictPInv == ASSUME PInv, HInv', NEW k \in Trunk, Evict(k) PROVE PInv'
<1>1. /\ born' = born /\ entered' = entered /\ call' = call /\ view' = view /\ gate' = gate
      /\ flusher' = At("evicted", k, hot) /\ ~Locked(k) /\ hot # 0
  BY Zenon DEF Evict
<1>2. HInv /\ AreLogs(gen) /\ hot \in 1..Len(gen) /\ InTrunk
  BY <1>1, PInvParts
<1>3. PICK n : n = [j \in Trunk |-> IF j = k THEN Pending(hot, k) ELSE 0]
  BY Zenon
<1>4. SyncLogs(hot, n)
  BY <1>3, Zenon DEF Evict
<1>5. Pending(hot, k) \in Nat
  <2>1. gen[hot].log[k].pend \in Seq(Nat)
    BY <1>2, Zenon DEF AreLogs, IsLog
  <2> QED BY <2>1, LenProperties, Zenon DEF Pending
<1>6. \A j \in Trunk : n[j] \in Nat
  BY <1>3, <1>5
<1>7. Faded(gen, gen')
  BY <1>2, <1>4, <1>6, SyncFades, Zenon
<1>8. flusher'.step = "evicted" /\ flusher'.k = k
  BY <1>1 DEF At
<1>9. NoCallAt(flusher'.k)
  BY <1>1, <1>8, Zenon DEF NoCallAt, Locked
<1> QED BY <1>1, <1>2, <1>7, <1>8, <1>9, LetGo, Zenon DEF InTrunk

LEMMA EvictHeadPInv == ASSUME PInv, HInv', EvictHead PROVE PInv'
<1>1. /\ born' = born /\ entered' = entered /\ call' = call /\ view' = view /\ gate' = gate
      /\ flusher.step = "evicted"
  BY Zenon DEF EvictHead
<1>2. /\ HInv /\ AreLogs(gen) /\ IsGens(gen) /\ InTrunk /\ ActorShape
      /\ flusher.g \in 1..Len(gen) /\ flusher.k \in Trunk /\ born \in Nat
  BY <1>1, PInvParts DEF HInv, Held, InTrunk
<1>3. CASE ~(hot = flusher.g /\ gen[hot].log[flusher.k].head /\ HeadHolders(hot, flusher.k) = {})
  <2>1. gen' = gen /\ flusher' = Idle
    BY <1>3, Zenon DEF EvictHead
  <2>2. flusher'.step \notin {"evicted", "deleted"}
    BY <2>1, IdleIs
  <2> QED BY <1>1, <2>1, <2>2, SameLogsPInv, Zenon
<1>4. CASE hot = flusher.g /\ gen[hot].log[flusher.k].head /\ HeadHolders(hot, flusher.k) = {}
  <2>1. PICK g, k : g = flusher.g /\ k = flusher.k
    BY Zenon
  <2>2. PICK r : r = gen[g].log[k]
    BY Zenon
  <2>3. IsLog(r)
    BY <1>2, <2>1, <2>2, Zenon DEF AreLogs
  <2>4. PICK s : s = [r EXCEPT !.head = FALSE]
    BY Zenon
  <2>5. IsLog(s) /\ s.head = FALSE /\ s.pend = r.pend /\ s.listed = r.listed
    <3>1. PICK a, p, h, l : r = [tail |-> a, pend |-> p, head |-> h, listed |-> l]
      BY <2>3, Zenon DEF IsLog
    <3>2. s = [tail |-> a, pend |-> p, head |-> FALSE, listed |-> l]
      BY <2>4, <3>1
    <3> QED BY <2>3, <3>1, <3>2 DEF IsLog
  <2>6. gen' = [gen EXCEPT ![g].log = [gen[g].log EXCEPT ![k] = s]]
    BY <1>4, <2>1, <2>2, <2>4, Zenon DEF EvictHead
  <2>7. Replaced(gen, gen', g, k, s)
    BY <1>2, <2>1, <2>5, <2>6, ReplaceLog, Zenon
  <2>8. flusher'.step = "deleted" /\ flusher'.k = k /\ flusher'.g = g
    <3>1. flusher' = [flusher EXCEPT !.step = "deleted"]
      BY <1>4, Zenon DEF EvictHead
    <3>2. PICK t, j, h, a, i : flusher = [step |-> t, k |-> j, g |-> h, at |-> a, id |-> i]
      BY <1>2, Zenon DEF ActorShape, IsActor
    <3> QED BY <2>1, <3>1, <3>2
  <2>9. Logs'
    <3>1. InTrunk'
      BY <1>1, <1>2, <2>1, <2>8, Zenon DEF InTrunk
    <3> QED BY <1>1, <1>2, <2>7, <3>1, Zenon DEF Logs, Replaced
  <2>10. ASSUME "evict" \notin entered' PROVE Listing'
    <3>1. AreKept(gen) /\ InUse /\ Evicting
      BY <1>1, <2>10, Zenon DEF PInv, Listing
    <3>2. Kept(s)
      BY <1>2, <2>1, <2>2, <2>5, <3>1, Zenon DEF AreKept, Kept
    <3>3. AreKept(gen')
      BY <2>7, <3>1, <3>2 DEF AreKept, Replaced
    <3>4. NoViewAt(g, k)
      BY <1>4, <2>1, Zenon DEF NoViewAt, HeadHolders, Holders
    <3>5. InUse'
      <4> SUFFICES ASSUME NEW v \in Views, view[v].step = "open"
                   PROVE  gen'[view[v].g].log[view[v].k].listed
        BY <1>1, Zenon DEF InUse
      <4>1. view[v].g \in 1..Len(gen) /\ view[v].k \in Trunk
        BY <1>2, Zenon DEF HInv, Held, InTrunk
      <4>2. ~(view[v].g = g /\ view[v].k = k)
        BY <3>4, Zenon DEF NoViewAt
      <4> QED BY <2>7, <3>1, <4>1, <4>2 DEF InUse, Replaced
    <3>6. NoCallAt(flusher.k)' /\ NoViewAt(flusher.g, flusher.k)'
      <4>1. NoCallAt(k)
        BY <1>1, <2>1, <3>1, Zenon DEF Evicting
      <4> QED BY <1>1, <2>8, <3>4, <4>1, Zenon DEF NoCallAt, NoViewAt
    <3>7. ~gen'[flusher'.g].log[flusher'.k].head
      BY <1>2, <2>1, <2>5, <2>7, <2>8 DEF Replaced
    <3>8. Evicting'
      BY <3>6, <3>7, Zenon DEF Evicting
    <3> QED BY <3>3, <3>5, <3>8, Zenon DEF Listing
  <2> QED BY <2>9, <2>10, Zenon DEF PInv
<1> QED BY <1>3, <1>4

\* The log that is unlisted buffers nothing any more, and neither a head nor a
\* handle uses it.
LEMMA EvictLogPInv == ASSUME PInv, HInv', EvictLog PROVE PInv'
<1>1. /\ born' = born /\ entered' = entered /\ call' = call /\ view' = view /\ gate' = gate
      /\ flusher.step = "deleted" /\ flusher' = Idle
  BY Zenon DEF EvictLog
<1>2. /\ HInv /\ AreLogs(gen) /\ IsGens(gen) /\ InTrunk
      /\ flusher.g \in 1..Len(gen) /\ flusher.k \in Trunk /\ born \in Nat
  BY <1>1, PInvParts DEF HInv, Held, InTrunk
<1>3. flusher'.step \notin {"evicted", "deleted"}
  BY <1>1, IdleIs
<1>4. CASE gen[flusher.g].closed
  <2>1. gen' = gen
    BY <1>4, Zenon DEF EvictLog
  <2> QED BY <1>1, <1>3, <2>1, SameLogsPInv, Zenon
<1>5. CASE ~gen[flusher.g].closed
  <2>1. PICK g, k : g = flusher.g /\ k = flusher.k
    BY Zenon
  <2>2. PICK r : r = gen[g].log[k]
    BY Zenon
  <2>3. IsLog(r) /\ Len(r.pend) \in Nat
    <3>1. IsLog(r)
      BY <1>2, <2>1, <2>2, Zenon DEF AreLogs
    <3> QED BY <3>1, LenProperties, Zenon DEF IsLog
  <2>4. PICK w : w = Written(r, Len(r.pend))
    BY Zenon
  <2>5. IsLog(w) /\ w.head = r.head /\ w.pend = <<>>
    BY <2>3, <2>4, WrittenShrinks, Zenon DEF Shrinks
  <2>6. PICK s : s = [w EXCEPT !.listed = FALSE]
    BY Zenon
  <2>7. IsLog(s) /\ s.head = r.head /\ s.pend = <<>>
    <3>1. PICK a, p, h, l : w = [tail |-> a, pend |-> p, head |-> h, listed |-> l]
      BY <2>5, Zenon DEF IsLog
    <3>2. s = [tail |-> a, pend |-> p, head |-> h, listed |-> FALSE]
      BY <2>6, <3>1
    <3> QED BY <2>5, <3>1, <3>2 DEF IsLog
  <2>8. gen' = [gen EXCEPT ![g].log = [gen[g].log EXCEPT ![k] = s]]
    BY <1>5, <2>1, <2>2, <2>4, <2>6, Zenon DEF EvictLog
  <2>9. Replaced(gen, gen', g, k, s)
    BY <1>2, <2>1, <2>7, <2>8, ReplaceLog, Zenon
  <2>10. Logs'
    <3>1. InTrunk'
      BY <1>1, <1>2, <1>3, Zenon DEF InTrunk
    <3> QED BY <1>1, <1>2, <2>9, <3>1, Zenon DEF Logs, Replaced
  <2>11. ASSUME "evict" \notin entered' PROVE Listing'
    <3>1. AreKept(gen) /\ InUse /\ Evicting
      BY <1>1, <2>11, Zenon DEF PInv, Listing
    <3>2. ~r.head /\ NoViewAt(g, k)
      BY <1>1, <2>1, <2>2, <3>1, Zenon DEF Evicting
    <3>3. AreKept(gen')
      BY <2>7, <2>9, <3>1, <3>2 DEF AreKept, Kept, Replaced
    <3>4. InUse'
      <4> SUFFICES ASSUME NEW v \in Views, view[v].step = "open"
                   PROVE  gen'[view[v].g].log[view[v].k].listed
        BY <1>1, Zenon DEF InUse
      <4>1. view[v].g \in 1..Len(gen) /\ view[v].k \in Trunk
        BY <1>2, Zenon DEF HInv, Held, InTrunk
      <4>2. ~(view[v].g = g /\ view[v].k = k)
        BY <3>2, Zenon DEF NoViewAt
      <4> QED BY <2>9, <3>1, <4>1, <4>2 DEF InUse, Replaced
    <3>5. Evicting'
      BY <1>3, Zenon DEF Evicting
    <3> QED BY <3>3, <3>4, <3>5, Zenon DEF Listing
  <2> QED BY <2>10, <2>11, Zenon DEF PInv
<1> QED BY <1>4, <1>5

-----------------------------------------------------------------------------
(* Steps that open a head or append.                                        *)

\* A borrow adds at most a generation without logs.
LEMMA BorrowedLogs ==
  ASSUME PInv
  PROVE  /\ AreLogs(Borrowed) /\ Len(gen) <= Len(Borrowed)
         /\ \A g \in 1..Len(gen) : Borrowed[g] = gen[g]
         /\ AreKept(gen) => AreKept(Borrowed)
<1>1. IsGens(gen) /\ AreLogs(gen) /\ Len(gen) \in Nat
  BY PInvParts DEF IsGens
<1>2. CASE hot # 0
  <2>1. Borrowed = gen /\ Len(gen) <= Len(gen)
    BY <1>1, <1>2 DEF Borrowed
  <2> QED BY <1>1, <2>1, Zenon
<1>3. CASE hot = 0
  <2> DEFINE S == {gen[g] : g \in 1..Len(gen)} \cup {NewGen}
  <2>1. gen \in Seq(S) /\ NewGen \in S
    <3>1. gen = [g \in 1..Len(gen) |-> gen[g]] /\ \A g \in 1..Len(gen) : gen[g] \in S
      BY <1>1, Zenon DEF IsGens
    <3>2. NewGen \in S
      OBVIOUS
    <3> HIDE DEF S
    <3> QED BY <1>1, <3>1, <3>2, SeqDef
  <2> HIDE DEF S
  <2>2. PICK hs : hs = Append(gen, NewGen)
    BY Zenon
  <2>3. /\ Len(hs) = Len(gen) + 1 /\ hs[Len(gen) + 1] = NewGen
        /\ \A g \in 1..Len(gen) : hs[g] = gen[g]
    BY <2>1, <2>2, AppendProperties
  <2>4. Borrowed = hs
    BY <1>3, <2>2 DEF Borrowed
  <2>5. Len(gen) <= Len(hs) /\ \A g \in 1..Len(hs) : hs[g] = NewGen \/ (g \in 1..Len(gen) /\ hs[g] = gen[g])
    BY <1>1, <2>3
  <2>6. NewGen.log = [k \in Trunk |-> NewGen.log[k]] /\ \A k \in Trunk : NewGen.log[k] = NoLog
    BY DEF NewGen
  <2>7. AreLogs(hs)
    <3> SUFFICES ASSUME NEW g \in 1..Len(hs)
                 PROVE  /\ hs[g].log = [k \in Trunk |-> hs[g].log[k]]
                        /\ \A k \in Trunk : IsLog(hs[g].log[k])
      BY Zenon DEF AreLogs
    <3>1. CASE hs[g] = NewGen
      BY <2>6, <3>1, NoLogIs, Zenon
    <3>2. CASE g \in 1..Len(gen) /\ hs[g] = gen[g]
      BY <1>1, <3>2, Zenon DEF AreLogs
    <3> QED BY <2>5, <3>1, <3>2
  <2>8. AreKept(gen) => AreKept(hs)
    BY <2>5, <2>6, NoLogIs, Zenon DEF AreKept
  <2> QED BY <2>3, <2>4, <2>5, <2>7, <2>8, Zenon
<1> QED BY <1>2, <1>3

\* The head opened in it.
LEMMA OpenedLogs ==
  ASSUME PInv, NEW k \in Trunk, gen' = Opening(Borrowed, BorrowedGen, k)
  PROVE  /\ Grown(gen, gen', {k}) /\ (AreKept(gen) => AreKept(gen'))
         /\ gen'[BorrowedGen].log[k].head
<1>1. PICK gs, b : gs = Borrowed /\ b = BorrowedGen
  OBVIOUS
<1>2. IsGens(gs) /\ b \in 1..Len(gs) /\ HInv
  BY <1>1, PInvParts, BorrowUpdate, Zenon
<1>3. /\ AreLogs(gs) /\ Len(gen) <= Len(gs) /\ \A g \in 1..Len(gen) : gs[g] = gen[g]
      /\ AreKept(gen) => AreKept(gs)
  BY <1>1, BorrowedLogs, Zenon
<1>4. PICK r, s : r = gs[b].log[k] /\ s = OpenLog(r, k)
  BY Zenon
<1>5. IsLog(r)
  BY <1>2, <1>3, <1>4, Zenon DEF AreLogs
<1>6. IsLog(s) /\ s.head /\ (Kept(r) => s.listed) /\ (r.listed => s.listed)
  BY <1>4, <1>5, OpenLogIs, Zenon
<1>7. gen' = [gs EXCEPT ![b].log = [gs[b].log EXCEPT ![k] = s]]
  BY <1>1, <1>4, Zenon DEF Opening
<1>8. Replaced(gs, gen', b, k, s)
  BY <1>2, <1>3, <1>6, <1>7, ReplaceLog, Zenon
<1>9. gen'[b].log[k] = s
  BY <1>2, <1>8, Zenon DEF Replaced
<1>10. ASSUME AreKept(gen) PROVE AreKept(gen')
  <2>1. Kept(s)
    BY <1>2, <1>3, <1>4, <1>6, <1>10, Zenon DEF AreKept, Kept
  <2> QED BY <1>3, <1>8, <1>10, <2>1 DEF AreKept, Replaced
<1>11. \A h \in 1..Len(gen) : h \in 1..Len(gs)
  <2>1. Len(gen) \in Nat /\ Len(gs) \in Nat
    BY <1>2, PInvParts, Zenon DEF IsGens
  <2> QED BY <1>3, <2>1
<1>12. ASSUME NEW h \in 1..Len(gen), NEW j \in Trunk
       PROVE  /\ gen[h].log[j].listed => gen'[h].log[j].listed
              /\ j \notin {k} => gen'[h].log[j].head = gen[h].log[j].head
  BY <1>3, <1>4, <1>6, <1>8, <1>11 DEF Replaced
<1>13. Grown(gen, gen', {k})
  BY <1>3, <1>8, <1>12 DEF Grown, Replaced
<1> QED BY <1>1, <1>6, <1>9, <1>10, <1>13, Zenon

LEMMA BeginAppendPInv ==
  ASSUME PInv, HInv', NEW c \in Calls, NEW k \in Trunk, BeginAppend(c, k) PROVE PInv'
<1>1. /\ gen' = Borrowed /\ view' = view /\ flusher' = flusher /\ gate' = gate /\ born' = born
      /\ entered' = entered /\ ~Locked(k) /\ \E b : call' = [call EXCEPT ![c] = At("borrowed", k, b)]
  BY Zenon DEF BeginAppend
<1>2. InTrunk /\ born \in Nat /\ call = [d \in Calls |-> call[d]]
  BY PInvParts, Zenon DEF ActorShape
<1>3. Grown(gen, gen', {}) /\ (Listing => AreKept(gen'))
  BY <1>1, BorrowedLogs, Zenon DEF Grown, Listing
<1>4. \A d \in Calls : call'[d] = call[d] \/ \E b : call'[d] = At("borrowed", k, b)
  BY <1>1, <1>2, Zenon
<1>5. \A b : At("borrowed", k, b).k = k
  BY DEF At
<1>6. \A d \in Calls : call'[d] = call[d] \/ call'[d].k = k
  BY <1>4, <1>5, Zenon
<1>7. \A d \in Calls : call'[d].step \in {"borrowed", "appended"} =>
        \/ call[d].step \in {"borrowed", "appended"} /\ call'[d].k = call[d].k
        \/ call'[d].k \in Trunk /\ ~Locked(call'[d].k)
  BY <1>1, <1>6, Zenon
<1> QED BY <1>1, <1>2, <1>3, <1>7, TakeUp, Zenon DEF InTrunk

\* OpenView, FlushHead and Create.
LEMMA OpensPInv ==
  ASSUME PInv, HInv', NEW k \in Trunk, gen' = Opening(Borrowed, BorrowedGen, k),
         call' = call, born' = born, entered \subseteq entered',
         \A v \in Views : view'[v] = view[v] \/ (view'[v].k = k /\ view'[v].g = BorrowedGen),
         flusher'.step \in {"evicted", "deleted"} => flusher' = flusher,
         "evict" \notin entered' /\ flusher.step = "deleted" => flusher.k # k,
         gate' = gate \/ gate' = NoGate
  PROVE  PInv'
<1>1. InTrunk /\ born \in Nat
  BY PInvParts
<1>2. /\ Grown(gen, gen', {k}) /\ (Listing => AreKept(gen')) /\ gen'[BorrowedGen].log[k].head
  BY OpenedLogs, Zenon DEF Listing
<1>3. \A v \in Views : view'[v].step = "open" =>
        \/ view[v].step = "open" /\ view'[v].g = view[v].g /\ view'[v].k = view[v].k
        \/ view'[v].k \in Trunk \cap {k} /\ gen'[view'[v].g].log[view'[v].k].head
  BY <1>2, Zenon
<1>4. /\ gate' = [op |-> gate'.op, step |-> gate'.step, k |-> gate'.k]
      /\ gate'.op = "create" => gate'.k \in Trunk
  <2>1. /\ NoGate = [op |-> NoGate.op, step |-> NoGate.step, k |-> NoGate.k]
        /\ NoGate.op # "create"
    BY DEF NoGate
  <2> QED BY <1>1, <2>1, Zenon DEF InTrunk
<1>5. "evict" \notin entered' /\ Listing /\ flusher.step = "deleted" => flusher.k \notin {k}
  BY Zenon
<1> QED BY <1>1, <1>2, <1>3, <1>4, <1>5, TakeUp, Zenon

\* A handle opens only on a trunk that is not locked.
LEMMA OpenViewPInv ==
  ASSUME PInv, HInv', NEW v \in Views, NEW k \in Trunk, OpenView(v, k) PROVE PInv'
<1>1. /\ gen' = Opening(Borrowed, BorrowedGen, k) /\ call' = call /\ flusher' = flusher
      /\ gate' = gate /\ born' = born /\ entered' = entered /\ ~Locked(k)
      /\ view' = [view EXCEPT ![v] = At("open", k, BorrowedGen)]
  BY Zenon DEF OpenView
<1>2. view = [w \in Views |-> view[w]]
  BY PInvParts, Zenon DEF ActorShape
<1>3. At("open", k, BorrowedGen).k = k /\ At("open", k, BorrowedGen).g = BorrowedGen
  BY DEF At
<1>4. \A w \in Views : view'[w] = view[w] \/ view'[w] = At("open", k, BorrowedGen)
  BY <1>1, <1>2, Zenon
<1>5. flusher.step = "deleted" => flusher.k # k
  BY <1>1, Zenon DEF Locked
<1> QED BY <1>1, <1>3, <1>4, <1>5, OpensPInv, Zenon

\* The flusher opens only the head of a trunk that is not locked.
LEMMA FlushHeadPInv == ASSUME PInv, HInv', NEW k \in Trunk, FlushHead(k) PROVE PInv'
<1>1. /\ gen' = Opening(Borrowed, BorrowedGen, k) /\ call' = call /\ view' = view
      /\ gate' = gate /\ born' = born /\ entered' = entered /\ ~Locked(k)
      /\ \E b : flusher' = At("head", k, b)
  BY Zenon DEF FlushHead
<1>2. flusher'.step = "head"
  BY <1>1 DEF At
<1>3. flusher.step = "deleted" => flusher.k # k
  BY <1>1, Zenon DEF Locked
<1> QED BY <1>1, <1>2, <1>3, OpensPInv

\* A creator looks at no lock of the trunk: this is the window "evict".
LEMMA CreatePInv == ASSUME PInv, HInv', Create PROVE PInv'
<1>1. /\ gen' = Opening(Borrowed, BorrowedGen, gate.k) /\ call' = call /\ view' = view
      /\ gate' = NoGate /\ born' = born /\ flusher' = flusher /\ gate.op = "create"
      /\ entered' = Entering("evict", InEviction(gate.k))
  BY Zenon DEF Create
<1>2. gate.k \in Trunk
  BY <1>1, PInvParts, Zenon DEF InTrunk
<1>3. entered \subseteq entered' /\ ("evict" \notin entered' => ~InEviction(gate.k))
  BY <1>1, Zenon DEF Entering
<1>4. "evict" \notin entered' /\ flusher.step = "deleted" => flusher.k # gate.k
  BY <1>3, Zenon DEF InEviction
<1> QED BY <1>1, <1>2, <1>3, <1>4, OpensPInv, Zenon

\* An append opens its log's head, which lists the log, before it writes.
LEMMA AppendRecordPInv == ASSUME PInv, HInv', NEW c \in Calls, AppendRecord(c) PROVE PInv'
<1>1. /\ view' = view /\ flusher' = flusher /\ gate' = gate /\ born' = born + 1 /\ entered' = entered
      /\ call[c].step = "borrowed"
  BY Zenon DEF AppendRecord
<1>2. PICK g, k : g = call[c].g /\ k = call[c].k
  BY Zenon
<1>3. /\ InTrunk /\ born \in Nat /\ call = [d \in Calls |-> call[d]] /\ AreLogs(gen) /\ IsGens(gen)
      /\ g \in 1..Len(gen) /\ k \in Trunk
  BY <1>1, <1>2, PInvParts DEF ActorShape, HInv, Held, InTrunk
<1>4. PICK r, o, s : /\ r = gen[g].log[k] /\ o = OpenLog(r, k)
                     /\ s = [o EXCEPT !.pend = Append(@, born + 1)]
  BY Zenon
<1>5. born + 1 \in Nat /\ IsLog(r)
  <2>1. born + 1 \in Nat
    BY <1>3
  <2> QED BY <1>3, <1>4, <2>1, Zenon DEF AreLogs
<1>6. IsLog(o) /\ o.head /\ (Kept(r) => o.listed) /\ (r.listed => o.listed)
  BY <1>4, <1>5, OpenLogIs, Zenon
<1>7. IsLog(s) /\ s.listed = o.listed
  <2>1. s = [o EXCEPT !.pend = Append(@, born + 1)]
    BY <1>4
  <2> QED BY <2>1, <1>5, <1>6, AppendedIs, Zenon
<1>8. gen' = [gen EXCEPT ![g].log = [gen[g].log EXCEPT ![k] = s]]
  BY <1>2, <1>4, Zenon DEF AppendRecord
<1>9. Replaced(gen, gen', g, k, s)
  BY <1>3, <1>7, <1>8, ReplaceLog, Zenon
<1>10. Grown(gen, gen', {k})
  <2>1. Len(gen) <= Len(gen') /\ AreLogs(gen')
    <3>1. Len(gen) \in Nat /\ Len(gen') = Len(gen) /\ AreLogs(gen')
      BY <1>3, <1>9, Zenon DEF IsGens, Replaced
    <3> QED BY <3>1
  <2>2. ASSUME NEW h \in 1..Len(gen), NEW j \in Trunk
        PROVE  /\ gen[h].log[j].listed => gen'[h].log[j].listed
               /\ j \notin {k} => gen'[h].log[j].head = gen[h].log[j].head
    BY <1>4, <1>6, <1>7, <1>9 DEF Replaced
  <2> QED BY <2>1, <2>2, Zenon DEF Grown
<1>11. ASSUME Listing PROVE AreKept(gen')
  <2>1. Kept(s)
    BY <1>3, <1>4, <1>6, <1>7, <1>11, Zenon DEF Listing, AreKept, Kept
  <2> QED BY <1>9, <1>11, <2>1 DEF Listing, AreKept, Replaced
<1>12. PICK i, a : call' = [call EXCEPT ![c] = [step |-> "appended", k |-> k, g |-> g, id |-> i, at |-> a]]
  BY <1>2, Zenon DEF AppendRecord
<1>13. \A d \in Calls : call'[d].step \in {"borrowed", "appended"} =>
         call[d].step \in {"borrowed", "appended"} /\ call'[d].k = call[d].k
  BY <1>1, <1>2, <1>3, <1>12
<1>14. Listing /\ flusher.step = "deleted" => flusher.k \notin {k}
  BY <1>1, <1>2, Zenon DEF Listing, Evicting, NoCallAt
<1> QED BY <1>1, <1>3, <1>5, <1>10, <1>11, <1>13, <1>14, TakeUp, Zenon DEF InTrunk

\* A handle appends to a log that is still listed.
LEMMA ViewAppendPInv == ASSUME PInv, HInv', NEW v \in Views, ViewAppend(v) PROVE PInv'
<1>1. /\ call' = call /\ view' = view /\ flusher' = flusher /\ gate' = gate /\ born' = born + 1
      /\ view[v].step = "open" /\ entered \subseteq entered'
  BY Zenon DEF ViewAppend, Entering
<1>2. PICK g, k : g = view[v].g /\ k = view[v].k
  BY Zenon
<1>3. InTrunk /\ born \in Nat /\ AreLogs(gen) /\ IsGens(gen) /\ g \in 1..Len(gen) /\ k \in Trunk
  BY <1>1, <1>2, PInvParts DEF HInv, Held, InTrunk
<1>4. PICK r, s : r = gen[g].log[k] /\ s = [r EXCEPT !.pend = Append(@, born + 1)]
  BY Zenon
<1>5. born + 1 \in Nat /\ IsLog(r)
  <2>1. born + 1 \in Nat
    BY <1>3
  <2> QED BY <1>3, <1>4, <2>1, Zenon DEF AreLogs
<1>6. IsLog(s) /\ s.head = r.head /\ s.listed = r.listed
  BY <1>4, <1>5, AppendedIs, Zenon
<1>7. gen' = [gen EXCEPT ![g].log = [gen[g].log EXCEPT ![k] = s]]
  BY <1>2, <1>4, Zenon DEF ViewAppend
<1>8. Replaced(gen, gen', g, k, s)
  BY <1>3, <1>6, <1>7, ReplaceLog, Zenon
<1>9. Grown(gen, gen', {})
  <2>1. Len(gen) <= Len(gen') /\ AreLogs(gen')
    <3>1. Len(gen) \in Nat /\ Len(gen') = Len(gen) /\ AreLogs(gen')
      BY <1>3, <1>8, Zenon DEF IsGens, Replaced
    <3> QED BY <3>1
  <2>2. ASSUME NEW h \in 1..Len(gen), NEW j \in Trunk
        PROVE  /\ gen[h].log[j].listed => gen'[h].log[j].listed
               /\ gen'[h].log[j].head = gen[h].log[j].head
    BY <1>4, <1>6, <1>8 DEF Replaced
  <2> QED BY <2>1, <2>2, Zenon DEF Grown
<1>10. ASSUME Listing PROVE AreKept(gen')
  <2>1. s.listed
    BY <1>1, <1>2, <1>4, <1>6, <1>10, Zenon DEF Listing, InUse
  <2> QED BY <1>8, <1>10, <2>1 DEF Listing, AreKept, Kept, Replaced
<1> QED BY <1>1, <1>3, <1>5, <1>9, <1>10, TakeUp, Zenon DEF InTrunk

-----------------------------------------------------------------------------

\* There is no generation at first.
LEMMA InitPInv == Init => PInv
<1> SUFFICES ASSUME Init PROVE PInv
  OBVIOUS
<1>1. gen = <<>> /\ Len(gen) = 0 /\ 1..0 = {} /\ born = 0
  BY DEF Init
<1>2. AreLogs(gen) /\ AreKept(gen)
  BY <1>1, Zenon DEF AreLogs, AreKept
<1>3. /\ \A c \in Calls : call[c].step = "idle"
      /\ \A v \in Views : view[v].step = "idle"
      /\ flusher.step = "idle"
  BY IdleIs DEF Init
<1>4. gate = [op |-> gate.op, step |-> gate.step, k |-> gate.k] /\ gate.op # "create"
  <2>1. gate = NoGate
    BY Zenon DEF Init
  <2> QED BY <2>1 DEF NoGate
<1>5. InTrunk /\ InUse /\ Evicting
  BY <1>3, <1>4 DEF InTrunk, InUse, Evicting
<1> QED BY <1>1, <1>2, <1>5, InitHInv DEF PInv, Logs, Listing

\* Every step of the store keeps the inductive invariant.
LEMMA NextPInv == PInv /\ [Next]_vars => PInv'
<1> SUFFICES ASSUME PInv, [Next]_vars PROVE PInv'
  OBVIOUS
<1>1. HInv'
  BY NextHInv, Zenon DEF PInv
<1>2. ASSUME NEW c \in Calls, NEW k \in Trunk, BeginAppend(c, k) PROVE PInv'
  BY <1>1, <1>2, BeginAppendPInv, Zenon
<1>3. ASSUME NEW c \in Calls, Append1(c) PROVE PInv'
  BY <1>1, <1>3, AppendRecordPInv, ReleasePInv, ReturnPInv, Zenon DEF Append1
<1>4. ASSUME NEW v \in Views, NEW k \in Trunk, OpenView(v, k) PROVE PInv'
  BY <1>1, <1>4, OpenViewPInv, Zenon
<1>5. ASSUME NEW v \in Views, ViewAppend(v) \/ ViewSync(v) \/ CloseView(v) PROVE PInv'
  BY <1>1, <1>5, ViewAppendPInv, ViewSyncPInv, CloseViewPInv, Zenon
<1>6. ASSUME NEW op, NEW k \in Trunk, BeginGate(op, k) PROVE PInv'
  BY <1>1, <1>6, BeginGatePInv, Zenon
<1>7. CASE Gate1
  <2>1. CASE EnsureNoOpenHeads
    <3>1. /\ UNCHANGED <<gen, call, view, born, entered, flusher>>
          /\ gate' = NoGate \/ gate' = [gate EXCEPT !.step = "synced"]
      BY <2>1, Zenon DEF EnsureNoOpenHeads
    <3> QED BY <1>1, <3>1, SameLogsPInv
  <2> QED BY <1>1, <1>7, <2>1, CreatePInv, RetirePInv, Zenon DEF Gate1
<1>8. CASE Flush1
  BY <1>1, <1>8, FlushEndPInv, EvictHeadPInv, EvictLogPInv, RetirePInv, Zenon DEF Flush1
<1>9. ASSUME NEW k \in Trunk, FlushHead(k) \/ Evict(k) PROVE PInv'
  BY <1>1, <1>9, FlushHeadPInv, EvictPInv, Zenon
<1>10. CASE FlushStray \/ Quiet
  <2>1. UNCHANGED <<gen, call, view, born, entered, gate>> /\ flusher'.step \notin {"evicted", "deleted"}
    BY <1>10 DEF FlushStray, Quiet, At
  <2> QED BY <1>1, <2>1, SameLogsPInv
<1>11. CASE BeginClose
  BY <1>1, <1>11, BeginClosePInv, Zenon
<1>12. CASE FinishClose
  BY <1>1, <1>12, FinishClosePInv, Zenon
<1>13. CASE Refused \/ UNCHANGED vars
  <2>1. UNCHANGED <<gen, call, view, born, entered, gate, flusher>>
    BY <1>13 DEF Refused, vars
  <2> QED BY <1>1, <2>1, SameLogsPInv
<1> QED
  BY <1>2, <1>3, <1>4, <1>5, <1>6, <1>7, <1>8, <1>9, <1>10, <1>11, <1>12, <1>13 DEF Next

\* Unless a creator opens a head between an eviction's two locks on its log, a
\* log that buffers a record is one its store syncs when it closes, for any
\* number of goroutines, handles, trunks, generations and records: evictLineage
\* and log.Store.Evict unlist no log that takes appends.
THEOREM PendingIsListedAlways == Spec => []PendingIsListed
<1>1. PInv => PendingIsListed
  <2> SUFFICES ASSUME PInv, "evict" \notin entered,
                      NEW g \in 1..Len(gen), NEW k \in Trunk, Pending(g, k) > 0
               PROVE  gen[g].log[k].listed
    BY Zenon DEF PendingIsListed, Gens
  <2>1. Kept(gen[g].log[k])
    BY Zenon DEF PInv, Listing, AreKept
  <2>2. gen[g].log[k].pend # <<>>
    BY DEF Pending
  <2> QED BY <2>1, <2>2, Zenon DEF Kept
<1> QED BY InitPInv, NextPInv, <1>1, PTL DEF Spec
=============================================================================
