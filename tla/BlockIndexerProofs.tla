------------------------ MODULE BlockIndexerProofs ------------------------
(***************************************************************************)
(* What TLAPS proves of the indexing loop: its types; that blocks are      *)
(* stored in order whatever goroutines, crashes and calls of reindex do to *)
(* MaxHeight, if no call is ahead of it; and that between rounds pins are  *)
(* where the chain has them and transfers under the heights of their       *)
(* blocks.                                                                 *)
(***************************************************************************)
EXTENDS BlockIndexer, SetLemmas

----------------------------------------------------------------------------
(* The inductive invariant. *)

Busy(w) == worker[w].pc # "idle"

WorkersOK ==
  \A w \in Workers :
    /\ Busy(w) => worker[w].h \in Heights
    /\ At(w, "move") => worker[w].left \subseteq DOMAIN chain.spent
                        /\ worker[w].found \subseteq DOMAIN chain.spent

LoopOK == loop.spawn => loop.to > Start

(* The pins of every block of chain c up to n are in s. *)
FullIn(c, s, n) == \A q \in Pins : c.pin[q].h \in (Start + 1)..n => q \in s

Full(n) == FullIn(chain, Stored, n)

(* Blocks are stored whole. *)
WholeBlocks == \A p \in Stored : Full(chain.pin[p].h)

(* A goroutine is at most one block ahead of what is stored; those of a    *)
(* round only repeat.                                                      *)
NotAhead ==
  \A w \in Workers :
    /\ Busy(w) => Full(worker[w].h - 1)
    /\ worker[w].stored => Full(worker[w].h)
    /\ At(w, "begin") /\ w # 0 => Full(worker[w].h)

(* MaxHeight is a block stored or the one the main loop is at. *)
MaxHeightOK == Full(maxHeight) \/ (Busy(0) /\ maxHeight = worker[0].h)

LoopInOrder ==
  /\ ~Busy(0) => Full(loop.next - 1)
  /\ Busy(0) => worker[0].h = loop.next - 1

OrderInv == WholeBlocks /\ NotAhead /\ MaxHeightOK /\ LoopInOrder

TInv == TypeOK /\ WorkersOK /\ LoopOK

(* The loop, and what is stored, are within the node's blocks; a goroutine *)
(* too, once it has its block, unless somebody called it for a later one.  *)
ReachInv ==
  /\ loop.to <= best /\ maxHeight <= best
  /\ \A p \in Stored : chain.pin[p].h <= best
  /\ \A w \in Workers : Busy(w) => worker[w].h <= best \/ (At(w, "fetch") /\ ahead)
  /\ ahead => chain.when.calls

IInv == TInv /\ ReachInv /\ (~chain.when.fails /\ ~ahead => OrderInv)

(* Where a pin was created. *)
First(r) == chain.pin[r].out

----------------------------------------------------------------------------
(* Lemmas. *)

(* The goroutines of the main loop and of its rounds are among the workers. *)
LEMMA MainWorker == 0 \in Workers /\ Workers \subseteq Nat
BY ConstantsAssumption DEF Workers

LEMMA IdleTyped == Idle \in Local /\ Idle.pc = "idle" /\ Idle.h = 0 /\ ~Idle.stored
BY ConstantsAssumption DEF Idle, Local

(* A worker that starts at a stage, for a height. *)
LEMMA WorkerAt ==
  ASSUME NEW stage \in {"begin", "fetch"}, NEW h \in Heights
  PROVE  LET rec == [Idle EXCEPT !.pc = stage, !.h = h]
         IN  rec \in Local /\ rec.pc = stage /\ rec.h = h /\ ~rec.stored
<1>1. h \in 0..Tip
  BY ConstantsAssumption DEF Heights
<1> QED  BY <1>1, IdleTyped DEF Local

(* The round's range when it starts from a height up to its end. *)
LEMMA RoundTyped ==
  ASSUME NEW from \in 0..Tip, NEW to \in Start..Tip, from <= to
  PROVE  /\ Round(from, to) \in [to: Start..Tip, next: 1..(Tip + 1), spawn: BOOLEAN]
         /\ Round(from, to).to = to /\ Round(from, to).next = from + 1
         /\ Round(from, to).spawn = (to - from = 1)
BY ConstantsAssumption DEF Round

(* HighestStored is the height of a stored pin, or 0 when there is none. *)
LEMMA HighestStoredIs ==
  ASSUME TypeOK
  PROVE  /\ HighestStored \in 0..Tip
         /\ HighestStored = 0 \/ \E p \in Stored : chain.pin[p].h = HighestStored
<1> DEFINE S == {0} \cup {chain.pin[p].h : p \in Stored}
<1>1. \A p \in Stored : chain.pin[p].h \in 1..Tip
  BY DEF TypeOK, IsChain, Heights
<1>2. Tip \in Nat
  BY ConstantsAssumption
<1>3. S \subseteq 0..Tip
  BY <1>1, <1>2
<1>4. S \in SUBSET Nat /\ S # {} /\ \A n \in S : n <= Tip
  BY <1>2, <1>3
<1>5. Max(S) \in S
  <2> HIDE DEF S
  <2> QED  BY <1>2, <1>4, MaxOfBounded
<1>6. HighestStored = Max(S)
  BY DEF HighestStored
<1> QED  BY <1>3, <1>5, <1>6

(* The larger of two naturals. *)
LEMMA MaxOfTwo ==
  ASSUME NEW a \in Nat, NEW b \in Nat
  PROVE  Max({a, b}) \in {a, b} /\ Max({a, b}) >= a /\ Max({a, b}) >= b
<1> DEFINE S == {a, b}
<1>1. S \in SUBSET Nat /\ S # {} /\ \A n \in S : n <= a + b
  OBVIOUS
<1>2. a + b \in Nat
  OBVIOUS
<1>3. Max(S) \in S /\ \A m \in S : m <= Max(S)
  <2> HIDE DEF S
  <2> QED  BY <1>1, <1>2, MaxOfBounded
<1>4. a \in S /\ b \in S
  OBVIOUS
<1> QED  BY <1>1, <1>3, <1>4

(* Fewer blocks are stored when more are, and more pins when there are more. *)
LEMMA FullBelow ==
  ASSUME NEW c, IsChain(c), NEW s, NEW n \in Int, FullIn(c, s, n)
  PROVE  /\ \A m \in Int : m <= n => FullIn(c, s, m)
         /\ \A t : s \subseteq t => FullIn(c, t, n)
<1>1. \A q \in Pins : c.pin[q].h \in Int
  BY ConstantsAssumption DEF IsChain, Heights
<1> QED  BY <1>1, ConstantsAssumption DEF FullIn

(* Nothing of the initial height or below has to be stored. *)
LEMMA FullAtStart ==
  ASSUME NEW c, IsChain(c), NEW s, NEW n \in Int, n <= Start
  PROVE  FullIn(c, s, n)
BY ConstantsAssumption DEF FullIn, IsChain, Heights

----------------------------------------------------------------------------
(* The types: one lemma per action. *)

LEMMA InitTInv == Init => TInv
<1> SUFFICES ASSUME Init PROVE TInv
  OBVIOUS
<1> USE ConstantsAssumption
<1>1. IsChain(chain)
  BY DEF Init
<1>2. Stored = {}
  BY DEF Init, Stored
<1>3. loop \in [to: Start..Tip, next: 1..(Tip + 1), spawn: BOOLEAN] /\ ~loop.spawn
  BY RoundTyped DEF Init
<1>4. worker \in [Workers -> Local] /\ \A w \in Workers : worker[w] = Idle
  BY IdleTyped DEF Init
<1>5. ahead \in BOOLEAN
  BY DEF Init
<1>6. /\ best \in Start..Tip /\ maxHeight \in 0..Tip /\ block \in 0..Tip
      /\ faults \in 0..MaxFaults /\ crashes \in 0..MaxCrashes /\ reindexed \in 0..MaxReindex
  BY DEF Init
<1>7. at \in [Stored -> Points] /\ DOMAIN history = {} /\ history \in [DOMAIN history -> Heights]
  BY DEF Init, Stored
<1>8. TypeOK
  BY <1>1, <1>2, <1>3, <1>4, <1>5, <1>6, <1>7 DEF TypeOK
<1> QED  BY <1>3, <1>4, <1>8, IdleTyped DEF TInv, WorkersOK, LoopOK, Busy, At

(* What is left to show of a step that only changes one worker's record. *)
LEMMA OneWorker ==
  ASSUME TypeOK, WorkersOK, NEW w \in Workers, NEW rec \in Local, chain' = chain,
         worker' = [worker EXCEPT ![w] = rec],
         rec.pc # "idle" => rec.h \in Heights,
         rec.pc = "move" => rec.left \subseteq DOMAIN chain.spent
                            /\ rec.found \subseteq DOMAIN chain.spent
  PROVE  worker' \in [Workers -> Local] /\ WorkersOK'
<1>1. worker' \in [Workers -> Local]
  BY DEF TypeOK
<1>2. \A v \in Workers : worker'[v] = IF v = w THEN rec ELSE worker[v]
  BY DEF TypeOK
<1> QED  BY <1>1, <1>2 DEF WorkersOK, Busy, At

LEMMA SyncTInv ==
  ASSUME TInv, Sync, chain' = chain
  PROVE  TInv'
<1> USE ConstantsAssumption DEF TInv
<1>1. maxHeight' \in 0..Tip
  BY HighestStoredIs DEF Sync, TypeOK
<1>2. /\ loop' \in [to: Start..Tip, next: 1..(Tip + 1), spawn: BOOLEAN]
      /\ loop'.spawn => loop'.to > Start
  <2>1. best \in Start..Tip /\ Start \in Nat /\ Tip \in Nat
    BY DEF TypeOK
  <2>2. CASE maxHeight' >= best
    <3>1. loop' = Round(best, best)
      BY <2>2 DEF Sync
    <3>2. best \in 0..Tip /\ best <= best /\ ~(best - best = 1)
      BY <2>1
    <3> QED  BY <2>1, <3>1, <3>2, RoundTyped
  <2>3. CASE ~(maxHeight' >= best)
    <3> DEFINE from == Max({maxHeight', Start})
    <3>1. loop' = Round(from, best)
      BY <2>3 DEF Sync
    <3>2. from \in {maxHeight', Start} /\ from >= Start
      BY <1>1, <2>1, MaxOfTwo
    <3>3. from \in 0..Tip /\ from <= best /\ (best - from = 1 => best > Start)
      <4> HIDE DEF from
      <4> QED  BY <1>1, <2>1, <2>3, <3>2
    <3> HIDE DEF from
    <3> QED  BY <2>1, <3>1, <3>3, RoundTyped
  <2> QED  BY <2>2, <2>3
<1> QED  BY <1>1, <1>2 DEF Sync, TypeOK, WorkersOK, LoopOK, Busy, At, Stored, counters

LEMMA TakeNextTInv ==
  ASSUME TInv, TakeNext, chain' = chain
  PROVE  TInv'
<1> USE ConstantsAssumption DEF TInv
<1> DEFINE rec == [Idle EXCEPT !.pc = "begin", !.h = loop.next]
<1>1. loop.next \in Heights
  BY DEF TakeNext, TypeOK, Heights
<1>2. rec \in Local /\ rec.pc = "begin" /\ rec.h = loop.next
  BY <1>1, WorkerAt
<1>3. 0 \in Workers /\ worker' = [worker EXCEPT ![0] = rec]
  BY MainWorker DEF TakeNext
<1>4. worker' \in [Workers -> Local] /\ WorkersOK'
  <2> HIDE DEF rec
  <2> QED  BY <1>1, <1>2, <1>3, OneWorker
<1>5. loop' = [loop EXCEPT !.next = @ + 1] /\ loop.next \in 1..Tip
  BY <1>1 DEF TakeNext, Heights
<1>6. loop' \in [to: Start..Tip, next: 1..(Tip + 1), spawn: BOOLEAN] /\ LoopOK'
  BY <1>5 DEF TypeOK, LoopOK
<1> QED  BY <1>4, <1>6 DEF TakeNext, TypeOK, Stored, counters

LEMMA SpawnTInv ==
  ASSUME TInv, Spawn, chain' = chain
  PROVE  TInv'
<1> USE ConstantsAssumption DEF TInv
<1> DEFINE rec(w) == IF w = 0 THEN Idle ELSE [Idle EXCEPT !.pc = "begin", !.h = loop.to - w]
<1>1. ASSUME NEW w \in Workers
      PROVE  /\ rec(w) \in Local /\ rec(w).pc # "move"
             /\ rec(w).pc # "idle" => rec(w).h \in Heights
  <2>1. CASE w = 0
    BY <2>1, IdleTyped
  <2>2. CASE w # 0
    <3>1. loop.to \in Start..Tip /\ loop.to > Start
      BY DEF Spawn, LoopOK, TypeOK
    <3>2. w \in 1..Back
      BY <2>2 DEF Workers
    <3>3. loop.to - w \in Heights
      BY <3>1, <3>2 DEF Heights
    <3> DEFINE begun == [Idle EXCEPT !.pc = "begin", !.h = loop.to - w]
    <3>4. begun \in Local /\ begun.pc = "begin" /\ begun.h = loop.to - w
      BY <3>3, WorkerAt
    <3>5. rec(w) = begun
      BY <2>2
    <3> HIDE DEF begun, rec
    <3> QED  BY <3>3, <3>4, <3>5
  <2> QED  BY <2>1, <2>2
<1>2. worker' = [w \in Workers |-> rec(w)]
  BY DEF Spawn
<1>3. worker' \in [Workers -> Local] /\ \A w \in Workers : worker'[w] = rec(w)
  <2> HIDE DEF rec
  <2> QED  BY <1>1, <1>2
<1>4. WorkersOK'
  <2> HIDE DEF rec
  <2> QED  BY <1>1, <1>3 DEF WorkersOK, Busy, At
<1>5. loop' \in [to: Start..Tip, next: 1..(Tip + 1), spawn: BOOLEAN] /\ LoopOK'
  BY DEF Spawn, TypeOK, LoopOK
<1> HIDE DEF rec
<1> QED  BY <1>3, <1>4, <1>5 DEF Spawn, TypeOK, Stored, counters

LEMMA ReindexTInv ==
  ASSUME TInv, NEW w \in Workers, NEW h \in Heights, Reindex(w, h), chain' = chain
  PROVE  TInv'
<1> USE ConstantsAssumption DEF TInv
<1> DEFINE rec == [Idle EXCEPT !.pc = "fetch", !.h = h]
<1>1. rec \in Local /\ rec.pc = "fetch" /\ rec.h = h
  BY WorkerAt
<1>2. worker' = [worker EXCEPT ![w] = rec]
  BY Zenon DEF Reindex
<1>3. worker' \in [Workers -> Local] /\ WorkersOK'
  <2> HIDE DEF rec
  <2> QED  BY <1>1, <1>2, OneWorker
<1>4. reindexed' \in 0..MaxReindex /\ ahead' \in BOOLEAN
  BY DEF Reindex, TypeOK
<1> QED  BY <1>3, <1>4 DEF Reindex, TypeOK, LoopOK, Stored

LEMMA BeginTInv ==
  ASSUME TInv, NEW w \in Workers, Begin(w), chain' = chain
  PROVE  TInv'
<1> USE ConstantsAssumption DEF TInv
<1> DEFINE rec == [worker[w] EXCEPT !.pc = "fetch"]
<1>1. worker[w] \in Local /\ worker[w].h \in Heights
  BY DEF Begin, TypeOK, WorkersOK, Busy, At
<1>2. rec \in Local /\ rec.pc = "fetch" /\ rec.h \in Heights
  BY <1>1 DEF Local
<1>3. worker' = [worker EXCEPT ![w] = rec]
  BY DEF Begin
<1>4. worker' \in [Workers -> Local] /\ WorkersOK'
  <2> HIDE DEF rec
  <2> QED  BY <1>2, <1>3, OneWorker
<1> QED  BY <1>1, <1>4 DEF Begin, TypeOK, LoopOK, Stored, counters, Heights

LEMMA FetchTInv ==
  ASSUME TInv, NEW w \in Workers, Fetch(w), chain' = chain
  PROVE  TInv'
<1> USE ConstantsAssumption DEF TInv
<1> DEFINE rec == [worker[w] EXCEPT !.pc = "find"]
<1>1. worker[w] \in Local /\ worker[w].h \in Heights
  BY DEF Fetch, TypeOK, WorkersOK, Busy, At
<1>2. rec \in Local /\ rec.pc = "find" /\ rec.h \in Heights
  BY <1>1 DEF Local
<1>3. worker' = [worker EXCEPT ![w] = rec]
  BY DEF Fetch
<1>4. worker' \in [Workers -> Local] /\ WorkersOK'
  <2> HIDE DEF rec
  <2> QED  BY <1>2, <1>3, OneWorker
<1> QED  BY <1>1, <1>4 DEF Fetch, TypeOK, LoopOK, Stored, counters, Heights

LEMMA NoBlockTInv ==
  ASSUME TInv, NEW w \in Workers, NoBlock(w), chain' = chain
  PROVE  TInv'
<1> USE ConstantsAssumption DEF TInv
<1>1. worker' = [worker EXCEPT ![w] = Idle]
  BY DEF NoBlock
<1>2. worker' \in [Workers -> Local] /\ WorkersOK'
  BY <1>1, IdleTyped, OneWorker
<1> QED  BY <1>2 DEF NoBlock, TypeOK, LoopOK, Stored, counters

LEMMA FetchFailsTInv ==
  ASSUME TInv, NEW w \in Workers, FetchFails(w), chain' = chain
  PROVE  TInv'
<1> USE ConstantsAssumption DEF TInv
<1>1. worker' = [worker EXCEPT ![w] = Idle]
  BY DEF FetchFails
<1>2. worker' \in [Workers -> Local] /\ WorkersOK'
  BY <1>1, IdleTyped, OneWorker
<1>3. faults' \in 0..MaxFaults
  BY DEF FetchFails, TypeOK
<1> QED  BY <1>2, <1>3 DEF FetchFails, TypeOK, LoopOK, Stored

(* A worker that is done with the inputs goes on to store, one that is     *)
(* done with the outputs ends.                                             *)
LEMMA ThenTyped ==
  ASSUME TInv, NEW w \in Workers, Busy(w)
  PROVE  /\ Then(w) \in Local /\ Then(w).pc \in {"idle", "store"} /\ ~Then(w).stored
         /\ Then(w).pc = "idle" => worker[w].stored
         /\ Then(w).pc # "idle" => Then(w).h = worker[w].h
<1>1. worker[w] \in Local /\ worker[w].h \in Heights
  BY DEF TInv, TypeOK, WorkersOK
<1>2. CASE worker[w].stored
  BY <1>2, IdleTyped DEF Then
<1>3. CASE ~worker[w].stored
  BY <1>1, <1>3 DEF Then, Idle, Local
<1> QED  BY <1>2, <1>3

LEMMA FindTInv ==
  ASSUME TInv, NEW w \in Workers, Find(w), chain' = chain
  PROVE  TInv'
<1> USE ConstantsAssumption
<1> DEFINE found == Watched(w) \cap {at[p] : p \in Stored}
           on    == [worker[w] EXCEPT !.pc = "catch", !.found = found]
           rec   == IF found = {} THEN Then(w) ELSE on
<1>1. worker[w] \in Local /\ Busy(w) /\ worker[w].h \in Heights
  BY DEF TInv, Find, TypeOK, WorkersOK, Busy, At
<1>2. found \subseteq Points
  BY DEF TInv, TypeOK
<1>3. on \in Local /\ on.pc = "catch" /\ on.h \in Heights
  <2> HIDE DEF found
  <2> QED  BY <1>1, <1>2 DEF Local
<1>4. rec \in Local /\ rec.pc # "move" /\ (rec.pc # "idle" => rec.h \in Heights)
  <2> HIDE DEF found, on
  <2> QED  BY <1>1, <1>3, ThenTyped
<1>5. worker' = [worker EXCEPT ![w] = rec]
  BY DEF Find
<1>6. worker' \in [Workers -> Local] /\ WorkersOK'
  <2> HIDE DEF rec
  <2> QED  BY <1>4, <1>5, OneWorker DEF TInv
<1> QED  BY <1>6 DEF TInv, Find, TypeOK, LoopOK, Stored, counters

LEMMA CatchTInv ==
  ASSUME TInv, NEW w \in Workers, Catch(w), chain' = chain
  PROVE  TInv'
<1> USE ConstantsAssumption
<1> DEFINE caught == worker[w].found \cap SpentBy(block)
           on     == [worker[w] EXCEPT !.pc = "move", !.found = caught, !.left = caught]
           rec    == IF caught = {} THEN Then(w) ELSE on
<1>1. worker[w] \in Local /\ Busy(w) /\ worker[w].h \in Heights
  BY DEF TInv, Catch, TypeOK, WorkersOK, Busy, At
<1>2. caught \subseteq DOMAIN chain.spent /\ DOMAIN chain.spent \subseteq Points
  BY DEF TInv, TypeOK, IsChain, SpentBy
<1>3. on \in Local /\ on.pc = "move" /\ on.h \in Heights /\ on.found = caught /\ on.left = caught
  <2> HIDE DEF caught
  <2> QED  BY <1>1, <1>2 DEF Local
<1>4. /\ rec \in Local /\ (rec.pc # "idle" => rec.h \in Heights)
      /\ rec.pc = "move" => rec.left = caught /\ rec.found = caught
  <2> HIDE DEF caught, on
  <2> QED  BY <1>1, <1>3, ThenTyped
<1>5. worker' = [worker EXCEPT ![w] = rec]
  BY DEF Catch
<1>6. worker' \in [Workers -> Local] /\ WorkersOK'
  <2> HIDE DEF rec, caught
  <2> QED  BY <1>2, <1>4, <1>5, OneWorker DEF TInv
<1> QED  BY <1>6 DEF TInv, Catch, TypeOK, LoopOK, Stored, counters

LEMMA MoveTInv ==
  ASSUME TInv, NEW w \in Workers, Move(w), chain' = chain
  PROVE  TInv' /\ Stored' = Stored
<1> USE ConstantsAssumption
<1>1. PICK o \in worker[w].left :
        /\ worker' = [worker EXCEPT ![w].left = @ \ {o}]
        /\ \/ /\ \E p \in Stored : at[p] = o /\ at' = [at EXCEPT ![p] = chain.spent[o].as]
           \/ at' = at
  BY DEF Move
<1> DEFINE rec == [worker[w] EXCEPT !.left = @ \ {o}]
<1>2. worker[w] \in Local /\ worker[w].pc = "move" /\ worker[w].h \in Heights
  BY DEF TInv, Move, TypeOK, WorkersOK, Busy, At
<1>3. /\ worker[w].left \subseteq DOMAIN chain.spent
      /\ worker[w].found \subseteq DOMAIN chain.spent
  BY DEF TInv, Move, WorkersOK
<1>4. /\ rec \in Local /\ rec.pc = "move" /\ rec.h \in Heights
      /\ rec.left \subseteq worker[w].left /\ rec.found = worker[w].found
  BY <1>2 DEF Local
<1>5. worker' = [worker EXCEPT ![w] = rec]
  BY <1>1
<1>6. worker' \in [Workers -> Local] /\ WorkersOK'
  <2> HIDE DEF rec
  <2> QED  BY <1>3, <1>4, <1>5, OneWorker DEF TInv
<1>7. chain.spent[o].as \in Points
  BY <1>3 DEF TInv, TypeOK, IsChain, Spending
<1>8. Stored' = Stored /\ at' \in [Stored' -> Points]
  BY <1>1, <1>7 DEF TInv, TypeOK, Stored
<1> QED  BY <1>6, <1>8 DEF TInv, Move, TypeOK, LoopOK, counters

LEMMA RecordTInv ==
  ASSUME TInv, NEW w \in Workers, Record(w), chain' = chain
  PROVE  TInv'
<1> USE ConstantsAssumption
<1> DEFINE as == {chain.spent[o].as : o \in worker[w].found}
<1>1. worker[w] \in Local /\ Busy(w) /\ worker[w].h \in Heights
  BY DEF TInv, Record, TypeOK, WorkersOK, Busy, At
<1>2. worker[w].found \subseteq DOMAIN chain.spent
  BY DEF TInv, Record, WorkersOK
<1>3. as \subseteq Points
  BY <1>2 DEF TInv, TypeOK, IsChain, Spending
<1>4. history' = [q \in DOMAIN history \cup as |->
                    IF q \in DOMAIN history THEN history[q] ELSE worker[w].h]
  BY DEF Record
<1>5. DOMAIN history' \subseteq Points /\ history' \in [DOMAIN history' -> Heights]
  <2> HIDE DEF as
  <2> QED  BY <1>1, <1>3, <1>4 DEF TInv, TypeOK
<1>6. worker' = [worker EXCEPT ![w] = Then(w)]
  BY DEF Record
<1>7. worker' \in [Workers -> Local] /\ WorkersOK'
  BY <1>1, <1>6, ThenTyped, OneWorker DEF TInv
<1> QED  BY <1>5, <1>7 DEF TInv, Record, TypeOK, LoopOK, Stored, counters

LEMMA StoreTInv ==
  ASSUME TInv, NEW w \in Workers, Store(w), chain' = chain
  PROVE  TInv' /\ Stored' = Stored \cup PinsOf(worker[w].h)
<1> USE ConstantsAssumption
<1> DEFINE new == PinsOf(worker[w].h)
           on  == [worker[w] EXCEPT !.pc = "find", !.stored = TRUE]
           rec == IF new = {} THEN Idle ELSE on
<1>1. worker[w] \in Local /\ Busy(w) /\ worker[w].h \in Heights
  BY DEF TInv, Store, TypeOK, WorkersOK, Busy, At
<1>2. new \subseteq Pins /\ \A p \in Pins : chain.pin[p].out \in Points
  BY DEF TInv, TypeOK, IsChain, PinsOf
<1>3. at' = [p \in Stored \cup new |-> IF p \in Stored THEN at[p] ELSE chain.pin[p].out]
  BY DEF Store
<1>4. Stored' = Stored \cup new /\ Stored' \subseteq Pins /\ at' \in [Stored' -> Points]
  <2> HIDE DEF new
  <2> QED  BY <1>2, <1>3 DEF TInv, TypeOK, Stored
<1>5. on \in Local /\ on.pc = "find" /\ on.h \in Heights
  BY <1>1 DEF Local
<1>6. worker' = [worker EXCEPT ![w] = rec]
  BY DEF Store
<1>7. rec \in Local /\ rec.pc # "move" /\ (rec.pc # "idle" => rec.h \in Heights)
  <2> HIDE DEF on
  <2> QED  BY <1>5, IdleTyped
<1>8. worker' \in [Workers -> Local] /\ WorkersOK'
  <2> HIDE DEF rec
  <2> QED  BY <1>6, <1>7, OneWorker DEF TInv
<1> QED  BY <1>4, <1>8 DEF TInv, Store, TypeOK, LoopOK, counters

LEMMA CrashTInv ==
  ASSUME TInv, Crash, chain' = chain
  PROVE  TInv'
<1> USE ConstantsAssumption DEF TInv
<1>1. worker' \in [Workers -> Local] /\ \A w \in Workers : worker'[w] = Idle
  BY IdleTyped DEF Crash
<1>2. WorkersOK'
  BY <1>1, IdleTyped DEF WorkersOK, Busy, At
<1>3. loop' \in [to: Start..Tip, next: 1..(Tip + 1), spawn: BOOLEAN] /\ ~loop'.spawn
  BY RoundTyped DEF Crash
<1>4. crashes' \in 0..MaxCrashes
  BY DEF Crash, TypeOK
<1> QED  BY <1>1, <1>2, <1>3, <1>4 DEF Crash, TypeOK, LoopOK, Stored

LEMMA NewBlockTInv ==
  ASSUME TInv, NewBlock, chain' = chain
  PROVE  TInv'
BY ConstantsAssumption
DEF TInv, NewBlock, TypeOK, WorkersOK, LoopOK, Busy, At, Stored, counters

LEMMA StutterTInv ==
  ASSUME TInv, UNCHANGED vars
  PROVE  TInv'
BY DEF TInv, vars, counters, TypeOK, WorkersOK, LoopOK, Busy, At, Stored

LEMMA TInvStep == TInv /\ [Next]_vars => TInv'
<1> SUFFICES ASSUME TInv, [Next]_vars PROVE TInv'
  OBVIOUS
<1>1. CASE UNCHANGED vars
  BY <1>1, StutterTInv
<1>2. CASE Next
  <2>1. chain' = chain
    BY <1>2 DEF Next
  <2>2. CASE NewBlock
    BY <2>1, <2>2, NewBlockTInv
  <2>3. CASE Main
    BY <2>1, <2>3, SyncTInv, TakeNextTInv, SpawnTInv DEF Main
  <2>4. CASE Crash
    BY <2>1, <2>4, CrashTInv
  <2>5. ASSUME NEW w \in Workers, Run(w) PROVE TInv'
    BY <2>1, <2>5, BeginTInv, FetchTInv, NoBlockTInv, FindTInv, CatchTInv, MoveTInv, RecordTInv, StoreTInv
    DEF Run
  <2>6. ASSUME NEW w \in Workers, FetchFails(w) PROVE TInv'
    BY <2>1, <2>6, FetchFailsTInv
  <2>7. ASSUME NEW w \in Workers, NEW h \in Heights, Reindex(w, h) PROVE TInv'
    BY <2>1, <2>7, ReindexTInv
  <2> QED  BY <1>2, <2>2, <2>3, <2>4, <2>5, <2>6, <2>7 DEF Next
<1> QED  BY <1>1, <1>2

(***************************************************************************)
(* Every variable of the indexing loop keeps its type: heights handed to   *)
(* goroutines are heights of the chain, whatever the round, a restart or   *)
(* the reindex API made of MaxHeight.                                      *)
(***************************************************************************)
THEOREM TypeCorrect == Spec => []TypeOK
<1>1. TInv => TypeOK
  BY DEF TInv
<1> QED  BY <1>1, InitTInv, TInvStep, PTL DEF Spec

----------------------------------------------------------------------------
(***************************************************************************)
(* What each step of a goroutine makes of its record: Goes says which      *)
(* record is replaced, On that it is at a stage for the same block.        *)
(***************************************************************************)
Goes(w, rec) ==
  /\ rec \in Local
  /\ worker' = [worker EXCEPT ![w] = rec]
  /\ \A v \in Workers : worker'[v] = IF v = w THEN rec ELSE worker[v]

On(w, rec, stage) == rec.pc = stage /\ rec.h = worker[w].h /\ rec.stored = worker[w].stored

(* The record of a goroutine that is through with the inputs or the outputs. *)
Through(w, rec) ==
  \/ worker[w].stored /\ rec.pc = "idle" /\ ~rec.stored
  \/ ~worker[w].stored /\ rec.pc = "store" /\ rec.h = worker[w].h /\ ~rec.stored

LEMMA ThenIs ==
  ASSUME TInv, NEW w \in Workers, Busy(w)
  PROVE  Then(w) \in Local /\ Through(w, Then(w))
<1>1. worker[w] \in Local /\ worker[w].h \in Heights
  BY DEF TInv, TypeOK, WorkersOK
<1>2. CASE worker[w].stored
  BY <1>2, IdleTyped DEF Then, Through
<1>3. CASE ~worker[w].stored
  BY <1>1, <1>3 DEF Then, Idle, Local, Through
<1> QED  BY <1>2, <1>3

LEMMA BeginIs ==
  ASSUME TInv, NEW w \in Workers, Begin(w)
  PROVE  \E rec : Goes(w, rec) /\ On(w, rec, "fetch")
<1> DEFINE rec == [worker[w] EXCEPT !.pc = "fetch"]
<1>1. rec \in Local /\ On(w, rec, "fetch")
  BY DEF TInv, TypeOK, Local, On
<1>2. worker' = [worker EXCEPT ![w] = rec]
  BY DEF Begin
<1> HIDE DEF rec
<1> QED  BY <1>1, <1>2 DEF TInv, TypeOK, Goes

LEMMA FetchIs ==
  ASSUME TInv, NEW w \in Workers, Fetch(w)
  PROVE  \E rec : Goes(w, rec) /\ On(w, rec, "find")
<1> DEFINE rec == [worker[w] EXCEPT !.pc = "find"]
<1>1. rec \in Local /\ On(w, rec, "find")
  BY DEF TInv, TypeOK, Local, On
<1>2. worker' = [worker EXCEPT ![w] = rec]
  BY DEF Fetch
<1> HIDE DEF rec
<1> QED  BY <1>1, <1>2 DEF TInv, TypeOK, Goes

LEMMA FindIs ==
  ASSUME TInv, NEW w \in Workers, Find(w)
  PROVE  LET found == Watched(w) \cap {at[p] : p \in Stored}
         IN  \E rec : /\ Goes(w, rec)
                      /\ \/ found = {} /\ Through(w, rec)
                         \/ found # {} /\ On(w, rec, "catch") /\ rec.found = found
<1> DEFINE found == Watched(w) \cap {at[p] : p \in Stored}
           on    == [worker[w] EXCEPT !.pc = "catch", !.found = found]
           rec   == IF found = {} THEN Then(w) ELSE on
<1>1. worker[w] \in Local /\ Busy(w)
  BY DEF TInv, Find, TypeOK, Busy, At
<1>2. found \subseteq Points
  BY DEF TInv, TypeOK
<1>3. on \in Local /\ On(w, on, "catch") /\ on.found = found
  <2> HIDE DEF found
  <2> QED  BY <1>1, <1>2 DEF Local, On
<1>4. /\ rec \in Local
      /\ \/ found = {} /\ Through(w, rec)
         \/ found # {} /\ On(w, rec, "catch") /\ rec.found = found
  <2> HIDE DEF found, on
  <2> QED  BY <1>1, <1>3, ThenIs
<1>5. worker' = [worker EXCEPT ![w] = rec]
  BY DEF Find
<1> HIDE DEF rec
<1> QED  BY <1>4, <1>5 DEF TInv, TypeOK, Goes

LEMMA CatchIs ==
  ASSUME TInv, NEW w \in Workers, Catch(w)
  PROVE  LET caught == worker[w].found \cap SpentBy(block)
         IN  \E rec : /\ Goes(w, rec)
                      /\ \/ caught = {} /\ Through(w, rec)
                         \/ /\ caught # {} /\ On(w, rec, "move")
                            /\ rec.found = caught /\ rec.left = caught
<1> DEFINE caught == worker[w].found \cap SpentBy(block)
           on     == [worker[w] EXCEPT !.pc = "move", !.found = caught, !.left = caught]
           rec    == IF caught = {} THEN Then(w) ELSE on
<1>1. worker[w] \in Local /\ Busy(w)
  BY DEF TInv, Catch, TypeOK, Busy, At
<1>2. caught \subseteq Points
  BY DEF TInv, TypeOK, IsChain, SpentBy
<1>3. on \in Local /\ On(w, on, "move") /\ on.found = caught /\ on.left = caught
  <2> HIDE DEF caught
  <2> QED  BY <1>1, <1>2 DEF Local, On
<1>4. /\ rec \in Local
      /\ \/ caught = {} /\ Through(w, rec)
         \/ caught # {} /\ On(w, rec, "move") /\ rec.found = caught /\ rec.left = caught
  <2> HIDE DEF caught, on
  <2> QED  BY <1>1, <1>3, ThenIs
<1>5. worker' = [worker EXCEPT ![w] = rec]
  BY DEF Catch
<1> HIDE DEF rec
<1> QED  BY <1>4, <1>5 DEF TInv, TypeOK, Goes

LEMMA MoveIs ==
  ASSUME TInv, NEW w \in Workers, Move(w)
  PROVE  \E o \in worker[w].left : \E rec :
           /\ Goes(w, rec) /\ On(w, rec, "move")
           /\ rec.found = worker[w].found /\ rec.left = worker[w].left \ {o}
           /\ \/ \E p \in Stored : at[p] = o /\ at' = [at EXCEPT ![p] = chain.spent[o].as]
              \/ (\A p \in Stored : at[p] # o) /\ at' = at
<1>1. PICK o \in worker[w].left :
        /\ worker' = [worker EXCEPT ![w].left = @ \ {o}]
        /\ \/ \E p \in Stored : at[p] = o /\ at' = [at EXCEPT ![p] = chain.spent[o].as]
           \/ (\A p \in Stored : at[p] # o) /\ at' = at
  BY DEF Move
<1> DEFINE rec == [worker[w] EXCEPT !.left = @ \ {o}]
<1>2. worker[w] \in Local /\ worker[w].pc = "move"
  BY DEF TInv, Move, TypeOK, At
<1>3. /\ rec \in Local /\ On(w, rec, "move")
      /\ rec.found = worker[w].found /\ rec.left = worker[w].left \ {o}
  BY <1>2 DEF Local, On
<1>4. worker' = [worker EXCEPT ![w] = rec]
  BY <1>1
<1>5. Goes(w, rec)
  <2> HIDE DEF rec
  <2> QED  BY <1>3, <1>4 DEF TInv, TypeOK, Goes
<1> HIDE DEF rec
<1> QED  BY <1>1, <1>3, <1>5

LEMMA RecordIs ==
  ASSUME TInv, NEW w \in Workers, Record(w)
  PROVE  \E rec : Goes(w, rec) /\ Through(w, rec)
<1>1. Then(w) \in Local /\ Through(w, Then(w))
  BY ThenIs DEF Record, Busy, At
<1>2. worker' = [worker EXCEPT ![w] = Then(w)]
  BY DEF Record
<1> QED  BY <1>1, <1>2 DEF TInv, TypeOK, Goes

LEMMA StoreIs ==
  ASSUME TInv, NEW w \in Workers, Store(w)
  PROVE  LET new == PinsOf(worker[w].h)
         IN  /\ \E rec : /\ Goes(w, rec)
                         /\ \/ new = {} /\ rec.pc = "idle" /\ ~rec.stored
                            \/ new # {} /\ rec.pc = "find" /\ rec.h = worker[w].h /\ rec.stored
             /\ Stored' = Stored \cup new
             /\ \A p \in Stored' : at'[p] = IF p \in Stored THEN at[p] ELSE First(p)
<1> DEFINE new == PinsOf(worker[w].h)
           on  == [worker[w] EXCEPT !.pc = "find", !.stored = TRUE]
           rec == IF new = {} THEN Idle ELSE on
<1>1. worker[w] \in Local
  BY DEF TInv, TypeOK
<1>2. on \in Local /\ on.pc = "find" /\ on.h = worker[w].h /\ on.stored
  BY <1>1 DEF Local
<1>3. /\ rec \in Local
      /\ \/ new = {} /\ rec.pc = "idle" /\ ~rec.stored
         \/ new # {} /\ rec.pc = "find" /\ rec.h = worker[w].h /\ rec.stored
  <2> HIDE DEF on, new
  <2> QED  BY <1>2, IdleTyped
<1>4. worker' = [worker EXCEPT ![w] = rec]
  BY DEF Store
<1>5. at' = [p \in Stored \cup new |-> IF p \in Stored THEN at[p] ELSE First(p)]
  BY DEF Store, First
<1>6. Goes(w, rec)
  <2> HIDE DEF rec
  <2> QED  BY <1>3, <1>4 DEF TInv, TypeOK, Goes
<1>7. Stored' = Stored \cup new
  <2> HIDE DEF new
  <2> QED  BY <1>5 DEF Stored
<1>8. \A p \in Stored' : at'[p] = IF p \in Stored THEN at[p] ELSE First(p)
  <2> HIDE DEF new
  <2> QED  BY <1>5, <1>7
<1> HIDE DEF rec
<1> QED  BY <1>3, <1>6, <1>7, <1>8

(* Nothing is stored, and nothing done, for a block that the node does not have. *)
LEMMA InitReach == Init => ReachInv
<1> SUFFICES ASSUME Init PROVE ReachInv
  OBVIOUS
<1>1. Start \in Nat /\ Start \in 0..Tip /\ Start \in Start..Tip
  BY ConstantsAssumption
<1>2. loop.to = Start /\ best = Start /\ maxHeight = 0 /\ ~ahead /\ Stored = {}
  BY <1>1, RoundTyped DEF Init, Stored
<1>3. \A w \in Workers : ~Busy(w)
  BY IdleTyped DEF Init, Busy
<1> QED  BY <1>1, <1>2, <1>3 DEF ReachInv

(* A step of a goroutine that has come to a block of the node's. *)
LEMMA WorkerReach ==
  ASSUME TInv, ReachInv, NEW w \in Workers, NEW rec, Goes(w, rec), chain' = chain,
         best' = best, loop' = loop, ahead' = ahead, maxHeight' \in {maxHeight, worker[w].h},
         Busy(w), worker[w].h <= best, rec.pc # "idle" => rec.h = worker[w].h,
         \A p \in Stored' : p \in Stored \/ chain.pin[p].h = worker[w].h
  PROVE  ReachInv'
<1>1. \A v \in Workers : worker'[v] = IF v = w THEN rec ELSE worker[v]
  BY DEF Goes
<1>2. \A v \in Workers : worker'[v].pc # "idle" =>
        worker'[v].h <= best \/ (worker'[v].pc = "fetch" /\ ahead)
  BY <1>1 DEF ReachInv, Busy, At
<1>3. maxHeight' <= best /\ \A p \in Stored' : chain.pin[p].h <= best
  BY DEF ReachInv
<1> QED  BY <1>2, <1>3 DEF ReachInv, Busy, At, Workers

LEMMA RunReach ==
  ASSUME TInv, ReachInv, NEW w \in Workers, Run(w), chain' = chain
  PROVE  ReachInv'
<1>1. /\ Busy(w) /\ loop' = loop /\ best' = best /\ ahead' = ahead
      /\ maxHeight' \in {maxHeight, worker[w].h}
  BY DEF Run, Begin, Fetch, NoBlock, Find, Catch, Move, Record, Store, Busy, At, counters
<1>2. CASE NoBlock(w)
  <2>1. \A v \in Workers : worker'[v] = IF v = w THEN Idle ELSE worker[v]
    BY <1>2 DEF NoBlock, TInv, TypeOK
  <2>2. maxHeight' = maxHeight /\ Stored' = Stored
    BY <1>2 DEF NoBlock, Stored
  <2> QED  BY <1>1, <2>1, <2>2, IdleTyped DEF ReachInv, Busy, At, Workers
<1>3. CASE Store(w)
  <2>1. worker[w].h <= best
    BY <1>1, <1>3 DEF ReachInv, Store, Busy, At
  <2>2. PICK rec : Goes(w, rec) /\ (rec.pc # "idle" => rec.h = worker[w].h)
    BY <1>3, StoreIs
  <2>3. \A p \in Stored' : p \in Stored \/ chain.pin[p].h = worker[w].h
    BY <1>3, StoreIs DEF PinsOf
  <2> QED  BY <1>1, <2>1, <2>2, <2>3, WorkerReach
<1>4. CASE Begin(w) \/ Fetch(w) \/ Find(w) \/ Catch(w) \/ Move(w) \/ Record(w)
  <2>1. worker[w].h <= best
    BY <1>1, <1>4 DEF ReachInv, Begin, Fetch, Find, Catch, Move, Record, Busy, At
  <2>2. PICK rec : Goes(w, rec) /\ (rec.pc # "idle" => rec.h = worker[w].h)
    BY <1>4, BeginIs, FetchIs, FindIs, CatchIs, MoveIs, RecordIs DEF On, Through
  <2>3. Stored' = Stored
    <3>1. CASE Move(w)
      BY <3>1, MoveIs DEF Stored
    <3>2. CASE ~Move(w)
      BY <1>4, <3>2 DEF Begin, Fetch, Find, Catch, Record, Stored
    <3> QED  BY <3>1, <3>2
  <2> QED  BY <1>1, <2>1, <2>2, <2>3, WorkerReach
<1> QED  BY <1>2, <1>3, <1>4 DEF Run

LEMMA SyncReach ==
  ASSUME TInv, ReachInv, Sync, chain' = chain
  PROVE  ReachInv'
<1>1. Stored' = Stored /\ worker' = worker /\ best' = best /\ ahead' = ahead
  BY DEF Sync, Stored, counters
<1>2. /\ best \in Start..Tip /\ Start \in Nat /\ Tip \in Nat
      /\ maxHeight \in 0..Tip /\ HighestStored \in 0..Tip
  BY HighestStoredIs, ConstantsAssumption DEF TInv, TypeOK
<1>3. HighestStored <= best
  BY <1>2, HighestStoredIs DEF TInv, ReachInv
<1>4. maxHeight' \in Nat /\ maxHeight' <= best
  BY <1>2, <1>3 DEF Sync, ReachInv
<1>5. loop'.to = best
  BY DEF Sync, Round
<1> QED  BY <1>1, <1>2, <1>4, <1>5 DEF ReachInv, Busy, At, Workers

LEMMA LoopReach ==
  ASSUME TInv, ReachInv, TakeNext \/ Spawn \/ NewBlock, chain' = chain
  PROVE  ReachInv'
<1>1. /\ maxHeight' = maxHeight /\ Stored' = Stored /\ ahead' = ahead
      /\ loop'.to = loop.to
  BY DEF TakeNext, Spawn, NewBlock, Stored, counters, TInv, TypeOK
<1>2. /\ best \in Int /\ best' \in Int /\ best <= best' /\ maxHeight \in Int
      /\ loop.to \in Start..Tip /\ loop.next \in Int /\ Start \in Nat /\ Tip \in Nat
      /\ \A v \in Workers : worker[v].h \in Int
      /\ \A p \in Stored : chain.pin[p].h \in Int
  <2>1. Start \in Nat /\ Tip \in Nat
    BY ConstantsAssumption
  <2>2. best \in Start..Tip /\ maxHeight \in 0..Tip /\ loop.to \in Start..Tip /\ loop.next \in Int
    BY <2>1 DEF TInv, TypeOK
  <2>3. best' \in Int /\ best <= best'
    <3>1. best' = best \/ best' = best + 1
      BY DEF TakeNext, Spawn, NewBlock
    <3>2. best \in Int
      BY <2>1, <2>2
    <3> QED  BY <3>1, <3>2
  <2>4. \A v \in Workers : worker[v].h \in Int
    BY <2>1 DEF TInv, TypeOK, Local
  <2>5. \A p \in Stored : chain.pin[p].h \in Int
    BY <2>1 DEF TInv, TypeOK, IsChain, Heights
  <2> QED  BY <2>1, <2>2, <2>3, <2>4, <2>5
<1>3. loop.to <= best' /\ maxHeight <= best' /\ \A p \in Stored : chain.pin[p].h <= best'
  BY <1>2 DEF ReachInv
<1>4. ASSUME NEW v \in Workers, worker'[v].pc # "idle"
      PROVE  worker'[v].h <= best' \/ (worker'[v].pc = "fetch" /\ ahead)
  <2>1. CASE worker'[v] = worker[v]
    BY <1>2, <1>4, <2>1 DEF ReachInv, Busy, At
  <2>2. CASE TakeNext /\ v = 0
    <3> DEFINE rec == [Idle EXCEPT !.pc = "begin", !.h = loop.next]
    <3>1. loop.next \in Heights /\ loop.next <= loop.to
      BY <2>2, ConstantsAssumption DEF TakeNext, TInv, TypeOK, Heights
    <3>2. rec.h = loop.next
      BY <3>1, WorkerAt
    <3>3. worker'[v] = rec
      BY <2>2 DEF TakeNext, TInv, TypeOK
    <3> HIDE DEF rec
    <3> QED  BY <1>2, <1>3, <3>1, <3>2, <3>3
  <2>3. CASE Spawn /\ v # 0
    <3>1. v \in 1..Back
      BY <2>3 DEF Workers
    <3>2. loop.to > Start
      BY <2>3 DEF Spawn, TInv, LoopOK
    <3>3. loop.to - v \in Heights /\ loop.to - v <= loop.to
      BY <1>2, <3>1, <3>2, ConstantsAssumption DEF Heights
    <3> DEFINE rec == [Idle EXCEPT !.pc = "begin", !.h = loop.to - v]
    <3>4. rec.h = loop.to - v
      BY <3>3, WorkerAt
    <3>5. worker'[v] = rec
      BY <2>3 DEF Spawn
    <3> HIDE DEF rec
    <3> QED  BY <1>2, <1>3, <3>1, <3>3, <3>4, <3>5
  <2>4. CASE Spawn /\ v = 0
    BY <1>4, <2>4, IdleTyped DEF Spawn
  <2> QED  BY <2>1, <2>2, <2>3, <2>4 DEF TakeNext, Spawn, NewBlock, TInv, TypeOK
<1> QED  BY <1>1, <1>3, <1>4 DEF ReachInv, Busy, At, Workers

(* Only a call for a block after MaxHeight can be for one the node has not got. *)
LEMMA ReindexReach ==
  ASSUME TInv, ReachInv, NEW w \in Workers, NEW h \in Heights, Reindex(w, h), chain' = chain
  PROVE  ReachInv'
<1> DEFINE rec == [Idle EXCEPT !.pc = "fetch", !.h = h]
<1>1. rec.pc = "fetch" /\ rec.h = h
  BY WorkerAt
<1>2. \A v \in Workers : worker'[v] = IF v = w THEN rec ELSE worker[v]
  BY DEF Reindex, TInv, TypeOK
<1>3. /\ Stored' = Stored /\ loop' = loop /\ maxHeight' = maxHeight /\ best' = best
      /\ ahead' = (ahead \/ h > maxHeight) /\ chain.when.calls
  BY DEF Reindex, Stored
<1>4. h \in Int /\ maxHeight \in Int /\ best \in Int
  BY ConstantsAssumption DEF TInv, TypeOK, Heights
<1> HIDE DEF rec
<1>5. h <= best \/ ahead'
  <2>1. CASE h <= maxHeight
    BY <1>4, <2>1 DEF ReachInv
  <2>2. CASE h > maxHeight
    BY <1>3, <2>2
  <2> QED  BY <1>4, <2>1, <2>2
<1>6. \A v \in Workers : worker'[v].pc # "idle" =>
        worker'[v].h <= best \/ (worker'[v].pc = "fetch" /\ ahead')
  BY <1>1, <1>2, <1>3, <1>5 DEF ReachInv, Busy, At
<1> QED  BY <1>3, <1>6 DEF ReachInv, Busy, At, Workers

LEMMA ReachStep == TInv /\ ReachInv /\ [Next]_vars => ReachInv'
<1> SUFFICES ASSUME TInv, ReachInv, [Next]_vars PROVE ReachInv'
  OBVIOUS
<1>1. CASE UNCHANGED vars
  BY <1>1 DEF vars, counters, ReachInv, Busy, At, Stored, Workers
<1>2. CASE Next
  <2>1. chain' = chain
    BY <1>2 DEF Next
  <2>2. CASE NewBlock \/ Main
    BY <2>1, <2>2, SyncReach, LoopReach DEF Main
  <2>3. CASE Crash
    <3>1. Start \in Nat /\ Start \in 0..Tip /\ Start \in Start..Tip /\ best \in Start..Tip
      BY ConstantsAssumption DEF TInv, TypeOK
    <3>2. loop'.to = Start
      BY <2>3, <3>1, RoundTyped DEF Crash
    <3>3. /\ maxHeight' = 0 /\ best' = best /\ ahead' = ahead /\ Stored' = Stored
          /\ \A w \in Workers : worker'[w].pc = "idle"
      BY <2>3, IdleTyped DEF Crash, Stored
    <3> QED  BY <2>1, <3>1, <3>2, <3>3 DEF ReachInv, Busy, At, Workers
  <2>4. ASSUME NEW w \in Workers, Run(w) PROVE ReachInv'
    BY <2>1, <2>4, RunReach
  <2>5. ASSUME NEW w \in Workers, FetchFails(w) PROVE ReachInv'
    <3>1. \A v \in Workers : worker'[v] = IF v = w THEN Idle ELSE worker[v]
      BY <2>5 DEF FetchFails, TInv, TypeOK
    <3>2. /\ maxHeight' = maxHeight /\ Stored' = Stored /\ best' = best /\ ahead' = ahead
          /\ loop' = loop
      BY <2>5 DEF FetchFails, Stored
    <3> QED  BY <2>1, <3>1, <3>2, IdleTyped DEF ReachInv, Busy, At, Workers
  <2>6. ASSUME NEW w \in Workers, NEW h \in Heights, Reindex(w, h) PROVE ReachInv'
    BY <2>1, <2>6, ReindexReach
  <2> QED  BY <1>2, <2>2, <2>3, <2>4, <2>5, <2>6 DEF Next
<1> QED  BY <1>1, <1>2

----------------------------------------------------------------------------
(* The order: one lemma per kind of step. *)

LEMMA InitOrder == Init => OrderInv
<1> SUFFICES ASSUME Init PROVE OrderInv
  OBVIOUS
<1>1. IsChain(chain)
  BY InitTInv DEF TInv, TypeOK
<1>2. Start \in Nat /\ Start \in 0..Tip /\ Start \in Start..Tip
  BY ConstantsAssumption
<1>3. Stored = {}
  BY DEF Init, Stored
<1>4. loop.next = Start + 1
  BY <1>2, RoundTyped DEF Init
<1>5. Full(0) /\ Full(Start)
  BY <1>1, <1>2, FullAtStart DEF Full
<1>6. worker \in [Workers -> Local] /\ \A w \in Workers : worker[w] = Idle
  BY IdleTyped DEF Init
<1>7. WholeBlocks
  BY <1>3 DEF WholeBlocks
<1>8. NotAhead
  BY <1>6, IdleTyped DEF NotAhead, Busy, At
<1>9. MaxHeightOK
  BY <1>5 DEF Init, MaxHeightOK
<1>10. LoopInOrder
  <2>1. loop.next - 1 = Start
    BY <1>2, <1>4
  <2> QED  BY <1>5, <1>6, <2>1, IdleTyped, MainWorker DEF LoopInOrder, Busy
<1> QED  BY <1>7, <1>8, <1>9, <1>10 DEF OrderInv

(***************************************************************************)
(* A step of a worker that has passed the beginning, and that it ends, or  *)
(* looks at the outputs, only once its block is stored.                    *)
(***************************************************************************)
LEMMA WorkerOrder ==
  ASSUME TInv, OrderInv, NEW w \in Workers, NEW rec \in Local, chain' = chain,
         worker' = [worker EXCEPT ![w] = rec], maxHeight' = maxHeight, loop' = loop,
         Stored \subseteq Stored', WholeBlocks', Busy(w), rec.pc # "begin",
         rec.pc # "idle" => rec.h = worker[w].h,
         rec.stored => rec.pc # "idle",
         rec.stored \/ rec.pc = "idle" => FullIn(chain, Stored', worker[w].h)
  PROVE  OrderInv'
<1>1. \A v \in Workers : worker'[v] = IF v = w THEN rec ELSE worker[v]
  BY DEF TInv, TypeOK
<1>2. \A v \in Workers : worker[v].h \in Int /\ worker[v].h - 1 \in Int
  BY ConstantsAssumption DEF TInv, TypeOK, Local
<1>3. maxHeight \in Int /\ loop.next - 1 \in Int
  BY ConstantsAssumption DEF TInv, TypeOK
<1>4. \A n \in Int : Full(n) => FullIn(chain, Stored', n)
  BY FullBelow DEF TInv, TypeOK, Full
<1>5. NotAhead'
  <2> SUFFICES ASSUME NEW v \in Workers
               PROVE  /\ worker'[v].pc # "idle" => FullIn(chain, Stored', worker'[v].h - 1)
                      /\ worker'[v].stored => FullIn(chain, Stored', worker'[v].h)
                      /\ worker'[v].pc = "begin" /\ v # 0 => FullIn(chain, Stored', worker'[v].h)
    BY DEF NotAhead, Busy, At, Full
  <2>1. CASE v = w
    BY <1>1, <1>2, <1>4, <2>1 DEF OrderInv, NotAhead, Busy
  <2>2. CASE v # w
    BY <1>1, <1>2, <1>4, <2>2 DEF OrderInv, NotAhead, Busy, At
  <2> QED  BY <2>1, <2>2
<1>6. 0 \in Workers
  BY MainWorker
<1>7. MaxHeightOK'
  <2>1. CASE Full(maxHeight)
    BY <1>3, <1>4, <2>1 DEF MaxHeightOK, Full
  <2>2. CASE Busy(0) /\ maxHeight = worker[0].h
    <3>1. CASE w = 0 /\ rec.pc = "idle"
      BY <2>2, <3>1 DEF MaxHeightOK, Full
    <3>2. CASE ~(w = 0 /\ rec.pc = "idle")
      BY <1>1, <1>6, <2>2, <3>2 DEF MaxHeightOK, Busy
    <3> QED  BY <3>1, <3>2
  <2> QED  BY <2>1, <2>2 DEF OrderInv, MaxHeightOK
<1>8. LoopInOrder'
  <2>1. CASE w = 0
    <3>1. worker[0].h = loop.next - 1
      BY <2>1 DEF OrderInv, LoopInOrder
    <3> QED  BY <1>1, <1>6, <2>1, <3>1 DEF LoopInOrder, Busy, Full
  <2>2. CASE w # 0
    BY <1>1, <1>3, <1>4, <1>6, <2>2 DEF OrderInv, LoopInOrder, Busy, Full
  <2> QED  BY <2>1, <2>2
<1> QED  BY <1>5, <1>7, <1>8 DEF OrderInv

(* A step that leaves the pins and MaxHeight alone. *)
LEMMA WholeBlocksStay ==
  ASSUME TInv, OrderInv, chain' = chain, Stored' = Stored
  PROVE  WholeBlocks'
BY DEF OrderInv, WholeBlocks, Full

LEMMA FetchOrder ==
  ASSUME TInv, OrderInv, NEW w \in Workers, Fetch(w), chain' = chain
  PROVE  OrderInv'
<1> DEFINE rec == [worker[w] EXCEPT !.pc = "find"]
<1>1. worker[w] \in Local /\ Busy(w)
  BY DEF TInv, Fetch, TypeOK, Busy, At
<1>2. /\ rec \in Local /\ rec.pc = "find" /\ rec.h = worker[w].h
      /\ rec.stored = worker[w].stored
  BY <1>1 DEF Local
<1>3. worker' = [worker EXCEPT ![w] = rec] /\ maxHeight' = maxHeight /\ loop' = loop
  BY DEF Fetch
<1>4. Stored' = Stored
  BY DEF Fetch, Stored
<1>5. rec.stored => FullIn(chain, Stored', worker[w].h)
  BY <1>2, <1>4 DEF OrderInv, NotAhead, Full
<1> HIDE DEF rec
<1> QED  BY <1>1, <1>2, <1>3, <1>4, <1>5, WorkerOrder, WholeBlocksStay

LEMMA FindOrder ==
  ASSUME TInv, OrderInv, NEW w \in Workers, Find(w), chain' = chain
  PROVE  OrderInv'
<1> DEFINE found == Watched(w) \cap {at[p] : p \in Stored}
           on    == [worker[w] EXCEPT !.pc = "catch", !.found = found]
           rec   == IF found = {} THEN Then(w) ELSE on
<1>1. worker[w] \in Local /\ Busy(w)
  BY DEF TInv, Find, TypeOK, Busy, At
<1>2. found \subseteq Points
  BY DEF TInv, TypeOK
<1>3. on \in Local /\ on.pc = "catch" /\ on.h = worker[w].h /\ on.stored = worker[w].stored
  <2> HIDE DEF found
  <2> QED  BY <1>1, <1>2 DEF Local
<1>4. /\ rec \in Local /\ rec.pc # "begin" /\ (rec.pc # "idle" => rec.h = worker[w].h)
      /\ rec.stored => rec.pc # "idle"
      /\ rec.stored \/ rec.pc = "idle" => worker[w].stored
  <2> HIDE DEF found, on
  <2> QED  BY <1>1, <1>3, ThenTyped
<1>5. worker' = [worker EXCEPT ![w] = rec] /\ maxHeight' = maxHeight /\ loop' = loop
  BY DEF Find
<1>6. Stored' = Stored
  BY DEF Find, Stored
<1>7. rec.stored \/ rec.pc = "idle" => FullIn(chain, Stored', worker[w].h)
  <2> HIDE DEF rec
  <2> QED  BY <1>4, <1>6 DEF OrderInv, NotAhead, Full
<1> HIDE DEF rec
<1> QED  BY <1>1, <1>4, <1>5, <1>6, <1>7, WorkerOrder, WholeBlocksStay

LEMMA CatchOrder ==
  ASSUME TInv, OrderInv, NEW w \in Workers, Catch(w), chain' = chain
  PROVE  OrderInv'
<1> DEFINE caught == worker[w].found \cap SpentBy(block)
           on     == [worker[w] EXCEPT !.pc = "move", !.found = caught, !.left = caught]
           rec    == IF caught = {} THEN Then(w) ELSE on
<1>1. worker[w] \in Local /\ Busy(w)
  BY DEF TInv, Catch, TypeOK, Busy, At
<1>2. caught \subseteq Points
  BY DEF TInv, TypeOK, IsChain, SpentBy
<1>3. on \in Local /\ on.pc = "move" /\ on.h = worker[w].h /\ on.stored = worker[w].stored
  <2> HIDE DEF caught
  <2> QED  BY <1>1, <1>2 DEF Local
<1>4. /\ rec \in Local /\ rec.pc # "begin" /\ (rec.pc # "idle" => rec.h = worker[w].h)
      /\ rec.stored => rec.pc # "idle"
      /\ rec.stored \/ rec.pc = "idle" => worker[w].stored
  <2> HIDE DEF caught, on
  <2> QED  BY <1>1, <1>3, ThenTyped
<1>5. worker' = [worker EXCEPT ![w] = rec] /\ maxHeight' = maxHeight /\ loop' = loop
  BY DEF Catch
<1>6. Stored' = Stored
  BY DEF Catch, Stored
<1>7. rec.stored \/ rec.pc = "idle" => FullIn(chain, Stored', worker[w].h)
  <2> HIDE DEF rec
  <2> QED  BY <1>4, <1>6 DEF OrderInv, NotAhead, Full
<1> HIDE DEF rec
<1> QED  BY <1>1, <1>4, <1>5, <1>6, <1>7, WorkerOrder, WholeBlocksStay

LEMMA MoveOrder ==
  ASSUME TInv, OrderInv, NEW w \in Workers, Move(w), chain' = chain
  PROVE  OrderInv'
<1>1. PICK o \in worker[w].left : worker' = [worker EXCEPT ![w].left = @ \ {o}]
  BY DEF Move
<1> DEFINE rec == [worker[w] EXCEPT !.left = @ \ {o}]
<1>2. worker[w] \in Local /\ worker[w].pc = "move" /\ Busy(w)
  BY DEF TInv, Move, TypeOK, Busy, At
<1>3. /\ rec \in Local /\ rec.pc = "move" /\ rec.h = worker[w].h
      /\ rec.stored = worker[w].stored
  BY <1>2 DEF Local
<1>4. worker' = [worker EXCEPT ![w] = rec] /\ maxHeight' = maxHeight /\ loop' = loop
  BY <1>1 DEF Move
<1>5. Stored' = Stored
  BY MoveTInv
<1>6. rec.stored => FullIn(chain, Stored', worker[w].h)
  BY <1>3, <1>5 DEF OrderInv, NotAhead, Full
<1> HIDE DEF rec
<1> QED  BY <1>2, <1>3, <1>4, <1>5, <1>6, WorkerOrder, WholeBlocksStay

LEMMA RecordOrder ==
  ASSUME TInv, OrderInv, NEW w \in Workers, Record(w), chain' = chain
  PROVE  OrderInv'
<1>1. worker[w] \in Local /\ Busy(w)
  BY DEF TInv, Record, TypeOK, Busy, At
<1>2. /\ Then(w) \in Local /\ Then(w).pc # "begin"
      /\ Then(w).pc # "idle" => Then(w).h = worker[w].h
      /\ ~Then(w).stored
      /\ Then(w).pc = "idle" => worker[w].stored
  BY <1>1, ThenTyped
<1>3. worker' = [worker EXCEPT ![w] = Then(w)] /\ maxHeight' = maxHeight /\ loop' = loop
  BY DEF Record
<1>4. Stored' = Stored
  BY DEF Record, Stored
<1>5. Then(w).pc = "idle" => FullIn(chain, Stored', worker[w].h)
  BY <1>2, <1>4 DEF OrderInv, NotAhead, Full
<1> QED  BY <1>1, <1>2, <1>3, <1>4, <1>5, WorkerOrder, WholeBlocksStay

LEMMA StoreOrder ==
  ASSUME TInv, OrderInv, NEW w \in Workers, Store(w), chain' = chain
  PROVE  OrderInv'
<1> DEFINE new == PinsOf(worker[w].h)
           on  == [worker[w] EXCEPT !.pc = "find", !.stored = TRUE]
           rec == IF new = {} THEN Idle ELSE on
<1>1. worker[w] \in Local /\ Busy(w) /\ worker[w].h \in Heights
  BY DEF TInv, Store, TypeOK, WorkersOK, Busy, At
<1>2. Stored' = Stored \cup new
  BY StoreTInv
<1>3. FullIn(chain, Stored', worker[w].h)
  <2>1. FullIn(chain, Stored, worker[w].h - 1)
    BY <1>1 DEF OrderInv, NotAhead, Full
  <2>2. \A q \in Pins : chain.pin[q].h \in Int
    BY ConstantsAssumption DEF TInv, TypeOK, IsChain, Heights
  <2>3. worker[w].h \in Int /\ Start \in Int
    BY <1>1, ConstantsAssumption DEF Heights
  <2> QED  BY <1>2, <2>1, <2>2, <2>3 DEF FullIn, PinsOf
<1>4. WholeBlocks'
  <2> SUFFICES ASSUME NEW p \in Stored' PROVE FullIn(chain, Stored', chain.pin[p].h)
    BY DEF WholeBlocks, Full
  <2>1. CASE p \in Stored
    <3>1. Full(chain.pin[p].h) /\ p \in Pins
      BY <2>1 DEF OrderInv, WholeBlocks, TInv, TypeOK
    <3>2. chain.pin[p].h \in Int /\ IsChain(chain)
      BY <3>1, ConstantsAssumption DEF TInv, TypeOK, IsChain, Heights
    <3> QED  BY <1>2, <3>1, <3>2, FullBelow DEF Full
  <2>2. CASE p \in new
    BY <1>3, <2>2 DEF PinsOf
  <2> QED  BY <1>2, <2>1, <2>2
<1>5. on \in Local /\ on.pc = "find" /\ on.h = worker[w].h
  BY <1>1 DEF Local
<1>6. worker' = [worker EXCEPT ![w] = rec] /\ maxHeight' = maxHeight /\ loop' = loop
  BY DEF Store
<1>7. /\ rec \in Local /\ rec.pc # "begin" /\ (rec.pc # "idle" => rec.h = worker[w].h)
      /\ rec.stored => rec.pc # "idle"
  <2> HIDE DEF on
  <2> QED  BY <1>5, IdleTyped
<1>8. Stored \subseteq Stored'
  BY <1>2
<1> HIDE DEF rec
<1> QED  BY <1>1, <1>3, <1>4, <1>6, <1>7, <1>8, WorkerOrder

(* MaxHeight moves to the worker's height: stored already, unless it is the main loop's. *)
LEMMA BeginOrder ==
  ASSUME TInv, OrderInv, NEW w \in Workers, Begin(w), chain' = chain
  PROVE  OrderInv'
<1> DEFINE rec == [worker[w] EXCEPT !.pc = "fetch"]
<1>1. worker[w] \in Local /\ At(w, "begin") /\ Busy(w)
  BY DEF TInv, Begin, TypeOK, Busy, At
<1>2. /\ rec.pc = "fetch" /\ rec.h = worker[w].h /\ rec.stored = worker[w].stored
  BY <1>1 DEF Local
<1>3. \A v \in Workers : worker'[v] = IF v = w THEN rec ELSE worker[v]
  BY DEF Begin, TInv, TypeOK
<1>4. Stored' = Stored /\ loop' = loop /\ maxHeight' = worker[w].h
  BY DEF Begin, Stored
<1>5. \A n : Full(n) = FullIn(chain, Stored', n)
  BY <1>4 DEF Full
<1> HIDE DEF rec
<1>6. NotAhead'
  <2> SUFFICES ASSUME NEW v \in Workers
               PROVE  /\ worker'[v].pc # "idle" => FullIn(chain, Stored', worker'[v].h - 1)
                      /\ worker'[v].stored => FullIn(chain, Stored', worker'[v].h)
                      /\ worker'[v].pc = "begin" /\ v # 0 => FullIn(chain, Stored', worker'[v].h)
    BY DEF NotAhead, Busy, At, Full
  <2>1. CASE v = w
    BY <1>1, <1>2, <1>3, <1>5, <2>1 DEF OrderInv, NotAhead, Busy
  <2>2. CASE v # w
    BY <1>3, <1>5, <2>2 DEF OrderInv, NotAhead, Busy, At
  <2> QED  BY <2>1, <2>2
<1>7. 0 \in Workers
  BY MainWorker
<1>8. MaxHeightOK'
  <2>1. CASE w = 0
    BY <1>2, <1>3, <1>4, <1>7, <2>1 DEF MaxHeightOK, Busy
  <2>2. CASE w # 0
    BY <1>1, <1>4, <1>5, <2>2 DEF OrderInv, NotAhead, MaxHeightOK, Full
  <2> QED  BY <2>1, <2>2
<1>9. LoopInOrder'
  <2>1. CASE w = 0
    BY <1>1, <1>2, <1>3, <1>4, <1>7, <2>1 DEF OrderInv, LoopInOrder, Busy
  <2>2. CASE w # 0
    BY <1>3, <1>4, <1>5, <1>7, <2>2 DEF OrderInv, LoopInOrder, Busy, Full
  <2> QED  BY <2>1, <2>2
<1> QED  BY <1>4, <1>6, <1>8, <1>9, WholeBlocksStay DEF OrderInv

(* A call for a block up to MaxHeight: at most for one that is not stored. *)
LEMMA ReindexOrder ==
  ASSUME TInv, OrderInv, NEW w \in Workers, NEW h \in Heights, Reindex(w, h), ~ahead',
         chain' = chain
  PROVE  OrderInv'
<1> DEFINE rec == [Idle EXCEPT !.pc = "fetch", !.h = h]
<1>1. rec.pc = "fetch" /\ rec.h = h /\ ~rec.stored
  BY WorkerAt
<1>2. \A v \in Workers : worker'[v] = IF v = w THEN rec ELSE worker[v]
  BY DEF Reindex, TInv, TypeOK
<1>3. /\ Stored' = Stored /\ loop' = loop /\ maxHeight' = maxHeight
      /\ h <= maxHeight /\ w # 0
  <2>1. ~(h > maxHeight)
    BY DEF Reindex
  <2>2. h \in Int /\ maxHeight \in Int
    BY ConstantsAssumption DEF TInv, TypeOK, Heights
  <2> QED  BY <2>1, <2>2 DEF Reindex, Stored
<1>4. \A n : Full(n) = FullIn(chain, Stored', n)
  BY <1>3 DEF Full
<1> HIDE DEF rec
<1>5. 0 \in Workers /\ IsChain(chain)
  BY MainWorker DEF TInv, TypeOK
<1>6. h - 1 \in Int /\ maxHeight \in Int /\ maxHeight - 1 \in Int /\ h - 1 <= maxHeight - 1
  BY <1>3, ConstantsAssumption DEF TInv, TypeOK, Heights
<1>7. FullIn(chain, Stored, maxHeight - 1)
  <2>1. CASE Full(maxHeight)
    BY <1>5, <1>6, <2>1, FullBelow DEF Full
  <2>2. CASE Busy(0) /\ maxHeight = worker[0].h
    BY <1>5, <2>2 DEF OrderInv, NotAhead, Full
  <2> QED  BY <2>1, <2>2 DEF OrderInv, MaxHeightOK
<1>8. FullIn(chain, Stored', h - 1)
  BY <1>3, <1>5, <1>6, <1>7, FullBelow
<1>9. NotAhead'
  <2> SUFFICES ASSUME NEW v \in Workers
               PROVE  /\ worker'[v].pc # "idle" => FullIn(chain, Stored', worker'[v].h - 1)
                      /\ worker'[v].stored => FullIn(chain, Stored', worker'[v].h)
                      /\ worker'[v].pc = "begin" /\ v # 0 => FullIn(chain, Stored', worker'[v].h)
    BY DEF NotAhead, Busy, At, Full
  <2>1. CASE v = w
    BY <1>1, <1>2, <1>8, <2>1
  <2>2. CASE v # w
    BY <1>2, <1>4, <2>2 DEF OrderInv, NotAhead, Busy, At
  <2> QED  BY <2>1, <2>2
<1>10. worker'[0] = worker[0]
  BY <1>2, <1>3, <1>5
<1>11. MaxHeightOK' /\ LoopInOrder'
  BY <1>3, <1>4, <1>10 DEF OrderInv, MaxHeightOK, LoopInOrder, Busy, Full
<1> QED  BY <1>3, <1>9, <1>11, WholeBlocksStay DEF OrderInv

(* A round starts after MaxHeight, which a restart reads from the pins. *)
LEMMA SyncOrder ==
  ASSUME TInv, OrderInv, Sync, chain' = chain
  PROVE  OrderInv'
<1>1. Stored' = Stored /\ worker' = worker /\ ~Busy(0)
  BY DEF Sync, LoopDone, Stored, Busy, At
<1>2. \A n : Full(n) = FullIn(chain, Stored', n)
  BY <1>1 DEF Full
<1>3. TInv'
  BY SyncTInv
<1>4. /\ maxHeight' \in 0..Tip /\ best \in Start..Tip /\ Start \in Nat /\ Tip \in Nat
      /\ IsChain(chain)
  BY <1>3, ConstantsAssumption DEF TInv, TypeOK
<1>5. Full(maxHeight')
  <2>1. Full(maxHeight)
    BY <1>1 DEF OrderInv, MaxHeightOK
  <2>2. CASE maxHeight' = HighestStored
    <3>1. CASE HighestStored = 0
      BY <1>4, <2>2, <3>1, FullAtStart DEF Full
    <3>2. CASE \E p \in Stored : chain.pin[p].h = HighestStored
      BY <2>2, <3>2 DEF OrderInv, WholeBlocks
    <3> QED  BY <3>1, <3>2, HighestStoredIs DEF TInv
  <2>3. CASE maxHeight' = maxHeight
    BY <2>1, <2>3
  <2> QED  BY <2>2, <2>3 DEF Sync
<1>6. Full(loop'.next - 1)
  <2>1. CASE maxHeight' >= best
    <3>1. loop'.next = best + 1
      BY <1>4, <2>1, RoundTyped DEF Sync
    <3>2. loop'.next - 1 = best
      BY <1>4, <3>1
    <3>3. Full(best)
      BY <1>4, <1>5, <2>1, FullBelow DEF Full
    <3> QED  BY <3>2, <3>3
  <2>2. CASE ~(maxHeight' >= best)
    <3> DEFINE from == Max({maxHeight', Start})
    <3>1. loop' = Round(from, best)
      BY <2>2 DEF Sync
    <3>2. from \in {maxHeight', Start}
      BY <1>4, MaxOfTwo
    <3> HIDE DEF from
    <3>3. from \in Int /\ loop'.next - 1 = from
      BY <1>4, <3>1, <3>2 DEF Round
    <3>4. Full(Start)
      BY <1>4, FullAtStart DEF Full
    <3> QED  BY <1>5, <3>2, <3>3, <3>4
  <2> QED  BY <2>1, <2>2
<1>7. NotAhead'
  BY <1>1, <1>2 DEF OrderInv, NotAhead, Busy, At, Full
<1>8. MaxHeightOK' /\ LoopInOrder'
  BY <1>1, <1>2, <1>5, <1>6 DEF MaxHeightOK, LoopInOrder, Busy, Full
<1> QED  BY <1>1, <1>7, <1>8, WholeBlocksStay DEF OrderInv

LEMMA TakeNextOrder ==
  ASSUME TInv, OrderInv, TakeNext, chain' = chain
  PROVE  OrderInv'
<1> DEFINE rec == [Idle EXCEPT !.pc = "begin", !.h = loop.next]
<1>1. loop.next \in Heights
  BY ConstantsAssumption DEF TakeNext, TInv, TypeOK, Heights
<1>2. rec.pc = "begin" /\ rec.h = loop.next /\ ~rec.stored
  BY <1>1, WorkerAt
<1>3. \A v \in Workers : worker'[v] = IF v = 0 THEN rec ELSE worker[v]
  BY DEF TakeNext, TInv, TypeOK
<1>4. /\ Stored' = Stored /\ loop'.next = loop.next + 1 /\ maxHeight' = maxHeight
      /\ ~Busy(0)
  BY DEF TakeNext, Stored, Busy, At, TInv, TypeOK
<1>5. \A n : Full(n) = FullIn(chain, Stored', n)
  BY <1>4 DEF Full
<1> HIDE DEF rec
<1>6. Full(maxHeight) /\ Full(loop.next - 1)
  BY <1>4 DEF OrderInv, MaxHeightOK, LoopInOrder
<1>7. NotAhead'
  <2> SUFFICES ASSUME NEW v \in Workers
               PROVE  /\ worker'[v].pc # "idle" => FullIn(chain, Stored', worker'[v].h - 1)
                      /\ worker'[v].stored => FullIn(chain, Stored', worker'[v].h)
                      /\ worker'[v].pc = "begin" /\ v # 0 => FullIn(chain, Stored', worker'[v].h)
    BY DEF NotAhead, Busy, At, Full
  <2>1. CASE v = 0
    BY <1>2, <1>3, <1>5, <1>6, <2>1
  <2>2. CASE v # 0
    BY <1>3, <1>5, <2>2 DEF OrderInv, NotAhead, Busy, At
  <2> QED  BY <2>1, <2>2
<1>8. worker'[0] = rec
  BY <1>3, MainWorker
<1>9. loop'.next - 1 = loop.next
  BY <1>1, <1>4, ConstantsAssumption DEF Heights
<1>10. MaxHeightOK' /\ LoopInOrder'
  BY <1>2, <1>4, <1>5, <1>6, <1>8, <1>9 DEF MaxHeightOK, LoopInOrder, Busy, Full
<1> QED  BY <1>4, <1>7, <1>10, WholeBlocksStay DEF OrderInv

(* The goroutines of a round repeat blocks before the one just stored. *)
LEMMA SpawnOrder ==
  ASSUME TInv, OrderInv, Spawn, chain' = chain
  PROVE  OrderInv'
<1>1. /\ Stored' = Stored /\ loop'.next = loop.next /\ maxHeight' = maxHeight
      /\ loop.next > loop.to /\ loop.spawn
  BY DEF Spawn, Stored, TInv, TypeOK
<1>2. \A n : Full(n) = FullIn(chain, Stored', n)
  BY <1>1 DEF Full
<1>3. 0 \in Workers /\ IsChain(chain)
  BY MainWorker DEF TInv, TypeOK
<1>4. ~Busy(0)
  BY <1>3 DEF Spawn, Busy, At
<1>5. Full(maxHeight) /\ Full(loop.next - 1)
  BY <1>4 DEF OrderInv, MaxHeightOK, LoopInOrder
<1>6. loop.to \in Start..Tip /\ loop.to > Start /\ loop.next \in 1..(Tip + 1)
  BY <1>1 DEF TInv, TypeOK, LoopOK
<1>7. \A n \in Int : n <= loop.to => Full(n)
  <2>1. loop.next - 1 \in Int /\ \A n \in Int : n <= loop.to => n <= loop.next - 1
    BY <1>1, <1>6, ConstantsAssumption
  <2> QED  BY <1>3, <1>5, <2>1, FullBelow DEF Full
<1>8. worker'[0] = Idle
  BY <1>3 DEF Spawn
<1>9. ASSUME NEW v \in Workers, v # 0
      PROVE  /\ worker'[v].pc = "begin" /\ ~worker'[v].stored
             /\ FullIn(chain, Stored', worker'[v].h - 1) /\ FullIn(chain, Stored', worker'[v].h)
  <2>1. v \in 1..Back
    BY <1>9 DEF Workers
  <2>2. loop.to - v \in Heights
    BY <1>6, <2>1, ConstantsAssumption DEF Heights
  <2> DEFINE begun == [Idle EXCEPT !.pc = "begin", !.h = loop.to - v]
  <2>3. worker'[v] = begun
    BY <1>9 DEF Spawn
  <2>4. begun.pc = "begin" /\ ~begun.stored /\ begun.h = loop.to - v
    BY <2>2, WorkerAt
  <2> HIDE DEF begun
  <2>5. /\ loop.to - v \in Int /\ loop.to - v - 1 \in Int
        /\ loop.to - v <= loop.to /\ loop.to - v - 1 <= loop.to
    BY <1>6, <2>1, ConstantsAssumption
  <2> QED  BY <1>2, <1>7, <2>3, <2>4, <2>5
<1>10. NotAhead'
  <2> SUFFICES ASSUME NEW v \in Workers
               PROVE  /\ worker'[v].pc # "idle" => FullIn(chain, Stored', worker'[v].h - 1)
                      /\ worker'[v].stored => FullIn(chain, Stored', worker'[v].h)
                      /\ worker'[v].pc = "begin" /\ v # 0 => FullIn(chain, Stored', worker'[v].h)
    BY DEF NotAhead, Busy, At, Full
  <2>1. CASE v = 0
    BY <1>8, <2>1, IdleTyped
  <2>2. CASE v # 0
    BY <1>9, <2>2
  <2> QED  BY <2>1, <2>2
<1>11. MaxHeightOK' /\ LoopInOrder'
  BY <1>1, <1>2, <1>5, <1>8, IdleTyped DEF MaxHeightOK, LoopInOrder, Busy, Full
<1> QED  BY <1>1, <1>10, <1>11, WholeBlocksStay DEF OrderInv

LEMMA CrashOrder ==
  ASSUME TInv, OrderInv, Crash, chain' = chain
  PROVE  OrderInv'
<1>1. Stored' = Stored /\ \A w \in Workers : worker'[w] = Idle
  BY DEF Crash, Stored
<1>2. Start \in Nat /\ Start \in 0..Tip /\ Start \in Start..Tip
  BY ConstantsAssumption
<1>3. loop'.next - 1 = Start /\ maxHeight' = 0
  <2>1. loop'.next = Start + 1
    BY <1>2, RoundTyped DEF Crash
  <2> QED  BY <1>2, <2>1 DEF Crash
<1>4. FullIn(chain, Stored, 0) /\ FullIn(chain, Stored, Start)
  BY <1>2, FullAtStart DEF TInv, TypeOK
<1>5. NotAhead'
  BY <1>1, IdleTyped DEF NotAhead, Busy, At
<1>6. MaxHeightOK' /\ LoopInOrder'
  BY <1>1, <1>3, <1>4, IdleTyped, MainWorker DEF MaxHeightOK, LoopInOrder, Busy, Full
<1> QED  BY <1>1, <1>5, <1>6, WholeBlocksStay DEF OrderInv

LEMMA OrderStays ==
  ASSUME TInv, OrderInv, chain' = chain, UNCHANGED <<maxHeight, at, loop, worker>>
  PROVE  OrderInv'
BY DEF OrderInv, WholeBlocks, NotAhead, MaxHeightOK, LoopInOrder, Busy, At, Full, Stored

(* A call ahead of the loop is never forgotten. *)
LEMMA AheadStays == [Next]_vars /\ ahead => ahead'
BY DEF Next, NewBlock, Main, Sync, TakeNext, Spawn, Crash, Run, Begin, Fetch, NoBlock, Find,
       Catch, Move, Record, Store, FetchFails, Reindex, counters, vars

LEMMA IInvStep == IInv /\ [Next]_vars => IInv'
<1> SUFFICES ASSUME IInv, [Next]_vars PROVE IInv'
  OBVIOUS
<1>1. chain' = chain /\ TInv /\ TInv' /\ ReachInv /\ ReachInv'
  BY TInvStep, ReachStep DEF IInv, Next, vars
<1>2. SUFFICES ASSUME ~chain.when.fails, ~ahead' PROVE OrderInv'
  BY <1>1 DEF IInv
<1>3. ~ahead /\ OrderInv
  BY <1>2, AheadStays DEF IInv
<1>4. CASE UNCHANGED vars
  BY <1>1, <1>3, <1>4, OrderStays DEF vars
<1>5. CASE Next
  <2>1. CASE NewBlock
    BY <1>1, <1>3, <2>1, OrderStays DEF NewBlock
  <2>2. CASE Main
    BY <1>1, <1>3, <2>2, SyncOrder, TakeNextOrder, SpawnOrder DEF Main
  <2>3. CASE Crash
    BY <1>1, <1>3, <2>3, CrashOrder
  <2>4. ASSUME NEW w \in Workers, Run(w) PROVE OrderInv'
    <3>1. best \in Int /\ worker[w].h \in Int
      BY <1>1, ConstantsAssumption DEF TInv, TypeOK, Local
    <3>2. ~NoBlock(w)
      BY <1>1, <1>3, <3>1 DEF NoBlock, ReachInv, Busy, At
    <3> QED
      BY <1>1, <1>3, <2>4, <3>2, BeginOrder, FetchOrder, FindOrder, CatchOrder, MoveOrder,
         RecordOrder, StoreOrder
      DEF Run
  <2>5. ASSUME NEW w \in Workers, FetchFails(w) PROVE OrderInv'
    BY <1>2, <2>5 DEF FetchFails
  <2>6. ASSUME NEW w \in Workers, NEW h \in Heights, Reindex(w, h) PROVE OrderInv'
    BY <1>1, <1>2, <1>3, <2>6, ReindexOrder
  <2> QED  BY <1>5, <2>1, <2>2, <2>3, <2>4, <2>5, <2>6 DEF Next
<1> QED  BY <1>4, <1>5

(***************************************************************************)
(* "Discover MetaID protocol data in block order", for any number of       *)
(* goroutines, any chain, rounds that overlap and restarts: while fetches  *)
(* succeed and nobody has had a block indexed after the one the loop is    *)
(* at, a pin is stored only when the pins of all earlier blocks are.       *)
(* Blocks up to MaxHeight may be indexed again at any time.                *)
(***************************************************************************)
THEOREM BlockOrder == Spec => []InOrder
<1>1. Init => IInv
  BY InitTInv, InitReach, InitOrder DEF IInv
<1>2. IInv => InOrder
  <2> SUFFICES ASSUME IInv, ~chain.when.fails, ~ahead, NEW p \in Stored, NEW q \in Pins,
                      chain.pin[q].h \in (Start + 1)..(chain.pin[p].h - 1)
               PROVE  q \in Stored
    BY DEF InOrder
  <2>1. FullIn(chain, Stored, chain.pin[p].h)
    BY DEF IInv, OrderInv, WholeBlocks, Full
  <2>2. p \in Pins
    BY DEF IInv, TInv, TypeOK
  <2>3. chain.pin[p].h \in Int /\ chain.pin[q].h \in Int
    BY <2>2, ConstantsAssumption DEF IInv, TInv, TypeOK, IsChain, Heights
  <2> QED  BY <2>1, <2>3, ConstantsAssumption DEF FullIn
<1> QED  BY <1>1, <1>2, IInvStep, PTL DEF Spec
----------------------------------------------------------------------------
(***************************************************************************)
(* Rounds that end before the next one begins.                             *)
(***************************************************************************)

Apart == Calm /\ FromStart

(* The blocks the main loop is through with in this round, or was before it. *)
Done == IF Busy(0) THEN worker[0].h - 1 ELSE loop.next - 1

(* What a goroutine has found, and which blocks the round is about. *)
RoundInv ==
  /\ Start <= Done /\ loop.next - 1 <= loop.to /\ loop.to <= best
  /\ maxHeight <= loop.to /\ block <= loop.to
  /\ maxHeight = 0 => Stored = {} /\ \A w \in Workers : worker[w].pc \in {"idle", "begin"}
  /\ \A w \in Workers :
       /\ Busy(w) => worker[w].h <= loop.to
       /\ Busy(w) /\ w # 0 => ~Busy(0) /\ loop.next > loop.to /\ ~loop.spawn
       /\ At(w, "catch") => worker[w].found \subseteq Watched(w)
       /\ At(w, "move") => worker[w].left \subseteq worker[w].found
       /\ At(w, "store") => ~worker[w].stored
  /\ worker[0].pc \in {"find", "catch", "move", "store"} => block = worker[0].h
  /\ At(0, "move") => worker[0].found \subseteq SpentBy(worker[0].h)

(* Whether a pin ever leaves the output it was created in. *)
Leaves(r) == First(r) \in DOMAIN chain.spent

Recorded(o) == chain.spent[o].as \in DOMAIN history

Underway(o) == \E w \in Workers : At(w, "move") /\ o \in worker[w].found

(* The pins the main loop's block spends: found, or their transfers recorded. *)
MainRecords ==
  \A r \in Stored : First(r) \in SpentBy(worker[0].h) =>
    /\ At(0, "catch") \/ At(0, "move") => First(r) \in worker[0].found \/ Recorded(First(r))
    /\ At(0, "store") => Recorded(First(r))
    /\ worker[0].stored /\ chain.pin[r].h # worker[0].h => Recorded(First(r))

(* A pin leaves only with a record of it, and has left once its block is done. *)
HeightInv ==
  /\ TransferHeightRight
  /\ \A w \in Workers : At(w, "move") =>
       \A o \in worker[w].found : chain.spent[o].h = worker[w].h \/ Recorded(o)
  /\ \A r \in Stored :
       \/ at[r] = First(r)
       \/ Leaves(r) /\ (Recorded(First(r)) \/ Underway(First(r)))
  /\ \A r \in Stored : Leaves(r) /\ chain.spent[First(r)].h <= Done => Recorded(First(r))
  /\ MainRecords

(* Every stored pin is where it is after block n. *)
AfterBlock(n) == \A p \in Stored : chain.pin[p].h <= n /\ at[p] = TrueOutput(p, n)

(* The goroutines find no pin that is still to be moved. *)
Quiet(n) ==
  \A w \in Workers :
    /\ ~At(w, "move")
    /\ At(w, "catch") => worker[w].found \subseteq {TrueOutput(p, n) : p \in Stored}

(* No block is being handled for the first time: the last one was n. *)
Resting(n) == AfterBlock(n) /\ Quiet(n) /\ (Busy(0) => worker[0].h <= n)

(* What a goroutine's record makes handleTransfer look at. *)
WatchedBy(rec) == IF rec.stored THEN {First(p) : p \in PinsOf(rec.h)} ELSE SpentBy(rec.h)

(* The outputs from which a goroutine with this record has still to move pins. *)
LeftFor(rec) ==
  CASE rec.pc = "catch" -> rec.found
    [] rec.pc = "move" -> rec.left
    [] rec.pc = "store" -> {}
    [] OTHER -> WatchedBy(rec)

(* Block n + 1 is being handled for the first time: some pins are moved already. *)
Placing(n) ==
  /\ Busy(0) /\ worker[0].h = n + 1
  /\ \A p \in Stored :
       /\ chain.pin[p].h <= n + 1 /\ (chain.pin[p].h = n + 1 => worker[0].stored)
       /\ at[p] = IF TrueOutput(p, n) \in LeftFor(worker[0]) THEN TrueOutput(p, n)
                  ELSE TrueOutput(p, n + 1)

(* The blocks up to n have been handled, in this round or before it. *)
Handled(n) == Done <= n /\ n <= loop.to /\ Full(n)

PlaceInv == \E n \in Start..Tip : Handled(n) /\ (Resting(n) \/ Placing(n))

SettledInv == Apart => RoundInv /\ HeightInv /\ (Plain => PlaceInv)

----------------------------------------------------------------------------
(* Rounds. *)

LEMMA WatchedIs ==
  \A w \in Workers : Watched(w) = WatchedBy(worker[w])
BY DEF Watched, WatchedBy, First

(* Types that the proofs below keep needing. *)
LEMMA RoundTypes ==
  ASSUME TInv
  PROVE  /\ 0 \in Workers /\ \A w \in Workers : worker[w] \in Local /\ worker[w].h \in Int
         /\ loop.next \in Int /\ loop.to \in Int /\ best \in Int /\ maxHeight \in Nat
         /\ block \in Int /\ Start \in Nat /\ Tip \in Nat /\ loop.to \in Start..Tip
         /\ loop.spawn \in BOOLEAN
         /\ \A p \in Pins : chain.pin[p].h \in 1..Tip /\ First(p) \in Points
         /\ \A o \in DOMAIN chain.spent : chain.spent[o].h \in 1..Tip
BY MainWorker, ConstantsAssumption
DEF TInv, TypeOK, Local, IsChain, Heights, Spending, First

(* A step of a goroutine that has begun. *)
LEMMA WorkerRound ==
  ASSUME TInv, OrderInv, RoundInv, NEW w \in Workers, Busy(w), NEW rec \in Local,
         chain' = chain, loop' = loop, best' = best, worker' = [worker EXCEPT ![w] = rec],
         rec.pc # "begin", rec.pc # "idle" => rec.h = worker[w].h,
         block' \in Int, block' <= loop.to, maxHeight' \in Nat, maxHeight' <= loop.to, maxHeight' # 0,
         rec.pc = "catch" => rec.found \subseteq WatchedBy(rec),
         rec.pc = "move" => rec.left \subseteq rec.found,
         rec.pc = "store" => ~rec.stored,
         w = 0 /\ rec.pc \in {"find", "catch", "move", "store"} => block' = rec.h,
         w = 0 /\ rec.pc = "move" => rec.found \subseteq SpentBy(rec.h)
  PROVE  RoundInv'
<1>1. \A v \in Workers : worker'[v] = IF v = w THEN rec ELSE worker[v]
  BY DEF TInv, TypeOK
<1>2. Workers' = Workers /\ Start' = Start
  BY DEF Workers
<1>3. \A v \in Workers : Watched(v)' = WatchedBy(worker'[v]) /\ Watched(v) = WatchedBy(worker[v])
  BY DEF Watched, WatchedBy, First, PinsOf, SpentBy
<1>4. ASSUME NEW v \in Workers
      PROVE  /\ worker'[v].pc # "idle" => worker'[v].h <= loop.to
             /\ worker'[v].pc # "idle" /\ v # 0 =>
                  worker'[0].pc = "idle" /\ loop.next > loop.to /\ ~loop.spawn
             /\ worker'[v].pc = "catch" => worker'[v].found \subseteq WatchedBy(worker'[v])
             /\ worker'[v].pc = "move" => worker'[v].left \subseteq worker'[v].found
             /\ worker'[v].pc = "store" => ~worker'[v].stored
  <2>1. CASE v = w
    BY <1>1, <2>1, RoundTypes DEF RoundInv, Busy, At
  <2>2. CASE v # w
    <3>1. worker'[v] = worker[v]
      BY <1>1, <2>2
    <3>2. worker[v].pc = "catch" => worker[v].found \subseteq WatchedBy(worker[v])
      BY <1>3 DEF RoundInv, At
    <3>3. /\ worker[v].pc = "move" => worker[v].left \subseteq worker[v].found
          /\ worker[v].pc = "store" => ~worker[v].stored
      BY DEF RoundInv, At
    <3>4. worker[v].pc # "idle" => worker[v].h <= loop.to
      BY DEF RoundInv, Busy
    <3>5. worker[v].pc # "idle" /\ v # 0 => worker'[0].pc = "idle" /\ loop.next > loop.to /\ ~loop.spawn
      BY <1>1, RoundTypes DEF RoundInv, Busy
    <3> QED  BY <3>1, <3>2, <3>3, <3>4, <3>5
  <2> QED  BY <2>1, <2>2
<1>5. worker'[0] = (IF w = 0 THEN rec ELSE worker[0])
  BY <1>1, RoundTypes
<1>6. w # 0 => worker[0].pc = "idle"
  BY DEF RoundInv, Busy
<1>7. Start <= (IF worker'[0].pc # "idle" THEN worker'[0].h - 1 ELSE loop.next - 1)
  <2>1. CASE w = 0
    <3>1. worker[0].h = loop.next - 1 /\ Start <= worker[0].h - 1
      BY <2>1 DEF OrderInv, LoopInOrder, RoundInv, Done, Busy
    <3> QED  BY <1>5, <2>1, <3>1, RoundTypes
  <2>2. CASE w # 0
    BY <1>5, <1>6, <2>2 DEF RoundInv, Done, Busy
  <2> QED  BY <2>1, <2>2
<1>8. /\ worker'[0].pc \in {"find", "catch", "move", "store"} => block' = worker'[0].h
      /\ worker'[0].pc = "move" => worker'[0].found \subseteq SpentBy(worker'[0].h)
  BY <1>5, <1>6
<1>9. loop.next - 1 <= loop.to /\ loop.to <= best
  BY DEF RoundInv
<1>10. \A h : SpentBy(h)' = SpentBy(h)
  BY DEF SpentBy
<1> QED  BY <1>2, <1>3, <1>4, <1>7, <1>8, <1>9, <1>10 DEF RoundInv, Done, Busy, At

(* The blocks of a round are blocks the node has. *)
LEMMA HasBlock ==
  ASSUME TInv, RoundInv, NEW w \in Workers
  PROVE  ~NoBlock(w)
BY RoundTypes DEF RoundInv, NoBlock, Busy, At

LEMMA RunRound ==
  ASSUME TInv, OrderInv, RoundInv, NEW w \in Workers, Run(w), chain' = chain
  PROVE  RoundInv'
<1>1. Busy(w) /\ loop' = loop /\ best' = best
  BY HasBlock DEF Run, Begin, Fetch, Find, Catch, Move, Record, Store, Busy, At
<1>2. /\ worker[w].h \in Int /\ worker[w].h >= 1 /\ worker[w].h <= loop.to
      /\ block \in Int /\ block <= loop.to /\ maxHeight \in Nat /\ maxHeight <= loop.to
      /\ worker[w].pc # "begin" => maxHeight # 0
  BY <1>1, RoundTypes DEF RoundInv, TInv, WorkersOK, Heights, Busy
<1>3. w = 0 /\ worker[w].pc \in {"find", "catch", "move", "store"} => block = worker[w].h
  BY DEF RoundInv
<1>4. CASE Begin(w)
  <2>1. PICK rec : Goes(w, rec) /\ On(w, rec, "fetch")
    BY <1>4, BeginIs
  <2>2. block' = block /\ maxHeight' = worker[w].h
    BY <1>4 DEF Begin
  <2>3. /\ maxHeight' \in Nat /\ maxHeight' # 0 /\ maxHeight' <= loop.to
        /\ block' \in Int /\ block' <= loop.to
    BY <1>2, <2>2
  <2> QED  BY <1>1, <2>1, <2>3, WorkerRound DEF Goes, On
<1>5. CASE Fetch(w)
  <2>1. PICK rec : Goes(w, rec) /\ On(w, rec, "find")
    BY <1>5, FetchIs
  <2>2. block' = worker[w].h /\ maxHeight' = maxHeight /\ worker[w].pc = "fetch"
    BY <1>5 DEF Fetch, At
  <2> QED  BY <1>1, <1>2, <2>1, <2>2, WorkerRound DEF Goes, On
<1>6. CASE Find(w)
  <2>1. block' = block /\ maxHeight' = maxHeight /\ worker[w].pc = "find"
    BY <1>6 DEF Find, At
  <2>2. PICK rec : /\ Goes(w, rec)
                   /\ \/ Through(w, rec)
                      \/ On(w, rec, "catch") /\ rec.found \subseteq Watched(w)
    BY <1>6, FindIs
  <2>3. rec.pc = "catch" => rec.found \subseteq WatchedBy(rec)
    BY <2>2, WatchedIs DEF Through, On, WatchedBy
  <2>4. /\ rec.pc \in {"idle", "store", "catch"}
        /\ rec.pc # "idle" => rec.h = worker[w].h
        /\ rec.pc = "store" => ~rec.stored
    BY <2>2 DEF Through, On
  <2> QED  BY <1>1, <1>2, <1>3, <2>1, <2>2, <2>3, <2>4, WorkerRound DEF Goes
<1>7. CASE Catch(w)
  <2>1. block' = block /\ maxHeight' = maxHeight /\ worker[w].pc = "catch"
    BY <1>7 DEF Catch, At
  <2>2. PICK rec : /\ Goes(w, rec)
                   /\ \/ Through(w, rec)
                      \/ /\ On(w, rec, "move") /\ rec.left = rec.found
                         /\ rec.found \subseteq SpentBy(block)
    BY <1>7, CatchIs
  <2>3. /\ rec.pc \in {"idle", "store", "move"}
        /\ rec.pc # "idle" => rec.h = worker[w].h
        /\ rec.pc = "move" => rec.left \subseteq rec.found /\ rec.found \subseteq SpentBy(block)
        /\ rec.pc = "store" => ~rec.stored
    BY <2>2 DEF Through, On
  <2> QED  BY <1>1, <1>2, <1>3, <2>1, <2>2, <2>3, WorkerRound DEF Goes
<1>8. CASE Move(w)
  <2>1. block' = block /\ maxHeight' = maxHeight /\ worker[w].pc = "move"
    BY <1>8 DEF Move, At
  <2>2. PICK rec : /\ Goes(w, rec) /\ On(w, rec, "move")
                   /\ rec.found = worker[w].found /\ rec.left \subseteq worker[w].left
    BY <1>8, MoveIs
  <2>3. /\ worker[w].left \subseteq worker[w].found
        /\ w = 0 => worker[w].found \subseteq SpentBy(worker[w].h)
    BY <2>1 DEF RoundInv, At
  <2> QED  BY <1>1, <1>2, <1>3, <2>1, <2>2, <2>3, WorkerRound DEF Goes, On
<1>9. CASE Record(w)
  <2>1. block' = block /\ maxHeight' = maxHeight /\ worker[w].pc = "move"
    BY <1>9 DEF Record, At
  <2>2. PICK rec : Goes(w, rec) /\ Through(w, rec)
    BY <1>9, RecordIs
  <2> QED  BY <1>1, <1>2, <1>3, <2>1, <2>2, WorkerRound DEF Goes, Through
<1>10. CASE Store(w)
  <2>1. block' = block /\ maxHeight' = maxHeight /\ worker[w].pc = "store"
    BY <1>10 DEF Store, At
  <2>2. PICK rec : /\ Goes(w, rec) /\ rec.pc \in {"idle", "find"}
                   /\ rec.pc # "idle" => rec.h = worker[w].h
    BY <1>10, StoreIs
  <2> QED  BY <1>1, <1>2, <1>3, <2>1, <2>2, WorkerRound DEF Goes
<1> QED  BY <1>4, <1>5, <1>6, <1>7, <1>8, <1>9, <1>10, HasBlock DEF Run

(* A round goes to the best block, from no later a block than the loop is at. *)
LEMMA SyncIs ==
  ASSUME TInv, RoundInv, Calm, Sync
  PROVE  /\ worker' = worker /\ (\A w \in Workers : ~Busy(w)) /\ loop.next > loop.to
         /\ maxHeight' \in Nat /\ maxHeight' <= best
         /\ maxHeight' = 0 => Stored = {}
         /\ loop'.to = best
         /\ Start + 1 <= loop'.next /\ loop'.next <= loop.next /\ loop'.next <= best + 1
<1>1. worker' = worker /\ (\A w \in Workers : ~Busy(w)) /\ loop.next > loop.to
  BY DEF Calm, Sync, LoopDone, Busy, At
<1>2. /\ best \in Start..Tip /\ Start \in Nat /\ Start >= 1 /\ Tip \in Nat
      /\ maxHeight \in Nat /\ maxHeight <= loop.to /\ loop.to <= best
      /\ loop.to \in Int /\ loop.next \in Int
  BY RoundTypes, ConstantsAssumption DEF TInv, TypeOK, RoundInv
<1>3. /\ maxHeight' \in Nat /\ maxHeight' <= best
      /\ maxHeight' = 0 => Stored = {}
      /\ maxHeight' # 0 => maxHeight' < loop.next
  <2>1. CASE maxHeight = 0
    <3>1. Stored = {}
      BY <2>1 DEF RoundInv
    <3>2. HighestStored = 0
      BY <3>1, HighestStoredIs DEF TInv
    <3> QED  BY <1>2, <2>1, <3>1, <3>2 DEF Sync
  <2>2. CASE maxHeight # 0
    BY <1>1, <1>2, <2>2 DEF Sync
  <2> QED  BY <2>1, <2>2
<1>4. Start + 1 <= loop.next
  <2>1. 0 \in Workers
    BY MainWorker
  <2>2. Start <= loop.next - 1
    BY <1>1, <2>1 DEF RoundInv, Done
  <2> QED  BY <1>2, <2>2
<1>5. CASE maxHeight' >= best
  <2>1. loop' = Round(best, best)
    BY <1>5 DEF Sync
  <2>2. loop'.to = best /\ loop'.next = best + 1
    BY <2>1 DEF Round
  <2>3. Start + 1 <= loop'.next /\ loop'.next <= loop.next /\ loop'.next <= best + 1
    BY <1>2, <1>3, <1>5, <2>2
  <2> QED  BY <1>1, <1>3, <2>2, <2>3
<1>6. CASE ~(maxHeight' >= best)
  <2> DEFINE from == Max({maxHeight', Start})
  <2>1. loop' = Round(from, best)
    BY <1>6 DEF Sync
  <2>2. from \in {maxHeight', Start} /\ from >= Start
    BY <1>2, <1>3, MaxOfTwo
  <2> HIDE DEF from
  <2>3. loop'.to = best /\ loop'.next = from + 1
    BY <2>1 DEF Round
  <2>4. Start + 1 <= loop'.next /\ loop'.next <= loop.next /\ loop'.next <= best + 1
    BY <1>2, <1>3, <1>4, <2>2, <2>3
  <2> QED  BY <1>1, <1>3, <2>3, <2>4
<1> QED  BY <1>5, <1>6

LEMMA SyncRound ==
  ASSUME TInv, OrderInv, RoundInv, Calm, Sync, chain' = chain
  PROVE  RoundInv'
<1>1. TInv'
  BY SyncTInv
<1>2. Stored' = Stored /\ best' = best /\ block' = block /\ worker' = worker
  BY DEF Sync, Stored
<1>3. 0 \in Workers /\ \A w \in Workers : worker'[w].pc = "idle"
  BY SyncIs, MainWorker DEF Busy
<1>4. /\ Start \in Nat /\ best \in Int /\ Start <= best /\ block \in Int /\ block <= best
      /\ loop'.to \in Int /\ loop'.next \in Int
  BY <1>1, <1>2, RoundTypes DEF RoundInv, TInv, TypeOK
<1>5. /\ Start <= loop'.next - 1 /\ loop'.next - 1 <= loop'.to /\ loop'.to = best
      /\ maxHeight' <= loop'.to /\ (maxHeight' = 0 => Stored' = {})
  BY <1>2, <1>4, SyncIs
<1>6. Start <= Done'
  BY <1>3, <1>5 DEF Done, Busy
<1>7. \A w \in Workers : ~Busy(w)' /\ ~At(w, "catch")' /\ ~At(w, "move")' /\ ~At(w, "store")'
  BY <1>3 DEF Busy, At
<1> QED  BY <1>2, <1>3, <1>4, <1>5, <1>6, <1>7 DEF RoundInv, Workers, At

(* What the main loop does at the next block. *)
LEMMA TakeNextIs ==
  ASSUME TInv, RoundInv, TakeNext
  PROVE  /\ \A w \in Workers : ~Busy(w)
         /\ loop.next <= loop.to /\ loop'.next = loop.next + 1
         /\ loop'.to = loop.to /\ loop'.spawn = loop.spawn
         /\ worker'[0].pc = "begin" /\ worker'[0].h = loop.next /\ ~worker'[0].stored
         /\ \A w \in Workers \ {0} : worker'[w] = worker[w]
<1> DEFINE rec == [Idle EXCEPT !.pc = "begin", !.h = loop.next]
<1>1. loop.next \in Heights
  BY ConstantsAssumption DEF TakeNext, TInv, TypeOK, Heights
<1>2. rec.pc = "begin" /\ rec.h = loop.next /\ ~rec.stored
  BY <1>1, WorkerAt
<1>3. \A v \in Workers : worker'[v] = IF v = 0 THEN rec ELSE worker[v]
  BY DEF TakeNext, TInv, TypeOK
<1>4. loop.next <= loop.to /\ loop'.next = loop.next + 1 /\ loop'.to = loop.to /\ loop'.spawn = loop.spawn
  BY DEF TakeNext, TInv, TypeOK
<1> HIDE DEF rec
<1>5. 0 \in Workers /\ ~Busy(0)
  BY MainWorker DEF TakeNext, Busy, At
<1>6. \A w \in Workers : ~Busy(w)
  BY <1>4, <1>5, RoundTypes DEF RoundInv
<1> QED  BY <1>2, <1>3, <1>4, <1>5, <1>6

LEMMA TakeNextRound ==
  ASSUME TInv, OrderInv, RoundInv, TakeNext, chain' = chain
  PROVE  RoundInv'
<1>1. Stored' = Stored /\ best' = best /\ block' = block /\ maxHeight' = maxHeight
  BY DEF TakeNext, Stored
<1>2. 0 \in Workers /\ \A w \in Workers \ {0} : worker'[w].pc = "idle"
  BY TakeNextIs, MainWorker DEF Busy
<1>3. Done = loop.next - 1 /\ Done' = loop.next - 1
  BY <1>2, TakeNextIs DEF Done, Busy
<1>4. \A w \in Workers : worker'[w].pc \in {"idle", "begin"}
  BY <1>2, TakeNextIs
<1>5. \A w \in Workers : Busy(w)' => w = 0 /\ worker'[w].h <= loop'.to
  BY <1>2, TakeNextIs DEF Busy
<1>6. loop'.next - 1 <= loop'.to /\ loop'.to = loop.to
  BY TakeNextIs, RoundTypes
<1> QED  BY <1>1, <1>2, <1>3, <1>4, <1>5, <1>6 DEF RoundInv, Workers, At

(* The goroutines of a round begin blocks before the last. *)
LEMMA SpawnIs ==
  ASSUME TInv, RoundInv, Spawn
  PROVE  /\ \A w \in Workers : ~Busy(w)
         /\ loop.next > loop.to /\ loop'.next = loop.next
         /\ loop'.to = loop.to /\ ~loop'.spawn
         /\ worker'[0].pc = "idle" /\ ~worker'[0].stored
         /\ \A w \in Workers \ {0} : /\ worker'[w].pc = "begin" /\ ~worker'[w].stored
                                      /\ worker'[w].h \in Heights /\ worker'[w].h <= loop.to
<1>1. /\ \A w \in Workers : ~Busy(w)
      /\ loop.next > loop.to /\ loop'.next = loop.next /\ loop'.to = loop.to /\ ~loop'.spawn
  BY DEF Spawn, TInv, TypeOK, Busy, At
<1>2. worker'[0].pc = "idle" /\ ~worker'[0].stored
  BY MainWorker, IdleTyped DEF Spawn
<1>3. loop.to \in Start..Tip /\ loop.to > Start
  BY DEF Spawn, TInv, TypeOK, LoopOK
<1>4. ASSUME NEW w \in Workers \ {0}
      PROVE  /\ worker'[w].pc = "begin" /\ ~worker'[w].stored
             /\ worker'[w].h \in Heights /\ worker'[w].h <= loop.to
  <2>1. w \in 1..Back
    BY DEF Workers
  <2>2. loop.to - w \in Heights /\ loop.to - w <= loop.to
    BY <1>3, <2>1, ConstantsAssumption DEF Heights
  <2> DEFINE begun == [Idle EXCEPT !.pc = "begin", !.h = loop.to - w]
  <2>3. worker'[w] = begun
    BY DEF Spawn
  <2>4. begun.pc = "begin" /\ ~begun.stored /\ begun.h = loop.to - w
    BY <2>2, WorkerAt
  <2> HIDE DEF begun
  <2> QED  BY <2>2, <2>3, <2>4
<1> QED  BY <1>1, <1>2, <1>4

LEMMA SpawnRound ==
  ASSUME TInv, OrderInv, RoundInv, Spawn, chain' = chain
  PROVE  RoundInv'
<1>1. Stored' = Stored /\ best' = best /\ block' = block /\ maxHeight' = maxHeight
  BY DEF Spawn, Stored
<1>2. 0 \in Workers
  BY MainWorker
<1>3. Done' = loop.next - 1 /\ Done = loop.next - 1
  BY <1>2, SpawnIs DEF Done, Busy
<1>4. \A w \in Workers : worker'[w].pc \in {"idle", "begin"}
  BY SpawnIs
<1>5. \A w \in Workers : Busy(w)' => w # 0 /\ worker'[w].h <= loop'.to
  BY SpawnIs DEF Busy
<1>6. ~Busy(0)' /\ loop'.next > loop'.to
  BY SpawnIs DEF Busy
<1> QED  BY <1>1, <1>2, <1>3, <1>4, <1>5, <1>6, SpawnIs DEF RoundInv, Workers, At

LEMMA NewBlockRound ==
  ASSUME TInv, RoundInv, NewBlock, chain' = chain
  PROVE  RoundInv'
<1>1. /\ best' = best + 1
      /\ UNCHANGED <<maxHeight, at, block, loop, worker>>
  BY DEF NewBlock
<1>2. loop.to <= best'
  BY <1>1, RoundTypes DEF RoundInv
<1> QED  BY <1>1, <1>2 DEF RoundInv, Workers, Done, Busy, At, Stored, Watched, PinsOf, SpentBy

LEMMA InitRound == Init => RoundInv
<1> SUFFICES ASSUME Init PROVE RoundInv
  OBVIOUS
<1>1. Start \in Nat /\ Tip \in Nat /\ Start \in 0..Tip /\ Start \in Start..Tip
  BY ConstantsAssumption
<1>2. loop.to = Start /\ loop.next = Start + 1 /\ ~loop.spawn
  BY <1>1, RoundTyped DEF Init
<1>3. 0 \in Workers /\ \A w \in Workers : worker[w].pc = "idle"
  BY IdleTyped, MainWorker DEF Init
<1>4. Stored = {} /\ maxHeight = 0 /\ block = 0 /\ best = Start
  BY DEF Init, Stored
<1> QED  BY <1>1, <1>2, <1>3, <1>4 DEF RoundInv, Done, Busy, At

----------------------------------------------------------------------------
(* The heights of transfers. *)

(* No pin's first output is spent before its block. *)
OutputsOK ==
  \A p \in Pins : Leaves(p) => chain.pin[p].h <= chain.spent[First(p)].h

LEMMA InitOutputs == Init => OutputsOK
BY OutputsAssumption DEF Init, OutputsOK, Leaves, First

(***************************************************************************)
(* A step of a goroutine: what it adds to the history is under the block   *)
(* of the transfer, it moves pins from outputs it has found, adds pins     *)
(* only as the main loop, and forgets only transfers it has recorded.      *)
(***************************************************************************)
LEMMA WorkerHeights ==
  ASSUME TInv, OrderInv, RoundInv, HeightInv, OutputsOK, NEW w \in Workers, Busy(w),
         NEW rec, Goes(w, rec), chain' = chain, loop' = loop, Stored \subseteq Stored',
         Stored' \subseteq Pins, DOMAIN history \subseteq DOMAIN history',
         \A q \in DOMAIN history : history'[q] = history[q],
         \A q \in DOMAIN history' \ DOMAIN history :
           \E o \in DOMAIN chain.spent : chain.spent[o].h = history'[q] /\ chain.spent[o].as = q,
         rec.pc = "move" =>
           \A o \in rec.found : chain.spent[o].h = rec.h \/ Recorded(o),
         worker[w].pc = "move" =>
           \A o \in worker[w].found :
             (rec.pc = "move" /\ o \in rec.found) \/ chain.spent[o].as \in DOMAIN history',
         \A r \in Stored :
           at'[r] = at[r] \/ (worker[w].pc = "move" /\ at[r] \in worker[w].found),
         \A r \in Stored' \ Stored :
           at'[r] = First(r) /\ w = 0 /\ rec.pc # "idle" /\ chain.pin[r].h = worker[0].h,
         w = 0 /\ rec.pc # "idle" => rec.h = worker[0].h,
         w = 0 /\ rec.pc = "idle" => ~rec.stored,
         w = 0 => \A r \in Stored' : First(r) \in SpentBy(worker[0].h) =>
           /\ rec.pc \in {"catch", "move"} =>
                First(r) \in rec.found \/ chain.spent[First(r)].as \in DOMAIN history'
           /\ rec.pc \in {"store", "idle"} => chain.spent[First(r)].as \in DOMAIN history'
           /\ rec.stored /\ chain.pin[r].h # worker[0].h =>
                chain.spent[First(r)].as \in DOMAIN history'
  PROVE  HeightInv'
<1>1. /\ \A v \in Workers : worker'[v] = IF v = w THEN rec ELSE worker[v]
      /\ Workers' = Workers /\ 0 \in Workers
  BY MainWorker DEF Goes, Workers
<1>2. \A r : First(r)' = First(r) /\ Leaves(r)' = Leaves(r)
  BY DEF First, Leaves
<1> DEFINE Kept(o) == chain.spent[o].as \in DOMAIN history'
           Moving(o) == \E v \in Workers : worker'[v].pc = "move" /\ o \in worker'[v].found
<1>4. \A o : Recorded(o) => Kept(o)
  BY DEF Recorded
<1>5. TransferHeightRight'
  <2> SUFFICES ASSUME NEW q \in DOMAIN history'
               PROVE  \E o \in DOMAIN chain.spent :
                        chain.spent[o].h = history'[q] /\ chain.spent[o].as = q
    BY DEF TransferHeightRight
  <2>1. CASE q \in DOMAIN history
    BY <2>1 DEF HeightInv, TransferHeightRight
  <2> QED  BY <2>1
<1>6. ASSUME NEW v \in Workers, worker'[v].pc = "move", NEW o \in worker'[v].found
      PROVE  chain.spent[o].h = worker'[v].h \/ Kept(o)
  <2>1. CASE v = w
    BY <1>1, <1>4, <1>6, <2>1
  <2>2. CASE v # w
    BY <1>1, <1>4, <1>6, <2>2 DEF HeightInv, At
  <2> QED  BY <2>1, <2>2
<1>7. ASSUME NEW o, worker[w].pc = "move", o \in worker[w].found
      PROVE  Kept(o) \/ Moving(o)
  <2>1. CASE rec.pc = "move" /\ o \in rec.found
    BY <1>1, <2>1
  <2> QED  BY <1>7, <2>1
<1>8. ASSUME NEW o, Underway(o)
      PROVE  Kept(o) \/ Moving(o)
  <2>1. PICK v \in Workers : At(v, "move") /\ o \in worker[v].found
    BY <1>8 DEF Underway
  <2>2. CASE v = w
    BY <1>7, <2>1, <2>2 DEF At
  <2>3. CASE v # w
    BY <1>1, <2>1, <2>3 DEF At
  <2> QED  BY <2>2, <2>3
<1>9. ASSUME NEW r \in Stored'
      PROVE  at'[r] = First(r) \/ (Leaves(r) /\ (Kept(First(r)) \/ Moving(First(r))))
  <2>1. CASE r \notin Stored
    BY <2>1
  <2>2. CASE r \in Stored /\ at[r] # First(r)
    BY <1>4, <1>8, <2>2 DEF HeightInv
  <2>3. CASE r \in Stored /\ at[r] = First(r) /\ at'[r] # First(r)
    <3>1. worker[w].pc = "move" /\ First(r) \in worker[w].found
      BY <2>3
    <3>2. Leaves(r)
      BY <3>1 DEF Leaves, TInv, WorkersOK, At
    <3> QED  BY <1>7, <3>1, <3>2
  <2> QED  BY <2>1, <2>2, <2>3
<1>10. \A r \in Stored' : Leaves(r) =>
         chain.spent[First(r)].h \in Int /\ chain.pin[r].h <= chain.spent[First(r)].h
  BY RoundTypes DEF OutputsOK, Leaves
<1>11. ASSUME NEW r \in Stored', Leaves(r), chain.spent[First(r)].h <= Done'
       PROVE  Kept(First(r))
  <2>1. CASE w = 0 /\ rec.pc = "idle"
    <3>1. Done' = worker[0].h /\ Done = worker[0].h - 1
      BY <1>1, <2>1 DEF Done, Busy, OrderInv, LoopInOrder
    <3>2. r \in Stored
      BY <2>1
    <3>3. CASE chain.spent[First(r)].h = worker[0].h
      BY <1>11, <2>1, <3>3 DEF SpentBy, Leaves
    <3>4. CASE chain.spent[First(r)].h # worker[0].h
      <4>1. chain.spent[First(r)].h <= Done
        BY <1>10, <1>11, <3>1, <3>4, RoundTypes
      <4> QED  BY <1>4, <1>11, <3>2, <4>1 DEF HeightInv
    <3> QED  BY <3>3, <3>4
  <2>2. CASE ~(w = 0 /\ rec.pc = "idle")
    <3>1. Done' = Done
      BY <1>1, <2>2 DEF Done, Busy
    <3>2. CASE r \in Stored
      BY <1>4, <1>11, <3>1, <3>2 DEF HeightInv
    <3>3. CASE r \notin Stored
      <4>1. chain.pin[r].h = worker[0].h /\ Done = worker[0].h - 1
        BY <3>3 DEF Done
      <4> QED  BY <1>10, <1>11, <3>1, <4>1, RoundTypes
    <3> QED  BY <3>2, <3>3
  <2> QED  BY <2>1, <2>2
<1>12. ASSUME NEW r \in Stored', First(r) \in SpentBy(worker'[0].h)
       PROVE  /\ worker'[0].pc \in {"catch", "move"} => First(r) \in worker'[0].found \/ Kept(First(r))
              /\ worker'[0].pc = "store" => Kept(First(r))
              /\ worker'[0].stored /\ chain.pin[r].h # worker'[0].h => Kept(First(r))
  <2>1. CASE w = 0
    <3>1. CASE rec.pc = "idle"
      BY <1>1, <2>1, <3>1
    <3>2. CASE rec.pc # "idle"
      BY <1>1, <1>12, <2>1, <3>2
    <3> QED  BY <3>1, <3>2
  <2>2. CASE w # 0
    <3>1. r \in Stored /\ worker'[0] = worker[0]
      BY <1>1, <2>2
    <3> QED  BY <1>4, <1>12, <3>1 DEF HeightInv, MainRecords, At
  <2> QED  BY <2>1, <2>2
<1>13. MainRecords'
  <2>1. \A h : SpentBy(h)' = SpentBy(h)
    BY DEF SpentBy
  <2> QED  BY <1>2, <1>12, <2>1 DEF MainRecords, Recorded, At
<1> QED  BY <1>1, <1>2, <1>5, <1>6, <1>9, <1>11, <1>13 DEF HeightInv, Recorded, Underway, At

(* While the main loop is at a block, no other goroutine runs. *)
LEMMA MainAlone ==
  ASSUME TInv, RoundInv, Busy(0)
  PROVE  /\ \A v \in Workers : v # 0 => ~Busy(v)
         /\ \A o : Underway(o) => At(0, "move") /\ o \in worker[0].found
BY DEF RoundInv, Busy, Underway, At

(* The goroutines of a round repeat blocks whose pins are stored. *)
LEMMA RerunStored ==
  ASSUME TInv, OrderInv, RoundInv, Apart, NEW w \in Workers, w # 0, Busy(w)
  PROVE  /\ PinsOf(worker[w].h) \subseteq Stored
         /\ Done = loop.next - 1 /\ loop.to <= Done
<1>1. ~Busy(0) /\ loop.next > loop.to /\ worker[w].h <= loop.to
  BY DEF RoundInv
<1>2. Done = loop.next - 1 /\ loop.to <= Done
  BY <1>1, RoundTypes DEF Done
<1>3. Full(loop.next - 1)
  BY <1>1 DEF OrderInv, LoopInOrder
<1>4. worker[w].h <= loop.next - 1
  BY <1>1, RoundTypes
<1>5. \A p \in Pins : chain.pin[p].h > Start
  BY DEF Apart, FromStart
<1> QED  BY <1>2, <1>3, <1>4, <1>5, RoundTypes DEF PinsOf, Full, FullIn

LEMMA BeginHeights ==
  ASSUME TInv, OrderInv, RoundInv, HeightInv, OutputsOK, NEW w \in Workers, Begin(w) \/ Fetch(w),
         chain' = chain
  PROVE  HeightInv'
<1>1. PICK rec : Goes(w, rec) /\ (On(w, rec, "fetch") \/ On(w, rec, "find"))
  BY BeginIs, FetchIs
<1>2. /\ at' = at /\ history' = history /\ loop' = loop /\ Stored' = Stored
      /\ Busy(w) /\ worker[w].pc # "move"
  BY DEF Begin, Fetch, Busy, At, Stored
<1>3. rec.pc \in {"fetch", "find"} /\ rec.h = worker[w].h /\ rec.stored = worker[w].stored
  BY <1>1 DEF On
<1>4. Stored \subseteq Pins
  BY DEF TInv, TypeOK
<1>5. w = 0 => \A r \in Stored' :
        First(r) \in SpentBy(worker[0].h) /\ rec.stored /\ chain.pin[r].h # worker[0].h =>
          chain.spent[First(r)].as \in DOMAIN history'
  BY <1>2, <1>3 DEF HeightInv, MainRecords, Recorded
<1> QED  BY <1>1, <1>2, <1>3, <1>4, <1>5, WorkerHeights

LEMMA FindHeights ==
  ASSUME TInv, OrderInv, RoundInv, HeightInv, OutputsOK, NEW w \in Workers, Find(w), chain' = chain
  PROVE  HeightInv'
<1> DEFINE found == Watched(w) \cap {at[p] : p \in Stored}
<1>1. PICK rec : /\ Goes(w, rec)
                 /\ \/ found = {} /\ Through(w, rec)
                    \/ found # {} /\ On(w, rec, "catch") /\ rec.found = found
  BY FindIs
<1>2. /\ at' = at /\ history' = history /\ loop' = loop /\ Stored' = Stored
      /\ Busy(w) /\ worker[w].pc = "find"
  BY DEF Find, Busy, At, Stored
<1>3. Stored \subseteq Pins
  BY DEF TInv, TypeOK
<1>4. /\ rec.pc \in {"idle", "store", "catch"}
      /\ rec.pc # "idle" => rec.h = worker[w].h
      /\ rec.pc = "idle" => ~rec.stored
  <2> HIDE DEF found
  <2> QED  BY <1>1 DEF Through, On
<1>5. ASSUME w = 0, NEW r \in Stored, First(r) \in SpentBy(worker[0].h)
      PROVE  /\ rec.pc = "catch" => First(r) \in rec.found \/ Recorded(First(r))
             /\ rec.pc \in {"store", "idle"} => Recorded(First(r))
             /\ rec.stored /\ chain.pin[r].h # worker[0].h => Recorded(First(r))
  <2>1. worker[0].stored /\ chain.pin[r].h # worker[0].h => Recorded(First(r))
    BY <1>5 DEF HeightInv, MainRecords
  <2>2. at[r] = First(r) \/ Recorded(First(r))
    <3>1. ~Underway(First(r))
      BY <1>2, <1>5, MainAlone DEF At
    <3> QED  BY <3>1 DEF HeightInv
  <2>3. First(r) \in Watched(w) \/ Recorded(First(r))
    <3>1. CASE worker[w].stored
      BY <1>3, <1>5, <2>1, <3>1 DEF Watched, PinsOf, First
    <3>2. CASE ~worker[w].stored
      BY <1>5, <3>2 DEF Watched
    <3> QED  BY <3>1, <3>2
  <2>4. First(r) \in found \/ Recorded(First(r))
    BY <2>2, <2>3
  <2> HIDE DEF found
  <2> QED  BY <1>1, <1>5, <2>1, <2>4 DEF Through, On
<1> HIDE DEF found
<1> QED  BY <1>1, <1>2, <1>3, <1>4, <1>5, WorkerHeights DEF Recorded

LEMMA CatchHeights ==
  ASSUME TInv, OrderInv, RoundInv, HeightInv, OutputsOK, Apart, NEW w \in Workers, Catch(w),
         chain' = chain
  PROVE  HeightInv'
<1> DEFINE caught == worker[w].found \cap SpentBy(block)
<1>1. PICK rec : /\ Goes(w, rec)
                 /\ \/ caught = {} /\ Through(w, rec)
                    \/ /\ caught # {} /\ On(w, rec, "move")
                       /\ rec.found = caught /\ rec.left = caught
  BY CatchIs
<1>2. /\ at' = at /\ history' = history /\ loop' = loop /\ Stored' = Stored
      /\ Busy(w) /\ worker[w].pc = "catch"
  BY DEF Catch, Busy, At, Stored
<1>3. Stored \subseteq Pins
  BY DEF TInv, TypeOK
<1>4. /\ rec.pc \in {"idle", "store", "move"}
      /\ rec.pc # "idle" => rec.h = worker[w].h
      /\ rec.pc = "idle" => ~rec.stored
  <2> HIDE DEF caught
  <2> QED  BY <1>1 DEF Through, On
<1>5. w = 0 => block = worker[0].h
  BY <1>2 DEF RoundInv
<1>6. ASSUME NEW o \in caught
      PROVE  chain.spent[o].h = worker[w].h \/ Recorded(o)
  <2>1. chain.spent[o].h = block /\ o \in DOMAIN chain.spent
    BY DEF SpentBy
  <2>2. CASE w = 0
    BY <1>5, <2>1, <2>2
  <2>3. CASE w # 0 /\ ~worker[w].stored
    <3>1. o \in SpentBy(worker[w].h)
      BY <1>2, <2>3 DEF RoundInv, Watched, At
    <3> QED  BY <3>1 DEF SpentBy
  <2>4. CASE w # 0 /\ worker[w].stored
    <3>1. PICK r \in PinsOf(worker[w].h) : o = First(r)
      BY <1>2, <2>4 DEF RoundInv, Watched, At, First
    <3>2. r \in Stored /\ loop.to <= Done /\ Done \in Int
      BY <1>2, <2>4, RerunStored, RoundTypes
    <3>3. Leaves(r) /\ chain.spent[First(r)].h <= Done
      BY <2>1, <3>1, <3>2, RoundTypes DEF Leaves, RoundInv
    <3> QED  BY <3>1, <3>2, <3>3 DEF HeightInv
  <2> QED  BY <2>2, <2>3, <2>4
<1>7. rec.pc = "move" => \A o \in rec.found : chain.spent[o].h = rec.h \/ Recorded(o)
  <2>1. rec.pc = "move" => rec.found = caught
    <3> HIDE DEF caught
    <3> QED  BY <1>1 DEF Through
  <2> HIDE DEF caught
  <2> QED  BY <1>4, <1>6, <2>1
<1>8. ASSUME w = 0, NEW r \in Stored, First(r) \in SpentBy(worker[0].h)
      PROVE  /\ rec.pc = "move" => First(r) \in rec.found \/ Recorded(First(r))
             /\ rec.pc \in {"store", "idle"} => Recorded(First(r))
             /\ rec.stored /\ chain.pin[r].h # worker[0].h => Recorded(First(r))
  <2>1. /\ First(r) \in worker[0].found \/ Recorded(First(r))
        /\ worker[0].stored /\ chain.pin[r].h # worker[0].h => Recorded(First(r))
    BY <1>2, <1>8 DEF HeightInv, MainRecords, At
  <2>2. First(r) \in caught \/ Recorded(First(r))
    BY <1>5, <1>8, <2>1
  <2> HIDE DEF caught
  <2> QED  BY <1>1, <1>8, <2>1, <2>2 DEF Through, On
<1> HIDE DEF caught
<1> QED  BY <1>1, <1>2, <1>3, <1>4, <1>7, <1>8, WorkerHeights DEF Recorded

LEMMA MoveHeights ==
  ASSUME TInv, OrderInv, RoundInv, HeightInv, OutputsOK, NEW w \in Workers, Move(w), chain' = chain
  PROVE  HeightInv'
<1>1. PICK o \in worker[w].left : \E rec :
        /\ Goes(w, rec) /\ On(w, rec, "move")
        /\ rec.found = worker[w].found /\ rec.left = worker[w].left \ {o}
        /\ \/ \E p \in Stored : at[p] = o /\ at' = [at EXCEPT ![p] = chain.spent[o].as]
           \/ (\A p \in Stored : at[p] # o) /\ at' = at
  BY MoveIs
<1>2. PICK rec : /\ Goes(w, rec) /\ On(w, rec, "move")
                 /\ rec.found = worker[w].found /\ rec.left = worker[w].left \ {o}
  BY <1>1
<1>3. history' = history /\ loop' = loop /\ Stored' = Stored /\ Busy(w) /\ worker[w].pc = "move"
  BY MoveTInv DEF Move, Busy, At
<1>4. Stored \subseteq Pins
  BY DEF TInv, TypeOK
<1>5. o \in worker[w].found
  BY <1>3 DEF RoundInv, At
<1>6. \A r \in Stored : at'[r] = at[r] \/ at[r] \in worker[w].found
  BY <1>1, <1>5 DEF TInv, TypeOK
<1>7. \A p \in worker[w].found : chain.spent[p].h = rec.h \/ Recorded(p)
  BY <1>2, <1>3 DEF HeightInv, On, At
<1>8. ASSUME w = 0, NEW r \in Stored, First(r) \in SpentBy(worker[0].h)
      PROVE  /\ First(r) \in rec.found \/ Recorded(First(r))
             /\ rec.stored /\ chain.pin[r].h # worker[0].h => Recorded(First(r))
  BY <1>2, <1>3, <1>8 DEF HeightInv, MainRecords, On, At
<1>9. rec.pc = "move" /\ rec.h = worker[w].h
  BY <1>2 DEF On
<1> QED  BY <1>2, <1>3, <1>4, <1>6, <1>7, <1>8, <1>9, WorkerHeights DEF Recorded

LEMMA RecordHeights ==
  ASSUME TInv, OrderInv, RoundInv, HeightInv, OutputsOK, NEW w \in Workers, Record(w), chain' = chain
  PROVE  HeightInv'
<1> DEFINE as == {chain.spent[o].as : o \in worker[w].found}
<1>1. PICK rec : Goes(w, rec) /\ Through(w, rec)
  BY RecordIs
<1>2. /\ at' = at /\ loop' = loop /\ Stored' = Stored /\ Busy(w) /\ worker[w].pc = "move"
      /\ history' = [q \in DOMAIN history \cup as |->
                       IF q \in DOMAIN history THEN history[q] ELSE worker[w].h]
  BY DEF Record, Busy, At, Stored
<1>3. Stored \subseteq Pins
  BY DEF TInv, TypeOK
<1>4. /\ rec.pc \in {"idle", "store"} /\ ~rec.stored
      /\ rec.pc # "idle" => rec.h = worker[w].h
  BY <1>1 DEF Through
<1>5. /\ DOMAIN history' = DOMAIN history \cup as
      /\ \A q \in DOMAIN history : history'[q] = history[q]
      /\ \A q \in DOMAIN history' \ DOMAIN history : history'[q] = worker[w].h
  <2> HIDE DEF as
  <2> QED  BY <1>2
<1>6. ASSUME NEW q \in DOMAIN history' \ DOMAIN history
      PROVE  \E o \in DOMAIN chain.spent : chain.spent[o].h = history'[q] /\ chain.spent[o].as = q
  <2>1. PICK o \in worker[w].found : chain.spent[o].as = q
    BY <1>5
  <2>2. o \in DOMAIN chain.spent
    BY <1>2 DEF TInv, WorkersOK, At
  <2>3. chain.spent[o].h = worker[w].h
    BY <1>2, <2>1 DEF HeightInv, Recorded, At
  <2> QED  BY <1>5, <2>1, <2>2, <2>3
<1>7. \A o \in worker[w].found : chain.spent[o].as \in DOMAIN history'
  BY <1>5
<1>8. ASSUME w = 0, NEW r \in Stored, First(r) \in SpentBy(worker[0].h)
      PROVE  chain.spent[First(r)].as \in DOMAIN history'
  <2>1. First(r) \in worker[0].found \/ Recorded(First(r))
    BY <1>2, <1>8 DEF HeightInv, MainRecords, At
  <2> QED  BY <1>5, <1>7, <1>8, <2>1 DEF Recorded
<1> HIDE DEF as
<1> QED  BY <1>1, <1>2, <1>3, <1>4, <1>5, <1>6, <1>7, <1>8, WorkerHeights

LEMMA StoreHeights ==
  ASSUME TInv, OrderInv, RoundInv, HeightInv, OutputsOK, Apart, NEW w \in Workers, Store(w),
         chain' = chain
  PROVE  HeightInv'
<1> DEFINE new == PinsOf(worker[w].h)
<1>1. /\ \E rec : /\ Goes(w, rec)
                  /\ \/ new = {} /\ rec.pc = "idle" /\ ~rec.stored
                     \/ new # {} /\ rec.pc = "find" /\ rec.h = worker[w].h /\ rec.stored
      /\ Stored' = Stored \cup new
      /\ \A p \in Stored' : at'[p] = IF p \in Stored THEN at[p] ELSE First(p)
  BY StoreIs
<1>2. PICK rec : /\ Goes(w, rec)
                 /\ \/ new = {} /\ rec.pc = "idle" /\ ~rec.stored
                    \/ new # {} /\ rec.pc = "find" /\ rec.h = worker[w].h /\ rec.stored
  BY <1>1
<1>3. history' = history /\ loop' = loop /\ Busy(w) /\ worker[w].pc = "store"
  BY DEF Store, Busy, At
<1>4. Stored' \subseteq Pins /\ \A r \in new : chain.pin[r].h = worker[w].h
  BY <1>1 DEF TInv, TypeOK, PinsOf
<1>5. w # 0 => new \subseteq Stored
  BY <1>3, RerunStored
<1> HIDE DEF new
<1>6. /\ rec.pc \in {"idle", "find"}
      /\ rec.pc # "idle" => rec.h = worker[w].h
      /\ rec.pc = "idle" => ~rec.stored /\ new = {}
  BY <1>2
<1>7. \A r \in Stored' \ Stored :
        at'[r] = First(r) /\ w = 0 /\ rec.pc # "idle" /\ chain.pin[r].h = worker[0].h
  BY <1>1, <1>4, <1>5, <1>6
<1>8. ASSUME w = 0, NEW r \in Stored', First(r) \in SpentBy(worker[0].h)
      PROVE  /\ rec.pc = "idle" => Recorded(First(r))
             /\ chain.pin[r].h # worker[0].h => Recorded(First(r))
  <2>1. r \in Stored => Recorded(First(r))
    BY <1>3, <1>8 DEF HeightInv, MainRecords, At
  <2> QED  BY <1>1, <1>4, <1>6, <1>8, <2>1
<1> QED  BY <1>1, <1>2, <1>3, <1>4, <1>6, <1>7, <1>8, WorkerHeights DEF Recorded

LEMMA RunHeights ==
  ASSUME TInv, OrderInv, RoundInv, HeightInv, OutputsOK, Apart, NEW w \in Workers, Run(w),
         chain' = chain
  PROVE  HeightInv'
BY HasBlock, BeginHeights, FindHeights, CatchHeights, MoveHeights, RecordHeights, StoreHeights DEF Run

(* What the loop itself does leaves the pins and the history alone. *)
LEMMA LoopHeights ==
  ASSUME TInv, RoundInv, HeightInv, Calm, Main \/ NewBlock, chain' = chain
  PROVE  HeightInv'
<1>1. /\ at' = at /\ history' = history /\ Stored' = Stored
      /\ Workers' = Workers /\ 0 \in Workers
  BY MainWorker DEF Main, Sync, TakeNext, Spawn, NewBlock, Stored, Workers
<1>2. /\ Done' <= Done /\ Done \in Int /\ Done' \in Int
      /\ \A v \in Workers : worker'[v] = worker[v] \/ (worker'[v].pc \in {"idle", "begin"} /\ ~Busy(v))
      /\ worker'[0] = worker[0] \/ (worker'[0].pc \in {"idle", "begin"} /\ ~worker'[0].stored)
  <2>1. CASE Sync
    <3>1. Done' = loop'.next - 1 /\ Done = loop.next - 1
      BY <1>1, <2>1, SyncIs DEF Done, Busy
    <3>2. loop'.next \in Int /\ loop'.next <= loop.next
      BY <2>1, SyncIs, SyncTInv DEF TInv, TypeOK
    <3> QED  BY <2>1, <3>1, <3>2, SyncIs, RoundTypes
  <2>2. CASE TakeNext
    <3>1. Done' = loop.next - 1 /\ Done = loop.next - 1
      BY <1>1, <2>2, TakeNextIs DEF Done, Busy
    <3> QED  BY <1>1, <2>2, <3>1, TakeNextIs, RoundTypes
  <2>3. CASE Spawn
    <3>1. Done' = loop.next - 1 /\ Done = loop.next - 1
      BY <1>1, <2>3, SpawnIs DEF Done, Busy
    <3> QED  BY <1>1, <2>3, <3>1, SpawnIs, RoundTypes
  <2>4. CASE NewBlock
    <3>1. worker' = worker /\ loop' = loop
      BY <2>4 DEF NewBlock
    <3>2. Done' = Done /\ Done \in Int
      BY <3>1, RoundTypes DEF Done, Busy
    <3> QED  BY <3>1, <3>2
  <2> QED  BY <2>1, <2>2, <2>3, <2>4 DEF Main
<1>3. \A r : First(r)' = First(r) /\ Leaves(r)' = Leaves(r)
  BY DEF First, Leaves
<1>4. \A o : (Recorded(o)' <=> Recorded(o)) /\ (Underway(o) => Underway(o)')
  BY <1>1, <1>2 DEF Recorded, Underway, At, Busy
<1>5. TransferHeightRight'
  BY <1>1 DEF HeightInv, TransferHeightRight
<1>6. \A v \in Workers : worker'[v].pc = "move" =>
        \A o \in worker'[v].found : chain.spent[o].h = worker'[v].h \/ Recorded(o)
  BY <1>2 DEF HeightInv, At
<1>7. \A r \in Stored : Leaves(r) /\ chain.spent[First(r)].h <= Done' => Recorded(First(r))
  BY <1>2, RoundTypes DEF HeightInv, Leaves
<1>8. MainRecords'
  BY <1>1, <1>2, <1>3 DEF HeightInv, MainRecords, Recorded, SpentBy, At
<1> QED  BY <1>1, <1>3, <1>4, <1>5, <1>6, <1>7, <1>8 DEF HeightInv, Recorded, Underway, At

----------------------------------------------------------------------------
(* Where pins really are. *)

Moved(o, n) == IF o \in SpentBy(n) THEN chain.spent[o].to ELSE o

LEMMA TrailSame == chain' = chain => \A p, n : TrueOutput(p, n)' = TrueOutput(p, n)
BY DEF TrueOutput, Trail, SpentBy

(* Block by block: the recursive function is defined up to the tip. *)
LEMMA TrailUnfolds ==
  ASSUME NEW p
  PROVE  /\ TrueOutput(p, 0) = First(p)
         /\ \A n \in 1..Tip : TrueOutput(p, n) = Moved(TrueOutput(p, n - 1), n)
<1> DEFINE Steps(f) == f = [n \in 0..Tip |-> IF n = 0 THEN First(p) ELSE Moved(f[n - 1], n)]
           P(n) == \E f : /\ DOMAIN f = 0..n /\ f[0] = First(p)
                          /\ \A m \in 1..n : f[m] = Moved(f[m - 1], m)
           F == {n \in Nat : P(n)}
           after == CHOOSE f : Steps(f)
<1>1. Tip \in Nat
  BY ConstantsAssumption
<1>2. 0 \in F
  <2> DEFINE f == [n \in 0..0 |-> First(p)]
  <2>1. DOMAIN f = 0..0 /\ f[0] = First(p) /\ \A m \in 1..0 : f[m] = Moved(f[m - 1], m)
    OBVIOUS
  <2> QED  BY <2>1
<1>3. ASSUME NEW n \in F PROVE n + 1 \in F
  <2>1. n \in Nat
    OBVIOUS
  <2>2. PICK f : DOMAIN f = 0..n /\ f[0] = First(p) /\ \A m \in 1..n : f[m] = Moved(f[m - 1], m)
    OBVIOUS
  <2> DEFINE g == [m \in 0..(n + 1) |-> IF m = n + 1 THEN Moved(f[n], m) ELSE f[m]]
  <2>3. g[0] = First(p)
    BY <2>1, <2>2
  <2>4. ASSUME NEW m \in 1..(n + 1) PROVE g[m] = Moved(g[m - 1], m)
    <3>1. m - 1 \in 0..(n + 1) /\ m - 1 # n + 1 /\ m \in 0..(n + 1)
      BY <2>1
    <3>2. g[m - 1] = f[m - 1]
      BY <3>1
    <3>3. CASE m = n + 1
      <4>1. m - 1 = n /\ g[m] = Moved(f[n], m)
        BY <2>1, <3>1, <3>3
      <4> QED  BY <3>2, <4>1
    <3>4. CASE m # n + 1
      <4>1. m \in 1..n /\ g[m] = f[m]
        BY <2>1, <3>1, <3>4
      <4> QED  BY <2>2, <3>2, <4>1
    <3> QED  BY <3>3, <3>4
  <2>5. DOMAIN g = 0..(n + 1)
    OBVIOUS
  <2> HIDE DEF g
  <2>6. P(n + 1)
    BY <2>3, <2>4, <2>5
  <2> QED  BY <2>1, <2>6
<1>4. F = Nat
  <2>1. F \in SUBSET Nat
    OBVIOUS
  <2> HIDE DEF F
  <2> QED  BY <1>2, <1>3, <2>1, NaturalsClosed
<1>5. P(Tip)
  BY <1>1, <1>4
<1>6. \E f : Steps(f)
  <2>1. PICK f : DOMAIN f = 0..Tip /\ f[0] = First(p) /\ \A m \in 1..Tip : f[m] = Moved(f[m - 1], m)
    BY <1>5
  <2> DEFINE g == [n \in 0..Tip |-> f[n]]
  <2>2. \A n \in 0..Tip : g[n] = IF n = 0 THEN First(p) ELSE Moved(g[n - 1], n)
    <3> SUFFICES ASSUME NEW n \in 0..Tip
                 PROVE  g[n] = IF n = 0 THEN First(p) ELSE Moved(g[n - 1], n)
      OBVIOUS
    <3>1. CASE n = 0
      BY <2>1, <3>1
    <3>2. CASE n # 0
      <4>1. n \in 1..Tip /\ n - 1 \in 0..Tip
        BY <1>1, <3>2
      <4>2. g[n - 1] = f[n - 1] /\ g[n] = f[n] /\ f[n] = Moved(f[n - 1], n)
        BY <2>1, <4>1
      <4> QED  BY <3>2, <4>2
    <3> QED  BY <3>1, <3>2
  <2>3. Steps(g)
    BY <2>2
  <2> QED  BY <2>3
<1>7. Steps(after)
  <2> HIDE DEF Steps
  <2> QED  BY <1>6
<1> HIDE DEF after
<1>8. after[0] = First(p) /\ \A n \in 1..Tip : after[n] = Moved(after[n - 1], n)
  <2>1. 0 \in 0..Tip /\ \A n \in 1..Tip : n \in 0..Tip /\ n # 0
    BY <1>1
  <2> QED  BY <1>7, <2>1
<1>9. Trail(p) = after
  BY DEF Trail, after, First, Moved
<1> QED  BY <1>8, <1>9 DEF TrueOutput

(* A pin does not move before its block. *)
LEMMA TrailBefore ==
  ASSUME TInv, OutputsOK, NEW p \in Pins
  PROVE  \A n \in 0..Tip : n < chain.pin[p].h => TrueOutput(p, n) = First(p)
<1> DEFINE F == {n \in Nat : n <= Tip /\ n < chain.pin[p].h => TrueOutput(p, n) = First(p)}
<1>1. Tip \in Nat /\ chain.pin[p].h \in Int
  BY RoundTypes
<1>2. 0 \in F
  BY TrailUnfolds
<1>3. ASSUME NEW n \in F PROVE n + 1 \in F
  <2>1. n \in Nat /\ (n <= Tip /\ n < chain.pin[p].h => TrueOutput(p, n) = First(p))
    OBVIOUS
  <2>2. ASSUME n + 1 <= Tip, n + 1 < chain.pin[p].h
        PROVE  TrueOutput(p, n + 1) = First(p)
    <3>1. n + 1 \in 1..Tip /\ (n + 1) - 1 = n /\ n <= Tip /\ n < chain.pin[p].h
      BY <1>1, <2>1, <2>2
    <3>2. TrueOutput(p, n + 1) = Moved(TrueOutput(p, n), n + 1)
      BY <3>1, TrailUnfolds
    <3>3. First(p) \notin SpentBy(n + 1)
      BY <1>1, <2>1, <2>2 DEF SpentBy, OutputsOK, Leaves
    <3> QED  BY <2>1, <3>1, <3>2, <3>3 DEF Moved
  <2> QED  BY <2>1, <2>2
<1>4. F = Nat
  <2>1. F \in SUBSET Nat
    OBVIOUS
  <2> HIDE DEF F
  <2> QED  BY <1>2, <1>3, <2>1, NaturalsClosed
<1> QED  BY <1>1, <1>4

(* On a Plain chain the output a pin has after a block is spent later, if at all. *)
LEMMA TrailLater ==
  ASSUME TInv, Plain, NEW p \in Pins
  PROVE  \A n \in 0..Tip :
           TrueOutput(p, n) \in DOMAIN chain.spent => chain.spent[TrueOutput(p, n)].h > n
<1> DEFINE Later(n) ==
             TrueOutput(p, n) \in DOMAIN chain.spent => chain.spent[TrueOutput(p, n)].h > n
           F == {n \in Nat : n <= Tip => Later(n)}
<1>1. Tip \in Nat
  BY RoundTypes
<1>2. 0 \in F
  BY RoundTypes
<1>3. ASSUME NEW n \in F PROVE n + 1 \in F
  <2>1. n \in Nat /\ (n <= Tip => Later(n))
    OBVIOUS
  <2>2. ASSUME n + 1 <= Tip PROVE Later(n + 1)
    <3> DEFINE o == TrueOutput(p, n)
               q == TrueOutput(p, n + 1)
    <3>1. n + 1 \in 1..Tip /\ (n + 1) - 1 = n /\ n <= Tip
      BY <1>1, <2>1, <2>2
    <3>2. q = Moved(o, n + 1)
      BY <3>1, TrailUnfolds
    <3>3. o \in DOMAIN chain.spent => chain.spent[o].h > n
      BY <2>1, <3>1
    <3> HIDE DEF o, q
    <3>4. q \in DOMAIN chain.spent => chain.spent[q].h > n + 1
      <4>1. CASE o \in SpentBy(n + 1)
        <5>1. q = chain.spent[o].to /\ o \in DOMAIN chain.spent /\ chain.spent[o].h = n + 1
          BY <3>2, <4>1 DEF Moved, SpentBy
        <5> QED  BY <5>1 DEF Plain
      <4>2. CASE o \notin SpentBy(n + 1)
        <5>1. q = o /\ (o \in DOMAIN chain.spent => chain.spent[o].h # n + 1)
          BY <3>2, <4>2 DEF Moved, SpentBy
        <5> QED  BY <2>1, <3>3, <5>1, RoundTypes
      <4> QED  BY <4>1, <4>2
    <3> QED  BY <3>4 DEF q
  <2> HIDE DEF Later
  <2> QED  BY <2>1, <2>2
<1>4. F = Nat
  <2>1. F \in SUBSET Nat
    OBVIOUS
  <2> HIDE DEF F
  <2> QED  BY <1>2, <1>3, <2>1, NaturalsClosed
<1> QED  BY <1>1, <1>4

----------------------------------------------------------------------------
(* Where stored pins are. *)

LEMMA HandledTypes ==
  ASSUME TInv, RoundInv, NEW n \in Start..Tip, Handled(n)
  PROVE  /\ n \in Nat /\ n >= 1 /\ n \in 0..Tip /\ n \in Heights
         /\ Busy(0) /\ worker[0].h = n + 1 => n + 1 \in 1..Tip /\ n + 1 \in Start..Tip
BY RoundTypes, ConstantsAssumption DEF Heights, RoundInv, TInv, WorkersOK

(* A goroutine repeats a block: it moves nothing and finds nothing to be moved. *)
LEMMA RestingStep ==
  ASSUME TInv, OrderInv, RoundInv, NEW n \in Start..Tip, Handled(n), Resting(n),
         NEW w \in Workers, Busy(w), NEW rec, Goes(w, rec), chain' = chain, loop' = loop,
         Stored' = Stored, \A p \in Stored : at'[p] = at[p],
         rec.pc # "move",
         rec.pc = "catch" => rec.found \subseteq {TrueOutput(p, n) : p \in Stored},
         rec.pc # "idle" => rec.h = worker[w].h
  PROVE  PlaceInv'
<1>1. /\ \A v \in Workers : worker'[v] = IF v = w THEN rec ELSE worker[v]
      /\ Workers' = Workers /\ 0 \in Workers /\ (Start..Tip)' = Start..Tip
  BY MainWorker DEF Goes, Workers
<1>2. \A p : TrueOutput(p, n)' = TrueOutput(p, n)
  BY TrailSame
<1>3. Done' <= n
  <2>1. CASE w = 0 /\ rec.pc = "idle"
    <3>1. Done' = worker[0].h
      BY <1>1, <2>1 DEF Done, Busy, OrderInv, LoopInOrder
    <3> QED  BY <2>1, <3>1 DEF Resting
  <2>2. CASE ~(w = 0 /\ rec.pc = "idle")
    <3>1. Done' = Done
      BY <1>1, <2>2 DEF Done, Busy
    <3> QED  BY <3>1 DEF Handled
  <2> QED  BY <2>1, <2>2
<1>4. Handled(n)'
  BY <1>3 DEF Handled, Full
<1>5. AfterBlock(n)'
  BY <1>2 DEF Resting, AfterBlock
<1>6. Quiet(n)'
  <2> DEFINE places == {TrueOutput(p, n) : p \in Stored}
  <2>1. {TrueOutput(p, n) : p \in Stored}' = places
    BY <1>2
  <2>2. ASSUME NEW v \in Workers
        PROVE  /\ worker'[v].pc # "move"
               /\ worker'[v].pc = "catch" => worker'[v].found \subseteq places
    BY <1>1 DEF Resting, Quiet, At
  <2> HIDE DEF places
  <2> QED  BY <1>1, <2>1, <2>2 DEF Quiet, At
<1>7. Busy(0)' => worker'[0].h <= n
  <2>1. CASE w = 0
    BY <1>1, <2>1 DEF Resting, Busy
  <2>2. CASE w # 0
    BY <1>1, <2>2 DEF Resting, Busy
  <2> QED  BY <2>1, <2>2
<1>8. Resting(n)'
  BY <1>5, <1>6, <1>7 DEF Resting
<1> QED  BY <1>1, <1>4, <1>8 DEF PlaceInv

LEMMA RestingRun ==
  ASSUME TInv, OrderInv, RoundInv, Apart, Plain, NEW n \in Start..Tip, Handled(n), Resting(n),
         NEW w \in Workers, Run(w), chain' = chain
  PROVE  PlaceInv'
<1>1. Busy(w) /\ loop' = loop
  BY HasBlock DEF Run, Begin, Fetch, Find, Catch, Move, Record, Store, Busy, At
<1>2. ~Move(w) /\ ~Record(w)
  BY DEF Resting, Quiet, Move, Record
<1>3. \A p \in Stored : p \in Pins /\ at[p] = TrueOutput(p, n)
  BY DEF Resting, AfterBlock, TInv, TypeOK
<1>4. w # 0 => loop.to <= n
  BY <1>1, RerunStored, RoundTypes DEF Handled
<1>5. CASE Begin(w) \/ Fetch(w)
  <2>1. PICK rec : Goes(w, rec) /\ (On(w, rec, "fetch") \/ On(w, rec, "find"))
    BY <1>5, BeginIs, FetchIs
  <2>2. rec.pc \in {"fetch", "find"} /\ rec.h = worker[w].h
    BY <2>1 DEF On
  <2>3. at' = at /\ Stored' = Stored
    BY <1>5 DEF Begin, Fetch, Stored
  <2> QED  BY <1>1, <2>1, <2>2, <2>3, RestingStep
<1>6. CASE Find(w)
  <2>1. PICK rec : /\ Goes(w, rec)
                   /\ \/ Through(w, rec)
                      \/ On(w, rec, "catch") /\ rec.found \subseteq {at[p] : p \in Stored}
    BY <1>6, FindIs
  <2>2. /\ rec.pc # "move" /\ (rec.pc # "idle" => rec.h = worker[w].h)
        /\ rec.pc = "catch" => rec.found \subseteq {at[p] : p \in Stored}
    BY <2>1 DEF Through, On
  <2>3. {at[p] : p \in Stored} = {TrueOutput(p, n) : p \in Stored}
    BY <1>3
  <2>4. at' = at /\ Stored' = Stored
    BY <1>6 DEF Find, Stored
  <2> QED  BY <1>1, <2>1, <2>2, <2>3, <2>4, RestingStep
<1>7. CASE Catch(w)
  <2>1. block \in Int /\ block <= n
    <3>1. CASE w = 0
      BY <1>1, <1>7, <3>1, RoundTypes DEF Catch, At, RoundInv, Resting
    <3>2. CASE w # 0
      BY <1>4, <3>2, RoundTypes DEF RoundInv
    <3> QED  BY <3>1, <3>2
  <2>2. worker[w].found \subseteq {TrueOutput(p, n) : p \in Stored}
    BY <1>7 DEF Catch, Resting, Quiet
  <2>3. ASSUME NEW o \in worker[w].found PROVE o \notin SpentBy(block)
    <3>1. PICK p \in Stored : o = TrueOutput(p, n)
      BY <2>2
    <3>2. o \in DOMAIN chain.spent => chain.spent[o].h > n /\ chain.spent[o].h \in Int
      BY <1>3, <3>1, TrailLater, HandledTypes, RoundTypes
    <3> QED  BY <2>1, <3>2, HandledTypes DEF SpentBy
  <2>4. worker[w].found \cap SpentBy(block) = {}
    BY <2>3
  <2>5. PICK rec : Goes(w, rec) /\ Through(w, rec)
    BY <1>7, <2>4, CatchIs
  <2>6. rec.pc \in {"idle", "store"} /\ (rec.pc # "idle" => rec.h = worker[w].h)
    BY <2>5 DEF Through
  <2>7. at' = at /\ Stored' = Stored
    BY <1>7 DEF Catch, Stored
  <2> QED  BY <1>1, <2>5, <2>6, <2>7, RestingStep
<1>8. CASE Store(w)
  <2>1. PinsOf(worker[w].h) \subseteq Stored
    <3>1. CASE w = 0
      <4>1. worker[0].h <= n /\ Full(n)
        BY <1>1, <3>1 DEF Resting, Handled
      <4>2. \A p \in Pins : chain.pin[p].h > Start
        BY DEF Apart, FromStart
      <4> QED  BY <3>1, <4>1, <4>2, HandledTypes, RoundTypes DEF PinsOf, Full, FullIn
    <3>2. CASE w # 0
      BY <1>1, <3>2, RerunStored
    <3> QED  BY <3>1, <3>2
  <2>2. /\ \E rec : /\ Goes(w, rec) /\ rec.pc \in {"idle", "find"}
                    /\ rec.pc # "idle" => rec.h = worker[w].h
        /\ Stored' = Stored \cup PinsOf(worker[w].h)
        /\ \A p \in Stored' : at'[p] = IF p \in Stored THEN at[p] ELSE First(p)
    BY <1>8, StoreIs
  <2>3. Stored' = Stored /\ \A p \in Stored : at'[p] = at[p]
    BY <2>1, <2>2
  <2>4. PICK rec : /\ Goes(w, rec) /\ rec.pc \in {"idle", "find"}
                   /\ rec.pc # "idle" => rec.h = worker[w].h
    BY <2>2
  <2> QED  BY <1>1, <2>3, <2>4, RestingStep
<1> QED  BY <1>2, <1>5, <1>6, <1>7, <1>8, HasBlock DEF Run

(* What a block leaves to be moved at each stage. *)
LEMMA LeftForIs ==
  ASSUME NEW rec
  PROVE  /\ rec.pc = "catch" => LeftFor(rec) = rec.found
         /\ rec.pc = "move" => LeftFor(rec) = rec.left
         /\ rec.pc = "store" => LeftFor(rec) = {}
         /\ rec.pc \in {"begin", "fetch", "find"} => LeftFor(rec) = WatchedBy(rec)
BY DEF LeftFor

(* The main loop goes on with block n + 1. *)
LEMMA PlacingStep ==
  ASSUME TInv, NEW n \in Start..Tip, Handled(n), Busy(0), worker[0].h = n + 1,
         NEW rec, Goes(0, rec), chain' = chain, loop' = loop, Stored \subseteq Stored',
         rec.pc # "idle", rec.h = n + 1,
         \A p \in Stored' :
           /\ chain.pin[p].h <= n + 1 /\ (chain.pin[p].h = n + 1 => rec.stored)
           /\ at'[p] = IF TrueOutput(p, n) \in LeftFor(rec) THEN TrueOutput(p, n)
                       ELSE TrueOutput(p, n + 1)
  PROVE  PlaceInv'
<1>1. worker'[0] = rec /\ (Start..Tip)' = Start..Tip
  BY MainWorker DEF Goes
<1>2. Done' = Done
  BY <1>1 DEF Done, Busy
<1>3. Handled(n)'
  BY <1>2 DEF Handled, Full, FullIn
<1>4. LeftFor(worker[0])' = LeftFor(rec)
  BY <1>1 DEF LeftFor, WatchedBy, First, PinsOf, SpentBy
<1>5. Placing(n)'
  BY <1>1, <1>4, TrailSame DEF Placing, Busy
<1> QED  BY <1>1, <1>3, <1>5 DEF PlaceInv

(* The main loop is through with block n + 1. *)
LEMMA PlacedStep ==
  ASSUME TInv, RoundInv, OrderInv, OrderInv', NEW n \in Start..Tip, Handled(n), Busy(0),
         worker[0].h = n + 1, NEW rec, Goes(0, rec), chain' = chain, loop' = loop,
         rec.pc = "idle",
         \A p \in Stored' : chain.pin[p].h <= n + 1 /\ at'[p] = TrueOutput(p, n + 1)
  PROVE  PlaceInv'
<1>1. /\ worker'[0] = rec /\ (Start..Tip)' = Start..Tip /\ Workers' = Workers
      /\ n + 1 \in Start..Tip
  BY MainWorker, HandledTypes DEF Goes, Workers
<1>2. ~Busy(0)' /\ loop.next - 1 = n + 1
  BY <1>1 DEF Busy, OrderInv, LoopInOrder
<1>3. Done' = n + 1 /\ Full(n + 1)'
  <2>1. Full(loop.next - 1)'
    BY <1>2 DEF OrderInv, LoopInOrder
  <2> QED  BY <1>2, <2>1 DEF Done, Full, FullIn
<1>4. n + 1 <= loop.to
  BY MainWorker DEF RoundInv
<1>5. Handled(n + 1)'
  BY <1>1, <1>3, <1>4 DEF Handled
<1>6. AfterBlock(n + 1)'
  BY TrailSame DEF AfterBlock
<1>7. \A v \in Workers : worker'[v].pc = "idle"
  BY MainAlone DEF Goes, Busy
<1>8. Resting(n + 1)'
  BY <1>1, <1>2, <1>6, <1>7 DEF Resting, Quiet, At
<1> QED  BY <1>1, <1>5, <1>8 DEF PlaceInv

(* Block n + 1 has moved what was left: pins are where they are after it. *)
LEMMA ThroughPlaces ==
  ASSUME TInv, RoundInv, OrderInv, OrderInv', NEW n \in Start..Tip, Handled(n), Placing(n),
         NEW rec, Goes(0, rec), Through(0, rec), chain' = chain, loop' = loop, at' = at,
         \A p \in Stored : at[p] = TrueOutput(p, n + 1)
  PROVE  PlaceInv'
<1>1. Stored' = Stored /\ Busy(0) /\ worker[0].h = n + 1
  BY DEF Stored, Placing
<1>2. \A p \in Stored : /\ chain.pin[p].h <= n + 1
                        /\ chain.pin[p].h = n + 1 => worker[0].stored
  BY DEF Placing
<1>3. CASE worker[0].stored
  <2>1. rec.pc = "idle"
    BY <1>3 DEF Through
  <2> QED  BY <1>1, <1>2, <2>1, PlacedStep
<1>4. CASE ~worker[0].stored
  <2>1. rec.pc = "store" /\ rec.h = n + 1
    BY <1>1, <1>4 DEF Through
  <2>2. LeftFor(rec) = {}
    BY <2>1, LeftForIs
  <2> QED  BY <1>1, <1>2, <1>4, <2>1, <2>2, PlacingStep
<1> QED  BY <1>3, <1>4

LEMMA PlacingRun ==
  ASSUME TInv, OrderInv, OrderInv', RoundInv, OutputsOK, Plain, NEW n \in Start..Tip,
         Handled(n), Placing(n), NEW w \in Workers, Run(w), chain' = chain
  PROVE  PlaceInv'
<1>1. /\ Busy(w) /\ Busy(0) /\ loop' = loop /\ worker[0].h = n + 1
  BY HasBlock DEF Run, Begin, Fetch, Find, Catch, Move, Record, Store, Busy, At, Placing
<1>2. w = 0
  BY <1>1, MainAlone
<1>3. /\ n \in Nat /\ n >= 1 /\ n \in 0..Tip /\ n \in Heights /\ n + 1 \in 1..Tip /\ n + 1 \in 0..Tip
      /\ (n + 1) - 1 = n
  BY <1>1, HandledTypes
<1>4. ASSUME NEW p \in Stored
      PROVE  /\ p \in Pins /\ chain.pin[p].h <= n + 1 /\ (chain.pin[p].h = n + 1 => worker[0].stored)
             /\ at[p] = IF TrueOutput(p, n) \in LeftFor(worker[0]) THEN TrueOutput(p, n)
                        ELSE TrueOutput(p, n + 1)
             /\ TrueOutput(p, n + 1) = Moved(TrueOutput(p, n), n + 1)
             /\ TrueOutput(p, n + 1) \notin SpentBy(n + 1)
  <2>1. p \in Pins
    BY DEF TInv, TypeOK
  <2>2. TrueOutput(p, n + 1) = Moved(TrueOutput(p, n), n + 1)
    BY <1>3, TrailUnfolds
  <2>3. TrueOutput(p, n + 1) \notin SpentBy(n + 1)
    BY <1>3, <2>1, TrailLater DEF SpentBy
  <2> QED  BY <2>1, <2>2, <2>3 DEF Placing
<1>5. CASE Begin(0) \/ Fetch(0)
  <2>1. 0 \in Workers
    BY MainWorker
  <2>2. PICK rec : Goes(0, rec) /\ (On(0, rec, "fetch") \/ On(0, rec, "find"))
    BY <1>5, <2>1, BeginIs, FetchIs
  <2>3. /\ rec.pc \in {"fetch", "find"} /\ rec.h = worker[0].h /\ rec.stored = worker[0].stored
        /\ worker[0].pc \in {"begin", "fetch"}
    BY <1>5, <2>2 DEF On, Begin, Fetch, At
  <2>4. at' = at /\ Stored' = Stored
    BY <1>5 DEF Begin, Fetch, Stored
  <2>5. LeftFor(rec) = LeftFor(worker[0])
    BY <2>3, LeftForIs DEF WatchedBy
  <2> QED  BY <1>1, <1>4, <2>2, <2>3, <2>4, <2>5, PlacingStep
<1>6. CASE Find(0)
  <2> DEFINE found == Watched(0) \cap {at[p] : p \in Stored}
  <2>1. 0 \in Workers
    BY MainWorker
  <2>2. PICK rec : /\ Goes(0, rec)
                   /\ \/ found = {} /\ Through(0, rec)
                      \/ found # {} /\ On(0, rec, "catch") /\ rec.found = found
    BY <1>6, <2>1, FindIs
  <2>3. at' = at /\ Stored' = Stored /\ worker[0].pc = "find"
    BY <1>6 DEF Find, Stored, At
  <2>4. LeftFor(worker[0]) = Watched(0)
    BY <2>1, <2>3, LeftForIs, WatchedIs
  <2>5. \A p \in Stored : TrueOutput(p, n) \in LeftFor(worker[0]) <=> TrueOutput(p, n) \in found
    BY <1>4, <2>4
  <2> HIDE DEF found
  <2>6. CASE found = {} /\ Through(0, rec)
    BY <1>1, <1>4, <2>2, <2>3, <2>5, <2>6, ThroughPlaces
  <2>7. CASE On(0, rec, "catch") /\ rec.found = found
    <3>1. LeftFor(rec) = found /\ rec.pc = "catch" /\ rec.h = n + 1 /\ rec.stored = worker[0].stored
      BY <1>1, <2>7, LeftForIs DEF On
    <3> QED  BY <1>1, <1>4, <2>2, <2>3, <2>5, <3>1, PlacingStep
  <2> QED  BY <2>2, <2>6, <2>7
<1>7. CASE Catch(0)
  <2> DEFINE caught == worker[0].found \cap SpentBy(block)
  <2>1. 0 \in Workers
    BY MainWorker
  <2>2. PICK rec : /\ Goes(0, rec)
                   /\ \/ caught = {} /\ Through(0, rec)
                      \/ /\ caught # {} /\ On(0, rec, "move")
                         /\ rec.found = caught /\ rec.left = caught
    BY <1>7, <2>1, CatchIs
  <2>3. at' = at /\ Stored' = Stored /\ worker[0].pc = "catch"
    BY <1>7 DEF Catch, Stored, At
  <2>4. LeftFor(worker[0]) = worker[0].found /\ block = n + 1
    BY <1>1, <2>3, LeftForIs DEF RoundInv
  <2>5. ASSUME NEW p \in Stored
        PROVE  at[p] = IF TrueOutput(p, n) \in caught THEN TrueOutput(p, n) ELSE TrueOutput(p, n + 1)
    BY <1>4, <2>4 DEF Moved
  <2> HIDE DEF caught
  <2>6. CASE caught = {} /\ Through(0, rec)
    BY <1>1, <2>2, <2>3, <2>5, <2>6, ThroughPlaces
  <2>7. CASE On(0, rec, "move") /\ rec.left = caught
    <3>1. LeftFor(rec) = caught /\ rec.pc = "move" /\ rec.h = n + 1 /\ rec.stored = worker[0].stored
      BY <1>1, <2>7, LeftForIs DEF On
    <3> QED  BY <1>1, <1>4, <2>2, <2>3, <2>5, <3>1, PlacingStep
  <2> QED  BY <2>2, <2>6, <2>7
<1>8. CASE Move(0)
  <2>1. 0 \in Workers
    BY MainWorker
  <2>2. PICK o \in worker[0].left : \E rec :
          /\ Goes(0, rec) /\ On(0, rec, "move")
          /\ rec.found = worker[0].found /\ rec.left = worker[0].left \ {o}
          /\ \/ \E p \in Stored : at[p] = o /\ at' = [at EXCEPT ![p] = chain.spent[o].as]
             \/ (\A p \in Stored : at[p] # o) /\ at' = at
    BY <1>8, <2>1, MoveIs
  <2>3. PICK rec : Goes(0, rec) /\ On(0, rec, "move") /\ rec.left = worker[0].left \ {o}
    BY <2>2
  <2>4. Stored' = Stored /\ worker[0].pc = "move"
    BY <1>8, <2>1, MoveTInv DEF Move, At
  <2>5. LeftFor(worker[0]) = worker[0].left /\ o \in SpentBy(n + 1)
    BY <1>1, <2>4, LeftForIs DEF RoundInv, At
  <2>6. chain.spent[o].as = chain.spent[o].to
    BY <2>5 DEF SpentBy, Plain
  <2>7. ASSUME NEW p \in Stored
        PROVE  at'[p] = IF TrueOutput(p, n) \in worker[0].left \ {o} THEN TrueOutput(p, n)
                        ELSE TrueOutput(p, n + 1)
    <3>1. at[p] = o <=> TrueOutput(p, n) = o
      BY <1>4, <2>5
    <3>2. TrueOutput(p, n) = o => TrueOutput(p, n + 1) = chain.spent[o].as
      BY <1>4, <2>5, <2>6 DEF Moved
    <3>3. CASE TrueOutput(p, n) = o
      <4>1. \A q \in Stored : at[q] = o => q = p
        <5>1. \A q \in Stored : at[q] = o => TrueOutput(q, n) = o
          BY <1>4, <2>5
        <5> QED  BY <1>3, <1>4, <3>3, <5>1 DEF Plain
      <4>2. at' = [at EXCEPT ![p] = chain.spent[o].as]
        BY <2>2, <3>1, <3>3, <4>1
      <4> QED  BY <3>2, <3>3, <4>2 DEF TInv, TypeOK
    <3>4. CASE TrueOutput(p, n) # o
      <4>1. at'[p] = at[p]
        BY <2>2, <3>1, <3>4 DEF TInv, TypeOK
      <4> QED  BY <1>4, <2>5, <3>4, <4>1
    <3> QED  BY <3>3, <3>4
  <2>8. LeftFor(rec) = worker[0].left \ {o} /\ rec.pc = "move" /\ rec.h = n + 1 /\ rec.stored = worker[0].stored
    BY <1>1, <2>3, LeftForIs DEF On
  <2> QED  BY <1>1, <1>4, <2>3, <2>4, <2>7, <2>8, PlacingStep
<1>9. CASE Record(0)
  <2>1. 0 \in Workers
    BY MainWorker
  <2>2. PICK rec : Goes(0, rec) /\ Through(0, rec)
    BY <1>9, <2>1, RecordIs
  <2>3. at' = at /\ worker[0].pc = "move" /\ worker[0].left = {}
    BY <1>9 DEF Record, At
  <2>4. LeftFor(worker[0]) = {}
    BY <2>3, LeftForIs
  <2> QED  BY <1>1, <1>4, <2>2, <2>3, <2>4, ThroughPlaces
<1>10. CASE Store(0)
  <2> DEFINE new == PinsOf(worker[0].h)
  <2>1. 0 \in Workers
    BY MainWorker
  <2>2. /\ \E rec : /\ Goes(0, rec)
                    /\ \/ new = {} /\ rec.pc = "idle" /\ ~rec.stored
                       \/ new # {} /\ rec.pc = "find" /\ rec.h = worker[0].h /\ rec.stored
        /\ Stored' = Stored \cup new
        /\ \A p \in Stored' : at'[p] = IF p \in Stored THEN at[p] ELSE First(p)
    BY <1>10, <2>1, StoreIs
  <2>3. PICK rec : /\ Goes(0, rec)
                   /\ \/ new = {} /\ rec.pc = "idle"
                      \/ new # {} /\ rec.pc = "find" /\ rec.h = worker[0].h /\ rec.stored
    BY <2>2
  <2>4. worker[0].pc = "store" /\ ~worker[0].stored
    BY <1>10, <2>1 DEF Store, At, RoundInv
  <2>5. LeftFor(worker[0]) = {}
    BY <2>4, LeftForIs
  <2>6. \A p \in Stored : at[p] = TrueOutput(p, n + 1) /\ p \notin new
    BY <1>1, <1>4, <2>4, <2>5 DEF PinsOf
  <2>7. CASE new = {}
    <3>1. rec.pc = "idle" /\ Stored' = Stored /\ \A p \in Stored' : at'[p] = at[p]
      BY <2>2, <2>3, <2>7
    <3> QED  BY <1>1, <1>4, <2>3, <2>6, <3>1, PlacedStep
  <2>8. CASE new # {}
    <3>1. rec.pc = "find" /\ rec.h = n + 1 /\ rec.stored
      BY <1>1, <2>3, <2>8
    <3>2. LeftFor(rec) = {First(q) : q \in new}
      BY <1>1, <3>1, LeftForIs DEF WatchedBy
    <3>3. ASSUME NEW q \in new
          PROVE  q \in Pins /\ chain.pin[q].h = n + 1 /\ TrueOutput(q, n) = First(q)
      <4>1. q \in Pins /\ chain.pin[q].h = n + 1
        BY <1>1 DEF PinsOf
      <4> QED  BY <1>3, <4>1, TrailBefore
    <3> HIDE DEF new
    <3>4. ASSUME NEW p \in Stored'
          PROVE  /\ chain.pin[p].h <= n + 1
                 /\ at'[p] = IF TrueOutput(p, n) \in LeftFor(rec) THEN TrueOutput(p, n)
                             ELSE TrueOutput(p, n + 1)
      <4>1. CASE p \in Stored
        <5>1. TrueOutput(p, n) \notin LeftFor(rec)
          <6> SUFFICES ASSUME NEW q \in new, TrueOutput(p, n) = First(q) PROVE FALSE
            BY <3>2
          <6> QED  BY <1>3, <1>4, <2>6, <3>3, <4>1 DEF Plain
        <5> QED  BY <1>4, <2>2, <2>6, <4>1, <5>1
      <4>2. CASE p \notin Stored
        <5>1. p \in new
          BY <2>2, <4>2
        <5> QED  BY <1>3, <2>2, <3>2, <3>3, <4>2, <5>1
      <4> QED  BY <4>1, <4>2
    <3> QED  BY <1>1, <2>2, <2>3, <3>1, <3>4, PlacingStep
  <2> QED  BY <2>7, <2>8
<1> QED  BY <1>2, <1>5, <1>6, <1>7, <1>8, <1>9, <1>10, HasBlock DEF Run

LEMMA RunPlaces ==
  ASSUME TInv, OrderInv, OrderInv', RoundInv, OutputsOK, Apart, Plain, PlaceInv,
         NEW w \in Workers, Run(w), chain' = chain
  PROVE  PlaceInv'
<1>1. PICK n \in Start..Tip : Handled(n) /\ (Resting(n) \/ Placing(n))
  BY DEF PlaceInv
<1> QED  BY <1>1, RestingRun, PlacingRun

(* Between blocks every worker is idle, and every pin is where it is after block n. *)
LEMMA IdleRests ==
  ASSUME TInv, PlaceInv, \A w \in Workers : ~Busy(w)
  PROVE  \E n \in Start..Tip : Handled(n) /\ AfterBlock(n) /\ Done = loop.next - 1
BY MainWorker DEF PlaceInv, Resting, Placing, Done

(* The main loop starts a round or goroutines: no worker has found anything. *)
LEMMA StartPlaces ==
  ASSUME TInv, NEW n \in Start..Tip, AfterBlock(n), chain' = chain, at' = at,
         \A w \in Workers : worker'[w].pc \in {"idle", "begin"},
         worker'[0].pc = "idle" \/ worker'[0].h <= n,
         Done' <= n, n <= loop'.to, Full(n)
  PROVE  PlaceInv'
<1>1. Stored' = Stored /\ Workers' = Workers /\ (Start..Tip)' = Start..Tip
  BY DEF Stored, Workers
<1>2. Handled(n)'
  BY <1>1 DEF Handled, Full, FullIn
<1>3. AfterBlock(n)'
  BY <1>1, TrailSame DEF AfterBlock
<1>4. Resting(n)'
  BY <1>1, <1>3 DEF Resting, Quiet, At, Busy
<1> QED  BY <1>1, <1>2, <1>4 DEF PlaceInv

LEMMA SyncPlaces ==
  ASSUME TInv, RoundInv, PlaceInv, Calm, Sync, chain' = chain
  PROVE  PlaceInv'
<1>1. PICK n \in Start..Tip : Handled(n) /\ AfterBlock(n) /\ Done = loop.next - 1
  BY SyncIs, IdleRests
<1>2. at' = at /\ 0 \in Workers /\ \A w \in Workers : worker'[w].pc = "idle"
  BY SyncIs, MainWorker DEF Sync, Busy
<1>3. Done' = loop'.next - 1 /\ loop'.next \in Int /\ loop'.next <= loop.next /\ loop'.to = best
  BY <1>2, SyncIs, SyncTInv DEF Done, Busy, TInv, TypeOK
<1>4. Done' <= n /\ n <= loop'.to
  BY <1>1, <1>3, RoundTypes DEF Handled, RoundInv
<1> QED  BY <1>1, <1>2, <1>4, StartPlaces DEF Handled

LEMMA SpawnPlaces ==
  ASSUME TInv, RoundInv, PlaceInv, Spawn, chain' = chain
  PROVE  PlaceInv'
<1>1. PICK n \in Start..Tip : Handled(n) /\ AfterBlock(n) /\ Done = loop.next - 1
  BY SpawnIs, IdleRests
<1>2. at' = at /\ \A w \in Workers : worker'[w].pc \in {"idle", "begin"}
  BY SpawnIs DEF Spawn
<1>3. Done' = Done /\ loop'.to = loop.to /\ worker'[0].pc = "idle"
  BY <1>1, SpawnIs DEF Done, Busy
<1> QED  BY <1>1, <1>2, <1>3, StartPlaces DEF Handled

LEMMA TakeNextPlaces ==
  ASSUME TInv, RoundInv, PlaceInv, TakeNext, chain' = chain
  PROVE  PlaceInv'
<1>1. PICK n \in Start..Tip : Handled(n) /\ AfterBlock(n) /\ Done = loop.next - 1
  BY TakeNextIs, IdleRests
<1>2. at' = at /\ Stored' = Stored /\ 0 \in Workers
  BY MainWorker DEF TakeNext, Stored
<1>3. \A w \in Workers : worker'[w].pc \in {"idle", "begin"}
  BY TakeNextIs DEF Busy
<1>4. Done' = loop.next - 1 /\ loop'.to = loop.to
  BY TakeNextIs, RoundTypes DEF Done, Busy
<1>5. Done' <= n /\ n <= loop'.to /\ n \in Nat /\ n >= 1
  BY <1>1, <1>4, ConstantsAssumption DEF Handled
<1>6. CASE loop.next <= n
  BY <1>1, <1>2, <1>3, <1>5, <1>6, TakeNextIs, StartPlaces DEF Handled
<1>7. CASE ~(loop.next <= n)
  <2>1. loop.next = n + 1 /\ n + 1 <= loop.to
    BY <1>1, <1>5, <1>7, TakeNextIs, RoundTypes DEF Handled
  <2>2. worker'[0].pc = "begin" /\ worker'[0].h = n + 1 /\ ~worker'[0].stored
    BY <2>1, TakeNextIs
  <2>3. n + 1 \in 1..Tip /\ (n + 1) - 1 = n
    BY <1>5, <2>1, RoundTypes
  <2>4. LeftFor(worker[0])' = SpentBy(n + 1)
    <3>1. LeftFor(worker'[0]) = WatchedBy(worker'[0])
      BY <2>2, LeftForIs
    <3>2. WatchedBy(worker'[0]) = SpentBy(n + 1)
      BY <2>2 DEF WatchedBy
    <3>3. LeftFor(worker[0])' = LeftFor(worker'[0])
      BY DEF LeftFor, WatchedBy, First, PinsOf, SpentBy
    <3> QED  BY <3>1, <3>2, <3>3
  <2>5. ASSUME NEW p \in Stored
        PROVE  /\ chain.pin[p].h <= n + 1 /\ chain.pin[p].h # n + 1
               /\ at[p] = IF TrueOutput(p, n) \in SpentBy(n + 1) THEN TrueOutput(p, n)
                          ELSE TrueOutput(p, n + 1)
    <3>1. chain.pin[p].h \in Int /\ chain.pin[p].h <= n /\ at[p] = TrueOutput(p, n)
      BY <1>1, RoundTypes DEF AfterBlock, TInv, TypeOK
    <3>2. TrueOutput(p, n + 1) = Moved(TrueOutput(p, n), n + 1)
      BY <2>3, TrailUnfolds
    <3> QED  BY <1>5, <3>1, <3>2 DEF Moved
  <2>6. Placing(n)'
    BY <1>2, <2>2, <2>4, <2>5, TrailSame DEF Placing, Busy
  <2>7. Handled(n)'
    BY <1>1, <1>2, <1>5 DEF Handled, Full, FullIn
  <2>8. (Start..Tip)' = Start..Tip
    OBVIOUS
  <2> QED  BY <2>6, <2>7, <2>8 DEF PlaceInv
<1> QED  BY <1>6, <1>7

(* Nothing that the invariant is about changes. *)
LEMMA SamePlaces ==
  ASSUME PlaceInv, chain' = chain, UNCHANGED <<at, loop, worker>>
  PROVE  PlaceInv'
<1>1. PICK n \in Start..Tip : Handled(n) /\ (Resting(n) \/ Placing(n))
  BY DEF PlaceInv
<1>2. Stored' = Stored /\ Workers' = Workers /\ (Start..Tip)' = Start..Tip
  BY DEF Stored, Workers
<1>3. Handled(n)'
  BY <1>1, <1>2 DEF Handled, Done, Busy, Full, FullIn
<1>4. Resting(n) => Resting(n)'
  <2>1. {TrueOutput(p, n) : p \in Stored}' = {TrueOutput(p, n) : p \in Stored}
    BY <1>2, TrailSame
  <2>2. Quiet(n) => Quiet(n)'
    BY <1>2, <2>1 DEF Quiet, At
  <2>3. AfterBlock(n) => AfterBlock(n)'
    BY <1>2, TrailSame DEF AfterBlock
  <2> QED  BY <2>2, <2>3 DEF Resting, Busy
<1>5. Placing(n) => Placing(n)'
  <2>1. LeftFor(worker[0])' = LeftFor(worker[0])
    BY DEF LeftFor, WatchedBy, First, PinsOf, SpentBy
  <2> QED  BY <1>2, <2>1, TrailSame DEF Placing, Busy
<1> QED  BY <1>1, <1>2, <1>3, <1>4, <1>5 DEF PlaceInv

----------------------------------------------------------------------------
(* Together. *)

SInv == IInv /\ OutputsOK /\ SettledInv

LEMMA InitSettled == Init => SInv
<1> SUFFICES ASSUME Init PROVE SInv
  OBVIOUS
<1>1. IInv /\ TInv /\ OutputsOK /\ RoundInv
  BY InitTInv, InitReach, InitOrder, InitOutputs, InitRound DEF IInv
<1>2. Stored = {} /\ DOMAIN history = {} /\ history = <<>>
  BY DEF Init, Stored
<1>3. 0 \in Workers /\ \A w \in Workers : worker[w].pc = "idle"
  BY IdleTyped, MainWorker DEF Init
<1>4. HeightInv
  BY <1>2, <1>3 DEF HeightInv, TransferHeightRight, MainRecords, At
<1>5. Start \in Nat /\ Start \in 0..Tip /\ Start \in Start..Tip
  BY ConstantsAssumption
<1>6. loop.to = Start /\ loop.next = Start + 1
  BY <1>5, RoundTyped DEF Init
<1>7. Done = Start
  BY <1>3, <1>5, <1>6 DEF Done, Busy
<1>8. Handled(Start)
  BY <1>1, <1>5, <1>6, <1>7, FullAtStart DEF Handled, Full, TInv, TypeOK
<1>9. Resting(Start)
  BY <1>2, <1>3 DEF Resting, AfterBlock, Quiet, Busy, At
<1>10. PlaceInv
  BY <1>5, <1>8, <1>9 DEF PlaceInv
<1> QED  BY <1>1, <1>4, <1>10 DEF SInv, SettledInv

LEMMA PlainSame == chain' = chain => (Plain' <=> Plain) /\ (Apart' <=> Apart)
<1> SUFFICES ASSUME chain' = chain PROVE (Plain' <=> Plain) /\ (Apart' <=> Apart)
  OBVIOUS
<1>1. \A p, n : TrueOutput(p, n)' = TrueOutput(p, n)
  BY TrailSame
<1>2. Plain' <=> Plain
  BY <1>1 DEF Plain, Heights
<1> QED  BY <1>2 DEF Apart, Calm, FromStart

LEMMA SettledStep == SInv /\ [Next]_vars => SInv'
<1> SUFFICES ASSUME SInv, [Next]_vars PROVE SInv'
  OBVIOUS
<1>1. /\ chain' = chain /\ IInv /\ IInv' /\ TInv /\ TInv' /\ OutputsOK
  BY IInvStep, TInvStep DEF SInv, IInv, Next, vars
<1>2. OutputsOK'
  BY <1>1 DEF OutputsOK, Leaves, First
<1>3. SUFFICES ASSUME Apart PROVE RoundInv' /\ HeightInv' /\ (Plain => PlaceInv')
  BY <1>1, <1>2, PlainSame DEF SInv, SettledInv
<1>4. RoundInv /\ HeightInv /\ (Plain => PlaceInv)
  BY <1>3 DEF SInv, SettledInv
<1>5. Calm /\ OrderInv /\ OrderInv'
  BY <1>1, <1>3 DEF Apart, Calm, IInv, ReachInv
<1>6. CASE UNCHANGED vars
  <2>1. RoundInv'
    BY <1>4, <1>6 DEF vars, RoundInv, Workers, Done, Busy, At, Stored, Watched, PinsOf, SpentBy
  <2>2. HeightInv'
    BY <1>4, <1>6 DEF vars, HeightInv, TransferHeightRight, MainRecords, Leaves, First, Recorded,
         Underway, Workers, Done, Busy, At, Stored, SpentBy
  <2>3. Plain => PlaceInv'
    BY <1>1, <1>4, <1>6, SamePlaces DEF vars
  <2> QED  BY <2>1, <2>2, <2>3
<1>7. CASE Next
  <2>1. CASE NewBlock
    <3>1. Plain => PlaceInv'
      BY <1>1, <1>4, <2>1, SamePlaces DEF NewBlock
    <3> QED  BY <1>1, <1>4, <1>5, <2>1, <3>1, NewBlockRound, LoopHeights
  <2>2. CASE Main
    <3>1. RoundInv'
      BY <1>1, <1>4, <1>5, <2>2, SyncRound, TakeNextRound, SpawnRound DEF Main
    <3>2. HeightInv'
      BY <1>1, <1>4, <1>5, <2>2, LoopHeights
    <3>3. Plain => PlaceInv'
      BY <1>1, <1>4, <1>5, <2>2, SyncPlaces, TakeNextPlaces, SpawnPlaces DEF Main
    <3> QED  BY <3>1, <3>2, <3>3
  <2>3. ~Crash
    BY <1>5 DEF Calm, Crash
  <2>4. ASSUME NEW w \in Workers, Run(w)
        PROVE  RoundInv' /\ HeightInv' /\ (Plain => PlaceInv')
    BY <1>1, <1>3, <1>4, <1>5, <2>4, RunRound, RunHeights, RunPlaces
  <2>5. \A w \in Workers : ~FetchFails(w) /\ \A h \in Heights : ~Reindex(w, h)
    BY <1>5 DEF Calm, FetchFails, Reindex
  <2> QED  BY <1>7, <2>1, <2>2, <2>3, <2>4, <2>5 DEF Next
<1> QED  BY <1>6, <1>7

(***************************************************************************)
(* When rounds end before the next begins, nothing fails and no pin is     *)
(* from the initial height or below, then between rounds every transfer is *)
(* recorded under the height of the block that contains it, and every pin  *)
(* of a Plain chain is where the chain has it: for any number of           *)
(* goroutines, which change each other's Block, any chain and any length   *)
(* of the rounds.                                                          *)
(***************************************************************************)
THEOREM SettledHolds == Spec => []Settled
<1>1. SInv => Settled
  <2> SUFFICES ASSUME SInv, Apart, \A w \in Workers : At(w, "idle"), LoopDone
               PROVE  /\ TransferHeightRight
                      /\ Plain => \A p \in Stored : at[p] = TrueOutput(p, loop.to)
    BY DEF Settled, Apart
  <2>1. TInv /\ TransferHeightRight /\ (Plain => PlaceInv)
    BY DEF SInv, IInv, SettledInv, HeightInv
  <2>2. ASSUME Plain PROVE \A p \in Stored : at[p] = TrueOutput(p, loop.to)
    <3>1. PICK n \in Start..Tip : Handled(n) /\ AfterBlock(n) /\ Done = loop.next - 1
      BY <2>1, <2>2, IdleRests DEF Busy, At
    <3>2. n = loop.to
      BY <2>1, <3>1, RoundTypes DEF Handled, LoopDone
    <3> QED  BY <3>1, <3>2 DEF AfterBlock
  <2> QED  BY <2>1, <2>2
<1> QED  BY <1>1, InitSettled, SettledStep, PTL DEF Spec
=============================================================================
