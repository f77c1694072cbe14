---------------------------- MODULE BlockIndexer ----------------------------
(***************************************************************************)
(* The indexing loop of man/man.go for one chain, and what it does to the  *)
(* pins collection: IndexerRun walks from MaxHeight to the best block,     *)
(* indexes the last few blocks again in goroutines when the chain grew by  *)
(* one, and DoIndexerRun stores a block's pins and moves the pins whose    *)
(* outputs the block spends.  All goroutines share MaxHeight and the       *)
(* adapter's Block, which CatchPins sets and CatchTransfer reads.          *)
(***************************************************************************)
EXTENDS Integers, SequencesExt

CONSTANTS
  Pins,        \* pin ids
  Points,      \* transaction outputs
  Start,       \* initialHeight
  Tip,         \* last height of the chain; bounds the model
  Back,        \* how many blocks are run again, 4 in IndexerRun
  Chains,      \* the block chains and circumstances considered
  MaxFaults,   \* bound on failed fetches
  MaxCrashes,  \* bound on crashes
  MaxReindex   \* bound on calls of reindex and fixStatistics

Heights == 1..Tip

(* 0 is the main loop, the others are the goroutines it starts. *)
Workers == 0..Back

(***************************************************************************)
(* pin: where and when each pin is created.  spent: for each output that   *)
(* is spent, the block, the output a pin in it goes to, and the output     *)
(* GetOWnerAddress writes down: they differ for mvc transactions from      *)
(* version 10 on, as TxHash does not compute their id (GetNewHash does).   *)
(* overlap: the main loop may find a new block before                      *)
(* the goroutines of the last round are done.  steady: a block comes only  *)
(* after the main loop went through the one before.  fails, crashes,       *)
(* calls: whether fetches fail, the process crashes, reindex is called     *)
(***************************************************************************)
Spending == [h: Heights, to: Points, as: Points]

Circumstances == [overlap: BOOLEAN, steady: BOOLEAN, fails: BOOLEAN, crashes: BOOLEAN,
                   calls: BOOLEAN]

IsChain(c) ==
  /\ c.pin \in [Pins -> [h: Heights, out: Points]]
  /\ DOMAIN c.spent \subseteq Points
  /\ c.spent \in [DOMAIN c.spent -> Spending]
  /\ c.when \in Circumstances

ASSUME ConstantsAssumption ==
  /\ Back \in Nat \ {0} /\ Tip \in Nat
  /\ Start \in Nat /\ Back <= Start /\ Start <= Tip
  /\ \A c \in Chains : IsChain(c)
  /\ MaxFaults \in Nat /\ MaxCrashes \in Nat /\ MaxReindex \in Nat

(* A pin's first output is not spent before the block that creates it. *)
ASSUME OutputsAssumption ==
  \A c \in Chains : \A p \in Pins :
    c.pin[p].out \in DOMAIN c.spent => c.pin[p].h <= c.spent[c.pin[p].out].h

VARIABLES
  chain,       \* fixed
  best,        \* GetBestHeight
  maxHeight,   \* MaxHeight; 0 until it is read from the pins
  at,          \* the pins collection: the output of every stored pin
  history,     \* PinTransferHistory: the transferheight at every output arrived at
  block,       \* indexer.Block, by height
  loop,        \* IndexerRun: the round's last height, the next one, whether to start goroutines
  worker,      \* the goroutines inside DoIndexerRun
  faults, crashes, reindexed,   \* how often these happened
  ahead        \* history: a call of reindex was for a block after MaxHeight

counters == <<faults, crashes, reindexed, ahead>>

vars == <<chain, best, maxHeight, at, history, block, loop, worker, counters>>

Local == [pc: {"idle", "begin", "fetch", "find", "catch", "move", "store"},
          h: 0..Tip, found: SUBSET Points, left: SUBSET Points, stored: BOOLEAN]

Idle == [pc |-> "idle", h |-> 0, found |-> {}, left |-> {}, stored |-> FALSE]

At(w, stage) == worker[w].pc = stage

Stored == DOMAIN at

PinsOf(h) == {p \in Pins : chain.pin[p].h = h}

SpentBy(h) == {o \in DOMAIN chain.spent : chain.spent[o].h = h}

----------------------------------------------------------------------------
(* IndexerRun. *)

LoopDone == At(0, "idle") /\ loop.next > loop.to /\ ~loop.spawn

NewBlock ==
  /\ best < Tip
  /\ chain.when.steady => LoopDone /\ loop.to = best
  /\ best' = best + 1
  /\ UNCHANGED <<maxHeight, at, history, block, loop, worker, counters>>

(* Mutation of HighestStored: the block after the highest one. *)
AfterStored == 1 + Max({0} \cup {chain.pin[p].h : p \in Stored})

(* GetMaxHeight of the database. *)
HighestStored == Max({0} \cup {chain.pin[p].h : p \in Stored})

(* Mutation of Round: no goroutines are started. *)
RoundAlone(from, to) == [to |-> to, next |-> from + 1, spawn |-> FALSE]

Round(from, to) == [to |-> to, next |-> from + 1, spawn |-> to - from = 1]

(* getSyncHeight, after the ten seconds of sleep. *)
Sync ==
  /\ LoopDone
  /\ ~chain.when.overlap => \A w \in Workers : At(w, "idle")
  /\ maxHeight' = IF maxHeight = 0 THEN HighestStored ELSE maxHeight
  /\ loop' = IF maxHeight' >= best THEN Round(best, best) ELSE Round(Max({maxHeight', Start}), best)
  /\ UNCHANGED <<best, at, history, block, worker, counters>>

TakeNext ==
  /\ At(0, "idle")
  /\ loop.next <= loop.to
  /\ worker' = [worker EXCEPT ![0] = [Idle EXCEPT !.pc = "begin", !.h = loop.next]]
  /\ loop' = [loop EXCEPT !.next = @ + 1]
  /\ UNCHANGED <<best, maxHeight, at, history, block, counters>>

(* go DoIndexerRun for the blocks before the new one.  The model has one  *)
(* set of goroutines: the next set waits for the one before.              *)
Spawn ==
  /\ \A w \in Workers : At(w, "idle")
  /\ loop.next > loop.to
  /\ loop.spawn
  /\ worker' = [w \in Workers |->
                  IF w = 0 THEN Idle ELSE [Idle EXCEPT !.pc = "begin", !.h = loop.to - w]]
  /\ loop' = [loop EXCEPT !.spawn = FALSE]
  /\ UNCHANGED <<best, maxHeight, at, history, block, counters>>

(* The reindex API and, when the process starts, fixStatistics: any block, *)
(* wherever the loop is, and MaxHeight is left alone.                      *)
Reindex(w, h) ==
  /\ w # 0
  /\ At(w, "idle")
  /\ chain.when.calls
  /\ reindexed < MaxReindex
  /\ reindexed' = reindexed + 1
  /\ ahead' = (ahead \/ h > maxHeight)
  /\ worker' = [worker EXCEPT ![w] = [Idle EXCEPT !.pc = "fetch", !.h = h]]
  /\ UNCHANGED <<best, maxHeight, at, history, block, loop, faults, crashes>>

----------------------------------------------------------------------------
(* DoIndexerRun. *)

(* Mutation of Begin: MaxHeight is the block after the one begun. *)
BeginBeyond(w) ==
  /\ At(w, "begin")
  /\ maxHeight' = worker[w].h + 1
  /\ worker' = [worker EXCEPT ![w].pc = "fetch"]
  /\ UNCHANGED <<best, at, history, block, loop, counters>>

Begin(w) ==
  /\ At(w, "begin")
  /\ maxHeight' = worker[w].h
  /\ worker' = [worker EXCEPT ![w].pc = "fetch"]
  /\ UNCHANGED <<best, at, history, block, loop, counters>>

Fetch(w) ==
  /\ At(w, "fetch")
  /\ worker[w].h <= best
  /\ block' = worker[w].h
  /\ worker' = [worker EXCEPT ![w].pc = "find"]
  /\ UNCHANGED <<best, maxHeight, at, history, loop, counters>>

(* GetBlock fails: no pins, no inputs, nothing to do for this block. *)
NoBlock(w) ==
  /\ At(w, "fetch")
  /\ worker[w].h > best
  /\ worker' = [worker EXCEPT ![w] = Idle]
  /\ UNCHANGED <<best, maxHeight, at, history, block, loop, counters>>

(* The same for a block the node has. *)
FetchFails(w) ==
  /\ chain.when.fails
  /\ faults < MaxFaults
  /\ At(w, "fetch")
  /\ faults' = faults + 1
  /\ worker' = [worker EXCEPT ![w] = Idle]
  /\ UNCHANGED <<best, maxHeight, at, history, block, loop, crashes, reindexed, ahead>>

(***************************************************************************)
(* handleTransfer looks for pins in the inputs of the block and, after the *)
(* block's pins are stored, in the outputs these were created in.          *)
(***************************************************************************)
Watched(w) ==
  IF worker[w].stored
  THEN {chain.pin[p].out : p \in PinsOf(worker[w].h)}
  ELSE SpentBy(worker[w].h)

(* After its inputs a block's pins are stored; after its outputs it is done. *)
Then(w) == IF worker[w].stored THEN Idle ELSE [Idle EXCEPT !.pc = "store", !.h = worker[w].h]

Find(w) ==
  /\ At(w, "find")
  /\ LET found == Watched(w) \cap {at[p] : p \in Stored} IN
     worker' = [worker EXCEPT ![w] = IF found = {} THEN Then(w)
                                     ELSE [@ EXCEPT !.pc = "catch", !.found = found]]
  /\ UNCHANGED <<best, maxHeight, at, history, block, loop, counters>>

(* CatchTransfer: the transactions of the shared Block that spend them. *)
Catch(w) ==
  /\ At(w, "catch")
  /\ LET caught == worker[w].found \cap SpentBy(block) IN
     worker' = [worker EXCEPT ![w] = IF caught = {} THEN Then(w)
                                     ELSE [@ EXCEPT !.pc = "move", !.found = caught, !.left = caught]]
  /\ UNCHANGED <<best, maxHeight, at, history, block, loop, counters>>

(* UpdateTransferPin: an UpdateOne that matches the output. *)
Move(w) ==
  /\ At(w, "move")
  /\ \E o \in worker[w].left :
       /\ worker' = [worker EXCEPT ![w].left = @ \ {o}]
       /\ \/ /\ \E p \in Stored : at[p] = o /\ at' = [at EXCEPT ![p] = chain.spent[o].as]
          \/ /\ \A p \in Stored : at[p] # o
             /\ UNCHANGED at
  /\ UNCHANGED <<best, maxHeight, history, block, loop, counters>>

(* AddTransferHistory: one record per location, under the worker's height. *)
Record(w) ==
  /\ At(w, "move")
  /\ worker[w].left = {}
  /\ LET as == {chain.spent[o].as : o \in worker[w].found} IN
     history' = [q \in DOMAIN history \cup as |->
                   IF q \in DOMAIN history THEN history[q] ELSE worker[w].h]
  /\ worker' = [worker EXCEPT ![w] = Then(w)]
  /\ UNCHANGED <<best, maxHeight, at, block, loop, counters>>

(* Mutation of Store: no second look for transfers. *)
StoreOnly(w) ==
  /\ At(w, "store")
  /\ at' = [p \in Stored \cup PinsOf(worker[w].h) |->
              IF p \in Stored THEN at[p] ELSE chain.pin[p].out]
  /\ worker' = [worker EXCEPT ![w] = Idle]
  /\ UNCHANGED <<best, maxHeight, history, block, loop, counters>>

(* BatchAddPins: pins already stored are left as they are. *)
Store(w) ==
  /\ At(w, "store")
  /\ LET new == PinsOf(worker[w].h) IN
     /\ at' = [p \in Stored \cup new |-> IF p \in Stored THEN at[p] ELSE chain.pin[p].out]
     /\ worker' = [worker EXCEPT ![w] = IF new = {} THEN Idle
                                        ELSE [@ EXCEPT !.pc = "find", !.stored = TRUE]]
  /\ UNCHANGED <<best, maxHeight, history, block, loop, counters>>

Run(w) ==
  Begin(w) \/ Fetch(w) \/ NoBlock(w) \/ Find(w) \/ Catch(w) \/ Move(w) \/ Record(w) \/ Store(w)

(* All goroutines end; MaxHeight is read again by the next Sync. *)
Crash ==
  /\ chain.when.crashes
  /\ crashes < MaxCrashes
  /\ crashes' = crashes + 1
  /\ maxHeight' = 0
  /\ block' = 0
  /\ loop' = Round(Start, Start)
  /\ worker' = [w \in Workers |-> Idle]
  /\ UNCHANGED <<best, at, history, faults, reindexed, ahead>>

----------------------------------------------------------------------------

Init ==
  /\ chain \in Chains
  /\ best = Start
  /\ maxHeight = 0
  /\ at = <<>>
  /\ history = <<>>
  /\ block = 0
  /\ loop = Round(Start, Start)
  /\ worker = [w \in Workers |-> Idle]
  /\ faults = 0 /\ crashes = 0 /\ reindexed = 0 /\ ahead = FALSE

Main == Sync \/ TakeNext \/ Spawn

Next ==
  /\ \/ NewBlock \/ Main \/ Crash
     \/ \E w \in Workers : Run(w) \/ FetchFails(w) \/ (\E h \in Heights : Reindex(w, h))
  /\ UNCHANGED chain

(* The loop and every goroutine keep running; blocks may stop coming. *)
Fairness ==
  /\ WF_vars(Main /\ UNCHANGED chain)
  /\ \A w \in Workers : WF_vars(Run(w) /\ UNCHANGED chain)

Spec == Init /\ [][Next]_vars

FairSpec == Spec /\ Fairness

----------------------------------------------------------------------------
(* Properties. *)

TypeOK ==
  /\ IsChain(chain)
  /\ best \in Start..Tip
  /\ maxHeight \in 0..Tip
  /\ Stored \subseteq Pins
  /\ at \in [Stored -> Points]
  /\ DOMAIN history \subseteq Points
  /\ history \in [DOMAIN history -> Heights]
  /\ block \in 0..Tip
  /\ loop \in [to: Start..Tip, next: 1..(Tip + 1), spawn: BOOLEAN]
  /\ worker \in [Workers -> Local]
  /\ faults \in 0..MaxFaults /\ crashes \in 0..MaxCrashes /\ reindexed \in 0..MaxReindex
  /\ ahead \in BOOLEAN

(***************************************************************************)
(* "Discover MetaID protocol data in block order": a pin is stored only    *)
(* when the pins of all earlier blocks are, although re-runs move          *)
(* MaxHeight back at any time and a restart recomputes it from the pins.   *)
(* That is as long as no fetch failed and nobody had a block indexed that  *)
(* the loop had not come to: after a restart the loop begins behind it.    *)
(***************************************************************************)
InOrder ==
  ~chain.when.fails /\ ~ahead =>
    \A p \in Stored : \A q \in Pins :
      chain.pin[q].h \in (Start + 1)..(chain.pin[p].h - 1) => q \in Stored

(***************************************************************************)
(* Whatever is re-run and wherever MaxHeight is moved, the pins of every   *)
(* block that appears are stored at some point, after crashes too, unless  *)
(* somebody has a block indexed that the loop has not come to.  After a    *)
(* failed fetch that holds for a loop that keeps up with the chain, once   *)
(* there is a later block: only growth by one block starts re-runs.        *)
(***************************************************************************)
EventuallyIndexed ==
  \A p \in Pins :
    ( /\ chain.pin[p].h \in (Start + 1)..best
      /\ chain.when.fails =>
           chain.when.steady /\ ~chain.when.crashes /\ chain.pin[p].h < best )
    ~> (p \in Stored \/ ahead)

----------------------------------------------------------------------------
(* Where a pin really is after each block, if no block moves it twice. *)
Trail(p) ==
  LET after[n \in 0..Tip] ==
        IF n = 0 THEN chain.pin[p].out
        ELSE LET o == after[n - 1] IN IF o \in SpentBy(n) THEN chain.spent[o].to ELSE o
  IN  after

TrueOutput(p, n) == Trail(p)[n]

(* Every pin moves at most once in a block, to the output written down, and *)
(* no two share an output.                                                  *)
Plain ==
  /\ \A o \in DOMAIN chain.spent : chain.spent[o].as = chain.spent[o].to
  /\ \A o \in DOMAIN chain.spent :
       LET to == chain.spent[o].to
       IN  to \in DOMAIN chain.spent => chain.spent[to].h > chain.spent[o].h
  /\ \A p, q \in Pins, n \in Heights : p # q => TrueOutput(p, n) # TrueOutput(q, n)

(* Blocks up to the initial height are indexed by goroutines first, if at all. *)
FromStart == \A p \in Pins : chain.pin[p].h > Start

Calm == ~chain.when.overlap /\ ~chain.when.fails /\ ~chain.when.crashes /\ ~chain.when.calls

(***************************************************************************)
(* "check transfer in this block": a transfer is recorded under the height *)
(* of the block that contains it.                                          *)
(***************************************************************************)
TransferHeightRight ==
  \A q \in DOMAIN history :
    \E o \in DOMAIN chain.spent : chain.spent[o].h = history[q] /\ chain.spent[o].as = q

(***************************************************************************)
(* When the goroutines of a round end before the next round, nothing fails *)
(* and no pin is from the initial height or below, every stored pin of a   *)
(* Plain chain is where the chain has it each time the loop is done: the   *)
(* goroutines disturb each other's Block, but they only repeat.  Its       *)
(* transfers are then recorded under the heights of the blocks that        *)
(* contain them.                                                           *)
(***************************************************************************)
Settled ==
  Calm /\ FromStart /\ (\A w \in Workers : At(w, "idle")) /\ LoopDone =>
    /\ TransferHeightRight
    /\ Plain => \A p \in Stored : at[p] = TrueOutput(p, loop.to)
=============================================================================
