------------------------------ MODULE Mempool ------------------------------
(***************************************************************************)
(* What the indexer keeps of btc transactions that are in no block yet:    *)
(* the pins they create, the pins they move, and the MRC-20 documents they *)
(* spend and create.  ZmqRun (adapter/bitcoin/zmq.go) receives the         *)
(* transactions bitcoind announces, a second goroutine (man/man.go) stores *)
(* them, and two places of the main loop and the re-runs delete what got   *)
(* into a block: the end of DoIndexerRun, and CheckNewBlock, which keeps   *)
(* its position in a file.                                                 *)
(*                                                                         *)
(* A transaction has one output that matters, named like the transaction;  *)
(* it receives every pin and all tokens of the inputs.                     *)
(***************************************************************************)
EXTENDS Integers, SequencesExt, FiniteSetsExt

CONSTANTS
  Txs,        \* transactions
  Old,        \* those of block 1, each of which creates a pin and one token
  NoTx,       \* no transaction
  Addresses,  \* owners of outputs
  Chains,     \* the transactions and circumstances considered
  Tip,        \* last height; bounds the model
  Back,       \* how many blocks are run again, 4 in IndexerRun
  MaxFaults,  \* bound on blocks the node does not deliver to the cleaners
  MaxCrashes  \* bound on crashes

Heights == 1..Tip

(***************************************************************************)
(* tx: the outputs spent, the owner of the output, whether a pin is        *)
(* created, whether it is an MRC-20 transfer pin.  prompt: what has been   *)
(* announced is stored before the main loop looks for new blocks.  steady: *)
(* the loop has caught up before a block comes.  fails, crashes: whether   *)
(* reading a block fails and the process crashes.                          *)
(***************************************************************************)
Tx == [ins: SUBSET Txs, to: Addresses, pin: BOOLEAN, transfer: BOOLEAN]

Chain ==
  [tx: [Txs -> Tx], prompt: BOOLEAN, steady: BOOLEAN, fails: BOOLEAN, crashes: BOOLEAN]

ASSUME ConstantsAssumption ==
  /\ IsFiniteSet(Txs) /\ Old \subseteq Txs /\ NoTx \notin Txs
  /\ Tip \in Nat \ {0} /\ Back \in Nat \ {0}
  /\ MaxFaults \in Nat /\ MaxCrashes \in Nat
  /\ Chains \subseteq Chain
  /\ \A c \in Chains : \A t \in Txs : c.tx[t].ins = {} <=> t \in Old

VARIABLES
  chain,      \* fixed
  pool,       \* bitcoind: the mempool
  entered,    \* bitcoind: what ever was in it, also what was replaced since
  blocks,     \* bitcoind: the transactions of each block
  queue,      \* rawtx messages on the way
  reader,     \* the goroutine in ZmqRun
  handler,    \* the goroutine in doZmqRun
  received,   \* zmqrecivetx
  listed,     \* mempoolpins, by transaction
  moves,      \* mempooltransferpins, by pin and fromaddress: the transaction
  pending,    \* the mempool collection of mrc20utxos, by output
  indexed,    \* blocks whose pins and documents are in the database
  maxHeight,  \* MaxHeight
  file,       \* btc_del_mempool_height.txt
  loop,       \* the main loop: in IndexerRun or in CheckNewBlock, and how far
  worker,     \* 0 the main loop, the others re-runs: the DoIndexerRun they are in
  ready,      \* FirstCompleted
  faults, crashes

node == <<pool, entered, blocks, queue>>
zmq == <<reader, handler>>
records == <<received, listed, moves, pending>>
main == <<indexed, maxHeight, file, loop, worker, ready>>
counters == <<faults, crashes>>

vars == <<chain, node, zmq, records, main, counters>>

Ins(t) == chain.tx[t].ins

Best == Len(blocks)

Mined == UNION Range(blocks)

InBlocks(hs) == UNION {blocks[h] : h \in hs}

(* The transactions whose outputs flow into t's, t among them. *)
Origins(t) ==
  LET up[n \in 0..Cardinality(Txs)] ==
        IF n = 0 THEN {t} ELSE up[n - 1] \cup UNION {Ins(u) : u \in up[n - 1]}
  IN  up[Cardinality(Txs)]

Tokens(t) == Cardinality(Origins(t) \cap Old)

Worth(outputs) == SumFunction([o \in outputs |-> Tokens(o)])

(* Outputs that hold a pin or tokens in the main collections. *)
Unspent == InBlocks(indexed) \ UNION {Ins(t) : t \in InBlocks(indexed)}

Free(w) == worker[w].at = "idle"

(* Every block is done (a re-run leaves MaxHeight below the best height, and *)
(* the last blocks are indexed once more); the listener has nothing to do.   *)
CaughtUp ==
  loop.at = "rest" /\ (\A w \in 0..Back : Free(w)) /\ file = Best /\ indexed = 1..Best

Quiet == queue = <<>> /\ reader.at = "receive" /\ handler.at = "idle"

----------------------------------------------------------------------------
(* bitcoind: rawtx announces what enters the mempool and what a block connects. *)

Descendants(S) == {t \in pool : Origins(t) \cap S # {}}

(* A transaction that spends the same output is replaced, with what spends it. *)
Enter(t) ==
  /\ t \notin entered \cup Mined
  /\ Ins(t) \subseteq pool \cup Mined
  /\ \A u \in Mined : Ins(u) \cap Ins(t) = {}
  /\ pool' = (pool \ Descendants({u \in pool : Ins(u) \cap Ins(t) # {}})) \cup {t}
  /\ entered' = entered \cup {t}
  /\ queue' = Append(queue, t)
  /\ UNCHANGED <<blocks, zmq, records, main, counters>>

Connect(S) ==
  /\ Best < Tip
  /\ chain.steady => CaughtUp
  /\ \A t \in S : Ins(t) \subseteq Mined \cup S
  /\ pool' = pool \ S
  /\ blocks' = Append(blocks, S)
  /\ queue' = queue \o SetToSeq(S)
  /\ UNCHANGED <<entered, zmq, records, main, counters>>

----------------------------------------------------------------------------
(* ZmqRun: up to three messages per transaction, each taken by the handler *)
(* when it is done with the one before (the channel has no buffer).        *)

Reading == [at |-> "receive", tx |-> NoTx, found |-> {}]

Waiting == [at |-> "idle", tx |-> NoTx, found |-> {}, chained |-> {}, pooled |-> <<>>]

(* GetOneZmqTx. *)
Known(t) == t \in received

Receive ==
  /\ reader.at = "receive"
  /\ queue # <<>>
  /\ queue' = Tail(queue)
  /\ reader' = IF Known(Head(queue)) THEN reader
               ELSE [Reading EXCEPT !.at = "save", !.tx = Head(queue)]
  /\ UNCHANGED <<pool, entered, blocks, handler, records, main, counters>>

(* SaveZmqReciveTx, before anything of the transaction is stored. *)
Save ==
  /\ reader.at = "save"
  /\ received' = received \cup {reader.tx}
  /\ reader' = [reader EXCEPT !.at = IF chain.tx[reader.tx].pin THEN "pins" ELSE "transfers"]
  /\ UNCHANGED <<node, handler, listed, moves, pending, main, counters>>

Send(stage, found) ==
  /\ handler.at = "idle"
  /\ handler' = [Waiting EXCEPT !.at = stage, !.tx = reader.tx, !.found = found]

SendPins ==
  /\ reader.at = "pins"
  /\ Send("pin", {})
  /\ reader' = [reader EXCEPT !.at = "transfers"]
  /\ UNCHANGED <<node, records, main, counters>>

(* TransferCheck: the pins the pins collection has at the outputs spent. *)
TransferCheck(t) ==
  UNION {{[pin |-> p, from |-> chain.tx[o].to] : p \in {q \in Origins(o) : chain.tx[q].pin}} :
           o \in Ins(t) \cap Unspent}

CheckTransfers ==
  /\ reader.at = "transfers"
  /\ LET found == TransferCheck(reader.tx) IN
     reader' = [reader EXCEPT !.at = IF found = {} THEN "last" ELSE "moves", !.found = found]
  /\ UNCHANGED <<node, handler, records, main, counters>>

SendMoves ==
  /\ reader.at = "moves"
  /\ Send("move", reader.found)
  /\ reader' = [reader EXCEPT !.at = "last"]
  /\ UNCHANGED <<node, records, main, counters>>

SendLast ==
  /\ reader.at = "last"
  /\ Send("read", {})
  /\ reader' = Reading
  /\ UNCHANGED <<node, records, main, counters>>

----------------------------------------------------------------------------
(* doZmqRun: the pins of a message, then CheckMempoolHadle. *)

(* AddMempoolPin; the id is unique. *)
StorePin ==
  /\ handler.at = "pin"
  /\ listed' = listed \cup {handler.tx}
  /\ handler' = [handler EXCEPT !.at = "read"]
  /\ UNCHANGED <<node, reader, received, moves, pending, main, counters>>

(* AddMempoolTransfer, one after the other; fromaddress and pinid are unique. *)
StoreMove ==
  /\ handler.at = "move"
  /\ \E f \in handler.found :
       /\ moves' = [g \in DOMAIN moves \cup {f} |->
                      IF g \in DOMAIN moves THEN moves[g] ELSE handler.tx]
       /\ handler' = [handler EXCEPT !.found = @ \ {f},
                                     !.at = IF handler.found = {f} THEN "read" ELSE "move"]
  /\ UNCHANGED <<node, reader, received, listed, pending, main, counters>>

PendingAt(points) ==
  [o \in {p \in points \cap DOMAIN pending : pending[p].live} |-> pending[o]]

(***************************************************************************)
(* GetMrc20UtxoByOutPutList of both collections, for native transfers and  *)
(* for transfer pins; a pin that CheckOperationtx finds is done with.      *)
(***************************************************************************)
Processed(t) == chain.tx[t].transfer /\ \E o \in DOMAIN pending : pending[o].optx = t

ReadDocs ==
  /\ handler.at = "read"
  /\ LET t == handler.tx
         chained == {o \in Ins(t) \cap Unspent : Tokens(o) > 0}
         pooled == PendingAt(Ins(t))
     IN  handler' = IF Processed(t) \/ chained \cup DOMAIN pooled = {} THEN Waiting
                    ELSE [handler EXCEPT !.at = "write", !.chained = chained, !.pooled = pooled]
  /\ UNCHANGED <<node, reader, records, main, counters>>

(* Mutation of SpentCopy: the copy of a spent document keeps its status. *)
SpentCopyLive(doc, t) == [doc EXCEPT !.optx = t]

SpentCopy(doc, t) == [doc EXCEPT !.live = FALSE, !.optx = t]

(* The document the main collection has for an unspent output. *)
ChainDoc(o) == [amt |-> Tokens(o), live |-> TRUE, mined |-> TRUE, optx |-> o]

(* UpdateMrc20Utxo: inputs are copied as spent, what they hold is credited. *)
WriteDocs ==
  /\ handler.at = "write"
  /\ LET t == handler.tx
         pooled == handler.pooled
         amount == Worth(handler.chained)
                     + SumFunction([o \in DOMAIN pooled |-> pooled[o].amt])
     IN  pending' = [o \in DOMAIN pending \cup DOMAIN pooled \cup handler.chained \cup {t} |->
                       IF o = t THEN [amt |-> amount, live |-> TRUE, mined |-> FALSE, optx |-> t]
                       ELSE IF o \in DOMAIN pooled THEN SpentCopy(pooled[o], t)
                       ELSE IF o \in handler.chained THEN SpentCopy(ChainDoc(o), t)
                       ELSE pending[o]]
  /\ handler' = Waiting
  /\ UNCHANGED <<node, reader, received, listed, moves, main, counters>>

----------------------------------------------------------------------------
(* The main loop. *)

Idle == [at |-> "idle", h |-> 0, file |-> FALSE]

Resting == [at |-> "rest", next |-> 1, to |-> 0, again |-> FALSE]

Looking == Free(0) /\ (chain.prompt => Quiet)

(* IndexerRun: the blocks after MaxHeight, if there are any. *)
IndexerRun ==
  /\ loop.at = "rest" /\ Looking
  /\ \/ /\ maxHeight < Best
        /\ loop' = [at |-> "index", next |-> maxHeight + 1, to |-> Best,
                    again |-> Best - maxHeight = 1]
        /\ UNCHANGED ready
     \/ /\ maxHeight >= Best
        /\ loop' = [Resting EXCEPT !.at = "check"]
        /\ ready' = TRUE
  /\ UNCHANGED <<node, zmq, records, indexed, maxHeight, file, worker, counters>>

(* A block of IndexerRun, or of CheckNewBlock, whose own position is in the file. *)
NextBlock ==
  /\ loop.at \in {"index", "clean"} /\ Free(0) /\ loop.next <= loop.to
  /\ worker' = [worker EXCEPT ![0] =
                  IF loop.at = "index" THEN [at |-> "store", h |-> loop.next, file |-> FALSE]
                  ELSE [at |-> "pins", h |-> loop.next, file |-> TRUE]]
  /\ loop' = [loop EXCEPT !.next = @ + 1]
  /\ UNCHANGED <<node, zmq, records, indexed, maxHeight, file, ready, counters>>

(* The last blocks again, if the chain grew by one, then FirstCompleted. *)
EndIndexerRun ==
  /\ loop.at = "index" /\ Free(0) /\ loop.next > loop.to
  /\ loop.again => \A w \in 1..Back : Free(w)
  /\ worker' = [w \in 0..Back |->
                  IF loop.again /\ w \in 1..(loop.to - 1)
                  THEN [at |-> "store", h |-> loop.to - w, file |-> FALSE] ELSE worker[w]]
  /\ ready' = TRUE
  /\ loop' = [Resting EXCEPT !.at = "check"]
  /\ UNCHANGED <<node, zmq, records, indexed, maxHeight, file, counters>>

(* CheckNewBlock. *)
CheckNewBlock ==
  /\ loop.at = "check" /\ Looking
  /\ loop' = IF file >= Best THEN Resting
             ELSE [Resting EXCEPT !.at = "clean", !.next = file, !.to = Best]
  /\ UNCHANGED <<node, zmq, records, indexed, maxHeight, file, worker, ready, counters>>

EndCheck ==
  /\ loop.at = "clean" /\ Free(0) /\ loop.next > loop.to
  /\ loop' = Resting
  /\ UNCHANGED <<node, zmq, records, indexed, maxHeight, file, worker, ready, counters>>

(* DoIndexerRun: MaxHeight, then the block's pins and documents. *)
StoreBlock(w) ==
  /\ worker[w].at = "store"
  /\ maxHeight' = worker[w].h
  /\ indexed' = indexed \cup {worker[w].h}
  /\ worker' = [worker EXCEPT ![w] = IF ready THEN [@ EXCEPT !.at = "pins"] ELSE Idle]
  /\ UNCHANGED <<node, zmq, records, file, loop, ready, counters>>

(* Mutation of EndDelete: the file holds the next block. *)
EndDeleteNext(w) ==
  /\ worker' = [worker EXCEPT ![w] = Idle]
  /\ file' = IF worker[w].file THEN worker[w].h + 1 ELSE file

(* DeleteMempoolData, and UpdateLocalLastHeight after it. *)
EndDelete(w) ==
  /\ worker' = [worker EXCEPT ![w] = Idle]
  /\ file' = IF worker[w].file THEN worker[w].h ELSE file

(* Mutation of DeletePins: pins only. *)
DeletePinsOnly(w) ==
  /\ worker[w].at = "pins"
  /\ listed' = listed \ blocks[worker[w].h]
  /\ worker' = [worker EXCEPT ![w].at = "docs"]
  /\ UNCHANGED <<node, zmq, received, moves, pending, indexed, maxHeight, file, loop, ready, counters>>

(* DeleteMempoolInscription: two collections. *)
DeletePins(w) ==
  /\ worker[w].at = "pins"
  /\ listed' = listed \ blocks[worker[w].h]
  /\ moves' = [f \in {g \in DOMAIN moves : moves[g] \notin blocks[worker[w].h]} |-> moves[f]]
  /\ worker' = [worker EXCEPT ![w].at = "docs"]
  /\ UNCHANGED <<node, zmq, received, pending, indexed, maxHeight, file, loop, ready, counters>>

(* DeleteMempoolMc20, by operationtx. *)
DeleteDocs(w) ==
  /\ worker[w].at = "docs"
  /\ pending' = [o \in {p \in DOMAIN pending : pending[p].optx \notin blocks[worker[w].h]} |->
                   pending[o]]
  /\ worker' = [worker EXCEPT ![w].at = "received"]
  /\ UNCHANGED <<node, zmq, received, listed, moves, indexed, maxHeight, file, loop, ready, counters>>

DeleteReceived(w) ==
  /\ worker[w].at = "received"
  /\ received' = received \ blocks[worker[w].h]
  /\ EndDelete(w)
  /\ UNCHANGED <<node, zmq, listed, moves, pending, indexed, maxHeight, loop, ready, counters>>

(* GetBlockTxHash has no error result: nothing is deleted, the file moves on. *)
DeleteFails(w) ==
  /\ worker[w].at = "pins"
  /\ chain.fails /\ faults < MaxFaults
  /\ faults' = faults + 1
  /\ EndDelete(w)
  /\ UNCHANGED <<node, zmq, records, indexed, maxHeight, loop, ready, crashes>>

(* Messages on the way are lost; the file and the database stay. *)
Crash ==
  /\ chain.crashes /\ crashes < MaxCrashes
  /\ crashes' = crashes + 1
  /\ queue' = <<>>
  /\ reader' = Reading /\ handler' = Waiting
  /\ maxHeight' = Max(indexed)
  /\ loop' = Resting
  /\ worker' = [w \in 0..Back |-> Idle]
  /\ ready' = FALSE
  /\ UNCHANGED <<pool, entered, blocks, records, indexed, file, faults>>

----------------------------------------------------------------------------

(* The first start: the file is made with the best height. *)
Init ==
  /\ chain \in Chains
  /\ pool = {} /\ entered = {} /\ blocks = <<Old>> /\ queue = <<>>
  /\ reader = Reading /\ handler = Waiting
  /\ received = {} /\ listed = {} /\ moves = <<>> /\ pending = <<>>
  /\ indexed = {1} /\ maxHeight = 1 /\ file = 1
  /\ loop = Resting
  /\ worker = [w \in 0..Back |-> Idle]
  /\ ready = FALSE
  /\ faults = 0 /\ crashes = 0

Node == (\E t \in Txs : Enter(t)) \/ (\E S \in SUBSET pool : Connect(S))

Reader == Receive \/ Save \/ SendPins \/ CheckTransfers \/ SendMoves \/ SendLast

Handler == StorePin \/ StoreMove \/ ReadDocs \/ WriteDocs

Loop == IndexerRun \/ NextBlock \/ EndIndexerRun \/ CheckNewBlock \/ EndCheck

Run(w) ==
  StoreBlock(w) \/ DeletePins(w) \/ DeleteDocs(w) \/ DeleteReceived(w) \/ DeleteFails(w)

Next ==
  /\ Node \/ Reader \/ Handler \/ Loop \/ (\E w \in 0..Back : Run(w)) \/ Crash
  /\ UNCHANGED chain

Spec == Init /\ [][Next]_vars

----------------------------------------------------------------------------
(* Properties. *)

TypeOK ==
  /\ chain \in Chain
  /\ pool \subseteq entered /\ entered \subseteq Txs /\ blocks \in Seq(SUBSET Txs) /\ queue \in Seq(Txs)
  /\ reader.at \in {"receive", "save", "pins", "transfers", "moves", "last"}
  /\ handler.at \in {"idle", "pin", "move", "read", "write"}
  /\ received \subseteq Txs /\ listed \subseteq Txs
  /\ moves \in [DOMAIN moves -> Txs]
  /\ DOMAIN moves \subseteq [pin: Txs, from: Addresses]
  /\ pending \in [DOMAIN pending -> [amt: Nat, live: BOOLEAN, mined: BOOLEAN, optx: Txs]]
  /\ indexed \subseteq 1..Best /\ maxHeight \in 1..Best /\ file \in 1..Best
  /\ worker \in [0..Back -> [at: {"idle", "store", "pins", "docs", "received"},
                             h: 0..Tip, file: BOOLEAN]]

(* No record of these transactions is left. *)
Gone(S) ==
  /\ listed \cap S = {}
  /\ Range(moves) \cap S = {}
  /\ \A o \in DOMAIN pending : pending[o].optx \notin S

(* No transaction spends what another one outside block 1 makes, or its input. *)
Flat ==
  /\ \A t \in Txs : Ins(t) \subseteq Old
  /\ \A t, u \in Txs : t # u => Ins(t) \cap Ins(u) = {}

(* Nothing of a block is left; a block that could not be read is cleaned up with the next one. *)
Deleted ==
  CaughtUp /\ Quiet =>
    /\ faults = 0 => Gone(Mined)
    /\ chain.steady /\ faults <= 1 => Gone(InBlocks(1..(Best - 1)))

(* Pins that transactions of the mempool create are listed, and, of independent ones, those moved. *)
AllListed ==
  Quiet =>
    \A t \in pool :
      /\ chain.tx[t].pin => t \in listed
      /\ Flat => \A f \in TransferCheck(t) : f \in DOMAIN moves /\ moves[f] = t

(***************************************************************************)
(* README, Mempool: data "is automatically deleted after being included in *)
(* a block".  However re-runs, the two cleaners, new transactions and      *)
(* crashes interleave, what is listed comes to be what the node's mempool  *)
(* holds: nothing of the blocks is left, provided that announcements are   *)
(* stored before the loop looks for blocks, and nothing announced is       *)
(* passed over, provided that the process does not crash.                  *)
(***************************************************************************)
Listing == (chain.prompt => Deleted) /\ (crashes = 0 => AllListed)

(* The README's sentence without that proviso. *)
AutomaticallyDeleted == CaughtUp /\ Quiet => Gone(Mined)

Of(a, outputs) == {o \in outputs : chain.tx[o].to = a}

(***************************************************************************)
(* Balance and UnsafeBalance of GetMrc20BalanceByAddress together: unspent *)
(* documents, plus what transactions of the mempool credit, minus the      *)
(* copies of documents that they spend.                                    *)
(***************************************************************************)
Balance(a) ==
  LET docs(live, mined) ==
        {o \in DOMAIN pending : pending[o].live = live /\ pending[o].mined = mined}
      amount(outputs) == SumFunction([o \in outputs |-> pending[o].amt])
  IN  Worth(Of(a, Unspent)) + amount(Of(a, docs(TRUE, FALSE))) - amount(Of(a, docs(FALSE, TRUE)))

(* What is unspent once these transactions are confirmed too. *)
UnspentAfter(ts) == (Mined \cup ts) \ UNION {Ins(t) : t \in Mined \cup ts}

(***************************************************************************)
(* Of independent transactions no token is shown twice or missing while    *)
(* its transfer goes from the mempool into a block: every address is shown *)
(* what it will have when the mempool is confirmed, except that a crash    *)
(* may have lost announcements.                                            *)
(***************************************************************************)
BalanceKept ==
  chain.prompt /\ faults = 0 /\ Flat /\ CaughtUp /\ Quiet =>
    \E seen \in SUBSET pool :
      /\ crashes = 0 => seen = pool
      /\ \A a \in Addresses : Balance(a) = Worth(Of(a, UnspentAfter(seen)))
=============================================================================
