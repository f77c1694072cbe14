--------------------------- MODULE MempoolProofs ---------------------------
(***************************************************************************)
(* What TLAPS proves of the mempool: however the listener, the main loop,  *)
(* its re-runs and the two cleaners interleave, for any transactions and   *)
(* any blocks.                                                             *)
(***************************************************************************)
EXTENDS Mempool, SetLemmas

----------------------------------------------------------------------------
(* The inductive invariant. *)

Found == [pin: Txs, from: Addresses]

Stages == {"idle", "store", "pins", "docs", "received"}

NodeInv ==
  /\ pool \subseteq entered /\ entered \subseteq Txs /\ queue \in Seq(Txs)
  /\ blocks \in Seq(SUBSET Txs) /\ blocks # <<>> /\ blocks[1] = Old /\ Best <= Tip
  /\ pool \cap Mined = {}

ListenerInv ==
  /\ reader.at \in {"receive", "save", "pins", "transfers", "moves", "last"}
  /\ DOMAIN reader = {"at", "tx", "found"}
  /\ reader.at # "receive" => reader.tx \in Txs
  /\ handler.at \in {"idle", "pin", "move", "read", "write"}
  /\ DOMAIN handler = {"at", "tx", "found", "chained", "pooled"}
  /\ handler.at # "idle" => handler.tx \in Txs

LoopTyped ==
  /\ 1 \in indexed /\ indexed \subseteq 1..Best
  /\ maxHeight \in 1..Best /\ file \in 1..Best
  /\ loop.at \in {"rest", "index", "check", "clean"}
  /\ DOMAIN loop = {"at", "next", "to", "again"}
  /\ loop.next \in Nat \ {0} /\ loop.to \in 0..Best
  /\ worker \in [0..Back -> [at: Stages, h: 0..Tip, file: BOOLEAN]]
  /\ \A w \in 0..Back : ~Free(w) => worker[w].h \in 1..Best
  /\ faults \in Nat /\ crashes \in Nat

TInv == chain \in Chains /\ NodeInv /\ ListenerInv /\ LoopTyped

DocFields == {"amt", "live", "mined", "optx"}

(* Documents, those the handler has read among them, are whole. *)
DocsInv ==
  /\ \A o \in DOMAIN pending : DOMAIN pending[o] = DocFields
  /\ \A o \in DOMAIN handler.pooled : DOMAIN handler.pooled[o] = DocFields

(* A transaction whose announcement is on its way, or being handled. *)
OnWay(t) ==
  \/ \E i \in DOMAIN queue : queue[i] = t
  \/ reader.at # "receive" /\ reader.tx = t
  \/ handler.at # "idle" /\ handler.tx = t

(* The cleaner that keeps its position in the file is in a block. *)
Cleaning == worker[0].file

(* Where it is: it begins with the block in the file. *)
PositionInv ==
  /\ \A w \in 0..Back : worker[w].file =>
       w = 0 /\ worker[w].at \in {"pins", "docs", "received"} /\ loop.at = "clean"
  /\ Cleaning => /\ loop.next = worker[0].h + 1 /\ worker[0].h <= loop.to
                 /\ worker[0].h = file \/ worker[0].h = file + 1
  /\ loop.at = "clean" /\ ~Cleaning =>
       Free(0) /\ (loop.next = file \/ loop.next = file + 1)
  /\ chain.steady => Best <= file + 1

(* What is on its way is of blocks the loop has not looked for. *)
PromptInv ==
  chain.prompt =>
    \A h \in 1..Best : \A t \in blocks[h] :
      OnWay(t) => file < h /\ loop.to < h /\ (Cleaning => worker[0].h < h)

UnlistedBy(S) == listed \cap S = {} /\ \A f \in DOMAIN moves : moves[f] \notin S

GoneAll(S) == UnlistedBy(S) /\ \A o \in DOMAIN pending : pending[o].optx \notin S

UnlistedIn(h) == UnlistedBy(blocks[h])

GoneIn(h) == GoneAll(blocks[h])

(* The blocks whose pins, or all records, are to be gone. *)
PinsCleaned(h) ==
  Cleaning /\ worker[0].h = h /\ worker[0].at \in {"docs", "received"}

Cleaned(h) ==
  \/ faults = 0 /\ h <= file
  \/ /\ chain.steady /\ faults <= 1
     /\ \/ h < file
        \/ h = file /\ Cleaning /\ worker[0].h = file + 1
        \/ /\ h = file /\ loop.at = "clean" /\ ~Cleaning
           /\ loop.next = file + 1 /\ loop.next <= loop.to
  \/ Cleaning /\ worker[0].h = h /\ worker[0].at = "received"

CleanInv ==
  chain.prompt =>
    \A h \in 1..Best : (Cleaned(h) => GoneIn(h)) /\ (PinsCleaned(h) => UnlistedIn(h))

(* What has been announced was in the node's mempool. *)
SeenInv ==
  /\ received \subseteq entered
  /\ \A i \in DOMAIN queue : queue[i] \in entered
  /\ reader.at # "receive" => reader.tx \in entered

(* The announcement of a transaction of the node's mempool is on its way once. *)
OnceInv ==
  crashes = 0 =>
    \A t \in pool : \A i \in DOMAIN queue : queue[i] = t =>
      /\ t \notin received /\ ~(reader.at # "receive" /\ reader.tx = t)
      /\ \A j \in DOMAIN queue : queue[j] = t => j = i

Queued(t) == \E i \in DOMAIN queue : queue[i] = t

ReaderAt(t, stages) == reader.tx = t /\ reader.at \in stages

(* Where its pin, and the pins it moves, are on the way. *)
PinsInv ==
  crashes = 0 =>
    \A t \in pool : chain.tx[t].pin =>
      \/ Queued(t) \/ ReaderAt(t, {"save", "pins"})
      \/ handler.at = "pin" /\ handler.tx = t
      \/ t \in listed

(* Of independent transactions: a pin moves with the one that spends its output. *)
OwnMoves(t, fs) == \A f \in fs : f.pin \in Ins(t)

MovesInv ==
  crashes = 0 /\ Flat =>
    /\ reader.at = "moves" => OwnMoves(reader.tx, reader.found)
    /\ handler.at = "move" => OwnMoves(handler.tx, handler.found)
    /\ \A f \in DOMAIN moves : moves[f] \in Txs /\ f.pin \in Ins(moves[f])
    /\ \A t \in pool : \A f \in TransferCheck(t) :
         \/ Queued(t) \/ ReaderAt(t, {"save", "pins", "transfers"})
         \/ ReaderAt(t, {"moves"}) /\ f \in reader.found
         \/ handler.at = "move" /\ handler.tx = t /\ f \in handler.found
         \/ f \in DOMAIN moves /\ moves[f] = t

IInv ==
  /\ TInv /\ DocsInv /\ PositionInv /\ PromptInv /\ CleanInv
  /\ SeenInv /\ OnceInv /\ PinsInv /\ MovesInv

----------------------------------------------------------------------------
(* Types. *)

LEMMA Constants ==
  /\ IsFiniteSet(Txs) /\ Old \subseteq Txs /\ NoTx \notin Txs
  /\ Tip \in Nat \ {0} /\ Back \in Nat \ {0} /\ 0 \in 0..Back
  /\ MaxFaults \in Nat /\ MaxCrashes \in Nat
  /\ \A c \in Chains : \A t \in Txs : c.tx[t].ins \in SUBSET Txs
  /\ \A c \in Chains : \A t \in Old : c.tx[t].ins = {}
BY ConstantsAssumption DEF Chain, Tx

(* A finite set in some order. *)
LEMMA SetInOrder ==
  ASSUME NEW S, IsFiniteSet(S)
  PROVE  SetToSeq(S) \in Seq(S)
<1>1. PICK n \in Nat : ExistsBijection(1..n, S)
  BY FS_NatBijection
<1>2. Cardinality(S) = n
  BY <1>1, FS_CountingElements
<1>3. \E f \in [1..n -> S] : IsInjective(f)
  BY <1>1 DEF ExistsBijection, Bijection, Injection, IsInjective
<1>4. SetToSeq(S) \in [1..n -> S]
  BY <1>2, <1>3 DEF SetToSeq
<1> QED  BY <1>4

LEMMA Lengths ==
  ASSUME TInv
  PROVE  /\ Best \in Nat /\ Best >= 1 /\ Best <= Tip /\ DOMAIN blocks = 1..Best
         /\ file \in Nat /\ maxHeight \in Nat /\ loop.to \in Nat /\ loop.next \in Nat
         /\ \A h \in 1..Best : blocks[h] \subseteq Txs /\ blocks[h] \subseteq Mined
         /\ DOMAIN worker = 0..Back
         /\ \A w \in 0..Back : DOMAIN worker[w] = {"at", "h", "file"} /\ worker[w].h \in Nat
<1>1. Best \in Nat /\ Best >= 1 /\ Best <= Tip /\ DOMAIN blocks = 1..Best
  BY DEF TInv, NodeInv, Best
<1>2. \A h \in 1..Best : blocks[h] \subseteq Txs
  BY DEF TInv, NodeInv, Best
<1>3. \A h \in 1..Best : blocks[h] \in Range(blocks)
  BY <1>1 DEF Range
<1>4. \A h \in 1..Best : blocks[h] \subseteq Mined
  BY <1>3 DEF Mined
<1>5. file \in Nat /\ maxHeight \in Nat /\ loop.to \in Nat /\ loop.next \in Nat
  BY <1>1 DEF TInv, LoopTyped
<1>6. DOMAIN worker = 0..Back
      /\ \A w \in 0..Back : DOMAIN worker[w] = {"at", "h", "file"} /\ worker[w].h \in Nat
  BY Constants DEF TInv, LoopTyped
<1> QED  BY <1>1, <1>2, <1>4, <1>5, <1>6

LEMMA IdleTyped ==
  /\ Idle \in [at: Stages, h: 0..Tip, file: BOOLEAN] /\ Idle.at = "idle" /\ Idle.file = FALSE
  /\ Resting.at = "rest" /\ Resting.next = 1 /\ Resting.to = 0
  /\ DOMAIN Resting = {"at", "next", "to", "again"}
  /\ Reading.at = "receive" /\ DOMAIN Reading = {"at", "tx", "found"}
  /\ Waiting.at = "idle" /\ DOMAIN Waiting = {"at", "tx", "found", "chained", "pooled"}
BY Constants DEF Idle, Stages, Resting, Reading, Waiting

LEMMA InitTInv == Init => TInv
<1> SUFFICES ASSUME Init PROVE TInv
  OBVIOUS
<1>1. blocks = <<Old>> /\ Best = 1
  BY DEF Init, Best
<1>2. NodeInv
  <2>1. blocks \in Seq(SUBSET Txs) /\ blocks # <<>> /\ blocks[1] = Old /\ Best <= Tip
    BY <1>1, Constants
  <2>2. pool = {} /\ entered = {} /\ queue \in Seq(Txs)
    BY DEF Init
  <2> QED  BY <2>1, <2>2 DEF NodeInv
<1>3. ListenerInv
  BY IdleTyped DEF Init, ListenerInv
<1>4. LoopTyped
  BY <1>1, IdleTyped DEF Init, LoopTyped, Free
<1> QED  BY <1>2, <1>3, <1>4 DEF TInv, Init

(* What a step that touches only the other part leaves. *)
LEMMA NodeKept ==
  ASSUME NodeInv, UNCHANGED <<pool, entered, blocks>>, queue' \in Seq(Txs)
  PROVE  NodeInv'
BY DEF NodeInv, Best, Mined

LEMMA LoopKept ==
  ASSUME LoopTyped, UNCHANGED <<blocks, main, counters>>
  PROVE  LoopTyped'
BY DEF LoopTyped, main, counters, Best, Free

LEMMA ListenerKept == ASSUME ListenerInv, UNCHANGED zmq PROVE ListenerInv'
BY DEF ListenerInv, zmq

(* The message that the reader sends. *)
LEMMA Sent ==
  ASSUME NEW stage, NEW found, Send(stage, found)
  PROVE  /\ handler.at = "idle" /\ handler'.at = stage /\ handler'.tx = reader.tx
         /\ handler'.found = found
         /\ DOMAIN handler' = {"at", "tx", "found", "chained", "pooled"}
BY DEF Send, Waiting

(* What a step of the reader does to the goroutines. *)
LEMMA ReaderSteps ==
  ASSUME ListenerInv, queue \in Seq(Txs), Reader
  PROVE  /\ ListenerInv'
         /\ UNCHANGED <<pool, entered, blocks, main, counters>> /\ queue' \in Seq(Txs)
<1>1. CASE Receive
  <2>1. Head(queue) \in Txs /\ Tail(queue) \in Seq(Txs)
    BY <1>1 DEF Receive
  <2>2. \/ reader' = reader
        \/ /\ reader'.at = "save" /\ reader'.tx = Head(queue)
           /\ DOMAIN reader' = {"at", "tx", "found"}
    BY <1>1 DEF Receive, Reading
  <2>3. ListenerInv'
    <3>1. UNCHANGED handler  BY <1>1 DEF Receive
    <3> QED  BY <2>1, <2>2, <3>1 DEF ListenerInv
  <2> QED  BY <1>1, <2>1, <2>3 DEF Receive
<1>2. CASE Save
  <2>1. reader'.at \in {"pins", "transfers"} /\ reader'.tx = reader.tx
        /\ DOMAIN reader' = {"at", "tx", "found"} /\ reader.tx \in Txs
    BY <1>2 DEF Save, ListenerInv
  <2> QED  BY <1>2, <2>1 DEF Save, ListenerInv, node
<1>3. CASE SendPins
  <2>1. reader'.at = "transfers" /\ reader'.tx = reader.tx
        /\ DOMAIN reader' = {"at", "tx", "found"} /\ reader.tx \in Txs
    BY <1>3 DEF SendPins, ListenerInv
  <2>2. handler'.at = "pin" /\ handler'.tx = reader.tx
        /\ DOMAIN handler' = {"at", "tx", "found", "chained", "pooled"}
    BY <1>3, Sent DEF SendPins
  <2> QED  BY <1>3, <2>1, <2>2 DEF SendPins, ListenerInv, node
<1>4. CASE CheckTransfers
  <2>1. reader'.at \in {"last", "moves"} /\ reader'.tx = reader.tx
        /\ DOMAIN reader' = {"at", "tx", "found"} /\ reader.tx \in Txs
    BY <1>4 DEF CheckTransfers, ListenerInv
  <2> QED  BY <1>4, <2>1 DEF CheckTransfers, ListenerInv, node
<1>5. CASE SendMoves
  <2>1. reader'.at = "last" /\ reader'.tx = reader.tx
        /\ DOMAIN reader' = {"at", "tx", "found"} /\ reader.tx \in Txs
    BY <1>5 DEF SendMoves, ListenerInv
  <2>2. handler'.at = "move" /\ handler'.tx = reader.tx
        /\ DOMAIN handler' = {"at", "tx", "found", "chained", "pooled"}
    BY <1>5, Sent DEF SendMoves
  <2> QED  BY <1>5, <2>1, <2>2 DEF SendMoves, ListenerInv, node
<1>6. CASE SendLast
  <2>1. reader' = Reading /\ reader.tx \in Txs
    BY <1>6 DEF SendLast, ListenerInv
  <2>2. handler'.at = "read" /\ handler'.tx = reader.tx
        /\ DOMAIN handler' = {"at", "tx", "found", "chained", "pooled"}
    BY <1>6, Sent DEF SendLast
  <2> QED  BY <1>6, <2>1, <2>2, IdleTyped DEF SendLast, ListenerInv, node
<1> QED  BY <1>1, <1>2, <1>3, <1>4, <1>5, <1>6 DEF Reader

(* The handler is done with its transaction, or goes on with it. *)
LEMMA HandlerSteps ==
  ASSUME ListenerInv, Handler
  PROVE  /\ ListenerInv' /\ UNCHANGED <<node, reader, received, main, counters>>
         /\ handler.at # "idle" /\ handler.tx \in Txs
         /\ \/ handler' = Waiting
            \/ /\ handler'.tx = handler.tx /\ handler'.at \in {"move", "read", "write"}
               /\ handler'.found \subseteq handler.found
               /\ handler'.at = "move" => handler.at = "move"
<1>1. CASE StorePin
  <2>1. handler'.at = "read" /\ handler'.tx = handler.tx /\ handler'.found = handler.found
        /\ DOMAIN handler' = {"at", "tx", "found", "chained", "pooled"}
    BY <1>1 DEF StorePin, ListenerInv
  <2> QED  BY <1>1, <2>1 DEF StorePin, ListenerInv
<1>2. CASE StoreMove
  <2>1. PICK f \in handler.found :
          handler' = [handler EXCEPT !.found = @ \ {f},
                                     !.at = IF handler.found = {f} THEN "read" ELSE "move"]
    BY <1>2 DEF StoreMove
  <2>2. handler.at = "move" /\ UNCHANGED <<node, reader, received, main, counters>>
    BY <1>2 DEF StoreMove
  <2>3. handler'.at \in {"move", "read"} /\ handler'.tx = handler.tx
        /\ handler'.found = handler.found \ {f}
        /\ DOMAIN handler' = {"at", "tx", "found", "chained", "pooled"}
    BY <2>1 DEF ListenerInv
  <2> QED  BY <2>2, <2>3 DEF ListenerInv
<1>3. CASE ReadDocs
  <2>1. handler.at = "read" /\ UNCHANGED <<node, reader, received, main, counters>>
    BY <1>3 DEF ReadDocs, records
  <2>2. \/ handler' = Waiting
        \/ /\ handler'.at = "write" /\ handler'.tx = handler.tx /\ handler'.found = handler.found
           /\ DOMAIN handler' = {"at", "tx", "found", "chained", "pooled"}
    <3> DEFINE chained == {o \in Ins(handler.tx) \cap Unspent : Tokens(o) > 0}
               pooled == PendingAt(Ins(handler.tx))
               new == [handler EXCEPT !.at = "write", !.chained = chained, !.pooled = pooled]
    <3>1. handler' = Waiting \/ handler' = new
      BY <1>3 DEF ReadDocs
    <3> HIDE DEF chained, pooled
    <3>2. new.at = "write" /\ new.tx = handler.tx /\ new.found = handler.found
          /\ DOMAIN new = {"at", "tx", "found", "chained", "pooled"}
      BY DEF ListenerInv
    <3> QED  BY <3>1, <3>2
  <2>3. ListenerInv'
    BY <2>1, <2>2, IdleTyped DEF ListenerInv
  <2> QED  BY <2>1, <2>2, <2>3 DEF ListenerInv
<1>4. CASE WriteDocs
  BY <1>4, IdleTyped DEF WriteDocs, ListenerInv
<1> QED  BY <1>1, <1>2, <1>3, <1>4 DEF Handler

(* What a step of bitcoind leaves. *)
LEMMA NodeSteps ==
  ASSUME TInv, Node, UNCHANGED chain
  PROVE  TInv' /\ UNCHANGED <<zmq, records, main, counters>>
<1>1. ASSUME NEW t \in Txs, Enter(t) PROVE TInv' /\ UNCHANGED <<zmq, records, main, counters>>
  <2>1. UNCHANGED <<blocks, zmq, records, main, counters>> /\ t \notin Mined
    BY <1>1 DEF Enter
  <2>2. pool' \subseteq entered' /\ entered' \subseteq Txs /\ pool' \subseteq pool \cup {t}
    BY <1>1 DEF Enter, TInv, NodeInv
  <2>3. queue' \in Seq(Txs)
    BY <1>1 DEF Enter, TInv, NodeInv
  <2>4. Mined' = Mined /\ Best' = Best
    BY <2>1 DEF Mined, Best
  <2>5. pool' \cap Mined = {}
    BY <2>1, <2>2 DEF TInv, NodeInv
  <2>6. NodeInv'
    BY <2>1, <2>2, <2>3, <2>4, <2>5 DEF TInv, NodeInv
  <2> QED  BY <2>1, <2>6, LoopKept, ListenerKept DEF TInv
<1>2. ASSUME NEW S \in SUBSET pool, Connect(S)
      PROVE  TInv' /\ UNCHANGED <<zmq, records, main, counters>>
  <2>1. UNCHANGED <<zmq, records, main, counters>>
    BY <1>2 DEF Connect
  <2>2. /\ S \subseteq Txs /\ blocks \in Seq(SUBSET Txs) /\ blocks[1] = Old
        /\ Best \in Nat /\ Best >= 1 /\ Tip \in Nat
    BY Lengths, Constants DEF TInv, NodeInv
  <2>3. blocks' = Append(blocks, S) /\ Best' = Best + 1 /\ blocks' \in Seq(SUBSET Txs)
    BY <1>2, <2>2 DEF Connect, Best
  <2>4. blocks'[1] = Old /\ blocks' # <<>> /\ Best' <= Tip
    <3>1. Best < Tip
      BY <1>2 DEF Connect
    <3>2. blocks'[1] = blocks[1] /\ blocks' # <<>>
      BY <2>2, <2>3 DEF Best
    <3> QED  BY <2>2, <2>3, <3>1, <3>2
  <2>5. Mined' = Mined \cup S
    <3>0. /\ DOMAIN blocks = 1..Best /\ DOMAIN blocks' = 1..(Best + 1)
          /\ blocks'[Best + 1] = S /\ \A h \in 1..Best : blocks'[h] = blocks[h]
      BY <2>2, <2>3 DEF Best
    <3>1. Range(blocks') = Range(blocks) \cup {S}
      <4>1. ASSUME NEW x \in Range(blocks') PROVE x \in Range(blocks) \cup {S}
        BY <2>2, <3>0 DEF Range
      <4>2. ASSUME NEW x \in Range(blocks) PROVE x \in Range(blocks')
        <5>1. PICK h \in 1..Best : x = blocks[h]
          BY <4>2, <3>0 DEF Range
        <5>2. h \in DOMAIN blocks' /\ blocks'[h] = x
          BY <2>2, <3>0, <5>1
        <5> QED  BY <5>2 DEF Range
      <4>3. S \in Range(blocks')
        BY <2>2, <3>0 DEF Range
      <4> QED  BY <4>1, <4>2, <4>3
    <3> QED  BY <3>1 DEF Mined
  <2>6. queue' \in Seq(Txs)
    <3>1. IsFiniteSet(S)
      BY <2>2, Constants, FS_Subset
    <3>2. SetToSeq(S) \in Seq(Txs)
      BY <2>2, <3>1, SetInOrder
    <3> QED  BY <1>2, <3>2 DEF Connect, TInv, NodeInv
  <2>7. pool' = pool \ S /\ entered' = entered
    BY <1>2 DEF Connect
  <2>8. NodeInv'
    BY <2>3, <2>4, <2>5, <2>6, <2>7 DEF TInv, NodeInv
  <2>9. LoopTyped'
    <3>1. LoopTyped /\ Best \in Nat /\ Best' = Best + 1
      BY <2>2, <2>3 DEF TInv
    <3>2. UNCHANGED <<indexed, maxHeight, file, loop, worker, faults, crashes>>
      BY <2>1 DEF main, counters
    <3>3. \A h \in 1..Best : h \in 1..Best'
      BY <3>1
    <3>4. loop.to \in 0..Best'
      BY <3>1 DEF LoopTyped
    <3> QED  BY <3>1, <3>2, <3>3, <3>4 DEF LoopTyped, Free
  <2> QED  BY <2>1, <2>8, <2>9, ListenerKept DEF TInv
<1> QED  BY <1>1, <1>2 DEF Node

(* The types of main, part by part. *)
LEMMA LoopTypedNext ==
  ASSUME LoopTyped, UNCHANGED <<blocks, indexed, maxHeight, file, counters>>,
         loop'.at \in {"rest", "index", "check", "clean"},
         DOMAIN loop' = {"at", "next", "to", "again"},
         loop'.next \in Nat \ {0}, loop'.to \in 0..Best,
         worker' \in [0..Back -> [at: Stages, h: 0..Tip, file: BOOLEAN]],
         \A w \in 0..Back : worker'[w].at # "idle" => worker'[w].h \in 1..Best
  PROVE  LoopTyped'
<1>1. Best' = Best /\ faults' = faults /\ crashes' = crashes
  BY DEF Best, counters
<1>2. (\A w \in 0..Back : ~Free(w) => worker[w].h \in 1..Best)'
  BY <1>1 DEF Free
<1> QED  BY <1>1, <1>2 DEF LoopTyped

(* What a step of the main loop leaves. *)
LEMMA LoopSteps ==
  ASSUME TInv, Loop, UNCHANGED chain
  PROVE  TInv' /\ UNCHANGED <<node, zmq, records, indexed, maxHeight, file, counters>>
<1>1. UNCHANGED <<node, zmq, records, indexed, maxHeight, file, counters>>
  BY DEF Loop, IndexerRun, NextBlock, EndIndexerRun, CheckNewBlock, EndCheck
<1>2. NodeInv' /\ ListenerInv' /\ Best' = Best
  BY <1>1, ListenerKept DEF TInv, node, NodeInv, Best, Mined
<1>3. /\ LoopTyped /\ 0 \in 0..Back /\ Best \in Nat /\ Best <= Tip /\ Best >= 1
      /\ maxHeight \in Nat /\ file \in 1..Best
      /\ worker \in [0..Back -> [at: Stages, h: 0..Tip, file: BOOLEAN]]
      /\ \A w \in 0..Back : worker[w].at # "idle" => worker[w].h \in 1..Best
      /\ loop.at \in {"rest", "index", "check", "clean"}
      /\ DOMAIN loop = {"at", "next", "to", "again"}
      /\ loop.next \in Nat \ {0} /\ loop.to \in 0..Best
  BY Constants, Lengths DEF TInv, LoopTyped, Free
<1>4. UNCHANGED <<blocks, indexed, maxHeight, file, counters>>
  BY <1>1 DEF node
<1>5. LoopTyped'
  <2>1. CASE IndexerRun
    <3>1. worker' = worker
      BY <2>1 DEF IndexerRun
    <3>2. /\ loop'.at \in {"index", "check"} /\ DOMAIN loop' = {"at", "next", "to", "again"}
          /\ loop'.next \in Nat \ {0} /\ loop'.to \in 0..Best
      BY <1>3, <2>1, IdleTyped DEF IndexerRun, Resting
    <3> QED  BY <1>3, <1>4, <3>1, <3>2, LoopTypedNext
  <2>2. CASE NextBlock
    <3> DEFINE new == IF loop.at = "index"
                      THEN [at |-> "store", h |-> loop.next, file |-> FALSE]
                      ELSE [at |-> "pins", h |-> loop.next, file |-> TRUE]
    <3>1. worker' = [worker EXCEPT ![0] = new] /\ loop' = [loop EXCEPT !.next = @ + 1]
          /\ loop.next <= loop.to
      BY <2>2 DEF NextBlock
    <3>2. loop.next \in 1..Best
      BY <1>3, <3>1
    <3>3. new \in [at: Stages, h: 0..Tip, file: BOOLEAN] /\ new.h \in 1..Best
      <4>1. loop.next \in 0..Tip /\ {"store", "pins"} \subseteq Stages
        BY <1>3, <3>2, Constants DEF Stages
      <4>2. CASE loop.at = "index"
        BY <3>2, <4>1, <4>2
      <4>3. CASE loop.at # "index"
        BY <3>2, <4>1, <4>3
      <4> QED  BY <4>2, <4>3
    <3> HIDE DEF new
    <3>4. worker' \in [0..Back -> [at: Stages, h: 0..Tip, file: BOOLEAN]]
          /\ \A w \in 0..Back : worker'[w] = IF w = 0 THEN new ELSE worker[w]
      BY <1>3, <3>1, <3>3
    <3>5. loop'.at = loop.at /\ DOMAIN loop' = {"at", "next", "to", "again"}
          /\ loop'.next = loop.next + 1 /\ loop'.to = loop.to
      BY <1>3, <3>1
    <3>6. \A w \in 0..Back : worker'[w].at # "idle" => worker'[w].h \in 1..Best
      BY <1>3, <3>3, <3>4
    <3> QED  BY <1>3, <1>4, <3>4, <3>5, <3>6, LoopTypedNext
  <2>3. CASE EndIndexerRun
    <3> DEFINE again(w) == loop.again /\ w \in 1..(loop.to - 1)
               new(w) == [at |-> "store", h |-> loop.to - w, file |-> FALSE]
    <3>1. worker' = [w \in 0..Back |-> IF again(w) THEN new(w) ELSE worker[w]]
          /\ loop' = [Resting EXCEPT !.at = "check"]
      BY <2>3 DEF EndIndexerRun
    <3>2. \A w \in 0..Back : again(w) =>
            new(w) \in [at: Stages, h: 0..Tip, file: BOOLEAN] /\ new(w).h \in 1..Best
      BY <1>3, Constants DEF Stages
    <3> HIDE DEF again, new
    <3>3. worker' \in [0..Back -> [at: Stages, h: 0..Tip, file: BOOLEAN]]
          /\ \A w \in 0..Back : worker'[w] = IF again(w) THEN new(w) ELSE worker[w]
      BY <1>3, <3>1, <3>2
    <3>4. loop'.at = "check" /\ DOMAIN loop' = {"at", "next", "to", "again"}
          /\ loop'.next = 1 /\ loop'.to = 0
      BY <3>1 DEF Resting
    <3>5. \A w \in 0..Back : worker'[w].at # "idle" => worker'[w].h \in 1..Best
      BY <1>3, <3>2, <3>3
    <3>6. loop'.next \in Nat \ {0} /\ loop'.to \in 0..Best
      BY <1>3, <3>4
    <3> QED  BY <1>3, <1>4, <3>3, <3>4, <3>5, <3>6, LoopTypedNext
  <2>4. CASE CheckNewBlock
    <3>1. worker' = worker
      BY <2>4 DEF CheckNewBlock
    <3>2. /\ loop'.at \in {"rest", "clean"} /\ DOMAIN loop' = {"at", "next", "to", "again"}
          /\ loop'.next \in Nat \ {0} /\ loop'.to \in 0..Best
      <4> DEFINE new == [Resting EXCEPT !.at = "clean", !.next = file, !.to = Best]
      <4>1. loop' = Resting \/ loop' = new
        BY <2>4 DEF CheckNewBlock
      <4>2. /\ new.at = "clean" /\ DOMAIN new = {"at", "next", "to", "again"}
            /\ new.next = file /\ new.to = Best
        BY DEF Resting
      <4> HIDE DEF new
      <4>3. CASE loop' = Resting
        BY <1>3, <4>3, IdleTyped
      <4>4. CASE loop' = new
        BY <1>3, <4>2, <4>4
      <4> QED  BY <4>1, <4>3, <4>4
    <3> QED  BY <1>3, <1>4, <3>1, <3>2, LoopTypedNext
  <2>5. CASE EndCheck
    <3>1. worker' = worker /\ loop' = Resting
      BY <2>5 DEF EndCheck
    <3>2. loop'.next \in Nat \ {0} /\ loop'.to \in 0..Best
      BY <1>3, <3>1, IdleTyped
    <3> QED  BY <1>3, <1>4, <3>1, <3>2, IdleTyped, LoopTypedNext
  <2> QED  BY <2>1, <2>2, <2>3, <2>4, <2>5 DEF Loop
<1> QED  BY <1>1, <1>2, <1>5 DEF TInv

(* What a step of a DoIndexerRun, and of the cleaning after it, leaves. *)
LEMMA RunSteps ==
  ASSUME TInv, NEW w \in 0..Back, Run(w), UNCHANGED chain
  PROVE  /\ TInv' /\ UNCHANGED <<node, zmq, loop, ready, crashes>>
         /\ ~Free(w) /\ worker[w].h \in 1..Best
         /\ \A v \in 0..Back : v # w => worker'[v] = worker[v]
         /\ \/ worker'[w] = Idle
            \/ worker'[w].h = worker[w].h /\ worker'[w].file = worker[w].file
         /\ indexed \subseteq indexed'
         /\ faults' = faults \/ faults' = faults + 1
<1>1. UNCHANGED <<node, zmq, loop, ready, crashes>>
  BY DEF Run, StoreBlock, DeletePins, DeleteDocs, DeleteReceived, DeleteFails, EndDelete,
         counters
<1>2. NodeInv' /\ ListenerInv' /\ Best' = Best
  BY <1>1, ListenerKept DEF TInv, node, NodeInv, Best, Mined
<1>3. ~Free(w) /\ worker[w].h \in 1..Best
  BY DEF Run, StoreBlock, DeletePins, DeleteDocs, DeleteReceived, DeleteFails, Free, TInv,
         LoopTyped
<1>4. PICK stage \in {"pins", "docs", "received"} :
        worker' = [worker EXCEPT ![w] = Idle] \/ worker' = [worker EXCEPT ![w].at = stage]
  <2>1. CASE StoreBlock(w)
    BY <2>1 DEF StoreBlock
  <2>2. CASE DeletePins(w)
    BY <2>2 DEF DeletePins
  <2>3. CASE DeleteDocs(w)
    BY <2>3 DEF DeleteDocs
  <2>4. CASE DeleteReceived(w) \/ DeleteFails(w)
    BY <2>4 DEF DeleteReceived, DeleteFails, EndDelete
  <2> QED  BY <2>1, <2>2, <2>3, <2>4 DEF Run
<1>5. /\ \A v \in 0..Back : v # w => worker'[v] = worker[v]
      /\ \/ worker'[w] = Idle
         \/ worker'[w].h = worker[w].h /\ worker'[w].file = worker[w].file
      /\ worker' \in [0..Back -> [at: Stages, h: 0..Tip, file: BOOLEAN]]
  <2>1. worker \in [0..Back -> [at: Stages, h: 0..Tip, file: BOOLEAN]] /\ stage \in Stages
    BY DEF TInv, LoopTyped, Stages
  <2> DEFINE new == [worker[w] EXCEPT !.at = stage]
  <2>2. new \in [at: Stages, h: 0..Tip, file: BOOLEAN] /\ new.h = worker[w].h
        /\ new.file = worker[w].file
    BY <2>1
  <2>3. worker' = [worker EXCEPT ![w] = Idle] \/ worker' = [worker EXCEPT ![w] = new]
    BY <1>4
  <2> HIDE DEF new
  <2>4. \A v \in 0..Back : v # w => worker'[v] = worker[v]
    BY <2>1, <2>3
  <2>5. worker'[w] = Idle \/ worker'[w] = new
    BY <2>1, <2>3
  <2>6. worker' \in [0..Back -> [at: Stages, h: 0..Tip, file: BOOLEAN]]
    BY <2>1, <2>2, <2>3, IdleTyped
  <2> QED  BY <2>2, <2>4, <2>5, <2>6
<1>6. /\ indexed \subseteq indexed' /\ indexed' \subseteq indexed \cup {worker[w].h}
      /\ maxHeight' \in {maxHeight, worker[w].h} /\ file' \in {file, worker[w].h}
      /\ faults' = faults \/ faults' = faults + 1
  BY DEF Run, StoreBlock, DeletePins, DeleteDocs, DeleteReceived, DeleteFails, EndDelete,
         counters
<1>7. \A v \in 0..Back : ~(worker'[v].at = "idle") => worker'[v].h \in 1..Best
  <2>1. \A v \in 0..Back : ~(worker[v].at = "idle") => worker[v].h \in 1..Best
    BY DEF TInv, LoopTyped, Free
  <2> HIDE DEF Idle
  <2> QED  BY <1>3, <1>5, <2>1, IdleTyped DEF Free
<1>8. LoopTyped'
  <2>1. /\ 1 \in indexed' /\ indexed' \subseteq 1..Best
        /\ maxHeight' \in 1..Best /\ file' \in 1..Best
    BY <1>3, <1>6 DEF TInv, LoopTyped
  <2>2. faults' \in Nat /\ crashes' \in Nat
    BY <1>1, <1>6 DEF TInv, LoopTyped
  <2>3. loop' = loop
    BY <1>1
  <2> QED  BY <1>2, <1>5, <1>7, <2>1, <2>2, <2>3 DEF TInv, LoopTyped, Free
<1> QED  BY <1>1, <1>2, <1>3, <1>5, <1>6, <1>8 DEF TInv

LEMMA CrashTInv == TInv /\ Crash /\ UNCHANGED chain => TInv'
<1> SUFFICES ASSUME TInv, Crash, UNCHANGED chain PROVE TInv'
  OBVIOUS
<1> USE Constants, Lengths
<1>1. NodeInv'
  BY NodeKept DEF Crash, TInv
<1>2. ListenerInv'
  BY IdleTyped DEF Crash, ListenerInv
<1>3. Max(indexed) \in indexed
  <2>1. indexed \in SUBSET Nat /\ indexed # {} /\ \A n \in indexed : n <= Best
    BY DEF TInv, LoopTyped
  <2> QED  BY <2>1, MaxOfBounded
<1>4. LoopTyped'
  <2>1. /\ indexed' = indexed /\ maxHeight' \in indexed /\ file' = file /\ Best' = Best
        /\ loop' = Resting /\ worker' = [w \in 0..Back |-> Idle]
        /\ faults' = faults /\ crashes' = crashes + 1
    BY <1>3 DEF Crash, Best
  <2> HIDE DEF Idle, Resting
  <2>2. worker' \in [0..Back -> [at: Stages, h: 0..Tip, file: BOOLEAN]]
        /\ \A w \in 0..Back : worker'[w].at = "idle"
    BY <2>1, IdleTyped
  <2> QED  BY <2>1, <2>2, IdleTyped DEF TInv, LoopTyped, Free
<1> QED  BY <1>1, <1>2, <1>4 DEF TInv

LEMMA NextTInv == TInv /\ [Next]_vars => TInv'
<1> SUFFICES ASSUME TInv, [Next]_vars PROVE TInv'
  OBVIOUS
<1>1. CASE UNCHANGED vars
  BY <1>1, LoopKept, ListenerKept DEF vars, node, TInv, NodeInv, Best, Mined
<1>2. CASE Reader /\ UNCHANGED chain
  <2>1. /\ ListenerInv' /\ UNCHANGED <<pool, entered, blocks, main, counters>>
        /\ queue' \in Seq(Txs)
    BY <1>2, ReaderSteps DEF TInv, NodeInv
  <2> QED  BY <1>2, <2>1, NodeKept, LoopKept DEF TInv
<1>3. CASE Handler /\ UNCHANGED chain
  <2>1. ListenerInv' /\ UNCHANGED <<node, main, counters>>
    BY <1>3, HandlerSteps DEF TInv
  <2>2. NodeInv'
    BY <2>1, NodeKept DEF TInv, NodeInv, node
  <2> QED  BY <1>3, <2>1, <2>2, LoopKept DEF TInv, node
<1>4. CASE Next
  BY <1>2, <1>3, <1>4, NodeSteps, LoopSteps, RunSteps, CrashTInv DEF Next
<1> QED  BY <1>1, <1>4

----------------------------------------------------------------------------
(* Where the cleaner is. *)

(* What a queue gets at its end. *)
LEMMA Joined ==
  ASSUME NEW X, NEW s \in Seq(X), NEW r \in Seq(X), NEW i \in DOMAIN (s \o r)
  PROVE  \/ i \in DOMAIN s /\ (s \o r)[i] = s[i]
         \/ /\ i \notin DOMAIN s /\ i - Len(s) \in DOMAIN r
            /\ (s \o r)[i] = r[i - Len(s)]
OBVIOUS

(* What bitcoind announces is in none of the earlier blocks. *)
LEMMA NodeWay ==
  ASSUME TInv, Node, NEW t, OnWay(t)'
  PROVE  OnWay(t) \/ t \notin Mined
<1>1. queue \in Seq(Txs) /\ pool \subseteq Txs /\ pool \cap Mined = {}
  BY DEF TInv, NodeInv
<1>2. UNCHANGED zmq
  BY DEF Node, Enter, Connect
<1>3. ASSUME NEW i \in DOMAIN queue', queue'[i] = t PROVE OnWay(t) \/ t \notin Mined
  <2>1. ASSUME NEW u \in Txs, Enter(u) PROVE OnWay(t) \/ t \notin Mined
    <3>1. queue' = Append(queue, u) /\ u \notin Mined
      BY <2>1 DEF Enter
    <3>2. t = u \/ (i \in DOMAIN queue /\ queue[i] = t)
      BY <1>1, <1>3, <3>1
    <3> QED  BY <3>1, <3>2 DEF OnWay
  <2>2. ASSUME NEW S \in SUBSET pool, Connect(S) PROVE OnWay(t) \/ t \notin Mined
    <3>1. IsFiniteSet(S) /\ S \subseteq Txs
      BY <1>1, Constants, FS_Subset
    <3>2. SetToSeq(S) \in Seq(S)
      BY <3>1, SetInOrder
    <3>3. queue' = queue \o SetToSeq(S)
      BY <2>2 DEF Connect
    <3>4. SetToSeq(S) \in Seq(Txs)
      BY <3>1, <3>2
    <3>5. \/ i \in DOMAIN queue /\ queue[i] = t
          \/ i - Len(queue) \in DOMAIN SetToSeq(S) /\ SetToSeq(S)[i - Len(queue)] = t
      BY <1>1, <1>3, <3>3, <3>4, Joined
    <3>6. (\E j \in DOMAIN queue : queue[j] = t) \/ t \in S
      BY <3>2, <3>5
    <3> QED  BY <1>1, <3>6 DEF OnWay
  <2> QED  BY <2>1, <2>2 DEF Node
<1> QED  BY <1>2, <1>3 DEF OnWay, zmq

(* The listener handles what is on its way. *)
LEMMA ListenerWay ==
  ASSUME TInv, Reader \/ Handler, NEW t, OnWay(t)'
  PROVE  OnWay(t)
<1>1. queue \in Seq(Txs)
  BY DEF TInv, NodeInv
<1>2. CASE Receive
  <2>1. /\ queue # <<>> /\ queue' = Tail(queue) /\ UNCHANGED handler
        /\ reader' = reader \/ reader'.tx = Head(queue)
    BY <1>2 DEF Receive, Reading
  <2>2. 1 \in DOMAIN queue /\ queue[1] = Head(queue)
    BY <1>1, <2>1
  <2>3. \A i \in DOMAIN queue' : i + 1 \in DOMAIN queue /\ queue'[i] = queue[i + 1]
    BY <1>1, <2>1
  <2> QED  BY <2>1, <2>2, <2>3 DEF OnWay
<1>3. CASE Reader /\ ~Receive
  <2>1. queue' = queue
    BY <1>3 DEF Reader, Save, SendPins, CheckTransfers, SendMoves, SendLast, node
  <2>2. reader.at # "receive"
    BY <1>3 DEF Reader, Save, SendPins, CheckTransfers, SendMoves, SendLast
  <2>3. reader' = Reading \/ reader'.tx = reader.tx
    BY <1>3 DEF Reader, Save, SendPins, CheckTransfers, SendMoves, SendLast, TInv, ListenerInv
  <2>4. handler' = handler \/ handler'.tx = reader.tx
    BY <1>3, Sent DEF Reader, Save, SendPins, CheckTransfers, SendMoves, SendLast
  <2> QED  BY <2>1, <2>2, <2>3, <2>4, IdleTyped DEF OnWay
<1>4. CASE Handler
  <2>1. /\ UNCHANGED <<node, reader>> /\ handler.at # "idle"
        /\ (handler' = Waiting \/ handler'.tx = handler.tx)
    BY <1>4, HandlerSteps DEF TInv
  <2> QED  BY <2>1, IdleTyped DEF OnWay, node
<1> QED  BY <1>2, <1>3, <1>4

(* The state without anything on its way. *)
LEMMA QuietWay == ASSUME Quiet, NEW t PROVE ~OnWay(t)
BY DEF Quiet, OnWay

(* What the workers are after a step of one of them. *)
LEMMA WorkerSteps ==
  ASSUME TInv, PositionInv, NEW w \in 0..Back, Run(w)
  PROVE  /\ worker[w].file => w = 0 /\ Cleaning
         /\ \A v \in 0..Back : worker'[v].file => worker[v].file /\ worker'[v].h = worker[v].h
         /\ \/ StoreBlock(w) /\ ~worker[w].file /\ file' = file
            \/ /\ DeletePins(w) \/ DeleteDocs(w)
               /\ worker'[w].file = worker[w].file /\ file' = file
               /\ worker'[w].at \in {"docs", "received"}
            \/ /\ DeleteReceived(w) \/ DeleteFails(w)
               /\ worker'[w] = Idle /\ file' = IF worker[w].file THEN worker[w].h ELSE file
<1>1. worker \in [0..Back -> [at: Stages, h: 0..Tip, file: BOOLEAN]]
  BY DEF TInv, LoopTyped
<1>2. worker[w].file => w = 0 /\ Cleaning /\ worker[w].at \in {"pins", "docs", "received"}
  BY DEF PositionInv, Cleaning
<1>3. CASE StoreBlock(w)
  <2> DEFINE new == [worker[w] EXCEPT !.at = "pins"]
  <2>1. ~worker[w].file /\ file' = file
    BY <1>2, <1>3 DEF StoreBlock
  <2>2. worker' = [worker EXCEPT ![w] = new] \/ worker' = [worker EXCEPT ![w] = Idle]
    BY <1>3 DEF StoreBlock
  <2>3. new.file = worker[w].file
    BY <1>1
  <2> HIDE DEF new
  <2>4. \A v \in 0..Back : v # w => worker'[v] = worker[v]
    BY <1>1, <2>2
  <2>5. worker'[w] = new \/ worker'[w] = Idle
    BY <1>1, <2>2
  <2> QED  BY <1>1, <1>2, <1>3, <2>1, <2>3, <2>4, <2>5, IdleTyped
<1>4. ASSUME NEW stage \in {"docs", "received"}, worker' = [worker EXCEPT ![w].at = stage]
      PROVE  /\ worker'[w].file = worker[w].file /\ worker'[w].at = stage
             /\ \A v \in 0..Back : worker'[v].file => worker[v].file /\ worker'[v].h = worker[v].h
  <2> DEFINE new == [worker[w] EXCEPT !.at = stage]
  <2>1. worker' = [worker EXCEPT ![w] = new]
    BY <1>4
  <2>2. new.file = worker[w].file /\ new.h = worker[w].h /\ new.at = stage
    BY <1>1
  <2> HIDE DEF new
  <2>3. \A v \in 0..Back : worker'[v] = IF v = w THEN new ELSE worker[v]
    BY <1>1, <2>1
  <2> QED  BY <2>2, <2>3
<1>5. CASE DeletePins(w)
  <2>1. worker' = [worker EXCEPT ![w].at = "docs"] /\ file' = file
    BY <1>5 DEF DeletePins
  <2> QED  BY <1>2, <1>4, <1>5, <2>1
<1>6. CASE DeleteDocs(w)
  <2>1. worker' = [worker EXCEPT ![w].at = "received"] /\ file' = file
    BY <1>6 DEF DeleteDocs
  <2> QED  BY <1>2, <1>4, <1>6, <2>1
<1>7. CASE DeleteReceived(w) \/ DeleteFails(w)
  <2>1. worker' = [worker EXCEPT ![w] = Idle]
        /\ file' = IF worker[w].file THEN worker[w].h ELSE file
    BY <1>7 DEF DeleteReceived, DeleteFails, EndDelete
  <2> HIDE DEF Idle
  <2>2. \A v \in 0..Back : worker'[v] = IF v = w THEN Idle ELSE worker[v]
    BY <1>1, <2>1
  <2> QED  BY <1>2, <1>7, <2>1, <2>2, IdleTyped
<1> QED  BY <1>3, <1>5, <1>6, <1>7 DEF Run

(* The file and the workers stay with the block they are in. *)
LEMMA PositionKept ==
  ASSUME PositionInv, UNCHANGED <<chain, main>>, Best' = Best
  PROVE  PositionInv'
BY DEF PositionInv, Cleaning, Free, main

LEMMA NodePosition == TInv /\ PositionInv /\ Node /\ UNCHANGED chain => PositionInv'
<1> SUFFICES ASSUME TInv, PositionInv, Node, UNCHANGED chain PROVE PositionInv'
  OBVIOUS
<1>1. UNCHANGED main
  BY NodeSteps
<1>2. chain.steady => Best' <= file + 1
  <2>1. ASSUME NEW t \in Txs, Enter(t) PROVE Best' = Best
    BY <2>1 DEF Enter, Best
  <2>2. ASSUME NEW S \in SUBSET pool, Connect(S) PROVE chain.steady => Best' <= file + 1
    <3>1. Best' = Best + 1
      BY <2>2 DEF Connect, Best, TInv, NodeInv
    <3>2. chain.steady => file = Best
      BY <2>2 DEF Connect, CaughtUp
    <3> QED  BY <3>1, <3>2, Lengths
  <2> QED  BY <2>1, <2>2 DEF Node, PositionInv
<1> QED  BY <1>1, <1>2 DEF PositionInv, Cleaning, Free, main

LEMMA LoopPosition == TInv /\ PositionInv /\ Loop /\ UNCHANGED chain => PositionInv'
<1> SUFFICES ASSUME TInv, PositionInv, Loop, UNCHANGED chain PROVE PositionInv'
  OBVIOUS
<1>1. UNCHANGED <<chain, file>> /\ Best' = Best
  BY LoopSteps DEF node, Best
<1>2. chain.steady' => Best' <= file' + 1
  BY <1>1 DEF PositionInv
<1>3. worker \in [0..Back -> [at: Stages, h: 0..Tip, file: BOOLEAN]] /\ 0 \in 0..Back
  BY Constants DEF TInv, LoopTyped
<1>4. loop.at # "clean" => \A w \in 0..Back : ~worker[w].file
  BY <1>3 DEF PositionInv
<1>5. Free(0) => \A w \in 0..Back : ~worker[w].file
  BY <1>3 DEF PositionInv, Free
<1>6. CASE \A w \in 0..Back : ~worker'[w].file
  <2>1. ~Cleaning'
    BY <1>3, <1>6 DEF Cleaning
  <2>2. CASE loop'.at # "clean"
    BY <1>2, <1>6, <2>1, <2>2 DEF PositionInv
  <2>3. CASE CheckNewBlock
    <3>1. Free(0)' /\ (loop'.at = "clean" => loop'.next = file')
      BY <1>1, <2>3 DEF CheckNewBlock, Looking, Free, Resting
    <3> QED  BY <1>2, <1>6, <2>1, <3>1 DEF PositionInv
  <2>4. CASE ~CheckNewBlock /\ loop'.at = "clean"
    <3>1. NextBlock /\ loop.at = "clean"
      BY <2>4 DEF Loop, IndexerRun, NextBlock, EndIndexerRun, EndCheck, Resting, TInv, LoopTyped
    <3>2. worker'[0].file
      BY <1>3, <3>1 DEF NextBlock
    <3> QED  BY <1>3, <1>6, <3>2
  <2> QED  BY <2>2, <2>3, <2>4
<1>7. CASE NextBlock /\ loop.at = "clean"
  <2> DEFINE new == [at |-> "pins", h |-> loop.next, file |-> TRUE]
  <2>1. /\ worker' = [worker EXCEPT ![0] = new] /\ loop' = [loop EXCEPT !.next = @ + 1]
        /\ loop.next <= loop.to /\ Free(0)
    BY <1>7 DEF NextBlock
  <2>2. loop.next = file \/ loop.next = file + 1
    BY <1>3, <1>5, <1>7, <2>1 DEF PositionInv, Cleaning
  <2>3. \A w \in 0..Back : worker'[w] = IF w = 0 THEN new ELSE worker[w]
    BY <1>3, <2>1
  <2>4. loop'.at = "clean" /\ loop'.next = loop.next + 1 /\ loop'.to = loop.to
    BY <1>7, <2>1 DEF TInv, LoopTyped
  <2>5. Cleaning' /\ worker'[0] = new
    <3>1. worker'[0] = new
      BY <1>3, <2>3
    <3>2. new.file
      OBVIOUS
    <3> QED  BY <3>1, <3>2 DEF Cleaning
  <2>6. \A w \in 0..Back : w # 0 => ~worker'[w].file
    BY <1>5, <2>1, <2>3
  <2> QED  BY <1>1, <1>2, <2>1, <2>2, <2>4, <2>5, <2>6 DEF PositionInv
<1>8. CASE Loop /\ ~(NextBlock /\ loop.at = "clean")
  <2>1. CASE IndexerRun \/ CheckNewBlock \/ EndCheck
    <3>1. worker' = worker /\ Free(0)
      BY <2>1 DEF IndexerRun, CheckNewBlock, EndCheck, Looking
    <3> QED  BY <1>5, <1>6, <3>1
  <2>2. CASE NextBlock
    <3> DEFINE new == [at |-> "store", h |-> loop.next, file |-> FALSE]
    <3>1. worker' = [worker EXCEPT ![0] = new] /\ Free(0)
      BY <1>8, <2>2 DEF NextBlock
    <3>2. \A w \in 0..Back : worker'[w] = IF w = 0 THEN new ELSE worker[w]
      BY <1>3, <3>1
    <3> QED  BY <1>5, <1>6, <3>1, <3>2
  <2>3. CASE EndIndexerRun
    <3>1. /\ Free(0)
          /\ worker' = [w \in 0..Back |->
                          IF loop.again /\ w \in 1..(loop.to - 1)
                          THEN [at |-> "store", h |-> loop.to - w, file |-> FALSE]
                          ELSE worker[w]]
      BY <2>3 DEF EndIndexerRun
    <3>2. \A w \in 0..Back : ~worker'[w].file
      BY <1>5, <3>1
    <3> QED  BY <1>6, <3>2
  <2> QED  BY <1>8, <2>1, <2>2, <2>3 DEF Loop
<1> QED  BY <1>7, <1>8

LEMMA RunPosition ==
  ASSUME TInv, PositionInv, NEW w \in 0..Back, Run(w), UNCHANGED chain
  PROVE  PositionInv'
<1>1. /\ UNCHANGED <<chain, loop>> /\ Best' = Best /\ ~Free(w)
      /\ \A v \in 0..Back : v # w => worker'[v] = worker[v]
  BY RunSteps DEF node, Best
<1>2. 0 \in 0..Back /\ file \in Nat /\ Best \in Nat /\ loop.next \in Nat
      /\ \A v \in 0..Back : worker[v].h \in Nat
  BY Constants, Lengths
<1>3. /\ worker[w].file => w = 0 /\ Cleaning
      /\ \A v \in 0..Back : worker'[v].file => worker[v].file /\ worker'[v].h = worker[v].h
  BY WorkerSteps
<1>4. \A v \in 0..Back : worker'[v].file =>
        v = 0 /\ worker'[v].at \in {"pins", "docs", "received"} /\ loop'.at = "clean"
  <2> SUFFICES ASSUME NEW v \in 0..Back, worker'[v].file
               PROVE  v = 0 /\ worker'[v].at \in {"pins", "docs", "received"} /\ loop'.at = "clean"
    OBVIOUS
  <2>1. v = 0 /\ worker[v].at \in {"pins", "docs", "received"} /\ loop'.at = "clean"
    BY <1>1, <1>3 DEF PositionInv
  <2>2. worker'[w].file => worker'[w].at \in {"docs", "received"}
    BY WorkerSteps, IdleTyped
  <2> QED  BY <1>1, <2>1, <2>2
<1>5. CASE file' = file /\ (w = 0 => (Cleaning' <=> Cleaning))
  <2>1. Cleaning' <=> Cleaning
    BY <1>1, <1>2, <1>5 DEF Cleaning
  <2>2. Cleaning => worker'[0].h = worker[0].h
    BY <1>2, <1>3, <2>1 DEF Cleaning
  <2>3. loop.at = "clean" /\ ~Cleaning => Free(0)'
    <3>1. loop.at = "clean" /\ ~Cleaning => Free(0)
      BY DEF PositionInv
    <3> QED  BY <1>1, <1>2, <3>1 DEF Free
  <2> QED  BY <1>1, <1>4, <1>5, <2>1, <2>2, <2>3 DEF PositionInv
<1>6. CASE worker'[w] = Idle /\ worker[w].file /\ file' = worker[w].h
  <2>1. w = 0 /\ Cleaning /\ ~Cleaning' /\ Free(0)'
    BY <1>3, <1>6, IdleTyped DEF Cleaning, Free
  <2>2. /\ loop.next = file' + 1 /\ loop.at = "clean"
        /\ (file' = file \/ file' = file + 1)
    BY <1>6, <2>1 DEF PositionInv
  <2> QED  BY <1>1, <1>2, <1>4, <2>1, <2>2 DEF PositionInv
<1>7. CASE ~worker[w].file /\ file' = file
  <2>1. file' = file /\ ~worker[w].file
    BY <1>7
  <2>2. ~worker'[w].file
    BY <1>3, <2>1
  <2> QED  BY <1>5, <2>1, <2>2 DEF Cleaning
<1>8. CASE worker'[w].file = worker[w].file /\ file' = file
  BY <1>5, <1>8 DEF Cleaning
<1> QED  BY <1>6, <1>7, <1>8, WorkerSteps

LEMMA CrashPosition == TInv /\ PositionInv /\ Crash /\ UNCHANGED chain => PositionInv'
<1> SUFFICES ASSUME TInv, PositionInv, Crash, UNCHANGED chain PROVE PositionInv'
  OBVIOUS
<1>1. /\ loop' = Resting /\ worker' = [w \in 0..Back |-> Idle]
      /\ file' = file /\ Best' = Best
  BY DEF Crash, Best
<1> HIDE DEF Idle, Resting
<1>2. \A w \in 0..Back : ~worker'[w].file
  BY <1>1, IdleTyped
<1>3. ~Cleaning'
  BY <1>2, Constants DEF Cleaning
<1> QED  BY <1>1, <1>2, <1>3, IdleTyped DEF PositionInv

LEMMA NextPosition == TInv /\ PositionInv /\ [Next]_vars => PositionInv'
<1> SUFFICES ASSUME TInv, PositionInv, [Next]_vars PROVE PositionInv'
  OBVIOUS
<1>0. UNCHANGED chain
  BY DEF Next, vars
<1>1. CASE Reader \/ Handler \/ UNCHANGED vars
  <2>1. UNCHANGED <<blocks, main>>
    BY <1>1, ReaderSteps, HandlerSteps DEF TInv, NodeInv, node, vars
  <2> QED  BY <1>0, <2>1, PositionKept DEF Best
<1>2. CASE Node \/ Loop \/ Crash
  BY <1>0, <1>2, NodePosition, LoopPosition, CrashPosition
<1>3. ASSUME NEW w \in 0..Back, Run(w) PROVE PositionInv'
  BY <1>0, <1>3, RunPosition
<1> QED  BY <1>1, <1>2, <1>3 DEF Next

----------------------------------------------------------------------------
(* The loop has not looked for the blocks of what is on its way. *)

LEMMA PromptKept ==
  ASSUME PromptInv, UNCHANGED <<chain, blocks, file>>,
         Best \in Nat,
         \A t : OnWay(t)' => OnWay(t),
         \A h \in 1..Best : loop.to < h => loop'.to < h,
         Cleaning' => Cleaning /\ worker'[0].h = worker[0].h
  PROVE  PromptInv'
<1> SUFFICES ASSUME chain.prompt, NEW h \in 1..Best, NEW t \in blocks[h], OnWay(t)'
             PROVE  file < h /\ loop'.to < h /\ (Cleaning' => worker'[0].h < h)
  BY DEF PromptInv, Best
<1>1. file < h /\ loop.to < h /\ (Cleaning => worker[0].h < h)
  BY DEF PromptInv
<1> QED  BY <1>1

LEMMA NextPrompt == TInv /\ PositionInv /\ PromptInv /\ [Next]_vars => PromptInv'
<1> SUFFICES ASSUME TInv, PositionInv, PromptInv, [Next]_vars, chain.prompt PROVE PromptInv'
  BY DEF PromptInv, Next, vars
<1>0. UNCHANGED chain /\ Best \in Nat
  BY Lengths DEF Next, vars
<1>1. CASE UNCHANGED vars
  BY <1>0, <1>1, PromptKept DEF vars, node, zmq, main, OnWay, Cleaning
<1>2. CASE Node
  <2>1. UNCHANGED main
    BY <1>0, <1>2, NodeSteps
  <2> SUFFICES ASSUME NEW h \in 1..Best', NEW t \in blocks'[h], OnWay(t)'
               PROVE  file < h /\ loop.to < h /\ (Cleaning => worker[0].h < h)
    BY <2>1 DEF PromptInv, main, Cleaning
  <2>2. OnWay(t) \/ t \notin Mined
    BY <1>2, NodeWay
  <2>3. CASE h \in 1..Best
    <3>1. blocks'[h] = blocks[h]
      BY <1>2, <2>3 DEF Node, Enter, Connect, TInv, NodeInv, Best
    <3>2. t \in Mined
      BY <2>3, <3>1, Lengths
    <3> QED  BY <2>2, <2>3, <3>1, <3>2 DEF PromptInv
  <2>4. CASE h \notin 1..Best
    <3>1. h > Best
      BY <1>0, <2>4, <1>2 DEF Node, Enter, Connect, TInv, NodeInv, Best
    <3>2. file <= Best /\ loop.to <= Best /\ (Cleaning => worker[0].h <= Best)
      <4>1. Cleaning => ~Free(0)
        BY Constants DEF PositionInv, Cleaning, Free
      <4> QED  BY <1>0, <4>1, Constants DEF TInv, LoopTyped
    <3> QED  BY <1>0, <3>1, <3>2, Lengths, Constants
  <2> QED  BY <2>3, <2>4
<1>3. CASE Reader \/ Handler
  <2>1. UNCHANGED <<blocks, main>>
    BY <1>3, ReaderSteps, HandlerSteps DEF TInv, NodeInv, node
  <2>2. \A t : OnWay(t)' => OnWay(t)
    BY <1>3, ListenerWay
  <2> QED  BY <1>0, <2>1, <2>2, PromptKept DEF main, Cleaning
<1>4. CASE Loop
  <2>1. UNCHANGED <<node, zmq, file>>
    BY <1>0, <1>4, LoopSteps
  <2>2. \A t : OnWay(t)' => OnWay(t)
    BY <2>1 DEF OnWay, node, zmq
  <2>3. CASE IndexerRun \/ CheckNewBlock
    <3>1. \A t : ~OnWay(t)
      BY <2>3, QuietWay DEF IndexerRun, CheckNewBlock, Looking
    <3> QED  BY <2>2, <3>1 DEF PromptInv
  <2>4. CASE EndIndexerRun \/ EndCheck
    <3>1. loop'.to = 0
      BY <2>4 DEF EndIndexerRun, EndCheck, Resting
    <3>2. Free(0) /\ ~Cleaning
      BY <2>4, Constants DEF EndIndexerRun, EndCheck, PositionInv, Cleaning, Free
    <3>3. ~Cleaning'
      <4>1. CASE EndCheck
        BY <3>2, <4>1 DEF EndCheck, Cleaning
      <4>2. CASE EndIndexerRun
        <5>1. worker'[0] = worker[0]
          BY <4>2, Constants DEF EndIndexerRun
        <5> QED  BY <3>2, <5>1 DEF Cleaning
      <4> QED  BY <2>4, <4>1, <4>2
    <3> QED  BY <1>0, <2>1, <2>2, <3>1, <3>3, PromptKept DEF node
  <2>5. CASE NextBlock
    <3>1. loop'.to = loop.to /\ loop.next <= loop.to /\ loop.next \in Nat /\ loop.to \in Nat
      BY <2>5, Lengths DEF NextBlock, TInv, LoopTyped
    <3>2. worker'[0].h = loop.next
      BY <2>5, Constants, Lengths DEF NextBlock
    <3> SUFFICES ASSUME NEW h \in 1..Best, NEW t \in blocks[h], OnWay(t)'
                 PROVE  file < h /\ loop'.to < h /\ (Cleaning' => worker'[0].h < h)
      BY <2>1 DEF PromptInv, node, Best
    <3>3. file < h /\ loop.to < h
      BY <2>2 DEF PromptInv
    <3> QED  BY <1>0, <3>1, <3>2, <3>3
  <2> QED  BY <1>4, <2>3, <2>4, <2>5 DEF Loop
<1>5. ASSUME NEW w \in 0..Back, Run(w) PROVE PromptInv'
  <2>1. UNCHANGED <<node, zmq, loop>>
    BY <1>0, <1>5, RunSteps
  <2>2. /\ Cleaning' => Cleaning /\ worker'[0].h = worker[0].h
        /\ file' = file \/ (Cleaning /\ file' = worker[0].h)
    BY <1>5, Constants, WorkerSteps DEF Cleaning
  <2> SUFFICES ASSUME NEW h \in 1..Best, NEW t \in blocks[h], OnWay(t)
               PROVE  file' < h /\ loop'.to < h /\ (Cleaning' => worker'[0].h < h)
    BY <2>1 DEF PromptInv, node, zmq, Best, OnWay
  <2>3. file < h /\ loop.to < h /\ (Cleaning => worker[0].h < h)
    BY DEF PromptInv
  <2> QED  BY <2>1, <2>2, <2>3
<1>6. CASE Crash
  <2>1. Quiet'
    BY <1>6, IdleTyped DEF Crash, Quiet
  <2>2. \A t : ~OnWay(t)'
    BY <2>1 DEF Quiet, OnWay
  <2> QED  BY <2>2 DEF PromptInv
<1> QED  BY <1>1, <1>2, <1>3, <1>4, <1>5, <1>6 DEF Next

----------------------------------------------------------------------------
(* What has been cleaned up stays clean. *)

(* What WriteDocs writes. *)
LEMMA Written ==
  ASSUME DocsInv, WriteDocs, NEW o \in DOMAIN pending'
  PROVE  /\ DOMAIN pending'[o] = DocFields
         /\ (o \in DOMAIN pending /\ pending'[o] = pending[o]) \/ pending'[o].optx = handler.tx
<1> DEFINE t == handler.tx
           pooled == handler.pooled
           amount == Worth(handler.chained)
                       + SumFunction([u \in DOMAIN pooled |-> pooled[u].amt])
<1>1. pending' = [u \in DOMAIN pending \cup DOMAIN pooled \cup handler.chained \cup {t} |->
                   IF u = t THEN [amt |-> amount, live |-> TRUE, mined |-> FALSE, optx |-> t]
                   ELSE IF u \in DOMAIN pooled THEN SpentCopy(pooled[u], t)
                   ELSE IF u \in handler.chained THEN SpentCopy(ChainDoc(u), t)
                   ELSE pending[u]]
  BY DEF WriteDocs
<1>2. \A u \in DOMAIN pooled : DOMAIN pooled[u] = DocFields
  BY DEF DocsInv
<1> HIDE DEF amount, pooled, t
<1>3. CASE o = t
  BY <1>1, <1>3 DEF DocFields, t
<1>4. CASE o # t /\ o \in DOMAIN pooled
  <2>1. pending'[o] = SpentCopy(pooled[o], t)
    BY <1>1, <1>4
  <2>2. DOMAIN pooled[o] = DocFields
    BY <1>2, <1>4
  <2> QED  BY <2>1, <2>2 DEF SpentCopy, DocFields, t
<1>5. CASE o # t /\ o \notin DOMAIN pooled /\ o \in handler.chained
  <2>1. pending'[o] = SpentCopy(ChainDoc(o), t)
    BY <1>1, <1>5
  <2> QED  BY <2>1 DEF SpentCopy, ChainDoc, DocFields, t
<1>6. CASE o # t /\ o \notin DOMAIN pooled /\ o \notin handler.chained
  BY <1>1, <1>6 DEF DocsInv
<1> QED  BY <1>3, <1>4, <1>5, <1>6 DEF t

(* The handler writes records of its own transaction only. *)
LEMMA HandlerRecords ==
  ASSUME DocsInv, Handler
  PROVE  /\ listed' \subseteq listed \cup {handler.tx}
         /\ \A f \in DOMAIN moves' : \/ f \in DOMAIN moves /\ moves'[f] = moves[f]
                                     \/ moves'[f] = handler.tx
         /\ \A o \in DOMAIN pending' : \/ o \in DOMAIN pending /\ pending'[o] = pending[o]
                                       \/ pending'[o].optx = handler.tx
<1>1. CASE StorePin
  BY <1>1 DEF StorePin
<1>2. CASE StoreMove
  BY <1>2 DEF StoreMove
<1>3. CASE ReadDocs
  BY <1>3 DEF ReadDocs, records
<1>4. CASE WriteDocs
  BY <1>4, Written DEF WriteDocs
<1> QED  BY <1>1, <1>2, <1>3, <1>4 DEF Handler

(* The cleaning only deletes; nothing else but the handler touches the records. *)
LEMMA RunRecords ==
  ASSUME NEW w \in 0..Back, Run(w)
  PROVE  /\ listed' \subseteq listed
         /\ \A f \in DOMAIN moves' : f \in DOMAIN moves /\ moves'[f] = moves[f]
         /\ \A o \in DOMAIN pending' : o \in DOMAIN pending /\ pending'[o] = pending[o]
BY DEF Run, StoreBlock, DeletePins, DeleteDocs, DeleteReceived, DeleteFails, records

LEMMA OtherRecords ==
  ASSUME Node \/ Reader \/ Loop \/ Crash \/ UNCHANGED vars
  PROVE  UNCHANGED <<listed, moves, pending>>
BY DEF Node, Enter, Connect, Reader, Receive, Save, SendPins, CheckTransfers, SendMoves, SendLast,
       Loop, IndexerRun, NextBlock, EndIndexerRun, CheckNewBlock, EndCheck, Crash, vars, records

(* What a step does to the records of a set of transactions. *)
LEMMA StaysGone ==
  ASSUME DocsInv, [Next]_vars, NEW S, Handler => handler.tx \notin S
  PROVE  (UnlistedBy(S) => UnlistedBy(S)') /\ (GoneAll(S) => GoneAll(S)')
<1>1. CASE Handler
  BY <1>1, HandlerRecords DEF UnlistedBy, GoneAll
<1>2. ASSUME NEW w \in 0..Back, Run(w)
      PROVE  (UnlistedBy(S) => UnlistedBy(S)') /\ (GoneAll(S) => GoneAll(S)')
  BY <1>2, RunRecords DEF UnlistedBy, GoneAll
<1>3. CASE Node \/ Reader \/ Loop \/ Crash \/ UNCHANGED vars
  <2>1. UNCHANGED <<listed, moves, pending>>
    BY <1>3, OtherRecords
  <2> QED  BY <2>1 DEF UnlistedBy, GoneAll
<1> QED  BY <1>1, <1>2, <1>3 DEF Next

LEMMA NextDocs == TInv /\ DocsInv /\ [Next]_vars => DocsInv'
<1> SUFFICES ASSUME TInv, DocsInv, [Next]_vars PROVE DocsInv'
  OBVIOUS
<1>1. \A o \in DOMAIN pending' : DOMAIN pending'[o] = DocFields
  <2>1. CASE WriteDocs
    BY <2>1, Written
  <2>2. CASE Handler /\ ~WriteDocs
    BY <2>2 DEF DocsInv, Handler, StorePin, StoreMove, ReadDocs, records
  <2>3. ASSUME NEW w \in 0..Back, Run(w) PROVE \A o \in DOMAIN pending' : DOMAIN pending'[o] = DocFields
    BY <2>3, RunRecords DEF DocsInv
  <2>4. CASE Node \/ Reader \/ Loop \/ Crash \/ UNCHANGED vars
    BY <2>4, OtherRecords DEF DocsInv
  <2> QED  BY <2>1, <2>2, <2>3, <2>4 DEF Next
<1>2. Waiting.pooled = <<>>
  BY DEF Waiting
<1>3. handler'.pooled \in {handler.pooled, <<>>, PendingAt(Ins(handler.tx))}
  <2>1. CASE StorePin \/ StoreMove
    BY <2>1 DEF StorePin, StoreMove, TInv, ListenerInv
  <2>2. CASE ReadDocs
    <3> DEFINE chained == {o \in Ins(handler.tx) \cap Unspent : Tokens(o) > 0}
               pooled == PendingAt(Ins(handler.tx))
               new == [handler EXCEPT !.at = "write", !.chained = chained, !.pooled = pooled]
    <3>1. handler' = Waiting \/ handler' = new
      BY <2>2 DEF ReadDocs
    <3> HIDE DEF chained, pooled
    <3>2. new.pooled = pooled
      BY DEF TInv, ListenerInv
    <3> QED  BY <1>2, <3>1, <3>2 DEF pooled
  <2>3. CASE WriteDocs \/ Crash
    BY <1>2, <2>3 DEF WriteDocs, Crash
  <2>4. CASE SendPins \/ SendMoves \/ SendLast
    <3>1. PICK stage, found : Send(stage, found)
      BY <2>4 DEF SendPins, SendMoves, SendLast
    <3> QED  BY <3>1 DEF Send, Waiting
  <2>5. CASE Receive \/ Save \/ CheckTransfers \/ Node \/ Loop \/ UNCHANGED vars
    <3>1. handler' = handler
      BY <2>5 DEF Receive, Save, CheckTransfers, Node, Enter, Connect, Loop, IndexerRun, NextBlock,
                  EndIndexerRun, CheckNewBlock, EndCheck, vars, zmq
    <3> QED  BY <3>1
  <2>6. ASSUME NEW w \in 0..Back, Run(w) PROVE handler' = handler
    BY <2>6 DEF Run, StoreBlock, DeletePins, DeleteDocs, DeleteReceived, DeleteFails, zmq
  <2> QED  BY <2>1, <2>2, <2>3, <2>4, <2>5, <2>6 DEF Next, Reader, Handler
<1>4. \A S : \A o \in DOMAIN PendingAt(S) : DOMAIN PendingAt(S)[o] = DocFields
  BY DEF PendingAt, DocsInv
<1> QED  BY <1>1, <1>3, <1>4 DEF DocsInv


(* Blocks are only added. *)
LEMMA NodeBlocks ==
  ASSUME TInv, Node
  PROVE  Best' \in {Best, Best + 1} /\ \A h \in 1..Best : blocks'[h] = blocks[h]
<1>1. blocks \in Seq(SUBSET Txs) /\ pool \subseteq Txs
  BY DEF TInv, NodeInv
<1>2. ASSUME NEW t \in Txs, Enter(t) PROVE blocks' = blocks
  BY <1>2 DEF Enter
<1>3. ASSUME NEW S \in SUBSET pool, Connect(S) PROVE blocks' = Append(blocks, S) /\ S \in SUBSET Txs
  BY <1>1, <1>3 DEF Connect
<1> QED  BY <1>1, <1>2, <1>3 DEF Node, Best

(* A step of the main loop cleans nothing. *)
LEMMA LoopCleaned ==
  ASSUME TInv, PositionInv, Loop, UNCHANGED chain, NEW h \in 1..Best
  PROVE  (Cleaned(h)' => Cleaned(h)) /\ (PinsCleaned(h)' => PinsCleaned(h))
<1>1. UNCHANGED <<chain, file, faults>>
  BY LoopSteps DEF counters
<1>2. file \in Nat /\ loop.next \in Nat /\ loop.to \in Nat /\ 0 \in 0..Back /\ 0 \in DOMAIN worker
  BY Lengths, Constants
<1>3. Free(0) => ~Cleaning
  BY <1>2 DEF PositionInv, Cleaning, Free
<1>4. CASE IndexerRun \/ CheckNewBlock \/ EndCheck
  <2>1. worker' = worker /\ ~Cleaning /\ ~Cleaning'
    BY <1>3, <1>4 DEF IndexerRun, CheckNewBlock, EndCheck, Looking, Cleaning
  <2>2. loop'.at # "clean" \/ loop'.next = file
    <3>1. CASE IndexerRun
      BY <3>1 DEF IndexerRun, Resting
    <3>2. CASE CheckNewBlock
      <4>1. loop' = Resting \/ loop' = [Resting EXCEPT !.at = "clean", !.next = file, !.to = Best]
        BY <3>2 DEF CheckNewBlock
      <4> QED  BY <4>1, IdleTyped DEF Resting
    <3>3. CASE EndCheck
      BY <3>3, IdleTyped DEF EndCheck
    <3> QED  BY <1>4, <3>1, <3>2, <3>3
  <2> QED  BY <1>1, <1>2, <2>1, <2>2 DEF Cleaned, PinsCleaned
<1>5. CASE NextBlock
  <2>1. /\ worker'[0].at \in {"store", "pins"} /\ loop.next <= loop.to /\ Free(0)
        /\ loop'.at = loop.at /\ loop'.to = loop.to
    BY <1>2, <1>5 DEF NextBlock, TInv, LoopTyped
  <2>2. (loop.at = "clean" => Cleaning' /\ worker'[0].h = loop.next)
        /\ (loop.at # "clean" => ~Cleaning')
    <3>1. worker'[0] = IF loop.at = "index" THEN [at |-> "store", h |-> loop.next, file |-> FALSE]
                       ELSE [at |-> "pins", h |-> loop.next, file |-> TRUE]
      BY <1>2, <1>5 DEF NextBlock
    <3>2. loop.at \in {"index", "clean"}
      BY <1>5 DEF NextBlock
    <3> QED  BY <3>1, <3>2 DEF Cleaning
  <2> QED  BY <1>1, <1>2, <1>3, <2>1, <2>2 DEF Cleaned, PinsCleaned
<1>6. CASE EndIndexerRun
  <2>1. worker'[0] = worker[0] /\ Free(0) /\ loop'.at = "check"
    BY <1>2, <1>6, Constants DEF EndIndexerRun, Resting
  <2>2. ~Cleaning /\ ~Cleaning'
    BY <1>3, <2>1 DEF Cleaning
  <2> QED  BY <1>1, <1>2, <2>1, <2>2 DEF Cleaned, PinsCleaned
<1> QED  BY <1>4, <1>5, <1>6 DEF Loop

(* A step of a worker cleans the block that the cleaner is in. *)
LEMMA RunCleaned ==
  ASSUME TInv, PositionInv, NEW w \in 0..Back, Run(w), UNCHANGED chain, NEW h \in 1..Best
  PROVE  /\ Cleaned(h)' => Cleaned(h) \/ (DeleteDocs(w) /\ PinsCleaned(h) /\ worker[w].h = h)
         /\ PinsCleaned(h)' => PinsCleaned(h) \/ (DeletePins(w) /\ worker[w].h = h)
<1>1. /\ UNCHANGED <<chain, loop>> /\ ~Free(w)
      /\ \A v \in 0..Back : v # w => worker'[v] = worker[v]
  BY RunSteps
<1>2. /\ file \in Nat /\ loop.next \in Nat /\ loop.to \in Nat /\ 0 \in 0..Back /\ Best \in Nat
      /\ \A v \in 0..Back : worker[v].h \in Nat
      /\ faults \in Nat /\ loop.to <= Best
  BY Lengths, Constants DEF TInv, LoopTyped
<1>3. /\ worker[w].file => w = 0 /\ Cleaning
      /\ Cleaning' => Cleaning /\ worker'[0].h = worker[0].h
  BY <1>2, WorkerSteps DEF Cleaning
<1>4. CASE w # 0 \/ ~Cleaning
  <2>1. Cleaning' <=> Cleaning
    BY <1>1, <1>2, <1>3, <1>4 DEF Cleaning
  <2>2. file' = file
    <3>1. ~worker[w].file
      BY <1>3, <1>4
    <3> QED  BY <3>1, WorkerSteps
  <2>3. faults' = faults \/ faults' = faults + 1
    BY RunSteps
  <2>4. w # 0 => worker'[0] = worker[0]
    BY <1>1, <1>2
  <2> QED  BY <1>1, <1>2, <1>4, <2>1, <2>2, <2>3, <2>4 DEF Cleaned, PinsCleaned
<1>5. CASE w = 0 /\ Cleaning
  <2>1. worker[w].file
    BY <1>5 DEF Cleaning
  <2>2. ASSUME NEW stage \in Stages, worker' = [worker EXCEPT ![w].at = stage]
        PROVE  worker'[w].at = stage /\ worker'[w].file
    <3>1. worker[w] \in [at: Stages, h: 0..Tip, file: BOOLEAN] /\ DOMAIN worker = 0..Back
      BY DEF TInv, LoopTyped
    <3>2. worker'[w] = [worker[w] EXCEPT !.at = stage]
      BY <2>2, <3>1
    <3> QED  BY <2>1, <3>1, <3>2
  <2>3. "docs" \in Stages /\ "received" \in Stages
    BY DEF Stages
  <2>4. CASE DeletePins(w)
    <3>1. file' = file /\ faults' = faults /\ worker'[0].at = "docs" /\ Cleaning'
      BY <1>5, <2>4, <2>2, <2>3 DEF DeletePins, counters, Cleaning
    <3> QED  BY <1>1, <1>2, <1>3, <1>5, <2>4, <3>1 DEF Cleaned, PinsCleaned
  <2>5. CASE DeleteDocs(w)
    <3>1. /\ file' = file /\ faults' = faults
          /\ worker[0].at = "docs" /\ worker'[0].at = "received" /\ Cleaning'
      BY <1>5, <2>5, <2>2, <2>3 DEF DeleteDocs, counters, Cleaning
    <3> QED  BY <1>1, <1>2, <1>3, <1>5, <2>5, <3>1 DEF Cleaned, PinsCleaned
  <2>6. CASE DeleteReceived(w) \/ DeleteFails(w)
    <3>1. worker'[w] = Idle /\ file' = worker[w].h
      BY <1>2, <2>1, <2>6 DEF DeleteReceived, DeleteFails, EndDelete, TInv, LoopTyped
    <3>2. ~Cleaning'
      BY <1>5, <3>1, IdleTyped DEF Cleaning
    <3>3. /\ loop.at = "clean" /\ loop.next = worker[0].h + 1
          /\ worker[0].h = file \/ worker[0].h = file + 1
          /\ chain.steady => Best <= file + 1
      BY <1>2, <1>5 DEF PositionInv, Cleaning
    <3>4. CASE DeleteReceived(w)
      <4>1. worker[0].at = "received" /\ faults' = faults
        BY <1>5, <3>4 DEF DeleteReceived, counters
      <4> QED  BY <1>1, <1>2, <1>5, <3>1, <3>2, <3>3, <4>1 DEF Cleaned, PinsCleaned
    <3>5. CASE DeleteFails(w)
      <4>1. faults' = faults + 1
        BY <3>5 DEF DeleteFails
      <4> QED  BY <1>1, <1>2, <1>5, <3>1, <3>2, <3>3, <4>1 DEF Cleaned, PinsCleaned
    <3> QED  BY <2>6, <3>4, <3>5
  <2>7. ~StoreBlock(w)
    <3>1. worker[w].at \in {"pins", "docs", "received"}
      BY <2>1 DEF PositionInv
    <3> QED  BY <3>1 DEF StoreBlock
  <2> QED  BY <2>4, <2>5, <2>6, <2>7 DEF Run
<1> QED  BY <1>4, <1>5

LEMMA NextClean ==
  TInv /\ DocsInv /\ PositionInv /\ PromptInv /\ CleanInv /\ [Next]_vars => CleanInv'
<1> SUFFICES ASSUME TInv, DocsInv, PositionInv, PromptInv, CleanInv, [Next]_vars, chain.prompt,
                    NEW h \in 1..Best'
             PROVE  (Cleaned(h)' => GoneIn(h)') /\ (PinsCleaned(h)' => UnlistedIn(h)')
  BY DEF CleanInv, Next, vars
<1>0. UNCHANGED chain
  BY DEF Next, vars
<1>1. /\ file \in Nat /\ loop.next \in Nat /\ loop.to \in Nat /\ 0 \in 0..Back /\ Best \in Nat
      /\ worker[0].h \in Nat /\ file <= Best
  BY Lengths, Constants DEF TInv, LoopTyped
<1>2. CASE h \in 1..Best
  <2>1. blocks'[h] = blocks[h]
    <3>1. CASE Node
      BY <1>2, <3>1, NodeBlocks
    <3>2. CASE ~Node
      BY <1>0, <3>2, ReaderSteps, HandlerSteps, LoopSteps, RunSteps
         DEF Next, Crash, vars, node, TInv, NodeInv
    <3> QED  BY <3>1, <3>2
  <2>2. PICK S : S = blocks[h]
    OBVIOUS
  <2>3. Cleaned(h) \/ PinsCleaned(h) => (Handler => handler.tx \notin S)
    <3>1. Cleaned(h) \/ PinsCleaned(h) => h <= file \/ (Cleaning /\ h = worker[0].h)
      BY <1>1 DEF Cleaned, PinsCleaned
    <3>2. Handler => OnWay(handler.tx)
      BY HandlerSteps DEF TInv, OnWay
    <3>3. Handler /\ handler.tx \in S => file < h /\ (Cleaning => worker[0].h < h)
      BY <1>2, <2>2, <3>2 DEF PromptInv
    <3> QED  BY <1>1, <3>1, <3>3
  <2>4. /\ Cleaned(h) => GoneAll(S) /\ GoneAll(S)'
        /\ PinsCleaned(h) => UnlistedBy(S) /\ UnlistedBy(S)'
    <3>1. (Cleaned(h) => GoneAll(S)) /\ (PinsCleaned(h) => UnlistedBy(S))
      BY <1>2, <2>2 DEF CleanInv, GoneIn, UnlistedIn
    <3> QED  BY <2>3, <3>1, StaysGone
  <2>5. (GoneAll(S)' => GoneIn(h)') /\ (UnlistedBy(S)' => UnlistedIn(h)')
    BY <2>1, <2>2 DEF GoneAll, GoneIn, UnlistedBy, UnlistedIn
  <2>6. CASE Loop
    BY <1>0, <1>2, <2>4, <2>5, <2>6, LoopCleaned
  <2>7. ASSUME NEW w \in 0..Back, Run(w)
        PROVE  (Cleaned(h)' => GoneIn(h)') /\ (PinsCleaned(h)' => UnlistedIn(h)')
    <3>1. DeletePins(w) /\ worker[w].h = h => UnlistedBy(S)'
      BY <2>2 DEF DeletePins, UnlistedBy
    <3>2. DeleteDocs(w) /\ worker[w].h = h /\ UnlistedBy(S)' => GoneAll(S)'
      BY <2>2 DEF DeleteDocs, GoneAll
    <3> QED  BY <1>0, <1>2, <2>4, <2>5, <2>7, <3>1, <3>2, RunCleaned
  <2>8. CASE Node \/ Reader \/ Handler \/ UNCHANGED vars
    <3>1. UNCHANGED <<chain, main, counters>>
      BY <1>0, <2>8, NodeSteps, ReaderSteps, HandlerSteps DEF vars, TInv, NodeInv
    <3>2. (Cleaned(h)' => Cleaned(h)) /\ (PinsCleaned(h)' => PinsCleaned(h))
      BY <3>1 DEF Cleaned, PinsCleaned, Cleaning, main, counters
    <3> QED  BY <2>4, <2>5, <3>2
  <2>9. CASE Crash
    <3>1. ~Cleaning' /\ loop'.at # "clean" /\ file' = file /\ faults' = faults
      BY <1>1, <2>9, IdleTyped DEF Crash, Cleaning
    <3>2. (Cleaned(h)' => Cleaned(h)) /\ ~PinsCleaned(h)'
      BY <1>0, <3>1 DEF Cleaned, PinsCleaned
    <3> QED  BY <2>4, <2>5, <3>2
  <2> QED  BY <2>6, <2>7, <2>8, <2>9 DEF Next
<1>3. CASE h \notin 1..Best
  <2>1. ~(Best' = Best)
    BY <1>3
  <2>2. Node
    BY <1>0, <2>1, ReaderSteps, HandlerSteps, LoopSteps, RunSteps
       DEF Next, Crash, vars, node, TInv, NodeInv, Best
  <2>3. UNCHANGED <<chain, main>>
    BY <1>0, <2>2, NodeSteps
  <2>4. h > Best
    BY <1>1, <1>3, <2>2, NodeBlocks
  <2>5. Cleaning => worker[0].h <= Best
    BY <1>1 DEF PositionInv, Cleaning, TInv, LoopTyped
  <2>6. ~Cleaned(h)' /\ ~PinsCleaned(h)'
    BY <1>1, <2>3, <2>4, <2>5 DEF Cleaned, PinsCleaned, Cleaning, main
  <2> QED  BY <2>6
<1> QED  BY <1>2, <1>3

----------------------------------------------------------------------------
(* Announcements. *)

(* What the messages are after a step, with where a new one stands. *)
LEMMA NodeQueue ==
  ASSUME TInv, Node
  PROVE  /\ \A i \in DOMAIN queue : i \in DOMAIN queue' /\ queue'[i] = queue[i]
         /\ pool' \subseteq entered' /\ entered \subseteq entered'
         /\ \/ \E t \in Txs :
                 /\ t \notin entered /\ pool' \subseteq pool \cup {t} /\ queue' = Append(queue, t)
                 /\ t \in entered'
            \/ \E S \in SUBSET pool :
                 /\ pool' = pool \ S
                 /\ \A i \in DOMAIN queue' : i \in DOMAIN queue \/ queue'[i] \in S
<1>1. queue \in Seq(Txs) /\ pool \subseteq entered /\ entered \subseteq Txs
  BY DEF TInv, NodeInv
<1>2. ASSUME NEW t \in Txs, Enter(t)
      PROVE  /\ \A i \in DOMAIN queue : i \in DOMAIN queue' /\ queue'[i] = queue[i]
             /\ pool' \subseteq entered' /\ entered \subseteq entered'
             /\ t \notin entered /\ pool' \subseteq pool \cup {t} /\ queue' = Append(queue, t)
             /\ t \in entered'
  <2>1. queue' = Append(queue, t) /\ entered' = entered \cup {t} /\ t \notin entered
        /\ pool' \subseteq pool \cup {t}
    BY <1>2 DEF Enter
  <2>2. \A i \in DOMAIN queue : i \in DOMAIN queue' /\ queue'[i] = queue[i]
    BY <1>1, <2>1
  <2> QED  BY <1>1, <2>1, <2>2
<1>3. ASSUME NEW S \in SUBSET pool, Connect(S)
      PROVE  /\ \A i \in DOMAIN queue : i \in DOMAIN queue' /\ queue'[i] = queue[i]
             /\ pool' \subseteq entered' /\ entered \subseteq entered'
             /\ pool' = pool \ S
             /\ \A i \in DOMAIN queue' : i \in DOMAIN queue \/ queue'[i] \in S
  <2>1. queue' = queue \o SetToSeq(S) /\ entered' = entered /\ pool' = pool \ S
    BY <1>3 DEF Connect
  <2>2. IsFiniteSet(S) /\ S \subseteq Txs
    BY <1>1, Constants, FS_Subset
  <2>3. SetToSeq(S) \in Seq(S)
    BY <2>2, SetInOrder
  <2> HIDE DEF Connect
  <2>4. PICK r : r = SetToSeq(S)
    OBVIOUS
  <2>5. r \in Seq(S) /\ r \in Seq(Txs) /\ queue' = queue \o r
    BY <2>1, <2>2, <2>3, <2>4
  <2>6. \A i \in DOMAIN queue : i \in DOMAIN queue' /\ queue'[i] = queue[i]
    BY <1>1, <2>5
  <2>7. ASSUME NEW i \in DOMAIN queue' PROVE i \in DOMAIN queue \/ queue'[i] \in S
    <3>1. \/ i \in DOMAIN queue
          \/ i - Len(queue) \in DOMAIN r /\ queue'[i] = r[i - Len(queue)]
      BY <1>1, <2>5, Joined
    <3> QED  BY <2>5, <3>1
  <2> QED  BY <1>1, <2>1, <2>6, <2>7
<1> QED  BY <1>2, <1>3 DEF Node

(* What Receive takes from the queue. *)
LEMMA Received ==
  ASSUME TInv, Receive
  PROVE  /\ reader.at = "receive" /\ 1 \in DOMAIN queue
         /\ \A i \in DOMAIN queue' : i + 1 \in DOMAIN queue /\ queue'[i] = queue[i + 1]
         /\ \A i \in DOMAIN queue : i # 1 => i - 1 \in DOMAIN queue' /\ queue'[i - 1] = queue[i]
         /\ \/ queue[1] \in received /\ reader' = reader
            \/ queue[1] \notin received /\ reader'.at = "save" /\ reader'.tx = queue[1]
<1>1. queue \in Seq(Txs) /\ queue # <<>> /\ queue' = Tail(queue) /\ reader.at = "receive"
  BY DEF TInv, NodeInv, Receive
<1>2. 1 \in DOMAIN queue /\ queue[1] = Head(queue)
  BY <1>1
<1>3. /\ \A i \in DOMAIN queue' : i + 1 \in DOMAIN queue /\ queue'[i] = queue[i + 1]
      /\ \A i \in DOMAIN queue : i # 1 => i - 1 \in DOMAIN queue' /\ queue'[i - 1] = queue[i]
  BY <1>1
<1>4. \/ queue[1] \in received /\ reader' = reader
      \/ queue[1] \notin received /\ reader'.at = "save" /\ reader'.tx = queue[1]
  BY <1>2 DEF Receive, Known, Reading
<1> QED  BY <1>1, <1>2, <1>3, <1>4

(* The reader's other steps. *)
LEMMA ReaderMoves ==
  ASSUME TInv, Reader, ~Receive
  PROVE  /\ queue' = queue /\ reader.at # "receive"
         /\ reader' = Reading \/ (reader'.tx = reader.tx /\ reader'.at # "receive")
         /\ received' = received \/ (Save /\ received' = received \cup {reader.tx})
<1>1. queue' = queue /\ reader.at # "receive"
  BY DEF Reader, Save, SendPins, CheckTransfers, SendMoves, SendLast, node
<1>2. reader' = Reading \/ (reader'.tx = reader.tx /\ reader'.at # "receive")
  <2>1. DOMAIN reader = {"at", "tx", "found"}
    BY DEF TInv, ListenerInv
  <2> QED  BY <2>1 DEF Reader, Save, SendPins, CheckTransfers, SendMoves, SendLast
<1>3. received' = received \/ (Save /\ received' = received \cup {reader.tx})
  BY DEF Reader, Save, SendPins, CheckTransfers, SendMoves, SendLast, records
<1> QED  BY <1>1, <1>2, <1>3

(* The steps that neither announce nor receive. *)
LEMMA OtherSteps ==
  ASSUME TInv, [Next]_vars, ~Node, ~Reader, ~Crash
  PROVE  UNCHANGED <<node, reader, crashes>> /\ received' \subseteq received
<1>1. CASE Handler
  BY <1>1, HandlerSteps DEF TInv, counters
<1>2. CASE Loop
  BY <1>2, LoopSteps DEF Next, vars, zmq, records, counters
<1>3. ASSUME NEW w \in 0..Back, Run(w)
      PROVE  UNCHANGED <<node, reader, crashes>> /\ received' \subseteq received
  <2>1. UNCHANGED <<node, reader, crashes>>
    BY <1>3, RunSteps DEF Next, vars, zmq
  <2>2. received' \subseteq received
    BY <1>3 DEF Run, StoreBlock, DeletePins, DeleteDocs, DeleteReceived, DeleteFails, records
  <2> QED  BY <2>1, <2>2
<1>4. CASE UNCHANGED vars
  BY <1>4 DEF vars, zmq, records, counters
<1> QED  BY <1>1, <1>2, <1>3, <1>4 DEF Next

LEMMA NextSeen == TInv /\ SeenInv /\ [Next]_vars => SeenInv'
<1> SUFFICES ASSUME TInv, SeenInv, [Next]_vars PROVE SeenInv'
  OBVIOUS
<1>1. CASE Node
  <2>1. UNCHANGED <<reader, received>>
    BY <1>1 DEF Node, Enter, Connect, zmq, records
  <2>2. entered \subseteq entered' /\ pool \subseteq entered /\ queue \in Seq(Txs)
    BY <1>1, NodeQueue DEF TInv, NodeInv
  <2>3. \A i \in DOMAIN queue' : queue'[i] \in entered'
    <3>1. ASSUME NEW t \in Txs, queue' = Append(queue, t), t \in entered'
          PROVE  \A i \in DOMAIN queue' : queue'[i] \in entered'
      BY <2>2, <3>1 DEF SeenInv
    <3>2. ASSUME NEW S \in SUBSET pool, \A i \in DOMAIN queue' : i \in DOMAIN queue \/ queue'[i] \in S
          PROVE  \A i \in DOMAIN queue' : queue'[i] \in entered'
      BY <1>1, <2>2, <3>2, NodeQueue DEF SeenInv
    <3> QED  BY <1>1, <3>1, <3>2, NodeQueue
  <2> QED  BY <2>1, <2>2, <2>3 DEF SeenInv
<1>2. CASE Receive
  <2>1. UNCHANGED <<entered, received>>
    BY <1>2 DEF Receive, records
  <2> QED  BY <1>2, <2>1, Received DEF SeenInv
<1>3. CASE Reader /\ ~Receive
  <2>1. entered' = entered
    BY <1>3 DEF Reader, Save, SendPins, CheckTransfers, SendMoves, SendLast, node
  <2> QED  BY <1>3, <2>1, ReaderMoves, IdleTyped DEF SeenInv
<1>4. CASE Crash
  BY <1>4, IdleTyped DEF Crash, SeenInv, records
<1>5. CASE ~Node /\ ~Reader /\ ~Crash
  BY <1>5, OtherSteps DEF SeenInv, node
<1> QED  BY <1>1, <1>2, <1>3, <1>4, <1>5

(* Before anything crashes. *)
LEMMA NotCrashed == TInv /\ [Next]_vars /\ crashes' = 0 => crashes = 0 /\ ~Crash
<1> SUFFICES ASSUME TInv, [Next]_vars, crashes' = 0 PROVE crashes = 0 /\ ~Crash
  OBVIOUS
<1>1. crashes \in Nat
  BY DEF TInv, LoopTyped
<1>2. ~Crash
  BY <1>1 DEF Crash
<1>3. crashes' = crashes
  <2>1. CASE Node \/ Reader
    BY <2>1, NodeSteps, ReaderSteps DEF Next, vars, counters, TInv, NodeInv
  <2>2. CASE ~Node /\ ~Reader
    BY <1>2, <2>2, OtherSteps
  <2> QED  BY <2>1, <2>2
<1> QED  BY <1>2, <1>3

LEMMA NextOnce == TInv /\ SeenInv /\ OnceInv /\ [Next]_vars => OnceInv'
<1> SUFFICES ASSUME TInv, SeenInv, OnceInv, [Next]_vars, crashes' = 0,
                    NEW t \in pool', NEW i \in DOMAIN queue', queue'[i] = t
             PROVE  /\ t \notin received' /\ ~(reader'.at # "receive" /\ reader'.tx = t)
                    /\ \A j \in DOMAIN queue' : queue'[j] = t => j = i
  BY DEF OnceInv
<1>0. crashes = 0 /\ ~Crash
  BY NotCrashed
<1>1. ASSUME t \in pool, NEW k \in DOMAIN queue, queue[k] = t
      PROVE  /\ t \notin received /\ ~(reader.at # "receive" /\ reader.tx = t)
             /\ \A j \in DOMAIN queue : queue[j] = t => j = k
  BY <1>0, <1>1 DEF OnceInv
<1>2. CASE Node
  <2>1. UNCHANGED <<reader, received>> /\ queue \in Seq(Txs)
    BY <1>2 DEF Node, Enter, Connect, zmq, records, TInv, NodeInv
  <2>2. ASSUME NEW u \in Txs, u \notin entered, pool' \subseteq pool \cup {u},
               queue' = Append(queue, u)
        PROVE  /\ t \notin received /\ ~(reader.at # "receive" /\ reader.tx = t)
               /\ \A j \in DOMAIN queue' : queue'[j] = t => j = i
    <3>1. /\ \A j \in DOMAIN queue' : \/ j \in DOMAIN queue /\ queue'[j] = queue[j]
                                      \/ j = Len(queue) + 1 /\ queue'[j] = u
      BY <2>1, <2>2
    <3>2. CASE t = u
      <4>1. \A j \in DOMAIN queue : queue[j] # t
        BY <2>2, <3>2 DEF SeenInv
      <4>2. \A j \in DOMAIN queue' : queue'[j] = t => j = Len(queue) + 1
        BY <3>1, <4>1
      <4> QED  BY <2>2, <3>2, <4>2 DEF SeenInv
    <3>3. CASE t # u
      <4>1. t \in pool /\ \A j \in DOMAIN queue' : queue'[j] = t => j \in DOMAIN queue /\ queue[j] = t
        BY <2>2, <3>1, <3>3
      <4> QED  BY <1>1, <4>1
    <3> QED  BY <3>2, <3>3
  <2>3. ASSUME NEW S \in SUBSET pool, pool' = pool \ S,
               \A j \in DOMAIN queue' : j \in DOMAIN queue \/ queue'[j] \in S
        PROVE  /\ t \notin received /\ ~(reader.at # "receive" /\ reader.tx = t)
               /\ \A j \in DOMAIN queue' : queue'[j] = t => j = i
    <3>1. t \in pool /\ \A j \in DOMAIN queue' : queue'[j] = t => j \in DOMAIN queue /\ queue[j] = t
      BY <1>2, <2>3, NodeQueue
    <3> QED  BY <1>1, <3>1
  <2> QED  BY <1>2, <2>1, <2>2, <2>3, NodeQueue
<1>3. CASE Receive
  <2>1. pool' = pool /\ received' = received /\ queue \in Seq(Txs)
    BY <1>3 DEF Receive, records, TInv, NodeInv
  <2>2. i \in Nat /\ i >= 1 /\ \A j \in DOMAIN queue' : j \in Nat
    <3>1. queue' \in Seq(Txs)
      BY NextTInv DEF TInv, NodeInv
    <3> QED  BY <3>1
  <2>3. i + 1 \in DOMAIN queue /\ queue[i + 1] = t /\ t \in pool
    BY <1>3, <2>1, Received
  <2>4. /\ t \notin received
        /\ \A j \in DOMAIN queue : queue[j] = t => j = i + 1
    BY <1>1, <2>3
  <2>5. queue[1] # t
    BY <1>3, <2>2, <2>4, Received
  <2>6. ~(reader'.at # "receive" /\ reader'.tx = t)
    BY <1>3, <2>5, Received
  <2>7. \A j \in DOMAIN queue' : queue'[j] = t => j = i
    <3> SUFFICES ASSUME NEW j \in DOMAIN queue', queue'[j] = t PROVE j = i
      OBVIOUS
    <3>1. j + 1 \in DOMAIN queue /\ queue[j + 1] = t
      BY <1>3, Received
    <3>2. j + 1 = i + 1
      BY <2>4, <3>1
    <3> QED  BY <2>2, <3>2
  <2> QED  BY <2>1, <2>4, <2>6, <2>7
<1>4. CASE Reader /\ ~Receive
  <2>1. pool' = pool
    BY <1>4 DEF Reader, Save, SendPins, CheckTransfers, SendMoves, SendLast, node
  <2>2. queue' = queue
    BY <1>4, ReaderMoves
  <2>3. /\ t \notin received /\ ~(reader.at # "receive" /\ reader.tx = t)
        /\ \A j \in DOMAIN queue : queue[j] = t => j = i
    BY <1>1, <2>1, <2>2
  <2> QED  BY <1>4, <2>2, <2>3, ReaderMoves, IdleTyped
<1>5. CASE ~Node /\ ~Reader
  <2>1. UNCHANGED <<node, reader>> /\ received' \subseteq received
    BY <1>0, <1>5, OtherSteps
  <2>2. t \in pool /\ i \in DOMAIN queue /\ queue[i] = t
    BY <2>1 DEF node
  <2> QED  BY <1>1, <2>1, <2>2 DEF node
<1> QED  BY <1>2, <1>3, <1>4, <1>5

----------------------------------------------------------------------------
(* The pins that transactions of the mempool create. *)

(* No worker deletes what is in the node's mempool. *)
LEMMA PoolKept ==
  ASSUME TInv, NEW w \in 0..Back, Run(w), NEW t \in pool
  PROVE  /\ t \in listed => t \in listed'
         /\ \A f \in DOMAIN moves : moves[f] = t => f \in DOMAIN moves' /\ moves'[f] = t
<1>1. ~Free(w) /\ worker[w].h \in 1..Best
  <2>1. ~Free(w)
    BY DEF Run, StoreBlock, DeletePins, DeleteDocs, DeleteReceived, DeleteFails, Free
  <2> QED  BY <2>1 DEF TInv, LoopTyped
<1>2. t \notin blocks[worker[w].h]
  BY <1>1, Lengths DEF TInv, NodeInv
<1>3. CASE DeletePins(w)
  BY <1>2, <1>3 DEF DeletePins
<1>4. CASE ~DeletePins(w)
  BY <1>4 DEF Run, StoreBlock, DeleteDocs, DeleteReceived, DeleteFails, records
<1> QED  BY <1>3, <1>4

(* A transaction that is received is on its way to be stored. *)
LEMMA QueuedNext ==
  ASSUME TInv, OnceInv, crashes = 0, NEW t \in pool, Queued(t), [Next]_vars, ~Crash
  PROVE  Queued(t)' \/ (Receive /\ reader'.at = "save" /\ reader'.tx = t)
<1>1. PICK i \in DOMAIN queue : queue[i] = t
  BY DEF Queued
<1>2. CASE Node
  BY <1>1, <1>2, NodeQueue DEF Queued
<1>3. CASE Receive
  <2>1. CASE i = 1
    <3>1. t \notin received
      BY <1>1 DEF OnceInv
    <3> QED  BY <1>1, <1>3, <2>1, <3>1, Received
  <2>2. CASE i # 1
    BY <1>1, <1>3, <2>2, Received DEF Queued
  <2> QED  BY <2>1, <2>2
<1>4. CASE Reader /\ ~Receive
  <2>1. queue' = queue
    BY <1>4, ReaderMoves
  <2> QED  BY <1>1, <2>1 DEF Queued
<1>5. CASE ~Node /\ ~Reader
  <2>1. queue' = queue
    BY <1>5, OtherSteps DEF node
  <2> QED  BY <1>1, <2>1 DEF Queued
<1> QED  BY <1>2, <1>3, <1>4, <1>5

(* What enters the node's mempool is announced. *)
LEMMA PoolNext ==
  ASSUME TInv, [Next]_vars, ~Crash, NEW t \in pool'
  PROVE  t \in pool \/ (Node /\ Queued(t)')
<1>1. CASE Node
  <2>1. ASSUME NEW u \in Txs, pool' \subseteq pool \cup {u}, queue' = Append(queue, u)
        PROVE  t \in pool \/ Queued(t)'
    <3>1. queue \in Seq(Txs)
      BY DEF TInv, NodeInv
    <3>2. Len(queue) + 1 \in DOMAIN queue' /\ queue'[Len(queue) + 1] = u
      BY <2>1, <3>1
    <3> QED  BY <2>1, <3>2 DEF Queued
  <2>2. ASSUME NEW S \in SUBSET pool, pool' = pool \ S PROVE t \in pool
    BY <2>2
  <2> QED  BY <1>1, <2>1, <2>2, NodeQueue
<1>2. CASE Reader
  BY <1>2, ReaderSteps DEF TInv, NodeInv
<1>3. CASE ~Node /\ ~Reader
  BY <1>3, OtherSteps DEF node
<1> QED  BY <1>1, <1>2, <1>3

LEMMA NextPins == TInv /\ OnceInv /\ PinsInv /\ [Next]_vars => PinsInv'
<1> DEFINE Listed(t) == \/ Queued(t) \/ ReaderAt(t, {"save", "pins"})
                        \/ handler.at = "pin" /\ handler.tx = t
                        \/ t \in listed
<1> SUFFICES ASSUME TInv, OnceInv, PinsInv, [Next]_vars, crashes' = 0,
                    NEW t \in pool', chain.tx[t].pin
             PROVE  Listed(t)'
  BY DEF PinsInv, Next, vars
<1>0. crashes = 0 /\ ~Crash
  BY NotCrashed
<1>1. CASE t \notin pool
  BY <1>0, <1>1, PoolNext
<1>2. CASE t \in pool /\ Queued(t)
  BY <1>0, <1>2, QueuedNext DEF ReaderAt
<1>3. CASE t \in pool /\ ReaderAt(t, {"save", "pins"})
  <2>1. reader.tx = t /\ reader.at \in {"save", "pins"}
    BY <1>3 DEF ReaderAt
  <2>2. CASE Save
    <3>1. reader'.at = "pins" /\ reader'.tx = t
      BY <2>1, <2>2 DEF Save, TInv, ListenerInv
    <3> QED  BY <3>1 DEF ReaderAt
  <2>3. CASE SendPins
    <3>1. handler'.at = "pin" /\ handler'.tx = t
      BY <2>1, <2>3, Sent DEF SendPins
    <3> QED  BY <3>1
  <2>4. CASE Reader /\ ~Save /\ ~SendPins
    BY <2>1, <2>4 DEF Reader, Receive, CheckTransfers, SendMoves, SendLast
  <2>5. CASE ~Reader
    <3>1. reader' = reader
      BY <1>0, <2>5, NodeSteps, OtherSteps DEF Next, vars, zmq
    <3> QED  BY <2>1, <3>1 DEF ReaderAt
  <2> QED  BY <2>2, <2>3, <2>4, <2>5
<1>4. CASE t \in pool /\ handler.at = "pin" /\ handler.tx = t
  <2>1. CASE StorePin
    BY <1>4, <2>1 DEF StorePin
  <2>2. CASE Handler /\ ~StorePin
    BY <1>4, <2>2 DEF Handler, StoreMove, ReadDocs, WriteDocs
  <2>3. CASE Reader
    <3>1. handler' = handler
      BY <1>4, <2>3, Sent DEF Reader, Receive, Save, SendPins, CheckTransfers, SendMoves, SendLast
    <3> QED  BY <1>4, <3>1
  <2>4. CASE ~Reader /\ ~Handler
    <3>1. handler' = handler
      BY <1>0, <2>4, NodeSteps, LoopSteps, RunSteps DEF Next, vars, zmq
    <3> QED  BY <1>4, <3>1
  <2> QED  BY <2>1, <2>2, <2>3, <2>4
<1>5. CASE t \in pool /\ t \in listed
  <2>1. t \in listed'
    <3>1. CASE Handler
      BY <1>5, <3>1 DEF Handler, StorePin, StoreMove, ReadDocs, WriteDocs, records
    <3>2. ASSUME NEW w \in 0..Back, Run(w) PROVE t \in listed'
      BY <1>5, <3>2, PoolKept
    <3>3. CASE Node \/ Reader \/ Loop \/ UNCHANGED vars
      BY <1>5, <3>3, OtherRecords
    <3> QED  BY <1>0, <3>1, <3>2, <3>3 DEF Next
  <2> QED  BY <2>1
<1>6. t \in pool => Listed(t)
  BY <1>0 DEF PinsInv
<1> QED  BY <1>1, <1>2, <1>3, <1>4, <1>5, <1>6

----------------------------------------------------------------------------
(* The pins that independent transactions of the mempool move. *)

(* The transactions of block 1 spend nothing. *)
LEMMA OldOrigins ==
  ASSUME chain \in Chains, NEW o \in Old
  PROVE  Origins(o) = {o}
<1> DEFINE C == Cardinality(Txs)
           Ups(f) == f = [n \in 0..C |->
                            IF n = 0 THEN {o}
                            ELSE f[n - 1] \cup UNION {Ins(u) : u \in f[n - 1]}]
           up == CHOOSE f : Ups(f)
<1>1. C \in Nat
  BY Constants, FS_CardinalityType
<1>2. Ins(o) = {}
  BY Constants DEF Ins
<1>3. {o} \cup UNION {Ins(u) : u \in {o}} = {o}
  BY <1>2
<1> HIDE DEF C
<1>4. Ups([n \in 0..C |-> {o}])
  <2> DEFINE g == [n \in 0..C |-> {o}]
  <2>1. \A n \in 0..C : n # 0 => n - 1 \in 0..C
    BY <1>1
  <2>2. \A n \in 0..C : n # 0 => g[n - 1] = {o}
    BY <2>1
  <2>3. \A n \in 0..C :
          (IF n = 0 THEN {o} ELSE g[n - 1] \cup UNION {Ins(u) : u \in g[n - 1]}) = {o}
    <3> SUFFICES ASSUME NEW n \in 0..C
                 PROVE  (IF n = 0 THEN {o} ELSE g[n - 1] \cup UNION {Ins(u) : u \in g[n - 1]}) = {o}
      OBVIOUS
    <3> HIDE DEF g
    <3>1. CASE n = 0
      BY <3>1
    <3>2. CASE n # 0
      <4>1. g[n - 1] = {o}
        BY <2>2, <3>2
      <4> QED  BY <1>3, <3>2, <4>1
    <3> QED  BY <3>1, <3>2
  <2> QED  BY <2>3
<1>5. Ups(up)
  <2> HIDE DEF Ups
  <2> QED  BY <1>4
<1>6. up[0] = {o} /\ \A n \in 0..C : n # 0 => up[n] = up[n - 1] \cup UNION {Ins(u) : u \in up[n - 1]}
  <2> HIDE DEF up
  <2> QED  BY <1>1, <1>5
<1> DEFINE Bad == {n \in 0..C : up[n] # {o}}
<1>7. Bad = {}
  <2> SUFFICES ASSUME Bad # {} PROVE FALSE
    OBVIOUS
  <2>1. Bad \in SUBSET Nat
    BY <1>1
  <2>2. PICK n \in Bad : \A m \in Bad : n <= m
    <3> HIDE DEF Bad
    <3> QED  BY <2>1, LeastNatural
  <2>3. n \in 0..C /\ up[n] # {o}
    OBVIOUS
  <2> HIDE DEF up
  <2>4. n # 0 /\ n - 1 \in 0..C /\ n - 1 < n
    BY <1>1, <1>6, <2>3
  <2>5. n - 1 \notin Bad
    <3>1. ~(n <= n - 1)
      BY <1>1, <2>3
    <3> HIDE DEF Bad
    <3> QED  BY <2>2, <3>1
  <2>6. up[n - 1] = {o}
    BY <2>4, <2>5
  <2> QED  BY <1>3, <1>6, <2>3, <2>4, <2>6
<1>8. up[C] = {o}
  <2> HIDE DEF up
  <2> QED  BY <1>1, <1>7
<1>9. Origins(o) = up[C]
  BY DEF Origins, C
<1> QED  BY <1>8, <1>9

(* The pins that independent transactions move are those of the outputs they spend. *)
LEMMA FlatCheck ==
  TInv /\ Flat =>
    \A t \in Txs : \A f :
      f \in TransferCheck(t) <=>
        \E o \in Ins(t) \cap Unspent :
          chain.tx[o].pin /\ f = [pin |-> o, from |-> chain.tx[o].to]
<1> SUFFICES ASSUME TInv, Flat, NEW t \in Txs, NEW f
             PROVE  f \in TransferCheck(t) <=>
                      \E o \in Ins(t) \cap Unspent :
                        chain.tx[o].pin /\ f = [pin |-> o, from |-> chain.tx[o].to]
  OBVIOUS
<1>1. \A o \in Ins(t) : Origins(o) = {o}
  <2>1. chain \in Chains /\ Ins(t) \subseteq Old
    BY DEF TInv, Flat
  <2> QED  BY <2>1, OldOrigins
<1> DEFINE Pins(o) ==
             {[pin |-> p, from |-> chain.tx[o].to] : p \in {q \in Origins(o) : chain.tx[q].pin}}
<1>2. \A o \in Ins(t) : f \in Pins(o) <=>
        chain.tx[o].pin /\ f = [pin |-> o, from |-> chain.tx[o].to]
  BY <1>1
<1>3. TransferCheck(t) = UNION {Pins(o) : o \in Ins(t) \cap Unspent}
  BY DEF TransferCheck
<1> HIDE DEF Pins
<1>4. f \in TransferCheck(t) <=> \E o \in Ins(t) \cap Unspent : f \in Pins(o)
  BY <1>3
<1> QED  BY <1>2, <1>4

LEMMA FlatCheckNext ==
  (TInv /\ Flat =>
    \A t \in Txs : \A f :
      f \in TransferCheck(t) <=>
        \E o \in Ins(t) \cap Unspent :
          chain.tx[o].pin /\ f = [pin |-> o, from |-> chain.tx[o].to])'
BY FlatCheck, PTL

(* No step makes an output unspent that a transaction could spend. *)
LEMMA CheckShrinks ==
  ASSUME TInv, Flat, [Next]_vars, NEW t \in Txs, NEW f, f \in TransferCheck(t)'
  PROVE  f \in TransferCheck(t)
<1>1. UNCHANGED chain /\ TInv' /\ Flat'
  BY NextTInv DEF Next, vars, Flat, Ins
<1>2. PICK o \in Ins(t)' \cap Unspent' :
        chain'.tx[o].pin /\ f = [pin |-> o, from |-> chain'.tx[o].to]
  BY <1>1, FlatCheckNext
<1>3. Ins(t)' = Ins(t)
  BY <1>1 DEF Ins
<1>4. o \in Unspent
  <2>1. indexed \subseteq indexed'
    BY NodeSteps, ReaderSteps, HandlerSteps, LoopSteps, RunSteps
       DEF Next, vars, main, Crash, TInv, NodeInv
  <2>2. \A h \in indexed : blocks'[h] = blocks[h]
    <3>1. CASE Node
      BY <3>1, NodeBlocks DEF TInv, LoopTyped
    <3>2. CASE ~Node
      BY <1>1, <3>2, ReaderSteps, HandlerSteps, LoopSteps, RunSteps
         DEF Next, Crash, vars, node, TInv, NodeInv
    <3> QED  BY <3>1, <3>2
  <2>3. InBlocks(indexed) \subseteq InBlocks(indexed)'
    BY <2>1, <2>2 DEF InBlocks
  <2>4. \A u \in InBlocks(indexed) : o \notin Ins(u)
    <3> SUFFICES ASSUME NEW u \in InBlocks(indexed), o \in Ins(u) PROVE FALSE
      OBVIOUS
    <3>1. u \in InBlocks(indexed)' /\ o \in Ins(u)'
      BY <1>1, <2>3 DEF Ins
    <3>2. o \in (UNION {Ins(v) : v \in InBlocks(indexed)})'
      BY <3>1
    <3> QED  BY <1>2, <3>2 DEF Unspent
  <2>5. o \in InBlocks(indexed)
    <3>1. o \in Old
      BY <1>2, <1>3 DEF Flat
    <3>2. 1 \in indexed /\ blocks[1] = Old
      BY DEF TInv, LoopTyped, NodeInv
    <3> QED  BY <3>1, <3>2 DEF InBlocks
  <2> QED  BY <2>4, <2>5 DEF Unspent
<1> QED  BY <1>1, <1>2, <1>3, <1>4, FlatCheck

(* The moves that a step of the listener does not touch are kept. *)
LEMMA MovesKept ==
  ASSUME TInv, [Next]_vars, ~Crash, NEW t \in pool, NEW f \in DOMAIN moves, moves[f] = t
  PROVE  f \in DOMAIN moves' /\ moves'[f] = t
<1>1. CASE Handler
  BY <1>1 DEF Handler, StorePin, StoreMove, ReadDocs, WriteDocs, records
<1>2. ASSUME NEW w \in 0..Back, Run(w) PROVE f \in DOMAIN moves' /\ moves'[f] = t
  BY <1>2, PoolKept
<1>3. CASE Node \/ Reader \/ Loop \/ UNCHANGED vars
  <2>1. moves' = moves
    BY <1>3, OtherRecords
  <2> QED  BY <2>1
<1> QED  BY <1>1, <1>2, <1>3 DEF Next

(* What StoreMove stores. *)
LEMMA Stored ==
  ASSUME TInv, StoreMove
  PROVE  \E f \in handler.found :
           /\ DOMAIN moves' = DOMAIN moves \cup {f}
           /\ \A g \in DOMAIN moves : moves'[g] = moves[g]
           /\ f \notin DOMAIN moves => moves'[f] = handler.tx
           /\ handler'.found = handler.found \ {f} /\ handler'.tx = handler.tx
           /\ handler.found # {f} => handler'.at = "move"
<1>1. PICK f \in handler.found :
        /\ moves' = [g \in DOMAIN moves \cup {f} |->
                       IF g \in DOMAIN moves THEN moves[g] ELSE handler.tx]
        /\ handler' = [handler EXCEPT !.found = @ \ {f},
                                      !.at = IF handler.found = {f} THEN "read" ELSE "move"]
  BY DEF StoreMove
<1>2. DOMAIN handler = {"at", "tx", "found", "chained", "pooled"}
  BY DEF TInv, ListenerInv
<1>3. /\ handler'.found = handler.found \ {f} /\ handler'.tx = handler.tx
      /\ handler.found # {f} => handler'.at = "move"
  BY <1>1, <1>2
<1> QED  BY <1>1, <1>3

(* What a step does to the moves on the way and stored. *)
LEMMA NextOwn ==
  ASSUME TInv, Flat, [Next]_vars,
         reader.at = "moves" => OwnMoves(reader.tx, reader.found),
         handler.at = "move" => OwnMoves(handler.tx, handler.found),
         \A f \in DOMAIN moves : moves[f] \in Txs /\ f.pin \in Ins(moves[f])
  PROVE  /\ (reader.at = "moves" => OwnMoves(reader.tx, reader.found))'
         /\ (handler.at = "move" => OwnMoves(handler.tx, handler.found))'
         /\ (\A f \in DOMAIN moves : moves[f] \in Txs /\ f.pin \in Ins(moves[f]))'
<1>0. \A t : Ins(t)' = Ins(t)
  BY DEF Ins, Next, vars
<1>1. (reader.at = "moves" => OwnMoves(reader.tx, reader.found))'
  <2>1. CASE CheckTransfers
    <3>1. reader.tx \in Txs
      BY <2>1 DEF CheckTransfers, TInv, ListenerInv
    <3>2. OwnMoves(reader.tx, TransferCheck(reader.tx))
      BY <3>1, FlatCheck DEF OwnMoves
    <3>3. reader'.tx = reader.tx /\ reader'.found = TransferCheck(reader.tx)
      <4>1. DOMAIN reader = {"at", "tx", "found"}
        BY DEF TInv, ListenerInv
      <4> QED  BY <2>1, <4>1 DEF CheckTransfers
    <3> QED  BY <1>0, <3>2, <3>3 DEF OwnMoves
  <2>2. CASE Crash \/ (Reader /\ ~CheckTransfers)
    <3>1. reader'.at # "moves" \/ reader' = reader
      BY <2>2, IdleTyped DEF Crash, Reader, Receive, Save, SendPins, SendMoves, SendLast, Reading,
                             TInv, ListenerInv
    <3> QED  BY <1>0, <3>1 DEF OwnMoves
  <2>3. CASE ~Crash /\ ~Reader
    <3>1. reader' = reader
      BY <2>3, NodeSteps, OtherSteps DEF Next, vars, zmq
    <3> QED  BY <1>0, <3>1 DEF OwnMoves
  <2> QED  BY <2>1, <2>2, <2>3
<1>2. (handler.at = "move" => OwnMoves(handler.tx, handler.found))'
  <2>1. CASE SendMoves
    <3>1. reader.at = "moves" /\ handler'.tx = reader.tx /\ handler'.found = reader.found
      BY <2>1, Sent DEF SendMoves
    <3> QED  BY <1>0, <3>1 DEF OwnMoves
  <2>2. CASE Handler
    <3>1. handler'.at = "move" =>
            handler.at = "move" /\ handler'.tx = handler.tx /\ handler'.found \subseteq handler.found
      BY <2>2, HandlerSteps, IdleTyped DEF TInv
    <3> QED  BY <1>0, <3>1 DEF OwnMoves
  <2>3. CASE Crash \/ (Reader /\ ~SendMoves)
    <3>1. handler'.at # "move" \/ handler' = handler
      BY <2>3, IdleTyped, Sent DEF Crash, Reader, Receive, Save, SendPins, CheckTransfers, SendLast
    <3> QED  BY <1>0, <3>1 DEF OwnMoves
  <2>4. CASE ~Crash /\ ~Reader /\ ~Handler
    <3>1. handler' = handler
      BY <2>4, NodeSteps, LoopSteps, RunSteps DEF Next, vars, zmq
    <3> QED  BY <1>0, <3>1 DEF OwnMoves
  <2> QED  BY <2>1, <2>2, <2>3, <2>4
<1>3. (\A f \in DOMAIN moves : moves[f] \in Txs /\ f.pin \in Ins(moves[f]))'
  <2>1. CASE StoreMove
    <3>1. handler.at = "move" /\ handler.tx \in Txs
      BY <2>1 DEF StoreMove, TInv, ListenerInv
    <3>2. \A f \in handler.found : f.pin \in Ins(handler.tx)
      BY <3>1 DEF OwnMoves
    <3> QED  BY <1>0, <2>1, <3>1, <3>2, Stored
  <2>2. CASE Handler /\ ~StoreMove
    <3>1. moves' = moves
      BY <2>2 DEF Handler, StorePin, ReadDocs, WriteDocs, records
    <3> QED  BY <1>0, <3>1
  <2>3. ASSUME NEW w \in 0..Back, Run(w)
        PROVE  (\A f \in DOMAIN moves : moves[f] \in Txs /\ f.pin \in Ins(moves[f]))'
    BY <1>0, <2>3, RunRecords
  <2>4. CASE Node \/ Reader \/ Loop \/ Crash \/ UNCHANGED vars
    <3>1. moves' = moves
      BY <2>4, OtherRecords
    <3> QED  BY <1>0, <3>1
  <2> QED  BY <2>1, <2>2, <2>3, <2>4 DEF Next
<1> QED  BY <1>1, <1>2, <1>3

LEMMA NextMoves == TInv /\ OnceInv /\ MovesInv /\ [Next]_vars => MovesInv'
<1> DEFINE Kept(t, f) == \/ Queued(t) \/ ReaderAt(t, {"save", "pins", "transfers"})
                         \/ ReaderAt(t, {"moves"}) /\ f \in reader.found
                         \/ handler.at = "move" /\ handler.tx = t /\ f \in handler.found
                         \/ f \in DOMAIN moves /\ moves[f] = t
<1> SUFFICES ASSUME TInv, OnceInv, MovesInv, [Next]_vars, crashes' = 0, Flat'
             PROVE  /\ (reader.at = "moves" => OwnMoves(reader.tx, reader.found))'
                    /\ (handler.at = "move" => OwnMoves(handler.tx, handler.found))'
                    /\ (\A f \in DOMAIN moves : moves[f] \in Txs /\ f.pin \in Ins(moves[f]))'
                    /\ \A t \in pool' : \A f \in TransferCheck(t)' : Kept(t, f)'
  BY DEF MovesInv
<1>0. crashes = 0 /\ ~Crash /\ Flat
  BY NotCrashed DEF Flat, Ins, Next, vars
<1>1. /\ reader.at = "moves" => OwnMoves(reader.tx, reader.found)
      /\ handler.at = "move" => OwnMoves(handler.tx, handler.found)
      /\ \A f \in DOMAIN moves : moves[f] \in Txs /\ f.pin \in Ins(moves[f])
      /\ \A t \in pool : \A f \in TransferCheck(t) : Kept(t, f)
  BY <1>0 DEF MovesInv
<1>2. ASSUME NEW t \in pool', NEW f \in TransferCheck(t)' PROVE Kept(t, f)'
  <2>0. t \in Txs
    BY NextTInv DEF TInv, NodeInv
  <2>1. CASE t \notin pool
    BY <1>0, <2>1, PoolNext
  <2>2. CASE t \in pool /\ Queued(t)
    BY <1>0, <2>2, QueuedNext DEF ReaderAt
  <2>3. CASE t \in pool /\ ReaderAt(t, {"save", "pins", "transfers"})
    <3>1. reader.tx = t /\ reader.at \in {"save", "pins", "transfers"}
          /\ DOMAIN reader = {"at", "tx", "found"}
      BY <2>3 DEF ReaderAt, TInv, ListenerInv
    <3>2. CASE Save \/ SendPins
      <4>1. reader'.tx = t /\ reader'.at \in {"pins", "transfers"}
        BY <3>1, <3>2 DEF Save, SendPins
      <4> QED  BY <4>1 DEF ReaderAt
    <3>3. CASE CheckTransfers
      <4>1. f \in TransferCheck(t)
        BY <1>0, <2>0, CheckShrinks
      <4>2. reader'.found = TransferCheck(t) /\ reader'.tx = t /\ reader'.at = "moves"
        BY <3>1, <3>3, <4>1 DEF CheckTransfers
      <4> QED  BY <4>1, <4>2 DEF ReaderAt
    <3>4. CASE Receive \/ SendMoves \/ SendLast
      BY <3>1, <3>4 DEF Receive, SendMoves, SendLast
    <3>5. CASE ~Reader
      <4>1. reader' = reader
        BY <1>0, <3>5, NodeSteps, OtherSteps DEF Next, vars, zmq
      <4> QED  BY <3>1, <4>1 DEF ReaderAt
    <3> QED  BY <3>2, <3>3, <3>4, <3>5 DEF Reader
  <2>4. CASE t \in pool /\ ReaderAt(t, {"moves"}) /\ f \in reader.found
    <3>1. reader.tx = t /\ reader.at = "moves"
      BY <2>4 DEF ReaderAt
    <3>2. CASE SendMoves
      <4>1. handler'.at = "move" /\ handler'.tx = t /\ handler'.found = reader.found
        BY <3>1, <3>2, Sent DEF SendMoves
      <4> QED  BY <2>4, <4>1
    <3>3. CASE Reader /\ ~SendMoves
      BY <3>1, <3>3 DEF Reader, Receive, Save, SendPins, CheckTransfers, SendLast
    <3>4. CASE ~Reader
      <4>1. reader' = reader
        BY <1>0, <3>4, NodeSteps, OtherSteps DEF Next, vars, zmq
      <4> QED  BY <2>4, <3>1, <4>1 DEF ReaderAt
    <3> QED  BY <3>2, <3>3, <3>4
  <2>5. CASE t \in pool /\ handler.at = "move" /\ handler.tx = t /\ f \in handler.found
    <3>1. CASE StoreMove
      <4>1. PICK g \in handler.found :
              /\ DOMAIN moves' = DOMAIN moves \cup {g}
              /\ \A e \in DOMAIN moves : moves'[e] = moves[e]
              /\ g \notin DOMAIN moves => moves'[g] = handler.tx
              /\ handler'.found = handler.found \ {g} /\ handler'.tx = handler.tx
              /\ handler.found # {g} => handler'.at = "move"
        BY <3>1, Stored
      <4>2. CASE f # g
        BY <2>5, <4>1, <4>2
      <4>3. CASE f = g /\ f \in DOMAIN moves
        <5>1. f.pin \in Ins(moves[f]) /\ moves[f] \in Txs /\ f.pin \in Ins(t)
          BY <1>1, <2>5, <4>3 DEF OwnMoves
        <5>2. moves[f] = t
          BY <1>0, <2>0, <5>1 DEF Flat
        <5> QED  BY <4>1, <4>3, <5>2
      <4>4. CASE f = g /\ f \notin DOMAIN moves
        BY <2>5, <4>1, <4>4
      <4> QED  BY <4>2, <4>3, <4>4
    <3>2. CASE Handler /\ ~StoreMove
      BY <2>5, <3>2 DEF Handler, StorePin, ReadDocs, WriteDocs
    <3>3. CASE Reader
      <4>1. handler' = handler
        BY <2>5, <3>3, Sent DEF Reader, Receive, Save, SendPins, CheckTransfers, SendMoves, SendLast
      <4> QED  BY <2>5, <4>1
    <3>4. CASE ~Reader /\ ~Handler
      <4>1. handler' = handler
        BY <1>0, <3>4, NodeSteps, LoopSteps, RunSteps DEF Next, vars, zmq
      <4> QED  BY <2>5, <4>1
    <3> QED  BY <3>1, <3>2, <3>3, <3>4
  <2>6. CASE t \in pool /\ f \in DOMAIN moves /\ moves[f] = t
    BY <1>0, <2>6, MovesKept
  <2>7. t \in pool => Kept(t, f)
    BY <1>0, <1>1, <2>0, CheckShrinks
  <2> QED  BY <2>1, <2>2, <2>3, <2>4, <2>5, <2>6, <2>7
<1> HIDE DEF Kept
<1> QED  BY <1>0, <1>1, <1>2, NextOwn

----------------------------------------------------------------------------
(* What is gone, and what is listed. *)

LEMMA InitIInv == Init => IInv
<1> SUFFICES ASSUME Init PROVE IInv
  OBVIOUS
<1>1. TInv
  BY InitTInv
<1>2. /\ chain \in Chains /\ pool = {} /\ entered = {} /\ blocks = <<Old>> /\ queue = <<>>
      /\ reader = Reading /\ handler = Waiting
      /\ received = {} /\ listed = {} /\ moves = <<>> /\ pending = <<>>
      /\ file = 1 /\ loop = Resting /\ worker = [w \in 0..Back |-> Idle]
  BY DEF Init
<1>3. DocsInv
  BY <1>2 DEF DocsInv, Waiting
<1>4. \A w \in 0..Back : ~worker[w].file
  <2> HIDE DEF Idle
  <2> QED  BY <1>2, IdleTyped
<1>5. ~Cleaning /\ loop.at = "rest" /\ Best = 1
  BY <1>2, <1>4, Constants, IdleTyped DEF Cleaning, Best
<1>6. PositionInv
  BY <1>2, <1>4, <1>5 DEF PositionInv
<1>7. PromptInv
  <2>1. Quiet
    BY <1>2, IdleTyped DEF Quiet
  <2> QED  BY <2>1, QuietWay DEF PromptInv
<1>8. CleanInv
  BY <1>2 DEF CleanInv, GoneIn, UnlistedIn, GoneAll, UnlistedBy
<1>9. SeenInv /\ OnceInv /\ PinsInv /\ MovesInv
  BY <1>2, IdleTyped DEF SeenInv, OnceInv, PinsInv, MovesInv
<1> QED  BY <1>1, <1>3, <1>6, <1>7, <1>8, <1>9 DEF IInv

LEMMA NextIInv == IInv /\ [Next]_vars => IInv'
BY NextTInv, NextDocs, NextPrompt, NextClean, NextSeen, NextOnce, NextPins, NextMoves, NextPosition
   DEF IInv

(* What is gone from every block is gone from all of them. *)
LEMMA GoneFromBlocks ==
  ASSUME NEW hs, \A h \in hs : GoneIn(h)
  PROVE  Gone(InBlocks(hs))
BY DEF GoneIn, GoneAll, UnlistedBy, Gone, InBlocks, Range

LEMMA InvListing == IInv => Listing
<1> SUFFICES ASSUME IInv PROVE Listing
  OBVIOUS
<1>1. TInv
  BY DEF IInv
<1>2. ASSUME chain.prompt, CaughtUp, Quiet
      PROVE  /\ faults = 0 => Gone(Mined)
             /\ chain.steady /\ faults <= 1 => Gone(InBlocks(1..(Best - 1)))
  <2>1. file = Best /\ Best \in Nat /\ DOMAIN blocks = 1..Best
    BY <1>1, <1>2, Lengths DEF CaughtUp
  <2>2. \A h \in 1..Best : Cleaned(h) => GoneIn(h)
    BY <1>2 DEF IInv, CleanInv
  <2>3. ASSUME faults = 0 PROVE Gone(Mined)
    <3>1. \A h \in 1..Best : GoneIn(h)
      BY <2>1, <2>2, <2>3 DEF Cleaned
    <3>2. Mined = InBlocks(1..Best)
      BY <2>1 DEF Mined, InBlocks, Range
    <3> QED  BY <3>1, <3>2, GoneFromBlocks
  <2>4. ASSUME chain.steady, faults <= 1 PROVE Gone(InBlocks(1..(Best - 1)))
    <3>1. \A h \in 1..(Best - 1) : h \in 1..Best /\ h < file
      BY <2>1
    <3>2. \A h \in 1..(Best - 1) : GoneIn(h)
      BY <2>2, <2>4, <3>1 DEF Cleaned
    <3> QED  BY <3>2, GoneFromBlocks
  <2> QED  BY <2>3, <2>4
<1>3. ASSUME crashes = 0, Quiet, NEW t \in pool
      PROVE  /\ chain.tx[t].pin => t \in listed
             /\ Flat => \A f \in TransferCheck(t) : f \in DOMAIN moves /\ moves[f] = t
  <2>1. /\ ~Queued(t) /\ \A stages : ReaderAt(t, stages) => "receive" \in stages
        /\ handler.at \notin {"pin", "move"}
    BY <1>3 DEF Quiet, Queued, ReaderAt
  <2>2. chain.tx[t].pin => t \in listed
    BY <1>3, <2>1 DEF IInv, PinsInv
  <2>3. Flat => \A f \in TransferCheck(t) : f \in DOMAIN moves /\ moves[f] = t
    BY <1>3, <2>1 DEF IInv, MovesInv
  <2> QED  BY <2>2, <2>3
<1> QED  BY <1>2, <1>3 DEF Listing, Deleted, AllListed

(***************************************************************************)
(* However the listener, the main loop, its re-runs, the two cleaners and  *)
(* crashes interleave: when every block is done and the listener has       *)
(* nothing to do, no record of a block's transactions is left, provided    *)
(* that announcements are stored before the loop looks for blocks; and     *)
(* what the node's mempool holds is listed, provided that nothing crashed  *)
(* (man.go, zmq.go, DeleteMempoolData).                                    *)
(***************************************************************************)
THEOREM ListingHolds == Spec => []Listing
<1>1. Spec => []IInv
  BY InitIInv, NextIInv, PTL DEF Spec
<1> QED  BY <1>1, InvListing, PTL

----------------------------------------------------------------------------
(* Amounts. *)

(* The outputs that flow into a transaction are found, one generation at a time. *)
LEMMA Generations ==
  ASSUME NEW t
  PROVE  \E up : /\ Origins(t) = up[Cardinality(Txs)] /\ up[0] = {t}
                 /\ \A n \in 1..Cardinality(Txs) :
                      up[n] = up[n - 1] \cup UNION {Ins(u) : u \in up[n - 1]}
<1> DEFINE C == Cardinality(Txs)
           Step(s) == s \cup UNION {Ins(u) : u \in s}
           Ups(f) == f = [n \in 0..C |-> IF n = 0 THEN {t} ELSE Step(f[n - 1])]
           P(n) == \E f : /\ DOMAIN f = 0..n /\ f[0] = {t} /\ \A m \in 1..n : f[m] = Step(f[m - 1])
           F == {n \in Nat : P(n)}
           up == CHOOSE f : Ups(f)
<1>1. C \in Nat
  BY Constants, FS_CardinalityType
<1> HIDE DEF C, Step
<1>2. 0 \in F
  <2> DEFINE f == [n \in 0..0 |-> {t}]
  <2>1. DOMAIN f = 0..0 /\ f[0] = {t} /\ \A m \in 1..0 : f[m] = Step(f[m - 1])
    OBVIOUS
  <2> QED  BY <2>1
<1>3. ASSUME NEW n \in F PROVE n + 1 \in F
  <2>1. n \in Nat
    OBVIOUS
  <2>2. PICK f : DOMAIN f = 0..n /\ f[0] = {t} /\ \A m \in 1..n : f[m] = Step(f[m - 1])
    OBVIOUS
  <2> DEFINE g == [m \in 0..(n + 1) |-> IF m = n + 1 THEN Step(f[n]) ELSE f[m]]
  <2>3. g[0] = {t}
    BY <2>1, <2>2
  <2>4. ASSUME NEW m \in 1..(n + 1) PROVE g[m] = Step(g[m - 1])
    <3>1. m - 1 \in 0..(n + 1) /\ m - 1 # n + 1 /\ m \in 0..(n + 1)
      BY <2>1
    <3>2. g[m - 1] = f[m - 1]
      BY <3>1
    <3>3. CASE m = n + 1
      <4>1. m - 1 = n /\ g[m] = Step(f[n])
        BY <2>1, <3>1, <3>3
      <4> QED  BY <3>2, <4>1
    <3>4. CASE m # n + 1
      <4>1. m \in 1..n /\ g[m] = f[m]
        BY <2>1, <3>1, <3>4
      <4> QED  BY <2>2, <3>2, <4>1
    <3> QED  BY <3>3, <3>4
  <2>5. DOMAIN g = 0..(n + 1)
    OBVIOUS
  <2> HIDE DEF g
  <2>6. P(n + 1)
    BY <2>3, <2>4, <2>5
  <2> QED  BY <2>1, <2>6
<1>4. F = Nat
  <2>1. F \in SUBSET Nat
    OBVIOUS
  <2> HIDE DEF F
  <2> QED  BY <1>2, <1>3, <2>1, NaturalsClosed
<1>5. P(C)
  BY <1>1, <1>4
<1>6. \E f : Ups(f)
  <2>1. PICK f : DOMAIN f = 0..C /\ f[0] = {t} /\ \A m \in 1..C : f[m] = Step(f[m - 1])
    BY <1>5
  <2> DEFINE g == [n \in 0..C |-> f[n]]
  <2>2. \A n \in 0..C : g[n] = IF n = 0 THEN {t} ELSE Step(g[n - 1])
    <3> SUFFICES ASSUME NEW n \in 0..C PROVE g[n] = IF n = 0 THEN {t} ELSE Step(g[n - 1])
      OBVIOUS
    <3>1. CASE n = 0
      BY <2>1, <3>1
    <3>2. CASE n # 0
      <4>1. n \in 1..C /\ n - 1 \in 0..C
        BY <1>1, <3>2
      <4>2. g[n - 1] = f[n - 1] /\ g[n] = f[n] /\ f[n] = Step(f[n - 1])
        BY <2>1, <4>1
      <4> QED  BY <3>2, <4>2
    <3> QED  BY <3>1, <3>2
  <2>3. Ups(g)
    BY <2>2
  <2> QED  BY <2>3
<1>7. Ups(up)
  <2> HIDE DEF Ups
  <2> QED  BY <1>6
<1> HIDE DEF up
<1>8. up[0] = {t} /\ \A n \in 1..C : up[n] = Step(up[n - 1])
  <2>1. 0 \in 0..C /\ \A n \in 1..C : n \in 0..C /\ n # 0
    BY <1>1
  <2> QED  BY <1>7, <2>1
<1>9. Origins(t) = up[C]
  BY DEF Origins, C, up, Step
<1> QED  BY <1>8, <1>9 DEF C, Step

LEMMA OriginsInTxs ==
  ASSUME chain \in Chains, NEW t \in Txs
  PROVE  Origins(t) \subseteq Txs
<1> DEFINE C == Cardinality(Txs)
<1>1. PICK up : /\ Origins(t) = up[C] /\ up[0] = {t}
                /\ \A n \in 1..C : up[n] = up[n - 1] \cup UNION {Ins(u) : u \in up[n - 1]}
  BY Generations
<1>2. C \in Nat
  BY Constants, FS_CardinalityType
<1> HIDE DEF C
<1> DEFINE F == {n \in Nat : n <= C => up[n] \subseteq Txs}
<1>3. 0 \in F
  BY <1>1
<1>4. ASSUME NEW n \in F PROVE n + 1 \in F
  <2>1. n \in Nat /\ (n <= C => up[n] \subseteq Txs)
    OBVIOUS
  <2>2. ASSUME n + 1 <= C PROVE up[n + 1] \subseteq Txs
    <3>1. n + 1 \in 1..C /\ n + 1 - 1 = n /\ n <= C
      BY <1>2, <2>1, <2>2
    <3>2. up[n + 1] = up[n] \cup UNION {Ins(u) : u \in up[n]}
      BY <1>1, <3>1
    <3>3. \A u \in up[n] : Ins(u) \subseteq Txs
      BY <2>1, <3>1, Constants DEF Ins
    <3> QED  BY <2>1, <3>1, <3>2, <3>3
  <2> QED  BY <2>1, <2>2
<1>5. F = Nat
  <2>1. F \in SUBSET Nat
    OBVIOUS
  <2> HIDE DEF F
  <2> QED  BY <1>3, <1>4, <2>1, NaturalsClosed
<1> QED  BY <1>1, <1>2, <1>5

(* Of independent transactions only what is spent directly flows into one. *)
LEMMA FlatOrigins ==
  ASSUME chain \in Chains, Flat, NEW t \in Txs
  PROVE  Origins(t) = {t} \cup Ins(t)
<1> DEFINE C == Cardinality(Txs)
           full == {t} \cup Ins(t)
<1>1. PICK up : /\ Origins(t) = up[C] /\ up[0] = {t}
                /\ \A n \in 1..C : up[n] = up[n - 1] \cup UNION {Ins(u) : u \in up[n - 1]}
  BY Generations
<1>2. C \in Nat /\ C >= 1
  <2>1. C \in Nat
    BY Constants, FS_CardinalityType
  <2>2. C # 0
    BY Constants, FS_EmptySet
  <2> QED  BY <2>1, <2>2
<1> HIDE DEF C
<1>3. \A u \in Ins(t) : Ins(u) = {}
  BY Constants DEF Flat, Ins
<1>4. full \cup UNION {Ins(u) : u \in full} = full
  BY <1>3
<1>5. {t} \cup UNION {Ins(u) : u \in {t}} = full
  OBVIOUS
<1> HIDE DEF full
<1> DEFINE F == {n \in Nat : n + 1 <= C => up[n + 1] = full}
<1>6. 0 \in F
  <2>1. 1 \in 1..C /\ 1 - 1 = 0 /\ 0 + 1 = 1
    BY <1>2
  <2>2. up[1] = full
    BY <1>1, <1>5, <2>1
  <2> QED  BY <2>2
<1>7. ASSUME NEW n \in F PROVE n + 1 \in F
  <2>1. n \in Nat /\ (n + 1 <= C => up[n + 1] = full)
    OBVIOUS
  <2>2. ASSUME n + 1 + 1 <= C PROVE up[n + 1 + 1] = full
    <3>1. n + 1 + 1 \in 1..C /\ n + 1 + 1 - 1 = n + 1 /\ n + 1 <= C
      BY <1>2, <2>1, <2>2
    <3>2. up[n + 1 + 1] = up[n + 1] \cup UNION {Ins(u) : u \in up[n + 1]}
      BY <1>1, <3>1
    <3> QED  BY <1>4, <2>1, <3>1, <3>2
  <2> QED  BY <2>1, <2>2
<1>8. F = Nat
  <2>1. F \in SUBSET Nat
    OBVIOUS
  <2> HIDE DEF F
  <2> QED  BY <1>6, <1>7, <2>1, NaturalsClosed
<1>9. C - 1 \in Nat /\ C - 1 + 1 = C
  BY <1>2
<1>10. up[C] = full
  <2>1. C - 1 \in F
    BY <1>8, <1>9
  <2>2. C - 1 + 1 <= C => up[C - 1 + 1] = full
    BY <2>1
  <2> QED  BY <1>2, <1>9, <2>2
<1> QED  BY <1>1, <1>10 DEF full

(* What each output holds. *)
TokensOf == [o \in Txs |-> Tokens(o)]

LEMMA TokensTyped == \A o : Tokens(o) \in Nat
<1> TAKE o
<1>1. IsFiniteSet(Origins(o) \cap Old)
  BY Constants, FS_Subset
<1> QED  BY <1>1, FS_CardinalityType DEF Tokens

LEMMA WorthFacts ==
  ASSUME NEW S \in SUBSET Txs
  PROVE  /\ Summable(TokensOf, S) /\ Worth(S) = SumFunctionOnSet(TokensOf, S) /\ Worth(S) \in Nat
<1> DEFINE f == [o \in S |-> Tokens(o)]
<1>1. IsFiniteSet(S)
  BY Constants, FS_Subset
<1>2. \A o \in S : TokensOf[o] \in Nat /\ f[o] = TokensOf[o]
  BY TokensTyped DEF TokensOf
<1>3. Summable(TokensOf, S)
  BY <1>1, <1>2 DEF Summable
<1>4. Worth(S) = SumFunctionOnSet(f, S)
  <2>1. DOMAIN f = S
    OBVIOUS
  <2> QED  BY <2>1, Zenon DEF Worth, SumFunction
<1>5. SumFunctionOnSet(f, S) = SumFunctionOnSet(TokensOf, S)
  <2> HIDE DEF f
  <2> QED  BY <1>2, <1>3, SumEqual
<1>6. SumFunctionOnSet(TokensOf, S) \in Nat
  BY <1>3, SumType
<1> QED  BY <1>3, <1>4, <1>5, <1>6

(* An output of block 1 holds one token, a transaction those it spends. *)
LEMMA TokensHeld ==
  ASSUME chain \in Chains
  PROVE  /\ \A o \in Old : Tokens(o) = 1
         /\ Flat => \A t \in Txs \ Old : Tokens(t) = Cardinality(Ins(t))
<1>1. ASSUME NEW o \in Old PROVE Tokens(o) = 1
  <2>1. Origins(o) \cap Old = {o}
    BY OldOrigins
  <2> QED  BY <2>1, FS_Singleton DEF Tokens
<1>2. ASSUME Flat, NEW t \in Txs \ Old PROVE Tokens(t) = Cardinality(Ins(t))
  <2>1. Origins(t) \cap Old = Ins(t)
    BY <1>2, FlatOrigins DEF Flat
  <2> QED  BY <2>1 DEF Tokens
<1> QED  BY <1>1, <1>2

(* A transaction credits what it holds. *)
LEMMA WorthOfInputs ==
  ASSUME chain \in Chains, Flat, NEW t \in Txs \ Old
  PROVE  Worth(Ins(t)) = Tokens(t)
<1>1. Ins(t) \in SUBSET Txs /\ Ins(t) \subseteq Old
  BY Constants DEF Flat
<1>2. IsFiniteSet(Ins(t)) /\ \A o \in Ins(t) : TokensOf[o] = 1
  BY <1>1, Constants, FS_Subset, TokensHeld DEF TokensOf
<1>3. SumFunctionOnSet(TokensOf, Ins(t)) = Cardinality(Ins(t))
  BY <1>2, SumOfOnes
<1> QED  BY <1>1, <1>3, WorthFacts, TokensHeld

----------------------------------------------------------------------------
(* What a step does to the goroutines and to the documents. *)

(* What ReadDocs finds for the handler's transaction. *)
ChainedAt(t) == {o \in Ins(t) \cap Unspent : Tokens(o) > 0}

DocsRead ==
  LET t == handler.tx IN
  /\ handler.at = "read" /\ handler'.at = "write" /\ handler'.tx = t
  /\ handler'.chained = ChainedAt(t) /\ handler'.pooled = PendingAt(Ins(t))

(* ReadDocs leaves the handler done only if there is nothing to write, or it is written. *)
LEMMA ReadDocsReads ==
  ASSUME TInv, ReadDocs
  PROVE  /\ handler' = Waiting \/ DocsRead
         /\ handler' = Waiting =>
              \/ Processed(handler.tx)
              \/ ChainedAt(handler.tx) \cup DOMAIN PendingAt(Ins(handler.tx)) = {}
<1> DEFINE t == handler.tx
           new == [handler EXCEPT !.at = "write", !.chained = ChainedAt(t), !.pooled = PendingAt(Ins(t))]
<1>1. handler.at = "read"
      /\ handler' = IF Processed(t) \/ ChainedAt(t) \cup DOMAIN PendingAt(Ins(t)) = {}
                    THEN Waiting ELSE new
  BY DEF ReadDocs, ChainedAt
<1>2. new.at = "write" /\ new.tx = t /\ new.chained = ChainedAt(t) /\ new.pooled = PendingAt(Ins(t))
  BY DEF TInv, ListenerInv
<1>3. new # Waiting
  BY <1>2, IdleTyped
<1> HIDE DEF new
<1> QED  BY <1>1, <1>2, <1>3 DEF DocsRead

(* The handler goes on with what it has, is given a message, reads documents or is done. *)
LEMMA HandlerNext ==
  ASSUME TInv, [Next]_vars
  PROVE  /\ \/ handler' = handler
            \/ handler'.at \in {"idle", "pin", "read"}
            \/ SendMoves /\ handler'.at = "move" /\ handler'.found = reader.found
            \/ handler.at = "move" /\ handler'.at = "move" /\ handler'.found \subseteq handler.found
            \/ ReadDocs /\ DocsRead
         /\ handler'.at # "idle" =>
              \/ handler.at # "idle" /\ handler'.tx = handler.tx
              \/ reader.at # "receive" /\ handler'.tx = reader.tx
<1>1. CASE Handler
  <2>1. CASE StorePin
    <3>1. handler'.at = "read" /\ handler'.tx = handler.tx /\ handler.at = "pin"
      BY <2>1 DEF StorePin, TInv, ListenerInv
    <3> QED  BY <3>1
  <2>2. CASE StoreMove
    <3>1. handler.at = "move" /\ handler'.at \in {"move", "read"}
      BY <2>2 DEF StoreMove, TInv, ListenerInv
    <3> QED  BY <1>1, <3>1, HandlerSteps, IdleTyped DEF TInv
  <2>3. CASE ReadDocs
    <3>1. handler.at = "read" /\ (handler' = Waiting \/ DocsRead)
      BY <2>3, ReadDocsReads DEF ReadDocs
    <3>2. DocsRead => handler'.tx = handler.tx
      BY DEF DocsRead
    <3> QED  BY <2>3, <3>1, <3>2, IdleTyped
  <2>4. CASE WriteDocs
    BY <2>4, IdleTyped DEF WriteDocs
  <2> QED  BY <1>1, <2>1, <2>2, <2>3, <2>4 DEF Handler
<1>2. CASE Reader
  <2>1. CASE SendPins
    <3>1. reader.at = "pins" /\ handler'.at = "pin" /\ handler'.tx = reader.tx
      BY <2>1, Sent DEF SendPins
    <3> QED  BY <3>1
  <2>2. CASE SendMoves
    <3>1. reader.at = "moves" /\ handler'.at = "move" /\ handler'.tx = reader.tx
          /\ handler'.found = reader.found
      BY <2>2, Sent DEF SendMoves
    <3> QED  BY <2>2, <3>1
  <2>3. CASE SendLast
    <3>1. reader.at = "last" /\ handler'.at = "read" /\ handler'.tx = reader.tx
      BY <2>3, Sent DEF SendLast
    <3> QED  BY <3>1
  <2>4. CASE Receive \/ Save \/ CheckTransfers
    BY <2>4 DEF Receive, Save, CheckTransfers
  <2> QED  BY <1>2, <2>1, <2>2, <2>3, <2>4 DEF Reader
<1>3. CASE Crash
  BY <1>3, IdleTyped DEF Crash
<1>4. CASE ~Reader /\ ~Handler /\ ~Crash
  BY <1>4, NodeSteps, LoopSteps, RunSteps DEF Next, vars, zmq
<1> QED  BY <1>1, <1>2, <1>3, <1>4

(* The reader has looked for pins that move, or goes on without any. *)
LEMMA ReaderNext ==
  ASSUME TInv, [Next]_vars
  PROVE  \/ reader' = reader
         \/ reader'.at # "moves"
         \/ CheckTransfers /\ reader'.tx = reader.tx /\ reader'.found = TransferCheck(reader.tx)
<1>1. CASE CheckTransfers
  <2>1. DOMAIN reader = {"at", "tx", "found"}
    BY DEF TInv, ListenerInv
  <2> QED  BY <1>1, <2>1 DEF CheckTransfers
<1>2. CASE Crash \/ (Reader /\ ~CheckTransfers)
  BY <1>2, IdleTyped DEF Crash, Reader, Receive, Save, SendPins, SendMoves, SendLast, Reading,
                         TInv, ListenerInv
<1>3. CASE ~Crash /\ ~Reader
  BY <1>3, NodeSteps, OtherSteps DEF Next, vars, zmq
<1> QED  BY <1>1, <1>2, <1>3

(* The handler writes documents, a worker deletes those of its block. *)
LEMMA PendingNext ==
  ASSUME [Next]_vars
  PROVE  pending' = pending \/ WriteDocs \/ \E w \in 0..Back : DeleteDocs(w)
<1>1. CASE Handler
  BY <1>1 DEF Handler, StorePin, StoreMove, ReadDocs, records
<1>2. ASSUME NEW w \in 0..Back, Run(w) PROVE pending' = pending \/ DeleteDocs(w)
  BY <1>2 DEF Run, StoreBlock, DeletePins, DeleteReceived, DeleteFails, records
<1>3. CASE Node \/ Reader \/ Loop \/ Crash \/ UNCHANGED vars
  BY <1>3, OtherRecords
<1> QED  BY <1>1, <1>2, <1>3 DEF Next

LEMMA Deletes ==
  ASSUME TInv, NEW w \in 0..Back, DeleteDocs(w)
  PROVE  /\ \A o : o \in DOMAIN pending' <=>
                     o \in DOMAIN pending /\ pending[o].optx \notin blocks[worker[w].h]
         /\ \A o \in DOMAIN pending' : pending'[o] = pending[o]
         /\ blocks[worker[w].h] \subseteq Mined
<1>1. ~Free(w)
  BY DEF DeleteDocs, Free
<1>2. worker[w].h \in 1..Best
  BY <1>1 DEF TInv, LoopTyped
<1> QED  BY <1>2, Lengths DEF DeleteDocs

----------------------------------------------------------------------------
(* The types of what is stored. *)

Doc == [amt: Nat, live: BOOLEAN, mined: BOOLEAN, optx: Txs]

FoundTyped ==
  /\ reader.at = "moves" => reader.found \subseteq Found
  /\ handler.at = "move" => handler.found \subseteq Found

MovesTyped == moves \in [DOMAIN moves -> Txs] /\ DOMAIN moves \subseteq Found

DocsOf(docs) == docs \in [DOMAIN docs -> Doc] /\ DOMAIN docs \subseteq Txs

DocsTyped ==
  /\ DocsOf(pending)
  /\ handler.at = "write" => handler.chained \subseteq Txs /\ DocsOf(handler.pooled)

RecordsInv == listed \subseteq Txs /\ FoundTyped /\ MovesTyped /\ DocsTyped

LEMMA CheckTyped ==
  ASSUME chain \in Chains, NEW t \in Txs
  PROVE  TransferCheck(t) \subseteq Found
<1> SUFFICES ASSUME NEW f \in TransferCheck(t) PROVE f \in Found
  OBVIOUS
<1> DEFINE Pins(o) ==
             {[pin |-> p, from |-> chain.tx[o].to] : p \in {q \in Origins(o) : chain.tx[q].pin}}
<1>1. TransferCheck(t) = UNION {Pins(o) : o \in Ins(t) \cap Unspent}
  BY DEF TransferCheck
<1>2. PICK o \in Ins(t) : f \in Pins(o)
  <2> HIDE DEF Pins
  <2> QED  BY <1>1
<1>3. o \in Txs /\ chain \in Chain
  BY Constants, ConstantsAssumption DEF Ins
<1>4. PICK p \in Origins(o) : f = [pin |-> p, from |-> chain.tx[o].to]
  BY <1>2
<1>5. p \in Txs
  BY <1>3, <1>4, OriginsInTxs
<1>6. chain.tx[o].to \in Addresses
  BY <1>3 DEF Chain, Tx
<1> QED  BY <1>4, <1>5, <1>6 DEF Found

LEMMA NextListed == TInv /\ listed \subseteq Txs /\ [Next]_vars => listed' \subseteq Txs
<1> SUFFICES ASSUME TInv, listed \subseteq Txs, [Next]_vars PROVE listed' \subseteq Txs
  OBVIOUS
<1>1. CASE Handler
  <2>1. handler.tx \in Txs
    BY <1>1, HandlerSteps DEF TInv
  <2> QED  BY <1>1, <2>1 DEF Handler, StorePin, StoreMove, ReadDocs, WriteDocs, records
<1>2. ASSUME NEW w \in 0..Back, Run(w) PROVE listed' \subseteq Txs
  BY <1>2, RunRecords
<1>3. CASE Node \/ Reader \/ Loop \/ Crash \/ UNCHANGED vars
  BY <1>3, OtherRecords
<1> QED  BY <1>1, <1>2, <1>3 DEF Next

LEMMA NextFound == TInv /\ FoundTyped /\ [Next]_vars => FoundTyped'
<1> SUFFICES ASSUME TInv, FoundTyped, [Next]_vars PROVE FoundTyped'
  OBVIOUS
<1>1. reader'.at = "moves" => reader'.found \subseteq Found
  <2>1. CASE CheckTransfers
    <3>1. reader.tx \in Txs /\ chain \in Chains
      BY <2>1 DEF CheckTransfers, TInv, ListenerInv
    <3>2. TransferCheck(reader.tx) \subseteq Found
      BY <3>1, CheckTyped
    <3> QED  BY <2>1, <3>2, ReaderNext DEF FoundTyped
  <2> QED  BY <2>1, ReaderNext DEF FoundTyped
<1>2. handler'.at = "move" => handler'.found \subseteq Found
  <2>1. SendMoves => reader.at = "moves"
    BY DEF SendMoves
  <2>2. DocsRead => handler'.at = "write"
    BY DEF DocsRead
  <2> QED  BY <2>1, <2>2, HandlerNext DEF FoundTyped
<1> QED  BY <1>1, <1>2 DEF FoundTyped

LEMMA NextMovesTyped == TInv /\ FoundTyped /\ MovesTyped /\ [Next]_vars => MovesTyped'
<1> SUFFICES ASSUME TInv, FoundTyped, MovesTyped, [Next]_vars PROVE MovesTyped'
  OBVIOUS
<1>1. CASE StoreMove
  <2>1. PICK f \in handler.found :
          moves' = [g \in DOMAIN moves \cup {f} |->
                      IF g \in DOMAIN moves THEN moves[g] ELSE handler.tx]
    BY <1>1 DEF StoreMove
  <2>2. handler.tx \in Txs /\ f \in Found
    BY <1>1 DEF StoreMove, TInv, ListenerInv, FoundTyped
  <2> QED  BY <2>1, <2>2 DEF MovesTyped
<1>2. ASSUME NEW w \in 0..Back, DeletePins(w) PROVE MovesTyped'
  BY <1>2 DEF DeletePins, MovesTyped
<1>3. CASE ~StoreMove /\ ~ \E w \in 0..Back : DeletePins(w)
  <2>1. moves' = moves
    <3>1. CASE Handler
      BY <1>3, <3>1 DEF Handler, StorePin, ReadDocs, WriteDocs, records
    <3>2. ASSUME NEW w \in 0..Back, Run(w) PROVE moves' = moves
      BY <1>3, <3>2 DEF Run, StoreBlock, DeleteDocs, DeleteReceived, DeleteFails, records
    <3>3. CASE Node \/ Reader \/ Loop \/ Crash \/ UNCHANGED vars
      BY <3>3, OtherRecords
    <3> QED  BY <3>1, <3>2, <3>3 DEF Next
  <2> QED  BY <2>1 DEF MovesTyped
<1> QED  BY <1>1, <1>2, <1>3

(* The amounts that WriteDocs adds up are those of documents. *)
LEMMA AmountsTyped ==
  ASSUME NEW docs, DocsOf(docs)
  PROVE  SumFunction([o \in DOMAIN docs |-> docs[o].amt]) \in Nat
<1> DEFINE f == [o \in DOMAIN docs |-> docs[o].amt]
<1>1. IsFiniteSet(DOMAIN docs) /\ \A o \in DOMAIN docs : f[o] \in Nat
  BY Constants, FS_Subset DEF DocsOf, Doc
<1>2. DOMAIN f = DOMAIN docs
  OBVIOUS
<1> HIDE DEF f
<1>3. SumFunctionOnSet(f, DOMAIN docs) \in Nat
  BY <1>1, SumType DEF Summable
<1>4. SumFunction(f) = SumFunctionOnSet(f, DOMAIN docs)
  BY <1>2, Zenon DEF SumFunction
<1> QED  BY <1>3, <1>4 DEF f

LEMMA CopiesTyped ==
  ASSUME NEW t \in Txs
  PROVE  /\ \A doc \in Doc : SpentCopy(doc, t) \in Doc
         /\ \A o \in Txs : ChainDoc(o) \in Doc
BY TokensTyped DEF Doc, SpentCopy, ChainDoc

LEMMA NextDocsTyped == TInv /\ DocsTyped /\ [Next]_vars => DocsTyped'
<1> SUFFICES ASSUME TInv, DocsTyped, [Next]_vars PROVE DocsTyped'
  OBVIOUS
<1>1. DocsOf(pending')
  <2>1. CASE WriteDocs
    <3> DEFINE t == handler.tx
               pooled == handler.pooled
               amount == Worth(handler.chained)
                           + SumFunction([u \in DOMAIN pooled |-> pooled[u].amt])
               new == [amt |-> amount, live |-> TRUE, mined |-> FALSE, optx |-> t]
    <3>1. pending' = [u \in DOMAIN pending \cup DOMAIN pooled \cup handler.chained \cup {t} |->
                       IF u = t THEN new
                       ELSE IF u \in DOMAIN pooled THEN SpentCopy(pooled[u], t)
                       ELSE IF u \in handler.chained THEN SpentCopy(ChainDoc(u), t)
                       ELSE pending[u]]
      BY <2>1 DEF WriteDocs
    <3>2. t \in Txs /\ handler.chained \subseteq Txs /\ DocsOf(pooled) /\ DocsOf(pending)
      BY <2>1 DEF WriteDocs, TInv, ListenerInv, DocsTyped
    <3>3. amount \in Nat
      BY <3>2, AmountsTyped, WorthFacts
    <3> HIDE DEF amount, pooled, t
    <3>4. new \in Doc
      BY <3>2, <3>3 DEF Doc
    <3> HIDE DEF new
    <3>5. \A u \in DOMAIN pooled : SpentCopy(pooled[u], t) \in Doc
      BY <3>2, CopiesTyped DEF DocsOf
    <3>6. \A u \in handler.chained : SpentCopy(ChainDoc(u), t) \in Doc
      BY <3>2, CopiesTyped
    <3> QED  BY <3>1, <3>2, <3>4, <3>5, <3>6 DEF DocsOf
  <2>2. ASSUME NEW w \in 0..Back, DeleteDocs(w) PROVE DocsOf(pending')
    BY <2>2, Zenon DEF DeleteDocs, DocsTyped, DocsOf
  <2>3. CASE pending' = pending
    BY <2>3 DEF DocsTyped
  <2> QED  BY <2>1, <2>2, <2>3, PendingNext
<1>2. ASSUME handler'.at = "write" PROVE handler'.chained \subseteq Txs /\ DocsOf(handler'.pooled)
  <2>1. CASE handler' = handler
    BY <1>2, <2>1 DEF DocsTyped
  <2>2. CASE DocsRead
    <3>1. handler.tx \in Txs /\ Ins(handler.tx) \in SUBSET Txs
      BY <2>2, Constants DEF DocsRead, TInv, ListenerInv, Ins
    <3>2. DocsOf(PendingAt(Ins(handler.tx)))
      BY <3>1 DEF PendingAt, DocsTyped, DocsOf
    <3> QED  BY <2>2, <3>1, <3>2 DEF DocsRead, ChainedAt
  <2> QED  BY <1>2, <2>1, <2>2, HandlerNext
<1> QED  BY <1>1, <1>2 DEF DocsTyped

LEMMA NextRecords == TInv /\ RecordsInv /\ [Next]_vars => RecordsInv'
BY NextListed, NextFound, NextMovesTyped, NextDocsTyped DEF RecordsInv

LEMMA InitRecords == Init => RecordsInv
<1> SUFFICES ASSUME Init PROVE RecordsInv
  OBVIOUS
<1>1. listed = {} /\ moves = <<>> /\ pending = <<>> /\ reader = Reading /\ handler = Waiting
  BY DEF Init
<1>2. MovesTyped /\ DocsOf(pending)
  BY <1>1 DEF MovesTyped, DocsOf
<1> QED  BY <1>1, <1>2, IdleTyped DEF RecordsInv, FoundTyped, DocsTyped

LEMMA InvTypeOK == IInv /\ RecordsInv => TypeOK
<1> SUFFICES ASSUME IInv, RecordsInv PROVE TypeOK
  OBVIOUS
<1>1. chain \in Chain
  BY ConstantsAssumption DEF IInv, TInv
<1>2. received \subseteq Txs
  BY DEF IInv, TInv, NodeInv, SeenInv
<1> QED  BY <1>1, <1>2 DEF TypeOK, IInv, TInv, NodeInv, ListenerInv, LoopTyped, Stages, RecordsInv,
                           MovesTyped, Found, DocsTyped, DocsOf, Doc

----------------------------------------------------------------------------
(* The documents of independent transactions. *)

Credit(t) == [amt |-> Worth(Ins(t)), live |-> TRUE, mined |-> FALSE, optx |-> t]

(* Nothing is replaced; the handler has what was in the node's mempool. *)
EnteredInv ==
  /\ entered \cap Old = {}
  /\ handler.at # "idle" => handler.tx \in entered
  /\ Flat => entered \subseteq pool \cup Mined

(* A document of a transaction stands with the copies of all that it spends. *)
CopiesInv ==
  Flat =>
    /\ \A t \in DOMAIN pending \ Old :
         t \in entered /\ pending[t] = Credit(t) /\ Ins(t) \subseteq DOMAIN pending
    /\ \A o \in DOMAIN pending \cap Old :
         \E t \in DOMAIN pending \ Old : o \in Ins(t) /\ pending[o] = SpentCopy(ChainDoc(o), t)
    /\ handler.at = "write" =>
         handler.chained = Ins(handler.tx) /\ DOMAIN handler.pooled = {}

(* What the node's mempool holds is on its way until it has a document. *)
WayInv == Flat /\ crashes = 0 => \A t \in pool : OnWay(t) \/ t \in DOMAIN pending

LEMMA OldMined == TInv => Old \subseteq Mined
BY Lengths DEF TInv, NodeInv

LEMMA MinedGrows ==
  ASSUME TInv, [Next]_vars
  PROVE  /\ Mined \subseteq Mined' /\ entered \subseteq entered' /\ Old \subseteq Mined
         /\ ~Node => UNCHANGED <<blocks, entered, pool>>
<1>1. CASE Node
  <2>1. entered \subseteq entered'
    BY <1>1, NodeQueue
  <2>2. \A h \in DOMAIN blocks : h \in DOMAIN blocks' /\ blocks'[h] = blocks[h]
    <3>1. TInv'
      BY NextTInv
    <3>2. DOMAIN blocks = 1..Best /\ DOMAIN blocks' = 1..Best'
      BY <3>1, Lengths DEF Best, TInv, NodeInv
    <3>3. Best \in Nat /\ Best' \in Nat
      BY <3>1, Lengths DEF Best, TInv, NodeInv
    <3> QED  BY <1>1, <3>2, <3>3, NodeBlocks
  <2>3. Mined \subseteq Mined'
    BY <2>2 DEF Mined, Range
  <2> QED  BY <1>1, <2>1, <2>3, OldMined
<1>2. CASE ~Node
  <2>1. UNCHANGED <<blocks, entered, pool>>
    BY <1>2, ReaderSteps, HandlerSteps, LoopSteps, RunSteps
       DEF Next, Crash, vars, node, TInv, NodeInv
  <2> QED  BY <1>2, <2>1, OldMined DEF Mined
<1> QED  BY <1>1, <1>2

LEMMA NextEntered == TInv /\ SeenInv /\ EnteredInv /\ [Next]_vars => EnteredInv'
<1> SUFFICES ASSUME TInv, SeenInv, EnteredInv, [Next]_vars PROVE EnteredInv'
  OBVIOUS
<1>0. Flat' <=> Flat
  BY DEF Flat, Ins, Next, vars
<1>1. handler'.at # "idle" => handler'.tx \in entered'
  BY HandlerNext, MinedGrows DEF EnteredInv, SeenInv
<1>2. ASSUME NEW t \in Txs, Enter(t)
      PROVE  entered' \cap Old = {} /\ (Flat => entered' \subseteq pool' \cup Mined')
  <2>1. t \notin entered \cup Mined /\ entered' = entered \cup {t}
        /\ pool' = (pool \ Descendants({u \in pool : Ins(u) \cap Ins(t) # {}})) \cup {t}
    BY <1>2 DEF Enter
  <2>2. ASSUME Flat PROVE pool' = pool \cup {t}
    <3>1. {u \in pool : Ins(u) \cap Ins(t) # {}} = {}
      BY <2>1, <2>2 DEF Flat, TInv, NodeInv
    <3>2. Descendants({}) = {}
      BY DEF Descendants
    <3> QED  BY <2>1, <3>1, <3>2
  <2> QED  BY <2>1, <2>2, MinedGrows DEF EnteredInv
<1>3. ASSUME NEW S \in SUBSET pool, Connect(S)
      PROVE  entered' \cap Old = {} /\ (Flat => entered' \subseteq pool' \cup Mined')
  <2>1. entered' = entered /\ pool' = pool \ S /\ blocks' = Append(blocks, S)
    BY <1>3 DEF Connect
  <2>2. S \subseteq Mined'
    <3>1. Best \in Nat /\ blocks \in Seq(SUBSET Txs) /\ S \in SUBSET Txs
      BY Lengths DEF TInv, NodeInv
    <3>2. Best + 1 \in DOMAIN blocks' /\ blocks'[Best + 1] = S
      BY <2>1, <3>1 DEF Best
    <3> QED  BY <3>2 DEF Mined, Range
  <2> QED  BY <2>1, <2>2, MinedGrows DEF EnteredInv
<1>4. ASSUME ~Node PROVE entered' \cap Old = {} /\ (Flat => entered' \subseteq pool' \cup Mined')
  BY <1>4, MinedGrows DEF EnteredInv
<1>5. entered' \cap Old = {} /\ (Flat => entered' \subseteq pool' \cup Mined')
  BY <1>2, <1>3, <1>4 DEF Node, EnteredInv
<1> QED  BY <1>0, <1>1, <1>5 DEF EnteredInv

(* Independent transactions find all that they spend unspent, or nothing of it. *)
LEMMA InputsTogether ==
  ASSUME TInv, Flat, NEW t \in Txs
  PROVE  ChainedAt(t) = IF t \in InBlocks(indexed) THEN {} ELSE Ins(t)
<1>1. Old \subseteq InBlocks(indexed)
  BY DEF InBlocks, TInv, LoopTyped, NodeInv
<1>2. InBlocks(indexed) \subseteq Txs
  <2>1. indexed \subseteq 1..Best
    BY DEF TInv, LoopTyped
  <2> QED  BY <2>1, Lengths DEF InBlocks
<1>3. Ins(t) \subseteq Old /\ \A o \in Ins(t) : Tokens(o) > 0
  <2>1. Ins(t) \subseteq Old /\ chain \in Chains
    BY DEF Flat, TInv
  <2> QED  BY <2>1, TokensHeld
<1>4. \A o \in Ins(t) : o \in Unspent <=> t \notin InBlocks(indexed)
  BY <1>1, <1>2, <1>3 DEF Unspent, Flat
<1> QED  BY <1>3, <1>4 DEF ChainedAt

(* What WriteDocs writes for an independent transaction. *)
LEMMA Credited ==
  ASSUME TInv, EnteredInv, CopiesInv, Flat, WriteDocs
  PROVE  LET t == handler.tx IN
         /\ t \in entered \ Old /\ t \in Txs /\ Ins(t) \subseteq Old
         /\ DOMAIN pending' = DOMAIN pending \cup Ins(t) \cup {t} /\ pending'[t] = Credit(t)
         /\ \A o \in Ins(t) : pending'[o] = SpentCopy(ChainDoc(o), t)
         /\ \A o \in DOMAIN pending : o # t /\ o \notin Ins(t) => pending'[o] = pending[o]
<1> DEFINE t == handler.tx
           pooled == handler.pooled
           extra == SumFunction([u \in DOMAIN pooled |-> pooled[u].amt])
           amount == Worth(handler.chained) + extra
<1>1. handler.at = "write"
  BY DEF WriteDocs
<1>2. t \in entered \ Old /\ t \in Txs /\ Ins(t) \subseteq Old /\ t \notin Ins(t)
  BY <1>1 DEF EnteredInv, TInv, ListenerInv, Flat
<1>3. handler.chained = Ins(t) /\ DOMAIN pooled = {}
  BY <1>1 DEF CopiesInv
<1>4. pending' = [u \in DOMAIN pending \cup DOMAIN pooled \cup handler.chained \cup {t} |->
                   IF u = t THEN [amt |-> amount, live |-> TRUE, mined |-> FALSE, optx |-> t]
                   ELSE IF u \in DOMAIN pooled THEN SpentCopy(pooled[u], t)
                   ELSE IF u \in handler.chained THEN SpentCopy(ChainDoc(u), t)
                   ELSE pending[u]]
  BY DEF WriteDocs
<1>5. extra = 0
  <2> DEFINE f == [u \in DOMAIN pooled |-> pooled[u].amt]
  <2>1. DOMAIN f = {}
    BY <1>3
  <2> HIDE DEF f
  <2>2. SumFunctionOnSet(f, {}) = 0
    BY SumEmpty
  <2>3. SumFunction(f) = SumFunctionOnSet(f, {})
    BY <2>1, Zenon DEF SumFunction
  <2> QED  BY <2>2, <2>3 DEF f
<1>6. amount = Worth(Ins(t))
  <2>1. Worth(Ins(t)) \in Nat
    <3>1. Ins(t) \in SUBSET Txs
      BY <1>2, Constants
    <3> QED  BY <3>1, WorthFacts
  <2> HIDE DEF extra
  <2> QED  BY <1>3, <1>5, <2>1
<1> HIDE DEF amount, pooled, t
<1>7. DOMAIN pending' = DOMAIN pending \cup Ins(t) \cup {t}
  BY <1>3, <1>4
<1>8. pending'[t] = Credit(t)
  BY <1>4, <1>6 DEF Credit
<1>9. \A o \in Ins(t) : pending'[o] = SpentCopy(ChainDoc(o), t)
  BY <1>2, <1>3, <1>4
<1>10. \A o \in DOMAIN pending : o # t /\ o \notin Ins(t) => pending'[o] = pending[o]
  BY <1>3, <1>4
<1> QED  BY <1>2, <1>7, <1>8, <1>9, <1>10 DEF t

LEMMA NextCopies == TInv /\ EnteredInv /\ CopiesInv /\ DocsInv /\ [Next]_vars => CopiesInv'
<1> SUFFICES ASSUME TInv, EnteredInv, CopiesInv, [Next]_vars, Flat'
             PROVE  /\ \A t \in DOMAIN pending' \ Old :
                         t \in entered' /\ pending'[t] = Credit(t)' /\ Ins(t)' \subseteq DOMAIN pending'
                    /\ \A o \in DOMAIN pending' \cap Old :
                         \E t \in DOMAIN pending' \ Old :
                           o \in Ins(t)' /\ pending'[o] = SpentCopy(ChainDoc(o)', t)
                    /\ handler'.at = "write" =>
                         handler'.chained = Ins(handler.tx)' /\ DOMAIN handler'.pooled = {}
  BY DEF CopiesInv, SpentCopy
<1>1. UNCHANGED chain
  BY DEF Next, vars
<1>2. Flat /\ (\A t : Ins(t)' = Ins(t)) /\ (\A t : Tokens(t)' = Tokens(t))
  BY <1>1 DEF Flat, Ins, Tokens, Origins
<1>3. /\ \A t : Credit(t)' = Credit(t)
      /\ \A o : ChainDoc(o)' = ChainDoc(o)
  BY <1>2 DEF Credit, ChainDoc, Worth
<1>4. /\ \A t \in DOMAIN pending \ Old :
           t \in entered /\ pending[t] = Credit(t) /\ Ins(t) \subseteq DOMAIN pending
      /\ \A o \in DOMAIN pending \cap Old :
           \E t \in DOMAIN pending \ Old : o \in Ins(t) /\ pending[o] = SpentCopy(ChainDoc(o), t)
      /\ handler.at = "write" =>
           handler.chained = Ins(handler.tx) /\ DOMAIN handler.pooled = {}
  BY <1>2 DEF CopiesInv
<1>5. entered \subseteq entered'
  BY MinedGrows
<1> DEFINE Whole == /\ \A t \in DOMAIN pending' \ Old :
                         t \in entered' /\ pending'[t] = Credit(t) /\ Ins(t) \subseteq DOMAIN pending'
                    /\ \A o \in DOMAIN pending' \cap Old :
                         \E t \in DOMAIN pending' \ Old :
                           o \in Ins(t) /\ pending'[o] = SpentCopy(ChainDoc(o), t)
<1>6. ASSUME pending' = pending PROVE Whole
  BY <1>4, <1>5, <1>6
<1>7. ASSUME WriteDocs PROVE Whole
  <2> DEFINE t == handler.tx
  <2>1. /\ t \in entered \ Old /\ t \in Txs /\ Ins(t) \subseteq Old
        /\ DOMAIN pending' = DOMAIN pending \cup Ins(t) \cup {t} /\ pending'[t] = Credit(t)
        /\ \A o \in Ins(t) : pending'[o] = SpentCopy(ChainDoc(o), t)
        /\ \A o \in DOMAIN pending : o # t /\ o \notin Ins(t) => pending'[o] = pending[o]
    BY <1>2, <1>7, Credited
  <2> HIDE DEF t
  <2>2. ASSUME NEW u \in DOMAIN pending' \ Old
        PROVE  u \in entered' /\ pending'[u] = Credit(u) /\ Ins(u) \subseteq DOMAIN pending'
    BY <1>4, <1>5, <2>1
  <2>3. ASSUME NEW o \in DOMAIN pending' \cap Old
        PROVE  \E u \in DOMAIN pending' \ Old : o \in Ins(u) /\ pending'[o] = SpentCopy(ChainDoc(o), u)
    <3>1. CASE o \in Ins(t)
      BY <2>1, <3>1
    <3>2. CASE o \notin Ins(t)
      <4>1. o \in DOMAIN pending /\ pending'[o] = pending[o]
        BY <2>1, <3>2
      <4>2. PICK u \in DOMAIN pending \ Old : o \in Ins(u) /\ pending[o] = SpentCopy(ChainDoc(o), u)
        BY <1>4, <4>1
      <4> QED  BY <2>1, <4>1, <4>2
    <3> QED  BY <3>1, <3>2
  <2> QED  BY <2>2, <2>3
<1>8. ASSUME NEW w \in 0..Back, DeleteDocs(w) PROVE Whole
  <2> DEFINE B == blocks[worker[w].h]
  <2>1. /\ \A o : o \in DOMAIN pending' <=> o \in DOMAIN pending /\ pending[o].optx \notin B
        /\ \A o \in DOMAIN pending' : pending'[o] = pending[o]
    BY <1>8, Deletes
  <2> HIDE DEF B
  <2>2. \A t : Credit(t).optx = t
    BY DEF Credit
  <2>3. \A o, t : SpentCopy(ChainDoc(o), t).optx = t
    BY DEF SpentCopy, ChainDoc
  <2>4. \A t \in DOMAIN pending \ Old : \A o \in Ins(t) : pending[o].optx = t
    <3> SUFFICES ASSUME NEW t \in DOMAIN pending \ Old, NEW o \in Ins(t) PROVE pending[o].optx = t
      OBVIOUS
    <3>1. t \in Txs
      BY <1>4 DEF TInv, NodeInv
    <3>2. o \in DOMAIN pending \cap Old
      BY <1>2, <1>4, <3>1 DEF Flat
    <3>3. PICK u \in DOMAIN pending \ Old : o \in Ins(u) /\ pending[o] = SpentCopy(ChainDoc(o), u)
      BY <1>4, <3>2
    <3>4. u \in Txs
      BY <1>4 DEF TInv, NodeInv
    <3>5. u = t
      BY <1>2, <3>1, <3>3, <3>4 DEF Flat
    <3> QED  BY <2>3, <3>3, <3>5
  <2>5. ASSUME NEW t \in DOMAIN pending' \ Old
        PROVE  t \in entered' /\ pending'[t] = Credit(t) /\ Ins(t) \subseteq DOMAIN pending'
    <3>1. t \in DOMAIN pending \ Old /\ t \notin B
      BY <1>4, <2>1, <2>2
    <3> QED  BY <1>4, <1>5, <2>1, <2>4, <3>1
  <2>6. ASSUME NEW o \in DOMAIN pending' \cap Old
        PROVE  \E u \in DOMAIN pending' \ Old : o \in Ins(u) /\ pending'[o] = SpentCopy(ChainDoc(o), u)
    <3>1. PICK u \in DOMAIN pending \ Old : o \in Ins(u) /\ pending[o] = SpentCopy(ChainDoc(o), u)
      BY <1>4, <2>1
    <3>2. pending[o].optx = u /\ pending[u].optx = u
      BY <1>4, <2>2, <2>3, <3>1
    <3> QED  BY <2>1, <3>1, <3>2
  <2> QED  BY <2>5, <2>6
<1>9. Whole
  BY <1>6, <1>7, <1>8, PendingNext
<1>10. ASSUME handler'.at = "write"
       PROVE  handler'.chained = Ins(handler'.tx) /\ DOMAIN handler'.pooled = {}
  <2>1. CASE handler' = handler
    BY <1>4, <1>10, <2>1
  <2>2. CASE ReadDocs /\ DocsRead
    <3>1. handler.tx \in Txs /\ handler'.tx = handler.tx
          /\ handler'.chained = ChainedAt(handler.tx) /\ handler'.pooled = PendingAt(Ins(handler.tx))
      BY <2>2 DEF DocsRead, TInv, ListenerInv
    <3>2. DOMAIN PendingAt(Ins(handler.tx)) = {}
      <4>1. Ins(handler.tx) \subseteq Old
        BY <1>2, <3>1 DEF Flat
      <4>2. \A o \in Old \cap DOMAIN pending : ~pending[o].live
        <5>1. \A o, t : SpentCopy(ChainDoc(o), t).live = FALSE
          BY DEF SpentCopy, ChainDoc
        <5> QED  BY <1>4, <5>1
      <4> QED  BY <4>1, <4>2 DEF PendingAt
    <3>3. ChainedAt(handler.tx) = Ins(handler.tx)
      <4>1. handler' # Waiting
        BY <1>10, IdleTyped
      <4>2. ChainedAt(handler.tx) # {}
        BY <2>2, <3>2, <4>1 DEF ReadDocs, ChainedAt
      <4> QED  BY <1>2, <3>1, <4>2, InputsTogether
    <3> QED  BY <3>1, <3>2, <3>3
  <2> QED  BY <1>10, <2>1, <2>2, HandlerNext
<1> HIDE DEF Whole
<1> QED  BY <1>2, <1>3, <1>9, <1>10 DEF Whole

LEMMA NextWay ==
  TInv /\ OnceInv /\ EnteredInv /\ CopiesInv /\ WayInv /\ [Next]_vars => WayInv'
<1> SUFFICES ASSUME TInv, OnceInv, EnteredInv, CopiesInv, WayInv, [Next]_vars, crashes' = 0, Flat',
                    NEW t \in pool'
             PROVE  OnWay(t)' \/ t \in DOMAIN pending'
  BY DEF WayInv
<1>0. crashes = 0 /\ ~Crash /\ Flat
  BY NotCrashed DEF Flat, Ins, Next, vars
<1>1. CASE t \notin pool
  BY <1>0, <1>1, PoolNext DEF Queued, OnWay
<1>2. CASE t \in pool /\ Queued(t)
  <2>1. reader'.at = "save" => reader'.at # "receive"
    OBVIOUS
  <2> QED  BY <1>0, <1>2, <2>1, QueuedNext DEF Queued, OnWay
<1>3. CASE t \in pool /\ reader.at # "receive" /\ reader.tx = t
  <2>1. CASE SendLast
    <3>1. handler'.at = "read" /\ handler'.tx = t
      BY <1>3, <2>1, Sent DEF SendLast
    <3> QED  BY <3>1 DEF OnWay
  <2>2. CASE Reader /\ ~SendLast
    <3>1. reader'.at # "receive" /\ reader'.tx = t
      BY <1>3, <2>2 DEF Reader, Receive, Save, SendPins, CheckTransfers, SendMoves, TInv, ListenerInv
    <3> QED  BY <3>1 DEF OnWay
  <2>3. CASE ~Reader
    <3>1. reader' = reader
      BY <1>0, <2>3, NodeSteps, OtherSteps DEF Next, vars, zmq
    <3> QED  BY <1>3, <3>1 DEF OnWay
  <2> QED  BY <2>1, <2>2, <2>3
<1>4. CASE t \in pool /\ t \in DOMAIN pending
  <2>1. CASE WriteDocs
    BY <1>0, <1>4, <2>1, Credited
  <2>2. ASSUME NEW w \in 0..Back, DeleteDocs(w) PROVE t \in DOMAIN pending'
    <3>1. t \notin Mined /\ t \notin Old
      BY <1>4, OldMined DEF TInv, NodeInv
    <3>2. pending[t].optx = t
      BY <1>0, <1>4, <3>1 DEF CopiesInv, Credit
    <3> QED  BY <1>4, <2>2, <3>1, <3>2, Deletes
  <2> QED  BY <1>4, <2>1, <2>2, PendingNext
<1>5. CASE t \in pool /\ handler.at # "idle" /\ handler.tx = t
  <2>1. CASE ReadDocs
    <3>1. CASE handler' = Waiting
      <4>1. t \in Txs /\ t \notin Mined /\ t \notin Old
        BY <1>5, OldMined DEF TInv, NodeInv
      <4>2. t \notin InBlocks(indexed)
        <5>1. indexed \subseteq 1..Best
          BY DEF TInv, LoopTyped
        <5> QED  BY <4>1, <5>1, Lengths DEF InBlocks
      <4>3. ChainedAt(t) # {}
        <5>1. Ins(t) # {}
          BY <4>1, ConstantsAssumption DEF Ins, TInv
        <5> QED  BY <1>0, <4>1, <4>2, <5>1, InputsTogether
      <4>4. Processed(t)
        BY <1>5, <2>1, <3>1, <4>3, ReadDocsReads
      <4>5. PICK o \in DOMAIN pending : pending[o].optx = t
        BY <4>4 DEF Processed
      <4>6. t \in DOMAIN pending
        <5>1. CASE o \notin Old
          BY <1>0, <4>5, <5>1 DEF CopiesInv, Credit
        <5>2. CASE o \in Old
          <6>1. PICK u \in DOMAIN pending \ Old : pending[o] = SpentCopy(ChainDoc(o), u)
            BY <1>0, <5>2 DEF CopiesInv
          <6> QED  BY <4>5, <6>1 DEF SpentCopy, ChainDoc
        <5> QED  BY <5>1, <5>2
      <4> QED  BY <1>4, <1>5, <4>6
    <3>2. CASE DocsRead
      BY <1>5, <3>2 DEF DocsRead, OnWay
    <3> QED  BY <2>1, <3>1, <3>2, ReadDocsReads
  <2>2. CASE WriteDocs
    BY <1>0, <1>5, <2>2, Credited
  <2>3. CASE StorePin \/ StoreMove
    <3>1. handler'.tx = t /\ handler'.at # "idle"
      BY <1>5, <2>3 DEF StorePin, StoreMove, TInv, ListenerInv
    <3> QED  BY <3>1 DEF OnWay
  <2>4. CASE Reader
    <3>1. handler' = handler
      BY <1>5, <2>4, Sent DEF Reader, Receive, Save, SendPins, CheckTransfers, SendMoves, SendLast
    <3> QED  BY <1>5, <3>1 DEF OnWay
  <2>5. CASE ~Reader /\ ~Handler
    <3>1. handler' = handler
      BY <1>0, <2>5, NodeSteps, LoopSteps, RunSteps DEF Next, vars, zmq
    <3> QED  BY <1>5, <3>1 DEF OnWay
  <2> QED  BY <2>1, <2>2, <2>3, <2>4, <2>5 DEF Handler
<1> QED  BY <1>0, <1>1, <1>2, <1>3, <1>4, <1>5 DEF WayInv, OnWay, Queued

DocumentsInv == EnteredInv /\ CopiesInv /\ WayInv

LEMMA InitDocuments == Init => DocumentsInv
<1> SUFFICES ASSUME Init PROVE DocumentsInv
  OBVIOUS
<1>1. entered = {} /\ pool = {} /\ pending = <<>> /\ handler = Waiting
  BY DEF Init
<1>2. DOMAIN pending = {}
  BY <1>1
<1> QED  BY <1>1, <1>2, IdleTyped DEF DocumentsInv, EnteredInv, CopiesInv, WayInv

LEMMA NextDocuments == IInv /\ DocumentsInv /\ [Next]_vars => DocumentsInv'
BY NextEntered, NextCopies, NextWay DEF IInv, DocumentsInv

(* What outputs hold together. *)
LEMMA WorthOfTwo ==
  ASSUME NEW S \in SUBSET Txs, NEW T \in SUBSET Txs
  PROVE  /\ S \cap T = {} => Worth(S \cup T) = Worth(S) + Worth(T)
         /\ T \subseteq S => Worth(S \ T) = Worth(S) - Worth(T)
<1>1. Summable(TokensOf, S) /\ Summable(TokensOf, T)
  BY WorthFacts
<1>2. \A R \in SUBSET Txs : Worth(R) = SumFunctionOnSet(TokensOf, R) /\ Worth(R) \in Nat
  BY WorthFacts
<1>3. S \cup T \in SUBSET Txs /\ S \ T \in SUBSET Txs
  OBVIOUS
<1> HIDE DEF TokensOf
<1>4. ASSUME S \cap T = {} PROVE Worth(S \cup T) = Worth(S) + Worth(T)
  BY <1>1, <1>2, <1>3, <1>4, SumUnion
<1>5. ASSUME T \subseteq S PROVE Worth(S \ T) = Worth(S) - Worth(T)
  <2>1. SumFunctionOnSet(TokensOf, S) = SumFunctionOnSet(TokensOf, T) + SumFunctionOnSet(TokensOf, S \ T)
    BY <1>1, <1>5, SumSubset
  <2> QED  BY <1>2, <1>3, <2>1
<1> QED  BY <1>4, <1>5

LEMMA InvBalance == IInv /\ DocumentsInv => BalanceKept
<1> SUFFICES ASSUME IInv, DocumentsInv, chain.prompt, faults = 0, Flat, CaughtUp, Quiet
             PROVE  \E seen \in SUBSET pool :
                      /\ crashes = 0 => seen = pool
                      /\ \A a \in Addresses : Balance(a) = Worth(Of(a, UnspentAfter(seen)))
  BY DEF BalanceKept
<1> DEFINE seen == DOMAIN pending \ Old
           spent == UNION {Ins(t) : t \in seen}
<1>1. TInv /\ chain \in Chains
  BY DEF IInv, TInv
<1>2. Mined = InBlocks(indexed) /\ Mined \subseteq Txs
  <2>1. indexed = 1..Best /\ DOMAIN blocks = 1..Best /\ \A h \in 1..Best : blocks[h] \subseteq Txs
    BY <1>1, Lengths DEF CaughtUp
  <2> QED  BY <2>1 DEF Mined, InBlocks, Range
<1>3. Gone(Mined)
  BY InvListing DEF Listing, Deleted
<1>4. /\ \A t \in seen : t \in entered /\ pending[t] = Credit(t) /\ Ins(t) \subseteq DOMAIN pending
      /\ \A o \in DOMAIN pending \cap Old :
           \E t \in seen : o \in Ins(t) /\ pending[o] = SpentCopy(ChainDoc(o), t)
  BY DEF DocumentsInv, CopiesInv
<1>5. \A t \in seen : t \in pool /\ t \in Txs /\ t \notin Mined /\ Ins(t) \subseteq Old
  <2> TAKE t \in seen
  <2>1. pending[t].optx = t
    BY <1>4 DEF Credit
  <2>2. t \notin Mined
    BY <1>3, <2>1 DEF Gone
  <2>3. t \in pool
    BY <1>4, <2>2 DEF DocumentsInv, EnteredInv
  <2>4. t \in Txs
    BY <1>1, <1>4 DEF TInv, NodeInv
  <2> QED  BY <2>2, <2>3, <2>4 DEF Flat
<1>6. ASSUME crashes = 0 PROVE seen = pool
  <2>1. \A t \in pool : t \in DOMAIN pending
    BY <1>6, QuietWay DEF DocumentsInv, WayInv
  <2>2. pool \cap Old = {}
    BY <1>1, OldMined DEF TInv, NodeInv
  <2> QED  BY <1>5, <2>1, <2>2
<1>7. spent = DOMAIN pending \cap Old
  BY <1>4, <1>5
<1>8. Unspent = Mined \ UNION {Ins(t) : t \in Mined}
  BY <1>2 DEF Unspent
<1>9. spent \subseteq Unspent
  <2> SUFFICES ASSUME NEW o \in spent, NEW u \in Mined, o \in Ins(u) PROVE FALSE
    BY <1>1, <1>7, <1>8, OldMined
  <2>1. PICK t \in seen : o \in Ins(t)
    OBVIOUS
  <2> QED  BY <1>2, <1>5, <2>1 DEF Flat
<1>10. UnspentAfter(seen) = (Unspent \ spent) \cup seen
  <2>1. \A t \in Mined \cup seen : Ins(t) \cap seen = {}
    BY <1>2, <1>5 DEF Flat
  <2> QED  BY <1>5, <1>8, <2>1 DEF UnspentAfter
<1> DEFINE docs(live, mined) ==
             {o \in DOMAIN pending : pending[o].live = live /\ pending[o].mined = mined}
           amount(outputs) == SumFunction([o \in outputs |-> pending[o].amt])
<1>11. /\ \A t \in seen : pending[t].live = TRUE /\ pending[t].mined = FALSE /\ pending[t].amt = Tokens(t)
       /\ \A o \in spent : pending[o].live = FALSE /\ pending[o].mined = TRUE /\ pending[o].amt = Tokens(o)
  <2>1. ASSUME NEW t \in seen
        PROVE  pending[t].live = TRUE /\ pending[t].mined = FALSE /\ pending[t].amt = Tokens(t)
    <3>1. Worth(Ins(t)) = Tokens(t)
      BY <1>1, <1>5, WorthOfInputs
    <3> QED  BY <1>4, <3>1 DEF Credit
  <2>2. ASSUME NEW o \in spent
        PROVE  pending[o].live = FALSE /\ pending[o].mined = TRUE /\ pending[o].amt = Tokens(o)
    <3>1. PICK t : pending[o] = SpentCopy(ChainDoc(o), t)
      BY <1>4, <1>7
    <3> QED  BY <3>1 DEF SpentCopy, ChainDoc
  <2> QED  BY <2>1, <2>2
<1>12. docs(TRUE, FALSE) = seen /\ docs(FALSE, TRUE) = spent
  <2>1. DOMAIN pending = seen \cup spent
    BY <1>7
  <2> HIDE DEF seen, spent
  <2> QED  BY <1>11, <2>1
<1> HIDE DEF seen, spent
<1>13. ASSUME NEW a \in Addresses PROVE Balance(a) = Worth(Of(a, UnspentAfter(seen)))
  <2>1. amount(Of(a, seen)) = Worth(Of(a, seen)) /\ amount(Of(a, spent)) = Worth(Of(a, spent))
    <3>1. \A S : (\A o \in S : pending[o].amt = Tokens(o)) => amount(S) = Worth(S)
      <4> TAKE S
      <4> HAVE \A o \in S : pending[o].amt = Tokens(o)
      <4>1. [o \in S |-> pending[o].amt] = [o \in S |-> Tokens(o)]
        OBVIOUS
      <4> QED  BY <4>1, Zenon DEF Worth
    <3>2. Of(a, seen) \subseteq seen /\ Of(a, spent) \subseteq spent
      BY DEF Of
    <3> QED  BY <1>11, <3>1, <3>2
  <2>2. Balance(a) = Worth(Of(a, Unspent)) + Worth(Of(a, seen)) - Worth(Of(a, spent))
    BY <1>12, <2>1, Zenon DEF Balance
  <2>3. Of(a, UnspentAfter(seen)) = (Of(a, Unspent) \ Of(a, spent)) \cup Of(a, seen)
    BY <1>10 DEF Of
  <2>4. /\ Of(a, Unspent) \in SUBSET Txs /\ Of(a, seen) \in SUBSET Txs /\ Of(a, spent) \in SUBSET Txs
        /\ Of(a, spent) \subseteq Of(a, Unspent)
        /\ (Of(a, Unspent) \ Of(a, spent)) \cap Of(a, seen) = {}
    BY <1>2, <1>5, <1>8, <1>9 DEF Of
  <2>5. (Of(a, Unspent) \ Of(a, spent)) \in SUBSET Txs
    BY <2>4
  <2>6. Worth((Of(a, Unspent) \ Of(a, spent)) \cup Of(a, seen))
          = Worth(Of(a, Unspent) \ Of(a, spent)) + Worth(Of(a, seen))
    BY <2>4, <2>5, WorthOfTwo
  <2>7. Worth(Of(a, Unspent) \ Of(a, spent)) = Worth(Of(a, Unspent)) - Worth(Of(a, spent))
    BY <2>4, WorthOfTwo
  <2>8. Worth(Of(a, Unspent)) \in Nat /\ Worth(Of(a, seen)) \in Nat /\ Worth(Of(a, spent)) \in Nat
    BY <2>4, WorthFacts
  <2> QED  BY <2>2, <2>3, <2>6, <2>7, <2>8
<1>14. seen \in SUBSET pool
  BY <1>5
<1> QED  BY <1>6, <1>13, <1>14

(***************************************************************************)
(* Every variable keeps to its type: the goroutines, the four collections, *)
(* the main loop and its re-runs, however they interleave (zmq.go, man.go, *)
(* mongo/mempool.go).                                                      *)
(***************************************************************************)
THEOREM TypeCorrect == Spec => []TypeOK
<1>1. Spec => [](IInv /\ RecordsInv)
  BY InitIInv, NextIInv, InitRecords, NextRecords, PTL DEF Spec, IInv
<1> QED  BY <1>1, InvTypeOK, PTL

(***************************************************************************)
(* When every block is done and the listener has nothing to do, each       *)
(* address is shown what it will have when the transactions of the node's  *)
(* mempool are confirmed, or those of them whose announcement no crash     *)
(* lost, provided that they are independent (UpdateMrc20Utxo,              *)
(* DeleteMempoolMc20, GetMrc20BalanceByAddress).                           *)
(***************************************************************************)
THEOREM BalanceHolds == Spec => []BalanceKept
<1>1. Spec => [](IInv /\ DocumentsInv)
  BY InitIInv, NextIInv, InitDocuments, NextDocuments, PTL DEF Spec
<1> QED  BY <1>1, InvBalance, PTL
=============================================================================
