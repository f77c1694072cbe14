---------------------------- MODULE Mrc20Ledger ----------------------------
(***************************************************************************)
(* Moving MRC-20 tokens: the second half of Mrc20Handle in man/mrc20.go.   *)
(* After the block's mints are stored (module Mrc20Mint) the transactions  *)
(* that carry no transfer pin move tokens natively, the transfer pins are  *)
(* tried in rounds, and the native pass runs once more.                    *)
(*                                                                         *)
(* One goroutine.  A native pass, and one attempt at a transfer pin, is a  *)
(* query followed by one BulkWrite command, hence one action; the process  *)
(* may stop between actions.  BulkWrite is modelled in list order, as a    *)
(* single server executes it.                                              *)
(***************************************************************************)
EXTENDS Integers, SequencesExt

CONSTANTS
  Ticks,       \* mrc20ids
  Txs,         \* transaction ids
  Hashes,      \* transaction ids, and hashes that are not the id of any
  Tip,         \* best height; bounds the model
  MaxOut,      \* highest output number
  Chains,      \* the block chains considered
  NoTx,        \* the empty operationtx
  MaxReruns    \* bound on the blocks run again

Heights == 1..Tip

Point == Hashes \X (0..MaxOut)

(* The unique key of mrc20utxos: mrc20id, txpoint, index. *)
Key == [tick: Ticks, point: Point, index: Nat]

(* Mrc20Utxo: live is status = 0; opt distinguishes "deploy" from the rest. *)
Doc == [amt: Nat, live: BOOLEAN, verify: BOOLEAN, deploy: BOOLEAN, optx: Txs \cup {NoTx}]

(* One item of the JSON list of a transfer pin. *)
Item == [tick: Ticks, amt: Nat, vout: Nat]

(***************************************************************************)
(* tx: inputs, and for each output whether it can hold tokens (not         *)
(* nulldata, not nonstandard, and with an address).  hash: what TxHash     *)
(* computes, which for mvc transactions from version 10 on is not their id *)
(* (GetNewHash).  A block lists its transactions, its transfer pins (ok:   *)
(* well-formed JSON, known ticks, decimals in range) and the documents     *)
(* Mrc20Mint stores for it.  faulty says whether the node's answers may    *)
(* fail, the process may crash, and calls of reindex may be ahead of the   *)
(* loop.                                                                   *)
(***************************************************************************)
Chain ==
  [kind: {"btc", "mvc"},
   faulty: BOOLEAN,
   tx: [Txs -> [ins: Seq(Point), usable: Seq(BOOLEAN), hash: Hashes]],
   blocks: [Heights -> [txs: Seq(Txs),
                        pins: Seq([tx: Txs, ok: BOOLEAN, content: Seq(Item)]),
                        mints: SUBSET [key: Key, doc: {d \in Doc : d.live}]]]]

ASSUME ConstantsAssumption ==
  /\ Tip \in Nat /\ MaxOut \in Nat
  /\ NoTx \notin Txs
  /\ Txs \subseteq Hashes
  /\ \A c \in Chains : c \in Chain /\ (c.kind = "btc" => \A x \in Txs : c.tx[x].hash = x)
  /\ \A c \in Chains : \A x \in Txs : Len(c.tx[x].usable) <= MaxOut + 1
  /\ MaxReruns \in Nat

(* What holds of every block: a transfer pin is in one of its transactions, *)
(* what it stores is finite, and no two of its transactions spend the same   *)
(* output.                                                                   *)
ASSUME BlocksAssumption ==
  \A c \in Chains : \A h \in Heights :
    LET b == c.blocks[h] IN
    /\ \A i \in DOMAIN b.pins : b.pins[i].tx \in Range(b.txs)
    /\ IsFiniteSet(b.mints)
    /\ \A x, y \in Range(b.txs) : x # y => Range(c.tx[x].ins) \cap Range(c.tx[y].ins) = {}

VARIABLES
  chain,       \* the block chain, fixed
  maxHeight,   \* man.MaxHeight of the chain
  pinned,      \* heights whose pins are stored
  utxo,        \* mrc20utxos, by key
  worker,      \* the goroutine inside Mrc20Handle
  handled,     \* history: heights handled to the end
  reruns,      \* history: blocks taken again, at most MaxReruns
  minted,      \* history: verified amount stored for each tick
  echoed       \* history: amount sendAllAmountToFirstOutput credited, per tick

vars == <<chain, maxHeight, pinned, utxo, worker, handled, reruns, minted, echoed>>

Write == [key: Key, doc: Doc]

(* turn counts the attempts of transferHandle's two loops; list and done are *)
(* its mrc20UtxoList and successMap; again: the block had been handled.      *)
Worker == [pc: {"idle", "mint", "native1", "transfer", "native2"}, h: 0..Tip,
           turn: Nat \ {0}, list: Seq(Write), done: SUBSET Nat, again: BOOLEAN]

Idle == [pc |-> "idle", h |-> 0, turn |-> 1, list |-> <<>>, done |-> {}, again |-> FALSE]

Block == chain.blocks[worker.h]

Ins(tx) == Range(chain.tx[tx].ins)

Usable(tx, vout) == vout < Len(chain.tx[tx].usable) /\ chain.tx[tx].usable[vout + 1]

HasUsable(tx) == \E v \in 0..MaxOut : Usable(tx, v)

FirstUsable(tx) == Min({v \in 0..MaxOut : Usable(tx, v)})

----------------------------------------------------------------------------
(* The collection. *)

(* The documents of new beside the others, or over them. *)
Stored(c, new) ==
  [k \in DOMAIN c \cup DOMAIN new |-> IF k \in DOMAIN new THEN new[k] ELSE c[k]]

(* An upsert filters on verify = true: it cannot touch a refused mint, whose *)
(* key it then collides with.                                                *)
Upsert(c, w) ==
  IF w.key \in DOMAIN c /\ ~c[w.key].verify THEN c ELSE Stored(c, [k \in {w.key} |-> w.doc])

Updated(c, list) == FoldLeft(Upsert, c, list)

UpdateMrc20Utxo(list) == utxo' = Updated(utxo, list)

Live == {k \in DOMAIN utxo : utxo[k].live /\ utxo[k].verify}

GetMrc20UtxoByOutPutList(points) == {k \in Live : k.point \in points}

Amount(keys) == SumFunction([k \in keys |-> utxo[k].amt])

OfTick(keys, t) == {k \in keys : k.tick = t}

CheckOperationtx(tx) == \E k \in DOMAIN utxo : utxo[k].optx = tx

Credit(t, p, i, a, tx) ==
  [key |-> [tick |-> t, point |-> p, index |-> i],
   doc |-> [amt |-> a, live |-> TRUE, verify |-> TRUE, deploy |-> FALSE, optx |-> tx]]

(* Mutations of Spend: the status, or the transaction, is not set. *)
SpendUnmarked(k, tx) == [key |-> k, doc |-> [utxo[k] EXCEPT !.optx = tx]]

SpendUnnamed(k, tx) == [key |-> k, doc |-> [utxo[k] EXCEPT !.live = FALSE]]

(* A copy of the document with status -1 and the spending transaction. *)
Spend(k, tx) == [key |-> k, doc |-> [utxo[k] EXCEPT !.live = FALSE, !.optx = tx]]

(* A document rebuilt from its key alone: no amount, no transaction. *)
Blank(k) ==
  [key |-> k,
   doc |-> [amt |-> 0, live |-> FALSE, verify |-> TRUE, deploy |-> FALSE, optx |-> NoTx]]

----------------------------------------------------------------------------
(* Which block the goroutine takes: see Mrc20Mint. *)

StartBlock(h) ==
  /\ worker.pc = "idle"
  /\ worker' = [Idle EXCEPT !.pc = "mint", !.h = h, !.again = h \in handled]
  /\ pinned' = pinned \cup {h}
  /\ UNCHANGED <<utxo, handled, minted, echoed>>

(* Mutation of Advance: the comparison with the best height is off by one. *)
AdvancePastBest ==
  /\ maxHeight <= Tip
  /\ maxHeight' = maxHeight + 1
  /\ StartBlock(maxHeight + 1)
  /\ UNCHANGED reruns

Advance ==
  /\ maxHeight < Tip
  /\ maxHeight' = maxHeight + 1
  /\ StartBlock(maxHeight + 1)
  /\ UNCHANGED reruns

Reindex(h) ==
  /\ chain.faulty \/ h <= maxHeight
  /\ reruns < MaxReruns
  /\ reruns' = reruns + 1
  /\ StartBlock(h)
  /\ UNCHANGED maxHeight

FetchFails ==
  /\ chain.faulty
  /\ worker.pc = "idle"
  /\ maxHeight < Tip
  /\ maxHeight' = maxHeight + 1
  /\ UNCHANGED <<pinned, utxo, worker, handled, reruns, minted, echoed>>

Crash ==
  /\ chain.faulty
  /\ worker' = Idle
  /\ maxHeight' \in pinned \cup {0}
  /\ \A h \in pinned : h <= maxHeight'
  /\ UNCHANGED <<pinned, utxo, handled, reruns, minted, echoed>>

(* Mutation of StoreMints: documents are upserted. *)
StoreMintsAgain ==
  /\ worker.pc = "mint"
  /\ utxo' = FoldSet(LAMBDA w, c : Upsert(c, w), utxo, Block.mints)
  /\ worker' = [worker EXCEPT !.pc = "native1"]
  /\ UNCHANGED <<maxHeight, pinned, handled, reruns, minted, echoed>>

(* What InsertMany can take: one document for each key that is free. *)
Insertable(docs) ==
  LET free == {w \in docs : w.key \notin DOMAIN utxo} IN
  {s \in SUBSET free : /\ \A v, w \in s : v.key = w.key => v = w
                       /\ {w.key : w \in s} = {w.key : w \in free}}

Inserted(docs) == [k \in {w.key : w \in docs} |-> (CHOOSE w \in docs : w.key = k).doc]

Verified(docs, t) == {w \in docs : w.key.tick = t /\ w.doc.verify}

(* SaveMrc20Pin. *)
StoreMints ==
  /\ worker.pc = "mint"
  /\ \E docs \in Insertable(Block.mints) :
       /\ utxo' = Stored(utxo, Inserted(docs))
       /\ minted' = [t \in Ticks |->
                       minted[t] + SumFunction([w \in Verified(docs, t) |-> w.doc.amt])]
  /\ worker' = [worker EXCEPT !.pc = "native1"]
  /\ UNCHANGED <<maxHeight, pinned, handled, reruns, echoed>>

----------------------------------------------------------------------------
(* Native transfers: CatchNativeMrc20Transfer of the btc and mvc adapters. *)

(* btc leaves out transactions with a transfer pin, mvc those with OP_RETURN. *)
MovesNatively(tx) ==
  IF chain.kind = "btc"
  THEN \A i \in DOMAIN Block.pins : Block.pins[i].tx # tx
  ELSE \A i \in DOMAIN chain.tx[tx].usable : chain.tx[tx].usable[i]

(* The live documents in tx's inputs, as the query before the pass found them. *)
Found(tx) == {k \in GetMrc20UtxoByOutPutList(Ins(tx)) : ~utxo[k].deploy}

(***************************************************************************)
(* What tx's documents are merged into: on btc one receipt per tick, on    *)
(* mvc one per tick and input.  A receipt copies the document met first,   *)
(* one of those at the first input concerned, with its index.  On mvc the  *)
(* amount is that of the first one too: what is added for the others is    *)
(* the empty amount of the document that marks them spent.  The receipt    *)
(* is stored under the transaction's TxHash.                               *)
(***************************************************************************)
Earliest(tx, keys) ==
  LET ins == chain.tx[tx].ins
      first == Min({i \in DOMAIN ins : \E k \in keys : k.point = ins[i]})
  IN  {k \in keys : k.point = ins[first]}

Groups(tx) ==
  IF chain.kind = "btc"
  THEN {[tx |-> tx, keys |-> OfTick(Found(tx), t)] : t \in {k.tick : k \in Found(tx)}}
  ELSE {[tx |-> tx, keys |-> {k \in Found(tx) : k.tick = f.tick /\ k.point = f.point}] :
          f \in Found(tx)}

Receipt(g, first) ==
  IF chain.kind = "btc"
  THEN Credit(first.tick, <<chain.tx[g.tx].hash, 0>>, first.index, Amount(g.keys), g.tx)
  ELSE Credit(first.tick, <<chain.tx[g.tx].hash, 0>>, first.index,
              utxo[first].amt, utxo[first].optx)

Sends(tx) ==
  LET keys == SetToSeq(Found(tx)) IN
  [i \in DOMAIN keys |-> IF chain.kind = "btc" THEN Spend(keys[i], tx) ELSE Blank(keys[i])]

Movers == {tx \in Range(Block.txs) : MovesNatively(tx)}

Merges == UNION {Groups(tx) : tx \in Movers}

(* The writes of each transaction that moves natively, in block order. *)
InOrder(writes) ==
  FlattenSeq([i \in DOMAIN Block.txs |->
                IF Block.txs[i] \in Movers THEN writes[Block.txs[i]] ELSE <<>>])

(* Per transaction on btc; on mvc all receipts come last, in map order. *)
NativeWrites(first, order) ==
  IF chain.kind = "btc"
  THEN InOrder([tx \in Movers |-> Sends(tx) \o SetToSeq({Receipt(g, first[g]) : g \in Groups(tx)})])
  ELSE InOrder([tx \in Movers |-> Sends(tx)])
         \o [i \in DOMAIN order |-> Receipt(order[i], first[order[i]])]

Orders == IF chain.kind = "btc" THEN {<<>>} ELSE SetToSeqs(Merges)

NativePass(stage, then) ==
  /\ worker.pc = stage
  /\ \E first \in {f \in [Merges -> Live] : \A g \in Merges : f[g] \in Earliest(g.tx, g.keys)} :
       \E order \in Orders : UpdateMrc20Utxo(NativeWrites(first, order))
  /\ worker' = then
  /\ UNCHANGED <<maxHeight, pinned, reruns, minted, echoed>>

NativeFirst ==
  /\ NativePass("native1", [worker EXCEPT !.pc = "transfer"])
  /\ UNCHANGED handled

NativeAgain ==
  /\ NativePass("native2", Idle)
  /\ handled' = handled \cup {worker.h}

----------------------------------------------------------------------------
(* Transfer pins: transferHandle and CreateMrc20TransferUtxo. *)

Asked(content, t) ==
  SumFunction([i \in {i \in DOMAIN content : content[i].tick = t} |-> content[i].amt])

(* Validator.Transfer, given what is found in the inputs. *)
Valid(pin, inputs) ==
  /\ pin.ok
  /\ pin.content # <<>>
  /\ \A i \in DOMAIN pin.content :
       LET item == pin.content[i] IN
       /\ item.amt > 0
       /\ Usable(pin.tx, item.vout)
       /\ OfTick(inputs, item.tick) # {}
       /\ Asked(pin.content, item.tick) <= Amount(OfTick(inputs, item.tick))

(* Mutation of Remainder: only the first item is deducted. *)
RemainderOfFirst(pin, inputs, t) ==
  Amount(OfTick(inputs, t)) - Asked(SubSeq(pin.content, 1, 1), t)

Remainder(pin, inputs, t) == Amount(OfTick(inputs, t)) - Asked(pin.content, t)

(* Remainders first (one per tick, in map order), then spends, then receipts. *)
TransferWrites(pin, inputs, ticks) ==
  LET n == Len(pin.content)
      spent == SetToSeq(inputs)
  IN  [j \in DOMAIN ticks |->
         Credit(ticks[j], <<pin.tx, FirstUsable(pin.tx)>>, n + j - 1,
                Remainder(pin, inputs, ticks[j]), pin.tx)]
      \o [j \in DOMAIN spent |-> Spend(spent[j], pin.tx)]
      \o [j \in 1..n |->
            LET item == pin.content[j] IN
            Credit(item.tick, <<pin.tx, item.vout>>, j - 1, item.amt, pin.tx)]

(* UpdateMrc20Utxo skips the negated inputs: only empty ones are spent. *)
FallbackWrites(pin, inputs) ==
  LET empty == SetToSeq({k \in inputs : utxo[k].amt = 0})
      ticks == SetToSeq({k.tick : k \in inputs})
  IN  [j \in DOMAIN empty |-> Blank(empty[j])]
      \o [j \in DOMAIN ticks |->
            Credit(ticks[j], <<pin.tx, FirstUsable(pin.tx)>>, 0,
                   Amount(OfTick(inputs, ticks[j])), pin.tx)]

Pins == Len(Block.pins)

CurPin == ((worker.turn - 1) % Pins) + 1

(* The pin has its result: the whole list so far is written again. *)
Record(writes) ==
  /\ worker' = [worker EXCEPT !.turn = @ + 1, !.list = @ \o writes, !.done = @ \cup {CurPin}]
  /\ UpdateMrc20Utxo(worker.list \o writes)

MoreTurns ==
  /\ worker.pc = "transfer"
  /\ worker.turn <= Pins * Pins
  /\ Cardinality(worker.done) < Pins

Inputs(pin) == GetMrc20UtxoByOutPutList(Ins(pin.tx))

(* The pin is to be tried in this turn and its transaction has no result yet. *)
Pending(pin) == CurPin \notin worker.done /\ ~CheckOperationtx(pin.tx)

Transfer ==
  /\ MoreTurns
  /\ LET pin == Block.pins[CurPin] IN
     /\ Pending(pin)
     /\ Valid(pin, Inputs(pin))
     /\ \E ticks \in SetToSeqs({t \in Ticks : Remainder(pin, Inputs(pin), t) > 0}) :
          Record(TransferWrites(pin, Inputs(pin), ticks))
  /\ UNCHANGED <<maxHeight, pinned, handled, reruns, minted, echoed>>

(* sendAllAmountToFirstOutput, when there is something to send; also when the *)
(* node did not give the transaction to Validator.Transfer.                   *)
Fallback ==
  /\ MoreTurns
  /\ LET pin == Block.pins[CurPin]
         inputs == Inputs(pin) IN
     /\ Pending(pin)
     /\ ~Valid(pin, inputs) \/ chain.faulty
     /\ HasUsable(pin.tx) /\ inputs # {}
     /\ Record(FallbackWrites(pin, inputs))
     /\ echoed' = [t \in Ticks |-> echoed[t] + Amount(OfTick(inputs, t))]
  /\ UNCHANGED <<maxHeight, pinned, handled, reruns, minted>>

(* Done in an earlier turn, processed before, nothing to send, or the node did *)
(* not give the transaction: next pin.                                         *)
PassOver ==
  /\ MoreTurns
  /\ LET pin == Block.pins[CurPin] IN
     \/ ~Pending(pin)
     \/ ~Valid(pin, Inputs(pin)) /\ ~(HasUsable(pin.tx) /\ Inputs(pin) # {})
     \/ chain.faulty
  /\ worker' = [worker EXCEPT !.turn = @ + 1]
  /\ UNCHANGED <<maxHeight, pinned, utxo, handled, reruns, minted, echoed>>

TransfersDone ==
  /\ worker.pc = "transfer"
  /\ ~MoreTurns
  /\ worker' = [worker EXCEPT !.pc = "native2"]
  /\ UNCHANGED <<maxHeight, pinned, utxo, handled, reruns, minted, echoed>>

----------------------------------------------------------------------------

Init ==
  /\ chain \in Chains
  /\ maxHeight = 0
  /\ pinned = {}
  /\ utxo = <<>>
  /\ worker = Idle
  /\ handled = {}
  /\ reruns = 0
  /\ minted = [t \in Ticks |-> 0]
  /\ echoed = [t \in Ticks |-> 0]

Next ==
  /\ \/ Advance \/ (\E h \in Heights : Reindex(h)) \/ FetchFails \/ Crash
     \/ StoreMints \/ NativeFirst \/ NativeAgain
     \/ Transfer \/ Fallback \/ PassOver \/ TransfersDone
  /\ UNCHANGED chain

Spec == Init /\ [][Next]_vars

----------------------------------------------------------------------------
(* The reference: tokens moved one transaction at a time, in block order. *)

Book == [Ticks \X Point -> Nat]

PinsOf(b, tx) == SelectSeq(b.pins, LAMBDA pin : pin.tx = tx)

InBook(book, tx, t) == MapThenSumSet(LAMBDA p : book[t, p], Ins(tx))

RefValid(book, pin) ==
  /\ pin.ok /\ pin.content # <<>>
  /\ \A i \in DOMAIN pin.content :
       /\ pin.content[i].amt > 0
       /\ Usable(pin.tx, pin.content[i].vout)
       /\ Asked(pin.content, pin.content[i].tick) <= InBook(book, pin.tx, pin.content[i].tick)

(* What output v of tx gets: all to output 0, or as its first transfer pin says. *)
RefOut(book, b, tx, t, v) ==
  LET have == InBook(book, tx, t)
      pin == PinsOf(b, tx)[1]
      here == SelectSeq(pin.content, LAMBDA item : item.vout = v)
  IN  CASE PinsOf(b, tx) = <<>> -> IF v = 0 THEN have ELSE 0
        [] PinsOf(b, tx) # <<>> /\ RefValid(book, pin) ->
             Asked(here, t) + IF v = FirstUsable(tx) THEN have - Asked(pin.content, t) ELSE 0
        [] OTHER -> IF HasUsable(tx) /\ v = FirstUsable(tx) THEN have ELSE 0

RefMove(book, b, tx) ==
  [q \in DOMAIN book |->
     IF q[2] \in Ins(tx) THEN 0
     ELSE IF q[2][1] = tx THEN book[q] + RefOut(book, b, tx, q[1], q[2][2])
     ELSE book[q]]

RefBlock(book, b) ==
  FoldLeft(LAMBDA bk, tx : RefMove(bk, b, tx),
           [q \in DOMAIN book |->
              book[q] + MapThenSumSet(LAMBDA w : w.doc.amt,
                          {w \in b.mints : w.doc.verify /\ <<w.key.tick, w.key.point>> = q})],
           b.txs)

Reference(n) ==
  FoldLeft(RefBlock, [q \in Ticks \X Point |-> 0], [h \in 1..n |-> chain.blocks[h]])

(***************************************************************************)
(* Blocks two native passes around the transfer pins suffice for.  An      *)
(* input is ready when nothing of this block has to be moved to it first;  *)
(* a transaction without a pin has all its inputs ready or none, and       *)
(* nothing waits for a transaction that itself waits for the second pass.  *)
(***************************************************************************)
Ready(b, p) == p[1] \notin Range(b.txs) \/ \E w \in b.mints : w.key.point = p

First(b, tx) == PinsOf(b, tx) # <<>> \/ \A p \in Ins(tx) : Ready(b, p)

Simple(b) ==
  \A tx \in Range(b.txs) :
    /\ \A p \in Ins(tx) : Ready(b, p) \/ First(b, p[1])
    /\ First(b, tx) \/ \A p \in Ins(tx) : ~Ready(b, p)

----------------------------------------------------------------------------
(* Properties. *)

TypeOK ==
  /\ chain \in Chain
  /\ maxHeight \in 0..Tip
  /\ pinned \subseteq Heights
  /\ DOMAIN utxo \subseteq Key
  /\ \A k \in DOMAIN utxo : utxo[k] \in Doc
  /\ worker \in Worker
  /\ handled \subseteq Heights
  /\ reruns \in 0..MaxReruns
  /\ minted \in [Ticks -> Nat]
  /\ echoed \in [Ticks -> Nat]

(***************************************************************************)
(* Transfers create no tokens: what the live documents of a tick hold was  *)
(* minted, or is the copy sendAllAmountToFirstOutput makes of inputs it    *)
(* leaves live.                                                            *)
(***************************************************************************)
NoInflation == \A t \in Ticks : Amount(OfTick(Live, t)) <= minted[t] + echoed[t]

(* tx of block b spent the document: it is named in it, or the document was made blank, *)
(* which on btc only a transaction with a transfer pin may do.                          *)
Marked(k, doc, tx, b) ==
  \/ doc.optx = tx
  \/ /\ doc = Blank(k).doc
     /\ chain.kind = "btc" => \E i \in DOMAIN b.pins : b.pins[i].tx = tx

(***************************************************************************)
(* A document is spent only by a transaction of an indexed block that      *)
(* spends its outpoint.  On btc that transaction is named in it, unless it *)
(* has a transfer pin and, rejected, made the document blank; on mvc       *)
(* native transfers make them blank, too.                                  *)
(***************************************************************************)
SpentOnChain ==
  \A k \in DOMAIN utxo :
    ~utxo[k].live =>
      \E h \in pinned : \E i \in DOMAIN chain.blocks[h].txs :
        LET tx == chain.blocks[h].txs[i]
        IN  k.point \in Ins(tx) /\ Marked(k, utxo[k], tx, chain.blocks[h])

Holding(t, p) == Amount({k \in Live : k.tick = t /\ k.point = p})

SpentBy(n) == UNION {Ins(tx) : tx \in UNION {Range(chain.blocks[h].txs) : h \in 1..n}}

(***************************************************************************)
(* On btc, without faults, when every block so far is Simple, the two      *)
(* native passes, the rounds over the transfer pins and the repeated       *)
(* writes leave every unspent output with exactly what moving the tokens   *)
(* transaction by transaction gives it; re-runs included, unless a         *)
(* transfer was rejected.                                                  *)
(***************************************************************************)
Agreement ==
  ( /\ chain.kind = "btc" /\ ~chain.faulty
    /\ worker.pc = "idle"
    /\ handled = 1..maxHeight
    /\ reruns = 0 \/ \A t \in Ticks : echoed[t] = 0
    /\ \A h \in 1..maxHeight : Simple(chain.blocks[h]) ) =>
  LET book == Reference(maxHeight) IN
  \A t \in Ticks, p \in Point \ SpentBy(maxHeight) : Holding(t, p) = book[t, p]

(***************************************************************************)
(* Running a handled Simple block again moves nothing, as long as no       *)
(* transfer was rejected: the transfer pins are found as processed, and    *)
(* what the native transfers moved is spent.  (In a longer chain of native *)
(* transfers a second run moves tokens on; a rejected transfer whose       *)
(* result was moved on natively is not found as processed any more.)       *)
(***************************************************************************)
RerunHarmless ==
  [][(~chain.faulty /\ worker.again /\ Simple(Block) /\ \A t \in Ticks : echoed[t] = 0) =>
       \A t \in Ticks, p \in Point : Holding(t, p)' = Holding(t, p)]_vars

(***************************************************************************)
(* "Spent the input UTXO" (man/mrc20.go): once a transfer pin has its      *)
(* result, nothing live remains at the inputs of its transaction.          *)
(***************************************************************************)
InputsSpent ==
  \A h \in handled : \A i \in DOMAIN chain.blocks[h].pins :
    LET pin == chain.blocks[h].pins[i]
    IN  CheckOperationtx(pin.tx) => GetMrc20UtxoByOutPutList(Ins(pin.tx)) = {}
=============================================================================
