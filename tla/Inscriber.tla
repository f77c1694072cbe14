------------------------------ MODULE Inscriber ------------------------------
(***************************************************************************)
(* The wallet of the command line (cmd/cli): "mrc20op deploy", "mint" and  *)
(* "transfer" look up pins, tokens and coins in the index and at the node, *)
(* build a commit and a reveal transaction (inscribe/mrc20_service), sign  *)
(* and broadcast them; the indexer finds the pins in them, follows what    *)
(* they spend and credits the tokens.  Both use the index, the wallet      *)
(* between two blocks.                                                     *)
(*                                                                         *)
(* The wallet is alice's and there is one tick.  546 satoshi are Dust, and *)
(* Small the change that is not worth an output.  A transaction costs one  *)
(* unit for each input and output; a reveal chain.fee.                     *)
(***************************************************************************)
EXTENDS Ownership, SequencesExt

CONSTANTS
  Stories,  \* the circumstances considered
  Dust, Small

VARIABLES
  chain,    \* fixed: kind, the chain; base, its transactions at first; foreign, those others
            \* send; ops, the commands; tick, the shovels and the payment a mint needs; fee;
            \* docs, the tokens there are; silent, the transactions that the node does not
            \* return to the indexer; care, what the story keeps to (see below)
  txs,      \* the transactions the node has accepted
  blocks,   \* for each block, how many of them it and the earlier ones confirm
  indexed,  \* how many blocks are indexed
  sent,     \* how many of the foreign transactions have been sent
  pins,     \* pins, with the address they were born to
  truth,    \* for each, where its satoshi is, and whether it was always simple to follow
  tokens,   \* mrc20utxoview: point, owner, amount, PointValue, whether unspent
  used,     \* mrc20shovel: the pins used for the tick
  work      \* for each command: how far it is, the inputs it picked, its transactions

walletvars == <<chain, txs, blocks, indexed, sent, pins, truth, tokens, used, work>>

Ops == DOMAIN chain.ops

Op(k) == chain.ops[k]

NoTx == [id |-> <<"none", 0>>]

InscriberInit ==
  /\ chain \in Stories
  /\ txs = chain.base /\ blocks = <<Len(chain.base)>> /\ indexed = 0 /\ sent = 0
  /\ pins = {} /\ truth = <<>> /\ tokens = chain.docs /\ used = {}
  /\ work = [k \in Ops |-> [pc |-> "ready", inputs |-> <<>>, commit |-> NoTx, reveal |-> NoTx]]

----------------------------------------------------------------------------
(* The node. *)

Inputs(tx) == {tx.in[i].from : i \in DOMAIN tx.in}

Outputs(ts) == UNION {{<<t.id, n>> : n \in DOMAIN t.out} : t \in ts}

All == Range(txs)

OutputOf(o) == LET t == CHOOSE t \in All : t.id = o[1] IN t.out[o[2]]

Worth == [o \in Outputs(All) |-> OutputOf(o).value]

(* GetRawTransaction, as far as it succeeds. *)
Told == [o \in {o \in Outputs(All) : o[1] \notin chain.silent} |-> Worth[o]]

Unspent == Outputs(All) \ UNION {Inputs(t) : t \in All}

Confirmed == Range(SubSeq(txs, 1, Last(blocks)))

TotalOf(seq) == MapThenSumSet(LAMBDA i : seq[i], DOMAIN seq)

(* The amount an input is signed for has to be right, also for outputs not known elsewhere. *)
Acceptable(tx) ==
  /\ Inputs(tx) \subseteq Unspent
  /\ \A i, j \in DOMAIN tx.in : tx.in[i].from = tx.in[j].from => i = j
  /\ \A i \in DOMAIN tx.in : tx.in[i].amount = Worth[tx.in[i].from]
  /\ TotalOf([i \in DOMAIN tx.in |-> tx.in[i].amount]) >= OutSum(tx, Len(tx.out))

(* SendRawTransaction; broadcastTx returns no error when it is refused. *)
Send(tx) == txs' = IF Acceptable(tx) THEN Append(txs, tx) ELSE txs

SendForeign ==
  /\ sent < Len(chain.foreign)
  /\ Acceptable(chain.foreign[sent + 1])
  /\ Send(chain.foreign[sent + 1]) /\ sent' = sent + 1
  /\ UNCHANGED <<chain, blocks, indexed, pins, truth, tokens, used, work>>

(* A block confirms the next transaction, or all. *)
Mine ==
  /\ \E n \in {Last(blocks) + 1, Len(txs)} :
       n \in (Last(blocks) + 1)..Len(txs) /\ blocks' = Append(blocks, n)
  /\ UNCHANGED <<chain, txs, indexed, sent, pins, truth, tokens, used, work>>

(* GetUtxo: listunspent with at least one confirmation. *)
GetUtxo == {o \in Outputs(Confirmed) \cap Unspent : OutputOf(o).addr = "alice"}

----------------------------------------------------------------------------
(* The indexer, block by block; Mrc20Mint and Mrc20Ledger have the details of the tick. *)

CaughtUp == indexed = Len(blocks)

Settled == CaughtUp /\ Last(blocks) = Len(txs)

NextBlock == SubSeq(txs, IF indexed = 0 THEN 1 ELSE blocks[indexed] + 1, blocks[indexed + 1])

Caught == UNION {IF chain.kind = "mvc" THEN CatchPinsByTxMvc(t) ELSE CatchPinsByTx(t, Told) :
                   t \in Range(NextBlock)}

(* Mutation of Fresh: no unique index. *)
FreshOrNot == {Caught}

(* BatchAddPins: one pin for each id, which is that of its output. *)
Fresh ==
  {s \in SUBSET Caught : /\ \A p, q \in s : p.id = q.id => p = q
                         /\ {p.id : p \in s} = {p.id : p \in Caught}}

(* handleTransfer: UpdateOne moves one of the pins at an output. *)
HandleTransfer(ps, outs) ==
  LET moves == CatchTransfer(outs, NextBlock, Told)
      at(o) == {p \in ps : p.out = o}
      hit == UNION {at(o) : o \in DOMAIN moves} IN
  {(ps \ s) \cup {[p EXCEPT !.addr = moves[p.out].addr, !.out = moves[p.out].out] : p \in s} :
     s \in {s \in SUBSET hit : \A o \in DOMAIN moves :
               at(o) # {} => Cardinality(s \cap at(o)) = 1}}

Alone(ps) == {p.id : p \in {p \in ps : \A q \in ps \ {p} : q.out # p.out}}

(***************************************************************************)
(* The satoshi of each pin, by the reference.  A pin is simple to follow   *)
(* as long as it is Followable, moves once in a block, and shares no       *)
(* output with another, neither with the block's new pins nor after it.    *)
(***************************************************************************)
Start(p) ==
  LET tx == CHOOSE t \in All : t.id = p.id[1]
      at == Born(p, tx, Worth) IN
  [out |-> at.out, offset |-> at.offset, moved |-> FALSE,
   simple |-> p.born # "" /\ OutputOf(p.id).value > 0]

Step(place, tx) ==
  LET is == {i \in DOMAIN tx.in : tx.in[i].from = place.out} IN
  IF is = {} THEN place
  ELSE LET to == Follow(place, tx, Min(is), Worth) IN
       [out |-> to.out, offset |-> to.offset, moved |-> TRUE,
        simple |-> place.simple /\ ~place.moved /\ Followable(place, tx, Min(is), Told)]

Truth(between, after) ==
  [id \in {p.id : p \in after} |->
     LET p == CHOOSE p \in after : p.id = id
         start == IF id \in DOMAIN truth THEN [truth[id] EXCEPT !.moved = FALSE] ELSE Start(p)
         end == FoldLeft(Step, start, NextBlock) IN
     [end EXCEPT !.simple = end.simple /\ id \in Alone(between) \cap Alone(after)]]

Of(ps, tx, path) == {p \in ps : p.id[1] = tx.id /\ p.about.path = path}

(* What a mint may use: pins at the outputs, but that of the mint. *)
Shovels(ps, tx, p) ==
  {q \in ps : q.out \in Outputs({tx}) \ {p.id} /\ q.op # "hide" /\ q.id \notin used}

Paid(tx) ==
  \/ chain.tick.pay.to = ""
  \/ \E n \in DOMAIN tx.out :
       tx.out[n].addr = chain.tick.pay.to /\ tx.out[n].value >= chain.tick.pay.amt

(* Mrc20Validator.Mint: without a count nothing but the output is checked. *)
ValidMint(ps, tx, p) ==
  /\ p.about.items[1].n \in Addressable(tx)
  /\ chain.tick.count > 0 =>
       Paid(tx) /\ Cardinality(Shovels(ps, tx, p)) >= chain.tick.count

Credit(tx, n, amt, value) ==
  [point |-> <<tx.id, n>>, to |-> tx.out[n].addr, amt |-> amt, value |-> value, live |-> TRUE]

MintDocs(ps, tx) ==
  {LET n == p.about.items[1].n IN
   Credit(tx, IF n \in Addressable(tx) THEN n ELSE p.id[2],
          IF ValidMint(ps, tx, p) THEN 1 ELSE 0, OutputOf(p.id).value) : p \in Of(ps, tx, "mint")}

(* Pins that count as used: as many as needed, of each mint. *)
Takings(ps) ==
  LET mints == {<<t, p>> \in Range(NextBlock) \X ps :
                  p \in Of(ps, t, "mint") /\ ValidMint(ps, t, p) /\ chain.tick.count > 0}
      may == UNION {Shovels(ps, m[1], m[2]) : m \in mints} IN
  {s \in SUBSET {q.id : q \in may} :
     \A m \in mints :
       Cardinality(s \cap {q.id : q \in Shovels(ps, m[1], m[2])}) = chain.tick.count}

(***************************************************************************)
(* CreateMrc20TransferUtxo, and sendAllAmountToFirstOutput when the        *)
(* amounts are not covered; without a pin createMrc20NativeTransfer, which *)
(* copies the PointValue of the first input.                               *)
(***************************************************************************)
Receipts(ps, tx, ins) ==
  LET items == UNION {Range(p.about.items) : p \in Of(ps, tx, "transfer")}
      total == MapThenSumSet(LAMBDA d : d.amt, ins)
      asked == MapThenSumSet(LAMBDA it : it.amt, items)
      first == CHOOSE d \in ins : \E i \in DOMAIN tx.in :
                 tx.in[i].from = d.point /\ \A e \in ins, j \in 1..(i - 1) : tx.in[j].from # e.point
      to == Min(Addressable(tx)) IN
  IF Of(ps, tx, "transfer") = {} THEN {Credit(tx, 1, total, first.value)}
  ELSE IF asked > total \/ \E it \in items : it.n \notin Addressable(tx)
  THEN {Credit(tx, to, total, tx.out[to].value)}
  ELSE {Credit(tx, it.n, it.amt, tx.out[it.n].value) : it \in items}
         \cup (IF asked < total THEN {Credit(tx, to, total - asked, tx.out[to].value)} ELSE {})

Settle(ps, docs, tx) ==
  LET ins == {d \in docs : d.live /\ d.amt > 0 /\ d.point \in Inputs(tx)} IN
  (docs \ ins) \cup {[d EXCEPT !.live = FALSE] : d \in ins} \cup MintDocs(ps, tx)
    \cup (IF ins = {} THEN {} ELSE Receipts(ps, tx, ins))

(* DoIndexerRun. *)
IndexBlock ==
  /\ ~CaughtUp
  /\ \E moved \in HandleTransfer(pins, {p.out : p \in pins}), fresh \in Fresh :
       \E all \in HandleTransfer(moved \cup fresh, {p.out : p \in fresh}) :
         /\ pins' = all /\ truth' = Truth(moved \cup fresh, all)
         /\ \E taken \in Takings(all) : used' = used \cup taken
         /\ tokens' = FoldLeft(LAMBDA docs, t : Settle(all, docs, t), tokens, NextBlock)
  /\ indexed' = indexed + 1
  /\ UNCHANGED <<chain, txs, blocks, sent, work>>

----------------------------------------------------------------------------
(***************************************************************************)
(* The wallet.  A command picks pins or tokens, then coins, builds both    *)
(* transactions and sends them; the index and the node are asked one after *)
(* the other, and lists in any order.  Stories may keep to: "waits", the   *)
(* commands wait for each other and for the indexer; "apart", no output    *)
(* has two pins, or a pin and tokens; "made", no tokens were received      *)
(* without a pin.                                                          *)
(***************************************************************************)
Ready(k) ==
  /\ work[k].pc = "ready"
  /\ "waits" \in chain.care =>
       Settled /\ \A j \in 1..(k - 1) : work[j].pc = "done"

(* UpdateAndSignInput: a signature is for the amount given, whatever the output is worth. *)
Input(o, amount) == [from |-> o, amount |-> amount, script |-> <<>>]

Output(addr, value) == [addr |-> addr, value |-> value, script |-> <<>>]

Stop(k) ==
  /\ work' = [work EXCEPT ![k].pc = "done"]
  /\ UNCHANGED <<chain, txs, blocks, indexed, sent, pins, truth, tokens, used>>

Go(k, inputs) ==
  /\ work' = [work EXCEPT ![k].pc = "picked", ![k].inputs = inputs]
  /\ UNCHANGED <<chain, txs, blocks, indexed, sent, pins, truth, tokens, used>>

Orders(s, n) == {q \in TupleOf(s, n) : IsInjective(q)}

(* Taken one by one until they are worth what is needed. *)
Enough(s, worth, need) ==
  {q \in UNION {Orders(s, n) : n \in 1..Cardinality(s)} :
     LET sum(n) == TotalOf([i \in 1..n |-> worth[q[i]]]) IN
     sum(Len(q)) >= need /\ sum(Len(q) - 1) < need}

(* GetShovelListByAddress, also for a tick that needs more than there are. *)
Available == {p \in pins : p.addr = "alice" /\ p.op # "hide" /\ p.id \notin used}

GetShovels(k) ==
  /\ Ready(k) /\ Op(k).op = "mint"
  /\ IF Cardinality(Available) < chain.tick.count THEN Stop(k)
     ELSE \E q \in Orders(Available, chain.tick.count) :
            Go(k, [i \in DOMAIN q |-> Input(q[i].out, Worth[q[i].out])])

(* A token's output is signed for its PointValue. *)
GetMrc20Utxos(k) ==
  /\ Ready(k) /\ Op(k).op = "transfer"
  /\ LET own == {d \in tokens : d.live /\ d.amt > 0 /\ d.to = "alice"}
         lists == Enough(own, [d \in own |-> d.amt], Op(k).amt) IN
     IF lists = {} THEN Stop(k)
     ELSE \E q \in lists : Go(k, [i \in DOMAIN q |-> Input(q[i].point, q[i].value)])

Mrc20opDeploy(k) ==
  /\ Ready(k) /\ Op(k).op = "deploy"
  /\ IF Op(k).exists THEN Stop(k) ELSE Go(k, <<>>)

----------------------------------------------------------------------------
(* The two transactions. *)

(* An amount below Dust is raised to it. *)
PayTos ==
  LET pay == chain.tick.pay IN
  IF pay.to = "" THEN <<>> ELSE <<Output(pay.to, Max({pay.amt, Dust}))>>

(* buildEmptyRevealPsbt: the outputs after those of a mint's pins. *)
NewOutputs(k) ==
  CASE Op(k).op = "mint" -> <<Output("alice", Dust), Output("alice", Dust)>> \o PayTos
    [] Op(k).op = "transfer" -> <<Output("alice", Dust), Output(Op(k).to, Dust)>>
    [] Op(k).op = "deploy" -> <<Output("alice", Dust), Output("alice", Dust)>>

RevealOutputs(k) ==
  (IF Op(k).op = "mint"
   THEN [i \in DOMAIN work[k].inputs |-> Output("alice", work[k].inputs[i].amount)] ELSE <<>>)
    \o NewOutputs(k)

(* Mutation of RevealValue: the payment is not counted. *)
RevealValueUnpaid(k) == chain.fee + (IF Op(k).op = "mint" THEN 2 * Dust ELSE 0)

(* CalRevealPsbtFee: what the commit pays to the reveal; nothing for a deploy's outputs. *)
RevealValue(k) ==
  LET worth(outs) == TotalOf([i \in DOMAIN outs |-> outs[i].value]) IN
  chain.fee + CASE Op(k).op = "mint" -> worth(NewOutputs(k))
                [] Op(k).op = "transfer" -> NewOutputs(k)[2].value
                [] Op(k).op = "deploy" -> 0

(* Mutation of MintVout: the output after it. *)
MintVoutPast(k) == Len(work[k].inputs) + 3

(* The output that is to receive the mint. *)
MintVout(k) == Len(work[k].inputs) + 2

(* MakeTransferPayload has one item, for the second output. *)
Payload(k) ==
  [path |-> Op(k).op,
   items |-> CASE Op(k).op = "mint" -> <<[n |-> MintVout(k), amt |-> 1]>>
               [] Op(k).op = "transfer" -> <<[n |-> 2, amt |-> Op(k).amt]>>
               [] Op(k).op = "deploy" -> <<>>]

(* createMetaIdTxCtxData. *)
InscriptionScript(k) ==
  <<[own |-> TRUE, ended |-> TRUE, parts |-> 6,
     op |-> IF Op(k).op = "transfer" THEN "hide" ELSE "create", about |-> Payload(k)]>>

Tx(id, ins, outs) == [id |-> id, hash |-> id, witness |-> TRUE, in |-> ins, out |-> outs]

(* UpdateAndSignTaprootInput: the commit's first output, signed for with the inscription. *)
InscriptionInput(k) ==
  [from |-> <<<<"commit", k>>, 1>>, amount |-> RevealValue(k), script |-> InscriptionScript(k)]

(* signRevealPsbt. *)
RevealTx(k) ==
  Tx(<<"reveal", k>>, work[k].inputs \o <<InscriptionInput(k)>>, RevealOutputs(k))

CommitFee(ins, outs) == ins + outs

(* What is left of coins after the reveal and a commit with that many outputs. *)
Left(k, coins, outs) ==
  TotalOf([i \in DOMAIN coins |-> coins[i].amount]) - RevealValue(k) - CommitFee(Len(coins), outs)

CommitTx(k, coins) ==
  Tx(<<"commit", k>>, coins,
     <<Output("commit", RevealValue(k))>>
       \o (IF Left(k, coins, 2) > Small THEN <<Output("alice", Left(k, coins, 2))>> ELSE <<>>))

(* Mutation of Spendable: pins are not looked at. *)
SpendableAny == {o \in GetUtxo : \A d \in tokens : d.point # o}

(* GetBtcUtxos: one pin at an output is looked at. *)
Spendable ==
  {o \in GetUtxo :
     /\ {p \in pins : p.out = o} # {} => \E p \in pins : p.out = o /\ p.op = "hide"
     /\ \A d \in tokens : d.point # o}

(* signCommitPsbt. *)
Signed(list) == [i \in DOMAIN list |-> Input(list[i], Worth[list[i]])]

(* GetBtcUtxos, buildCommitPsbt and SignAll. *)
Fund(k) ==
  /\ work[k].pc = "picked" /\ ("waits" \in chain.care => CaughtUp)
  /\ LET lists == Enough(Spendable, Worth, RevealValue(k) + CommitFee(1, 2)) IN
     IF lists = {} THEN Stop(k)
     ELSE \E list \in lists :
       IF Left(k, Signed(list), 2) < 0 /\ Left(k, Signed(list), 1) < 0 THEN Stop(k)
       ELSE /\ work' = [work EXCEPT ![k].pc = "funded",
                          ![k].commit = CommitTx(k, Signed(list)), ![k].reveal = RevealTx(k)]
            /\ UNCHANGED <<chain, txs, blocks, indexed, sent, pins, truth, tokens, used>>

(* Inscribe: the commit, then the reveal, whether the commit was accepted or not. *)
SendCommit(k) ==
  /\ work[k].pc = "funded"
  /\ Send(work[k].commit) /\ work' = [work EXCEPT ![k].pc = "committed"]
  /\ UNCHANGED <<chain, blocks, indexed, sent, pins, truth, tokens, used>>

SendReveal(k) ==
  /\ work[k].pc = "committed"
  /\ Send(work[k].reveal) /\ work' = [work EXCEPT ![k].pc = "done"]
  /\ UNCHANGED <<chain, blocks, indexed, sent, pins, truth, tokens, used>>

Command(k) ==
  \/ GetShovels(k) \/ GetMrc20Utxos(k) \/ Mrc20opDeploy(k)
  \/ Fund(k) \/ SendCommit(k) \/ SendReveal(k)

Inscribe == SendForeign \/ Mine \/ IndexBlock \/ \E k \in Ops : Command(k)

Spec == InscriberInit /\ [][Inscribe]_walletvars

----------------------------------------------------------------------------
(* Type invariant; the pins have different ids, which are not those of their transactions alone. *)
TypeOK ==
  /\ chain \in Stories /\ sent \in 0..Len(chain.foreign)
  /\ indexed \in 0..Len(blocks) /\ Last(blocks) <= Len(txs)
  /\ \A t, u \in DOMAIN txs : txs[t].id = txs[u].id => t = u
  /\ \A p, q \in pins : p.id = q.id => p = q
  /\ DOMAIN truth = {p.id : p \in pins} /\ used \subseteq DOMAIN truth
  /\ \A d \in tokens : d.amt >= 0 /\ d.live \in BOOLEAN
  /\ \A k \in Ops : work[k].pc \in {"ready", "picked", "funded", "committed", "done"}

(* A pin is recorded at the output that holds its satoshi, unless that was paid as a fee:       *)
(* GetPinOwner and GetOWnerAddress agree with the order in which satoshis pass through          *)
(* transactions, for a pin that always was simple to follow.  The code does not follow others:  *)
(* it ignores the offset in an output, one move in a block is found, one of the pins at an      *)
(* output is moved, and a value that the node does not tell ends the search.                    *)
SatsFollowed ==
  \A p \in pins : truth[p.id].simple /\ truth[p.id].out # Nowhere => p.out = truth[p.id].out

(* No command spends a pin of alice's as a coin, or gives it away: what was made for her stays  *)
(* at an unspent output of hers, whatever coins are picked, while the wallet waits for the      *)
(* indexer.                                                                                     *)
AssetsKept ==
  {"waits", "apart"} \subseteq chain.care /\ Settled =>
    \A p \in pins : p.born = "alice" /\ p.op # "hide" =>
      p.addr = "alice" /\ p.out \in Unspent /\ OutputOf(p.out).addr = "alice"

Indexed(k) == work[k].reveal \in Range(SubSeq(txs, 1, blocks[indexed]))

(* What the commands made of what was given: a mint is one token, a transfer has an amount. *)
Due(who) ==
  MapThenSumSet(LAMBDA d : d.amt, {d \in chain.docs : d.to = who})
    + MapThenSumSet(
        LAMBDA k : CASE Op(k).op = "mint" -> IF who = "alice" THEN 1 ELSE 0
                     [] Op(k).op = "transfer" -> IF who = "alice" THEN -Op(k).amt
                                                 ELSE IF who = Op(k).to THEN Op(k).amt ELSE 0
                     [] Op(k).op = "deploy" -> 0,
        {k \in Ops : Indexed(k)})

(* Each mint the wallet made is accepted by the validator, with the pins and the payment that   *)
(* getShovels chose and at the output that the payload names, and each transfer gives exactly   *)
(* its amount; what the tokens' outputs are worth plays no part.                                *)
BalanceRight ==
  "waits" \in chain.care /\ chain.foreign = <<>> /\ Settled =>
    \A who \in {"alice", "bob"} :
      MapThenSumSet(LAMBDA d : d.amt, {d \in tokens : d.live /\ d.to = who}) = Due(who)

(* A commit that the node took is not left without its reveal, for the key of the commit's      *)
(* output is kept nowhere; but a deploy at a low fee, whose two outputs CalRevealPsbtFee does   *)
(* not count, pins at one output and tokens received natively do leave it so.                   *)
NoStranded ==
  {"waits", "apart", "made"} \subseteq chain.care =>
    \A k \in Ops :
      /\ work[k].pc = "done" /\ work[k].commit \in All
      /\ Op(k).op = "deploy" => chain.fee >= 2 * Dust
      => work[k].reveal \in All
=============================================================================
