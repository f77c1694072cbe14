--------------------------- MODULE MCMrc20Ledger ---------------------------
(***************************************************************************)
(* Instances of Mrc20Ledger.  Block 1 holds the mint transaction m, which  *)
(* leaves 3 t and 1 u at its output 0 and 2 t at its output 1.  Then come  *)
(* a, b and c, in one block or two, which spend each other's outputs and   *)
(* m's in every way, each natively or with a transfer pin.                 *)
(***************************************************************************)
EXTENDS Mrc20Ledger

MCTicks == {"t", "u"}
MCTxs == {"m", "a", "b", "c"}
MCHashes == MCTxs \cup {"a'", "b'", "c'"}

(* btc, and mvc with transactions below version 10 or not. *)
Adapters == {"btc", "mvc", "mvc10"}
Hash(adapter) ==
  [m |-> "m", a |-> IF adapter = "mvc10" THEN "a'" ELSE "a",
   b |-> IF adapter = "mvc10" THEN "b'" ELSE "b", c |-> IF adapter = "mvc10" THEN "c'" ELSE "c"]

Moves == {"a", "b", "c"}
M(v) == <<"m", v>>
A(v) == <<"a", v>>
B(v) == <<"b", v>>

Minting(t, v, n) ==
  [key |-> [tick |-> t, point |-> M(v), index |-> 0],
   doc |-> [amt |-> n, live |-> TRUE, verify |-> TRUE, deploy |-> FALSE, optx |-> "none"]]

(* What a transaction can be: native, or with a transfer pin of this content. *)
ContentOf(kind) ==
  CASE kind = "native" -> <<>>
    [] kind = "part"   -> <<[tick |-> "t", amt |-> 1, vout |-> 1]>>
    [] kind = "twice"  -> <<[tick |-> "t", amt |-> 1, vout |-> 0], [tick |-> "t", amt |-> 1, vout |-> 0]>>
    [] kind = "over"   -> <<[tick |-> "t", amt |-> 9, vout |-> 0]>>
    [] kind = "badout" -> <<[tick |-> "u", amt |-> 1, vout |-> 2]>>

UsableOf(kind) ==
  CASE kind = "native" -> <<TRUE, TRUE>>
    [] kind = "badout" -> <<FALSE, TRUE, FALSE>>
    [] OTHER -> <<TRUE, TRUE, FALSE>>

(* Each output is spent once; every transaction spends at least one. *)
Spendings ==
  {s \in {<<M(0)>>, <<M(0), M(1)>>}
         \X {<<A(0)>>, <<A(1)>>, <<M(1)>>, <<M(1), A(0)>>, <<A(0), A(1)>>}
         \X {<<B(0)>>, <<B(0), A(1)>>, <<A(0)>>, <<A(0), M(1)>>, <<B(0), M(1)>>} :
     /\ ToSet(s[1]) \cap ToSet(s[2]) = {}
     /\ ToSet(s[3]) \cap (ToSet(s[1]) \cup ToSet(s[2])) = {}}

(* Blocks 2 and 3: the transactions up to position cut, and the rest. *)
ChainOf(adapter, faulty, spend, kind, cut) ==
  LET order == <<"a", "b", "c">>
      pin(x) == [tx |-> x, ok |-> TRUE, content |-> ContentOf(kind[x])]
      block(txs) ==
        [txs |-> txs, mints |-> {},
         pins |-> LET with == SelectSeq(txs, LAMBDA x : kind[x] # "native")
                  IN  [i \in DOMAIN with |-> pin(with[i])]]
  IN  [kind |-> IF adapter = "btc" THEN "btc" ELSE "mvc", faulty |-> faulty,
       tx |-> [x \in MCTxs |->
                 [ins |-> CASE x = "m" -> <<>> [] x = "a" -> spend[1]
                            [] x = "b" -> spend[2] [] x = "c" -> spend[3],
                  usable |-> IF x = "m" THEN <<TRUE, TRUE>> ELSE UsableOf(kind[x]),
                  hash |-> Hash(adapter)[x]]],
       blocks |-> <<[txs |-> <<"m">>, pins |-> <<>>,
                     mints |-> {Minting("t", 0, 3), Minting("u", 0, 1), Minting("t", 1, 2)}],
                    block(SubSeq(order, 1, cut)), block(SubSeq(order, cut + 1, 3))>>]

(* A choice of kinds in which every kind follows and precedes native moves. *)
Kinds ==
  {k \in [Moves -> {"native", "part", "twice", "over", "badout"}] :
     k["a"] \in {"native", "part", "over"} /\ k["b"] # "over" /\ k["c"] \in {"native", "twice"}}

SoundChains ==
  {ChainOf(adapter, FALSE, spend, kind, cut) :
     adapter \in {"btc", "mvc"}, spend \in Spendings, kind \in Kinds, cut \in {2, 3}}

(* Crashes and lost blocks: two shapes of dependency. *)
FaultyChains ==
  {ChainOf(adapter, TRUE, spend, kind, 2) :
     adapter \in Adapters,
     spend \in {<<<<M(0)>>, <<M(1), A(0)>>, <<B(0)>>>>, <<<<M(0), M(1)>>, <<A(0)>>, <<B(0), A(1)>>>>},
     kind \in {k \in Kinds : k["c"] = "native"}}

MCChains == SoundChains \cup FaultyChains

(* The violations: one rejected transfer, its result moved on natively. *)
RejectedChains ==
  {ChainOf("btc", FALSE, <<<<M(0)>>, <<A(0)>>, <<B(0)>>>>,
           [a |-> "over", b |-> "native", c |-> "native"], 3)}
=============================================================================
