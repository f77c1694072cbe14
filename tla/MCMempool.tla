----------------------------- MODULE MCMempool -----------------------------
(***************************************************************************)
(* Instances of Mempool: pins and tokens of block 1 at the outputs m and   *)
(* n; a spends m with a transfer pin, b moves natively what n, or a, or    *)
(* both hold, or spends m itself and so replaces a or is replaced by it.   *)
(***************************************************************************)
EXTENDS Mempool

MCTxs == {"m", "n", "a", "b"}
MCOld == {"m", "n"}
MCAddresses == {"alice", "bob"}

TxOf(ins, to, pin, transfer) == [ins |-> ins, to |-> to, pin |-> pin, transfer |-> transfer]

(* What b spends besides n. *)
Transactions(spends) ==
  [m |-> TxOf({}, "alice", TRUE, FALSE), n |-> TxOf({}, "alice", TRUE, FALSE),
   a |-> TxOf({"m"}, "bob", TRUE, TRUE), b |-> TxOf(spends, "bob", FALSE, FALSE)]

Spends == {{"n"}, {"a"}, {"m"}, {"a", "n"}}

ChainOf(spends, prompt, faulty, crashing) ==
  [tx |-> Transactions(spends), prompt |-> prompt, steady |-> faulty, fails |-> faulty, crashes |-> crashing]

MCChains ==
  {ChainOf(s, TRUE, FALSE, FALSE) : s \in Spends}
  \cup {ChainOf(s, TRUE, TRUE, FALSE) : s \in {{"n"}, {"a", "n"}}}
  \cup {ChainOf(s, TRUE, FALSE, TRUE) : s \in {{"n"}, {"a", "n"}}}

AnnouncedChains == {ChainOf({"n"}, FALSE, FALSE, FALSE)}
=============================================================================
