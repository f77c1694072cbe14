------------------------------ MODULE Ownership ------------------------------
(***************************************************************************)
(* Which pins a transaction holds and which output they, or pins it        *)
(* spends, belong to: the adapters of bitcoin and of microvisionchain.     *)
(*                                                                         *)
(* A transaction is a record: id; hash, what TxHash() of the library       *)
(* returns, which is not the id of microvisionchain's newer transactions;  *)
(* in, a sequence of the outputs spent and their witness scripts; out, a   *)
(* sequence of an address, a value and a script.  The address of a         *)
(* "nulldata" output is "burn", that of a "nonstandard" one "".            *)
(*                                                                         *)
(* A script is the sequence of the envelopes in it: whether under the      *)
(* configured protocol id, whether ended, how many pushes it has, their    *)
(* operation, and the rest (about).                                        *)
(*                                                                         *)
(* worth gives the value of the outputs whose transactions the node        *)
(* returns (GetValueByTx); the others are not in its domain.               *)
(***************************************************************************)
EXTENDS Integers, Sequences, FiniteSetsExt

None == [op |-> "none"]

Nowhere == <<<<"", 0>>, 0>>

NoAnswer == [addr |-> "", out |-> <<>>]

(* parseOnePin, parseOpReturnOnePin: operation, path, encryption, version, type, payload. *)
Readable(e) ==
  /\ e.ended
  /\ \/ e.op = "init"
     \/ e.op = "revoke" /\ e.parts >= 5
     \/ e.parts >= 6

(* ParsePin, ParseOpReturnPin: the last envelope before a foreign one, if it can be read. *)
ParsePin(script) ==
  LET foreign == {k \in DOMAIN script : ~script[k].own}
      last == IF foreign = {} THEN Len(script) ELSE Min(foreign) - 1 IN
  IF last > 0 /\ Readable(script[last])
  THEN [op |-> script[last].op, about |-> script[last].about]
  ELSE None

----------------------------------------------------------------------------
OutSum(tx, n) == MapThenSumSet(LAMBDA k : tx.out[k].value, 1..n)

(* Mutation of FirstBeyond: an output that ends there counts. *)
FirstReaching(tx, amount) ==
  LET ns == {n \in DOMAIN tx.out : OutSum(tx, n) >= amount} IN
  IF ns = {} THEN 0 ELSE Min(ns)

(* The first output that reaches beyond the given amount, 0 if none does. *)
FirstBeyond(tx, amount) ==
  LET ns == {n \in DOMAIN tx.out : OutSum(tx, n) > amount} IN
  IF ns = {} THEN 0 ELSE Min(ns)

(* What the inputs before the i-th are worth. *)
Before(tx, i, worth) == MapThenSumSet(LAMBDA k : worth[tx.in[k].from], 1..(i - 1))

Addressable(tx) == {n \in DOMAIN tx.out : tx.out[n].addr \notin {"", "burn"}}

(* The first input before the i-th whose value the node does not tell, the i-th if it tells all. *)
Heard(tx, i, worth) == Min({k \in 1..(i - 1) : tx.in[k].from \notin DOMAIN worth} \cup {i})

(***************************************************************************)
(* GetOWnerAddress: where what the i-th input carries goes, its offset in  *)
(* that input ignored.  Values are asked for until they are more than the  *)
(* outputs; when one is not told the call fails.                           *)
(***************************************************************************)
GetOwnerAddress(tx, i, worth) ==
  LET k == Heard(tx, i, worth)
      n == IF i = 1 THEN 1 ELSE FirstBeyond(tx, Before(tx, k, worth)) IN
  IF k < i /\ Before(tx, k, worth) <= OutSum(tx, Len(tx.out)) THEN NoAnswer
  ELSE IF n = 0 THEN [addr |-> "", out |-> Nowhere]
  ELSE [addr |-> tx.out[n].addr, out |-> <<tx.hash, n>>]

(* GetPinOwner of bitcoin: the output of a pin in the i-th input; without address, or when the *)
(* node does not tell a value, the first.                                                      *)
GetPinOwner(tx, i, worth) ==
  LET n == IF Len(tx.in) = 1 \/ Len(tx.out) = 1 \/ i = 1 THEN 1
           ELSE IF Heard(tx, i, worth) < i THEN 0
           ELSE FirstBeyond(tx, Before(tx, i, worth)) IN
  IF n \in Addressable(tx) THEN [addr |-> tx.out[n].addr, n |-> n] ELSE [addr |-> "", n |-> 1]

(* GetOpReturnPinOwner: the last output with an address. *)
GetOpReturnPinOwner(tx) ==
  IF Addressable(tx) = {} THEN [addr |-> "", n |-> 1]
  ELSE LET n == Max(Addressable(tx)) IN [addr |-> tx.out[n].addr, n |-> n]

(* GetPinOwner of microvisionchain: the first one. *)
GetPinOwnerMvc(tx) ==
  IF Addressable(tx) = {} THEN [addr |-> "", n |-> 1]
  ELSE LET n == Min(Addressable(tx)) IN [addr |-> tx.out[n].addr, n |-> n]

----------------------------------------------------------------------------
(* A pin is born (InitialOwner) where it is at first; input, 0 for a pin in an output, is for *)
(* the reference below.                                                                       *)
Inscription(tx, owner, data, input) ==
  [id |-> <<tx.id, owner.n>>, out |-> <<tx.id, owner.n>>, addr |-> owner.addr,
   born |-> owner.addr, op |-> data.op, about |-> data.about, input |-> input]

InOutput(tx, owner, n) == Inscription(tx, owner, ParsePin(tx.out[n].script), 0)

(* The outputs that hold a pin, of which CatchPinsByTx takes the first. *)
OpReturns(tx) ==
  {n \in DOMAIN tx.out : tx.out[n].addr = "" /\ ParsePin(tx.out[n].script) # None}

(***************************************************************************)
(* CatchPinsByTx of bitcoin: a pin in an output with an owner excludes     *)
(* those of the inputs; nothing is looked for in a transaction without     *)
(* witness.                                                                *)
(***************************************************************************)
CatchPinsByTx(tx, worth) ==
  IF ~tx.witness THEN {}
  ELSE IF OpReturns(tx) # {} /\ GetOpReturnPinOwner(tx).addr # ""
  THEN {InOutput(tx, GetOpReturnPinOwner(tx), Min(OpReturns(tx)))}
  ELSE {Inscription(tx, GetPinOwner(tx, i, worth), ParsePin(tx.in[i].script), i) :
          i \in {i \in DOMAIN tx.in : ParsePin(tx.in[i].script) # None}}

(* CatchPinsByTx of microvisionchain: the first pin in an output. *)
CatchPinsByTxMvc(tx) ==
  {InOutput(tx, GetPinOwnerMvc(tx), n) : n \in {n \in OpReturns(tx) : \A k \in OpReturns(tx) : n <= k}}

(* CatchTransfer: for each of the given outputs that the block spends, where its pin goes; *)
(* nothing when the call for it fails.                                                     *)
CatchTransfer(outs, block, worth) ==
  LET spends == {s \in (DOMAIN block) \X (1..4) :
                   /\ s[2] \in DOMAIN block[s[1]].in /\ block[s[1]].in[s[2]].from \in outs
                   /\ GetOwnerAddress(block[s[1]], s[2], worth) # NoAnswer} IN
  [o \in {block[s[1]].in[s[2]].from : s \in spends} |->
     LET s == CHOOSE s \in spends : block[s[1]].in[s[2]].from = o IN
     GetOwnerAddress(block[s[1]], s[2], worth)]

----------------------------------------------------------------------------
(***************************************************************************)
(* The reference: satoshis leave a transaction in the order in which they  *)
(* enter it.  A pin is on the first of its input, or of its output.        *)
(***************************************************************************)
Place(tx, sat) ==
  LET ns == {n \in DOMAIN tx.out : OutSum(tx, n - 1) <= sat /\ sat < OutSum(tx, n)} IN
  IF ns = {} THEN [out |-> Nowhere, offset |-> 0]
  ELSE LET n == Min(ns) IN [out |-> <<tx.id, n>>, offset |-> sat - OutSum(tx, n - 1)]

Born(pin, tx, worth) ==
  Place(tx, IF pin.input = 0 THEN OutSum(tx, pin.id[2] - 1) ELSE Before(tx, pin.input, worth))

(* Where a satoshi is after a transaction that has it in its i-th input. *)
Follow(place, tx, i, worth) == Place(tx, Before(tx, i, worth) + place.offset)

(* What GetOWnerAddress can follow: the first satoshi of an output, spent where the node tells *)
(* all values and the transaction's hash is its id, not to a first output worth nothing.       *)
Followable(place, tx, i, told) ==
  /\ place.offset = 0
  /\ Heard(tx, i, told) = i /\ tx.hash = tx.id
  /\ i = 1 => tx.out[1].value > 0
=============================================================================
