------------------------------ MODULE MCReaders ------------------------------
(* The readers of the pin log: small logs, one module enabled in each. *)
EXTENDS PinLog, TLC

CONSTANTS Limit, Supply, Back

(* ErrTotalSupply, of the validator of collections. *)
ASSUME SupplyAssumption == Supply \in Nat \cup {-1}

VARIABLES
  tweets, reactions, counted, mempoolData, hosts, copied, sync, fixing, marks, raced,
  names, opHistory, task,
  collections, items, job, todo, merging,
  rows, blockHost, blockAddr, blockInfo, totals, pev,
  controls, passes, heard, turn

metasovars ==
  <<tweets, reactions, counted, mempoolData, hosts, copied, sync, fixing, marks, raced>>
namevars == <<names, opHistory, task>>
nftvars == <<collections, items, job, todo, merging>>
pevvars == <<rows, blockHost, blockAddr, blockInfo, totals, pev>>
accessvars == <<controls, passes, heard, turn>>

Metaso == INSTANCE MetasoSync
Name == INSTANCE Metaname
Nft == INSTANCE Mrc721
Value == INSTANCE Pev
Access == INSTANCE MetaAccess

MCKeys ==
  {"tweet", "tweetlike", "metasodonate", "tweetcomment", "mempool", "metablock",
   "metaname", "metanametransfer", "mrc721", "mrc721transfer"}

(* A log for one of the modules; every pin is alice's and stays. *)
Log(module, log) ==
  LET pins == {log[i].pin : i \in DOMAIN log} IN
  [module |-> module, log |-> log, late |-> 0, by |-> [p \in pins |-> "alice"],
   route |-> [p \in pins |-> <<>>], ticks |-> 0, marks |-> {"fixhost", "fixstatistics"},
   meta |-> <<>>, early |-> 0, alone |-> {}]

Doc(b, p, k, to) == [block |-> b, pin |-> p, kind |-> k, to |-> to, host |-> TRUE, ok |-> TRUE]

(* Two buzzes, a like and an unlike; what is of another host, or cannot be parsed. *)
Liked ==
  Log("metaso",
      <<Doc(1, "b1", "buzz", ""), Doc(2, "l1", "like", "b1"), Doc(2, "b2", "buzz", ""),
        Doc(2, "l2", "unlike", "b1"), Doc(3, "l3", "like", "b2")>>)

Answered ==
  [Log("metaso",
       <<Doc(1, "b1", "buzz", ""), Doc(1, "c1", "comment", "b1"),
         [Doc(2, "b2", "buzz", "") EXCEPT !.host = FALSE], Doc(2, "d1", "donate", "b1"),
         [Doc(2, "c2", "comment", "b1") EXCEPT !.ok = FALSE]>>)
   EXCEPT !.ticks = 2]

(* A like is seen in the mempool first, and again in its block. *)
Announced ==
  Log("metaso",
      <<Doc(1, "b1", "buzz", ""), Doc(0, "l1", "like", "b1"), Doc(0, "f1", "follow", "b1"),
        Doc(2, "l1", "like", "b1")>>)

Upgraded ==
  [Log("metaso", <<Doc(1, "b1", "buzz", ""), Doc(1, "l1", "like", "b1"), Doc(2, "b2", "buzz", "")>>)
   EXCEPT !.marks = {}]

Overtaken == [Liked EXCEPT !.late = 1]

(* Two registrations of one name, a modification by pin, one by name; a name that moves twice. *)
NameDoc(b, p, op, of, name) ==
  [block |-> b, pin |-> p, op |-> op, of |-> of, name |-> name, space |-> "metaid", ok |-> TRUE]

Named ==
  [Log("metaname",
       <<NameDoc(1, "n1", "create", "", "x"), NameDoc(1, "n2", "create", "", "x"),
         NameDoc(2, "n3", "modify", "n1", ""), NameDoc(3, "n4", "modify", "", "x"),
         [NameDoc(3, "n5", "create", "", "y") EXCEPT !.ok = FALSE]>>)
   EXCEPT !.route["n1"] = <<"bob", "carol">>, !.route["n2"] = <<"bob">>]

(* A collection of two and three items, one seen in the mempool first. *)
NftDoc(b, p, k, item) ==
  [block |-> b, pin |-> p, kind |-> k, of |-> "c", item |-> item, ok |-> TRUE]

Minted ==
  Log("mrc721",
      <<NftDoc(1, "c1", "collection", ""), NftDoc(0, "i1", "item", ""), NftDoc(2, "i2", "item", ""),
        NftDoc(2, "i1", "item", ""), NftDoc(2, "i3", "item", "")>>)

(* An item that is described and moves twice. *)
Described ==
  [Log("mrc721",
       <<NftDoc(1, "c1", "collection", ""), NftDoc(1, "i1", "item", ""),
         NftDoc(2, "d1", "desc", "i1")>>)
   EXCEPT !.route["i1"] = <<"bob", "carol">>]

Unmade ==
  Log("mrc721",
      <<NftDoc(1, "c1", "collection", ""), [NftDoc(2, "c2", "collection", "") EXCEPT !.ok = FALSE],
        NftDoc(2, "i1", "item", "")>>)

(* Two metablocks; pins about their own, about another's, about one that moves. *)
ValueDoc(b, p, k, to, host) ==
  [block |-> b, pin |-> p, kind |-> k, to |-> to, host |-> host]

Valued ==
  [Log("pev",
       <<ValueDoc(1, "b1", "buzz", "", "h1"), ValueDoc(1, "l1", "like", "b1", "h2"),
         ValueDoc(2, "f1", "follow", "alice", "h1"), ValueDoc(2, "o1", "other", "", "unknown"),
         ValueDoc(3, "b2", "buzz", "b1", "h2"), ValueDoc(3, "l2", "unlike", "b1", "h1")>>)
   EXCEPT !.by["l1"] = "bob", !.meta = << <<1, 1, 1>>, <<2, 3, 3>> >>]

ValuedEarly == [Valued EXCEPT !.early = 1]

ValuedTwice == [Valued EXCEPT !.meta = << <<1, 1, 1>>, <<2, 2, 1>> >>]

ValuedMoved == [Valued EXCEPT !.route["b1"] = <<"carol">>, !.route["l1"] = <<"carol">>]

(* The pending blocks follow an earlier block than the last one; an insert overtakes. *)
ValuedAgain == [Valued EXCEPT !.meta = << <<1, 1, 0>>, <<2, 3, 3>> >>]

ValuedLate == [Valued EXCEPT !.late = 1, !.early = 2]

(* A control and passes for it: before it, in its block, later; one that opens two pins.  *)
(* Blocks with a round of their own, or in rounds of several.                            *)
AccessDoc(b, p, k, to, opens, ok) ==
  [block |-> b, pin |-> p, kind |-> k, to |-> to, opens |-> opens, ok |-> ok]

Paid ==
  [Log("access",
       <<AccessDoc(0, "c1", "control", "", {"x"}, TRUE), AccessDoc(1, "a1", "pass", "c1", {}, TRUE),
         AccessDoc(1, "c1", "control", "", {"x"}, TRUE), AccessDoc(2, "a2", "pass", "c1", {}, TRUE),
         AccessDoc(3, "o1", "other", "", {}, TRUE)>>)
   EXCEPT !.by["a1"] = "bob", !.by["a2"] = "carol", !.alone = {1, 2, 3}]

(* The two later blocks in one round: the first is not run again. *)
PaidTogether == [Paid EXCEPT !.alone = {1}]

PaidTwice ==
  [Log("access",
       <<AccessDoc(0, "a1", "pass", "c1", {}, TRUE), AccessDoc(1, "c1", "control", "", {"x", "/y"}, TRUE),
         AccessDoc(1, "c2", "control", "", {"z"}, FALSE), AccessDoc(2, "a1", "pass", "c1", {}, TRUE),
         AccessDoc(2, "a2", "pass", "c2", {}, TRUE), AccessDoc(3, "a3", "pass", "c1", {}, FALSE)>>)
   EXCEPT !.by["a1"] = "bob", !.by["a3"] = "carol", !.alone = {1, 2, 3}]

PaidLater ==
  [Log("access",
       <<AccessDoc(1, "a1", "pass", "c1", {}, TRUE), AccessDoc(2, "c1", "control", "", {"x"}, TRUE),
         AccessDoc(2, "a2", "pass", "c1", {}, TRUE), AccessDoc(3, "o1", "other", "", {}, TRUE)>>)
   EXCEPT !.by["a1"] = "bob", !.by["a2"] = "carol", !.alone = {3}]

MCChains ==
  {Liked, Answered, Announced, Upgraded, Overtaken, Named, Minted, Described, Unmade,
   Valued, ValuedEarly, ValuedTwice, ValuedMoved, ValuedAgain, ValuedLate,
   Paid, PaidTogether, PaidTwice, PaidLater}

vars == <<logvars, metasovars, namevars, nftvars, pevvars, accessvars>>

Init ==
  LogInit /\ Metaso!MetasoInit /\ Name!NameInit /\ Nft!NftInit /\ Value!PevInit
    /\ Access!AccessInit

Index == LogNext /\ UNCHANGED <<metasovars, namevars, nftvars, pevvars, accessvars>>

SyncMetaso ==
  chain.module = "metaso" /\ Metaso!MetasoNext /\ UNCHANGED <<namevars, nftvars, pevvars, accessvars>>

SyncName ==
  chain.module = "metaname" /\ Name!NameNext /\ UNCHANGED <<metasovars, nftvars, pevvars, accessvars>>

SyncNft ==
  chain.module = "mrc721" /\ Nft!NftNext /\ UNCHANGED <<metasovars, namevars, pevvars, accessvars>>

SyncValue ==
  chain.module = "pev" /\ Value!PevNext /\ UNCHANGED <<metasovars, namevars, nftvars, accessvars>>

HandleAccess ==
  /\ chain.module = "access" /\ Access!AccessNext
  /\ UNCHANGED <<metasovars, namevars, nftvars, pevvars>>

Next == Index \/ SyncMetaso \/ SyncName \/ SyncNft \/ SyncValue \/ HandleAccess

(* The goroutines of the modules; not the blocks, which may stop coming. *)
Fairness ==
  /\ WF_vars(SyncMetaso /\ Metaso!Synchronization) /\ WF_vars(SyncMetaso /\ Metaso!FixStatistics)
  /\ WF_vars(SyncNft /\ Nft!NftSync) /\ WF_vars(SyncNft /\ Nft!SyncAddress)
  /\ WF_vars(HandleAccess /\ Access!AccessTurn)

Spec == Init /\ [][Next]_vars /\ Fairness

(* Types. *)
TypeOK ==
  LogTypeOK /\ Metaso!MetasoTypeOK /\ Name!NameTypeOK /\ Nft!NftTypeOK /\ Value!PevTypeOK
    /\ Access!AccessTypeOK

(* See MetasoSync. *)
NothingSkipped == Metaso!NothingSkipped

AtMostOnce == Metaso!AtMostOnce

TweetsArrive == Metaso!TweetsArrive

(* See Metaname, Mrc721 and Pev. *)
NameOwner == Name!NameOwner

SupplyKept == Nft!SupplyKept

ItemOwnerHeals == Nft!ItemOwnerHeals

ValuesAgree == Value!ValuesAgree

TotalsRight == Value!TotalsRight

(* See MetaAccess. *)
PassesArrive == Access!PassesArrive
=============================================================================
