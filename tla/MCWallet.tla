------------------------------ MODULE MCWallet ------------------------------
(* Stories of alice's wallet and of pins that others make and move. *)
EXTENDS Inscriber

MCDust == 5
MCSmall == 3

Out(addr, value) == [addr |-> addr, value |-> value, script |-> <<>>]

Pin(op) ==
  [own |-> TRUE, ended |-> TRUE, parts |-> 6, op |-> op, about |-> [path |-> "file", items |-> <<>>]]

In(from, amount, script) == [from |-> from, amount |-> amount, script |-> script]

(* A transaction that was there before, with what its first input holds. *)
Old(id, script, outs) == Tx(<<id, 0>>, <<In(<<<<id, 0>>, 0>>, 0, script)>>, outs)

At(id) == <<<<id, 0>>, 1>>

Coin(id, value) == Old(id, <<>>, <<Out("alice", value)>>)

Shovel(id) == Old(id, <<Pin("create")>>, <<Out("alice", MCDust)>>)

Doc(id, to, amt) ==
  [point |-> At(id), to |-> to, amt |-> amt, value |-> MCDust, live |-> TRUE]

Token(id) == Coin(id, MCDust)

Careful == {"waits", "apart", "made"}

Story(base, ops) ==
  [kind |-> "btc", base |-> base, foreign |-> <<>>, ops |-> ops,
   tick |-> [count |-> 0, pay |-> [to |-> "", amt |-> 0]], fee |-> 4, docs |-> {}, silent |-> {},
   care |-> Careful]

Needs(story, count, to, amt) ==
  [story EXCEPT !.tick = [count |-> count, pay |-> [to |-> to, amt |-> amt]]]

Mint == [op |-> "mint"]
Transfer(amt) == [op |-> "transfer", to |-> "bob", amt |-> amt]
Deploy(exists) == [op |-> "deploy", exists |-> exists]

(* Two pins and a payment; one pin twice, of two; none; too few. *)
Mints ==
  {Needs(Story(<<Shovel("s1"), Shovel("s2"), Coin("c", 60)>>, <<Mint>>), 2, "bob", 3),
   Needs(Story(<<Shovel("s1"), Shovel("s2"), Coin("c", 60)>>, <<Mint, Mint>>), 1, "bob", 8),
   Needs(Story(<<Shovel("s1"), Coin("c", 80)>>, <<Mint, Mint>>), 0, "", 0),
   Needs(Story(<<Shovel("s1"), Coin("c", 60)>>, <<Mint>>), 2, "", 0)}

(* An amount in one output, then what was left of it; in two; more than there is. *)
Transfers ==
  {[Story(<<Token("t1"), Shovel("s1"), Coin("c", 80)>>, <<Transfer(2), Transfer(1)>>)
      EXCEPT !.docs = {Doc("t1", "alice", 3)}],
   [Story(<<Token("t1"), Token("t2"), Coin("c", 80)>>, <<Transfer(3), Transfer(2)>>)
      EXCEPT !.docs = {Doc("t1", "alice", 1), Doc("t2", "alice", 3)}],
   [Needs(Story(<<Token("t1"), Coin("c", 80)>>, <<Transfer(2), Mint, Transfer(2)>>), 0, "bob", 8)
      EXCEPT !.docs = {Doc("t1", "alice", 3)}]}

(* Coins of different sizes: the change is paid out, dropped, or what is missing. *)
Coins ==
  {[Story(<<Token("t1"), Shovel("s1")>> \o coins, <<Transfer(1)>>) EXCEPT !.docs = {Doc("t1", "alice", 1)}] :
     coins \in {<<Coin("c", 20)>>, <<Coin("c", 14)>>, <<Coin("c", 6), Coin("d", 6)>>,
                <<Coin("c", 4), Coin("d", 4), Coin("e", 4)>>, <<Coin("c", 11)>>}}

Deploys ==
  {[Story(<<Coin("c", 60)>>, <<Deploy(TRUE), Deploy(FALSE)>>) EXCEPT !.fee = fee] : fee \in {4, 10}}

(* The second of two commands does not wait: both take the same pins, or coins. *)
Hurried ==
  {[Needs(Story(<<Shovel("s1"), Coin("c", 30), Coin("d", 30)>>, <<Mint, Mint>>), 1, "", 0)
      EXCEPT !.care = {"apart", "made"}],
   [Story(<<Token("t1"), Coin("c", 30), Coin("d", 30)>>, <<Transfer(1), Deploy(FALSE)>>)
      EXCEPT !.docs = {Doc("t1", "alice", 2)}, !.care = {"apart", "made"}]}

(* Bob sends tokens on without a pin, in an output of another value; alice does not see it yet. *)
Gift(id, from) == Tx(<<id, 0>>, <<In(from, MCDust, <<>>)>>, <<Out("alice", 3)>>)

Received ==
  {[Story(<<Old("b1", <<>>, <<Out("bob", MCDust)>>), Coin("c", 30)>>, <<Transfer(2)>>)
      EXCEPT !.docs = {Doc("b1", "bob", 2)}, !.foreign = <<Gift("g1", At("b1"))>>, !.care = care] :
     care \in {{"waits", "apart"}, {"apart"}}}

(* Two pins at one output; a pin and tokens at one. *)
Merged ==
  {[Needs(Story(<<Shovel("s1"), Shovel("s2"), Coin("c", 60)>>, <<Mint>>), 2, "", 0)
      EXCEPT !.foreign = <<Tx(<<"two", 0>>, <<In(At("s1"), MCDust, <<>>), In(At("s2"), MCDust, <<>>)>>,
                              <<Out("alice", 10)>>)>>,
             !.care = {"waits", "made"}],
   [Story(<<Shovel("s1"), Token("t1"), Coin("c", 60)>>, <<Transfer(3)>>)
      EXCEPT !.docs = {Doc("s1", "alice", 2), Doc("t1", "alice", 1)}, !.care = {"waits", "made"}]}

----------------------------------------------------------------------------
(* Pins of others, and where they go. *)
Others(foreign) ==
  [Story(<<Old("d", <<>>, <<Out("bob", 4)>>), Old("e", <<>>, <<Out("bob", 6)>>)>>, <<>>)
     EXCEPT !.foreign = foreign]

T(id, ins, outs) == Tx(<<id, 0>>, ins, outs)
D(script) == In(At("d"), 4, script)
E(script) == In(At("e"), 6, script)
Of4(id, script) == In(At(id), 4, script)

(* Two inputs with a pin, to two outputs; then together, the second pin's satoshi first. *)
Two ==
  Others(<<T("f", <<D(<<Pin("create")>>), E(<<Pin("create")>>)>>, <<Out("bob", 4), Out("alice", 6)>>),
           T("g", <<In(<<<<"f", 0>>, 2>>, 6, <<>>), Of4("f", <<>>)>>,
             <<Out("alice", 3), Out("bob", 3), Out("carol", 4)>>)>>)

(* What is in the script of the only input. *)
Scripts ==
  {Others(<<T("f", <<D(script)>>, <<Out("carol", 4)>>)>>) :
     script \in {<<Pin("create"), [Pin("hide") EXCEPT !.own = FALSE]>>,
                 <<[Pin("create") EXCEPT !.own = FALSE]>>, <<Pin("create"), Pin("modify")>>,
                 <<[Pin("create") EXCEPT !.ended = FALSE]>>, <<[Pin("init") EXCEPT !.parts = 1]>>,
                 <<[Pin("revoke") EXCEPT !.parts = 5]>>, <<[Pin("create") EXCEPT !.parts = 5]>>}}

(* A pin in an output, which is for the last that has an address. *)
OpReturn(witness) ==
  [T("f", <<D(<<Pin("create")>>)>>,
     <<Out("bob", 2), [Out("", 0) EXCEPT !.script = <<Pin("create")>>], Out("carol", 1), Out("burn", 1)>>)
     EXCEPT !.witness = witness]

(* It moves in its own block or a later one; is paid as a fee; is burnt. *)
Moved ==
  {Others(<<T("f", <<D(<<Pin("create")>>)>>, <<Out("bob", 4)>>), T("g", ins, outs)>>) :
     ins \in {<<Of4("f", <<>>), E(<<>>)>>, <<E(<<>>), Of4("f", <<>>)>>},
     outs \in {<<Out("carol", 6), Out("bob", 4)>>, <<Out("carol", 6)>>, <<Out("bob", 4), Out("burn", 1)>>,
               <<Out("carol", 4), Out("burn", 6)>>, <<Out("bob", 4), Out("carol", 2), Out("", 4)>>}}

(* It moves twice in one block; two pins have one output, and one id; its offset is not zero; *)
(* the first output is worth nothing, when it moves and when it is made; two move together.   *)
Lost ==
  {Others(foreign) :
     foreign \in {<<T("f", <<D(<<Pin("create")>>)>>, <<Out("bob", 4)>>),
                    T("g", <<Of4("f", <<>>)>>, <<Out("alice", 4)>>),
                    T("h", <<Of4("g", <<>>)>>, <<Out("carol", 4)>>)>>,
                  <<T("f", <<D(<<Pin("create")>>), E(<<Pin("modify")>>)>>, <<Out("bob", 9)>>)>>,
                  <<T("f", <<D(<<>>), E(<<Pin("create")>>)>>, <<Out("bob", 5), Out("alice", 5)>>),
                    T("g", <<In(<<<<"f", 0>>, 1>>, 5, <<>>)>>, <<Out("carol", 3), Out("bob", 2)>>)>>,
                  <<T("f", <<D(<<Pin("create")>>)>>, <<Out("bob", 4)>>),
                    T("g", <<Of4("f", <<>>)>>, <<Out("burn", 0), Out("carol", 4)>>)>>,
                  <<T("f", <<D(<<Pin("create")>>)>>, <<Out("bob", 0), Out("carol", 4)>>)>>,
                  <<T("f", <<D(<<Pin("create")>>), E(<<Pin("create")>>)>>, <<Out("bob", 4), Out("carol", 6)>>),
                    T("g", <<Of4("f", <<>>), In(<<<<"f", 0>>, 2>>, 6, <<>>)>>, <<Out("bob", 10)>>),
                    T("h", <<In(<<<<"g", 0>>, 1>>, 10, <<>>)>>, <<Out("carol", 10)>>)>>}}

(* The node does not return the transaction before the pin's input: of its transfer, which fails *)
(* or is over before, and of its inscription, after which it goes with the first output.         *)
Silent ==
  {[Others(foreign) EXCEPT !.silent = {<<"d", 0>>}] :
     foreign \in {<<T("f", <<E(<<Pin("create")>>)>>, <<Out("bob", 6)>>),
                    T("g", <<D(<<>>), In(<<<<"f", 0>>, 1>>, 6, <<>>)>>, <<Out("bob", 4), Out("carol", 6)>>)>>,
                  <<T("f", <<D(<<>>), E(<<Pin("create")>>)>>, <<Out("bob", 4), Out("carol", 6)>>),
                    T("g", <<Of4("f", <<>>)>>, <<Out("carol", 4)>>)>>,
                  <<T("f", <<E(<<Pin("create")>>)>>, <<Out("bob", 3), Out("bob", 3)>>),
                    T("g", <<In(<<<<"f", 0>>, 2>>, 3, <<>>), D(<<>>), In(<<<<"f", 0>>, 1>>, 3, <<>>)>>,
                      <<Out("carol", 2)>>)>>}}

(* microvisionchain: the first output with an address; a new transaction has another hash. *)
Mvc(hash) ==
  LET f == [T("f", <<D(<<>>)>>, <<[Out("", 0) EXCEPT !.script = <<Pin("create")>>], Out("bob", 4)>>)
              EXCEPT !.witness = FALSE] IN
  [Others(<<f, [T("g", <<In(<<<<"f", 0>>, 2>>, 4, <<>>)>>, <<Out("alice", 4)>>) EXCEPT !.hash = hash],
            T("h", <<Of4("g", <<>>)>>, <<Out("carol", 4)>>)>>)
     EXCEPT !.kind = "mvc"]

MCStories ==
  Mints \cup Transfers \cup Coins \cup Deploys \cup Hurried \cup Received \cup Merged
    \cup {Two} \cup Scripts \cup {Others(<<OpReturn(w)>>) : w \in BOOLEAN} \cup Moved \cup Lost
    \cup Silent \cup {Mvc(hash) : hash \in {<<"g", 0>>, <<"other", 0>>}}
=============================================================================
