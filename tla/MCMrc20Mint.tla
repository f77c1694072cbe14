---------------------------- MODULE MCMrc20Mint ----------------------------
(***************************************************************************)
(* Instances of Mrc20Mint.  Tick A may be minted twice; its mints a1 and   *)
(* a2 are two pins of one transaction that chose the same output.  Deploy  *)
(* B has the name of A.  Tick C has a pre-mint and two criteria of one pin *)
(* each; a shovel pin may be carried through several mints of C.           *)
(***************************************************************************)
EXTENDS Mrc20Mint

MCDeploys == {"A", "B", "C"}
MCMints == {"a1", "a2", "a3", "c1", "c2"}
MCShovels == {"p1", "p2", "p3"}
MCNames == {"X", "Y"}
MCPoints == {"a1:0", "a2:1", "a:2", "a3:0", "c1:0", "c2:0", "A:0", "B:0", "C:0", "C:1"}

MCDeploy ==
  [A |-> [name |-> "X", mintCount |-> 2, premine |-> 0, premined |-> FALSE,
          count |-> 0, criteria |-> {}, out |-> "A:0", premintTo |-> "A:0"],
   B |-> [name |-> "X", mintCount |-> 1, premine |-> 1, premined |-> FALSE,
          count |-> 0, criteria |-> {}, out |-> "B:0", premintTo |-> "B:0"],
   C |-> [name |-> "Y", mintCount |-> 3, premine |-> 1, premined |-> TRUE,
          count |-> 1, criteria |-> {{"p1", "p2"}, {"p1", "p3"}},
          out |-> "C:0", premintTo |-> "C:1"]]

MCMint ==
  [a1 |-> [tick |-> "A", out |-> "a1:0", to |-> "a:2", ok |-> TRUE, pays |-> TRUE],
   a2 |-> [tick |-> "A", out |-> "a2:1", to |-> "a:2", ok |-> TRUE, pays |-> TRUE],
   a3 |-> [tick |-> "A", out |-> "a3:0", to |-> "a3:0", ok |-> TRUE, pays |-> TRUE],
   c1 |-> [tick |-> "C", out |-> "c1:0", to |-> "c1:0", ok |-> TRUE, pays |-> TRUE],
   c2 |-> [tick |-> "C", out |-> "c2:0", to |-> "c2:0", ok |-> TRUE, pays |-> TRUE]]

----------------------------------------------------------------------------
(* Chains of Tip blocks in which no mint but c2 is earlier than its deploy. *)

InOrder(S, h, at, order) == SelectSeq(order, LAMBDA x : x \in S /\ at[x] = h)

(* The pins each shovel passes, given the mints that carry it. *)
RouteOf(carried, at) ==
  [p \in MCShovels |->
     IF carried[p] = {"c1", "c2"} /\ at["c2"] < at["c1"]
     THEN <<"c2", "c1">>
     ELSE SelectSeq(<<"c1", "c2">>, LAMBDA m : m \in carried[p])]

ChainOf(deploys, mints, at, carried) ==
  [deploys |-> [h \in Heights |-> InOrder(deploys, h, at, <<"B", "A", "C">>)],
   mints   |-> [h \in Heights |-> InOrder(mints, h, at, <<"a1", "a2", "a3", "c1", "c2">>)],
   route   |-> RouteOf(carried, at)]

(* a1 and a2 are one transaction, hence in one block; p2 feeds c2, p3 c1.  The *)
(* ticks A and C do not interact, so A is deployed first.                      *)
MCChains ==
  {ChainOf(MCDeploys, MCMints, at, [p1 |-> s, p2 |-> {"c2"}, p3 |-> t]) :
     at \in {f \in [MCDeploys \cup MCMints -> Heights] :
               /\ f["a1"] = f["a2"]
               /\ f["A"] <= f["C"] /\ f["B"] <= 2
               /\ \A m \in MCMints \ {"c2"} : f[MCMint[m].tick] <= f[m]},
     s \in SUBSET {"c1", "c2"}, t \in {{"c1"}, {"c1", "c2"}}}

(* One chain for two workers: C may be minted once after its pre-mint. *)
SmallDeploys == {"C"}
SmallMints == {"c1", "c2"}
SmallDeploy == [d \in SmallDeploys |-> [MCDeploy[d] EXCEPT !.mintCount = 2]]
SmallMint == [m \in SmallMints |-> MCMint[m]]
SmallAt == [C |-> 1, c1 |-> 1, c2 |-> 2]
SmallChains ==
  {ChainOf(SmallDeploys, SmallMints, SmallAt, [p1 |-> {"c1", "c2"}, p2 |-> {"c2"}, p3 |-> {"c2"}])}

(* One tick, deployed in block 1 and minted in block 2. *)
LostDeploys == {"A"}
LostMints == {"a3"}
LostDeploy == [d \in LostDeploys |-> MCDeploy[d]]
LostMint == [m \in LostMints |-> MCMint[m]]
LostChains ==
  {ChainOf(LostDeploys, LostMints, [A |-> 1, a3 |-> 2],
           [p \in MCShovels |-> {}])}
=============================================================================
