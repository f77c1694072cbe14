----------------------------- MODULE Mrc20Mint -----------------------------
(***************************************************************************)
(* Deploying and minting MRC-20 tokens: the first half of Mrc20Handle in   *)
(* man/mrc20.go, the validators Deploy and Mint of man/mrc20_validator.go, *)
(* and the MongoDB calls they make (mrc20ticks, mrc20utxos and the         *)
(* mrc20mintid array of a pin).                                            *)
(*                                                                         *)
(* A worker is a goroutine inside DoIndexerRun: the main loop, a re-run of *)
(* one of the last four blocks, or the reindex API.  Each action is one    *)
(* database call, so everything a second worker or a crash can separate is *)
(* separate here.                                                          *)
(***************************************************************************)
EXTENDS Integers, Sequences, FiniteSets

CONSTANTS
  Workers,     \* goroutines that run DoIndexerRun
  Main,        \* the one that advances MaxHeight
  Tip,         \* best height of the chain; bounds the model
  Deploys,     \* deploy pins, each the mrc20id of the tick it may create
  Mints,       \* mint pins
  Shovels,     \* pins that mints can consume
  Names,       \* tick names
  Points,      \* transaction outputs, "tx:vout"
  Deploy,      \* content of each deploy pin
  Mint,        \* content and transaction of each mint pin
  Chains,      \* the block chains considered
  NoTick,      \* the empty mrc20id of a mint whose tick was not found
  Faulty       \* whether the node's answers may fail, the process may crash, and calls
               \* of reindex may be ahead of the loop

Heights == 1..Tip

(***************************************************************************)
(* Mrc20DeployInfo, for deploys whose own content is well formed.          *)
(* premined says whether output 1 has an address for the pre-mint;         *)
(* count and criteria stand for PinCheck: how many pins a mint consumes,   *)
(* and for each of lv, creator and path the pins that satisfy it.          *)
(***************************************************************************)
DeployInfo ==
  [name: Names, mintCount: Nat \ {0}, premine: Nat, premined: BOOLEAN,
   count: Nat, criteria: SUBSET (SUBSET Shovels), out: Points, premintTo: Points]

(***************************************************************************)
(* A mint pin: the tick it names, its own output, the output its vout      *)
(* selects (its own without a vout), whether chain, height window and vout *)
(* are acceptable, and whether the payment PayCheck asks for is made.      *)
(***************************************************************************)
MintInfo ==
  [tick: Deploys \cup {NoTick}, out: Points, to: Points, ok: BOOLEAN, pays: BOOLEAN]

(***************************************************************************)
(* What the blocks hold: the deploy pins and the mint pins of each block,  *)
(* in block order, and for each shovel pin the mint transactions whose     *)
(* outputs it passes through.                                              *)
(***************************************************************************)
Chain ==
  [deploys: [Heights -> Seq(Deploys)], mints: [Heights -> Seq(Mints)],
   route: [Shovels -> Seq(Mints)]]

ASSUME ConstantsAssumption ==
  /\ Main \in Workers
  /\ Tip \in Nat
  /\ NoTick \notin Deploys
  /\ IsFiniteSet(Shovels)
  /\ Deploy \in [Deploys -> DeployInfo]
  /\ \A d \in Deploys : Deploy[d].premine <= Deploy[d].mintCount
  /\ Mint \in [Mints -> MintInfo]
  /\ \A c \in Chains : c \in Chain
  /\ Faulty \in BOOLEAN

(* What a deploy credits at output 1 of its transaction; its pin is at output 0. *)
Premined(d) == IF Deploy[d].premined THEN Deploy[d].premine ELSE 0

(* The outputs that the mint pins of block h are about, and its deploy pins. *)
MintOutputs(c, h) ==
  UNION {{Mint[c.mints[h][i]].out, Mint[c.mints[h][i]].to} : i \in DOMAIN c.mints[h]}

DeployOutputs(c, h) ==
  UNION {{Deploy[c.deploys[h][i]].out, Deploy[c.deploys[h][i]].premintTo} :
            i \in DOMAIN c.deploys[h]}

Outputs(c, h) == MintOutputs(c, h) \cup DeployOutputs(c, h)

(***************************************************************************)
(* Outputs are of one transaction, which is in one block: a mint is made   *)
(* by another transaction than the deploy whose id it names.               *)
(***************************************************************************)
ASSUME OutputsAssumption ==
  /\ \A d \in Deploys : Premined(d) > 0 => Deploy[d].premintTo # Deploy[d].out
  /\ \A d \in Deploys, m \in Mints :
       Mint[m].tick = d =>
         {Mint[m].out, Mint[m].to} \cap {Deploy[d].out, Deploy[d].premintTo} = {}
  /\ \A c \in Chains : \A g, h \in Heights :
       /\ g # h => Outputs(c, g) \cap Outputs(c, h) = {}
       /\ \A i \in DOMAIN c.mints[g], j \in DOMAIN c.mints[h] :
            c.mints[g][i] = c.mints[h][j] => g = h /\ i = j

VARIABLES
  chain,       \* the block chain, fixed
  maxHeight,   \* the highest block handed out (man.MaxHeight, which re-runs lower: see
               \* BlockIndexer; Reindex runs a block again)
  pinned,      \* heights whose pins are in the pins collection
  total,       \* mrc20ticks: totalminted of every saved tick
  utxo,        \* mrc20utxos: the documents inserted by SaveMrc20Pin
  used,        \* mrc20mintid of every shovel pin
  hop,         \* how far along its Route each shovel pin has been tracked
  worker,      \* the local state of every goroutine
  handled,     \* history: heights some worker has handled to the end
  again        \* history: workers whose block had been handled when they took it

vars == <<chain, maxHeight, pinned, total, utxo, used, hop, worker, handled, again>>

(* Mrc20Utxo, reduced to its unique key (index is 0 here) and its outcome. *)
Doc == [tick: Deploys \cup {NoTick}, point: Points,
        opt: {"deploy", "pre-mint", "mint"}, verify: BOOLEAN]

Stage == {"idle", "deploy", "saveTick", "mint", "shovel", "push", "count", "save"}

Local == [pc: Stage, h: 0..Tip, i: Nat, docs: Seq(Doc), snap: Nat, sel: SUBSET Shovels]

Idle == [pc |-> "idle", h |-> 0, i |-> 1, docs |-> <<>>, snap |-> 0, sel |-> {}]

Taking(h) == [pc |-> "deploy", h |-> h, i |-> 1, docs |-> <<>>, snap |-> 0, sel |-> {}]

Ticks == DOMAIN total

----------------------------------------------------------------------------
(* Where a worker stands. *)

At(w, stage) == worker[w].pc = stage

MoreDeploys(w) == worker[w].i <= Len(chain.deploys[worker[w].h])

CurDeploy(w) == chain.deploys[worker[w].h][worker[w].i]

MoreMints(w) == worker[w].i <= Len(chain.mints[worker[w].h])

CurMint(w) == chain.mints[worker[w].h][worker[w].i]

CurTick(w) == Mint[CurMint(w)].tick

(* The pins that sit in the outputs of mint transaction m, as tracked so far. *)
PinsIn(m) == {p \in Shovels : hop[p] > 0 /\ chain.route[p][hop[p]] = m}

(* handleTransfer of block h: a pin whose output the block spends moves once. *)
Tracked(h) ==
  [p \in Shovels |->
     IF /\ hop[p] < Len(chain.route[p])
        /\ \E i \in 1..Len(chain.mints[h]) : chain.mints[h][i] = chain.route[p][hop[p] + 1]
     THEN hop[p] + 1
     ELSE hop[p]]

----------------------------------------------------------------------------
(* Which block a worker takes. *)

(* GetSaveData and BatchAddPins have run: pins are stored, transfers tracked. *)
StartBlock(w, h) ==
  /\ worker' = [worker EXCEPT ![w] = Taking(h)]
  /\ again' = IF h \in handled THEN again \cup {w} ELSE again \ {w}
  /\ hop' = Tracked(h)
  /\ pinned' = pinned \cup {h}
  /\ UNCHANGED <<total, utxo, used, handled>>

(* Mutation of Advance: the comparison with the best height is off by one. *)
AdvancePastBest(w) ==
  /\ w = Main
  /\ At(w, "idle")
  /\ maxHeight <= Tip
  /\ maxHeight' = maxHeight + 1
  /\ StartBlock(w, maxHeight + 1)

(* IndexerRun: the block after MaxHeight; DoIndexerRun moves MaxHeight first. *)
Advance(w) ==
  /\ w = Main
  /\ At(w, "idle")
  /\ maxHeight < Tip
  /\ maxHeight' = maxHeight + 1
  /\ StartBlock(w, maxHeight + 1)

(* The last-four re-runs, which are of blocks up to MaxHeight, or the API  *)
(* and fixStatistics; that these ask for one after it counts as a fault.   *)
Reindex(w, h) ==
  /\ At(w, "idle")
  /\ Faulty \/ h <= maxHeight
  /\ StartBlock(w, h)
  /\ UNCHANGED maxHeight

(* CatchPins returns nothing when GetBlock fails, after MaxHeight has moved. *)
FetchFails ==
  /\ Faulty
  /\ At(Main, "idle")
  /\ maxHeight < Tip
  /\ maxHeight' = maxHeight + 1
  /\ UNCHANGED <<pinned, total, utxo, used, hop, worker, handled, again>>

(* Restart: MaxHeight is read back as the highest block with a stored pin. *)
Crash ==
  /\ Faulty
  /\ worker' = [w \in Workers |-> Idle]
  /\ maxHeight' \in pinned \cup {0}
  /\ \A h \in pinned : h <= maxHeight'
  /\ UNCHANGED <<pinned, total, utxo, used, hop, handled, again>>

----------------------------------------------------------------------------
(* Deploys: deployHandle, one pin after the other. *)

(* Mutation of NameTaken: the lookup is by mrc20id. *)
IdTaken(d) == d \in Ticks

NameTaken(d) == \E t \in Ticks : Deploy[t].name = Deploy[d].name

(* Of a deploy with a premine the transaction is then asked of the node. *)
LookupFails(d) == Faulty /\ Deploy[d].premine > 0

(* Validator.Deploy; a taken name or a failed lookup ends this deploy. *)
CheckDeploy(w) ==
  /\ At(w, "deploy")
  /\ MoreDeploys(w)
  /\ \/ /\ NameTaken(CurDeploy(w)) \/ LookupFails(CurDeploy(w))
        /\ worker' = [worker EXCEPT ![w].i = @ + 1]
     \/ /\ ~NameTaken(CurDeploy(w))
        /\ worker' = [worker EXCEPT ![w].pc = "saveTick"]
  /\ UNCHANGED <<maxHeight, pinned, total, utxo, used, hop, handled, again>>

DeployDocs(d) ==
  <<[tick |-> d, point |-> Deploy[d].out, opt |-> "deploy", verify |-> TRUE]>>
    \o IF Premined(d) > 0
       THEN <<[tick |-> d, point |-> Deploy[d].premintTo, opt |-> "pre-mint", verify |-> TRUE]>>
       ELSE <<>>

(* SaveMrc20Tick, at once (mrc20id is unique); its documents wait in the list. *)
SaveTick(w) ==
  /\ At(w, "saveTick")
  /\ LET d == CurDeploy(w) IN
     /\ total' = [t \in Ticks \cup {d} |-> IF t \in Ticks THEN total[t] ELSE Premined(d)]
     /\ worker' = [worker EXCEPT ![w].pc = "deploy", ![w].i = @ + 1,
                                 ![w].docs = @ \o DeployDocs(d)]
  /\ UNCHANGED <<maxHeight, pinned, utxo, used, hop, handled, again>>

DeploysDone(w) ==
  /\ At(w, "deploy")
  /\ ~MoreDeploys(w)
  /\ worker' = [worker EXCEPT ![w].pc = "mint", ![w].i = 1]
  /\ UNCHANGED <<maxHeight, pinned, total, utxo, used, hop, handled, again>>

----------------------------------------------------------------------------
(* Mints: CreateMrc20MintPin, one pin after the other. *)

MintDoc(t, p, ok) == [tick |-> t, point |-> p, opt |-> "mint", verify |-> ok]

(* The mint is kept as a document with verify = false and the next pin is taken. *)
RefuseMint(w, doc) ==
  worker' = [worker EXCEPT ![w].pc = "mint", ![w].i = @ + 1, ![w].docs = Append(@, doc)]

(* Mutation of LimitReached: one mint too many. *)
LimitPassed(t) == Deploy[t].mintCount < total[t]

(* MintCount - TotalMinted is unsigned: only equality counts as "limit reached". *)
LimitReached(t) == Deploy[t].mintCount = total[t]

(* GetMrc20TickInfo, and the checks on what it returned; GetTransaction may fail. *)
ReadTick(w) ==
  /\ At(w, "mint")
  /\ MoreMints(w)
  /\ LET m == Mint[CurMint(w)] IN
     \/ /\ m.tick \notin Ticks
        /\ RefuseMint(w, MintDoc(NoTick, m.out, FALSE))
     \/ /\ m.tick \in Ticks
        /\ LimitReached(m.tick) \/ ~m.ok \/ Faulty
        /\ RefuseMint(w, MintDoc(m.tick, m.out, FALSE))
     \/ /\ m.tick \in Ticks
        /\ ~LimitReached(m.tick)
        /\ m.ok
        /\ worker' = [worker EXCEPT ![w].pc = IF Deploy[m.tick].count = 0 THEN "count" ELSE "shovel",
                                    ![w].snap = total[m.tick]]
  /\ UNCHANGED <<maxHeight, pinned, total, utxo, used, hop, handled, again>>

(* Mutations of Fresh: used pins count again; pins from anywhere count. *)
FreshOrUsed(m, t) == PinsIn(m)

FreshAnywhere(m, t) == {p \in Shovels : t \notin used[p]}

(* The pins in the transaction's outputs not yet used for the tick, per criterion. *)
Fresh(m, t) == {p \in PinsIn(m) : t \notin used[p]}

Criteria(t) == IF Deploy[t].criteria = {} THEN {Shovels} ELSE Deploy[t].criteria

(* lvCheck, creatorCheck, pathCheck and onlyCountCheck each take count pins. *)
EnoughShovels(m, t) ==
  \A c \in Criteria(t) : Cardinality(Fresh(m, t) \cap c) >= Deploy[t].count

Picks(m, t) ==
  {f \in [Criteria(t) -> SUBSET Fresh(m, t)] :
     \A c \in Criteria(t) : f[c] \subseteq c /\ Cardinality(f[c]) = Deploy[t].count}

(* GetPinListByOutPutList and GetMrc20Shovel; PayCheck is looked at only here. *)
ReadShovels(w) ==
  /\ At(w, "shovel")
  /\ LET m == CurMint(w)
         t == CurTick(w) IN
     \/ /\ ~Mint[m].pays \/ ~EnoughShovels(m, t)
        /\ RefuseMint(w, MintDoc(t, Mint[m].to, FALSE))
     \/ /\ Mint[m].pays
        /\ \E f \in Picks(m, t) :
             worker' = [worker EXCEPT ![w].pc = "push",
                                      ![w].sel = UNION {f[c] : c \in Criteria(t)}]
  /\ UNCHANGED <<maxHeight, pinned, total, utxo, used, hop, handled, again>>

(* AddMrc20Shovel. *)
PushShovels(w) ==
  /\ At(w, "push")
  /\ used' = [p \in Shovels |->
                IF p \in worker[w].sel THEN used[p] \cup {CurTick(w)} ELSE used[p]]
  /\ worker' = [worker EXCEPT ![w].pc = "count", ![w].sel = {}]
  /\ UNCHANGED <<maxHeight, pinned, total, utxo, hop, handled, again>>

(* Mutation of AlreadyCounted: the filter forgets the mints. *)
DeployCounted(p) == \E d \in utxo : d.point = p /\ d.opt = "deploy"

(* Any document at the output makes UpdateMrc20TickInfo take the mint as counted. *)
AlreadyCounted(p) == \E d \in utxo : d.point = p

(* UpdateMrc20TickInfo writes the total read earlier plus one. *)
CountMint(w) ==
  /\ At(w, "count")
  /\ LET m == Mint[CurMint(w)] IN
     /\ total' = IF AlreadyCounted(m.to)
                 THEN total
                 ELSE [total EXCEPT ![m.tick] = worker[w].snap + 1]
     /\ worker' = [worker EXCEPT ![w].pc = "mint", ![w].i = @ + 1, ![w].snap = 0,
                                 ![w].docs = Append(@, MintDoc(m.tick, m.to, TRUE))]
  /\ UNCHANGED <<maxHeight, pinned, utxo, used, hop, handled, again>>

MintsDone(w) ==
  /\ At(w, "mint")
  /\ ~MoreMints(w)
  /\ worker' = [worker EXCEPT ![w].pc = "save"]
  /\ UNCHANGED <<maxHeight, pinned, total, utxo, used, hop, handled, again>>

----------------------------------------------------------------------------
(* SaveMrc20Pin: an unordered InsertMany, one document at a time. *)

KeyTaken(doc) == \E d \in utxo : d.tick = doc.tick /\ d.point = doc.point

SaveDoc(w) ==
  /\ At(w, "save")
  /\ worker[w].docs # <<>>
  /\ LET doc == Head(worker[w].docs) IN
     utxo' = IF KeyTaken(doc) THEN utxo ELSE utxo \cup {doc}
  /\ worker' = [worker EXCEPT ![w].docs = Tail(@)]
  /\ UNCHANGED <<maxHeight, pinned, total, used, hop, handled, again>>

(* Transfers follow (module Mrc20Ledger); the worker is free again. *)
EndBlock(w) ==
  /\ At(w, "save")
  /\ worker[w].docs = <<>>
  /\ worker' = [worker EXCEPT ![w] = Idle]
  /\ handled' = handled \cup {worker[w].h}
  /\ UNCHANGED <<maxHeight, pinned, total, utxo, used, hop, again>>

----------------------------------------------------------------------------

Init ==
  /\ chain \in Chains
  /\ maxHeight = 0
  /\ pinned = {}
  /\ total = [t \in {} |-> 0]
  /\ utxo = {}
  /\ used = [p \in Shovels |-> {}]
  /\ hop = [p \in Shovels |-> 0]
  /\ worker = [w \in Workers |-> Idle]
  /\ handled = {}
  /\ again = {}

Step(w) ==
  \/ Advance(w)
  \/ \E h \in Heights : Reindex(w, h)
  \/ CheckDeploy(w) \/ SaveTick(w) \/ DeploysDone(w)
  \/ ReadTick(w) \/ ReadShovels(w) \/ PushShovels(w) \/ CountMint(w) \/ MintsDone(w)
  \/ SaveDoc(w) \/ EndBlock(w)

Next == ((\E w \in Workers : Step(w)) \/ FetchFails \/ Crash) /\ UNCHANGED chain

Spec == Init /\ [][Next]_vars

----------------------------------------------------------------------------
(* Properties. *)

TypeOK ==
  /\ chain \in Chain
  /\ maxHeight \in 0..Tip
  /\ pinned \subseteq Heights
  /\ Ticks \subseteq Deploys
  /\ total \in [Ticks -> Nat]
  /\ utxo \subseteq Doc
  /\ used \in [Shovels -> SUBSET Deploys]
  /\ hop \in [Shovels -> Nat]
  /\ worker \in [Workers -> Local]
  /\ handled \subseteq Heights
  /\ again \subseteq Workers

(* The verified mints of tick t on record. *)
Minted(t) == {d \in utxo : d.tick = t /\ d.opt = "mint" /\ d.verify}

(* The verified mints of t that worker w will still insert. *)
Unsaved(w, t) ==
  {i \in 1..Len(worker[w].docs) :
     LET d == worker[w].docs[i]
     IN  d.tick = t /\ d.opt = "mint" /\ d.verify /\ ~KeyTaken(d)}

(***************************************************************************)
(* totalminted never passes mintcount, whatever workers, re-runs, skipped  *)
(* blocks and crashes do: every write is a value read below the limit,     *)
(* plus one.                                                               *)
(***************************************************************************)
TotalCap == \A t \in Ticks : total[t] <= Deploy[t].mintCount

(***************************************************************************)
(* Every verified mint, stored or about to be stored, has been counted, so *)
(* that the limit Mint checks is a limit on the mints that exist.          *)
(***************************************************************************)
MintsCounted ==
  \A t \in Ticks : \A w \in Workers :
    Premined(t) + Cardinality(Minted(t)) + Cardinality(Unsaved(w, t)) <= total[t]

(* A mint of t chose the output of another mint of t, or both chose one. *)
SharesPoint(t) ==
  \E m, n \in Mints :
    m # n /\ Mint[m].tick = t /\ Mint[n].tick = t /\ Mint[m].to \in {Mint[n].out, Mint[n].to}

(* A mint of t was confirmed in a block before its deploy. *)
MintedEarly(t) ==
  \E h \in Heights :
    /\ \E i \in DOMAIN chain.mints[h] : Mint[chain.mints[h][i]].tick = t
    /\ \A g \in 1..h : \A i \in DOMAIN chain.deploys[g] : chain.deploys[g][i] # t

(***************************************************************************)
(* Between two blocks the books balance: totalminted is the pre-mint that  *)
(* is stored plus the verified mints that are stored, unless two mints of  *)
(* the tick meet at one output (both are counted, one can be stored) or    *)
(* one came before the deploy (it is refused, and accepted uncounted when  *)
(* its block is run again).                                                *)
(***************************************************************************)
BooksBalance ==
  (\A w \in Workers : At(w, "idle")) =>
    \A t \in Ticks :
      ~SharesPoint(t) /\ ~MintedEarly(t) =>
        total[t] = Cardinality(Minted(t))
                   + IF \E d \in utxo : d.tick = t /\ d.opt = "pre-mint"
                     THEN Premined(t) ELSE 0

(***************************************************************************)
(* All the mints of a tick together have used up count pins each: no pin   *)
(* pays for two mints of one tick (used is what GetMrc20Shovel consults).  *)
(***************************************************************************)
ShovelsPaid ==
  \A t \in Ticks :
    Cardinality(Minted(t)) * Deploy[t].count
      <= Cardinality({p \in Shovels : t \in used[p]})

(***************************************************************************)
(* A stored mint was paid with pins that its own transaction carried: the  *)
(* pins are marked before the mint is counted and stored, so that holds    *)
(* at a crash or with a second worker too.                                 *)
(***************************************************************************)
MintPaid ==
  \A t \in Ticks : \A d \in Minted(t) :
    \E m \in Mints :
      /\ Mint[m].tick = t /\ Mint[m].to = d.point
      /\ Deploy[t].count
           <= Cardinality({p \in Shovels : t \in used[p]
                             /\ \E k \in 1..hop[p] : chain.route[p][k] = m})

(* No two ticks have one name: Deploy refuses a name GetMrc20TickInfo finds. *)
NamesUnique == \A s, t \in Ticks : Deploy[s].name = Deploy[t].name => s = t

(* The verified documents of tick t on record. *)
Verified(t) == {d \in utxo : d.tick = t /\ d.verify}

(***************************************************************************)
(* Handing a block that was handled to the end to DoIndexerRun again makes *)
(* no tick and changes neither the totals nor the verified documents: the  *)
(* lookups by name, by output and the unique key make the second run idle. *)
(* (It may add a refused mint, "minting limit reached", beside an accepted *)
(* one; and a mint refused because it came before its deploy is accepted.) *)
(***************************************************************************)
RerunHarmless ==
  [][(\E w \in again : ~At(w, "idle")) =>
       /\ Ticks' = Ticks
       /\ \A t \in Ticks : ~MintedEarly(t) => UNCHANGED <<total[t], Verified(t)>>]_vars
=============================================================================
