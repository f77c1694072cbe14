-------------------------- MODULE Mrc20MintProofs --------------------------
(***************************************************************************)
(* Proofs about Mrc20Mint, for any chain, any number of workers and with   *)
(* or without failures.                                                    *)
(***************************************************************************)
EXTENDS Mrc20Mint, FiniteSetTheorems, TLAPS

(* A worker past the lookup of a deploy or a mint still stands at that pin. *)
StageOK(w) ==
  /\ worker[w].i \in Nat \ {0}
  /\ worker[w].pc # "idle" => worker[w].h \in Heights
  /\ worker[w].pc = "saveTick" => MoreDeploys(w)
  /\ worker[w].pc \in {"shovel", "push", "count"} =>
       /\ MoreMints(w)
       /\ CurTick(w) \in Ticks
       /\ worker[w].snap < Deploy[CurTick(w)].mintCount

(* The inductive invariant: a total about to be written was read below the cap. *)
IInv ==
  /\ TypeOK
  /\ \A w \in Workers : StageOK(w)
  /\ TotalCap

LEMMA IdleTyped == Idle \in Local /\ Idle.i = 1 /\ Idle.pc = "idle"
BY ConstantsAssumption DEF Idle, Local, Stage

LEMMA InitIInv == Init => IInv
<1> SUFFICES ASSUME Init PROVE IInv
  OBVIOUS
<1>1. Idle \in Local
  BY IdleTyped
<1>2. TypeOK
  BY <1>1, ConstantsAssumption DEF Init, TypeOK, Ticks
<1>3. \A w \in Workers : StageOK(w)
  BY ConstantsAssumption DEF Init, StageOK, Idle
<1>4. TotalCap
  BY DEF Init, TotalCap, Ticks
<1> QED BY <1>2, <1>3, <1>4 DEF IInv

(* The block a busy worker stands in, and the pins it lists. *)
LEMMA CurPins ==
  ASSUME IInv, NEW w \in Workers, worker[w].pc # "idle"
  PROVE  /\ chain.deploys[worker[w].h] \in Seq(Deploys)
         /\ chain.mints[worker[w].h] \in Seq(Mints)
         /\ MoreDeploys(w) => CurDeploy(w) \in Deploys
         /\ MoreMints(w) => /\ CurMint(w) \in Mints
                            /\ Mint[CurMint(w)] \in MintInfo
                            /\ CurTick(w) \in Deploys \cup {NoTick}
<1>1. worker[w].h \in Heights /\ worker[w].i \in Nat \ {0}
  BY DEF IInv, StageOK
<1>2. chain.deploys[worker[w].h] \in Seq(Deploys) /\ chain.mints[worker[w].h] \in Seq(Mints)
  BY <1>1 DEF IInv, TypeOK, Chain
<1>3. MoreDeploys(w) => CurDeploy(w) \in Deploys
  BY <1>1, <1>2 DEF MoreDeploys, CurDeploy
<1>4. MoreMints(w) => CurMint(w) \in Mints
  BY <1>1, <1>2 DEF MoreMints, CurMint
<1>5. \A m \in Mints : Mint[m] \in MintInfo /\ Mint[m].tick \in Deploys \cup {NoTick}
  BY ConstantsAssumption DEF MintInfo
<1> QED BY <1>2, <1>3, <1>4, <1>5 DEF CurTick

(* A step of w leaves every other worker where it was; no tick disappears. *)
LEMMA OthersStay ==
  ASSUME IInv, NEW w \in Workers, UNCHANGED chain, Ticks \subseteq Ticks',
         \A v \in Workers \ {w} : worker'[v] = worker[v]
  PROVE  \A v \in Workers \ {w} : StageOK(v)'
BY DEF IInv, StageOK, MoreDeploys, MoreMints, CurTick, CurMint

(* Every document list a step builds is a list of documents. *)
LEMMA DocsTyped ==
  /\ \A d \in Deploys : DeployDocs(d) \in Seq(Doc) /\ Premined(d) \in Nat
                        /\ Premined(d) <= Deploy[d].mintCount
  /\ \A t \in Deploys \cup {NoTick}, p \in Points, b \in BOOLEAN : MintDoc(t, p, b) \in Doc
<1>1. ASSUME NEW d \in Deploys
      PROVE  DeployDocs(d) \in Seq(Doc) /\ Premined(d) \in Nat
             /\ Premined(d) <= Deploy[d].mintCount
  <2>1. Deploy[d] \in DeployInfo /\ Deploy[d].premine <= Deploy[d].mintCount
    BY ConstantsAssumption
  <2>2. Premined(d) \in Nat /\ Premined(d) <= Deploy[d].mintCount
    BY <2>1 DEF Premined, DeployInfo
  <2>3. /\ [tick |-> d, point |-> Deploy[d].out, opt |-> "deploy", verify |-> TRUE] \in Doc
        /\ [tick |-> d, point |-> Deploy[d].premintTo, opt |-> "pre-mint", verify |-> TRUE] \in Doc
    BY <2>1 DEF Doc, DeployInfo
  <2> QED BY <2>2, <2>3 DEF DeployDocs
<1>2. \A t \in Deploys \cup {NoTick}, p \in Points, b \in BOOLEAN : MintDoc(t, p, b) \in Doc
  BY DEF MintDoc, Doc
<1> QED BY <1>1, <1>2

(***************************************************************************)
(* What is left to show of a step that moves only w and changes no total:  *)
(* that w's new local state is well typed and consistent with its stage.   *)
(***************************************************************************)
LEMMA LocalStep ==
  ASSUME IInv, NEW w \in Workers, NEW l \in Local,
         worker' = [worker EXCEPT ![w] = l],
         UNCHANGED <<chain, total>>,
         maxHeight' \in 0..Tip, pinned' \subseteq Heights, utxo' \subseteq Doc,
         used' \in [Shovels -> SUBSET Deploys], hop' \in [Shovels -> Nat],
         handled' \subseteq Heights, again' \subseteq Workers,
         StageOK(w)'
  PROVE  IInv'
<1>1. Ticks' = Ticks /\ TotalCap'
  BY DEF IInv, TotalCap, Ticks
<1>2. \A v \in Workers \ {w} : StageOK(v)'
  BY <1>1, OthersStay DEF IInv, TypeOK
<1>3. TypeOK'
  BY <1>1 DEF IInv, TypeOK
<1> QED BY <1>1, <1>2, <1>3 DEF IInv

LEMMA StartStep ==
  ASSUME IInv, NEW w \in Workers, NEW h \in Heights, StartBlock(w, h),
         UNCHANGED chain, maxHeight' \in 0..Tip
  PROVE  IInv'
<1>0. <<>> \in Seq(Doc) /\ h \in 0..Tip
  BY ConstantsAssumption DEF Heights
<1>1. /\ Taking(h) \in Local
      /\ Taking(h).pc = "deploy" /\ Taking(h).h = h /\ Taking(h).i = 1
  BY <1>0 DEF Taking, Local, Stage
<1>2. worker' = [worker EXCEPT ![w] = Taking(h)] /\ worker'[w] = Taking(h)
  BY DEF StartBlock, IInv, TypeOK
<1>3. StageOK(w)'
  BY <1>1, <1>2 DEF StageOK
<1>4. hop' \in [Shovels -> Nat]
  BY DEF StartBlock, Tracked, IInv, TypeOK
<1>5. /\ UNCHANGED total /\ pinned' \subseteq Heights /\ utxo' \subseteq Doc
      /\ used' \in [Shovels -> SUBSET Deploys] /\ handled' \subseteq Heights
      /\ again' \subseteq Workers
  BY DEF StartBlock, IInv, TypeOK
<1> QED BY <1>1, <1>2, <1>3, <1>4, <1>5, LocalStep

LEMMA AdvanceStep ==
  ASSUME IInv, NEW w \in Workers, Advance(w), UNCHANGED chain
  PROVE  IInv'
<1>1. maxHeight + 1 \in Heights /\ maxHeight' \in 0..Tip /\ StartBlock(w, maxHeight + 1)
  BY ConstantsAssumption DEF Advance, IInv, TypeOK, Heights
<1> QED BY <1>1, StartStep

LEMMA ReindexStep ==
  ASSUME IInv, NEW w \in Workers, NEW h \in Heights, Reindex(w, h), UNCHANGED chain
  PROVE  IInv'
<1>1. maxHeight' \in 0..Tip /\ StartBlock(w, h)
  BY DEF Reindex, IInv, TypeOK
<1> QED BY <1>1, StartStep

(* A busy worker that ends up between two pins, whatever it wrote but totals. *)
LEMMA PlainStep ==
  ASSUME IInv, NEW w \in Workers, worker[w].pc # "idle",
         NEW l \in Local, l.pc \in {"deploy", "mint", "save"}, l.i # 0, l.h = worker[w].h,
         worker' = [worker EXCEPT ![w] = l],
         UNCHANGED <<chain, total, maxHeight, pinned, hop, handled, again>>,
         utxo' \subseteq Doc, used' \in [Shovels -> SUBSET Deploys]
  PROVE  IInv'
<1>1. worker'[w] = l /\ l.i \in Nat \ {0} /\ l.h \in Heights
  BY DEF IInv, TypeOK, StageOK, Local
<1>2. StageOK(w)'
  BY <1>1 DEF StageOK
<1>3. /\ maxHeight' \in 0..Tip /\ pinned' \subseteq Heights /\ hop' \in [Shovels -> Nat]
      /\ handled' \subseteq Heights /\ again' \subseteq Workers
  BY DEF IInv, TypeOK
<1> QED BY <1>2, <1>3, LocalStep

LEMMA WorkerTyped ==
  ASSUME IInv, NEW w \in Workers
  PROVE  /\ worker[w] \in Local
         /\ worker[w].i \in Nat \ {0}
         /\ worker[w].docs \in Seq(Doc)
         /\ worker[w].sel \subseteq Shovels
         /\ utxo \subseteq Doc
         /\ used \in [Shovels -> SUBSET Deploys]
BY DEF IInv, TypeOK, StageOK, Local

LEMMA CheckDeployStep ==
  ASSUME IInv, NEW w \in Workers, CheckDeploy(w), UNCHANGED chain
  PROVE  IInv'
<1>0. worker[w].pc = "deploy" /\ MoreDeploys(w) /\ worker[w].h \in Heights
  BY DEF CheckDeploy, At, IInv, StageOK
<1>1. CASE worker' = [worker EXCEPT ![w].i = @ + 1]
  <2> DEFINE l == [worker[w] EXCEPT !.i = @ + 1]
  <2>1. l \in Local /\ l.pc = "deploy" /\ l.i # 0 /\ l.h = worker[w].h
    BY <1>0, WorkerTyped DEF Local
  <2>2. worker' = [worker EXCEPT ![w] = l]
    BY <1>1
  <2>3. UNCHANGED <<chain, total, maxHeight, pinned, hop, handled, again, utxo, used>>
    BY DEF CheckDeploy
  <2> HIDE DEF l
  <2> QED BY <1>0, <2>1, <2>2, <2>3, WorkerTyped, PlainStep
<1>2. CASE worker' = [worker EXCEPT ![w].pc = "saveTick"]
  <2> DEFINE l == [worker[w] EXCEPT !.pc = "saveTick"]
  <2>1. l \in Local /\ l.pc = "saveTick" /\ l.i = worker[w].i /\ l.h = worker[w].h
    BY WorkerTyped DEF Local, Stage
  <2>2. worker' = [worker EXCEPT ![w] = l] /\ worker'[w] = l
    BY <1>2 DEF IInv, TypeOK
  <2>3. UNCHANGED <<chain, total, maxHeight, pinned, hop, handled, again, utxo, used>>
    BY DEF CheckDeploy
  <2> HIDE DEF l
  <2>4. StageOK(w)'
    BY <1>0, <2>1, <2>2, <2>3, WorkerTyped DEF StageOK, MoreDeploys
  <2> QED BY <2>1, <2>2, <2>3, <2>4, LocalStep DEF IInv, TypeOK
<1> QED BY <1>1, <1>2 DEF CheckDeploy

LEMMA DeploysDoneStep ==
  ASSUME IInv, NEW w \in Workers, DeploysDone(w), UNCHANGED chain
  PROVE  IInv'
<1> DEFINE l == [worker[w] EXCEPT !.pc = "mint", !.i = 1]
<1>1. l \in Local /\ l.pc = "mint" /\ l.i # 0 /\ l.h = worker[w].h
  <2>1. 1 \in Nat \ {0} /\ "mint" \in Stage
    BY DEF Stage
  <2> QED BY <2>1, WorkerTyped DEF Local
<1>2. /\ worker[w].pc # "idle"
      /\ worker' = [worker EXCEPT ![w] = l]
      /\ UNCHANGED <<chain, total, maxHeight, pinned, hop, handled, again, utxo, used>>
  BY DEF DeploysDone, At
<1> HIDE DEF l
<1> QED BY <1>1, <1>2, WorkerTyped, PlainStep

LEMMA MintsDoneStep ==
  ASSUME IInv, NEW w \in Workers, MintsDone(w), UNCHANGED chain
  PROVE  IInv'
<1> DEFINE l == [worker[w] EXCEPT !.pc = "save"]
<1>1. l \in Local /\ l.pc = "save" /\ l.i # 0 /\ l.h = worker[w].h
  BY WorkerTyped DEF Local, Stage
<1>2. /\ worker[w].pc # "idle"
      /\ worker' = [worker EXCEPT ![w] = l]
      /\ UNCHANGED <<chain, total, maxHeight, pinned, hop, handled, again, utxo, used>>
  BY DEF MintsDone, At
<1> HIDE DEF l
<1> QED BY <1>1, <1>2, WorkerTyped, PlainStep

LEMMA RefuseStep ==
  ASSUME IInv, NEW w \in Workers, worker[w].pc # "idle", NEW doc \in Doc, RefuseMint(w, doc),
         UNCHANGED <<chain, total, maxHeight, pinned, hop, handled, again, utxo, used>>
  PROVE  IInv'
<1> DEFINE docs == Append(worker[w].docs, doc)
           l == [worker[w] EXCEPT !.pc = "mint", !.i = @ + 1, !.docs = docs]
<1>1. docs \in Seq(Doc)
  BY WorkerTyped
<1>2. worker' = [worker EXCEPT ![w] = l]
  BY DEF RefuseMint
<1> HIDE DEF docs
<1>3. l \in Local /\ l.pc = "mint" /\ l.i # 0 /\ l.h = worker[w].h
  <2>1. worker[w].i + 1 \in Nat \ {0} /\ "mint" \in Stage
    BY WorkerTyped DEF Stage
  <2>2. worker[w] \in Local
    BY WorkerTyped
  <2> DEFINE n == worker[w].i + 1
  <2>3. n \in Nat \ {0} /\ l = [worker[w] EXCEPT !.pc = "mint", !.i = n, !.docs = docs]
    BY <2>1
  <2> HIDE DEF l, n
  <2> QED BY <1>1, <2>1, <2>2, <2>3 DEF Local
<1> HIDE DEF l
<1> QED BY <1>2, <1>3, WorkerTyped, PlainStep

LEMMA SaveDocStep ==
  ASSUME IInv, NEW w \in Workers, SaveDoc(w), UNCHANGED chain
  PROVE  IInv'
<1> DEFINE l == [worker[w] EXCEPT !.docs = Tail(@)]
<1>1. Tail(worker[w].docs) \in Seq(Doc) /\ Head(worker[w].docs) \in Doc
  BY WorkerTyped DEF SaveDoc
<1>2. l \in Local /\ l.pc = "save" /\ l.i # 0 /\ l.h = worker[w].h
  BY <1>1, WorkerTyped DEF Local, Stage, SaveDoc, At
<1>3. /\ worker[w].pc # "idle"
      /\ worker' = [worker EXCEPT ![w] = l]
      /\ UNCHANGED <<chain, total, maxHeight, pinned, hop, handled, again, used>>
  BY DEF SaveDoc, At
<1>4. utxo' \subseteq Doc
  BY <1>1, WorkerTyped DEF SaveDoc
<1> HIDE DEF l
<1> QED BY <1>2, <1>3, <1>4, WorkerTyped, PlainStep

LEMMA ReadTickStep ==
  ASSUME IInv, NEW w \in Workers, ReadTick(w), UNCHANGED chain
  PROVE  IInv'
<1> DEFINE m == Mint[CurMint(w)]
<1>1. /\ worker[w].pc = "mint" /\ worker[w].h \in Heights /\ MoreMints(w)
      /\ UNCHANGED <<chain, total, maxHeight, pinned, hop, handled, again, utxo, used>>
  BY DEF ReadTick, At, IInv, StageOK
<1>2. CurMint(w) \in Mints /\ m \in MintInfo
  BY <1>1, CurPins
<1>3. m.out \in Points /\ m.tick \in Deploys \cup {NoTick}
  BY <1>2 DEF MintInfo
<1>4. CASE m.tick \notin Ticks /\ RefuseMint(w, MintDoc(NoTick, m.out, FALSE))
  <2>1. MintDoc(NoTick, m.out, FALSE) \in Doc
    BY <1>3 DEF MintDoc, Doc
  <2> QED BY <1>1, <1>4, <2>1, RefuseStep
<1>5. CASE RefuseMint(w, MintDoc(m.tick, m.out, FALSE))
  <2>1. MintDoc(m.tick, m.out, FALSE) \in Doc
    BY <1>3 DEF MintDoc, Doc
  <2> QED BY <1>1, <1>5, <2>1, RefuseStep
<1>6. CASE /\ m.tick \in Ticks /\ ~LimitReached(m.tick)
           /\ worker' = [worker EXCEPT
                ![w].pc = IF Deploy[m.tick].count = 0 THEN "count" ELSE "shovel",
                ![w].snap = total[m.tick]]
  <2> DEFINE stage == IF Deploy[m.tick].count = 0 THEN "count" ELSE "shovel"
             l == [worker[w] EXCEPT !.pc = stage, !.snap = total[m.tick]]
  <2>1. total[m.tick] \in Nat /\ total[m.tick] < Deploy[m.tick].mintCount
    <3>1. m.tick \in Deploys /\ total[m.tick] \in Nat /\ total[m.tick] <= Deploy[m.tick].mintCount
      BY <1>6 DEF IInv, TypeOK, TotalCap, Ticks
    <3>2. Deploy[m.tick].mintCount \in Nat
      BY <3>1, ConstantsAssumption DEF DeployInfo
    <3> QED BY <1>6, <3>1, <3>2 DEF LimitReached
  <2>2. stage \in {"count", "shovel"}
    OBVIOUS
  <2>3. worker' = [worker EXCEPT ![w] = l] /\ worker'[w] = l
    BY <1>6 DEF IInv, TypeOK
  <2> HIDE DEF stage
  <2>4. /\ l \in Local /\ l.pc \in {"count", "shovel"} /\ l.h = worker[w].h
        /\ l.i = worker[w].i /\ l.snap = total[m.tick]
    BY <2>1, <2>2, WorkerTyped DEF Local, Stage
  <2> HIDE DEF l
  <2>5. MoreMints(w)' /\ CurTick(w)' = m.tick /\ Ticks' = Ticks
    BY <1>1, <2>3, <2>4 DEF MoreMints, CurTick, CurMint, Ticks
  <2>6. StageOK(w)'
    BY <1>1, <1>6, <2>1, <2>3, <2>4, <2>5, WorkerTyped DEF StageOK
  <2> QED BY <1>1, <2>3, <2>4, <2>6, LocalStep DEF IInv, TypeOK
<1> QED BY <1>4, <1>5, <1>6 DEF ReadTick

LEMMA ReadShovelsStep ==
  ASSUME IInv, NEW w \in Workers, ReadShovels(w), UNCHANGED chain
  PROVE  IInv'
<1> DEFINE m == CurMint(w)
           t == CurTick(w)
<1>1. /\ worker[w].pc = "shovel" /\ worker[w].h \in Heights /\ MoreMints(w) /\ t \in Ticks
      /\ worker[w].snap < Deploy[t].mintCount
      /\ UNCHANGED <<chain, total, maxHeight, pinned, hop, handled, again, utxo, used>>
  BY DEF ReadShovels, At, IInv, StageOK
<1>2. Mint[m].to \in Points /\ t \in Deploys
  BY <1>1, CurPins DEF MintInfo, IInv, TypeOK
<1>3. CASE RefuseMint(w, MintDoc(t, Mint[m].to, FALSE))
  <2>1. MintDoc(t, Mint[m].to, FALSE) \in Doc
    BY <1>2 DEF MintDoc, Doc
  <2> QED BY <1>1, <1>3, <2>1, RefuseStep
<1>4. ASSUME NEW f \in Picks(m, t),
             worker' = [worker EXCEPT ![w].pc = "push",
                                      ![w].sel = UNION {f[c] : c \in Criteria(t)}]
      PROVE  IInv'
  <2> DEFINE s == UNION {f[c] : c \in Criteria(t)}
             l == [worker[w] EXCEPT !.pc = "push", !.sel = s]
  <2>1. s \subseteq Shovels
    BY DEF Picks, Fresh, PinsIn
  <2>2. worker' = [worker EXCEPT ![w] = l] /\ worker'[w] = l
    BY <1>4 DEF IInv, TypeOK
  <2> HIDE DEF s
  <2>3. /\ l \in Local /\ l.pc = "push" /\ l.h = worker[w].h
        /\ l.i = worker[w].i /\ l.snap = worker[w].snap
    BY <2>1, WorkerTyped DEF Local, Stage
  <2> HIDE DEF l
  <2>4. MoreMints(w)' /\ CurTick(w)' = t /\ Ticks' = Ticks
    BY <1>1, <2>2, <2>3 DEF MoreMints, CurTick, CurMint, Ticks
  <2>5. StageOK(w)'
    BY <1>1, <2>2, <2>3, <2>4, WorkerTyped DEF StageOK
  <2> QED BY <1>1, <2>2, <2>3, <2>5, LocalStep DEF IInv, TypeOK
<1> QED BY <1>3, <1>4 DEF ReadShovels

LEMMA PushShovelsStep ==
  ASSUME IInv, NEW w \in Workers, PushShovels(w), UNCHANGED chain
  PROVE  IInv'
<1> DEFINE l == [worker[w] EXCEPT !.pc = "count", !.sel = {}]
           t == CurTick(w)
<1>1. /\ worker[w].pc = "push" /\ worker[w].h \in Heights /\ MoreMints(w) /\ t \in Ticks
      /\ worker[w].snap < Deploy[t].mintCount
      /\ UNCHANGED <<chain, total, maxHeight, pinned, hop, handled, again, utxo>>
  BY DEF PushShovels, At, IInv, StageOK
<1>2. used' \in [Shovels -> SUBSET Deploys]
  BY <1>1, WorkerTyped DEF PushShovels, IInv, TypeOK
<1>3. worker' = [worker EXCEPT ![w] = l] /\ worker'[w] = l
  BY DEF PushShovels, IInv, TypeOK
<1>4. /\ l \in Local /\ l.pc = "count" /\ l.h = worker[w].h
      /\ l.i = worker[w].i /\ l.snap = worker[w].snap
  BY WorkerTyped DEF Local, Stage
<1> HIDE DEF l
<1>5. MoreMints(w)' /\ CurTick(w)' = t /\ Ticks' = Ticks
  BY <1>1, <1>3, <1>4 DEF MoreMints, CurTick, CurMint, Ticks
<1>6. StageOK(w)'
  BY <1>1, <1>3, <1>4, <1>5, WorkerTyped DEF StageOK
<1> QED BY <1>1, <1>2, <1>3, <1>4, <1>6, LocalStep DEF IInv, TypeOK

LEMMA EndBlockStep ==
  ASSUME IInv, NEW w \in Workers, EndBlock(w), UNCHANGED chain
  PROVE  IInv'
<1>1. worker' = [worker EXCEPT ![w] = Idle] /\ worker'[w] = Idle
  BY DEF EndBlock, IInv, TypeOK
<1>2. StageOK(w)'
  BY <1>1, IdleTyped DEF StageOK
<1>3. worker[w].h \in Heights
  BY DEF EndBlock, At, IInv, StageOK
<1>4. handled' \subseteq Heights /\ UNCHANGED <<chain, total>>
  BY <1>3 DEF EndBlock, IInv, TypeOK
<1> QED BY <1>1, <1>2, <1>4, IdleTyped, LocalStep DEF EndBlock, IInv, TypeOK

(* A new tick: its total starts at its pre-mint, the other totals stay. *)
LEMMA SaveTickStep ==
  ASSUME IInv, NEW w \in Workers, SaveTick(w), UNCHANGED chain
  PROVE  IInv'
<1> DEFINE d == CurDeploy(w)
           docs == worker[w].docs \o DeployDocs(d)
           l == [worker[w] EXCEPT !.pc = "deploy", !.i = @ + 1, !.docs = docs]
<1>1. /\ worker[w].pc = "saveTick" /\ worker[w].h \in Heights /\ MoreDeploys(w)
      /\ UNCHANGED <<chain, maxHeight, pinned, utxo, used, hop, handled, again>>
  BY DEF SaveTick, At, IInv, StageOK
<1>2. d \in Deploys
  BY <1>1, CurPins
<1>3. docs \in Seq(Doc) /\ Premined(d) \in Nat /\ Premined(d) <= Deploy[d].mintCount
  BY <1>2, DocsTyped, WorkerTyped
<1>4. /\ total' = [t \in Ticks \cup {d} |-> IF t \in Ticks THEN total[t] ELSE Premined(d)]
      /\ Ticks' = Ticks \cup {d}
  BY DEF SaveTick, Ticks
<1>5. worker' = [worker EXCEPT ![w] = l] /\ worker'[w] = l
  BY DEF SaveTick, IInv, TypeOK
<1> HIDE DEF docs
<1>6. l \in Local /\ l.pc = "deploy" /\ l.i \in Nat \ {0} /\ l.h = worker[w].h
  <2>1. worker[w].i + 1 \in Nat \ {0} /\ "deploy" \in Stage
    BY WorkerTyped DEF Stage
  <2>2. worker[w] \in Local
    BY WorkerTyped
  <2> DEFINE n == worker[w].i + 1
  <2>3. n \in Nat \ {0} /\ l = [worker[w] EXCEPT !.pc = "deploy", !.i = n, !.docs = docs]
    BY <2>1
  <2> HIDE DEF l, n
  <2> QED BY <1>3, <2>1, <2>2, <2>3 DEF Local
<1> HIDE DEF l, d
<1>7. \A v \in Workers : StageOK(v)'
  <2>1. StageOK(w)'
    BY <1>1, <1>5, <1>6 DEF StageOK
  <2>2. \A v \in Workers \ {w} : worker'[v] = worker[v]
    BY <1>5 DEF IInv, TypeOK
  <2>3. \A v \in Workers \ {w} : StageOK(v)'
    BY <1>4, <2>2, OthersStay
  <2> QED BY <2>1, <2>3
<1>8. TypeOK'
  <2>1. Ticks' \subseteq Deploys /\ total' \in [Ticks' -> Nat]
    BY <1>2, <1>3, <1>4 DEF IInv, TypeOK
  <2>2. worker' \in [Workers -> Local]
    BY <1>5, <1>6 DEF IInv, TypeOK
  <2> QED BY <1>1, <2>1, <2>2 DEF IInv, TypeOK
<1>9. TotalCap'
  BY <1>3, <1>4 DEF IInv, TotalCap
<1> QED BY <1>7, <1>8, <1>9 DEF IInv

(* The write of a total: the value read below the cap, plus one. *)
LEMMA CountMintStep ==
  ASSUME IInv, NEW w \in Workers, CountMint(w), UNCHANGED chain
  PROVE  IInv'
<1> DEFINE m == Mint[CurMint(w)]
           t == m.tick
           doc == MintDoc(t, m.to, TRUE)
           docs == Append(worker[w].docs, doc)
           l == [worker[w] EXCEPT !.pc = "mint", !.i = @ + 1, !.snap = 0, !.docs = docs]
<1>1. /\ worker[w].pc = "count" /\ worker[w].h \in Heights /\ MoreMints(w)
      /\ CurTick(w) = t /\ t \in Ticks /\ worker[w].snap < Deploy[t].mintCount
      /\ UNCHANGED <<chain, maxHeight, pinned, utxo, used, hop, handled, again>>
  BY DEF CountMint, At, IInv, StageOK, CurTick
<1>2. m \in MintInfo /\ m.to \in Points /\ t \in Deploys
  BY <1>1, CurPins DEF MintInfo, IInv, TypeOK
<1>3. worker[w].snap \in Nat /\ Deploy[t].mintCount \in Nat
  BY <1>2, WorkerTyped, ConstantsAssumption DEF Local, DeployInfo
<1>4. docs \in Seq(Doc)
  <2>1. doc \in Doc
    BY <1>2 DEF MintDoc, Doc
  <2>2. worker[w].docs \in Seq(Doc)
    BY WorkerTyped
  <2> HIDE DEF doc
  <2> QED BY <2>1, <2>2
<1>5. worker' = [worker EXCEPT ![w] = l] /\ worker'[w] = l
  BY DEF CountMint, IInv, TypeOK
<1>6. Ticks' = Ticks /\ (total' = total \/ total' = [total EXCEPT ![t] = worker[w].snap + 1])
  BY DEF CountMint, Ticks
<1> HIDE DEF docs
<1>7. l \in Local /\ l.pc = "mint" /\ l.i \in Nat \ {0} /\ l.h = worker[w].h
  <2> DEFINE n == worker[w].i + 1
  <2>1. worker[w] \in Local /\ n \in Nat \ {0} /\ "mint" \in Stage
    BY WorkerTyped DEF Stage
  <2>2. l = [worker[w] EXCEPT !.pc = "mint", !.i = n, !.snap = 0, !.docs = docs]
    OBVIOUS
  <2> HIDE DEF l, n
  <2> QED BY <1>4, <2>1, <2>2 DEF Local
<1> HIDE DEF l
<1>8. \A v \in Workers : StageOK(v)'
  <2>1. StageOK(w)'
    BY <1>1, <1>5, <1>7 DEF StageOK
  <2>2. \A v \in Workers \ {w} : worker'[v] = worker[v]
    BY <1>5 DEF IInv, TypeOK
  <2>3. \A v \in Workers \ {w} : StageOK(v)'
    BY <1>6, <2>2, OthersStay
  <2> QED BY <2>1, <2>3
<1>9. TypeOK'
  <2>1. Ticks' \subseteq Deploys /\ total' \in [Ticks' -> Nat]
    BY <1>1, <1>3, <1>6 DEF IInv, TypeOK
  <2>2. worker' \in [Workers -> Local]
    BY <1>5, <1>7 DEF IInv, TypeOK
  <2> QED BY <1>1, <2>1, <2>2 DEF IInv, TypeOK
<1>10. TotalCap'
  BY <1>1, <1>3, <1>6 DEF IInv, TotalCap, TypeOK
<1> QED BY <1>8, <1>9, <1>10 DEF IInv

LEMMA FailureStep ==
  ASSUME IInv, FetchFails \/ Crash, UNCHANGED chain
  PROVE  IInv'
<1>1. CASE FetchFails
  <2>1. maxHeight' \in 0..Tip
    BY <1>1, ConstantsAssumption DEF FetchFails, IInv, TypeOK
  <2>2. TypeOK' /\ Ticks' = Ticks
    BY <1>1, <2>1 DEF FetchFails, IInv, TypeOK, Ticks
  <2>3. \A w \in Workers : StageOK(w)'
    BY <1>1, <2>2 DEF FetchFails, IInv, StageOK, MoreDeploys, MoreMints, CurTick, CurMint
  <2>4. TotalCap'
    BY <1>1, <2>2 DEF FetchFails, IInv, TotalCap
  <2> QED BY <2>2, <2>3, <2>4 DEF IInv
<1>2. CASE Crash
  <2>1. maxHeight' \in 0..Tip
    BY <1>2, ConstantsAssumption DEF Crash, IInv, TypeOK, Heights
  <2>2. worker' \in [Workers -> Local] /\ \A w \in Workers : worker'[w] = Idle
    BY <1>2, IdleTyped DEF Crash
  <2>3. TypeOK' /\ Ticks' = Ticks
    BY <1>2, <2>1, <2>2 DEF Crash, IInv, TypeOK, Ticks
  <2>4. \A w \in Workers : StageOK(w)'
    BY <2>2, IdleTyped DEF StageOK
  <2>5. TotalCap'
    BY <1>2, <2>3 DEF Crash, IInv, TotalCap
  <2> QED BY <2>3, <2>4, <2>5 DEF IInv
<1> QED BY <1>1, <1>2

LEMMA StutterStep == IInv /\ UNCHANGED vars => IInv'
BY DEF vars, IInv, TypeOK, Ticks, TotalCap, StageOK, MoreDeploys, MoreMints, CurTick, CurMint

LEMMA NextIInv == IInv /\ [Next]_vars => IInv'
<1> SUFFICES ASSUME IInv, [Next]_vars PROVE IInv'
  OBVIOUS
<1>1. ASSUME NEW w \in Workers, Step(w), UNCHANGED chain PROVE IInv'
  BY <1>1, AdvanceStep, ReindexStep, CheckDeployStep, SaveTickStep, DeploysDoneStep,
     ReadTickStep, ReadShovelsStep, PushShovelsStep, CountMintStep, MintsDoneStep,
     SaveDocStep, EndBlockStep
  DEF Step
<1>2. CASE UNCHANGED vars
  BY <1>2, StutterStep
<1> QED BY <1>1, <1>2, FailureStep DEF Next

(***************************************************************************)
(* The collections and every goroutine's local state keep their types: in  *)
(* particular the totals exist for deployed ticks only.                    *)
(***************************************************************************)
THEOREM TypeCorrect == Spec => []TypeOK
<1>1. IInv => TypeOK
  BY DEF IInv
<1> QED BY <1>1, InitIInv, NextIInv, PTL DEF Spec

(***************************************************************************)
(* No interleaving of workers, re-run, failed fetch or crash takes the     *)
(* totalminted of a tick past its mintcount.                               *)
(***************************************************************************)
THEOREM MintCap == Spec => []TotalCap
<1>1. IInv => TotalCap
  BY DEF IInv
<1> QED BY <1>1, InitIInv, NextIInv, PTL DEF Spec

----------------------------------------------------------------------------
(* The names of ticks, when blocks are handled one at a time. *)

(* A worker about to save a tick has found its name free. *)
NameFree == \A w \in Workers : At(w, "saveTick") => ~NameTaken(CurDeploy(w))

NamesInv == IInv /\ NamesUnique /\ NameFree

LEMMA NamesStep ==
  ASSUME Workers = {Main}
  PROVE  NamesInv /\ [Next]_vars => NamesInv'
<1> SUFFICES ASSUME NamesInv, [Next]_vars PROVE NamesInv'
  OBVIOUS
<1>1. IInv'
  BY NextIInv DEF NamesInv
<1>2. chain' = chain
  BY DEF Next, vars
<1>3. Main \in Workers /\ worker \in [Workers -> Local]
  BY ConstantsAssumption DEF NamesInv, IInv, TypeOK
<1>4. CASE total' = total /\ worker'[Main].pc # "saveTick"
  BY <1>1, <1>4 DEF NamesInv, NamesUnique, NameFree, Ticks, At
<1>5. CASE UNCHANGED <<total, worker>>
  BY <1>1, <1>2, <1>5 DEF NamesInv, NamesUnique, NameFree, NameTaken, CurDeploy, Ticks, At
<1>6. CASE CheckDeploy(Main)
  <2>1. total' = total /\ Ticks' = Ticks
    BY <1>6 DEF CheckDeploy, Ticks
  <2>2. CASE worker' = [worker EXCEPT ![Main].i = @ + 1]
    <3>1. worker'[Main].pc = "deploy"
      BY <1>3, <1>6, <2>2 DEF CheckDeploy, At, Local
    <3> QED  BY <1>4, <2>1, <3>1
  <2>3. CASE ~NameTaken(CurDeploy(Main)) /\ worker' = [worker EXCEPT ![Main].pc = "saveTick"]
    <3>1. worker'[Main].h = worker[Main].h /\ worker'[Main].i = worker[Main].i
      BY <1>3, <2>3 DEF Local
    <3>2. CurDeploy(Main)' = CurDeploy(Main)
      BY <1>2, <3>1 DEF CurDeploy
    <3>3. ~NameTaken(CurDeploy(Main))'
      BY <2>1, <2>3, <3>2 DEF NameTaken
    <3> QED  BY <1>1, <2>1, <3>3 DEF NamesInv, NamesUnique, NameFree
  <2> QED  BY <1>6, <2>2, <2>3 DEF CheckDeploy
<1>7. CASE SaveTick(Main)
  <2>1. Ticks' = Ticks \cup {CurDeploy(Main)} /\ ~NameTaken(CurDeploy(Main))
    BY <1>3, <1>7 DEF SaveTick, Ticks, NamesInv, NameFree
  <2>2. worker'[Main].pc = "deploy"
    BY <1>3, <1>7 DEF SaveTick, Local
  <2>3. NamesUnique'
    BY <2>1 DEF NamesInv, NamesUnique, NameTaken
  <2> QED  BY <1>1, <2>2, <2>3 DEF NamesInv, NameFree, At
<1>8. ASSUME NEW h, StartBlock(Main, h) PROVE total' = total /\ worker'[Main].pc # "saveTick"
  BY <1>3, <1>8 DEF StartBlock, Taking
<1>9. CASE ReadTick(Main) \/ ReadShovels(Main)
  <2>1. total' = total
    BY <1>9 DEF ReadTick, ReadShovels
  <2>2. ASSUME NEW doc, RefuseMint(Main, doc) PROVE worker'[Main].pc # "saveTick"
    BY <1>3, <2>2 DEF RefuseMint, Local
  <2>3. ASSUME NEW stage \in {"count", "shovel"}, NEW n,
               worker' = [worker EXCEPT ![Main].pc = stage, ![Main].snap = n]
        PROVE  worker'[Main].pc # "saveTick"
    BY <1>3, <2>3 DEF Local
  <2>4. ASSUME NEW s, worker' = [worker EXCEPT ![Main].pc = "push", ![Main].sel = s]
        PROVE  worker'[Main].pc # "saveTick"
    BY <1>3, <2>4 DEF Local
  <2>5. CASE ReadTick(Main)
    BY <1>4, <2>1, <2>2, <2>3, <2>5 DEF ReadTick
  <2>6. CASE ReadShovels(Main)
    BY <1>4, <2>1, <2>2, <2>4, <2>6 DEF ReadShovels
  <2> QED  BY <1>9, <2>5, <2>6
<1>10. CASE CountMint(Main)
  <2>1. Ticks' = Ticks /\ worker'[Main].pc = "mint"
    BY <1>3, <1>10 DEF CountMint, Ticks, Local
  <2> QED  BY <1>1, <2>1 DEF NamesInv, NamesUnique, NameFree, At
<1>11. CASE DeploysDone(Main) \/ PushShovels(Main) \/ MintsDone(Main) \/ SaveDoc(Main)
            \/ EndBlock(Main)
  <2>1. total' = total
    BY <1>11 DEF DeploysDone, PushShovels, MintsDone, SaveDoc, EndBlock
  <2>2. worker'[Main].pc # "saveTick"
    BY <1>3, <1>11, IdleTyped DEF DeploysDone, PushShovels, MintsDone, SaveDoc, EndBlock, At, Local
  <2> QED  BY <1>4, <2>1, <2>2
<1>12. CASE Crash
  BY <1>3, <1>4, <1>12, IdleTyped DEF Crash
<1>13. CASE \E w \in Workers : Step(w)
  <2>1. Step(Main)
    BY <1>13
  <2> QED  BY <2>1, <1>4, <1>6, <1>7, <1>8, <1>9, <1>10, <1>11 DEF Step, Advance, Reindex
<1>14. CASE FetchFails
  BY <1>5, <1>14 DEF FetchFails
<1>15. CASE UNCHANGED vars
  BY <1>5, <1>15 DEF vars
<1> QED  BY <1>12, <1>13, <1>14, <1>15 DEF Next

LEMMA NamesAtFirst == Init => NamesInv
<1> SUFFICES ASSUME Init PROVE NamesInv
  OBVIOUS
<1>1. Ticks = {} /\ \A w \in Workers : ~At(w, "saveTick")
  BY IdleTyped DEF Init, Ticks, At
<1> QED  BY <1>1, InitIInv DEF NamesInv, NamesUnique, NameFree

(***************************************************************************)
(* Deploy refuses a name that is taken: while one goroutine at a time      *)
(* handles blocks, no two ticks have one name, whichever blocks are run    *)
(* again, fetches fail or crashes happen.                                  *)
(***************************************************************************)
THEOREM NamesStayUnique ==
  ASSUME Workers = {Main}
  PROVE  Spec => []NamesUnique
<1>1. NamesInv => NamesUnique
  BY DEF NamesInv
<1> QED  BY <1>1, NamesAtFirst, NamesStep, PTL DEF Spec

----------------------------------------------------------------------------
(* Every stored mint was paid: marks and hops only grow. *)

(* The documents of a list. *)
Listed(s) == {s[i] : i \in 1..Len(s)}

LEMMA ListedOf ==
  ASSUME NEW s \in Seq(Doc)
  PROVE  /\ \A d \in Doc : Listed(Append(s, d)) = Listed(s) \cup {d}
         /\ \A t \in Seq(Doc) : Listed(s \o t) = Listed(s) \cup Listed(t)
         /\ s # <<>> => Head(s) \in Listed(s) /\ Listed(Tail(s)) \subseteq Listed(s)
<1>1. ASSUME NEW d \in Doc PROVE Listed(Append(s, d)) = Listed(s) \cup {d}
  <2> DEFINE a == Append(s, d)
  <2>1. Len(a) = Len(s) + 1 /\ \A i \in 1..Len(a) : a[i] = IF i <= Len(s) THEN s[i] ELSE d
    OBVIOUS
  <2>2. Len(s) \in Nat
    OBVIOUS
  <2> HIDE DEF a
  <2>3. 1..Len(a) = 1..Len(s) \cup {Len(s) + 1}
    BY <2>1, <2>2
  <2>4. \A i \in 1..Len(s) : a[i] = s[i]
    BY <2>1, <2>2
  <2>5. a[Len(s) + 1] = d
    BY <2>1, <2>2
  <2> QED  BY <2>3, <2>4, <2>5 DEF Listed, a
<1>2. ASSUME NEW t \in Seq(Doc) PROVE Listed(s \o t) = Listed(s) \cup Listed(t)
  <2> DEFINE a == s \o t
  <2>1. /\ Len(a) = Len(s) + Len(t)
        /\ \A i \in 1..Len(a) : a[i] = IF i <= Len(s) THEN s[i] ELSE t[i - Len(s)]
    OBVIOUS
  <2>2. Len(s) \in Nat /\ Len(t) \in Nat
    OBVIOUS
  <2> HIDE DEF a
  <2>3. \A i \in 1..Len(s) : i \in 1..Len(a) /\ a[i] = s[i]
    BY <2>1, <2>2
  <2>4. \A i \in 1..Len(t) : Len(s) + i \in 1..Len(a) /\ a[Len(s) + i] = t[i]
    BY <2>1, <2>2
  <2>5. \A i \in 1..Len(a) : i \in 1..Len(s) \/ i - Len(s) \in 1..Len(t)
    BY <2>1, <2>2
  <2>6. Listed(a) \subseteq Listed(s) \cup Listed(t)
    BY <2>1, <2>2, <2>5 DEF Listed
  <2>7. Listed(s) \cup Listed(t) \subseteq Listed(a)
    BY <2>3, <2>4 DEF Listed
  <2> QED  BY <2>6, <2>7 DEF a
<1>3. ASSUME s # <<>> PROVE Head(s) \in Listed(s) /\ Listed(Tail(s)) \subseteq Listed(s)
  <2>1. Len(s) \in Nat \ {0} /\ Head(s) = s[1]
    BY <1>3
  <2>2. \A i \in 1..Len(Tail(s)) : i + 1 \in 1..Len(s) /\ Tail(s)[i] = s[i + 1]
    BY <1>3
  <2> QED  BY <2>1, <2>2 DEF Listed
<1> QED  BY <1>1, <1>2, <1>3

LEMMA ListedFew == Listed(<<>>) = {} /\ \A x : Listed(<<x>>) = {x}
<1>1. ASSUME NEW x PROVE Listed(<<x>>) = {x}
  <2>1. Len(<<x>>) = 1 /\ <<x>>[1] = x /\ 1..1 = {1}
    OBVIOUS
  <2> QED  BY <2>1 DEF Listed
<1>2. Listed(<<>>) = {}
  <2>1. Len(<<>>) = 0 /\ 1..0 = {}
    OBVIOUS
  <2> QED  BY <2>1 DEF Listed
<1> QED  BY <1>1, <1>2

IsMint(d) == d.opt = "mint" /\ d.verify

(* The pins that mint m carried and that are marked for tick t. *)
Payers(t, m) == {p \in Shovels : t \in used[p] /\ \E k \in 1..hop[p] : chain.route[p][k] = m}

Paid(t, m) == Deploy[t].count <= Cardinality(Payers(t, m))

PaidDoc(d) ==
  /\ d.tick \in Deploys
  /\ \E m \in Mints : Mint[m].tick = d.tick /\ Mint[m].to = d.point /\ Paid(d.tick, m)

(* What worker w lists is paid; the pins it chose are its mint's, and enough. *)
PaysOK(w) ==
  /\ \A d \in Listed(worker[w].docs) : IsMint(d) => PaidDoc(d)
  /\ \A t \in Deploys, m \in Mints :
       CurTick(w) = t /\ CurMint(w) = m =>
         /\ At(w, "push") =>
              /\ Deploy[t].count <= Cardinality(worker[w].sel)
              /\ \A p \in worker[w].sel : \E k \in 1..hop[p] : chain.route[p][k] = m
         /\ At(w, "count") => Paid(t, m)

PaidInv ==
  /\ \A d \in utxo : IsMint(d) => PaidDoc(d)
  /\ \A w \in Workers : PaysOK(w)

(* Pins stay marked, and stay tracked through the outputs they passed. *)
Grows ==
  /\ chain' = chain
  /\ \A p \in Shovels : used[p] \subseteq used'[p] /\ hop[p] <= hop'[p]

LEMMA PaidStays ==
  ASSUME IInv, IInv', Grows
  PROVE  /\ \A t \in Deploys, m \in Mints : Paid(t, m) => Paid(t, m)'
         /\ \A d : PaidDoc(d) => PaidDoc(d)'
         /\ \A p \in Shovels, m \in Mints :
              (\E k \in 1..hop[p] : chain.route[p][k] = m)
                => \E k \in 1..hop'[p] : chain'.route[p][k] = m
<1>1. \A p \in Shovels : hop[p] \in Nat /\ hop'[p] \in Nat
  BY DEF IInv, TypeOK
<1>2. \A p \in Shovels, m \in Mints :
        (\E k \in 1..hop[p] : chain.route[p][k] = m)
          => \E k \in 1..hop'[p] : chain'.route[p][k] = m
  BY <1>1 DEF Grows
<1>3. ASSUME NEW t \in Deploys, NEW m \in Mints, Paid(t, m) PROVE Paid(t, m)'
  <2>1. Payers(t, m) \subseteq Payers(t, m)'
    BY <1>2 DEF Payers, Grows
  <2>2. IsFiniteSet(Payers(t, m)') /\ IsFiniteSet(Payers(t, m))
    BY ConstantsAssumption, FS_Subset DEF Payers
  <2>3. /\ Cardinality(Payers(t, m)) <= Cardinality(Payers(t, m)')
        /\ Cardinality(Payers(t, m)) \in Nat /\ Cardinality(Payers(t, m)') \in Nat
    BY <2>1, <2>2, FS_Subset, FS_CardinalityType
  <2>4. Deploy[t].count \in Nat
    BY ConstantsAssumption DEF DeployInfo
  <2> QED  BY <1>3, <2>3, <2>4 DEF Paid
<1> QED  BY <1>2, <1>3 DEF PaidDoc

(***************************************************************************)
(* What is left to show of a step of w: that the documents it adds and the *)
(* pins it chose are paid.                                                 *)
(***************************************************************************)
LEMMA PaidStep ==
  ASSUME IInv, IInv', PaidInv, NEW w \in Workers, Grows,
         \A v \in Workers \ {w} : worker'[v] = worker[v],
         utxo' \subseteq utxo \cup Listed(worker[w].docs),
         \A d \in Listed(worker'[w].docs) :
           d \in Listed(worker[w].docs) \/ ~IsMint(d) \/ PaidDoc(d)',
         \A t \in Deploys, m \in Mints :
           CurTick(w)' = t /\ CurMint(w)' = m =>
             /\ At(w, "push")' =>
                  /\ Deploy[t].count <= Cardinality(worker'[w].sel)
                  /\ \A p \in worker'[w].sel : \E k \in 1..hop'[p] : chain'.route[p][k] = m
             /\ At(w, "count")' => Paid(t, m)'
  PROVE  PaidInv'
<1>1. \A d : PaidDoc(d) => PaidDoc(d)'
  BY PaidStays
<1>2. \A d \in utxo' : IsMint(d) => PaidDoc(d)'
  BY <1>1 DEF PaidInv, PaysOK
<1>3. PaysOK(w)'
  BY <1>1 DEF PaidInv, PaysOK
<1>4. ASSUME NEW v \in Workers \ {w} PROVE PaysOK(v)'
  <2>1. worker'[v] = worker[v] /\ worker[v].sel \subseteq Shovels
    BY WorkerTyped
  <2>2. CurMint(v)' = CurMint(v) /\ CurTick(v)' = CurTick(v)
    BY <2>1 DEF Grows, CurMint, CurTick
  <2>3. \A d \in Listed(worker'[v].docs) : IsMint(d) => PaidDoc(d)'
    BY <1>1, <2>1 DEF PaidInv, PaysOK
  <2>4. ASSUME NEW t \in Deploys, NEW m \in Mints, CurTick(v)' = t, CurMint(v)' = m
        PROVE  /\ At(v, "push")' =>
                    /\ Deploy[t].count <= Cardinality(worker'[v].sel)
                    /\ \A p \in worker'[v].sel : \E k \in 1..hop'[p] : chain'.route[p][k] = m
               /\ At(v, "count")' => Paid(t, m)'
    <3>1. /\ At(v, "push") =>
               /\ Deploy[t].count <= Cardinality(worker[v].sel)
               /\ \A p \in worker[v].sel : \E k \in 1..hop[p] : chain.route[p][k] = m
          /\ At(v, "count") => Paid(t, m)
      <4>1. PaysOK(v)
        BY DEF PaidInv
      <4>2. CurTick(v) = t /\ CurMint(v) = m
        BY <2>2, <2>4
      <4> QED  BY ONLY <4>1, <4>2, t \in Deploys, m \in Mints DEF PaysOK
    <3> QED  BY <2>1, <3>1, PaidStays DEF At
  <2> QED  BY <2>3, <2>4 DEF PaysOK
<1> QED  BY <1>2, <1>3, <1>4 DEF PaidInv

(* A step of w that ends away from the pins it chose and the mint it counts. *)
LEMMA QuietPaid ==
  ASSUME IInv, IInv', PaidInv, NEW w \in Workers, chain' = chain, used' = used,
         \A p \in Shovels : hop[p] <= hop'[p],
         \A v \in Workers \ {w} : worker'[v] = worker[v],
         utxo' \subseteq utxo \cup Listed(worker[w].docs),
         \A d \in Listed(worker'[w].docs) : d \in Listed(worker[w].docs) \/ ~IsMint(d),
         worker'[w].pc \notin {"push", "count"}
  PROVE  PaidInv'
BY PaidStep DEF Grows, At

LEMMA HopTyped ==
  ASSUME IInv
  PROVE  \A p \in Shovels : hop[p] \in Nat /\ hop[p] <= hop[p]
BY DEF IInv, TypeOK

LEMMA WorkerChange ==
  ASSUME IInv, NEW w \in Workers, NEW rec, worker' = [worker EXCEPT ![w] = rec]
  PROVE  worker'[w] = rec /\ \A v \in Workers \ {w} : worker'[v] = worker[v]
BY DEF IInv, TypeOK

LEMMA StartPaid ==
  ASSUME IInv, IInv', PaidInv, NEW w \in Workers, NEW h, StartBlock(w, h), chain' = chain
  PROVE  PaidInv'
<1>1. /\ worker'[w] = Taking(h) /\ \A v \in Workers \ {w} : worker'[v] = worker[v]
      /\ used' = used /\ utxo' = utxo
  BY WorkerChange DEF StartBlock
<1>2. Taking(h).docs = <<>> /\ Taking(h).pc = "deploy"
  BY DEF Taking
<1>3. Listed(<<>>) = {}
  BY DEF Listed
<1>4. \A p \in Shovels : hop[p] <= hop'[p]
  BY HopTyped DEF StartBlock, Tracked
<1> QED  BY <1>1, <1>2, <1>3, <1>4, QuietPaid

LEMMA SamePaid ==
  ASSUME IInv, IInv', PaidInv, NEW w \in Workers,
         CheckDeploy(w) \/ DeploysDone(w) \/ MintsDone(w) \/ EndBlock(w), chain' = chain
  PROVE  PaidInv'
<1>1. used' = used /\ utxo' = utxo /\ hop' = hop
  BY DEF CheckDeploy, DeploysDone, MintsDone, EndBlock
<1>2. \A v \in Workers \ {w} : worker'[v] = worker[v]
  BY DEF CheckDeploy, DeploysDone, MintsDone, EndBlock, IInv, TypeOK
<1>3. Listed(Idle.docs) = {} /\ Idle.pc = "idle"
  BY DEF Idle, Listed
<1>4. worker[w] \in Local
  BY WorkerTyped
<1>5. /\ worker'[w].docs = worker[w].docs \/ worker'[w] = Idle
      /\ worker'[w].pc \notin {"push", "count"}
  <2>1. CASE CheckDeploy(w)
    <3>1. CASE worker' = [worker EXCEPT ![w].i = @ + 1]
      BY <1>4, <2>1, <3>1 DEF CheckDeploy, At, IInv, TypeOK, Local
    <3>2. CASE worker' = [worker EXCEPT ![w].pc = "saveTick"]
      BY <1>4, <3>2 DEF IInv, TypeOK, Local
    <3> QED  BY <2>1, <3>1, <3>2 DEF CheckDeploy
  <2>2. CASE DeploysDone(w)
    BY <1>4, <2>2 DEF DeploysDone, IInv, TypeOK, Local
  <2>3. CASE MintsDone(w)
    BY <1>4, <2>3 DEF MintsDone, IInv, TypeOK, Local
  <2>4. CASE EndBlock(w)
    BY <1>3, <2>4 DEF EndBlock, IInv, TypeOK
  <2> QED  BY <2>1, <2>2, <2>3, <2>4
<1> QED  BY <1>1, <1>2, <1>3, <1>5, HopTyped, QuietPaid

(* A refused mint is listed, not verified. *)
LEMMA RefusePaid ==
  ASSUME IInv, IInv', PaidInv, NEW w \in Workers, NEW doc \in Doc, ~doc.verify,
         RefuseMint(w, doc), UNCHANGED <<chain, hop, utxo, used>>
  PROVE  PaidInv'
<1>1. worker[w] \in Local /\ worker[w].docs \in Seq(Doc)
  BY WorkerTyped
<1>2. \A v \in Workers \ {w} : worker'[v] = worker[v]
  BY DEF RefuseMint, IInv, TypeOK
<1>3. worker'[w].docs = Append(worker[w].docs, doc) /\ worker'[w].pc = "mint"
  BY <1>1 DEF RefuseMint, IInv, TypeOK, Local
<1>4. Listed(worker'[w].docs) = Listed(worker[w].docs) \cup {doc}
  BY <1>1, <1>3, ListedOf
<1> QED  BY <1>2, <1>3, <1>4, HopTyped, QuietPaid DEF IsMint

(* A deploy lists no mints. *)
LEMMA DeployListed ==
  ASSUME NEW d \in Deploys
  PROVE  \A x \in Listed(DeployDocs(d)) : ~IsMint(x)
<1> DEFINE a == [tick |-> d, point |-> Deploy[d].out, opt |-> "deploy", verify |-> TRUE]
           b == [tick |-> d, point |-> Deploy[d].premintTo, opt |-> "pre-mint", verify |-> TRUE]
<1>1. ~IsMint(a) /\ ~IsMint(b)
  BY DEF IsMint
<1>2. DeployDocs(d) = <<a>> \o (IF Premined(d) > 0 THEN <<b>> ELSE <<>>)
  BY Zenon DEF DeployDocs
<1>3. a \in Doc /\ b \in Doc
  BY ConstantsAssumption DEF Doc, DeployInfo
<1> HIDE DEF a, b
<1>4. <<a>> \in Seq(Doc) /\ <<b>> \in Seq(Doc) /\ <<>> \in Seq(Doc)
  BY <1>3
<1>5. Listed(<<a>>) = {a} /\ Listed(<<b>>) = {b} /\ Listed(<<>>) = {}
  BY ListedFew
<1>6. \A t \in Seq(Doc) : Listed(<<a>> \o t) = {a} \cup Listed(t)
  <2> DEFINE one == <<a>>
  <2>1. one \in Seq(Doc) /\ Listed(one) = {a}
    BY <1>4, <1>5
  <2> HIDE DEF one
  <2>2. \A t \in Seq(Doc) : Listed(one \o t) = {a} \cup Listed(t)
    BY <2>1, ListedOf
  <2> QED  BY <2>2 DEF one
<1> QED  BY <1>1, <1>2, <1>4, <1>5, <1>6

LEMMA SaveTickPaid ==
  ASSUME IInv, IInv', PaidInv, NEW w \in Workers, SaveTick(w), chain' = chain
  PROVE  PaidInv'
<1> DEFINE d == CurDeploy(w)
<1>1. worker[w] \in Local /\ worker[w].docs \in Seq(Doc) /\ d \in Deploys
  BY WorkerTyped, CurPins DEF SaveTick, At, IInv, StageOK
<1>2. DeployDocs(d) \in Seq(Doc)
  BY <1>1, DocsTyped
<1>3. \A x \in Listed(DeployDocs(d)) : ~IsMint(x)
  BY <1>1, DeployListed
<1>4. \A v \in Workers \ {w} : worker'[v] = worker[v]
  BY DEF SaveTick, IInv, TypeOK
<1>5. worker'[w].docs = worker[w].docs \o DeployDocs(d) /\ worker'[w].pc = "deploy"
  BY <1>1 DEF SaveTick, IInv, TypeOK, Local
<1>6. Listed(worker'[w].docs) = Listed(worker[w].docs) \cup Listed(DeployDocs(d))
  BY <1>1, <1>2, <1>5, ListedOf
<1>7. used' = used /\ utxo' = utxo /\ hop' = hop
  BY DEF SaveTick
<1> HIDE DEF d
<1> QED  BY <1>3, <1>4, <1>5, <1>6, <1>7, HopTyped, QuietPaid

LEMMA SaveDocPaid ==
  ASSUME IInv, IInv', PaidInv, NEW w \in Workers, SaveDoc(w), chain' = chain
  PROVE  PaidInv'
<1>1. worker[w] \in Local /\ worker[w].docs \in Seq(Doc) /\ worker[w].docs # <<>>
  BY WorkerTyped DEF SaveDoc
<1>2. \A v \in Workers \ {w} : worker'[v] = worker[v]
  BY DEF SaveDoc, IInv, TypeOK
<1>3. worker'[w].docs = Tail(worker[w].docs) /\ worker'[w].pc = "save"
  BY <1>1 DEF SaveDoc, At, IInv, TypeOK, Local
<1>4. /\ utxo' \subseteq utxo \cup {Head(worker[w].docs)}
      /\ used' = used /\ hop' = hop
  BY DEF SaveDoc
<1> QED  BY <1>1, <1>2, <1>3, <1>4, ListedOf, HopTyped, QuietPaid

(* A tick without criteria asks for no pins. *)
LEMMA ReadTickPaid ==
  ASSUME IInv, IInv', PaidInv, NEW w \in Workers, ReadTick(w), chain' = chain
  PROVE  PaidInv'
<1> DEFINE m == Mint[CurMint(w)]
<1>1. worker[w].pc # "idle" /\ MoreMints(w) /\ worker[w] \in Local
  BY WorkerTyped DEF ReadTick, At
<1>2. m.out \in Points /\ m.tick \in Deploys \cup {NoTick} /\ CurMint(w) \in Mints
  BY <1>1, CurPins DEF MintInfo
<1>3. UNCHANGED <<chain, hop, utxo, used>>
  BY DEF ReadTick
<1>4. \A t \in Deploys \cup {NoTick} :
        MintDoc(t, m.out, FALSE) \in Doc /\ ~MintDoc(t, m.out, FALSE).verify
  BY <1>2 DEF MintDoc, Doc
<1>5. CASE RefuseMint(w, MintDoc(NoTick, m.out, FALSE)) \/ RefuseMint(w, MintDoc(m.tick, m.out, FALSE))
  BY <1>2, <1>3, <1>4, <1>5, RefusePaid
<1>6. CASE /\ m.tick \in Ticks
           /\ worker' = [worker EXCEPT
                ![w].pc = IF Deploy[m.tick].count = 0 THEN "count" ELSE "shovel",
                ![w].snap = total[m.tick]]
  <2>1. \A v \in Workers \ {w} : worker'[v] = worker[v]
    BY <1>6 DEF IInv, TypeOK
  <2>2. /\ worker'[w].docs = worker[w].docs /\ worker'[w].h = worker[w].h
        /\ worker'[w].i = worker[w].i
        /\ worker'[w].pc = IF Deploy[m.tick].count = 0 THEN "count" ELSE "shovel"
    BY <1>1, <1>6 DEF IInv, TypeOK, Local
  <2>3. CurTick(w)' = m.tick
    BY <1>3, <2>2 DEF CurTick, CurMint
  <2>4. ASSUME NEW t \in Deploys, NEW n \in Mints, CurTick(w)' = t, CurMint(w)' = n, At(w, "count")'
        PROVE  Paid(t, n)'
    <3>1. Deploy[t].count = 0
      BY <2>2, <2>3, <2>4 DEF At
    <3>2. Cardinality(Payers(t, n)') \in Nat
      BY ConstantsAssumption, FS_Subset, FS_CardinalityType DEF Payers
    <3> QED  BY <3>1, <3>2 DEF Paid
  <2>5. ~At(w, "push")'
    BY <2>2 DEF At
  <2>6. Grows
    BY <1>3, HopTyped DEF Grows
  <2> QED  BY <1>3, <2>1, <2>2, <2>4, <2>5, <2>6, PaidStep
<1> QED  BY <1>5, <1>6 DEF ReadTick

(* The pins chosen sit in the mint's outputs; each criterion takes count of them. *)
LEMMA ReadShovelsPaid ==
  ASSUME IInv, IInv', PaidInv, NEW w \in Workers, ReadShovels(w), chain' = chain
  PROVE  PaidInv'
<1> DEFINE m == CurMint(w)
           t == CurTick(w)
<1>1. worker[w].pc # "idle" /\ MoreMints(w) /\ worker[w] \in Local
  BY WorkerTyped DEF ReadShovels, At, IInv, StageOK
<1>2. Mint[m].to \in Points /\ t \in Deploys \cup {NoTick} /\ m \in Mints
  BY <1>1, CurPins DEF MintInfo
<1>3. UNCHANGED <<chain, hop, utxo, used>>
  BY DEF ReadShovels
<1>4. CASE RefuseMint(w, MintDoc(t, Mint[m].to, FALSE))
  <2>1. MintDoc(t, Mint[m].to, FALSE) \in Doc /\ ~MintDoc(t, Mint[m].to, FALSE).verify
    BY <1>2 DEF MintDoc, Doc
  <2> QED  BY <1>3, <1>4, <2>1, RefusePaid
<1>5. ASSUME NEW f \in Picks(m, t),
             worker' = [worker EXCEPT ![w].pc = "push",
                                      ![w].sel = UNION {f[c] : c \in Criteria(t)}]
      PROVE  PaidInv'
  <2> DEFINE s == UNION {f[c] : c \in Criteria(t)}
  <2>1. t \in Deploys
    BY DEF ReadShovels, At, IInv, StageOK, TypeOK
  <2>2. PICK c \in Criteria(t) : TRUE
    BY DEF Criteria
  <2>3. f[c] \subseteq s /\ Cardinality(f[c]) = Deploy[t].count
    BY <2>2 DEF Picks
  <2>4. s \subseteq PinsIn(m)
    BY DEF Picks, Fresh
  <2>5. IsFiniteSet(s)
    BY <2>4, ConstantsAssumption, FS_Subset DEF PinsIn
  <2> HIDE DEF s
  <2>6. Deploy[t].count <= Cardinality(s)
    BY <2>3, <2>5, FS_Subset
  <2>7. \A p \in s : \E k \in 1..hop[p] : chain.route[p][k] = m
    <3>1. \A p \in PinsIn(m) : hop[p] \in 1..hop[p] /\ chain.route[p][hop[p]] = m
      BY HopTyped DEF PinsIn
    <3> QED  BY <2>4, <3>1
  <2>8. \A v \in Workers \ {w} : worker'[v] = worker[v]
    BY <1>5 DEF IInv, TypeOK
  <2>9. /\ worker'[w].docs = worker[w].docs /\ worker'[w].h = worker[w].h
        /\ worker'[w].i = worker[w].i /\ worker'[w].pc = "push" /\ worker'[w].sel = s
    BY <1>1, <1>5 DEF IInv, TypeOK, Local, s
  <2>10. CurTick(w)' = t /\ CurMint(w)' = m
    BY <1>3, <2>9 DEF CurTick, CurMint
  <2>11. Grows
    BY <1>3, HopTyped DEF Grows
  <2> HIDE DEF m, t
  <2> QED  BY <1>3, <2>6, <2>7, <2>8, <2>9, <2>10, <2>11, PaidStep DEF At
<1> QED  BY <1>4, <1>5 DEF ReadShovels

LEMMA PushShovelsPaid ==
  ASSUME IInv, IInv', PaidInv, NEW w \in Workers, PushShovels(w), chain' = chain
  PROVE  PaidInv'
<1> DEFINE m == CurMint(w)
           t == CurTick(w)
           s == worker[w].sel
<1>1. At(w, "push") /\ MoreMints(w) /\ worker[w] \in Local /\ t \in Deploys /\ s \subseteq Shovels
  BY WorkerTyped DEF PushShovels, At, IInv, StageOK, TypeOK
<1>2. m \in Mints
  BY <1>1, CurPins DEF At
<1>3. /\ Deploy[t].count <= Cardinality(s)
      /\ \A p \in s : \E k \in 1..hop[p] : chain.route[p][k] = m
  BY <1>1, <1>2 DEF PaidInv, PaysOK
<1>4. UNCHANGED <<chain, hop, utxo>>
  BY DEF PushShovels
<1>5. used' = [p \in Shovels |-> IF p \in s THEN used[p] \cup {t} ELSE used[p]]
  BY DEF PushShovels
<1>6. Grows
  BY <1>4, <1>5, HopTyped DEF Grows
<1>7. \A v \in Workers \ {w} : worker'[v] = worker[v]
  BY DEF PushShovels, IInv, TypeOK
<1>8. /\ worker'[w].docs = worker[w].docs /\ worker'[w].h = worker[w].h
      /\ worker'[w].i = worker[w].i /\ worker'[w].pc = "count"
  BY <1>1 DEF PushShovels, IInv, TypeOK, Local
<1>9. CurTick(w)' = t /\ CurMint(w)' = m
  BY <1>4, <1>8 DEF CurTick, CurMint
<1> HIDE DEF m, t, s
<1>10. ASSUME NEW a \in Deploys, NEW b \in Mints, a = t, b = m PROVE Paid(a, b)'
  <2>1. s \subseteq Payers(a, b)'
    BY <1>1, <1>3, <1>4, <1>5, <1>10 DEF Payers
  <2>2. IsFiniteSet(Payers(a, b)') /\ IsFiniteSet(s)
    BY <1>1, ConstantsAssumption, FS_Subset DEF Payers
  <2>3. /\ Cardinality(s) <= Cardinality(Payers(a, b)')
        /\ Cardinality(s) \in Nat /\ Cardinality(Payers(a, b)') \in Nat
    BY <2>1, <2>2, FS_Subset, FS_CardinalityType
  <2>4. Deploy[a].count \in Nat
    BY ConstantsAssumption DEF DeployInfo
  <2> QED  BY <1>3, <1>10, <2>3, <2>4 DEF Paid
<1> QED  BY <1>4, <1>6, <1>7, <1>8, <1>9, <1>10, PaidStep DEF At

LEMMA CountMintPaid ==
  ASSUME IInv, IInv', PaidInv, NEW w \in Workers, CountMint(w), chain' = chain
  PROVE  PaidInv'
<1> DEFINE n == CurMint(w)
           m == Mint[n]
           doc == MintDoc(m.tick, m.to, TRUE)
<1>1. At(w, "count") /\ MoreMints(w) /\ worker[w] \in Local /\ CurTick(w) \in Deploys
  BY WorkerTyped DEF CountMint, At, IInv, StageOK, TypeOK
<1>2. n \in Mints /\ m.to \in Points /\ CurTick(w) = m.tick
  BY <1>1, CurPins DEF At, MintInfo, CurTick
<1>3. Paid(m.tick, n)
  BY <1>1, <1>2 DEF PaidInv, PaysOK
<1>4. doc \in Doc /\ doc.tick = m.tick /\ doc.point = m.to
  BY <1>1, <1>2 DEF MintDoc, Doc
<1>5. PaidDoc(doc)
  <2> HIDE DEF doc
  <2> QED  BY <1>1, <1>2, <1>3, <1>4 DEF PaidDoc
<1>6. UNCHANGED <<chain, hop, utxo, used>>
  BY DEF CountMint
<1>7. Grows
  BY <1>6, HopTyped DEF Grows
<1>8. \A v \in Workers \ {w} : worker'[v] = worker[v]
  BY DEF CountMint, IInv, TypeOK
<1>9. worker'[w].docs = Append(worker[w].docs, doc) /\ worker'[w].pc = "mint"
  BY <1>1 DEF CountMint, IInv, TypeOK, Local
<1> HIDE DEF doc
<1>10. Listed(worker'[w].docs) = Listed(worker[w].docs) \cup {doc}
  BY <1>4, <1>9, ListedOf, WorkerTyped
<1>11. \A d \in Listed(worker'[w].docs) : d \in Listed(worker[w].docs) \/ PaidDoc(d)'
  <2>1. \A d : PaidDoc(d) => PaidDoc(d)'
    BY <1>7, PaidStays
  <2> QED  BY <1>5, <1>10, <2>1
<1> QED  BY <1>6, <1>7, <1>8, <1>9, <1>11, PaidStep DEF At

LEMMA FailurePaid ==
  ASSUME IInv, IInv', PaidInv, FetchFails \/ Crash \/ UNCHANGED vars, chain' = chain
  PROVE  PaidInv'
<1>1. Grows /\ utxo' = utxo
  BY HopTyped DEF Grows, FetchFails, Crash, vars
<1>2. \A d \in utxo' : IsMint(d) => PaidDoc(d)'
  BY <1>1, PaidStays DEF PaidInv
<1>3. CASE worker' = worker /\ used' = used /\ hop' = hop
  <2>1. \A t, m : Paid(t, m)' = Paid(t, m)
    BY <1>1, <1>3 DEF Grows, Paid, Payers
  <2>2. \A d : PaidDoc(d)' = PaidDoc(d)
    BY <2>1 DEF PaidDoc
  <2>3. ASSUME NEW w \in Workers PROVE PaysOK(w)'
    <3>1. CurTick(w)' = CurTick(w) /\ CurMint(w)' = CurMint(w)
      BY <1>1, <1>3 DEF Grows, CurTick, CurMint
    <3>2. PaysOK(w)
      BY DEF PaidInv
    <3> QED  BY <1>1, <1>3, <2>1, <2>2, <3>1, <3>2 DEF Grows, PaysOK, At
  <2> QED  BY <1>2, <2>3 DEF PaidInv
<1>4. CASE Crash
  <2>1. \A w \in Workers : worker'[w] = Idle
    BY <1>4 DEF Crash
  <2>2. Listed(Idle.docs) = {} /\ Idle.pc = "idle"
    BY DEF Idle, Listed
  <2> QED  BY <1>2, <2>1, <2>2 DEF PaidInv, PaysOK, At
<1> QED  BY <1>3, <1>4 DEF FetchFails, vars

LEMMA NextPaid == IInv /\ PaidInv /\ [Next]_vars => PaidInv'
<1> SUFFICES ASSUME IInv, PaidInv, [Next]_vars PROVE PaidInv'
  OBVIOUS
<1>1. IInv' /\ chain' = chain
  BY NextIInv DEF Next, vars
<1>2. ASSUME NEW w \in Workers, Step(w) PROVE PaidInv'
  BY <1>1, <1>2, StartPaid, SamePaid, SaveTickPaid, ReadTickPaid, ReadShovelsPaid,
     PushShovelsPaid, CountMintPaid, SaveDocPaid
  DEF Step, Advance, Reindex
<1> QED  BY <1>1, <1>2, FailurePaid DEF Next

LEMMA InitPaid == Init => PaidInv
<1> SUFFICES ASSUME Init PROVE PaidInv
  OBVIOUS
<1>1. \A w \in Workers : worker[w] = Idle
  BY DEF Init
<1>2. Listed(Idle.docs) = {} /\ Idle.pc = "idle"
  BY DEF Idle, Listed
<1> QED  BY <1>1, <1>2 DEF Init, PaidInv, PaysOK, At

(***************************************************************************)
(* No mint is stored, with any number of goroutines and whatever crashes   *)
(* or is run again, unless its own transaction carried as many pins marked *)
(* for the tick as the tick asks for.                                      *)
(***************************************************************************)
THEOREM StoredMintsPaid == Spec => []MintPaid
<1>1. ASSUME PaidInv PROVE MintPaid
  <2>1. SUFFICES ASSUME NEW t \in Ticks, NEW d \in Minted(t)
                 PROVE  \E m \in Mints : Mint[m].tick = t /\ Mint[m].to = d.point /\ Paid(t, m)
    BY DEF MintPaid, Paid, Payers
  <2>2. d.tick = t /\ PaidDoc(d)
    BY <1>1 DEF PaidInv, Minted, IsMint
  <2> QED  BY <2>2 DEF PaidDoc
<1> QED  BY <1>1, InitIInv, InitPaid, NextIInv, NextPaid, PTL DEF Spec

----------------------------------------------------------------------------
(* No pin pays twice, when blocks are handled one at a time. *)

(* The verified mints of tick t in a list of documents. *)
Due(s, t) == {i \in 1..Len(s) : s[i].tick = t /\ IsMint(s[i])}

LEMMA DueTyped ==
  ASSUME NEW s \in Seq(Doc), NEW t
  PROVE  IsFiniteSet(Due(s, t)) /\ Cardinality(Due(s, t)) \in Nat
<1>1. IsFiniteSet(1..Len(s))
  BY FS_Interval
<1> QED  BY <1>1, FS_Subset, FS_CardinalityType DEF Due

LEMMA DueNone == \A t : Cardinality(Due(<<>>, t)) = 0
<1>1. \A t : Due(<<>>, t) = {}
  BY DEF Due
<1> QED  BY <1>1, FS_EmptySet

LEMMA DueAppend ==
  ASSUME NEW s \in Seq(Doc), NEW d \in Doc, NEW t
  PROVE  Cardinality(Due(Append(s, d), t))
           = Cardinality(Due(s, t)) + IF d.tick = t /\ IsMint(d) THEN 1 ELSE 0
<1> DEFINE a == Append(s, d)
           n == Len(s) + 1
<1>1. Len(a) = n /\ a[n] = d /\ Len(s) \in Nat /\ \A i \in 1..Len(s) : a[i] = s[i]
  OBVIOUS
<1> HIDE DEF a
<1>2. 1..n = 1..Len(s) \cup {n} /\ n \notin 1..Len(s)
  BY <1>1
<1>3. Due(a, t) = Due(s, t) \cup (IF d.tick = t /\ IsMint(d) THEN {n} ELSE {})
  <2> HIDE DEF n
  <2> QED  BY <1>1, <1>2 DEF Due
<1>4. n \notin Due(s, t) /\ IsFiniteSet(Due(s, t)) /\ Cardinality(Due(s, t)) \in Nat
  BY <1>2, DueTyped DEF Due
<1>5. CASE d.tick = t /\ IsMint(d)
  <2> HIDE DEF n
  <2>1. Due(a, t) = Due(s, t) \cup {n}
    BY <1>3, <1>5
  <2>2. Cardinality(Due(a, t)) = Cardinality(Due(s, t)) + 1
    BY <1>4, <2>1, FS_AddElement
  <2> QED  BY <1>5, <2>2 DEF a
<1>6. CASE ~(d.tick = t /\ IsMint(d))
  <2>1. Due(a, t) = Due(s, t)
    BY <1>3, <1>6
  <2> QED  BY <1>4, <1>6, <2>1 DEF a
<1> QED  BY <1>5, <1>6

LEMMA DueTail ==
  ASSUME NEW s \in Seq(Doc), s # <<>>, NEW t
  PROVE  Cardinality(Due(Tail(s), t)) + (IF Head(s).tick = t /\ IsMint(Head(s)) THEN 1 ELSE 0)
           <= Cardinality(Due(s, t))
<1> DEFINE b == Tail(s)
           f == [i \in Due(b, t) |-> i + 1]
           R == Due(s, t) \ {1}
<1>1. /\ Len(b) \in Nat /\ Len(s) \in Nat \ {0} /\ Head(s) = s[1]
      /\ \A i \in 1..Len(b) : i + 1 \in 1..Len(s) /\ b[i] = s[i + 1]
  OBVIOUS
<1>2. b \in Seq(Doc)
  OBVIOUS
<1> HIDE DEF b
<1>3. \A i \in Due(b, t) : i \in Nat /\ i + 1 \in R
  BY <1>1 DEF Due
<1>4. IsFiniteSet(Due(s, t)) /\ Cardinality(Due(s, t)) \in Nat /\ Cardinality(Due(b, t)) \in Nat
  BY <1>2, DueTyped
<1>5. IsFiniteSet(R) /\ Cardinality(R) = IF 1 \in Due(s, t) THEN Cardinality(Due(s, t)) - 1
                                          ELSE Cardinality(Due(s, t))
  <2>1. CASE 1 \in Due(s, t)
    BY <1>4, <2>1, FS_RemoveElement
  <2>2. CASE 1 \notin Due(s, t)
    <3>1. R = Due(s, t)
      BY <2>2
    <3> QED  BY <1>4, <2>2, <3>1
  <2> QED  BY <2>1, <2>2
<1>6. f \in Injection(Due(b, t), R)
  <2>1. f \in [Due(b, t) -> R]
    BY <1>3
  <2>2. \A i, j \in Due(b, t) : f[i] = f[j] => i = j
    BY <1>3
  <2> HIDE DEF f, R
  <2> QED  BY <2>1, <2>2 DEF Injection, IsInjective
<1>7. Cardinality(Due(b, t)) <= Cardinality(R)
  <2> HIDE DEF R, f
  <2> QED  BY <1>5, <1>6, FS_Injection
<1>8. Head(s).tick = t /\ IsMint(Head(s)) => 1 \in Due(s, t)
  BY <1>1 DEF Due
<1> HIDE DEF R
<1> QED  BY <1>4, <1>5, <1>7, <1>8 DEF b

LEMMA DueConcat ==
  ASSUME NEW s \in Seq(Doc), NEW z \in Seq(Doc), NEW t, \A d \in Listed(z) : ~IsMint(d)
  PROVE  Due(s \o z, t) = Due(s, t)
<1> DEFINE a == s \o z
<1>1. /\ Len(a) = Len(s) + Len(z) /\ Len(s) \in Nat /\ Len(z) \in Nat
      /\ \A i \in 1..Len(s) : a[i] = s[i]
      /\ \A i \in 1..Len(a) : i \notin 1..Len(s) => i - Len(s) \in 1..Len(z) /\ a[i] = z[i - Len(s)]
  OBVIOUS
<1> HIDE DEF a
<1>2. \A i \in 1..Len(s) : i \in 1..Len(a)
  BY <1>1
<1>3. \A i \in 1..Len(a) : i \notin 1..Len(s) => ~IsMint(a[i])
  BY <1>1 DEF Listed
<1>4. Due(a, t) = Due(s, t)
  BY <1>1, <1>2, <1>3 DEF Due
<1> QED  BY <1>4 DEF a

(* The pins used up for tick t, and the mints that are to be paid with them. *)
UsedFor(t) == {p \in Shovels : t \in used[p]}

Owed(t) ==
  Cardinality(Minted(t)) + Cardinality(Due(worker[Main].docs, t))
    + IF At(Main, "count") /\ CurTick(Main) = t THEN 1 ELSE 0

OwedInv ==
  /\ IsFiniteSet(utxo)
  /\ At(Main, "push") => \A p \in worker[Main].sel : CurTick(Main) \notin used[p]
  /\ \A t \in Deploys : Owed(t) * Deploy[t].count <= Cardinality(UsedFor(t))

LEMMA OwedTyped ==
  ASSUME IInv, IsFiniteSet(utxo), NEW t \in Deploys
  PROVE  /\ IsFiniteSet(Minted(t)) /\ Cardinality(Minted(t)) \in Nat
         /\ Cardinality(Due(worker[Main].docs, t)) \in Nat
         /\ Owed(t) \in Nat /\ Deploy[t].count \in Nat
         /\ IsFiniteSet(UsedFor(t)) /\ Cardinality(UsedFor(t)) \in Nat
<1>1. IsFiniteSet(Minted(t)) /\ Cardinality(Minted(t)) \in Nat
  BY FS_Subset, FS_CardinalityType DEF Minted
<1>2. worker[Main].docs \in Seq(Doc)
  BY ConstantsAssumption, WorkerTyped
<1>3. Cardinality(Due(worker[Main].docs, t)) \in Nat
  BY <1>2, DueTyped
<1>4. Deploy[t].count \in Nat
  BY ConstantsAssumption DEF DeployInfo
<1>5. IsFiniteSet(UsedFor(t)) /\ Cardinality(UsedFor(t)) \in Nat
  BY ConstantsAssumption, FS_Subset, FS_CardinalityType DEF UsedFor
<1> QED  BY <1>1, <1>3, <1>4, <1>5 DEF Owed

LEMMA Times ==
  ASSUME NEW a \in Nat, NEW b \in Nat, NEW c \in Nat, a <= b
  PROVE  a * c <= b * c /\ (a + 1) * c = a * c + c /\ a * c \in Nat /\ b * c \in Nat
<1>1. PICK k \in Nat : b = a + k
  <2>1. b - a \in Nat /\ b = a + (b - a)
    OBVIOUS
  <2> QED  BY <2>1
<1>2. b * c = a * c + k * c
  BY <1>1, SMT
<1>3. k * c \in Nat /\ a * c \in Nat /\ b * c \in Nat
  BY <1>1, SMT
<1>4. (a + 1) * c = a * c + c
  BY SMT
<1> QED  BY <1>2, <1>3, <1>4

(* A step that marks no pins and owes no more where pins are asked for. *)
LEMMA OwedStep ==
  ASSUME IInv, IInv', OwedInv, used' = used, IsFiniteSet(utxo'),
         \A t \in Deploys : Deploy[t].count # 0 => Owed(t)' <= Owed(t),
         At(Main, "push")' => \A p \in worker'[Main].sel : CurTick(Main)' \notin used'[p]
  PROVE  OwedInv'
<1>1. ASSUME NEW t \in Deploys
      PROVE  Owed(t)' * Deploy[t].count <= Cardinality(UsedFor(t)')
  <2>1. UsedFor(t)' = UsedFor(t)
    BY DEF UsedFor
  <2>2. /\ Owed(t) \in Nat /\ Deploy[t].count \in Nat /\ Cardinality(UsedFor(t)) \in Nat
        /\ Owed(t) * Deploy[t].count <= Cardinality(UsedFor(t))
    BY OwedTyped DEF OwedInv
  <2>3. Owed(t)' \in Nat
    <3>1. Minted(t)' \subseteq utxo'
      BY DEF Minted
    <3>2. IsFiniteSet(Minted(t)') /\ Cardinality(Minted(t)') \in Nat
      BY <3>1, FS_Subset, FS_CardinalityType
    <3>3. worker'[Main].docs \in Seq(Doc)
      BY ConstantsAssumption DEF IInv, TypeOK, Local
    <3>4. Cardinality(Due(worker'[Main].docs, t)) \in Nat
      BY <3>3, DueTyped
    <3> QED  BY <3>2, <3>4 DEF Owed
  <2>4. CASE Deploy[t].count = 0
    <3>1. Owed(t)' * 0 = 0
      BY <2>3
    <3> QED  BY <2>1, <2>2, <2>4, <3>1
  <2>5. CASE Deploy[t].count # 0
    <3>1. /\ Owed(t)' * Deploy[t].count <= Owed(t) * Deploy[t].count
          /\ Owed(t)' * Deploy[t].count \in Nat /\ Owed(t) * Deploy[t].count \in Nat
      BY <2>2, <2>3, <2>5, Times
    <3> QED  BY <2>1, <2>2, <3>1
  <2> QED  BY <2>4, <2>5
<1> QED  BY <1>1 DEF OwedInv

(* A step that stores nothing: the mints listed and counted are what changes. *)
LEMMA OwedListed ==
  ASSUME IInv, IInv', OwedInv, used' = used, utxo' = utxo,
         \A t \in Deploys :
           Deploy[t].count # 0 =>
             Cardinality(Due(worker'[Main].docs, t))
               + (IF At(Main, "count")' /\ CurTick(Main)' = t THEN 1 ELSE 0)
             <= Cardinality(Due(worker[Main].docs, t))
               + IF At(Main, "count") /\ CurTick(Main) = t THEN 1 ELSE 0,
         At(Main, "push")' => \A p \in worker'[Main].sel : CurTick(Main)' \notin used'[p]
  PROVE  OwedInv'
<1>1. ASSUME NEW t \in Deploys, Deploy[t].count # 0
      PROVE  Owed(t)' <= Owed(t)
  <2> DEFINE a == Cardinality(Due(worker[Main].docs, t))
             b == Cardinality(Due(worker'[Main].docs, t))
             x == IF At(Main, "count") /\ CurTick(Main) = t THEN 1 ELSE 0
             y == IF At(Main, "count")' /\ CurTick(Main)' = t THEN 1 ELSE 0
             n == Cardinality(Minted(t))
  <2>1. Minted(t)' = Minted(t)
    BY DEF Minted
  <2>2. n \in Nat /\ a \in Nat
    BY OwedTyped DEF OwedInv
  <2>3. b \in Nat
    <3>1. worker'[Main].docs \in Seq(Doc)
      BY ConstantsAssumption DEF IInv, TypeOK, Local
    <3> QED  BY <3>1, DueTyped
  <2>4. b + y <= a + x /\ x \in Nat /\ y \in Nat
    BY <1>1
  <2>5. Owed(t) = n + a + x /\ Owed(t)' = n + b + y
    BY <2>1 DEF Owed
  <2> HIDE DEF a, b, x, y, n
  <2> QED  BY <2>2, <2>3, <2>4, <2>5
<1> QED  BY <1>1, OwedStep DEF OwedInv

(* A step that lists no verified mint, away from the choice and the count. *)
LEMMA OwedQuiet ==
  ASSUME IInv, IInv', OwedInv, used' = used, utxo' = utxo,
         worker'[Main].pc \notin {"push", "count"},
         \A t \in Deploys :
           Cardinality(Due(worker'[Main].docs, t)) <= Cardinality(Due(worker[Main].docs, t))
  PROVE  OwedInv'
<1>1. \A t \in Deploys : /\ Cardinality(Due(worker[Main].docs, t)) \in Nat
                         /\ Cardinality(Due(worker'[Main].docs, t)) \in Nat
  <2>1. worker'[Main].docs \in Seq(Doc) /\ worker[Main].docs \in Seq(Doc)
    BY ConstantsAssumption DEF IInv, TypeOK, Local
  <2> QED  BY <2>1, DueTyped
<1>2. ~At(Main, "push")' /\ ~At(Main, "count")'
  BY DEF At
<1>3. \A t \in Deploys :
        Cardinality(Due(worker'[Main].docs, t))
          + (IF At(Main, "count")' /\ CurTick(Main)' = t THEN 1 ELSE 0)
        <= Cardinality(Due(worker[Main].docs, t))
          + IF At(Main, "count") /\ CurTick(Main) = t THEN 1 ELSE 0
  BY <1>1, <1>2
<1> QED  BY <1>2, <1>3, OwedListed

LEMMA MainTyped == IInv => Main \in Workers /\ worker[Main] \in Local /\ worker[Main].docs \in Seq(Doc)
BY ConstantsAssumption DEF IInv, TypeOK, Local

(* A worker that holds no list owes only what is stored. *)
LEMMA OwedEmpty ==
  ASSUME IInv, IInv', OwedInv, used' = used, utxo' = utxo,
         worker'[Main].pc \notin {"push", "count"}, worker'[Main].docs = <<>>
  PROVE  OwedInv'
<1>1. \A t \in Deploys :
        Cardinality(Due(worker'[Main].docs, t)) <= Cardinality(Due(worker[Main].docs, t))
  BY MainTyped, DueNone, DueTyped
<1> QED  BY <1>1, OwedQuiet

LEMMA OwedKept ==
  ASSUME IInv, IInv', OwedInv, used' = used, utxo' = utxo,
         worker'[Main].pc \notin {"push", "count"}, worker'[Main].docs = worker[Main].docs
  PROVE  OwedInv'
<1>1. \A t \in Deploys :
        Cardinality(Due(worker'[Main].docs, t)) <= Cardinality(Due(worker[Main].docs, t))
  BY MainTyped, DueTyped
<1> QED  BY <1>1, OwedQuiet

LEMMA OwedRefuse ==
  ASSUME IInv, IInv', OwedInv, used' = used, utxo' = utxo,
         NEW doc \in Doc, ~doc.verify, RefuseMint(Main, doc)
  PROVE  OwedInv'
<1>1. worker'[Main].docs = Append(worker[Main].docs, doc) /\ worker'[Main].pc = "mint"
  BY MainTyped DEF RefuseMint, IInv, TypeOK, Local
<1>2. \A t \in Deploys :
        Cardinality(Due(worker'[Main].docs, t)) <= Cardinality(Due(worker[Main].docs, t))
  BY <1>1, MainTyped, DueAppend, DueTyped DEF IsMint
<1> QED  BY <1>1, <1>2, OwedQuiet

LEMMA OwedSaveTick ==
  ASSUME IInv, IInv', OwedInv, SaveTick(Main)
  PROVE  OwedInv'
<1> DEFINE d == CurDeploy(Main)
<1>1. worker[Main] \in Local /\ worker[Main].docs \in Seq(Doc) /\ d \in Deploys
  BY MainTyped, CurPins DEF SaveTick, At, IInv, StageOK
<1>2. DeployDocs(d) \in Seq(Doc) /\ \A x \in Listed(DeployDocs(d)) : ~IsMint(x)
  BY <1>1, DocsTyped, DeployListed
<1>3. worker'[Main].docs = worker[Main].docs \o DeployDocs(d) /\ worker'[Main].pc = "deploy"
  BY <1>1, MainTyped DEF SaveTick, IInv, TypeOK, Local
<1>4. used' = used /\ utxo' = utxo
  BY DEF SaveTick
<1> HIDE DEF d
<1>5. \A t \in Deploys : Due(worker'[Main].docs, t) = Due(worker[Main].docs, t)
  BY <1>1, <1>2, <1>3, DueConcat
<1> QED  BY <1>1, <1>3, <1>4, <1>5, DueTyped, OwedQuiet

(* The last document of a list counts for its tick only. *)
LEMMA OwedReadTick ==
  ASSUME IInv, IInv', OwedInv, ReadTick(Main), chain' = chain
  PROVE  OwedInv'
<1> DEFINE m == Mint[CurMint(Main)]
<1>1. worker[Main].pc = "mint" /\ MoreMints(Main) /\ worker[Main] \in Local
  BY MainTyped DEF ReadTick, At
<1>2. m.out \in Points /\ m.tick \in Deploys \cup {NoTick} /\ CurMint(Main) \in Mints
  BY <1>1, CurPins, MainTyped DEF MintInfo
<1>3. UNCHANGED <<utxo, used>>
  BY DEF ReadTick
<1>4. \A t \in Deploys \cup {NoTick} :
        MintDoc(t, m.out, FALSE) \in Doc /\ ~MintDoc(t, m.out, FALSE).verify
  BY <1>2 DEF MintDoc, Doc
<1>5. CASE RefuseMint(Main, MintDoc(NoTick, m.out, FALSE))
           \/ RefuseMint(Main, MintDoc(m.tick, m.out, FALSE))
  BY <1>2, <1>3, <1>4, <1>5, OwedRefuse
<1>6. CASE /\ m.tick \in Ticks
           /\ worker' = [worker EXCEPT
                ![Main].pc = IF Deploy[m.tick].count = 0 THEN "count" ELSE "shovel",
                ![Main].snap = total[m.tick]]
  <2>1. /\ worker'[Main].docs = worker[Main].docs /\ worker'[Main].h = worker[Main].h
        /\ worker'[Main].i = worker[Main].i
        /\ worker'[Main].pc = IF Deploy[m.tick].count = 0 THEN "count" ELSE "shovel"
    BY <1>1, <1>6, MainTyped DEF IInv, TypeOK, Local
  <2>2. CurTick(Main)' = m.tick
    BY <2>1 DEF CurTick, CurMint
  <2>3. \A t \in Deploys : Deploy[t].count # 0 => ~(At(Main, "count")' /\ CurTick(Main)' = t)
    BY <2>1, <2>2 DEF At
  <2>4. ~At(Main, "push")' /\ ~At(Main, "count")
    BY <1>1, <2>1 DEF At
  <2> QED  BY <1>3, <2>1, <2>3, <2>4, MainTyped, DueTyped, OwedListed
<1> QED  BY <1>5, <1>6 DEF ReadTick

LEMMA OwedReadShovels ==
  ASSUME IInv, IInv', OwedInv, ReadShovels(Main), chain' = chain
  PROVE  OwedInv'
<1> DEFINE m == CurMint(Main)
           t == CurTick(Main)
<1>1. worker[Main].pc = "shovel" /\ MoreMints(Main) /\ worker[Main] \in Local
  BY MainTyped DEF ReadShovels, At, IInv, StageOK
<1>2. Mint[m].to \in Points /\ t \in Deploys \cup {NoTick} /\ m \in Mints
  BY <1>1, CurPins, MainTyped DEF MintInfo
<1>3. UNCHANGED <<utxo, used>>
  BY DEF ReadShovels
<1>4. CASE RefuseMint(Main, MintDoc(t, Mint[m].to, FALSE))
  <2>1. MintDoc(t, Mint[m].to, FALSE) \in Doc /\ ~MintDoc(t, Mint[m].to, FALSE).verify
    BY <1>2 DEF MintDoc, Doc
  <2> QED  BY <1>3, <1>4, <2>1, OwedRefuse
<1>5. ASSUME NEW f \in Picks(m, t),
             worker' = [worker EXCEPT ![Main].pc = "push",
                                      ![Main].sel = UNION {f[c] : c \in Criteria(t)}]
      PROVE  OwedInv'
  <2> DEFINE s == UNION {f[c] : c \in Criteria(t)}
  <2>1. \A p \in s : t \notin used[p]
    BY DEF Picks, Fresh
  <2>2. /\ worker'[Main].docs = worker[Main].docs /\ worker'[Main].h = worker[Main].h
        /\ worker'[Main].i = worker[Main].i /\ worker'[Main].pc = "push" /\ worker'[Main].sel = s
    BY <1>1, <1>5, MainTyped DEF IInv, TypeOK, Local, s
  <2>3. CurTick(Main)' = t
    BY <2>2 DEF CurTick, CurMint
  <2>4. ~At(Main, "count")' /\ ~At(Main, "count")
    BY <1>1, <2>2 DEF At
  <2> HIDE DEF s, t, m
  <2> QED  BY <1>3, <2>1, <2>2, <2>3, <2>4, MainTyped, DueTyped, OwedListed
<1> QED  BY <1>4, <1>5 DEF ReadShovels

(* The pins marked were fresh: the mint about to be counted pays with new ones. *)
LEMMA OwedPush ==
  ASSUME IInv, IInv', PaidInv, OwedInv, PushShovels(Main), chain' = chain
  PROVE  OwedInv'
<1> DEFINE m == CurMint(Main)
           t == CurTick(Main)
           s == worker[Main].sel
<1>1. /\ At(Main, "push") /\ MoreMints(Main) /\ worker[Main] \in Local /\ t \in Deploys
      /\ s \subseteq Shovels /\ m \in Mints
  BY MainTyped, CurPins, WorkerTyped DEF PushShovels, At, IInv, StageOK, TypeOK
<1>2. Deploy[t].count <= Cardinality(s) /\ \A p \in s : t \notin used[p]
  BY <1>1, MainTyped DEF PaidInv, PaysOK, OwedInv
<1>3. utxo' = utxo
  BY DEF PushShovels
<1>4. used' = [p \in Shovels |-> IF p \in s THEN used[p] \cup {t} ELSE used[p]]
  BY DEF PushShovels
<1>5. /\ worker'[Main].docs = worker[Main].docs /\ worker'[Main].h = worker[Main].h
      /\ worker'[Main].i = worker[Main].i /\ worker'[Main].pc = "count"
  BY <1>1, MainTyped DEF PushShovels, IInv, TypeOK, Local
<1>6. CurTick(Main)' = t
  BY <1>5 DEF CurTick, CurMint
<1>7. At(Main, "count")' /\ ~At(Main, "push")' /\ ~At(Main, "count")
  BY <1>1, <1>5 DEF At
<1> HIDE DEF t, m, s
<1>8. ASSUME NEW x \in Deploys
      PROVE  Owed(x)' * Deploy[x].count <= Cardinality(UsedFor(x)')
  <2> DEFINE n == Cardinality(Minted(x))
             a == Cardinality(Due(worker[Main].docs, x))
             c == Deploy[x].count
             u == Cardinality(UsedFor(x))
  <2>1. /\ n \in Nat /\ a \in Nat /\ c \in Nat /\ u \in Nat
        /\ IsFiniteSet(UsedFor(x)) /\ Owed(x) * c <= u
    BY OwedTyped DEF OwedInv
  <2>2. Minted(x)' = Minted(x) /\ Due(worker'[Main].docs, x) = Due(worker[Main].docs, x)
    BY <1>3, <1>5 DEF Minted
  <2>3. Owed(x) = n + a
    BY <1>7, <2>1 DEF Owed
  <2>4. Owed(x)' = n + a + IF x = t THEN 1 ELSE 0
    BY <1>6, <1>7, <2>2 DEF Owed
  <2>5. CASE x # t
    <3>1. UsedFor(x)' = UsedFor(x)
      BY <1>1, <1>4, <2>5 DEF UsedFor
    <3>2. Owed(x)' = Owed(x)
      BY <2>1, <2>3, <2>4, <2>5
    <3> QED  BY <2>1, <3>1, <3>2
  <2>6. CASE x = t
    <3>1. UsedFor(x)' = UsedFor(x) \cup s /\ UsedFor(x) \cap s = {}
      BY <1>1, <1>2, <1>4, <2>6 DEF UsedFor
    <3>2. IsFiniteSet(s) /\ Cardinality(s) \in Nat
      BY <1>1, ConstantsAssumption, FS_Subset, FS_CardinalityType
    <3>3. Cardinality(UsedFor(x)') = u + Cardinality(s)
      <4>1. /\ Cardinality(UsedFor(x) \cup s)
                 = u + Cardinality(s) - Cardinality(UsedFor(x) \cap s)
            /\ Cardinality(UsedFor(x) \cap s) = 0
        BY <2>1, <3>1, <3>2, FS_Union, FS_EmptySet
      <4> QED  BY <2>1, <3>1, <3>2, <4>1
    <3>4. Owed(x)' = (n + a) + 1
      BY <2>1, <2>4, <2>6
    <3> DEFINE k == n + a
    <3>5. k \in Nat /\ k * c <= u /\ Owed(x)' = k + 1
      BY <2>1, <2>3, <3>4
    <3> HIDE DEF k
    <3>6. (k + 1) * c = k * c + c /\ k * c \in Nat
      BY <2>1, <3>5, Times
    <3>7. c <= Cardinality(s)
      BY <1>2, <2>6
    <3> HIDE DEF c, u
    <3>8. (k + 1) * c <= Cardinality(UsedFor(x)')
      <4> DEFINE kc == k * c
                 k1c == (k + 1) * c
      <4>1. kc \in Nat /\ k1c = kc + c /\ kc <= u
        BY <3>5, <3>6
      <4> HIDE DEF kc, k1c
      <4>2. k1c <= Cardinality(UsedFor(x)')
        BY <2>1, <3>2, <3>3, <3>7, <4>1
      <4> QED  BY <4>2 DEF k1c
    <3> QED  BY <3>5, <3>8 DEF c
  <2> QED  BY <2>5, <2>6
<1> QED  BY <1>3, <1>7, <1>8 DEF OwedInv

LEMMA OwedCount ==
  ASSUME IInv, IInv', OwedInv, CountMint(Main)
  PROVE  OwedInv'
<1> DEFINE m == Mint[CurMint(Main)]
           doc == MintDoc(m.tick, m.to, TRUE)
<1>1. /\ At(Main, "count") /\ MoreMints(Main) /\ worker[Main] \in Local
      /\ CurTick(Main) = m.tick /\ m.tick \in Deploys
  BY MainTyped DEF CountMint, At, IInv, StageOK, TypeOK, CurTick
<1>2. m.to \in Points
  BY <1>1, CurPins, MainTyped DEF At, MintInfo
<1>3. doc \in Doc /\ doc.tick = m.tick /\ IsMint(doc)
  BY <1>1, <1>2 DEF MintDoc, Doc, IsMint
<1>4. worker'[Main].docs = Append(worker[Main].docs, doc) /\ worker'[Main].pc = "mint"
  BY <1>1, MainTyped DEF CountMint, IInv, TypeOK, Local
<1>5. used' = used /\ utxo' = utxo /\ ~At(Main, "push")' /\ ~At(Main, "count")'
  BY <1>4 DEF CountMint, At
<1> HIDE DEF doc
<1>6. \A t \in Deploys :
        Cardinality(Due(worker'[Main].docs, t))
          = Cardinality(Due(worker[Main].docs, t)) + IF m.tick = t THEN 1 ELSE 0
  BY <1>3, <1>4, MainTyped, DueAppend
<1> HIDE DEF m
<1>7. ASSUME NEW t \in Deploys
      PROVE  Cardinality(Due(worker'[Main].docs, t))
               + (IF At(Main, "count")' /\ CurTick(Main)' = t THEN 1 ELSE 0)
             <= Cardinality(Due(worker[Main].docs, t))
               + IF At(Main, "count") /\ CurTick(Main) = t THEN 1 ELSE 0
  <2>1. Cardinality(Due(worker[Main].docs, t)) \in Nat
    BY MainTyped, DueTyped
  <2> QED  BY <1>1, <1>5, <1>6, <2>1
<1> QED  BY <1>5, <1>7, OwedListed

(* A document moves from the list to the collection, or is a duplicate. *)
LEMMA OwedSaveDoc ==
  ASSUME IInv, IInv', OwedInv, SaveDoc(Main)
  PROVE  OwedInv'
<1> DEFINE docs == worker[Main].docs
           doc == Head(worker[Main].docs)
<1>1. worker[Main] \in Local /\ docs \in Seq(Doc) /\ docs # <<>> /\ doc \in Doc
  BY MainTyped DEF SaveDoc
<1>2. worker'[Main].docs = Tail(docs) /\ worker'[Main].pc = "save" /\ worker[Main].pc = "save"
  BY <1>1, MainTyped DEF SaveDoc, At, IInv, TypeOK, Local
<1>3. used' = used /\ (utxo' = utxo \/ utxo' = utxo \cup {doc})
  BY DEF SaveDoc
<1>4. ~At(Main, "push")' /\ ~At(Main, "count")' /\ ~At(Main, "count")
  BY <1>2 DEF At
<1> HIDE DEF docs, doc
<1>5. IsFiniteSet(utxo')
  BY <1>3, FS_AddElement DEF OwedInv
<1>6. ASSUME NEW t \in Deploys PROVE Owed(t)' <= Owed(t)
  <2> DEFINE n == Cardinality(Minted(t))
             n1 == Cardinality(Minted(t)')
             a == Cardinality(Due(docs, t))
             a1 == Cardinality(Due(Tail(docs), t))
             e == IF doc.tick = t /\ IsMint(doc) THEN 1 ELSE 0
  <2>1. n \in Nat /\ a \in Nat /\ a1 \in Nat /\ e \in Nat /\ IsFiniteSet(Minted(t))
    <3>1. Tail(docs) \in Seq(Doc)
      BY <1>1
    <3> QED  BY <1>1, <3>1, OwedTyped, DueTyped DEF OwedInv
  <2>2. a1 + e <= a
    <3>1. Cardinality(Due(Tail(docs), t)) + (IF Head(docs).tick = t /\ IsMint(Head(docs)) THEN 1 ELSE 0)
           <= Cardinality(Due(docs, t))
      BY <1>1, DueTail
    <3> QED  BY <3>1 DEF doc, docs
  <2>3. n1 \in Nat /\ n1 <= n + e
    <3>1. CASE doc.tick = t /\ IsMint(doc)
      <4>1. Minted(t)' \subseteq Minted(t) \cup {doc}
        BY <1>3 DEF Minted
      <4>2. IsFiniteSet(Minted(t) \cup {doc}) /\ Cardinality(Minted(t) \cup {doc}) <= n + 1
            /\ Cardinality(Minted(t) \cup {doc}) \in Nat
        <5> DEFINE M == Minted(t)
        <5>1. IsFiniteSet(M) /\ Cardinality(M) \in Nat
          BY <2>1
        <5> HIDE DEF M
        <5>2. /\ IsFiniteSet(M \cup {doc})
              /\ Cardinality(M \cup {doc}) = Cardinality(M) \/ Cardinality(M \cup {doc}) = Cardinality(M) + 1
          BY <5>1, FS_AddElement
        <5>3. Cardinality(M \cup {doc}) <= Cardinality(M) + 1 /\ Cardinality(M \cup {doc}) \in Nat
          BY <5>1, <5>2
        <5> QED  BY <5>2, <5>3 DEF M
      <4>3. n1 \in Nat /\ n1 <= Cardinality(Minted(t) \cup {doc})
        BY <4>1, <4>2, FS_Subset, FS_CardinalityType
      <4> QED  BY <2>1, <3>1, <4>2, <4>3
    <3>2. CASE ~(doc.tick = t /\ IsMint(doc))
      <4>1. Minted(t)' = Minted(t)
        BY <1>3, <3>2 DEF Minted, IsMint
      <4> QED  BY <2>1, <3>2, <4>1
    <3> QED  BY <3>1, <3>2
  <2>4. Owed(t) = n + a /\ Owed(t)' = n1 + a1
    BY <1>2, <1>4, <2>1, <2>3 DEF Owed, docs
  <2> HIDE DEF n, n1, a, a1, e
  <2> QED  BY <2>1, <2>2, <2>3, <2>4
<1> QED  BY <1>3, <1>4, <1>5, <1>6, OwedStep

LEMMA NextOwed ==
  ASSUME Workers = {Main}
  PROVE  IInv /\ PaidInv /\ OwedInv /\ [Next]_vars => OwedInv'
<1> SUFFICES ASSUME IInv, PaidInv, OwedInv, [Next]_vars PROVE OwedInv'
  OBVIOUS
<1>1. IInv' /\ chain' = chain /\ worker[Main] \in Local
  BY NextIInv, MainTyped DEF Next, vars
<1>2. ASSUME NEW h, StartBlock(Main, h) PROVE OwedInv'
  <2>1. worker'[Main].pc = "deploy" /\ worker'[Main].docs = <<>> /\ used' = used /\ utxo' = utxo
    BY <1>2, MainTyped DEF StartBlock, Taking, IInv, TypeOK
  <2> QED  BY <1>1, <2>1, OwedEmpty
<1>3. CASE Crash \/ EndBlock(Main)
  <2>1. Idle.pc = "idle" /\ Idle.docs = <<>>
    BY DEF Idle
  <2>2. worker'[Main] = Idle /\ used' = used /\ utxo' = utxo
    BY <1>3, MainTyped DEF Crash, EndBlock, IInv, TypeOK
  <2> QED  BY <1>1, <2>1, <2>2, OwedEmpty
<1>4. CASE CheckDeploy(Main) \/ DeploysDone(Main) \/ MintsDone(Main)
  <2>1. used' = used /\ utxo' = utxo
    BY <1>4 DEF CheckDeploy, DeploysDone, MintsDone
  <2>2. worker'[Main].docs = worker[Main].docs /\ worker'[Main].pc \notin {"push", "count"}
    <3>1. CASE CheckDeploy(Main)
      <4>1. CASE worker' = [worker EXCEPT ![Main].i = @ + 1]
        BY <1>1, <3>1, <4>1, MainTyped DEF CheckDeploy, At, IInv, TypeOK, Local
      <4>2. CASE worker' = [worker EXCEPT ![Main].pc = "saveTick"]
        BY <1>1, <4>2, MainTyped DEF IInv, TypeOK, Local
      <4> QED  BY <3>1, <4>1, <4>2 DEF CheckDeploy
    <3>2. CASE DeploysDone(Main)
      BY <1>1, <3>2, MainTyped DEF DeploysDone, IInv, TypeOK, Local
    <3>3. CASE MintsDone(Main)
      BY <1>1, <3>3, MainTyped DEF MintsDone, IInv, TypeOK, Local
    <3> QED  BY <1>4, <3>1, <3>2, <3>3
  <2> QED  BY <1>1, <2>1, <2>2, OwedKept
<1>5. CASE UNCHANGED <<worker, utxo, used>>
  BY <1>1, <1>5 DEF OwedInv, Owed, Minted, UsedFor, At, CurTick, CurMint
<1>6. CASE \E w \in Workers : Step(w)
  <2>1. Step(Main)
    BY <1>6
  <2> QED  BY <2>1, <1>1, <1>2, <1>3, <1>4, OwedSaveTick, OwedReadTick, OwedReadShovels, OwedPush,
              OwedCount, OwedSaveDoc
           DEF Step, Advance, Reindex
<1>7. CASE FetchFails \/ UNCHANGED vars
  BY <1>5, <1>7 DEF FetchFails, vars
<1> QED  BY <1>3, <1>6, <1>7 DEF Next

(***************************************************************************)
(* While one goroutine at a time handles blocks, no shovel pin pays for    *)
(* two mints of one tick: the stored mints together have marked as many    *)
(* pins as they cost, whichever blocks are run again, and wherever the     *)
(* process crashes between marking, counting and saving.                   *)
(***************************************************************************)
THEOREM ShovelsStayPaid ==
  ASSUME Workers = {Main}
  PROVE  Spec => []ShovelsPaid
<1>1. Init => IInv /\ PaidInv /\ OwedInv
  <2> SUFFICES ASSUME Init PROVE OwedInv
    BY InitIInv, InitPaid
  <2>1. worker[Main] = Idle /\ utxo = {} /\ IInv
    BY ConstantsAssumption, InitIInv DEF Init
  <2>2. Idle.docs = <<>> /\ Idle.pc = "idle"
    BY DEF Idle
  <2>3. IsFiniteSet(utxo) /\ ~At(Main, "push") /\ ~At(Main, "count")
    BY <2>1, <2>2, FS_EmptySet DEF At
  <2>4. ASSUME NEW t \in Deploys PROVE Owed(t) * Deploy[t].count <= Cardinality(UsedFor(t))
    <3>1. Cardinality(Minted(t)) = 0
      <4>1. Minted(t) = {}
        BY <2>1 DEF Minted
      <4> QED  BY <4>1, FS_EmptySet
    <3>2. Owed(t) = 0
      BY <2>1, <2>2, <2>3, <3>1, DueNone DEF Owed
    <3> QED  BY <2>1, <2>3, <3>2, OwedTyped
  <2> QED  BY <2>3, <2>4 DEF OwedInv
<1>2. IInv /\ OwedInv => ShovelsPaid
  <2> SUFFICES ASSUME IInv, OwedInv, NEW t \in Ticks
               PROVE  Cardinality(Minted(t)) * Deploy[t].count <= Cardinality(UsedFor(t))
    BY DEF ShovelsPaid, UsedFor
  <2>1. t \in Deploys
    BY DEF IInv, TypeOK
  <2>2. /\ Cardinality(Minted(t)) \in Nat /\ Owed(t) \in Nat /\ Deploy[t].count \in Nat
        /\ Cardinality(UsedFor(t)) \in Nat /\ Cardinality(Due(worker[Main].docs, t)) \in Nat
        /\ Owed(t) * Deploy[t].count <= Cardinality(UsedFor(t))
    BY <2>1, OwedTyped DEF OwedInv
  <2>3. Cardinality(Minted(t)) <= Owed(t)
    BY <2>2 DEF Owed
  <2>4. /\ Cardinality(Minted(t)) * Deploy[t].count <= Owed(t) * Deploy[t].count
        /\ Cardinality(Minted(t)) * Deploy[t].count \in Nat /\ Owed(t) * Deploy[t].count \in Nat
    BY <2>2, <2>3, Times
  <2> QED  BY <2>2, <2>4
<1> QED  BY <1>1, <1>2, NextIInv, NextPaid, NextOwed, PTL DEF Spec

----------------------------------------------------------------------------
(* The books, when blocks are handled one at a time and the node answers. *)

Cur == worker[Main].h

Pos == worker[Main].i

Pc == worker[Main].pc

List == worker[Main].docs

(* The deploy pins whose names have been looked up. *)
DeployDone(h, i) == h \in handled \/ (h = Cur /\ (Pc \in {"deploy", "saveTick"} => i < Pos))

(* The mint pins of its block that the goroutine is through with. *)
Passed(i) == (Pc \in {"mint", "shovel", "push", "count"} /\ i < Pos) \/ Pc = "save"

RestInv == Pc = "idle" => List = <<>> /\ Cur = 0

(* Every block but the last has been handled to the end. *)
SequenceInv ==
  /\ handled \subseteq 1..maxHeight
  /\ \A h \in 1..maxHeight : h \in handled \/ (h = maxHeight /\ h = Cur)
  /\ Cur <= maxHeight

DeploysInv ==
  \A h \in Heights : \A i \in DOMAIN chain.deploys[h] :
    DeployDone(h, i) => NameTaken(chain.deploys[h][i])

(* Where a document comes from. *)
FromMint(d, m) ==
  /\ d.opt = "mint" /\ d.tick \in {Mint[m].tick, NoTick} /\ d.point \in {Mint[m].out, Mint[m].to}
  /\ d.verify => d.tick = Mint[m].tick /\ d.point = Mint[m].to

DeployDoc(t) == [tick |-> t, point |-> Deploy[t].out, opt |-> "deploy", verify |-> TRUE]

PremintDoc(t) == [tick |-> t, point |-> Deploy[t].premintTo, opt |-> "pre-mint", verify |-> TRUE]

FromDeploy(d, t) == d = DeployDoc(t) \/ (Premined(t) > 0 /\ d = PremintDoc(t))

DeployedIn(d, h) == \E i \in DOMAIN chain.deploys[h] : FromDeploy(d, chain.deploys[h][i])

MadeIn(d, h) == \E i \in DOMAIN chain.mints[h] : FromMint(d, chain.mints[h][i])

StoredInv ==
  \A d \in utxo : \E h \in Heights :
    /\ h \in handled \/ (Pc = "save" /\ h = Cur)
    /\ DeployedIn(d, h) \/ MadeIn(d, h)

ListedInv ==
  \A d \in Listed(List) :
    DeployedIn(d, Cur)
    \/ \E i \in DOMAIN chain.mints[Cur] : Passed(i) /\ FromMint(d, chain.mints[Cur][i])

Docs == utxo \cup Listed(List)

TicksInv == \A d \in Docs : IsMint(d) => d.tick \in Ticks

(* No document keeps a mint from being stored. *)
UniqueInv ==
  \A d, e \in Listed(List) :
    IsMint(e) /\ d.tick = e.tick /\ d.point = e.point /\ ~SharesPoint(e.tick) => d = e

(* What it read of the tick is still so. *)
SnapInv ==
  Pc \in {"shovel", "push", "count"} =>
    Mint[CurMint(Main)].ok /\ worker[Main].snap = total[CurTick(Main)]

Holds(ds, m) == \E d \in ds : d.tick = Mint[m].tick /\ d.point = Mint[m].to

(* A mint that would be accepted now. *)
Open(m) ==
  LET t == Mint[m].tick
  IN  t \in Ticks /\ ~MintedEarly(t) /\ Mint[m].ok /\ total[t] < Deploy[t].mintCount

(* It has been dealt with: something is at its output. *)
MintsInv ==
  \A h \in Heights : \A i \in DOMAIN chain.mints[h] :
    Open(chain.mints[h][i]) =>
      /\ h \in handled => Holds(utxo, chain.mints[h][i])
      /\ h = Cur /\ Passed(i) => Holds(Docs, chain.mints[h][i])

PremintInv == \A t \in Ticks : Premined(t) > 0 => PremintDoc(t) \in Docs

(* The mints of t that are stored, or will be. *)
Booked(t) == Minted(t) \cup {d \in Listed(List) : d.tick = t /\ IsMint(d) /\ ~KeyTaken(d)}

BalanceInv ==
  \A t \in Ticks :
    ~SharesPoint(t) /\ ~MintedEarly(t) => total[t] = Premined(t) + Cardinality(Booked(t))

BooksInv ==
  /\ chain \in Chains /\ IsFiniteSet(utxo)
  /\ RestInv /\ SequenceInv /\ DeploysInv /\ StoredInv /\ ListedInv /\ TicksInv /\ UniqueInv
  /\ SnapInv /\ MintsInv /\ PremintInv /\ BalanceInv

(* Of the goroutine and its block. *)
LEMMA MainFacts ==
  ASSUME IInv
  PROVE  /\ Main \in Workers /\ worker[Main] \in Local /\ chain \in Chain
         /\ Pos \in Nat \ {0} /\ List \in Seq(Doc) /\ Listed(List) \subseteq Doc /\ utxo \subseteq Doc
         /\ Pc # "idle" => Cur \in Heights
         /\ \A h \in Heights : /\ chain.mints[h] \in Seq(Mints) /\ chain.deploys[h] \in Seq(Deploys)
                               /\ DOMAIN chain.mints[h] = 1..Len(chain.mints[h])
                               /\ DOMAIN chain.deploys[h] = 1..Len(chain.deploys[h])
         /\ Ticks \subseteq Deploys /\ total \in [Ticks -> Nat]
         /\ maxHeight \in 0..Tip /\ Tip \in Nat /\ handled \subseteq Heights
<1>1. Main \in Workers /\ Tip \in Nat
  BY ConstantsAssumption
<1>2. worker[Main] \in Local /\ chain \in Chain /\ Pos \in Nat \ {0}
      /\ (Pc # "idle" => Cur \in Heights)
  BY <1>1 DEF IInv, TypeOK, StageOK, Pos, Pc, Cur
<1>3. List \in Seq(Doc)
  BY <1>2 DEF Local, List
<1>4. Listed(List) \subseteq Doc
  BY <1>3 DEF Listed
<1>5. \A h \in Heights : chain.mints[h] \in Seq(Mints) /\ chain.deploys[h] \in Seq(Deploys)
  BY <1>2 DEF Chain
<1>6. \A h \in Heights : /\ DOMAIN chain.mints[h] = 1..Len(chain.mints[h])
                         /\ DOMAIN chain.deploys[h] = 1..Len(chain.deploys[h])
  BY <1>5
<1> QED  BY <1>1, <1>2, <1>3, <1>4, <1>5, <1>6 DEF IInv, TypeOK

(* A step that lists, stores and counts nothing. *)
LEMMA QuietBooks ==
  ASSUME IInv, IInv', BooksInv, UNCHANGED <<chain, total, utxo, handled, maxHeight>>,
         List' = List, Cur' = Cur, SnapInv', Pc = "save" => Pc' = "save", Pc' = "idle" => Pc = "idle",
         Cur \in Heights => \A i \in DOMAIN chain.mints[Cur] : Passed(i)' <=> Passed(i),
         \A h \in Heights : \A i \in DOMAIN chain.deploys[h] :
           DeployDone(h, i)' => DeployDone(h, i) \/ NameTaken(chain.deploys[h][i])
  PROVE  BooksInv'
<1>1. /\ Docs' = Docs /\ Ticks' = Ticks
      /\ \A t : NameTaken(t)' = NameTaken(t) /\ MintedEarly(t)' = MintedEarly(t)
      /\ \A m : Open(m)' = Open(m)
      /\ \A ds, m : Holds(ds, m)' = Holds(ds, m)
      /\ \A t : Booked(t)' = Booked(t)
  BY DEF Docs, Ticks, NameTaken, MintedEarly, Open, Holds, Booked, Minted, KeyTaken
<1>2. chain' \in Chains /\ IsFiniteSet(utxo') /\ SequenceInv' /\ RestInv'
  BY DEF BooksInv, SequenceInv, RestInv
<1>3. DeploysInv'
  BY <1>1 DEF BooksInv, DeploysInv
<1>4. \A d, h : DeployedIn(d, h)' = DeployedIn(d, h) /\ MadeIn(d, h)' = MadeIn(d, h)
  BY DEF DeployedIn, MadeIn
<1>5. StoredInv'
  BY <1>4 DEF BooksInv, StoredInv
<1>6. ListedInv'
  <2>1. SUFFICES ASSUME NEW d \in Listed(List)
                 PROVE  DeployedIn(d, Cur)
                        \/ \E i \in DOMAIN chain.mints[Cur] :
                             Passed(i)' /\ FromMint(d, chain.mints[Cur][i])
    BY <1>4 DEF ListedInv
  <2>2. CASE Cur \in Heights
    BY <2>2 DEF BooksInv, ListedInv
  <2>3. CASE Cur \notin Heights
    <3>1. Pc = "idle" /\ Pc' = "idle"
      BY <2>3, MainFacts DEF IInv, StageOK, Pc, Cur
    <3>2. \A i : ~Passed(i)
      BY <3>1 DEF Passed
    <3> QED  BY <3>2 DEF BooksInv, ListedInv
  <2> QED  BY <2>2, <2>3
<1>7. TicksInv' /\ UniqueInv' /\ PremintInv'
  <2>1. \A t : SharesPoint(t)' = SharesPoint(t)
    BY DEF SharesPoint
  <2> QED  BY <1>1, <2>1 DEF BooksInv, TicksInv, UniqueInv, PremintInv
<1>8. MintsInv'
  BY <1>1 DEF BooksInv, MintsInv
<1>9. BalanceInv'
  BY <1>1 DEF BooksInv, BalanceInv, SharesPoint
<1> QED  BY <1>2, <1>3, <1>5, <1>6, <1>7, <1>8, <1>9 DEF BooksInv


LEMMA ListedFinite ==
  ASSUME NEW s \in Seq(Doc)
  PROVE  IsFiniteSet(Listed(s))
<1>1. IsFiniteSet(1..Len(s))
  BY FS_Interval
<1>2. s \in Surjection(1..Len(s), Listed(s))
  BY DEF Surjection, Listed
<1> QED  BY <1>1, <1>2, FS_Surjection

(* The documents of a deploy are its own. *)
LEMMA DeployDocsOf ==
  ASSUME NEW t \in Deploys
  PROVE  /\ \A d \in Listed(DeployDocs(t)) : FromDeploy(d, t) /\ ~IsMint(d)
         /\ Premined(t) > 0 => PremintDoc(t) \in Listed(DeployDocs(t))
<1>1. DeployDoc(t) \in Doc /\ PremintDoc(t) \in Doc
  BY ConstantsAssumption DEF Doc, DeployInfo, DeployDoc, PremintDoc
<1>2. <<DeployDoc(t)>> \in Seq(Doc) /\ <<PremintDoc(t)>> \in Seq(Doc) /\ <<>> \in Seq(Doc)
  BY <1>1
<1>3. DeployDocs(t) = <<DeployDoc(t)>> \o IF Premined(t) > 0 THEN <<PremintDoc(t)>> ELSE <<>>
  BY DEF DeployDocs, DeployDoc, PremintDoc
<1>4. Listed(DeployDocs(t)) = {DeployDoc(t)} \cup IF Premined(t) > 0 THEN {PremintDoc(t)} ELSE {}
  <2>1. CASE Premined(t) > 0
    <3> DEFINE a == <<DeployDoc(t)>>
               b == <<PremintDoc(t)>>
    <3>1. DeployDocs(t) = a \o b /\ a \in Seq(Doc) /\ b \in Seq(Doc)
      BY <1>2, <1>3, <2>1
    <3>2. Listed(a) = {DeployDoc(t)} /\ Listed(b) = {PremintDoc(t)}
      BY ListedFew
    <3> HIDE DEF a, b
    <3>3. Listed(DeployDocs(t)) = Listed(a) \cup Listed(b)
      BY <3>1, ListedOf
    <3> QED  BY <2>1, <3>2, <3>3
  <2>2. CASE ~(Premined(t) > 0)
    BY <1>2, <1>3, <2>2, ListedOf, ListedFew
  <2> QED  BY <2>1, <2>2
<1>5. ~IsMint(DeployDoc(t)) /\ ~IsMint(PremintDoc(t))
  BY DEF IsMint, DeployDoc, PremintDoc
<1> QED  BY <1>4, <1>5 DEF FromDeploy

(* Where a document comes from, and that it is at an output of that block. *)
LEMMA DocPlace ==
  ASSUME IInv, NEW h \in Heights, NEW d, DeployedIn(d, h) \/ MadeIn(d, h)
  PROVE  d.point \in Outputs(chain, h)
<1>1. CASE DeployedIn(d, h)
  <2>1. PICK i \in DOMAIN chain.deploys[h] : FromDeploy(d, chain.deploys[h][i])
    BY <1>1 DEF DeployedIn
  <2> DEFINE t == chain.deploys[h][i]
  <2>2. d.point \in {Deploy[t].out, Deploy[t].premintTo}
    BY <2>1 DEF FromDeploy, DeployDoc, PremintDoc
  <2>3. d.point \in DeployOutputs(chain, h)
    BY <2>2 DEF DeployOutputs
  <2> QED  BY <2>3 DEF Outputs
<1>2. CASE MadeIn(d, h)
  <2>1. PICK i \in DOMAIN chain.mints[h] : FromMint(d, chain.mints[h][i])
    BY <1>2 DEF MadeIn
  <2> DEFINE m == chain.mints[h][i]
  <2>2. d.point \in {Mint[m].out, Mint[m].to}
    BY <2>1 DEF FromMint
  <2>3. d.point \in MintOutputs(chain, h)
    BY <2>2 DEF MintOutputs
  <2> QED  BY <2>3 DEF Outputs
<1> QED  BY <1>1, <1>2

(* A document where a mint pin is: it is of that block, and not of the tick's deploy. *)
LEMMA AtMint ==
  ASSUME IInv, chain \in Chains, NEW g \in Heights, NEW j \in DOMAIN chain.mints[g],
         NEW h \in Heights, NEW d, DeployedIn(d, h) \/ MadeIn(d, h),
         d.point \in {Mint[chain.mints[g][j]].out, Mint[chain.mints[g][j]].to}
  PROVE  /\ g = h
         /\ d.tick = Mint[chain.mints[g][j]].tick => ~DeployedIn(d, h)
<1> DEFINE m == chain.mints[g][j]
<1>0. m \in Mints /\ \A i \in DOMAIN chain.deploys[h] : chain.deploys[h][i] \in Deploys
  BY MainFacts
<1>1. d.point \in Outputs(chain, h)
  BY DocPlace
<1>2. d.point \in Outputs(chain, g)
  BY DEF Outputs, MintOutputs
<1>3. g = h
  BY <1>1, <1>2, OutputsAssumption
<1>4. ASSUME d.tick = Mint[m].tick, DeployedIn(d, h) PROVE FALSE
  <2>1. PICK i \in DOMAIN chain.deploys[h] : FromDeploy(d, chain.deploys[h][i])
    BY <1>4 DEF DeployedIn
  <2> DEFINE t == chain.deploys[h][i]
  <2>2. d.tick = t /\ d.point \in {Deploy[t].out, Deploy[t].premintTo} /\ t \in Deploys
    BY <1>0, <2>1 DEF FromDeploy, DeployDoc, PremintDoc
  <2> QED  BY <1>0, <1>4, <2>2, OutputsAssumption
<1> QED  BY <1>3, <1>4

(* Two mint pins of one block are two mints. *)
LEMMA TwoMints ==
  ASSUME IInv, chain \in Chains, NEW h \in Heights,
         NEW i \in DOMAIN chain.mints[h], NEW j \in DOMAIN chain.mints[h], i # j
  PROVE  chain.mints[h][i] # chain.mints[h][j]
BY OutputsAssumption

(***************************************************************************)
(* A document whose key is that of an accepted one of this block: they are *)
(* the same, unless two mints of the tick meet.                            *)
(***************************************************************************)
LEMMA OneDoc ==
  ASSUME IInv, chain \in Chains, Cur \in Heights,
         NEW i \in DOMAIN chain.mints[Cur], NEW e, FromMint(e, chain.mints[Cur][i]), IsMint(e),
         e.tick \in Deploys,
         NEW d, d.tick = e.tick, d.point = e.point,
         DeployedIn(d, Cur)
           \/ \E j \in DOMAIN chain.mints[Cur] : j # i /\ FromMint(d, chain.mints[Cur][j])
  PROVE  SharesPoint(e.tick)
<1> DEFINE m == chain.mints[Cur][i]
<1>1. /\ m \in Mints /\ e.tick = Mint[m].tick /\ e.point = Mint[m].to
      /\ \A j \in DOMAIN chain.mints[Cur] : chain.mints[Cur][j] \in Mints
  <2>1. \A j \in DOMAIN chain.mints[Cur] : chain.mints[Cur][j] \in Mints
    <3>1. chain.mints[Cur] \in Seq(Mints)
      BY MainFacts
    <3> QED  BY <3>1
  <2>2. e.tick = Mint[m].tick /\ e.point = Mint[m].to
    BY DEF FromMint, IsMint
  <2> QED  BY <2>1, <2>2
<1>2. CASE DeployedIn(d, Cur)
  BY <1>1, <1>2, AtMint
<1>3. ASSUME NEW j \in DOMAIN chain.mints[Cur], j # i, FromMint(d, chain.mints[Cur][j])
      PROVE  SharesPoint(e.tick)
  <2> DEFINE n == chain.mints[Cur][j]
  <2>1. n # m
    BY <1>3, TwoMints
  <2>2. Mint[n].tick = e.tick /\ e.point \in {Mint[n].out, Mint[n].to}
    BY <1>3, ConstantsAssumption DEF FromMint
  <2> QED  BY <1>1, <2>1, <2>2 DEF SharesPoint
<1> QED  BY <1>2, <1>3

(* A block is taken: the list is empty, and all blocks handed out are handled. *)
LEMMA StartBooks ==
  ASSUME IInv, IInv', BooksInv, NEW h \in Heights, At(Main, "idle"), StartBlock(Main, h),
         chain' = chain, h <= maxHeight', maxHeight <= maxHeight',
         maxHeight' = maxHeight \/ (maxHeight' = maxHeight + 1 /\ h = maxHeight')
  PROVE  BooksInv'
<1>1. /\ Pc = "idle" /\ List = <<>> /\ Cur = 0
      /\ UNCHANGED <<total, utxo, handled>>
  BY DEF At, Pc, BooksInv, RestInv, StartBlock
<1>2. Pc' = "deploy" /\ List' = <<>> /\ Cur' = h /\ Pos' = 1
  BY MainFacts DEF StartBlock, Taking, IInv, TypeOK, Pc, List, Cur, Pos
<1>3. /\ Docs' = Docs /\ Docs = utxo /\ Ticks' = Ticks /\ Listed(List) = {} /\ Listed(List') = {}
      /\ \A t : NameTaken(t)' = NameTaken(t) /\ MintedEarly(t)' = MintedEarly(t)
      /\ \A m : Open(m)' = Open(m)
      /\ \A ds, m : Holds(ds, m)' = Holds(ds, m)
      /\ \A t : Booked(t)' = Booked(t)
  BY <1>1, <1>2, ListedFew
     DEF Docs, Ticks, NameTaken, MintedEarly, Open, Holds, Booked, Minted, KeyTaken
<1>4. \A d, g : DeployedIn(d, g)' = DeployedIn(d, g) /\ MadeIn(d, g)' = MadeIn(d, g)
  BY DEF DeployedIn, MadeIn
<1>5. chain' \in Chains /\ IsFiniteSet(utxo') /\ RestInv' /\ SnapInv'
  BY <1>1, <1>2 DEF BooksInv, RestInv, SnapInv
<1>6. SequenceInv'
  <2>1. maxHeight \in Nat /\ h \in Nat /\ 0 \notin Heights
    BY MainFacts DEF Heights
  <2>2. handled \subseteq 1..maxHeight /\ \A g \in 1..maxHeight : g \in handled
    BY <1>1, <2>1 DEF BooksInv, SequenceInv
  <2> QED  BY <1>1, <1>2, <2>1, <2>2 DEF SequenceInv
<1>7. DeploysInv'
  <2>1. \A g \in Heights : \A i \in DOMAIN chain.deploys[g] : DeployDone(g, i)' => DeployDone(g, i)
    <3>1. \A g \in Heights : \A i \in DOMAIN chain.deploys[g] : i \in Nat \ {0}
      BY MainFacts
    <3> QED  BY <1>1, <1>2, <3>1 DEF DeployDone
  <2> QED  BY <1>3, <2>1 DEF BooksInv, DeploysInv
<1>8. StoredInv'
  BY <1>1, <1>2, <1>4 DEF BooksInv, StoredInv
<1>9. ListedInv' /\ UniqueInv' /\ TicksInv' /\ PremintInv'
  BY <1>3 DEF BooksInv, ListedInv, UniqueInv, TicksInv, PremintInv
<1>10. MintsInv'
  <2>1. \A g \in Heights : \A i \in DOMAIN chain.mints[g] : ~Passed(i)'
    <3>1. \A g \in Heights : \A i \in DOMAIN chain.mints[g] : i \in Nat \ {0}
      BY MainFacts
    <3> QED  BY <1>2, <3>1 DEF Passed
  <2> QED  BY <1>1, <1>3, <2>1 DEF BooksInv, MintsInv
<1>11. BalanceInv'
  BY <1>1, <1>3 DEF BooksInv, BalanceInv, SharesPoint
<1> QED  BY <1>5, <1>6, <1>7, <1>8, <1>9, <1>10, <1>11 DEF BooksInv

(* Only the stage and the position of the goroutine change. *)
LEMMA CheckDeployBooks ==
  ASSUME IInv, IInv', BooksInv, CheckDeploy(Main), chain' = chain, Faulty = FALSE
  PROVE  BooksInv'
<1>1. /\ Pc = "deploy" /\ MoreDeploys(Main) /\ UNCHANGED <<total, utxo, handled, maxHeight>>
      /\ CurDeploy(Main) = chain.deploys[Cur][Pos]
  BY DEF CheckDeploy, At, Pc, CurDeploy, Cur, Pos
<1>2. /\ List' = List /\ Cur' = Cur /\ Pc' \in {"deploy", "saveTick"}
      /\ Pos' = Pos \/ (Pos' = Pos + 1 /\ NameTaken(CurDeploy(Main)))
  <2>1. CASE /\ worker' = [worker EXCEPT ![Main].i = @ + 1]
             /\ NameTaken(CurDeploy(Main)) \/ LookupFails(CurDeploy(Main))
    BY <1>1, <2>1, MainFacts DEF IInv, TypeOK, Local, Pc, List, Cur, Pos, LookupFails
  <2>2. CASE worker' = [worker EXCEPT ![Main].pc = "saveTick"]
    BY <1>1, <2>2, MainFacts DEF IInv, TypeOK, Local, Pc, List, Cur, Pos
  <2> QED  BY <2>1, <2>2 DEF CheckDeploy
<1>3. \A i : ~Passed(i) /\ ~Passed(i)'
  BY <1>1, <1>2 DEF Passed
<1>4. ASSUME NEW h \in Heights, NEW i \in DOMAIN chain.deploys[h], DeployDone(h, i)'
      PROVE  DeployDone(h, i) \/ NameTaken(chain.deploys[h][i])
  <2>1. i \in Nat /\ Pos \in Nat
    BY MainFacts
  <2> QED  BY <1>1, <1>2, <1>4, <2>1 DEF DeployDone
<1>5. SnapInv'
  BY <1>2 DEF SnapInv
<1> QED  BY <1>1, <1>2, <1>3, <1>4, <1>5, QuietBooks

LEMMA DeploysDoneBooks ==
  ASSUME IInv, IInv', BooksInv, DeploysDone(Main), chain' = chain
  PROVE  BooksInv'
<1>1. /\ Pc = "deploy" /\ ~MoreDeploys(Main) /\ UNCHANGED <<total, utxo, handled, maxHeight>>
      /\ Cur \in Heights
  BY MainFacts DEF DeploysDone, At, Pc
<1>2. List' = List /\ Cur' = Cur /\ Pc' = "mint" /\ Pos' = 1
  BY MainFacts DEF DeploysDone, IInv, TypeOK, Local, Pc, List, Cur, Pos
<1>3. \A i \in DOMAIN chain.mints[Cur] : ~Passed(i) /\ ~Passed(i)'
  <2>1. \A i \in DOMAIN chain.mints[Cur] : i \in Nat \ {0}
    BY <1>1, MainFacts
  <2> QED  BY <1>1, <1>2, <2>1 DEF Passed
<1>4. ASSUME NEW h \in Heights, NEW i \in DOMAIN chain.deploys[h], DeployDone(h, i)'
      PROVE  DeployDone(h, i)
  <2>1. i \in 1..Len(chain.deploys[h]) /\ Pos \in Nat /\ Len(chain.deploys[h]) \in Nat
    <3>1. chain.deploys[h] \in Seq(Deploys)
      BY MainFacts
    <3> QED  BY <3>1, MainFacts
  <2>2. ~(Pos <= Len(chain.deploys[Cur]))
    BY <1>1 DEF MoreDeploys, Pos, Cur
  <2> QED  BY <1>1, <1>2, <1>4, <2>1, <2>2 DEF DeployDone
<1>5. SnapInv'
  BY <1>2 DEF SnapInv
<1> QED  BY <1>1, <1>2, <1>3, <1>4, <1>5, QuietBooks

(***************************************************************************)
(* A tick begins with no mint on record, and no mint of it came earlier:   *)
(* the blocks before this one are handled, and had it among their deploys  *)
(* its name would be taken.                                                *)
(***************************************************************************)
LEMMA SaveTickBooks ==
  ASSUME IInv, IInv', BooksInv, NameFree, SaveTick(Main), chain' = chain
  PROVE  BooksInv'
<1>0. PICK d : d = CurDeploy(Main)
  OBVIOUS
<1>1. /\ Pc = "saveTick" /\ MoreDeploys(Main) /\ UNCHANGED <<utxo, handled, maxHeight>>
      /\ d = chain.deploys[Cur][Pos] /\ Cur \in Heights /\ ~NameTaken(d)
  BY <1>0, MainFacts DEF SaveTick, At, Pc, CurDeploy, Cur, Pos, IInv, StageOK, NameFree
<1>2. d \in Deploys /\ DeployDocs(d) \in Seq(Doc) /\ Premined(d) \in Nat
  BY <1>0, <1>1, CurPins, DocsTyped, MainFacts DEF Pc
<1>3. /\ Pc' = "deploy" /\ Cur' = Cur /\ Pos' = Pos + 1 /\ List' = List \o DeployDocs(d)
      /\ total' = [t \in Ticks \cup {d} |-> IF t \in Ticks THEN total[t] ELSE Premined(d)]
  BY <1>0, MainFacts DEF SaveTick, IInv, TypeOK, Local, Pc, List, Cur, Pos
<1>4. d \notin Ticks /\ Ticks' = Ticks \cup {d}
  BY <1>1, <1>3 DEF NameTaken, Ticks
<1>5. Pos \in DOMAIN chain.deploys[Cur]
  BY <1>1, MainFacts DEF MoreDeploys, Pos, Cur
<1>6. Listed(List') = Listed(List) \cup Listed(DeployDocs(d))
  BY <1>2, <1>3, MainFacts, ListedOf
<1>7. /\ \A x \in Listed(DeployDocs(d)) : FromDeploy(x, d) /\ ~IsMint(x)
      /\ Premined(d) > 0 => PremintDoc(d) \in Listed(DeployDocs(d))
  BY <1>2, DeployDocsOf
<1>8. \A i : ~Passed(i) /\ ~Passed(i)'
  BY <1>1, <1>3 DEF Passed
<1>9. \A x, g : DeployedIn(x, g)' = DeployedIn(x, g) /\ MadeIn(x, g)' = MadeIn(x, g)
  BY DEF DeployedIn, MadeIn
<1>10. \A x \in Listed(List) : DeployedIn(x, Cur) /\ ~IsMint(x)
  <2>1. \A x \in Listed(List) : DeployedIn(x, Cur)
    BY <1>8 DEF BooksInv, ListedInv
  <2>2. \A x : DeployedIn(x, Cur) => ~IsMint(x)
    BY DEF DeployedIn, FromDeploy, DeployDoc, PremintDoc, IsMint
  <2> QED  BY <2>1, <2>2
<1>11. Docs' = Docs \cup Listed(DeployDocs(d))
  BY <1>1, <1>6 DEF Docs
<1>12. chain' \in Chains /\ IsFiniteSet(utxo') /\ RestInv' /\ SnapInv' /\ SequenceInv'
  BY <1>1, <1>3 DEF BooksInv, RestInv, SnapInv, SequenceInv
<1>13. DeploysInv'
  <2>1. \A x : NameTaken(x) => NameTaken(x)'
    BY <1>4 DEF NameTaken
  <2>2. NameTaken(d)'
    BY <1>4 DEF NameTaken
  <2>3. ASSUME NEW h \in Heights, NEW i \in DOMAIN chain.deploys[h], DeployDone(h, i)'
        PROVE  DeployDone(h, i) \/ (h = Cur /\ i = Pos)
    <3>1. i \in Nat /\ Pos \in Nat
      BY MainFacts
    <3> QED  BY <1>1, <1>3, <2>3, <3>1 DEF DeployDone
  <2> QED  BY <1>1, <2>1, <2>2, <2>3 DEF BooksInv, DeploysInv
<1>14. StoredInv'
  BY <1>1, <1>3, <1>9 DEF BooksInv, StoredInv
<1>15. ListedInv'
  <2>1. \A x \in Listed(DeployDocs(d)) : DeployedIn(x, Cur)
    BY <1>1, <1>5, <1>7 DEF DeployedIn
  <2> QED  BY <1>3, <1>6, <1>9, <1>10, <2>1 DEF ListedInv
<1>16. TicksInv' /\ UniqueInv' /\ PremintInv'
  <2>1. TicksInv'
    BY <1>4, <1>7, <1>11 DEF BooksInv, TicksInv
  <2>2. UniqueInv'
    BY <1>6, <1>7, <1>10 DEF UniqueInv
  <2>3. PremintInv'
    BY <1>4, <1>7, <1>11 DEF BooksInv, PremintInv
  <2> QED  BY <2>1, <2>2, <2>3
<1>17. MintsInv'
  <2>1. SUFFICES ASSUME NEW h \in Heights, NEW i \in DOMAIN chain.mints[h],
                        Open(chain.mints[h][i])', h \in handled
                 PROVE  Holds(utxo, chain.mints[h][i])
    BY <1>1, <1>8 DEF MintsInv, Holds
  <2> DEFINE m == chain.mints[h][i]
             t == Mint[m].tick
  <2>2. t \in Ticks' /\ ~MintedEarly(t) /\ Mint[m].ok /\ total'[t] < Deploy[t].mintCount
    BY <2>1 DEF Open, MintedEarly
  <2>3. CASE t \in Ticks
    <3>1. Open(m)
      BY <1>3, <1>4, <2>2, <2>3 DEF Open
    <3> QED  BY <2>1, <3>1 DEF BooksInv, MintsInv
  <2>4. CASE t = d
    <3>1. PICK g \in 1..h : \E k \in DOMAIN chain.deploys[g] : chain.deploys[g][k] = d
      BY <2>2, <2>4 DEF MintedEarly
    <3>0. PICK k \in DOMAIN chain.deploys[g] : chain.deploys[g][k] = d
      BY <3>1
    <3>2. g \in Heights /\ h \in 1..maxHeight /\ g <= h /\ maxHeight \in Nat
      BY <2>1, MainFacts DEF BooksInv, SequenceInv, Heights
    <3>3. g \in handled
      <4>1. g \in 1..maxHeight /\ (g = maxHeight => g = h)
        BY <3>2
      <4> QED  BY <2>1, <4>1 DEF BooksInv, SequenceInv
    <3>4. DeployDone(g, k)
      BY <3>3 DEF DeployDone
    <3> QED  BY <1>1, <3>0, <3>2, <3>4 DEF BooksInv, DeploysInv
  <2> QED  BY <1>4, <2>2, <2>3, <2>4
<1>18. BalanceInv'
  <2>1. SUFFICES ASSUME NEW t \in Ticks', ~SharesPoint(t), ~MintedEarly(t)
                 PROVE  total'[t] = Premined(t) + Cardinality(Booked(t)')
    BY DEF BalanceInv, SharesPoint, MintedEarly
  <2>2. CASE t \in Ticks
    <3>1. Booked(t)' = Booked(t)
      BY <1>1, <1>6, <1>7 DEF Booked, Minted, KeyTaken
    <3> QED  BY <1>3, <2>1, <2>2, <3>1 DEF BooksInv, BalanceInv
  <2>3. CASE t = d
    <3>1. Minted(t)' = {}
      <4>1. \A x \in utxo : ~(x.tick = d /\ IsMint(x))
        BY <1>4 DEF BooksInv, TicksInv, Docs
      <4> QED  BY <1>1, <2>3, <4>1 DEF Minted, IsMint
    <3>2. Booked(t)' = {}
      BY <1>6, <1>7, <1>10, <3>1 DEF Booked
    <3>3. Cardinality(Booked(t)') = 0
      BY <3>2, FS_EmptySet
    <3>4. total'[t] = Premined(d)
      BY <1>3, <1>4, <2>3
    <3> QED  BY <1>2, <2>3, <3>3, <3>4
  <2> QED  BY <1>4, <2>1, <2>2, <2>3
<1> QED  BY <1>12, <1>13, <1>14, <1>15, <1>16, <1>17, <1>18 DEF BooksInv

(***************************************************************************)
(* The goroutine is through with a mint pin and lists its document: left   *)
(* to show is that the pin has been dealt with and the totals balance.     *)
(***************************************************************************)
LEMMA AppendBooks ==
  ASSUME IInv, IInv', BooksInv, UNCHANGED <<chain, utxo, handled, maxHeight>>,
         Ticks' = Ticks, \A t \in Ticks : total[t] <= total'[t],
         Pc \in {"mint", "shovel", "count"}, MoreMints(Main),
         NEW m, m = CurMint(Main), NEW doc \in Doc,
         Pc' = "mint", Cur' = Cur, Pos' = Pos + 1, List' = Append(List, doc),
         FromMint(doc, m), IsMint(doc) => doc.tick \in Ticks,
         Open(m)' => Holds(Docs \cup {doc}, m),
         BalanceInv'
  PROVE  BooksInv'
<1>0. PICK p : p = Pos
  OBVIOUS
<1>1. /\ Cur \in Heights /\ p \in DOMAIN chain.mints[Cur] /\ m = chain.mints[Cur][p]
      /\ p \in Nat /\ \A h \in Heights : \A i \in DOMAIN chain.mints[h] : i \in Nat
  <2>1. Cur \in Heights /\ p \in Nat \ {0} /\ chain.mints[Cur] \in Seq(Mints)
        /\ \A h \in Heights : DOMAIN chain.mints[h] = 1..Len(chain.mints[h])
    BY <1>0, MainFacts
  <2>2. p <= Len(chain.mints[Cur]) /\ m = chain.mints[Cur][p]
    BY <1>0 DEF MoreMints, CurMint, Pos, Cur
  <2> QED  BY <2>1, <2>2
<1>2. Listed(List') = Listed(List) \cup {doc} /\ Docs' = Docs \cup {doc}
  BY MainFacts, ListedOf DEF Docs
<1>3. \A i \in DOMAIN chain.mints[Cur] :
        /\ Passed(i) <=> i < p
        /\ Passed(i)' <=> i < p \/ i = p
  BY <1>0, <1>1 DEF Passed
<1>4. \A x, g : DeployedIn(x, g)' = DeployedIn(x, g) /\ MadeIn(x, g)' = MadeIn(x, g)
  BY DEF DeployedIn, MadeIn
<1>5. chain' \in Chains /\ IsFiniteSet(utxo') /\ RestInv' /\ SnapInv' /\ SequenceInv'
  BY DEF BooksInv, RestInv, SnapInv, SequenceInv
<1>6. DeploysInv'
  <2>1. \A h \in Heights : \A i \in DOMAIN chain.deploys[h] : DeployDone(h, i)' => DeployDone(h, i)
    BY DEF DeployDone
  <2> QED  BY <2>1 DEF BooksInv, DeploysInv, NameTaken
<1>7. StoredInv'
  BY <1>4 DEF BooksInv, StoredInv
<1>8. ListedInv'
  <2>1. \A x \in Listed(List) :
          DeployedIn(x, Cur)
          \/ \E i \in DOMAIN chain.mints[Cur] : Passed(i)' /\ FromMint(x, chain.mints[Cur][i])
    BY <1>3 DEF BooksInv, ListedInv
  <2>2. Passed(p)' /\ FromMint(doc, chain.mints[Cur][p])
    BY <1>1, <1>3
  <2> QED  BY <1>1, <1>2, <1>4, <2>1, <2>2 DEF ListedInv
<1>9. TicksInv' /\ PremintInv'
  BY <1>2 DEF BooksInv, TicksInv, PremintInv
<1>10. UniqueInv'
  <2>1. SUFFICES ASSUME NEW d \in Listed(List'), NEW e \in Listed(List'), IsMint(e),
                        d.tick = e.tick, d.point = e.point, ~SharesPoint(e.tick)
                 PROVE  d = e
    BY DEF UniqueInv, SharesPoint
  <2>2. e.tick \in Deploys
    BY <1>2, <1>9, <2>1, MainFacts DEF TicksInv, Docs
  <2>3. ASSUME NEW x \in Listed(List)
        PROVE  DeployedIn(x, Cur)
               \/ \E j \in DOMAIN chain.mints[Cur] : j # p /\ FromMint(x, chain.mints[Cur][j])
    BY <1>1, <1>3 DEF BooksInv, ListedInv
  <2>4. CASE d \in Listed(List) /\ e \in Listed(List)
    BY <2>1, <2>4 DEF BooksInv, UniqueInv
  <2>5. CASE d \in Listed(List) /\ e = doc
    <3>1. SharesPoint(e.tick)
      BY <1>1, <2>1, <2>2, <2>3, <2>5, OneDoc DEF BooksInv
    <3> QED  BY <2>1, <3>1
  <2>6. CASE d = doc /\ e \in Listed(List)
    <3>1. ~DeployedIn(e, Cur)
      BY <2>1 DEF DeployedIn, FromDeploy, DeployDoc, PremintDoc, IsMint
    <3>2. PICK j \in DOMAIN chain.mints[Cur] : j # p /\ FromMint(e, chain.mints[Cur][j])
      BY <2>3, <2>6, <3>1
    <3>3. \E k \in DOMAIN chain.mints[Cur] : k # j /\ FromMint(d, chain.mints[Cur][k])
      BY <1>1, <2>6, <3>2
    <3>4. SharesPoint(e.tick)
      BY <1>1, <2>1, <2>2, <3>2, <3>3, OneDoc DEF BooksInv
    <3> QED  BY <2>1, <3>4
  <2> QED  BY <1>2, <2>1, <2>4, <2>5, <2>6
<1>11. MintsInv'
  <2>1. SUFFICES ASSUME NEW h \in Heights, NEW i \in DOMAIN chain.mints[h],
                        Open(chain.mints[h][i])'
                 PROVE  /\ h \in handled => Holds(utxo, chain.mints[h][i])
                        /\ h = Cur /\ Passed(i)' => Holds(Docs \cup {doc}, chain.mints[h][i])
    BY <1>2 DEF MintsInv, Holds
  <2> DEFINE n == chain.mints[h][i]
  <2>2. Open(n)
    <3>1. /\ Mint[n].tick \in Ticks /\ ~MintedEarly(Mint[n].tick) /\ Mint[n].ok
          /\ total'[Mint[n].tick] < Deploy[Mint[n].tick].mintCount
      BY <2>1 DEF Open, MintedEarly
    <3>2. /\ total[Mint[n].tick] \in Nat /\ total'[Mint[n].tick] \in Nat
          /\ Deploy[Mint[n].tick].mintCount \in Nat
      <4>1. Mint[n].tick \in Deploys /\ total \in [Ticks -> Nat] /\ total' \in [Ticks -> Nat]
        BY <3>1, MainFacts DEF IInv, TypeOK
      <4>2. Deploy[Mint[n].tick].mintCount \in Nat
        BY <4>1, ConstantsAssumption DEF DeployInfo
      <4> QED  BY <3>1, <4>1, <4>2
    <3>3. total[Mint[n].tick] <= total'[Mint[n].tick]
      BY <3>1
    <3>4. total[Mint[n].tick] < Deploy[Mint[n].tick].mintCount
      <4> DEFINE a == total[Mint[n].tick]
                 b == total'[Mint[n].tick]
                 c == Deploy[Mint[n].tick].mintCount
      <4>1. a \in Nat /\ b \in Nat /\ c \in Nat /\ a <= b /\ b < c
        BY <3>1, <3>2, <3>3
      <4> HIDE DEF a, b, c
      <4>2. a < c
        BY <4>1
      <4> QED  BY <4>2 DEF a, c
    <3> QED  BY <3>1, <3>4 DEF Open
  <2>3. \A x : Holds(Docs, x) => Holds(Docs \cup {doc}, x)
    BY DEF Holds
  <2>4. CASE i = p /\ h = Cur
    BY <1>1, <2>1, <2>2, <2>4 DEF BooksInv, MintsInv
  <2>5. CASE ~(i = p /\ h = Cur)
    BY <1>3, <2>1, <2>2, <2>3, <2>5 DEF BooksInv, MintsInv
  <2> QED  BY <2>4, <2>5
<1> QED  BY <1>5, <1>6, <1>7, <1>8, <1>9, <1>10, <1>11 DEF BooksInv

(* A refused mint is neither counted nor one that counts. *)
LEMMA RefuseBooks ==
  ASSUME IInv, IInv', BooksInv, UNCHANGED <<chain, utxo, handled, maxHeight, total>>,
         Pc \in {"mint", "shovel"}, MoreMints(Main),
         NEW m, m = CurMint(Main), NEW doc \in Doc, RefuseMint(Main, doc), ~doc.verify,
         FromMint(doc, m), Open(m) => Holds(Docs \cup {doc}, m)
  PROVE  BooksInv'
<1>1. Pc' = "mint" /\ Cur' = Cur /\ Pos' = Pos + 1 /\ List' = Append(List, doc)
  BY MainFacts DEF RefuseMint, IInv, TypeOK, Local, Pc, List, Cur, Pos
<1>2. Ticks' = Ticks /\ ~IsMint(doc) /\ \A t \in Ticks : total[t] <= total'[t]
  BY MainFacts DEF Ticks, IsMint
<1>3. Listed(List') = Listed(List) \cup {doc}
  BY <1>1, MainFacts, ListedOf
<1>4. \A t : Booked(t)' = Booked(t)
  BY <1>2, <1>3 DEF Booked, Minted, KeyTaken
<1>5. BalanceInv'
  BY <1>2, <1>4 DEF BooksInv, BalanceInv, SharesPoint, MintedEarly
<1>6. Open(m)' => Open(m)
  BY <1>2 DEF Open, MintedEarly
<1> QED  BY <1>1, <1>2, <1>5, <1>6, AppendBooks

(* The pin the goroutine stands at. *)
LEMMA AtPin ==
  ASSUME IInv, Pc \in {"mint", "shovel", "push", "count"}, MoreMints(Main)
  PROVE  /\ CurMint(Main) \in Mints /\ Mint[CurMint(Main)] \in MintInfo
         /\ CurTick(Main) = Mint[CurMint(Main)].tick
         /\ CurTick(Main) \in Deploys \cup {NoTick}
         /\ Mint[CurMint(Main)].out \in Points /\ Mint[CurMint(Main)].to \in Points
BY MainFacts, CurPins DEF Pc, CurTick, MintInfo

LEMMA ReadTickBooks ==
  ASSUME IInv, IInv', BooksInv, ReadTick(Main), chain' = chain, Faulty = FALSE
  PROVE  BooksInv'
<1> DEFINE m == CurMint(Main)
           t == Mint[m].tick
<1>1. /\ Pc = "mint" /\ MoreMints(Main) /\ UNCHANGED <<utxo, handled, maxHeight, total>>
  BY DEF ReadTick, At, Pc
<1>2. m \in Mints /\ t \in Deploys \cup {NoTick} /\ Mint[m].out \in Points /\ CurTick(Main) = t
  BY <1>1, AtPin
<1>3. \A x \in {t, NoTick} :
        /\ MintDoc(x, Mint[m].out, FALSE) \in Doc
        /\ ~MintDoc(x, Mint[m].out, FALSE).verify
        /\ FromMint(MintDoc(x, Mint[m].out, FALSE), m)
  BY <1>2 DEF MintDoc, Doc, FromMint
<1>4. CASE t \notin Ticks /\ RefuseMint(Main, MintDoc(NoTick, Mint[m].out, FALSE))
  <2>1. ~Open(m)
    BY <1>4 DEF Open
  <2> QED  BY <1>1, <1>3, <1>4, <2>1, RefuseBooks
<1>5. CASE /\ t \in Ticks
           /\ LimitReached(t) \/ ~Mint[m].ok \/ Faulty
           /\ RefuseMint(Main, MintDoc(t, Mint[m].out, FALSE))
  <2>1. ~Open(m)
    <3>1. total[t] \in Nat /\ (LimitReached(t) => ~(total[t] < Deploy[t].mintCount))
      BY <1>5, MainFacts DEF LimitReached
    <3> QED  BY <1>5, <3>1 DEF Open
  <2> QED  BY <1>1, <1>3, <1>5, <2>1, RefuseBooks
<1>6. CASE /\ t \in Ticks /\ ~LimitReached(t) /\ Mint[m].ok
           /\ worker' = [worker EXCEPT
                ![Main].pc = IF Deploy[t].count = 0 THEN "count" ELSE "shovel",
                ![Main].snap = total[t]]
  <2>1. /\ List' = List /\ Cur' = Cur /\ Pos' = Pos /\ Pc' \in {"count", "shovel"}
        /\ worker'[Main].snap = total[t]
    BY <1>6, MainFacts DEF IInv, TypeOK, Local, Pc, List, Cur, Pos
  <2>2. CurMint(Main)' = m /\ CurTick(Main)' = t
    BY <2>1 DEF CurMint, CurTick, Cur, Pos
  <2>3. SnapInv'
    BY <1>1, <1>6, <2>1, <2>2 DEF SnapInv
  <2>4. \A i : Passed(i)' <=> Passed(i)
    BY <1>1, <2>1 DEF Passed
  <2>5. \A h, i : DeployDone(h, i)' => DeployDone(h, i)
    BY <1>1, <2>1 DEF DeployDone
  <2> QED  BY <1>1, <2>1, <2>3, <2>4, <2>5, QuietBooks
<1> QED  BY <1>4, <1>5, <1>6 DEF ReadTick

LEMMA ReadShovelsBooks ==
  ASSUME IInv, IInv', BooksInv, ReadShovels(Main), chain' = chain
  PROVE  BooksInv'
<1> DEFINE m == CurMint(Main)
           t == CurTick(Main)
<1>1. /\ Pc = "shovel" /\ MoreMints(Main) /\ UNCHANGED <<utxo, handled, maxHeight, total>>
  BY MainFacts DEF ReadShovels, At, Pc, IInv, StageOK
<1>2. m \in Mints /\ t = Mint[m].tick /\ t \in Deploys \cup {NoTick} /\ Mint[m].to \in Points
  BY <1>1, AtPin
<1>3. CASE RefuseMint(Main, MintDoc(t, Mint[m].to, FALSE))
  <2> DEFINE doc == MintDoc(t, Mint[m].to, FALSE)
  <2>1. doc \in Doc /\ ~doc.verify /\ FromMint(doc, m)
    BY <1>2 DEF MintDoc, Doc, FromMint
  <2>2. doc.tick = Mint[m].tick /\ doc.point = Mint[m].to
    BY <1>2 DEF MintDoc
  <2> HIDE DEF doc
  <2>3. Holds(Docs \cup {doc}, m)
    BY <2>2 DEF Holds
  <2> QED  BY <1>1, <1>3, <2>1, <2>3, RefuseBooks DEF doc
<1>4. ASSUME NEW s, worker' = [worker EXCEPT ![Main].pc = "push", ![Main].sel = s]
      PROVE  BooksInv'
  <2>1. /\ List' = List /\ Cur' = Cur /\ Pos' = Pos /\ Pc' = "push"
        /\ worker'[Main].snap = worker[Main].snap
    BY <1>4, MainFacts DEF IInv, TypeOK, Local, Pc, List, Cur, Pos
  <2>2. CurMint(Main)' = m /\ CurTick(Main)' = t
    BY <2>1 DEF CurMint, CurTick, Cur, Pos
  <2>3. SnapInv'
    BY <1>1, <2>1, <2>2 DEF BooksInv, SnapInv
  <2>4. \A i : Passed(i)' <=> Passed(i)
    BY <1>1, <2>1 DEF Passed
  <2>5. \A h, i : DeployDone(h, i)' => DeployDone(h, i)
    BY <1>1, <2>1 DEF DeployDone
  <2> QED  BY <1>1, <2>1, <2>3, <2>4, <2>5, QuietBooks
<1> QED  BY <1>3, <1>4 DEF ReadShovels

LEMMA PushShovelsBooks ==
  ASSUME IInv, IInv', BooksInv, PushShovels(Main), chain' = chain
  PROVE  BooksInv'
<1>1. Pc = "push" /\ UNCHANGED <<utxo, handled, maxHeight, total>>
  BY DEF PushShovels, At, Pc
<1>2. /\ List' = List /\ Cur' = Cur /\ Pos' = Pos /\ Pc' = "count"
      /\ worker'[Main].snap = worker[Main].snap
  BY MainFacts DEF PushShovels, IInv, TypeOK, Local, Pc, List, Cur, Pos
<1>3. CurMint(Main)' = CurMint(Main) /\ CurTick(Main)' = CurTick(Main)
  BY <1>2 DEF CurMint, CurTick, Cur, Pos
<1>4. SnapInv'
  BY <1>1, <1>2, <1>3 DEF BooksInv, SnapInv
<1>5. \A i : Passed(i)' <=> Passed(i)
  BY <1>1, <1>2 DEF Passed
<1>6. \A h, i : DeployDone(h, i)' => DeployDone(h, i)
  BY <1>1, <1>2 DEF DeployDone
<1> QED  BY <1>1, <1>2, <1>4, <1>5, <1>6, QuietBooks

LEMMA MintsDoneBooks ==
  ASSUME IInv, IInv', BooksInv, MintsDone(Main), chain' = chain
  PROVE  BooksInv'
<1>1. Pc = "mint" /\ ~MoreMints(Main) /\ UNCHANGED <<utxo, handled, maxHeight, total>>
  BY DEF MintsDone, At, Pc
<1>2. List' = List /\ Cur' = Cur /\ Pos' = Pos /\ Pc' = "save"
  BY MainFacts DEF MintsDone, IInv, TypeOK, Local, Pc, List, Cur, Pos
<1>3. \A i \in DOMAIN chain.mints[Cur] : Cur \in Heights => Passed(i) /\ Passed(i)'
  <2>1. ASSUME NEW i \in DOMAIN chain.mints[Cur], Cur \in Heights PROVE i < Pos
    <3>1. chain.mints[Cur] \in Seq(Mints) /\ Pos \in Nat
      BY <2>1, MainFacts
    <3>2. ~(Pos <= Len(chain.mints[Cur]))
      BY <1>1 DEF MoreMints, Pos, Cur
    <3> QED  BY <3>1, <3>2
  <2> QED  BY <1>1, <1>2, <2>1 DEF Passed
<1>4. \A h, i : DeployDone(h, i)' => DeployDone(h, i)
  BY <1>1, <1>2 DEF DeployDone
<1>5. SnapInv'
  BY <1>2 DEF SnapInv
<1> QED  BY <1>1, <1>2, <1>3, <1>4, <1>5, QuietBooks

(***************************************************************************)
(* At its first handling a mint finds nothing at its output, since all     *)
(* that is stored is of other blocks: it is counted, and its document will *)
(* be stored.  At a re-run the document that dealt with it is there, and   *)
(* it is neither counted nor stored again.                                 *)
(***************************************************************************)
LEMMA CountMintBooks ==
  ASSUME IInv, IInv', BooksInv, CountMint(Main), chain' = chain
  PROVE  BooksInv'
<1>0. PICK m, p : m = CurMint(Main) /\ p = Pos
  OBVIOUS
<1> DEFINE t == Mint[m].tick
           doc == MintDoc(t, Mint[m].to, TRUE)
<1>1. /\ Pc = "count" /\ MoreMints(Main) /\ UNCHANGED <<utxo, handled, maxHeight>>
      /\ CurTick(Main) = t /\ Mint[m].ok /\ worker[Main].snap = total[t]
      /\ t \in Ticks /\ total[t] < Deploy[t].mintCount
  BY <1>0, MainFacts DEF CountMint, At, Pc, IInv, StageOK, BooksInv, SnapInv, CurTick
<1>2. m \in Mints /\ t \in Deploys /\ Mint[m].to \in Points /\ total[t] \in Nat
  BY <1>0, <1>1, AtPin, MainFacts
<1>3. /\ doc \in Doc /\ IsMint(doc) /\ doc.verify /\ FromMint(doc, m)
      /\ doc.tick = t /\ doc.point = Mint[m].to
  BY <1>2 DEF MintDoc, Doc, FromMint, IsMint
<1>4. /\ Pc' = "mint" /\ Cur' = Cur /\ Pos' = Pos + 1 /\ List' = Append(List, doc)
      /\ total' = IF AlreadyCounted(Mint[m].to) THEN total
                  ELSE [total EXCEPT ![t] = worker[Main].snap + 1]
  BY <1>0, MainFacts DEF CountMint, IInv, TypeOK, Local, Pc, List, Cur, Pos
<1>5. Ticks' = Ticks /\ \A x \in Ticks : total[x] <= total'[x]
  BY <1>1, <1>2, <1>4, MainFacts DEF Ticks
<1>6. /\ Cur \in Heights /\ p \in DOMAIN chain.mints[Cur] /\ m = chain.mints[Cur][p] /\ p \in Nat
      /\ \A i \in DOMAIN chain.mints[Cur] : i \in Nat
  <2>1. Cur \in Heights /\ p \in Nat \ {0} /\ chain.mints[Cur] \in Seq(Mints)
        /\ DOMAIN chain.mints[Cur] = 1..Len(chain.mints[Cur])
    BY <1>0, <1>1, MainFacts
  <2>2. p <= Len(chain.mints[Cur]) /\ m = chain.mints[Cur][p]
    BY <1>0, <1>1 DEF MoreMints, CurMint, Pos, Cur
  <2> QED  BY <2>1, <2>2
<1>7. Listed(List') = Listed(List) \cup {doc}
  BY <1>3, <1>4, MainFacts, ListedOf
<1>8. Holds(Docs \cup {doc}, m)
  BY <1>3 DEF Holds
<1> HIDE DEF doc
<1>9. ASSUME NEW x \in Ticks, x # t
      PROVE  Booked(x)' = Booked(x) /\ total'[x] = total[x]
  BY <1>1, <1>3, <1>4, <1>7, <1>9, MainFacts DEF Booked, Minted, KeyTaken
<1>10. ASSUME AlreadyCounted(Mint[m].to), ~MintedEarly(t)
       PROVE  Booked(t)' = Booked(t) /\ total'[t] = total[t]
  <2>1. PICK d \in utxo : d.point = Mint[m].to
    BY <1>10 DEF AlreadyCounted
  <2>2. PICK h \in Heights : h \in handled /\ (DeployedIn(d, h) \/ MadeIn(d, h))
    BY <1>1, <2>1 DEF BooksInv, StoredInv
  <2>3. h = Cur
    BY <1>6, <2>1, <2>2, AtMint DEF BooksInv
  <2>4. Open(m)
    BY <1>1, <1>10 DEF Open
  <2>5. Holds(utxo, m)
    BY <1>6, <2>2, <2>3, <2>4 DEF BooksInv, MintsInv
  <2>6. KeyTaken(doc)
    BY <1>3, <2>5 DEF KeyTaken, Holds
  <2>7. Booked(t)' = Booked(t)
    BY <1>1, <1>7, <2>6 DEF Booked, Minted, KeyTaken
  <2> QED  BY <1>4, <1>10, <2>7
<1>11. ASSUME ~AlreadyCounted(Mint[m].to), ~SharesPoint(t)
       PROVE  /\ Booked(t)' = Booked(t) \cup {doc} /\ doc \notin Booked(t)
              /\ total'[t] = total[t] + 1
  <2>1. ~KeyTaken(doc) /\ doc \notin utxo
    BY <1>3, <1>11 DEF AlreadyCounted, KeyTaken
  <2>2. Booked(t)' = Booked(t) \cup {doc}
    BY <1>1, <1>3, <1>7, <2>1 DEF Booked, Minted, KeyTaken
  <2>3. doc \notin Listed(List)
    <3>1. SUFFICES ASSUME doc \in Listed(List) PROVE FALSE
      OBVIOUS
    <3>2. DeployedIn(doc, Cur)
          \/ \E j \in DOMAIN chain.mints[Cur] : j # p /\ FromMint(doc, chain.mints[Cur][j])
      BY <1>0, <1>1, <1>6, <3>1 DEF BooksInv, ListedInv, Passed
    <3>3. SharesPoint(t)
      BY <1>2, <1>3, <1>6, <3>2, OneDoc DEF BooksInv
    <3> QED  BY <1>11, <3>3
  <2>4. total'[t] = total[t] + 1
    BY <1>1, <1>4, <1>11, MainFacts
  <2> QED  BY <2>1, <2>2, <2>3, <2>4 DEF Booked, Minted
<1>12. BalanceInv'
  <2>1. SUFFICES ASSUME NEW x \in Ticks, ~SharesPoint(x), ~MintedEarly(x)
                 PROVE  total'[x] = Premined(x) + Cardinality(Booked(x)')
    BY <1>5 DEF BalanceInv, SharesPoint, MintedEarly
  <2>2. total[x] = Premined(x) + Cardinality(Booked(x))
    BY <2>1 DEF BooksInv, BalanceInv
  <2>3. CASE x # t
    BY <1>9, <2>2, <2>3
  <2>4. CASE x = t /\ AlreadyCounted(Mint[m].to)
    BY <1>10, <2>1, <2>2, <2>4
  <2>5. CASE x = t /\ ~AlreadyCounted(Mint[m].to)
    <3>1. IsFiniteSet(Booked(t))
      <4>1. IsFiniteSet(utxo) /\ IsFiniteSet(Listed(List))
        BY MainFacts, ListedFinite DEF BooksInv
      <4>2. Booked(t) \subseteq utxo \cup Listed(List)
        BY DEF Booked, Minted
      <4> QED  BY <4>1, <4>2, FS_Union, FS_Subset
    <3>2. Cardinality(Booked(t)') = Cardinality(Booked(t)) + 1 /\ Cardinality(Booked(t)) \in Nat
      BY <1>11, <2>1, <2>5, <3>1, FS_AddElement, FS_CardinalityType
    <3>3. Premined(t) \in Nat
      BY <1>2, DocsTyped
    <3> QED  BY <1>11, <2>1, <2>2, <2>5, <3>2, <3>3
  <2> QED  BY <2>3, <2>4, <2>5
<1>13. IsMint(doc) => doc.tick \in Ticks
  BY <1>1, <1>3
<1> QED  BY <1>0, <1>1, <1>3, <1>4, <1>5, <1>8, <1>12, <1>13, AppendBooks

(***************************************************************************)
(* A document is inserted, or its key is taken: by a document of the same  *)
(* mint or pre-mint, or by one of another mint of the tick at its output.  *)
(***************************************************************************)
LEMMA SaveDocBooks ==
  ASSUME IInv, IInv', BooksInv, SaveDoc(Main), chain' = chain
  PROVE  BooksInv'
<1>0. PICK doc : doc = Head(List)
  OBVIOUS
<1>1. /\ Pc = "save" /\ List # <<>> /\ Cur \in Heights
      /\ UNCHANGED <<total, handled, maxHeight>>
      /\ utxo' = IF KeyTaken(doc) THEN utxo ELSE utxo \cup {doc}
  BY <1>0, MainFacts DEF SaveDoc, At, Pc, List
<1>2. Pc' = "save" /\ Cur' = Cur /\ Pos' = Pos /\ List' = Tail(List)
  BY <1>1, MainFacts DEF SaveDoc, IInv, TypeOK, Local, Pc, List, Cur, Pos
<1>3. /\ doc \in Doc /\ doc \in Listed(List) /\ Listed(List') \subseteq Listed(List)
      /\ Listed(List) = {doc} \cup Listed(List')
  <2>1. List \in Seq(Doc) /\ List # <<>>
    BY <1>1, MainFacts
  <2>2. List = <<doc>> \o Tail(List) /\ <<doc>> \in Seq(Doc) /\ Tail(List) \in Seq(Doc) /\ doc \in Doc
    BY <1>0, <2>1
  <2> DEFINE a == <<doc>>
             b == Tail(List)
  <2>3. List = a \o b /\ a \in Seq(Doc) /\ b \in Seq(Doc) /\ Listed(a) = {doc}
    BY <2>2, ListedFew
  <2> HIDE DEF a
  <2>4. Listed(List) = {doc} \cup Listed(b)
    <3> HIDE DEF b
    <3>1. Listed(a \o b) = Listed(a) \cup Listed(b)
      BY <2>3, ListedOf
    <3> QED  BY <2>3, <3>1
  <2> QED  BY <1>2, <2>2, <2>4
<1>4. /\ Ticks' = Ticks /\ utxo \subseteq utxo' /\ Docs' \subseteq Docs
      /\ \A m : Open(m)' = Open(m)
      /\ \A i : Passed(i)' = Passed(i)
      /\ \A d, h : DeployedIn(d, h)' = DeployedIn(d, h) /\ MadeIn(d, h)' = MadeIn(d, h)
  BY <1>1, <1>2, <1>3 DEF Ticks, Docs, Open, MintedEarly, Passed, DeployedIn, MadeIn
<1>5. \A e \in Docs : e \in Docs' \/ (e = doc /\ KeyTaken(doc))
  BY <1>1, <1>3 DEF Docs
<1>6. chain' \in Chains /\ IsFiniteSet(utxo') /\ RestInv' /\ SnapInv' /\ SequenceInv'
  <2>1. IsFiniteSet(utxo')
    BY <1>1, FS_AddElement DEF BooksInv
  <2> QED  BY <1>1, <1>2, <2>1 DEF BooksInv, RestInv, SnapInv, SequenceInv
<1>7. DeploysInv'
  BY <1>1, <1>2, <1>4 DEF BooksInv, DeploysInv, DeployDone, NameTaken
<1>8. StoredInv'
  <2>1. DeployedIn(doc, Cur) \/ MadeIn(doc, Cur)
    BY <1>3 DEF BooksInv, ListedInv, MadeIn
  <2> QED  BY <1>1, <1>2, <1>4, <2>1 DEF BooksInv, StoredInv
<1>9. ListedInv' /\ UniqueInv' /\ TicksInv'
  <2>1. ListedInv'
    BY <1>2, <1>3, <1>4 DEF BooksInv, ListedInv
  <2>2. UniqueInv'
    BY <1>3 DEF BooksInv, UniqueInv, SharesPoint
  <2>3. TicksInv'
    BY <1>4 DEF BooksInv, TicksInv
  <2> QED  BY <2>1, <2>2, <2>3
<1>10. MintsInv'
  <2>1. \A x : Holds(utxo, x) => Holds(utxo', x)
    BY <1>4 DEF Holds
  <2>2. ASSUME NEW x, Holds(Docs, x) PROVE Holds(Docs', x)
    <3>1. PICK e \in Docs : e.tick = Mint[x].tick /\ e.point = Mint[x].to
      BY <2>2 DEF Holds
    <3>2. \E f \in Docs' : f.tick = e.tick /\ f.point = e.point
      <4>1. CASE e \in Docs'
        BY <4>1
      <4>2. CASE e = doc /\ KeyTaken(doc)
        BY <1>4, <4>2 DEF KeyTaken, Docs
      <4> QED  BY <1>5, <4>1, <4>2
    <3> QED  BY <3>1, <3>2 DEF Holds
  <2> QED  BY <1>1, <1>2, <1>4, <2>1, <2>2 DEF BooksInv, MintsInv, Holds
<1>11. PremintInv'
  <2>1. SUFFICES ASSUME NEW t \in Ticks, Premined(t) > 0, PremintDoc(t) = doc, KeyTaken(doc)
                 PROVE  PremintDoc(t) \in Docs'
    BY <1>4, <1>5 DEF BooksInv, PremintInv
  <2>2. PICK d \in utxo : d.tick = t /\ d.point = Deploy[t].premintTo
    BY <2>1 DEF KeyTaken, PremintDoc
  <2>3. PICK h \in Heights : DeployedIn(d, h) \/ MadeIn(d, h)
    BY <2>2 DEF BooksInv, StoredInv
  <2>4. t \in Deploys
    BY MainFacts
  <2>5. CASE DeployedIn(d, h)
    <3>1. PICK i \in DOMAIN chain.deploys[h] : FromDeploy(d, chain.deploys[h][i])
      BY <2>5 DEF DeployedIn
    <3>2. FromDeploy(d, t)
      BY <2>2, <3>1 DEF FromDeploy, DeployDoc, PremintDoc
    <3>3. d # DeployDoc(t)
      BY <2>1, <2>2, <2>4, OutputsAssumption DEF DeployDoc
    <3> QED  BY <1>4, <2>2, <3>2, <3>3 DEF FromDeploy, Docs
  <2>6. CASE MadeIn(d, h)
    <3>1. PICK i \in DOMAIN chain.mints[h] : FromMint(d, chain.mints[h][i])
      BY <2>6 DEF MadeIn
    <3>2. chain.mints[h][i] \in Mints
      BY MainFacts
    <3> QED  BY <2>2, <2>4, <3>1, <3>2, ConstantsAssumption, OutputsAssumption DEF FromMint
  <2> QED  BY <2>3, <2>5, <2>6
<1>12. BalanceInv'
  <2>1. SUFFICES ASSUME NEW t \in Ticks, ~SharesPoint(t) PROVE Booked(t)' = Booked(t)
    BY <1>1, <1>4 DEF BooksInv, BalanceInv, SharesPoint, MintedEarly
  <2>2. CASE KeyTaken(doc)
    BY <1>1, <1>3, <2>2 DEF Booked, Minted, KeyTaken
  <2>3. CASE ~KeyTaken(doc)
    <3>1. \A e \in Listed(List) :
            e.tick = t /\ IsMint(e) /\ doc.tick = e.tick /\ doc.point = e.point => doc = e
      BY <1>3, <2>1 DEF BooksInv, UniqueInv
    <3>2. utxo' = utxo \cup {doc}
      BY <1>1, <2>3
    <3>3. \A e : KeyTaken(e)' <=> KeyTaken(e) \/ (doc.tick = e.tick /\ doc.point = e.point)
      BY <3>2 DEF KeyTaken
    <3>4. Minted(t)' = Minted(t) \cup {d \in {doc} : d.tick = t /\ IsMint(d)}
      BY <3>2 DEF Minted, IsMint
    <3>5. ASSUME NEW x \in Booked(t)' PROVE x \in Booked(t)
      BY <1>3, <2>3, <3>3, <3>4, <3>5 DEF Booked
    <3>6. ASSUME NEW x \in Booked(t) PROVE x \in Booked(t)'
      BY <1>3, <2>3, <3>1, <3>3, <3>4, <3>6 DEF Booked
    <3> QED  BY <3>5, <3>6
  <2> QED  BY <2>2, <2>3
<1> QED  BY <1>6, <1>7, <1>8, <1>9, <1>10, <1>11, <1>12 DEF BooksInv

LEMMA EndBlockBooks ==
  ASSUME IInv, IInv', BooksInv, EndBlock(Main), chain' = chain
  PROVE  BooksInv'
<1>0. PICK h : h = Cur
  OBVIOUS
<1>1. /\ Pc = "save" /\ List = <<>> /\ h \in Heights
      /\ UNCHANGED <<total, utxo, maxHeight>> /\ handled' = handled \cup {h}
  BY <1>0, MainFacts DEF EndBlock, At, Pc, List, Cur
<1>2. Pc' = "idle" /\ Cur' = 0 /\ List' = <<>>
  BY MainFacts DEF EndBlock, Idle, IInv, TypeOK, Pc, List, Cur
<1>3. /\ Docs' = Docs /\ Docs = utxo /\ Ticks' = Ticks /\ Listed(List) = {} /\ Listed(List') = {}
      /\ \A t : NameTaken(t)' = NameTaken(t) /\ MintedEarly(t)' = MintedEarly(t)
      /\ \A m : Open(m)' = Open(m)
      /\ \A t : Booked(t)' = Booked(t)
      /\ \A d, g : DeployedIn(d, g)' = DeployedIn(d, g) /\ MadeIn(d, g)' = MadeIn(d, g)
  BY <1>1, <1>2, ListedFew
     DEF Docs, Ticks, NameTaken, MintedEarly, Open, Booked, Minted, KeyTaken, DeployedIn, MadeIn
<1>4. 0 \notin Heights /\ h \in Nat /\ maxHeight \in Nat
  BY <1>1, MainFacts DEF Heights
<1>5. chain' \in Chains /\ IsFiniteSet(utxo') /\ RestInv' /\ SnapInv' /\ SequenceInv'
  <2>1. h \in 1..maxHeight
    BY <1>0, <1>1, <1>4 DEF BooksInv, SequenceInv, Heights
  <2>2. handled \subseteq 1..maxHeight
        /\ \A g \in 1..maxHeight : g \in handled \/ (g = maxHeight /\ g = h)
    BY <1>0 DEF BooksInv, SequenceInv
  <2>3. SequenceInv'
    BY <1>1, <1>2, <1>4, <2>1, <2>2 DEF SequenceInv
  <2> QED  BY <1>1, <1>2, <2>3 DEF BooksInv, RestInv, SnapInv
<1>6. DeploysInv'
  <2>1. \A g \in Heights : \A i \in DOMAIN chain.deploys[g] : DeployDone(g, i)' => DeployDone(g, i)
    BY <1>0, <1>1, <1>2, <1>4 DEF DeployDone
  <2> QED  BY <1>3, <2>1 DEF BooksInv, DeploysInv
<1>7. StoredInv'
  BY <1>0, <1>1, <1>3 DEF BooksInv, StoredInv
<1>8. ListedInv' /\ UniqueInv' /\ TicksInv' /\ PremintInv'
  BY <1>3 DEF BooksInv, ListedInv, UniqueInv, TicksInv, PremintInv
<1>9. MintsInv'
  <2>1. \A i : Passed(i)
    BY <1>1 DEF Passed
  <2> QED  BY <1>0, <1>1, <1>2, <1>3, <1>4, <2>1 DEF BooksInv, MintsInv, Holds
<1>10. BalanceInv'
  BY <1>1, <1>3 DEF BooksInv, BalanceInv, SharesPoint
<1> QED  BY <1>5, <1>6, <1>7, <1>8, <1>9, <1>10 DEF BooksInv

LEMMA NextBooks ==
  ASSUME Workers = {Main}, Faulty = FALSE
  PROVE  NamesInv /\ BooksInv /\ [Next]_vars => BooksInv'
<1> SUFFICES ASSUME NamesInv, BooksInv, [Next]_vars PROVE BooksInv'
  OBVIOUS
<1>1. IInv /\ IInv' /\ chain' = chain /\ NameFree
  BY NextIInv DEF NamesInv, Next, vars
<1>2. CASE \E w \in Workers : Step(w)
  <2>1. Step(Main)
    BY <1>2
  <2>2. CASE Advance(Main)
    <3>1. maxHeight + 1 \in Heights /\ maxHeight' = maxHeight + 1 /\ maxHeight \in Nat
      BY <1>1, <2>2, MainFacts DEF Advance, Heights
    <3> QED  BY <1>1, <2>2, <3>1, StartBooks DEF Advance
  <2>3. ASSUME NEW h \in Heights, Reindex(Main, h) PROVE BooksInv'
    <3>1. maxHeight \in Nat /\ maxHeight <= maxHeight'
      BY <1>1, <2>3, MainFacts DEF Reindex
    <3> QED  BY <1>1, <2>3, <3>1, StartBooks DEF Reindex
  <2> QED  BY <1>1, <2>1, <2>2, <2>3, CheckDeployBooks, SaveTickBooks, DeploysDoneBooks,
              ReadTickBooks, ReadShovelsBooks, PushShovelsBooks, CountMintBooks, MintsDoneBooks,
              SaveDocBooks, EndBlockBooks
           DEF Step
<1>3. CASE UNCHANGED vars
  <2>1. /\ Pc' = Pc /\ Pos' = Pos /\ List' = List /\ Cur' = Cur
        /\ CurMint(Main)' = CurMint(Main) /\ CurTick(Main)' = CurTick(Main)
    BY <1>3 DEF vars, Pc, Pos, List, Cur, CurMint, CurTick
  <2>2. \A i : Passed(i)' <=> Passed(i)
    BY <2>1 DEF Passed
  <2>3. \A h, i : DeployDone(h, i)' => DeployDone(h, i)
    BY <1>3, <2>1 DEF DeployDone, vars
  <2>4. SnapInv'
    BY <1>3, <2>1 DEF BooksInv, SnapInv, vars
  <2> QED  BY <1>1, <1>3, <2>1, <2>2, <2>3, <2>4, QuietBooks DEF vars
<1> QED  BY <1>2, <1>3 DEF Next, FetchFails, Crash

LEMMA InitBooks == Init => BooksInv
<1> SUFFICES ASSUME Init PROVE BooksInv
  OBVIOUS
<1>1. /\ IInv /\ worker[Main] = Idle /\ utxo = {} /\ handled = {} /\ maxHeight = 0 /\ Ticks = {}
      /\ chain \in Chains
  BY InitIInv, ConstantsAssumption DEF Init, Ticks
<1>2. Pc = "idle" /\ Cur = 0 /\ List = <<>> /\ 0 \notin Heights
  BY <1>1 DEF Pc, Cur, List, Idle, Heights
<1>3. Docs = {} /\ Listed(List) = {}
  BY <1>1, <1>2, ListedFew DEF Docs
<1>4. IsFiniteSet(utxo) /\ RestInv /\ SequenceInv /\ SnapInv
  BY <1>1, <1>2, FS_EmptySet DEF RestInv, SequenceInv, SnapInv
<1>5. DeploysInv /\ MintsInv
  BY <1>1, <1>2 DEF DeploysInv, DeployDone, MintsInv, Open
<1> QED  BY <1>1, <1>3, <1>4, <1>5
         DEF BooksInv, StoredInv, ListedInv, TicksInv, UniqueInv, PremintInv, BalanceInv

(***************************************************************************)
(* While one goroutine at a time handles blocks and none fails, what the   *)
(* mrc20ticks collection says was minted is, between two blocks, what the  *)
(* mrc20utxos collection holds: the verified mints and the pre-mint, for   *)
(* every chain and however often blocks are run again (excepting only      *)
(* ticks of which two mints meet at an output or one came too early).      *)
(***************************************************************************)
THEOREM BooksStayBalanced ==
  ASSUME Workers = {Main}, Faulty = FALSE
  PROVE  Spec => []BooksBalance
<1>1. IInv /\ BooksInv => BooksBalance
  <2> SUFFICES ASSUME IInv, BooksInv, At(Main, "idle"), NEW t \in Ticks,
                      ~SharesPoint(t), ~MintedEarly(t)
               PROVE  total[t] = Cardinality(Minted(t))
                                 + IF \E d \in utxo : d.tick = t /\ d.opt = "pre-mint"
                                   THEN Premined(t) ELSE 0
    BY MainFacts DEF BooksBalance
  <2>1. List = <<>> /\ Listed(List) = {}
    BY ListedFew DEF BooksInv, RestInv, At, Pc
  <2>2. Booked(t) = Minted(t) /\ Docs = utxo
    BY <2>1 DEF Booked, Docs
  <2>3. total[t] = Premined(t) + Cardinality(Minted(t))
    BY <2>2 DEF BooksInv, BalanceInv
  <2>4. Premined(t) \in Nat /\ Cardinality(Minted(t)) \in Nat
    <3>1. IsFiniteSet(utxo) /\ Minted(t) \subseteq utxo
      BY DEF BooksInv, Minted
    <3> QED  BY <3>1, MainFacts, DocsTyped, FS_Subset, FS_CardinalityType
  <2>5. Premined(t) > 0 => \E d \in utxo : d.tick = t /\ d.opt = "pre-mint"
    BY <2>2 DEF BooksInv, PremintInv, PremintDoc
  <2> QED  BY <2>3, <2>4, <2>5
<1>2. NamesInv => IInv
  BY DEF NamesInv
<1> QED  BY <1>1, <1>2, NamesAtFirst, InitBooks, NamesStep, NextBooks, PTL DEF Spec

----------------------------------------------------------------------------
(* Running a handled block again. *)

(* Whatever it lists that is accepted is on record already. *)
RerunInv ==
  Main \in again /\ Pc # "idle" =>
    /\ Cur \in handled
    /\ \A d \in Listed(List) : d.verify /\ ~MintedEarly(d.tick) => KeyTaken(d)

(* Nothing is deployed: the names of the block's deploys are all taken. *)
LEMMA NoDeployAgain ==
  ASSUME IInv, BooksInv, NameFree, RerunInv, Main \in again
  PROVE  ~SaveTick(Main)
<1> SUFFICES ASSUME SaveTick(Main) PROVE FALSE
  OBVIOUS
<1>1. /\ Pc = "saveTick" /\ MoreDeploys(Main) /\ ~NameTaken(CurDeploy(Main))
      /\ CurDeploy(Main) = chain.deploys[Cur][Pos] /\ Cur \in Heights
  BY MainFacts DEF SaveTick, At, Pc, CurDeploy, Cur, Pos, IInv, StageOK, NameFree
<1>2. Pos \in DOMAIN chain.deploys[Cur]
  BY <1>1, MainFacts DEF MoreDeploys, Pos, Cur
<1>3. DeployDone(Cur, Pos)
  BY <1>1 DEF RerunInv, DeployDone
<1> QED  BY <1>1, <1>2, <1>3 DEF BooksInv, DeploysInv

(* An accepted mint has its document already. *)
LEMMA StoredAgain ==
  ASSUME IInv, BooksInv, RerunInv, Main \in again, CountMint(Main), ~MintedEarly(CurTick(Main))
  PROVE  Holds(utxo, CurMint(Main))
<1>1. /\ Pc = "count" /\ MoreMints(Main) /\ Cur \in Heights /\ Cur \in handled
      /\ Pos \in DOMAIN chain.mints[Cur] /\ CurMint(Main) = chain.mints[Cur][Pos]
  <2>1. Pc = "count" /\ MoreMints(Main)
    BY MainFacts DEF CountMint, At, Pc, IInv, StageOK
  <2>2. Cur \in Heights /\ Pos \in Nat \ {0} /\ DOMAIN chain.mints[Cur] = 1..Len(chain.mints[Cur])
        /\ chain.mints[Cur] \in Seq(Mints)
    BY <2>1, MainFacts
  <2>3. Pos <= Len(chain.mints[Cur]) /\ CurMint(Main) = chain.mints[Cur][Pos]
    BY <2>1 DEF MoreMints, CurMint, Pos, Cur
  <2> QED  BY <2>1, <2>2, <2>3 DEF RerunInv
<1>2. Open(CurMint(Main))
  BY <1>1, MainFacts DEF BooksInv, SnapInv, Open, IInv, StageOK, CurTick, Pc
<1> QED  BY <1>1, <1>2 DEF BooksInv, MintsInv

LEMMA NextRerun ==
  ASSUME Workers = {Main}, Faulty = FALSE
  PROVE  NamesInv /\ BooksInv /\ RerunInv /\ [Next]_vars => RerunInv'
<1> SUFFICES ASSUME NamesInv, BooksInv, RerunInv, [Next]_vars PROVE RerunInv'
  OBVIOUS
<1>1. IInv /\ chain' = chain /\ NameFree /\ \A t : MintedEarly(t)' = MintedEarly(t)
  BY DEF NamesInv, Next, vars, MintedEarly
<1>2. ASSUME NEW h, StartBlock(Main, h) PROVE RerunInv'
  <2>1. Cur' = h /\ Listed(List') = {}
    BY <1>1, <1>2, MainFacts, ListedFew DEF StartBlock, Taking, IInv, TypeOK, List, Cur
  <2>2. handled' = handled /\ (Main \in again' => h \in handled)
    BY <1>2 DEF StartBlock
  <2> QED  BY <2>1, <2>2 DEF RerunInv
<1>3. CASE EndBlock(Main)
  BY <1>1, <1>3, MainFacts DEF EndBlock, Idle, IInv, TypeOK, Pc, RerunInv
<1>4. ASSUME UNCHANGED <<again, handled>>, utxo \subseteq utxo', Cur' = Cur,
             Pc = "idle" => Pc' = "idle",
             \A d \in Listed(List') :
               Main \in again /\ Pc # "idle" =>
                 \/ d \in Listed(List) \/ ~d.verify \/ MintedEarly(d.tick) \/ KeyTaken(d)
      PROVE  RerunInv'
  <2>1. \A d : KeyTaken(d) => KeyTaken(d)'
    BY <1>4 DEF KeyTaken
  <2> QED  BY <1>1, <1>4, <2>1 DEF RerunInv
<1>5. CASE \/ CheckDeploy(Main) \/ DeploysDone(Main) \/ PushShovels(Main) \/ MintsDone(Main)
           \/ UNCHANGED vars
  <2>1. Cur' = Cur /\ List' = List /\ (Pc = "idle" => Pc' = "idle")
    <3>1. CASE CheckDeploy(Main)
      <4>1. CASE worker' = [worker EXCEPT ![Main].i = @ + 1]
        BY <1>1, <4>1, MainFacts DEF IInv, TypeOK, Local, Pc, List, Cur
      <4>2. CASE worker' = [worker EXCEPT ![Main].pc = "saveTick"]
        BY <1>1, <3>1, <4>2, MainFacts DEF CheckDeploy, At, IInv, TypeOK, Local, Pc, List, Cur
      <4> QED  BY <3>1, <4>1, <4>2 DEF CheckDeploy
    <3>2. CASE DeploysDone(Main)
      BY <1>1, <3>2, MainFacts DEF DeploysDone, At, IInv, TypeOK, Local, Pc, List, Cur
    <3>3. CASE PushShovels(Main)
      BY <1>1, <3>3, MainFacts DEF PushShovels, At, IInv, TypeOK, Local, Pc, List, Cur
    <3>4. CASE MintsDone(Main)
      BY <1>1, <3>4, MainFacts DEF MintsDone, At, IInv, TypeOK, Local, Pc, List, Cur
    <3>5. CASE UNCHANGED vars
      BY <3>5 DEF vars, Pc, List, Cur
    <3> QED  BY <1>5, <3>1, <3>2, <3>3, <3>4, <3>5
  <2>2. UNCHANGED <<again, handled, utxo>>
    BY <1>5 DEF CheckDeploy, DeploysDone, PushShovels, MintsDone, vars
  <2> QED  BY <1>4, <2>1, <2>2
<1>6. CASE SaveTick(Main)
  <2>1. Main \notin again /\ again' = again
    BY <1>1, <1>6, NoDeployAgain DEF SaveTick
  <2> QED  BY <2>1 DEF RerunInv
<1>7. ASSUME NEW doc \in Doc, ~doc.verify, RefuseMint(Main, doc), Pc # "idle",
             UNCHANGED <<again, handled, utxo>>
      PROVE  RerunInv'
  <2>1. Cur' = Cur /\ List' = Append(List, doc)
    BY <1>1, <1>7, MainFacts DEF RefuseMint, IInv, TypeOK, Local, List, Cur
  <2>2. Listed(List') = Listed(List) \cup {doc}
    BY <1>1, <2>1, MainFacts, ListedOf
  <2> QED  BY <1>4, <1>7, <2>1, <2>2
<1>8. ASSUME Cur' = Cur, List' = List, Pc # "idle", UNCHANGED <<again, handled, utxo>>
      PROVE  RerunInv'
  BY <1>4, <1>8
<1>9. CASE ReadTick(Main)
  <2> DEFINE m == Mint[CurMint(Main)]
  <2>1. Pc = "mint" /\ MoreMints(Main) /\ UNCHANGED <<again, handled, utxo>>
    BY <1>9 DEF ReadTick, At, Pc
  <2>2. m.tick \in Deploys \cup {NoTick} /\ m.out \in Points
    BY <1>1, <2>1, AtPin
  <2>3. \A x \in {m.tick, NoTick} :
          MintDoc(x, m.out, FALSE) \in Doc /\ ~MintDoc(x, m.out, FALSE).verify
    BY <2>2 DEF MintDoc, Doc
  <2>4. CASE \/ RefuseMint(Main, MintDoc(NoTick, m.out, FALSE))
             \/ RefuseMint(Main, MintDoc(m.tick, m.out, FALSE))
    BY <1>7, <2>1, <2>3, <2>4
  <2>5. CASE worker' = [worker EXCEPT
               ![Main].pc = IF Deploy[m.tick].count = 0 THEN "count" ELSE "shovel",
               ![Main].snap = total[m.tick]]
    <3>1. Cur' = Cur /\ List' = List
      BY <1>1, <2>5, MainFacts DEF IInv, TypeOK, Local, List, Cur
    <3> QED  BY <1>8, <2>1, <3>1
  <2> QED  BY <1>9, <2>4, <2>5 DEF ReadTick
<1>10. CASE ReadShovels(Main)
  <2> DEFINE m == CurMint(Main)
             t == CurTick(Main)
  <2>1. Pc = "shovel" /\ MoreMints(Main) /\ UNCHANGED <<again, handled, utxo>>
    BY <1>1, <1>10, MainFacts DEF ReadShovels, At, Pc, IInv, StageOK
  <2>2. t \in Deploys \cup {NoTick} /\ Mint[m].to \in Points
    BY <1>1, <2>1, AtPin
  <2>3. MintDoc(t, Mint[m].to, FALSE) \in Doc /\ ~MintDoc(t, Mint[m].to, FALSE).verify
    BY <2>2 DEF MintDoc, Doc
  <2>4. CASE RefuseMint(Main, MintDoc(t, Mint[m].to, FALSE))
    BY <1>7, <2>1, <2>3, <2>4
  <2>5. ASSUME NEW s, worker' = [worker EXCEPT ![Main].pc = "push", ![Main].sel = s]
        PROVE  RerunInv'
    <3>1. Cur' = Cur /\ List' = List
      BY <1>1, <2>5, MainFacts DEF IInv, TypeOK, Local, List, Cur
    <3> QED  BY <1>8, <2>1, <3>1
  <2> QED  BY <1>10, <2>4, <2>5 DEF ReadShovels
<1>11. CASE CountMint(Main)
  <2> DEFINE m == Mint[CurMint(Main)]
             doc == MintDoc(m.tick, m.to, TRUE)
  <2>1. Pc = "count" /\ MoreMints(Main) /\ UNCHANGED <<again, handled, utxo>>
    BY <1>1, <1>11, MainFacts DEF CountMint, At, Pc, IInv, StageOK
  <2>2. /\ doc \in Doc /\ doc.tick = m.tick /\ doc.point = m.to /\ CurTick(Main) = m.tick
    BY <1>1, <2>1, AtPin DEF MintDoc, Doc
  <2>3. Cur' = Cur /\ List' = Append(List, doc)
    BY <1>1, <1>11, MainFacts DEF CountMint, IInv, TypeOK, Local, List, Cur
  <2> HIDE DEF doc
  <2>4. Listed(List') = Listed(List) \cup {doc}
    BY <1>1, <2>2, <2>3, MainFacts, ListedOf
  <2>5. Main \in again => MintedEarly(doc.tick) \/ KeyTaken(doc)
    BY <1>1, <1>11, <2>2, StoredAgain DEF Holds, KeyTaken
  <2> QED  BY <1>4, <2>1, <2>3, <2>4, <2>5
<1>12. CASE SaveDoc(Main)
  <2>1. /\ Pc = "save" /\ UNCHANGED <<again, handled>> /\ utxo \subseteq utxo' /\ List # <<>>
    BY <1>12 DEF SaveDoc, At, Pc, List
  <2>2. Cur' = Cur /\ List' = Tail(List)
    BY <1>1, <1>12, MainFacts DEF SaveDoc, IInv, TypeOK, Local, List, Cur
  <2>3. Listed(List') \subseteq Listed(List)
    BY <1>1, <2>1, <2>2, MainFacts, ListedOf
  <2> QED  BY <1>4, <2>1, <2>2, <2>3
<1>13. CASE \E w \in Workers : Step(w)
  <2>1. Step(Main)
    BY <1>13
  <2> QED  BY <1>2, <1>3, <1>5, <1>6, <1>9, <1>10, <1>11, <1>12, <2>1 DEF Step, Advance, Reindex
<1> QED  BY <1>5, <1>13 DEF Next, FetchFails, Crash

(***************************************************************************)
(* While one goroutine at a time handles blocks and none fails, running a  *)
(* handled block again makes no tick and leaves every total and every      *)
(* verified document as it is, for every chain (excepting ticks of which a *)
(* mint came too early).                                                   *)
(***************************************************************************)
THEOREM RerunsAreHarmless ==
  ASSUME Workers = {Main}, Faulty = FALSE
  PROVE  Spec => RerunHarmless
<1> DEFINE Same == /\ Ticks' = Ticks
                   /\ \A t \in Ticks : ~MintedEarly(t) => UNCHANGED <<total[t], Verified(t)>>
           Harmless == (\E w \in again : ~At(w, "idle")) => Same
<1>1. ASSUME NamesInv, BooksInv, RerunInv, Next PROVE Harmless
  <2>1. IInv /\ NameFree /\ chain' = chain
    BY <1>1 DEF NamesInv, Next
  <2>2. SUFFICES ASSUME Main \in again, Pc # "idle" PROVE Same
    BY <2>1 DEF IInv, TypeOK, At, Pc
  <2>3. Step(Main)
    BY <1>1 DEF Next, FetchFails, Crash
  <2>4. CASE UNCHANGED <<total, utxo>>
    BY <2>4 DEF Ticks, Verified
  <2>5. CASE CountMint(Main)
    <3> DEFINE m == Mint[CurMint(Main)]
    <3>1. /\ utxo' = utxo
          /\ total' = IF AlreadyCounted(m.to) THEN total
                      ELSE [total EXCEPT ![m.tick] = worker[Main].snap + 1]
      BY <2>5 DEF CountMint
    <3>2. ~MintedEarly(m.tick) => AlreadyCounted(m.to)
      BY <1>1, <2>1, <2>2, <2>5, StoredAgain DEF Holds, AlreadyCounted, CurTick
    <3>3. \A t \in Ticks : t # m.tick => total'[t] = total[t]
      BY <2>1, <3>1, MainFacts
    <3> QED  BY <3>1, <3>2, <3>3 DEF Ticks, Verified
  <2>6. CASE SaveDoc(Main)
    <3> DEFINE doc == Head(List)
    <3>1. /\ total' = total /\ List # <<>>
          /\ utxo' = IF KeyTaken(doc) THEN utxo ELSE utxo \cup {doc}
      BY <2>6 DEF SaveDoc, List
    <3>2. doc \in Listed(List)
      BY <2>1, <3>1, MainFacts, ListedOf
    <3>3. doc.verify /\ ~MintedEarly(doc.tick) => KeyTaken(doc)
      BY <1>1, <2>2, <3>2 DEF RerunInv
    <3> QED  BY <3>1, <3>3 DEF Ticks, Verified
  <2> QED  BY <1>1, <2>1, <2>2, <2>3, <2>4, <2>5, <2>6, NoDeployAgain
           DEF Step, Advance, Reindex, StartBlock, CheckDeploy, DeploysDone, ReadTick, ReadShovels,
               PushShovels, MintsDone, EndBlock
<1>2. Init => RerunInv
  BY DEF Init, RerunInv
<1>3. NamesInv /\ BooksInv /\ RerunInv /\ [Next]_vars => [Harmless]_vars
  BY <1>1
<1> QED  BY <1>2, <1>3, NamesAtFirst, InitBooks, NamesStep, NextBooks, NextRerun, PTL
         DEF Spec, RerunHarmless
=============================================================================
