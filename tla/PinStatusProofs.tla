-------------------------- MODULE PinStatusProofs --------------------------
(***************************************************************************)
(* What TLAPS proves of the operations on pins, for any blocks, operations *)
(* and routes of the pins, and any number of goroutines in a re-run.       *)
(***************************************************************************)
EXTENDS PinStatus, SetLemmas

----------------------------------------------------------------------------
(* The inductive invariant. *)

Seen == [status: Status, kind: Kinds, owner: Addresses, moved: BOOLEAN]

Stages ==
  {"idle", "transfer", "names", "originals", "number", "info", "store", "leave", "update",
   "follow", "unfollow"}

Local ==
  [pc: Stages, h: 0..Tip, names: UNION {[S -> Pins \cup {NoPin}] : S \in SUBSET Addresses},
   seen: UNION {[S -> Seen] : S \in SUBSET Pins}, number: Nat]

InBlock(p, h) == \E i \in DOMAIN chain.blocks[h] : chain.blocks[h][i] = p

(* The pins of block h are in s. *)
FullIn(h, s) == \A i \in DOMAIN chain.blocks[h] : chain.blocks[h][i] \in s

Full(h) == FullIn(h, Stored)

Busy(w) == ~At(w, "idle")

Wrote(w) == worker[w].pc \in {"leave", "update", "follow", "unfollow"}

(* Stored pins come from blocks, whole blocks. *)
StoredInv ==
  /\ IsFiniteSet(Stored)
  /\ \A p \in Stored :
       /\ \E h \in 1..best : InBlock(p, h) /\ Full(h)
       /\ Op(p) = "create" => pins[p].kind = chain.pin[p].kind

WorkerInv ==
  /\ Busy(0) => \A w \in 1..Back : ~Busy(w)
  /\ \A w \in Workers :
       /\ DOMAIN worker[w].seen \subseteq Stored
       /\ Wrote(w) => Full(worker[w].h)
       /\ \A q \in DOMAIN worker[w].seen :
            /\ ~worker[w].seen[q].moved => worker[w].seen[q].owner = By(q)
            /\ Op(q) = "create" => worker[w].seen[q].kind = chain.pin[q].kind

TInv ==
  /\ TypeOK
  /\ hop \in [Pins -> Nat] /\ worker \in [Workers -> Local]
  /\ StoredInv /\ WorkerInv

(* Of the blocks up to n at most one is missing, and none if none was lost. *)
Few(n) ==
  \A f, g \in Heights : f <= n /\ g <= n /\ ~Full(f) /\ ~Full(g) => f = g /\ faults # 0

Current(h) == Busy(0) /\ worker[0].h = h

(* At most one block is lost, and a restart does not go back past an API call. *)
OneLost == faults <= 1 /\ (InTurn \/ crashes = 0)

(* Where the loop is. *)
LoopInv ==
  OneLost =>
    /\ \A f, g \in Heights :
         f <= maxHeight /\ g <= maxHeight /\ ~Full(f) /\ ~Full(g) /\ ~Current(f) /\ ~Current(g)
           => f = g /\ faults # 0
    /\ \A v, w \in Workers :
         Busy(v) /\ Busy(w) /\ ~Full(worker[v].h) /\ ~Full(worker[w].h) => v = w
    /\ faults = 0 =>
         /\ \A w \in 1..Back : Busy(w) => Full(worker[w].h)
         /\ Busy(0) /\ ~Full(worker[0].h) => maxHeight <= worker[0].h

(* The order of the blocks. *)
OrderInv ==
  faults <= 1 /\ InTurn =>
    /\ \A p \in Stored : Few(Height(p))
    /\ \A w \in Workers : Busy(w) => Few(worker[w].h - 1)
    /\ chain.steady => Few(best - 1)

BlocksInv == TInv /\ LoopInv /\ OrderInv

(* The numbers. *)
Numbering(w) == worker[w].pc \in {"info", "store"} /\ ~Full(worker[w].h)

NumbersInv ==
  /\ OneLost =>
       /\ \A p, q \in Stored : pins[p].number = pins[q].number => p = q
       /\ \A w \in Workers : Numbering(w) => \A p \in Stored : pins[p].number < worker[w].number
  /\ faults = 0 /\ InTurn =>
       /\ \A p \in Stored : pins[p].number < Cardinality(Stored)
       /\ \A n \in Nat : n < Cardinality(Stored) => \E p \in Stored : pins[p].number = n
       /\ \A p, q \in Stored : Before(p, q) <=> pins[p].number < pins[q].number
       /\ \A w \in Workers : Numbering(w) => worker[w].number = Cardinality(Stored)

(* The transfers. *)
Leaves(p, h) == chain.route[p] # <<>> /\ chain.route[p][1].h <= h

Moved(n) == \A p \in Stored : Leaves(p, n) => hop[p] # 0

Undisturbed == faults = 0 /\ crashes = 0 /\ InTurn

(* The transfers a goroutine knows of. *)
MovedFor(w) ==
  /\ Moved(worker[w].h - 1)
  /\ ~At(w, "transfer") =>
       \A p \in Stored : Leaves(p, worker[w].h) /\ Height(p) < worker[w].h => hop[p] # 0
  /\ worker[w].pc \in {"update", "follow", "unfollow"} => Moved(worker[w].h)
  /\ \A q \in DOMAIN worker[w].seen :
       ~worker[w].seen[q].moved /\ Height(q) < worker[w].h => ~Leaves(q, worker[w].h)

TransfersInv ==
  Undisturbed =>
    /\ \A w \in Workers : Busy(w) => MovedFor(w)
    /\ Moved(maxHeight) \/ Current(maxHeight)
    /\ chain.steady => Moved(best - 1)

OwnersInv == BlocksInv /\ TransfersInv /\ OnlyOwners

(* The modifications. *)
Modifies(q) ==
  /\ Op(q) = "modify" /\ Accepted(q)
  /\ \A r \in Ops(Of(q)) : Op(r) = "modify"

(* A worker has just stored q, while nothing else is stored. *)
Marking(q) ==
  \E w \in Workers :
    /\ worker[w].pc \in {"leave", "update"}
    /\ worker[w].h = Height(q) /\ ~Refused(q, worker[w].seen)
    /\ \A v \in Workers : v # w /\ Busy(v) => Full(worker[v].h)

ModifiedInv ==
  crashes = 0 /\ faults <= 1 =>
    /\ \A q \in Stored : Modifies(q) =>
         /\ Of(q) \in Stored
         /\ pins[Of(q)].status = 1 \/ hop[Of(q)] # 0 \/ Marking(q)
    /\ \A w \in Workers : Busy(w) /\ ~Full(worker[w].h) =>
         \A q \in Stored : Modifies(q) /\ Of(q) \in DOMAIN worker[w].seen =>
           worker[w].seen[Of(q)].status = 1 \/ worker[w].seen[Of(q)].moved

OnceInv == BlocksInv /\ ModifiedInv /\ ModifiedOnce

----------------------------------------------------------------------------
(* The chain. *)

(* The heights and the goroutines are intervals of numbers. *)
LEMMA Constants ==
  /\ Tip \in Nat /\ Back \in Nat \ {0} /\ Heights \subseteq 1..Tip /\ 1..Tip \subseteq Heights
  /\ 0 \in Workers /\ Workers \subseteq Nat /\ \A w \in Workers : w # 0 => w \in 1..Back
  /\ 1..Back \subseteq Workers
  /\ MaxFaults \in Nat /\ MaxCrashes \in Nat /\ MaxReindex \in Nat
BY ConstantsAssumption DEF Heights, Workers

(* What a chain holds, by its parts. *)
LEMMA TypedChain ==
  ASSUME chain \in Chains
  PROVE  /\ \A h \in Heights :
              /\ chain.blocks[h] \in Seq(Pins)
              /\ \A i \in DOMAIN chain.blocks[h] : chain.blocks[h][i] \in Pins
         /\ \A p \in Pins :
              /\ Op(p) \in {"create", "modify", "revoke"} /\ Of(p) \in Pins \cup {NoPin}
              /\ By(p) \in Addresses
              /\ chain.pin[p].kind \in Kinds /\ chain.pin[p].who \in Addresses
         /\ \A p \in Pins :
              /\ chain.route[p] \in Seq([h: Heights, to: Addresses])
              /\ \A i \in DOMAIN chain.route[p] :
                   chain.route[p][i].h \in Heights /\ chain.route[p][i].to \in Addresses
<1>1. chain \in Chain
  BY ConstantsAssumption
<1>2. chain.blocks \in [Heights -> Seq(Pins)] /\ chain.pin \in [Pins -> Content]
  BY <1>1 DEF Chain
<1>3. chain.route \in [Pins -> Seq([h: Heights, to: Addresses])]
  BY <1>1 DEF Chain
<1>4. ASSUME NEW h \in Heights
      PROVE  chain.blocks[h] \in Seq(Pins)
             /\ \A i \in DOMAIN chain.blocks[h] : chain.blocks[h][i] \in Pins
  BY <1>2
<1>5. ASSUME NEW p \in Pins
      PROVE  /\ Op(p) \in {"create", "modify", "revoke"} /\ Of(p) \in Pins \cup {NoPin}
             /\ By(p) \in Addresses
             /\ chain.pin[p].kind \in Kinds /\ chain.pin[p].who \in Addresses
  BY <1>2 DEF Content, Op, Of, By
<1>6. ASSUME NEW p \in Pins
      PROVE  /\ chain.route[p] \in Seq([h: Heights, to: Addresses])
             /\ \A i \in DOMAIN chain.route[p] :
                  chain.route[p][i].h \in Heights /\ chain.route[p][i].to \in Addresses
  <2> DEFINE Move == [h: Heights, to: Addresses]
  <2>1. chain.route[p] \in Seq(Move)
    BY <1>3
  <2>2. \A i \in DOMAIN chain.route[p] : chain.route[p][i] \in Move
    <3> HIDE DEF Move
    <3> QED  BY <2>1
  <2> QED  BY <2>1, <2>2
<1> QED  BY <1>4, <1>5, <1>6

(* A pin is in one block. *)
LEMMA HeightIs ==
  ASSUME chain \in Chains, NEW h \in Heights, NEW p, InBlock(p, h)
  PROVE  Height(p) = h
<1>1. \A g \in Heights : p \in Range(chain.blocks[g]) <=> InBlock(p, g)
  BY DEF Range, InBlock
<1>2. \A g \in Heights : InBlock(p, g) => g = h
  BY PlacesAssumption DEF InBlock
<1> QED  BY <1>1, <1>2 DEF Height

(* The chain does not change, so the heights of pins do not. *)
LEMMA HeightsKept == chain' = chain => \A p : Height(p)' = Height(p)
BY DEF Height

(* A stored pin is at the height of its block, which is stored as a whole. *)
LEMMA StoredHeight ==
  ASSUME TInv, NEW p \in Stored
  PROVE  Height(p) \in Heights /\ Height(p) \in 1..best /\ InBlock(p, Height(p)) /\ Full(Height(p))
<1>1. PICK h \in 1..best : InBlock(p, h) /\ Full(h)
  BY DEF TInv, StoredInv
<1>2. h \in Heights
  BY Constants DEF TInv, TypeOK
<1> QED  BY <1>1, <1>2, HeightIs DEF TInv, TypeOK

(* A pin owned by its author has not moved, and the other way round. *)
LEMMA OwnerTyped ==
  ASSUME TInv, NEW p \in Pins
  PROVE  Owner(p) \in Addresses /\ (hop[p] = 0 => Owner(p) = By(p))
<1>1. chain \in Chains /\ hop[p] \in 0..Len(chain.route[p])
  BY DEF TInv, TypeOK
<1>2. hop[p] # 0 => hop[p] \in DOMAIN chain.route[p]
  BY <1>1, TypedChain
<1> QED  BY <1>1, <1>2, TypedChain DEF Owner

(* A goroutine that does not run has read nothing. *)
LEMMA IdleTyped == Idle \in Local /\ Idle.pc = "idle" /\ DOMAIN Idle.seen = {}
<1> DEFINE N == UNION {[S -> Pins \cup {NoPin}] : S \in SUBSET Addresses}
           S == UNION {[T -> Seen] : T \in SUBSET Pins}
<1>1. <<>> \in [{} -> Seen] /\ <<>> \in [{} -> Pins \cup {NoPin}] /\ DOMAIN <<>> = {}
  OBVIOUS
<1>2. <<>> \in N /\ <<>> \in S
  BY <1>1
<1>3. Local = [pc: Stages, h: 0..Tip, names: N, seen: S, number: Nat]
  BY DEF Local
<1>4. "idle" \in Stages /\ 0 \in 0..Tip
  BY Constants DEF Stages
<1> HIDE DEF N, S
<1>5. Idle \in Local
  BY <1>2, <1>3, <1>4 DEF Idle
<1>6. Idle.pc = "idle" /\ Idle.seen = <<>>
  BY DEF Idle
<1> QED  BY <1>1, <1>5, <1>6

(* A goroutine starts with the transfers of its block, having read nothing. *)
LEMMA TakingTyped ==
  ASSUME NEW h \in Int, h <= Tip
  PROVE  /\ Taking(h) \in Local /\ DOMAIN Taking(h).seen = {}
         /\ h < 1 => Taking(h) = Idle
         /\ h >= 1 => Taking(h).pc = "transfer" /\ Taking(h).h = h
<1>1. h >= 1 => h \in 0..Tip
  BY Constants
<1>2. DOMAIN Idle = {"pc", "h", "names", "seen", "number"}
  BY DEF Idle
<1> DEFINE r == Idle
<1>3. /\ r.pc = "idle" /\ r \in Local /\ DOMAIN r.seen = {}
      /\ DOMAIN r = {"pc", "h", "names", "seen", "number"}
  BY <1>2, IdleTyped
<1>4. Taking(h) = IF h < 1 THEN r ELSE [r EXCEPT !.pc = "transfer", !.h = h]
  BY DEF Taking
<1> HIDE DEF r
<1>5. h >= 1 => [r EXCEPT !.pc = "transfer", !.h = h] \in Local
  BY <1>1, <1>3 DEF Local, Stages
<1>6. r = Idle
  BY DEF r
<1> QED  BY <1>3, <1>4, <1>5, <1>6

----------------------------------------------------------------------------
(* The types: one lemma per action. *)

(* What a step of one goroutine has to keep. *)
LEMMA WorkerStep ==
  ASSUME TInv, NEW w \in Workers, Busy(w), NEW rec \in Local,
         worker' = [worker EXCEPT ![w] = rec], UNCHANGED <<chain, best>>,
         rec.pc = "idle" \/ rec.h = worker[w].h,
         Stored \subseteq Stored',
         rec.pc \in {"leave", "update", "follow", "unfollow"} => FullIn(worker[w].h, Stored'),
         DOMAIN rec.seen \subseteq Stored,
         \A q \in DOMAIN rec.seen :
            /\ ~rec.seen[q].moved => rec.seen[q].owner = By(q)
            /\ Op(q) = "create" => rec.seen[q].kind = chain.pin[q].kind
  PROVE  /\ worker' \in [Workers -> Local]
         /\ \A v \in Workers : At(v, "idle")' \/ worker'[v].h \in 1..best'
         /\ WorkerInv'
<1>1. \A v \in Workers : worker'[v] = IF v = w THEN rec ELSE worker[v]
  BY DEF TInv
<1>2. worker' \in [Workers -> Local]
  BY DEF TInv
<1>3. \A v \in Workers : At(v, "idle")' \/ worker'[v].h \in 1..best'
  BY <1>1 DEF TInv, TypeOK, At, Busy
<1>4. Busy(0)' => \A v \in 1..Back : ~Busy(v)'
  <2>1. \A v \in Workers : Busy(v)' => Busy(v)
    BY <1>1 DEF Busy, At
  <2> QED  BY <2>1, Constants DEF TInv, WorkerInv
<1>5. ASSUME NEW v \in Workers
      PROVE  /\ DOMAIN worker'[v].seen \subseteq Stored'
             /\ Wrote(v)' => Full(worker[v].h)'
             /\ \A q \in DOMAIN worker'[v].seen :
                  /\ ~worker'[v].seen[q].moved => worker'[v].seen[q].owner = By(q)'
                  /\ (Op(q) = "create")' => worker'[v].seen[q].kind = chain'.pin[q].kind
  <2>1. CASE v = w
    BY <1>1, <2>1 DEF Wrote, Full, FullIn, By, Op, Stages
  <2>2. CASE v # w
    <3>1. worker'[v] = worker[v]
      BY <1>1, <2>2
    <3>2. /\ DOMAIN worker[v].seen \subseteq Stored /\ (Wrote(v) => Full(worker[v].h))
          /\ \A q \in DOMAIN worker[v].seen :
               /\ ~worker[v].seen[q].moved => worker[v].seen[q].owner = By(q)
               /\ Op(q) = "create" => worker[v].seen[q].kind = chain.pin[q].kind
      BY DEF TInv, WorkerInv
    <3> QED  BY <3>1, <3>2 DEF Wrote, Full, FullIn, By, Op
  <2> QED  BY <2>1, <2>2
<1> QED  BY <1>2, <1>3, <1>4, <1>5 DEF WorkerInv

(* Where nothing is stored. *)
LEMMA PinsKept ==
  ASSUME TInv, UNCHANGED <<chain, pins>>, best' \in best..Tip
  PROVE  StoredInv' /\ Stored' = Stored
<1>1. Stored' = Stored
  BY DEF Stored
<1>2. 1..best \subseteq 1..best'
  BY Constants DEF TInv, TypeOK
<1> QED  BY <1>1, <1>2 DEF TInv, StoredInv, InBlock, Full, FullIn, Op

(* A goroutine in a block stands at one of the chain. *)
LEMMA BusyIs ==
  ASSUME TInv, NEW w \in Workers, Busy(w)
  PROVE  /\ worker[w] \in Local /\ worker[w].h \in Heights /\ worker[w].h \in 1..best
         /\ DOMAIN worker[w] = {"pc", "h", "names", "seen", "number"}
         /\ List(w) = chain.blocks[worker[w].h]
         /\ List(w) \in Seq(Pins) /\ \A i \in DOMAIN List(w) : List(w)[i] \in Pins
         /\ DOMAIN worker[w].seen \subseteq Stored
         /\ \A q \in DOMAIN worker[w].seen :
              /\ ~worker[w].seen[q].moved => worker[w].seen[q].owner = By(q)
              /\ Op(q) = "create" => worker[w].seen[q].kind = chain.pin[q].kind
<1>1. worker[w] \in Local /\ worker[w].h \in 1..best /\ best <= Tip /\ best \in Int
  BY Constants DEF TInv, TypeOK, Busy
<1>2. worker[w].h \in Heights
  BY <1>1, Constants
<1>3. chain \in Chains
  BY DEF TInv, TypeOK
<1>4. DOMAIN worker[w] = {"pc", "h", "names", "seen", "number"}
  BY <1>1 DEF Local
<1> QED  BY <1>1, <1>2, <1>3, <1>4, TypedChain DEF List, TInv, WorkerInv

(* At the start nothing is stored and no goroutine runs. *)
LEMMA InitTInv == Init => TInv
<1> SUFFICES ASSUME Init PROVE TInv
  OBVIOUS
<1> USE Constants
<1>1. Stored = {}
  BY DEF Init, Stored
<1>2. \A w \in Workers : worker[w] = Idle
  BY DEF Init
<1>3. worker \in [Workers -> Local]
  BY IdleTyped DEF Init
<1>4. WorkerInv
  BY <1>2, IdleTyped DEF WorkerInv, Busy, At, Wrote
<1>5. StoredInv
  BY <1>1, FS_EmptySet DEF StoredInv
<1>6. hop \in [Pins -> Nat] /\ \A p \in Pins : hop[p] \in 0..Len(chain.route[p])
  BY TypedChain DEF Init
<1>7. names \in [Addresses -> Pins \cup {NoPin}] /\ DOMAIN follows = {} /\ orphans \subseteq Pins
  BY DEF Init
<1>8. \A w \in Workers : At(w, "idle")
  BY <1>2, IdleTyped DEF At
<1>9. TypeOK
  BY <1>1, <1>6, <1>7, <1>8 DEF Init, TypeOK
<1> QED  BY <1>3, <1>4, <1>5, <1>6, <1>9 DEF TInv

(* The bounds of a round, for any numbers. *)
LEMMA RoundArithmetic ==
  ASSUME NEW t \in Nat, NEW k \in Nat, NEW b \in 0..t, NEW m \in -k..b, NEW c \in b..t, m < c
  PROVE  c \in 0..t /\ c - m \in 0..(t + k) /\ m \in -k..c /\ b <= c
<1>1. 0 - k <= m /\ m \in Int /\ -k = 0 - k
  OBVIOUS
<1>2. c - m <= t + k
  BY <1>1
<1> QED  BY <1>1, <1>2

(* A round only looks at the best height. *)
LEMMA RoundTInv == ASSUME TInv, Round, chain' = chain PROVE TInv'
<1>1. best' \in best..Tip /\ step' = best' - maxHeight /\ maxHeight < best'
  BY DEF Round
<1>2. best' \in 0..Tip /\ step' \in 0..(Tip + Back) /\ maxHeight \in -Back..best' /\ best <= best'
  <2>1. best \in 0..Tip /\ maxHeight \in -Back..best /\ Tip \in Nat /\ Back \in Nat
    BY Constants DEF TInv, TypeOK
  <2> QED  BY <1>1, <2>1, RoundArithmetic
<1>3. StoredInv' /\ Stored' = Stored
  BY <1>1, PinsKept DEF Round
<1>4. WorkerInv'
  BY <1>3 DEF Round, TInv, WorkerInv, Busy, At, Wrote, Full, FullIn, By, Op
<1>5. \A w \in Workers : At(w, "idle")'
  BY DEF Round, Quiet, At
<1>6. TypeOK'
  BY <1>2, <1>3, <1>5 DEF Round, TInv, TypeOK, info, counters, At
<1> QED  BY <1>3, <1>4, <1>6 DEF Round, TInv, info, counters

(* A goroutine that starts while no other one runs. *)
LEMMA StartStep ==
  ASSUME TInv, Quiet, NEW h \in Int, h <= best, UNCHANGED <<chain, pins, best>>,
         worker' = [worker EXCEPT ![0] = Taking(h)]
  PROVE  /\ worker' \in [Workers -> Local] /\ WorkerInv' /\ StoredInv' /\ Stored' = Stored
         /\ \A v \in Workers : At(v, "idle")' \/ worker'[v].h \in 1..best'
<1>1. best \in 0..Tip /\ Tip \in Nat
  BY Constants DEF TInv, TypeOK
<1>2. h <= Tip /\ best' \in best..Tip
  BY <1>1
<1>3. /\ Taking(h) \in Local /\ DOMAIN Taking(h).seen = {}
      /\ Taking(h).pc = "idle" \/ (Taking(h).pc = "transfer" /\ Taking(h).h \in 1..best)
  BY <1>1, <1>2, TakingTyped, IdleTyped
<1>4. worker' \in [Workers -> Local]
  BY <1>3 DEF TInv
<1>5. worker'[0] = Taking(h) /\ \A v \in Workers : v # 0 => worker'[v] = worker[v]
  BY Constants DEF TInv
<1>6. \A v \in Workers : v # 0 => worker'[v].pc = "idle"
  BY <1>5 DEF Quiet, At
<1>7. StoredInv' /\ Stored' = Stored
  BY <1>2, PinsKept
<1>8. \A v \in Workers : ~Wrote(v)'
  BY <1>3, <1>5, <1>6 DEF Wrote
<1>9. ASSUME NEW v \in Workers
      PROVE  /\ DOMAIN worker'[v].seen \subseteq Stored'
             /\ \A q \in DOMAIN worker'[v].seen :
                  /\ ~worker'[v].seen[q].moved => worker'[v].seen[q].owner = By(q)'
                  /\ (Op(q) = "create")' => worker'[v].seen[q].kind = chain'.pin[q].kind
  BY <1>3, <1>5, <1>7 DEF TInv, WorkerInv, By, Op
<1>10. Busy(0)' => \A v \in 1..Back : ~Busy(v)'
  BY <1>6, Constants DEF Busy, At
<1>11. \A v \in Workers : At(v, "idle")' \/ worker'[v].h \in 1..best'
  BY <1>3, <1>5, <1>6 DEF At
<1> QED  BY <1>4, <1>7, <1>8, <1>9, <1>10, <1>11 DEF WorkerInv

(* The main loop starts the next block. *)
LEMMA TakeNextTInv == ASSUME TInv, TakeNext, chain' = chain PROVE TInv'
<1>1. /\ best \in 0..Tip /\ maxHeight \in -Back..best /\ maxHeight < best
      /\ Back \in Nat /\ Tip \in Nat
  BY Constants DEF TInv, TypeOK, TakeNext
<1>2. maxHeight + 1 \in Int /\ maxHeight + 1 <= best /\ maxHeight + 1 \in -Back..best
  BY <1>1
<1>3. /\ worker' \in [Workers -> Local] /\ WorkerInv' /\ StoredInv' /\ Stored' = Stored
      /\ \A v \in Workers : At(v, "idle")' \/ worker'[v].h \in 1..best'
  BY <1>2, StartStep DEF TakeNext
<1>4. TypeOK'
  BY <1>2, <1>3 DEF TakeNext, TInv, TypeOK, info, counters
<1> QED  BY <1>3, <1>4 DEF TakeNext, TInv

(* The API starts a block. *)
LEMMA ReindexTInv ==
  ASSUME TInv, NEW h \in Heights, Reindex(h), chain' = chain PROVE TInv'
<1>1. h \in Int /\ h <= best
  BY Constants DEF Reindex
<1>2. reindexed' \in 0..MaxReindex
  BY Constants DEF Reindex, TInv, TypeOK
<1>3. /\ worker' \in [Workers -> Local] /\ WorkerInv' /\ StoredInv' /\ Stored' = Stored
      /\ \A v \in Workers : At(v, "idle")' \/ worker'[v].h \in 1..best'
  BY <1>1, StartStep DEF Reindex, position
<1>4. TypeOK'
  BY <1>2, <1>3 DEF Reindex, TInv, TypeOK, info, position
<1> QED  BY <1>3, <1>4 DEF Reindex, TInv, info

(* Every goroutine of a re-run starts at once. *)
LEMMA RerunWorkers ==
  ASSUME TInv, Quiet, UNCHANGED <<chain, pins, best>>,
         worker' = [w \in Workers |-> IF w = 0 THEN Idle ELSE Taking(Again(w))]
  PROVE  /\ worker' \in [Workers -> Local] /\ WorkerInv' /\ StoredInv' /\ Stored' = Stored
         /\ \A v \in Workers : At(v, "idle")' \/ worker'[v].h \in 1..best'
         /\ ~Busy(0)'
         /\ \A v \in Workers : Busy(v)' =>
              At(v, "transfer")' /\ worker'[v].h = best - v /\ v \in 1..Back
<1>1. best \in 0..Tip /\ Tip \in Nat
  BY Constants DEF TInv, TypeOK
<1>2. ASSUME NEW v \in 1..Back PROVE Again(v) \in Int /\ Again(v) < best /\ Again(v) = best - v
  BY <1>1, Constants DEF Again
<1>3. ASSUME NEW v \in Workers
      PROVE  /\ worker'[v] \in Local /\ DOMAIN worker'[v].seen = {}
             /\ worker'[v].pc = "idle"
                  \/ (worker'[v].pc = "transfer" /\ worker'[v].h \in 1..best
                      /\ worker'[v].h = best - v /\ v \in 1..Back)
  <2>1. CASE v = 0
    BY <2>1, IdleTyped
  <2>2. CASE v # 0
    <3>1. v \in 1..Back /\ worker'[v] = Taking(Again(v))
      BY <2>2, Constants
    <3>2. Again(v) \in Int /\ Again(v) <= Tip /\ Again(v) < best /\ Again(v) = best - v
      BY <1>1, <1>2, <3>1
    <3>3. Again(v) >= 1 => Again(v) \in 1..best
      BY <1>1, <3>2
    <3> QED  BY <3>1, <3>2, <3>3, TakingTyped, IdleTyped
  <2> QED  BY <2>1, <2>2
<1>4. worker' \in [Workers -> Local]
  <2>1. DOMAIN worker' = Workers
    OBVIOUS
  <2>2. worker' = [v \in Workers |-> worker'[v]]
    OBVIOUS
  <2> QED  BY <1>3, <2>2
<1>5. StoredInv' /\ Stored' = Stored
  BY <1>1, PinsKept
<1>6. ~Busy(0)'
  BY Constants, IdleTyped DEF Busy, At
<1>7. \A v \in Workers : ~Wrote(v)'
  BY <1>3 DEF Wrote
<1>8. WorkerInv'
  BY <1>3, <1>6, <1>7 DEF WorkerInv
<1> QED  BY <1>3, <1>4, <1>5, <1>6, <1>8 DEF Busy, At

(* A round of one block starts the goroutines of the re-run. *)
LEMMA RerunTInv == ASSUME TInv, Rerun, chain' = chain PROVE TInv'
<1>1. best \in 0..Tip /\ Tip \in Nat /\ Back \in Nat
  BY Constants DEF TInv, TypeOK
<1>2. best' = best /\ step' = 0 /\ 0 \in 0..(Tip + Back)
  BY <1>1 DEF Rerun
<1>3. CASE step = 1
  <2>1. PICK w \in 1..Back : maxHeight' = Again(w)
    BY <1>3 DEF Rerun
  <2>2. maxHeight' \in -Back..best'
    BY <1>1, <1>2, <2>1 DEF Again
  <2>3. /\ worker' \in [Workers -> Local] /\ WorkerInv' /\ StoredInv' /\ Stored' = Stored
        /\ \A v \in Workers : At(v, "idle")' \/ worker'[v].h \in 1..best'
    BY <1>3, RerunWorkers DEF Rerun
  <2>4. TypeOK'
    BY <1>2, <2>2, <2>3 DEF Rerun, TInv, TypeOK, info, counters
  <2> QED  BY <2>3, <2>4 DEF Rerun, TInv, info
<1>4. CASE step # 1
  <2>1. UNCHANGED <<chain, best, maxHeight, pins, hop, names, follows, orphans, worker,
                    faults, crashes, reindexed>>
    BY <1>4 DEF Rerun, info, counters
  <2>2. StoredInv' /\ Stored' = Stored
    BY <1>1, <2>1, PinsKept
  <2>3. TypeOK'
    BY <1>2, <2>1, <2>2 DEF TInv, TypeOK, At
  <2>4. WorkerInv'
    BY <2>1, <2>2 DEF TInv, WorkerInv, Busy, At, Wrote, Full, FullIn, By, Op
  <2> QED  BY <2>1, <2>2, <2>3, <2>4 DEF TInv
<1> QED  BY <1>3, <1>4

(* A goroutine stops without its block. *)
LEMMA FetchFailsTInv ==
  ASSUME TInv, NEW w \in Workers, FetchFails(w), chain' = chain PROVE TInv'
<1>1. Busy(w) /\ UNCHANGED <<chain, best, pins>>
  BY DEF FetchFails, Busy, At, position
<1>2. Stored' = Stored /\ StoredInv' /\ faults' \in 0..MaxFaults
  <2>1. best' \in best..Tip
    BY <1>1, Constants DEF TInv, TypeOK
  <2>2. faults' \in 0..MaxFaults
    BY Constants DEF FetchFails, TInv, TypeOK
  <2> QED  BY <1>1, <2>1, <2>2, PinsKept
<1>3. /\ worker' \in [Workers -> Local]
      /\ \A v \in Workers : At(v, "idle")' \/ worker'[v].h \in 1..best'
      /\ WorkerInv'
  <2>1. worker' = [worker EXCEPT ![w] = Idle]
    BY DEF FetchFails
  <2> QED  BY <1>1, <1>2, <2>1, IdleTyped, WorkerStep
<1>4. TypeOK'
  BY <1>2, <1>3 DEF FetchFails, TInv, TypeOK, info, position
<1> QED  BY <1>2, <1>3, <1>4 DEF FetchFails, TInv, info

(* The highest block with a stored pin. *)
LEMMA HighestStored ==
  ASSUME TInv
  PROVE  LET top == Max({0} \cup {Height(p) : p \in Stored}) IN
         /\ top \in 0..best /\ \A p \in Stored : Height(p) <= top
         /\ top = 0 \/ \E p \in Stored : Height(p) = top
<1> DEFINE H == {Height(p) : p \in Stored}
           S == {0} \cup H
           top == Max(S)
<1>1. best \in 0..Tip /\ Tip \in Nat /\ best \in Nat
  BY Constants DEF TInv, TypeOK
<1>2. H \subseteq 1..best
  BY StoredHeight
<1>3. S \in SUBSET Nat /\ S # {} /\ 0 \in S /\ \A n \in S : n <= best
  BY <1>1, <1>2
<1>4. Max(S) \in S /\ \A m \in S : m <= Max(S)
  <2> HIDE DEF S
  <2> QED  BY <1>1, <1>3, MaxOfBounded
<1>5. \A p \in Stored : Height(p) \in S
  OBVIOUS
<1>6. \A n \in S : n = 0 \/ \E p \in Stored : Height(p) = n
  OBVIOUS
<1> HIDE DEF S
<1>7. top \in S /\ \A m \in S : m <= top
  BY <1>4
<1> HIDE DEF top
<1>8. top \in Nat /\ top <= best
  BY <1>3, <1>7
<1>9. top \in 0..best
  BY <1>1, <1>8
<1>10. top \in 0..best /\ (\A p \in Stored : Height(p) <= top)
       /\ (top = 0 \/ \E p \in Stored : Height(p) = top)
  BY <1>5, <1>6, <1>7, <1>9
<1> QED  BY <1>10 DEF top, S, H

(* A restart goes back to the highest stored block. *)
LEMMA CrashTInv == ASSUME TInv, Crash, chain' = chain PROVE TInv'
<1> DEFINE top == Max({0} \cup {Height(p) : p \in Stored})
<1>1. maxHeight' = top /\ UNCHANGED <<chain, best, pins>>
  BY DEF Crash
<1>2. top \in 0..best
  BY HighestStored
<1> HIDE DEF top
<1>3. best \in 0..Tip /\ Tip \in Nat /\ Back \in Nat
  BY Constants DEF TInv, TypeOK
<1>4. maxHeight' \in -Back..best' /\ crashes' \in 0..MaxCrashes /\ step' \in 0..(Tip + Back)
  <2>1. maxHeight' \in -Back..best'
    BY <1>1, <1>2, <1>3
  <2>2. crashes' \in 0..MaxCrashes
    BY Constants DEF Crash, TInv, TypeOK
  <2>3. step' \in 0..(Tip + Back)
    BY <1>3 DEF Crash
  <2> QED  BY <2>1, <2>2, <2>3
<1>5. StoredInv' /\ Stored' = Stored
  BY <1>1, <1>3, PinsKept
<1>6. \A w \in Workers : worker'[w] = Idle
  BY DEF Crash
<1>7. worker' \in [Workers -> Local] /\ \A w \in Workers : At(w, "idle")'
  BY <1>6, IdleTyped DEF Crash, At
<1>8. WorkerInv'
  <2>1. \A w \in Workers : worker'[w].pc = "idle" /\ DOMAIN worker'[w].seen = {}
    BY <1>6, IdleTyped
  <2>2. ~Busy(0)' /\ \A w \in Workers : ~Wrote(w)'
    BY <2>1, Constants DEF Busy, At, Wrote
  <2> QED  BY <2>1, <2>2 DEF WorkerInv
<1>9. TypeOK'
  BY <1>4, <1>5, <1>7 DEF Crash, TInv, TypeOK, info
<1> QED  BY <1>5, <1>7, <1>8, <1>9 DEF Crash, TInv, info

(* One field of a goroutine changes, or two. *)
LEMMA LocalStep ==
  ASSUME NEW r \in Local, NEW st \in Stages
  PROVE  /\ [r EXCEPT !.pc = st] \in Local
         /\ [r EXCEPT !.pc = st].pc = st /\ [r EXCEPT !.pc = st].h = r.h
         /\ [r EXCEPT !.pc = st].seen = r.seen /\ [r EXCEPT !.pc = st].number = r.number
<1> DEFINE N == UNION {[S -> Pins \cup {NoPin}] : S \in SUBSET Addresses}
           S == UNION {[T -> Seen] : T \in SUBSET Pins}
<1>1. Local = [pc: Stages, h: 0..Tip, names: N, seen: S, number: Nat]
  BY DEF Local
<1> HIDE DEF N, S
<1> QED  BY <1>1

(* The same when what is changed is the names read. *)
LEMMA LocalNames ==
  ASSUME NEW r \in Local, NEW A \in SUBSET Addresses, NEW ns \in [A -> Pins \cup {NoPin}]
  PROVE  /\ [r EXCEPT !.names = ns] \in Local
         /\ [r EXCEPT !.names = ns].pc = r.pc /\ [r EXCEPT !.names = ns].h = r.h
         /\ [r EXCEPT !.names = ns].seen = r.seen /\ [r EXCEPT !.names = ns].number = r.number
<1> DEFINE N == UNION {[S -> Pins \cup {NoPin}] : S \in SUBSET Addresses}
           S == UNION {[T -> Seen] : T \in SUBSET Pins}
<1>1. Local = [pc: Stages, h: 0..Tip, names: N, seen: S, number: Nat] /\ ns \in N
  BY DEF Local
<1> HIDE DEF N, S
<1> QED  BY <1>1

(* The same when what is changed is the originals read. *)
LEMMA LocalSeen ==
  ASSUME NEW r \in Local, NEW A \in SUBSET Pins, NEW sn \in [A -> Seen]
  PROVE  /\ [r EXCEPT !.seen = sn] \in Local
         /\ [r EXCEPT !.seen = sn].pc = r.pc /\ [r EXCEPT !.seen = sn].h = r.h
         /\ [r EXCEPT !.seen = sn].seen = sn /\ [r EXCEPT !.seen = sn].number = r.number
<1> DEFINE N == UNION {[S -> Pins \cup {NoPin}] : S \in SUBSET Addresses}
           S == UNION {[T -> Seen] : T \in SUBSET Pins}
<1>1. Local = [pc: Stages, h: 0..Tip, names: N, seen: S, number: Nat] /\ sn \in S
  BY DEF Local
<1> HIDE DEF N, S
<1> QED  BY <1>1

(* The same when what is changed is the number read. *)
LEMMA LocalNumber ==
  ASSUME NEW r \in Local, NEW n \in Nat
  PROVE  /\ [r EXCEPT !.number = n] \in Local
         /\ [r EXCEPT !.number = n].pc = r.pc /\ [r EXCEPT !.number = n].h = r.h
         /\ [r EXCEPT !.number = n].seen = r.seen /\ [r EXCEPT !.number = n].number = n
<1> DEFINE N == UNION {[S -> Pins \cup {NoPin}] : S \in SUBSET Addresses}
           S == UNION {[T -> Seen] : T \in SUBSET Pins}
<1>1. Local = [pc: Stages, h: 0..Tip, names: N, seen: S, number: Nat]
  BY DEF Local
<1> HIDE DEF N, S
<1> QED  BY <1>1

InfoTyped ==
  /\ names \in [Addresses -> Pins \cup {NoPin}]
  /\ DOMAIN follows \subseteq Addresses \X Addresses
  /\ \A k \in DOMAIN follows : follows[k] \in [pin: Pins, on: BOOLEAN]
  /\ orphans \subseteq Pins

(* Names and follow records are typed, and stay so when they are kept. *)
LEMMA InfoKept == TInv => InfoTyped /\ (UNCHANGED info => InfoTyped')
BY DEF TInv, TypeOK, InfoTyped, info

(* A step that stores nothing. *)
LEMMA ReadStep ==
  ASSUME TInv, NEW w \in Workers, Busy(w), NEW rec \in Local,
         worker' = [worker EXCEPT ![w] = rec], UNCHANGED <<chain, position, pins, counters>>,
         InfoTyped',
         hop' \in [Pins -> Nat], \A p \in Pins : hop'[p] \in 0..Len(chain.route[p]),
         rec.pc = "idle" \/ rec.h = worker[w].h,
         rec.pc \in {"leave", "update", "follow", "unfollow"} => Full(worker[w].h),
         DOMAIN rec.seen \subseteq Stored,
         \A q \in DOMAIN rec.seen :
            /\ ~rec.seen[q].moved => rec.seen[q].owner = By(q)
            /\ Op(q) = "create" => rec.seen[q].kind = chain.pin[q].kind
  PROVE  TInv'
<1>1. UNCHANGED <<chain, best, maxHeight, step, pins, faults, crashes, reindexed>>
  BY DEF position, counters
<1>2. best' \in best..Tip
  BY <1>1, Constants DEF TInv, TypeOK
<1>3. StoredInv' /\ Stored' = Stored
  BY <1>1, <1>2, PinsKept
<1>4. /\ worker' \in [Workers -> Local]
      /\ \A v \in Workers : At(v, "idle")' \/ worker'[v].h \in 1..best'
      /\ WorkerInv'
  BY <1>1, <1>3, WorkerStep DEF Full
<1>5. TypeOK'
  BY <1>1, <1>3, <1>4 DEF TInv, TypeOK, InfoTyped
<1> QED  BY <1>3, <1>4, <1>5 DEF TInv

(* One that reads nothing of the originals. *)
LEMMA UnseenStep ==
  ASSUME TInv, NEW w \in Workers, Busy(w), NEW rec \in Local,
         worker' = [worker EXCEPT ![w] = rec], UNCHANGED <<chain, position, pins, counters>>,
         InfoTyped',
         hop' \in [Pins -> Nat], \A p \in Pins : hop'[p] \in 0..Len(chain.route[p]),
         rec.pc = "idle" \/ rec.h = worker[w].h,
         rec.pc \in {"leave", "update", "follow", "unfollow"} => Full(worker[w].h),
         DOMAIN rec.seen = {} \/ rec.seen = worker[w].seen
  PROVE  TInv'
<1>1. /\ DOMAIN rec.seen \subseteq Stored
      /\ \A q \in DOMAIN rec.seen :
           /\ ~rec.seen[q].moved => rec.seen[q].owner = By(q)
           /\ Op(q) = "create" => rec.seen[q].kind = chain.pin[q].kind
  BY BusyIs
<1> QED  BY <1>1, ReadStep

(* A transfer moves a pin one hop along its route. *)
LEMMA HopsTyped ==
  ASSUME TInv, NEW h, HandleTransfer(h)
  PROVE  /\ hop' \in [Pins -> Nat] /\ \A p \in Pins : hop'[p] \in 0..Len(chain.route[p])
         /\ \A p \in Pins : hop'[p] = hop[p] \/ hop'[p] = hop[p] + 1
<1>1. \A p \in Pins : hop[p] \in Nat /\ hop[p] <= Len(chain.route[p])
                      /\ Len(chain.route[p]) \in Nat
  BY TypedChain DEF TInv, TypeOK
<1>2. ASSUME NEW p \in Pins
      PROVE  /\ hop'[p] \in Nat /\ hop'[p] \in 0..Len(chain.route[p])
             /\ hop'[p] = hop[p] \/ hop'[p] = hop[p] + 1
  <2>1. CASE hop[p] < Len(chain.route[p])
    BY <1>1, <2>1 DEF HandleTransfer
  <2>2. CASE ~(hop[p] < Len(chain.route[p]))
    BY <1>1, <2>2 DEF HandleTransfer
  <2> QED  BY <2>1, <2>2
<1>3. hop' = [p \in Pins |-> hop'[p]]
  BY DEF HandleTransfer
<1> QED  BY <1>2, <1>3

(* Following transfers, before the block is read. *)
LEMMA CheckTransferTInv ==
  ASSUME TInv, NEW w \in Workers, CheckTransfer(w), chain' = chain PROVE TInv'
<1>1. Busy(w) /\ worker[w].pc = "transfer"
  BY DEF CheckTransfer, Busy, At
<1> DEFINE rec == IF List(w) = <<>> THEN Idle ELSE [worker[w] EXCEPT !.pc = "names"]
<1>2. worker' = [worker EXCEPT ![w] = rec]
  BY DEF CheckTransfer
<1>3. /\ rec \in Local /\ rec.pc \in {"idle", "names"} /\ (rec.pc = "idle" \/ rec.h = worker[w].h)
      /\ DOMAIN rec.seen = {} \/ rec.seen = worker[w].seen
  <2>1. worker[w] \in Local /\ "names" \in Stages
    BY <1>1, BusyIs DEF Stages
  <2> DEFINE r == [worker[w] EXCEPT !.pc = "names"]
  <2>2. r \in Local /\ r.pc = "names" /\ r.h = worker[w].h /\ r.seen = worker[w].seen
    BY <2>1, LocalStep
  <2>3. rec = Idle \/ rec = r
    OBVIOUS
  <2> HIDE DEF r, rec
  <2> QED  BY <2>2, <2>3, IdleTyped
<1> HIDE DEF rec
<1>4. hop' \in [Pins -> Nat] /\ \A p \in Pins : hop'[p] \in 0..Len(chain.route[p])
  BY HopsTyped DEF CheckTransfer
<1>5. UNCHANGED <<chain, position, pins, counters>> /\ InfoTyped'
  BY InfoKept DEF CheckTransfer
<1> QED  BY <1>1, <1>2, <1>3, <1>4, <1>5, UnseenStep

(* Reading the names of the authors. *)
LEMMA ReadNamesTInv ==
  ASSUME TInv, NEW w \in Workers, ReadNames(w), chain' = chain PROVE TInv'
<1>1. Busy(w) /\ worker[w] \in Local
  BY BusyIs DEF ReadNames, Busy, At
<1> DEFINE authors == {By(p) : p \in Range(List(w))}
           ns == [a \in authors |-> names[a]]
           st == IF \E p \in Range(List(w)) : Op(p) # "create" THEN "originals" ELSE "number"
           r == [worker[w] EXCEPT !.names = ns]
           rec == [r EXCEPT !.pc = st]
<1>2. authors \in SUBSET Addresses /\ ns \in [authors -> Pins \cup {NoPin}]
  <2>1. chain \in Chains /\ names \in [Addresses -> Pins \cup {NoPin}]
    BY DEF TInv, TypeOK
  <2>2. \A p \in Range(List(w)) : p \in Pins
    BY <1>1, BusyIs DEF Range
  <2> QED  BY <2>1, <2>2, TypedChain
<1>3. worker' = [worker EXCEPT ![w] = rec]
  BY DEF ReadNames
<1>4. st \in {"originals", "number"} /\ st \in Stages
  BY DEF Stages
<1>5. r \in Local /\ r.h = worker[w].h /\ r.seen = worker[w].seen
  <2> HIDE DEF ns, authors
  <2> QED  BY <1>1, <1>2, LocalNames
<1> HIDE DEF r, st
<1>6. rec \in Local /\ rec.pc = st /\ rec.h = worker[w].h /\ rec.seen = worker[w].seen
  BY <1>4, <1>5, LocalStep
<1> HIDE DEF rec
<1>7. hop' \in [Pins -> Nat] /\ \A p \in Pins : hop'[p] \in 0..Len(chain.route[p])
  BY DEF ReadNames, TInv, TypeOK
<1>8. UNCHANGED <<chain, position, pins, counters>> /\ InfoTyped'
  BY InfoKept DEF ReadNames
<1> QED  BY <1>1, <1>3, <1>4, <1>6, <1>7, <1>8, UnseenStep

(* Reading the originals: what is read is the stored kind and, unless moved, the author. *)
LEMMA ReadOriginalsTInv ==
  ASSUME TInv, NEW w \in Workers, ReadOriginals(w), chain' = chain PROVE TInv'
<1>1. Busy(w) /\ worker[w] \in Local
  BY BusyIs DEF ReadOriginals, Busy, At
<1> DEFINE wanted == {Of(p) : p \in Range(List(w))} \cap Stored
           sn == [q \in wanted |-> [status |-> pins[q].status, kind |-> pins[q].kind,
                                    owner |-> Owner(q), moved |-> hop[q] > 0]]
           r == [worker[w] EXCEPT !.seen = sn]
           rec == [r EXCEPT !.pc = "number"]
<1>2. wanted \in SUBSET Pins /\ wanted \subseteq Stored
  BY DEF TInv, TypeOK
<1>3. \A q \in wanted : hop[q] \in Nat /\ pins[q].status \in Status /\ pins[q].kind \in Kinds
                        /\ Owner(q) \in Addresses /\ (hop[q] = 0 => Owner(q) = By(q))
                        /\ (Op(q) = "create" => pins[q].kind = chain.pin[q].kind)
  BY <1>2, OwnerTyped DEF TInv, TypeOK, StoredInv
<1> HIDE DEF wanted
<1>4. sn \in [wanted -> Seen]
  BY <1>3 DEF Seen
<1>5. \A q \in wanted : /\ sn[q].moved <=> hop[q] > 0
                        /\ sn[q].owner = Owner(q) /\ sn[q].kind = pins[q].kind
  OBVIOUS
<1>6. worker' = [worker EXCEPT ![w] = rec]
  BY DEF ReadOriginals, wanted
<1> HIDE DEF sn
<1>7. r \in Local /\ r.h = worker[w].h /\ r.seen = sn
  BY <1>1, <1>2, <1>4, LocalSeen
<1> HIDE DEF r
<1>8. rec \in Local /\ rec.pc = "number" /\ rec.h = worker[w].h /\ rec.seen = sn
  BY <1>7, LocalStep DEF Stages
<1> HIDE DEF rec
<1>9. \A q \in DOMAIN rec.seen :
        /\ ~rec.seen[q].moved => rec.seen[q].owner = By(q)
        /\ Op(q) = "create" => rec.seen[q].kind = chain.pin[q].kind
  BY <1>3, <1>4, <1>5, <1>8
<1>10. hop' \in [Pins -> Nat] /\ \A p \in Pins : hop'[p] \in 0..Len(chain.route[p])
  BY DEF ReadOriginals, TInv, TypeOK
<1>11. DOMAIN rec.seen \subseteq Stored
  BY <1>2, <1>4, <1>8
<1>12. UNCHANGED <<chain, position, pins, counters>> /\ InfoTyped'
  BY InfoKept DEF ReadOriginals
<1> QED  BY <1>1, <1>6, <1>8, <1>9, <1>10, <1>11, <1>12, ReadStep

(* The next number is above the numbers stored. *)
LEMMA NextNumberIs ==
  ASSUME TInv
  PROVE  /\ NextNumber \in Nat /\ \A p \in Stored : pins[p].number < NextNumber
         /\ NextNumber = 0 \/ \E p \in Stored : NextNumber = pins[p].number + 1
<1> DEFINE f == [p \in Stored |-> pins[p].number + 1]
           N == {f[p] : p \in DOMAIN f}
           S == {0} \cup N
<1>1. \A p \in Stored : pins[p].number \in Nat
  BY DEF TInv, TypeOK
<1>2. IsFiniteSet(DOMAIN f)
  BY DEF TInv, StoredInv
<1>3. IsFiniteSet(N)
  <2> HIDE DEF f
  <2> QED  BY <1>2, ImageFinite
<1>4. IsFiniteSet(S) /\ S \in SUBSET Nat /\ 0 \in S
  <2>1. N \in SUBSET Nat
    BY <1>1
  <2> HIDE DEF N
  <2> QED  BY <1>3, <2>1, FS_AddElement
<1>5. NextNumber = Max(S)
  <2>1. N = {pins[p].number + 1 : p \in Stored}
    OBVIOUS
  <2> QED  BY <2>1 DEF NextNumber
<1>6. \A p \in Stored : pins[p].number + 1 \in S
  OBVIOUS
<1>7. \A n \in S : n = 0 \/ \E p \in Stored : n = pins[p].number + 1
  OBVIOUS
<1> HIDE DEF S
<1>8. NextNumber \in S /\ \A m \in S : m <= NextNumber
  BY <1>4, <1>5, MaxOfFinite
<1>9. NextNumber \in Nat
  BY <1>4, <1>8
<1>10. ASSUME NEW p \in Stored PROVE pins[p].number < NextNumber
  BY <1>1, <1>6, <1>8, <1>9
<1> QED  BY <1>7, <1>8, <1>9, <1>10

(* Reading the next number. *)
LEMMA ReadNumberTInv ==
  ASSUME TInv, NEW w \in Workers, ReadNumber(w), chain' = chain PROVE TInv'
<1>1. Busy(w) /\ worker[w] \in Local
  BY BusyIs DEF ReadNumber, Busy, At
<1> DEFINE r == [worker[w] EXCEPT !.number = NextNumber]
           rec == [r EXCEPT !.pc = "info"]
<1>2. worker' = [worker EXCEPT ![w] = rec]
  BY DEF ReadNumber
<1>3. r \in Local /\ r.h = worker[w].h /\ r.seen = worker[w].seen
  BY <1>1, NextNumberIs, LocalNumber
<1> HIDE DEF r
<1>4. rec \in Local /\ rec.pc = "info" /\ rec.h = worker[w].h /\ rec.seen = worker[w].seen
  BY <1>3, LocalStep DEF Stages
<1> HIDE DEF rec
<1>5. hop' \in [Pins -> Nat] /\ \A p \in Pins : hop'[p] \in 0..Len(chain.route[p])
  BY DEF ReadNumber, TInv, TypeOK
<1>6. UNCHANGED <<chain, position, pins, counters>> /\ InfoTyped'
  BY InfoKept DEF ReadNumber
<1> QED  BY <1>1, <1>2, <1>4, <1>5, <1>6, UnseenStep

(* The last index of a list with some property. *)
LEMMA LastIndex ==
  ASSUME NEW T, NEW list \in Seq(T), NEW I \in SUBSET DOMAIN list, I # {}
  PROVE  Max(I) \in I /\ Max(I) \in DOMAIN list /\ list[Max(I)] \in T /\ \A i \in I : i <= Max(I)
<1>1. DOMAIN list = 1..Len(list) /\ Len(list) \in Nat
  OBVIOUS
<1>2. I \in SUBSET Nat /\ \A i \in I : i <= Len(list)
  BY <1>1
<1>3. Max(I) \in I /\ \A i \in I : i <= Max(I)
  BY <1>1, <1>2, MaxOfBounded
<1> QED  BY <1>3

(* A step that only moves a goroutine on to the next stage. *)
LEMMA StageStep ==
  ASSUME TInv, NEW w \in Workers, Busy(w), NEW st \in Stages,
         worker' = [worker EXCEPT ![w].pc = st], UNCHANGED <<chain, position, pins, counters>>,
         hop' \in [Pins -> Nat], \A p \in Pins : hop'[p] \in 0..Len(chain.route[p]),
         InfoTyped',
         st \in {"leave", "update", "follow", "unfollow"} => Full(worker[w].h)
  PROVE  TInv'
<1> DEFINE rec == [worker[w] EXCEPT !.pc = st]
<1>1. worker' = [worker EXCEPT ![w] = rec]
  OBVIOUS
<1>2. rec \in Local /\ rec.pc = st /\ rec.h = worker[w].h /\ rec.seen = worker[w].seen
  BY BusyIs, LocalStep
<1> HIDE DEF rec
<1> QED  BY <1>1, <1>2, UnseenStep

(* Where no transfer is followed. *)
LEMMA HopsKept ==
  TInv /\ UNCHANGED <<chain, hop>> =>
    hop' \in [Pins -> Nat] /\ \A p \in Pins : hop'[p] \in 0..Len(chain.route[p])
BY DEF TInv, TypeOK

(* Writing the names. *)
LEMMA WriteNamesTInv ==
  ASSUME TInv, NEW w \in Workers, WriteNames(w), chain' = chain PROVE TInv'
<1>1. Busy(w) /\ worker[w] \in Local
  BY BusyIs DEF WriteNames, Busy, At
<1> DEFINE new == NewNames(w)
<1>2. ASSUME NEW a \in DOMAIN new PROVE new[a] \in Pins \cup {NoPin}
  <2> DEFINE mine == {i \in DOMAIN List(w) :
                        By(List(w)[i]) = a /\ GivesName(List(w)[i], worker[w].seen)}
  <2>1. a \in DOMAIN worker[w].names
    BY DEF NewNames
  <2>2. new[a] = IF mine = {} THEN worker[w].names[a] ELSE List(w)[Max(mine)]
    BY <2>1 DEF NewNames
  <2>3. worker[w].names[a] \in Pins \cup {NoPin}
    <3>1. PICK S \in SUBSET Addresses : worker[w].names \in [S -> Pins \cup {NoPin}]
      BY <1>1 DEF Local
    <3> QED  BY <2>1, <3>1
  <2>4. mine # {} => List(w)[Max(mine)] \in Pins
    <3>1. mine \in SUBSET DOMAIN List(w) /\ List(w) \in Seq(Pins)
      BY <1>1, BusyIs
    <3> HIDE DEF mine
    <3> QED  BY <3>1, LastIndex
  <2> HIDE DEF mine, new
  <2> QED  BY <2>2, <2>3, <2>4
<1> HIDE DEF new
<1>3. names' = [a \in Addresses |->
                  IF a \in DOMAIN new /\ new[a] # NoPin THEN new[a] ELSE names[a]]
  BY DEF WriteNames, new
<1>4. InfoTyped'
  BY <1>2, <1>3, InfoKept DEF WriteNames, InfoTyped
<1>5. UNCHANGED <<chain, position, pins, hop, counters>>
  BY DEF WriteNames
<1> QED  BY <1>1, <1>4, <1>5, HopsKept, StageStep DEF WriteNames, Stages

(* Following the transfers of the block's own pins. *)
LEMMA TransferNewTInv ==
  ASSUME TInv, NEW w \in Workers, TransferNew(w), chain' = chain PROVE TInv'
<1>1. Busy(w) /\ Full(worker[w].h)
  BY DEF TransferNew, Busy, At, TInv, WorkerInv, Wrote
<1>2. hop' \in [Pins -> Nat] /\ \A p \in Pins : hop'[p] \in 0..Len(chain.route[p])
  BY HopsTyped DEF TransferNew
<1> QED  BY <1>1, <1>2, InfoKept, StageStep DEF TransferNew, Stages

(* Writing the follows. *)
LEMMA WriteFollowsTInv ==
  ASSUME TInv, NEW w \in Workers, WriteFollows(w), chain' = chain PROVE TInv'
<1>1. Busy(w) /\ Full(worker[w].h) /\ List(w) \in Seq(Pins)
  BY BusyIs DEF WriteFollows, Busy, At, TInv, WorkerInv, Wrote
<1> DEFINE list == List(w)
           new == {i \in DOMAIN list :
                     Op(list[i]) = "create" /\ chain.pin[list[i]].kind = "follow"}
           keys == {FollowKey(list[i]) : i \in new}
           all == DOMAIN follows \cup keys
<1>2. all \subseteq Addresses \X Addresses
  <2>1. \A i \in DOMAIN list : FollowKey(list[i]) \in Addresses \X Addresses
    BY <1>1, BusyIs, TypedChain DEF TInv, TypeOK, FollowKey
  <2> QED  BY <2>1, InfoKept DEF InfoTyped
<1>3. PICK by \in [keys -> new] :
        follows' = [k \in all |->
                      IF k \in keys THEN [pin |-> list[by[k]], on |-> TRUE] ELSE follows[k]]
  BY DEF WriteFollows
<1>4. ASSUME NEW k \in all PROVE follows'[k] \in [pin: Pins, on: BOOLEAN]
  <2>1. follows'[k] = IF k \in keys THEN [pin |-> list[by[k]], on |-> TRUE] ELSE follows[k]
    BY <1>3
  <2>2. k \in keys => list[by[k]] \in Pins
    <3>1. k \in keys => by[k] \in DOMAIN list
      OBVIOUS
    <3> QED  BY <1>1, <3>1, BusyIs
  <2>3. k \in keys \/ k \in DOMAIN follows
    OBVIOUS
  <2> HIDE DEF keys
  <2> QED  BY <2>1, <2>2, <2>3, InfoKept DEF InfoTyped
<1>5. InfoTyped'
  <2>1. DOMAIN follows' = all
    BY <1>3
  <2> HIDE DEF all
  <2> QED  BY <1>2, <1>4, <2>1, InfoKept DEF WriteFollows, InfoTyped
<1>6. UNCHANGED <<chain, position, pins, hop, counters>>
  BY DEF WriteFollows
<1> QED  BY <1>1, <1>5, <1>6, HopsKept, StageStep DEF WriteFollows, Stages

(* Ending follows, the last step of a block. *)
LEMMA WriteUnfollowsTInv ==
  ASSUME TInv, NEW w \in Workers, WriteUnfollows(w), chain' = chain PROVE TInv'
<1>1. Busy(w)
  BY DEF WriteUnfollows, Busy, At
<1> DEFINE ended == {Of(p) : p \in {r \in Range(List(w)) :
                               Op(r) = "revoke" /\ KindOf(r, worker[w].seen) = "follow"}}
           recorded == {follows[k].pin : k \in DOMAIN follows}
<1>2. PICK passed \in SUBSET (ended \cap recorded \cap orphans) :
        follows' = Ended(follows, ended \ passed)
  BY DEF WriteUnfollows
<1>3. ended \ recorded \subseteq Pins
  <2>1. ASSUME NEW r \in Range(List(w)), KindOf(r, worker[w].seen) = "follow", Op(r) = "revoke"
        PROVE  Of(r) \in Pins
    <3>1. Of(r) \in DOMAIN worker[w].seen
      BY <2>1 DEF KindOf
    <3> QED  BY <1>1, <3>1, BusyIs DEF TInv, TypeOK
  <2> QED  BY <2>1
<1>4. DOMAIN follows' = DOMAIN follows
      /\ \A k \in DOMAIN follows : follows'[k] \in [pin: Pins, on: BOOLEAN]
  BY <1>2, InfoKept DEF InfoTyped, Ended
<1>5. InfoTyped'
  BY <1>3, <1>4, InfoKept DEF InfoTyped, WriteUnfollows
<1>6. UNCHANGED <<chain, position, pins, hop, counters>>
  BY DEF WriteUnfollows
<1>7. worker' = [worker EXCEPT ![w] = Idle]
  BY DEF WriteUnfollows
<1> QED  BY <1>1, <1>5, <1>6, <1>7, HopsKept, IdleTyped, UnseenStep

(* What StorePins does to the collection. *)
LEMMA StorePinsIs ==
  ASSUME TInv, NEW w \in Workers, StorePins(w), chain' = chain
  PROVE  /\ Busy(w) /\ Stored' = Stored \cup Range(List(w)) /\ Range(List(w)) \subseteq Pins
         /\ \A p \in Stored : pins'[p] = pins[p]
         /\ \A p \in Stored' \ Stored :
              /\ pins'[p].status =
                   IF Op(p) # "create" /\ Refused(p, worker[w].seen) THEN -2 ELSE 0
              /\ pins'[p].kind = KindOf(p, worker[w].seen)
              /\ \E i \in DOMAIN List(w) :
                   List(w)[i] = p /\ pins'[p].number = worker[w].number + i - 1
<1>1. Busy(w)
  BY DEF StorePins, Busy, At
<1> DEFINE f(p) == IF p \in Stored THEN pins[p]
                   ELSE [status |-> IF Op(p) # "create" /\ Refused(p, worker[w].seen) THEN -2 ELSE 0,
                         kind |-> KindOf(p, worker[w].seen),
                         number |-> worker[w].number + Position(p, List(w)) - 1]
<1>2. pins' = [p \in Stored \cup Range(List(w)) |-> f(p)]
  BY DEF StorePins
<1>3. Stored' = Stored \cup Range(List(w))
  BY <1>2 DEF Stored
<1>4. Range(List(w)) \subseteq Pins
  BY <1>1, BusyIs DEF Range
<1>5. \A p \in Stored : pins'[p] = pins[p]
  BY <1>2
<1>6. ASSUME NEW p \in Stored' \ Stored
      PROVE  /\ pins'[p].status =
                  IF Op(p) # "create" /\ Refused(p, worker[w].seen) THEN -2 ELSE 0
             /\ pins'[p].kind = KindOf(p, worker[w].seen)
             /\ \E i \in DOMAIN List(w) :
                  List(w)[i] = p /\ pins'[p].number = worker[w].number + i - 1
  <2>1. p \in Range(List(w)) /\ pins'[p] = f(p)
    BY <1>2, <1>3
  <2>2. \E i \in DOMAIN List(w) : List(w)[i] = p
    BY <2>1 DEF Range
  <2>3. Position(p, List(w)) \in DOMAIN List(w) /\ List(w)[Position(p, List(w))] = p
    BY <2>2 DEF Position
  <2> QED  BY <2>1, <2>3
<1> QED  BY <1>1, <1>3, <1>4, <1>5, <1>6

(* Storing the block, as a whole. *)
LEMMA StorePinsTInv ==
  ASSUME TInv, NEW w \in Workers, StorePins(w), chain' = chain PROVE TInv'
<1>1. /\ Busy(w) /\ Stored' = Stored \cup Range(List(w)) /\ Range(List(w)) \subseteq Pins
      /\ \A p \in Stored : pins'[p] = pins[p]
  BY StorePinsIs
<1>2. UNCHANGED <<chain, best, maxHeight, step, hop, names, follows, orphans, faults, crashes,
                  reindexed>>
  BY DEF StorePins, position, info, counters
<1>3. /\ worker[w] \in Local /\ worker[w].h \in 1..best /\ List(w) \in Seq(Pins)
      /\ List(w) = chain.blocks[worker[w].h]
      /\ \A q \in DOMAIN worker[w].seen : Op(q) = "create" => worker[w].seen[q].kind = chain.pin[q].kind
  BY <1>1, BusyIs
<1>4. FullIn(worker[w].h, Stored')
  BY <1>1, <1>3 DEF FullIn, Range
<1>5. IsFiniteSet(Stored')
  <2>1. IsFiniteSet(Range(List(w)))
    <3>1. DOMAIN List(w) = 1..Len(List(w)) /\ Len(List(w)) \in Nat
      BY <1>3
    <3>2. IsFiniteSet(DOMAIN List(w))
      BY <3>1, FS_Interval
    <3>3. IsFiniteSet({List(w)[i] : i \in DOMAIN List(w)})
      BY <3>2, ImageFinite
    <3> QED  BY <3>3 DEF Range
  <2> QED  BY <1>1, <2>1, FS_Union DEF TInv, StoredInv
<1>6. ASSUME NEW p \in Stored' \ Stored
      PROVE  /\ pins'[p] \in [status: Status, kind: Kinds, number: Nat]
             /\ \E h \in 1..best : InBlock(p, h) /\ FullIn(h, Stored')
             /\ Op(p) = "create" => pins'[p].kind = chain.pin[p].kind
  <2>1. /\ pins'[p].status = IF Op(p) # "create" /\ Refused(p, worker[w].seen) THEN -2 ELSE 0
        /\ pins'[p].kind = KindOf(p, worker[w].seen)
    BY StorePinsIs
  <2>2. PICK i \in DOMAIN List(w) :
          List(w)[i] = p /\ pins'[p].number = worker[w].number + i - 1
    BY StorePinsIs
  <2>3. pins'[p].number \in Nat
    <3>1. i \in 1..Len(List(w)) /\ Len(List(w)) \in Nat
      BY <1>3
    <3>2. worker[w].number \in Nat
      BY <1>3 DEF Local
    <3> QED  BY <2>2, <3>1, <3>2
  <2>4. pins'[p].kind \in Kinds /\ (Op(p) = "create" => pins'[p].kind = chain.pin[p].kind)
    <3>1. p \in Pins /\ chain.pin[p].kind \in Kinds
      BY <1>1, TypedChain DEF TInv, TypeOK
    <3>2. \A q \in DOMAIN worker[w].seen : worker[w].seen[q].kind \in Kinds
      <4>1. PICK S \in SUBSET Pins : worker[w].seen \in [S -> Seen]
        BY <1>3 DEF Local
      <4> QED  BY <4>1 DEF Seen
    <3> QED  BY <2>1, <3>1, <3>2 DEF KindOf, Kinds
  <2>5. pins'[p].status \in Status
    BY <2>1 DEF Status
  <2>6. DOMAIN pins'[p] = {"status", "kind", "number"} /\
        pins'[p] = [status |-> pins'[p].status, kind |-> pins'[p].kind, number |-> pins'[p].number]
    BY <1>1 DEF StorePins
  <2>7. InBlock(p, worker[w].h)
    BY <1>3, <2>2 DEF InBlock
  <2> QED  BY <1>3, <1>4, <2>3, <2>4, <2>5, <2>6, <2>7
<1>7. \A p \in Stored : \E h \in 1..best : InBlock(p, h) /\ FullIn(h, Stored')
  BY <1>1 DEF TInv, StoredInv, Full, FullIn
<1>8. StoredInv'
  <2>1. \A p \in Stored : Op(p) = "create" => pins'[p].kind = chain.pin[p].kind
    BY <1>1 DEF TInv, StoredInv
  <2>2. \A p \in Stored' : /\ \E h \in 1..best : InBlock(p, h) /\ FullIn(h, Stored')
                           /\ Op(p) = "create" => pins'[p].kind = chain.pin[p].kind
    BY <1>6, <1>7, <2>1
  <2>3. \A p, h : (InBlock(p, h)' <=> InBlock(p, h)) /\ (Full(h)' <=> FullIn(h, Stored'))
                 /\ Op(p)' = Op(p)
    BY <1>2 DEF InBlock, Full, FullIn, Op
  <2> QED  BY <1>2, <1>5, <2>2, <2>3 DEF StoredInv
<1> DEFINE rec == [worker[w] EXCEPT !.pc = "leave"]
<1>9. rec \in Local /\ rec.pc = "leave" /\ rec.h = worker[w].h /\ rec.seen = worker[w].seen
  BY <1>3, LocalStep DEF Stages
<1>10. worker' = [worker EXCEPT ![w] = rec]
  BY DEF StorePins
<1> HIDE DEF rec
<1>11. /\ worker' \in [Workers -> Local]
       /\ \A v \in Workers : At(v, "idle")' \/ worker'[v].h \in 1..best'
       /\ WorkerInv'
  <2>1. /\ DOMAIN rec.seen \subseteq Stored
        /\ \A q \in DOMAIN rec.seen :
             /\ ~rec.seen[q].moved => rec.seen[q].owner = By(q)
             /\ Op(q) = "create" => rec.seen[q].kind = chain.pin[q].kind
    BY <1>1, <1>9, BusyIs
  <2>2. Stored \subseteq Stored' /\ UNCHANGED <<chain, best>>
    BY <1>1, <1>2
  <2> QED  BY <1>1, <1>4, <1>9, <1>10, <2>1, <2>2, WorkerStep
<1>12. TypeOK'
  BY <1>1, <1>2, <1>6, <1>11 DEF TInv, TypeOK
<1> QED  BY <1>2, <1>8, <1>11, <1>12 DEF TInv

(* The i-th pin of the block of w is not refused and about q. *)
MarksBy(w, i, q) ==
  /\ Op(List(w)[i]) # "create" /\ ~Refused(List(w)[i], worker[w].seen)
  /\ Marks(List(w)[i], q)

(* UpdatePins changes statuses only. *)
LEMMA UpdatePinsIs ==
  ASSUME TInv, NEW w \in Workers, UpdatePins(w), chain' = chain
  PROVE  /\ Busy(w) /\ Stored' = Stored
         /\ \A q \in Stored :
              /\ pins'[q].number = pins[q].number /\ pins'[q].kind = pins[q].kind
              /\ \/ /\ pins'[q].status = pins[q].status
                    /\ \A i \in DOMAIN List(w) : ~MarksBy(w, i, q)
                 \/ \E i \in DOMAIN List(w) :
                      MarksBy(w, i, q) /\ pins'[q].status = Mark(List(w)[i])
              /\ pins'[q] \in [status: Status, kind: Kinds, number: Nat]
<1>1. Busy(w)
  BY DEF UpdatePins, Busy, At
<1> DEFINE list == List(w)
           updates == {i \in DOMAIN list :
                         Op(list[i]) # "create" /\ ~Refused(list[i], worker[w].seen)}
           marked == {q \in Stored : \E i \in updates : Marks(list[i], q)}
<1>2. PICK by \in [marked -> updates] :
        /\ \A q \in marked : Marks(list[by[q]], q)
        /\ pins' = [q \in Stored |-> IF q \in marked
                                    THEN [pins[q] EXCEPT !.status = Mark(list[by[q]])]
                                    ELSE pins[q]]
  BY DEF UpdatePins
<1>3. Stored' = Stored
  BY <1>2 DEF Stored
<1>4. ASSUME NEW q \in Stored
      PROVE  /\ pins'[q].number = pins[q].number /\ pins'[q].kind = pins[q].kind
             /\ \/ /\ pins'[q].status = pins[q].status
                   /\ \A i \in DOMAIN List(w) : ~MarksBy(w, i, q)
                \/ \E i \in DOMAIN List(w) :
                     MarksBy(w, i, q) /\ pins'[q].status = Mark(List(w)[i])
             /\ pins'[q] \in [status: Status, kind: Kinds, number: Nat]
  <2>1. pins[q] \in [status: Status, kind: Kinds, number: Nat]
    BY DEF TInv, TypeOK
  <2>2. CASE q \notin marked
    <3>1. \A i \in DOMAIN list : ~MarksBy(w, i, q)
      BY <2>2 DEF MarksBy
    <3>2. pins'[q] = pins[q]
      BY <1>2, <2>2
    <3> QED  BY <2>1, <3>1, <3>2
  <2>3. CASE q \in marked
    <3> DEFINE i == by[q]
    <3>1. i \in DOMAIN list /\ MarksBy(w, i, q)
      BY <1>2, <2>3 DEF MarksBy
    <3>2. pins'[q] = [pins[q] EXCEPT !.status = Mark(list[i])]
      BY <1>2, <2>3
    <3>3. Mark(list[i]) \in Status
      BY DEF Mark, Status
    <3> HIDE DEF i
    <3> QED  BY <2>1, <3>1, <3>2, <3>3
  <2> QED  BY <2>2, <2>3
<1> QED  BY <1>1, <1>3, <1>4

(* Updating the statuses. *)
LEMMA UpdatePinsTInv ==
  ASSUME TInv, NEW w \in Workers, UpdatePins(w), chain' = chain PROVE TInv'
<1>1. /\ Busy(w) /\ Stored' = Stored
      /\ \A q \in Stored : /\ pins'[q].kind = pins[q].kind
                           /\ pins'[q] \in [status: Status, kind: Kinds, number: Nat]
  BY UpdatePinsIs
<1>2. UNCHANGED <<chain, best, maxHeight, step, hop, names, follows, orphans, faults, crashes,
                  reindexed>>
  BY DEF UpdatePins, position, info, counters
<1>3. worker[w] \in Local /\ Full(worker[w].h)
  BY <1>1, BusyIs DEF TInv, WorkerInv, UpdatePins, At, Wrote
<1>4. StoredInv'
  BY <1>1, <1>2 DEF TInv, StoredInv, InBlock, Full, FullIn, Op
<1> DEFINE rec == [worker[w] EXCEPT !.pc = "follow"]
<1>5. rec \in Local /\ rec.pc = "follow" /\ rec.h = worker[w].h /\ rec.seen = worker[w].seen
  BY <1>3, LocalStep DEF Stages
<1>6. worker' = [worker EXCEPT ![w] = rec]
  BY DEF UpdatePins
<1> HIDE DEF rec
<1>7. /\ worker' \in [Workers -> Local]
      /\ \A v \in Workers : At(v, "idle")' \/ worker'[v].h \in 1..best'
      /\ WorkerInv'
  <2>1. /\ DOMAIN rec.seen \subseteq Stored
        /\ \A q \in DOMAIN rec.seen :
             /\ ~rec.seen[q].moved => rec.seen[q].owner = By(q)
             /\ Op(q) = "create" => rec.seen[q].kind = chain.pin[q].kind
    BY <1>1, <1>5, BusyIs
  <2>2. Stored \subseteq Stored' /\ UNCHANGED <<chain, best>> /\ FullIn(worker[w].h, Stored')
    BY <1>1, <1>2, <1>3 DEF Full
  <2> QED  BY <1>1, <1>5, <1>6, <2>1, <2>2, WorkerStep
<1>8. TypeOK'
  BY <1>1, <1>2, <1>7 DEF TInv, TypeOK
<1> QED  BY <1>2, <1>4, <1>7, <1>8 DEF TInv

(* What every step of a goroutine has in common. *)
LEMMA RunShape ==
  ASSUME TInv, NEW w \in Workers, Run(w), chain' = chain
  PROVE  /\ TInv' /\ Busy(w)
         /\ UNCHANGED <<best, maxHeight, step, faults, crashes, reindexed>>
         /\ \A v \in Workers : v # w => worker'[v] = worker[v]
         /\ Busy(w)' => worker'[w].h = worker[w].h
         /\ ~Busy(w)' => FullIn(worker[w].h, Stored')
         /\ Stored \subseteq Stored'
         /\ \A p \in Stored' \ Stored : Height(p) = worker[w].h /\ At(w, "store")
         /\ Stored' # Stored => StorePins(w)
         /\ StorePins(w) => FullIn(worker[w].h, Stored')
<1>1. TInv'
  BY CheckTransferTInv, ReadNamesTInv, ReadOriginalsTInv, ReadNumberTInv, WriteNamesTInv,
     StorePinsTInv, TransferNewTInv, UpdatePinsTInv, WriteFollowsTInv, WriteUnfollowsTInv DEF Run
<1>2. Busy(w)
  BY DEF Run, CheckTransfer, ReadNames, ReadOriginals, ReadNumber, WriteNames, StorePins,
         TransferNew, UpdatePins, WriteFollows, WriteUnfollows, Busy, At
<1>3. UNCHANGED <<best, maxHeight, step, faults, crashes, reindexed>>
  BY DEF Run, CheckTransfer, ReadNames, ReadOriginals, ReadNumber, WriteNames, StorePins,
         TransferNew, UpdatePins, WriteFollows, WriteUnfollows, position, counters
<1>4. \A v \in Workers : v # w => worker'[v] = worker[v]
  BY DEF TInv, Run, CheckTransfer, ReadNames, ReadOriginals, ReadNumber, WriteNames, StorePins,
         TransferNew, UpdatePins, WriteFollows, WriteUnfollows
<1>5. worker[w] \in Local /\ DOMAIN worker[w] = {"pc", "h", "names", "seen", "number"}
      /\ DOMAIN worker = Workers
  BY <1>2, BusyIs DEF TInv
<1>6. Busy(w)' => worker'[w].h = worker[w].h
  <2>1. CASE CheckTransfer(w)
    BY <1>5, <2>1, IdleTyped DEF CheckTransfer, Busy, At
  <2>2. CASE ReadNames(w)
    BY <1>5, <2>2 DEF ReadNames
  <2>3. CASE ReadOriginals(w)
    BY <1>5, <2>3 DEF ReadOriginals
  <2>4. CASE ReadNumber(w)
    BY <1>5, <2>4 DEF ReadNumber
  <2>5. CASE WriteNames(w) \/ StorePins(w) \/ TransferNew(w) \/ UpdatePins(w) \/ WriteFollows(w)
    BY <1>5, <2>5 DEF WriteNames, StorePins, TransferNew, UpdatePins, WriteFollows
  <2>6. CASE WriteUnfollows(w)
    BY <1>5, <2>6, IdleTyped DEF WriteUnfollows, Busy, At
  <2> QED  BY <2>1, <2>2, <2>3, <2>4, <2>5, <2>6 DEF Run
<1>7. StorePins(w) \/ (Stored' = Stored /\ ~StorePins(w))
  <2>1. CASE UpdatePins(w)
    BY <2>1, UpdatePinsIs
  <2>2. CASE UNCHANGED pins
    BY <2>2 DEF Stored
  <2> QED  BY <2>1, <2>2 DEF Run, CheckTransfer, ReadNames, ReadOriginals, ReadNumber,
       WriteNames, TransferNew, WriteFollows, WriteUnfollows
<1>8. CASE StorePins(w)
  <2>1. Stored' = Stored \cup Range(List(w)) /\ List(w) = chain.blocks[worker[w].h]
        /\ worker[w].h \in Heights
    BY <1>2, <1>8, StorePinsIs, BusyIs
  <2>2. \A p \in Range(List(w)) : InBlock(p, worker[w].h)
    BY <2>1 DEF Range, InBlock
  <2>3. \A p \in Range(List(w)) : Height(p) = worker[w].h
    BY <2>1, <2>2, HeightIs DEF TInv, TypeOK
  <2>4. FullIn(worker[w].h, Stored')
    BY <2>1 DEF FullIn, Range
  <2> QED  BY <1>1, <1>2, <1>3, <1>4, <1>6, <1>7, <1>8, <2>1, <2>3, <2>4 DEF StorePins
<1>9. CASE Stored' = Stored /\ ~StorePins(w)
  <2>1. ASSUME ~Busy(w)' PROVE Full(worker[w].h)
    <3>1. CASE CheckTransfer(w)
      <4>1. List(w) = <<>> \/ worker'[w].pc = "names"
        BY <1>5, <3>1 DEF CheckTransfer
      <4>2. List(w) = <<>>
        BY <2>1, <4>1 DEF Busy, At
      <4> QED  BY <4>2 DEF Full, FullIn, List
    <3>2. CASE WriteUnfollows(w)
      BY <3>2 DEF TInv, WorkerInv, Wrote, WriteUnfollows, At
    <3>3. CASE ReadNames(w)
      BY <1>5, <2>1, <3>3 DEF ReadNames, Busy, At
    <3>4. CASE ReadOriginals(w)
      BY <1>5, <2>1, <3>4 DEF ReadOriginals, Busy, At
    <3>5. CASE ReadNumber(w)
      BY <1>5, <2>1, <3>5 DEF ReadNumber, Busy, At
    <3>6. CASE WriteNames(w) \/ TransferNew(w) \/ UpdatePins(w) \/ WriteFollows(w)
      BY <1>5, <2>1, <3>6 DEF WriteNames, TransferNew, UpdatePins, WriteFollows, Busy, At
    <3> QED  BY <1>9, <3>1, <3>2, <3>3, <3>4, <3>5, <3>6 DEF Run
  <2> QED  BY <1>1, <1>2, <1>3, <1>4, <1>6, <1>9, <2>1 DEF Full
<1> QED  BY <1>7, <1>8, <1>9

(* Every step keeps the types. *)
LEMMA StepTInv == TInv /\ [Next]_vars => TInv'
<1>1. ASSUME TInv, Next PROVE TInv'
  <2>1. chain' = chain
    BY <1>1 DEF Next
  <2>2. ASSUME NEW w \in Workers, Run(w) PROVE TInv'
    BY <1>1, <2>1, <2>2, RunShape
  <2> QED  BY <1>1, <2>1, <2>2, RoundTInv, TakeNextTInv, RerunTInv, ReindexTInv, CrashTInv,
              FetchFailsTInv DEF Next
<1>2. ASSUME TInv, UNCHANGED vars PROVE TInv'
  <2>1. UNCHANGED <<chain, best, maxHeight, step, pins, hop, names, follows, orphans, worker,
                    faults, crashes, reindexed>>
    BY <1>2 DEF vars
  <2>2. Stored' = Stored
    BY <2>1 DEF Stored
  <2>3. TypeOK'
    BY <1>2, <2>1, <2>2 DEF TInv, TypeOK, At
  <2>4. StoredInv'
    BY <1>2, <2>1, <2>2 DEF TInv, StoredInv, InBlock, Full, FullIn, Op
  <2>5. WorkerInv'
    BY <1>2, <2>1, <2>2 DEF TInv, WorkerInv, Busy, At, Wrote, Full, FullIn, By, Op
  <2> QED  BY <1>2, <2>1, <2>3, <2>4, <2>5 DEF TInv
<1> QED  BY <1>1, <1>2

(***************************************************************************)
(* The collections and the goroutines have the form the code gives them;   *)
(* goroutines are in blocks that exist (man/man.go:284-350).               *)
(***************************************************************************)
THEOREM TypeCorrect == Spec => []TypeOK
<1>1. TInv => TypeOK
  BY DEF TInv
<1> QED  BY <1>1, InitTInv, StepTInv, PTL DEF Spec

----------------------------------------------------------------------------
(* Which blocks are missing. *)

(* A block stays full. *)
LEMMA FullKept ==
  ASSUME chain' = chain, Stored \subseteq Stored', NEW h, ~Full(h)'
  PROVE  ~Full(h)
BY DEF Full, FullIn

(* A step that stores more leaves no more blocks missing. *)
LEMMA FewKept ==
  ASSUME chain' = chain, Stored \subseteq Stored', faults' = faults, NEW n, Few(n)
  PROVE  Few(n)'
<1>1. \A h : ~Full(h)' => ~Full(h)
  BY FullKept
<1> QED  BY <1>1 DEF Few

(* What holds of all blocks up to one holds of those up to an earlier one. *)
LEMMA FewBelow ==
  ASSUME NEW n \in Int, NEW m \in Int, m <= n, Few(n)
  PROVE  Few(m)
<1>1. \A f \in Heights : f \in Int
  BY Constants
<1>2. \A f \in Heights : f <= m => f <= n
  BY <1>1
<1> QED  BY <1>2 DEF Few

(* Between rounds and between blocks. *)
LEMMA QuietFew ==
  ASSUME LoopInv, OneLost, Quiet
  PROVE  Few(maxHeight)
<1>1. \A h : ~Current(h)
  BY Constants DEF Quiet, Current, Busy
<1> QED  BY <1>1 DEF LoopInv, Few

(* The circumstances of the order are among those of the uniqueness. *)
LEMMA TurnLost == (faults <= 1 /\ InTurn) => OneLost
BY DEF OneLost

(* The values of the position and the counters. *)
LEMMA Numbered ==
  ASSUME TInv
  PROVE  /\ best \in Nat /\ maxHeight \in Int /\ maxHeight <= best /\ best <= Tip /\ Tip \in Nat
         /\ Back \in Nat /\ step \in Nat
         /\ faults \in Nat /\ crashes \in Nat /\ reindexed \in Nat
         /\ \A w \in Workers : Busy(w) => worker[w].h \in Int /\ worker[w].h <= best
         /\ \A h \in Heights : h \in Int /\ h >= 1
<1>1. /\ best \in Nat /\ maxHeight \in Int /\ maxHeight <= best /\ best <= Tip /\ Tip \in Nat
      /\ Back \in Nat /\ step \in Nat /\ faults \in Nat /\ crashes \in Nat /\ reindexed \in Nat
  BY Constants DEF TInv, TypeOK
<1>2. \A h \in Heights : h \in Int /\ h >= 1
  BY Constants
<1>3. \A w \in Workers : Busy(w) => worker[w].h \in Int /\ worker[w].h <= best
  BY <1>1, BusyIs
<1> QED  BY <1>1, <1>2, <1>3

(* At the start no block is behind the loop. *)
LEMMA InitBlocks == Init => LoopInv /\ OrderInv
<1> SUFFICES ASSUME Init PROVE LoopInv /\ OrderInv
  OBVIOUS
<1>1. TInv
  BY InitTInv
<1>2. \A w \in Workers : ~Busy(w)
  BY IdleTyped DEF Init, Busy, At
<1>3. maxHeight = 0 /\ best = 0 /\ faults = 0 /\ Stored = {}
  BY DEF Init, Stored
<1>4. \A h \in Heights : ~(h <= 0) /\ ~(h <= 0 - 1)
  BY Constants
<1> QED  BY <1>2, <1>3, <1>4, Constants DEF LoopInv, OrderInv, Few

(* A goroutine does its next step. *)
LEMMA RunBlocks ==
  ASSUME BlocksInv, NEW w \in Workers, Run(w), chain' = chain
  PROVE  LoopInv' /\ OrderInv'
<1>1. /\ TInv' /\ Busy(w) /\ UNCHANGED <<best, maxHeight, step, faults, crashes, reindexed>>
      /\ \A v \in Workers : v # w => worker'[v] = worker[v]
      /\ Busy(w)' => worker'[w].h = worker[w].h
      /\ ~Busy(w)' => FullIn(worker[w].h, Stored')
      /\ Stored \subseteq Stored'
      /\ \A p \in Stored' \ Stored : Height(p) = worker[w].h
      /\ Stored' # Stored => FullIn(worker[w].h, Stored')
  BY RunShape DEF BlocksInv
<1>2. \A h : ~Full(h)' => ~Full(h)
  BY <1>1, FullKept
<1>3. \A v \in Workers : Busy(v)' => Busy(v) /\ worker'[v].h = worker[v].h
  BY <1>1 DEF Busy, At
<1>4. (OneLost' <=> OneLost) /\ (InTurn' <=> InTurn)
  BY <1>1 DEF OneLost, InTurn
<1>5. ASSUME NEW h, ~Full(h)', ~Current(h)' PROVE ~Current(h)
  <2> SUFFICES ASSUME Current(h) PROVE FALSE
    OBVIOUS
  <2>1. 0 \in Workers /\ worker[0].h = h /\ Busy(0)
    BY Constants DEF Current
  <2>2. Busy(0)' => worker'[0].h = h
    BY <1>3, <2>1
  <2>3. w = 0 /\ ~Busy(0)'
    <3>1. ~Busy(0)'
      BY <1>5, <2>2 DEF Current
    <3> QED  BY <1>1, <2>1, <3>1 DEF Busy, At
  <2>4. FullIn(h, Stored')
    BY <1>1, <2>1, <2>3
  <2> QED  BY <1>5, <2>4 DEF Full, FullIn
<1>6. LoopInv'
  <2> SUFFICES ASSUME OneLost' PROVE
        /\ \A f, g \in Heights :
             f <= maxHeight' /\ g <= maxHeight' /\ ~Full(f)' /\ ~Full(g)' /\ ~Current(f)' /\ ~Current(g)'
               => f = g /\ faults' # 0
        /\ \A u, v \in Workers :
             Busy(u)' /\ Busy(v)' /\ ~Full(worker[u].h)' /\ ~Full(worker[v].h)' => u = v
        /\ faults' = 0 =>
             /\ \A v \in 1..Back : Busy(v)' => Full(worker[v].h)'
             /\ Busy(0)' /\ ~Full(worker[0].h)' => maxHeight' <= worker'[0].h
    BY DEF LoopInv
  <2>1. /\ \A f, g \in Heights :
             f <= maxHeight /\ g <= maxHeight /\ ~Full(f) /\ ~Full(g) /\ ~Current(f) /\ ~Current(g)
               => f = g /\ faults # 0
        /\ \A u, v \in Workers :
             Busy(u) /\ Busy(v) /\ ~Full(worker[u].h) /\ ~Full(worker[v].h) => u = v
        /\ faults = 0 =>
             /\ \A v \in 1..Back : Busy(v) => Full(worker[v].h)
             /\ Busy(0) /\ ~Full(worker[0].h) => maxHeight <= worker[0].h
    BY <1>4 DEF BlocksInv, LoopInv
  <2>2. \A v \in Workers : Busy(v)' /\ ~Full(worker[v].h)' => Busy(v) /\ ~Full(worker[v].h)
    <3>1. \A v \in Workers : Busy(v)' /\ ~Full(worker[v].h)' => ~Full(worker[v].h)
      BY <1>3, <1>1, FullKept DEF Full, FullIn
    <3> QED  BY <1>3, <3>1
  <2>3. \A f, g \in Heights :
          f <= maxHeight' /\ g <= maxHeight' /\ ~Full(f)' /\ ~Full(g)' /\ ~Current(f)' /\ ~Current(g)'
            => f = g /\ faults' # 0
    BY <1>1, <1>2, <1>5, <2>1
  <2>4. \A u, v \in Workers :
          Busy(u)' /\ Busy(v)' /\ ~Full(worker[u].h)' /\ ~Full(worker[v].h)' => u = v
    BY <2>1, <2>2
  <2>5. faults' = 0 => /\ \A v \in 1..Back : Busy(v)' => Full(worker[v].h)'
                       /\ Busy(0)' /\ ~Full(worker[0].h)' => maxHeight' <= worker'[0].h
    BY <1>1, <1>3, <2>1, <2>2, Constants
  <2> QED  BY <2>3, <2>4, <2>5
<1>7. OrderInv'
  <2> SUFFICES ASSUME faults' <= 1, InTurn' PROVE
        /\ \A p \in Stored' : Few(Height(p))'
        /\ \A v \in Workers : Busy(v)' => Few(worker[v].h - 1)'
        /\ chain'.steady => Few(best - 1)'
    BY DEF OrderInv
  <2>1. /\ \A p \in Stored : Few(Height(p))
        /\ \A v \in Workers : Busy(v) => Few(worker[v].h - 1)
        /\ chain.steady => Few(best - 1)
    BY <1>1, <1>4 DEF BlocksInv, OrderInv
  <2>2. \A n : Few(n) => \A f, g \in Heights :
          f <= n /\ g <= n /\ ~Full(f)' /\ ~Full(g)' => f = g /\ faults' # 0
    BY <1>1, <1>2 DEF Few
  <2>3. ASSUME NEW p \in Stored' PROVE Few(Height(p))'
    <3>1. CASE p \in Stored
      <4>1. Few(Height(p))
        BY <2>1, <3>1
      <4> QED  BY <1>1, <4>1, <2>2, HeightsKept DEF Few
    <3>2. CASE p \notin Stored
      <4>1. Height(p) = worker[w].h /\ Few(worker[w].h - 1) /\ FullIn(worker[w].h, Stored')
        BY <1>1, <2>1, <3>2
      <4>2. worker[w].h \in Int /\ \A f \in Heights : f \in Int
        BY <1>1, Numbered DEF BlocksInv
      <4>3. ASSUME NEW f \in Heights, f <= worker[w].h, ~Full(f)' PROVE f <= worker[w].h - 1
        <5>1. f # worker[w].h
          BY <4>1, <4>3 DEF Full, FullIn
        <5> QED  BY <4>2, <4>3, <5>1
      <4>4. \A f, g \in Heights : f <= worker[w].h /\ g <= worker[w].h /\ ~Full(f)' /\ ~Full(g)'
              => f = g /\ faults' # 0
        BY <2>2, <4>1, <4>3
      <4>5. Height(p)' = worker[w].h
        BY <4>1, HeightsKept
      <4> QED  BY <4>4, <4>5 DEF Few
    <3> QED  BY <3>1, <3>2
  <2>4. ASSUME NEW v \in Workers, Busy(v)' PROVE Few(worker[v].h - 1)'
    <3>1. Few(worker[v].h - 1) /\ worker'[v].h = worker[v].h
      BY <1>3, <2>1, <2>4
    <3> QED  BY <2>2, <3>1 DEF Few
  <2>5. chain'.steady => Few(best - 1)'
    BY <1>1, <2>1, <2>2 DEF Few
  <2> QED  BY <2>3, <2>4, <2>5
<1> QED  BY <1>6, <1>7

(* The other steps store nothing. *)
LEMMA SameBlocks ==
  ASSUME UNCHANGED <<chain, pins>>
  PROVE  /\ Stored' = Stored /\ \A h : Full(h)' <=> FullIn(h, Stored)
         /\ \A p : Height(p)' = Height(p)
BY DEF Stored, Full, FullIn, Height

(* A round begins when no goroutine runs. *)
LEMMA RoundBlocks ==
  ASSUME BlocksInv, Round, chain' = chain
  PROVE  LoopInv' /\ OrderInv'
<1>1. /\ UNCHANGED <<chain, maxHeight, pins, worker, faults, crashes, reindexed>>
      /\ best' \in best..Tip /\ maxHeight < best' /\ Quiet
      /\ chain.steady => best' = best \/ (maxHeight = best /\ best' = best + 1)
  BY DEF Round, counters
<1>2. Stored' = Stored /\ \A h : Full(h)' <=> FullIn(h, Stored)
  BY <1>1, SameBlocks
<1>3. LoopInv'
  BY <1>1, <1>2 DEF BlocksInv, LoopInv, OneLost, InTurn, Current, Busy, At, Full, FullIn
<1>4. ASSUME faults <= 1, InTurn, chain.steady PROVE Few(best' - 1)
  <2>1. Few(best - 1)
    BY <1>4 DEF BlocksInv, OrderInv
  <2>2. Few(maxHeight)
    BY <1>1, <1>4, TurnLost, QuietFew DEF BlocksInv
  <2>3. best' = best \/ (maxHeight = best /\ best' - 1 = maxHeight)
    BY <1>1, <1>4, Numbered DEF BlocksInv
  <2> QED  BY <2>1, <2>2, <2>3
<1>5. \A n : Few(n) => Few(n)'
  BY <1>1, FewKept, <1>2
<1>6. OrderInv'
  <2>1. \A n : Few(n) => \A f, g \in Heights :
          f <= n /\ g <= n /\ ~Full(f)' /\ ~Full(g)' => f = g /\ faults' # 0
    BY <1>1, <1>2 DEF Few, Full, FullIn
  <2> SUFFICES ASSUME faults' <= 1, InTurn' PROVE
        /\ \A p \in Stored' : Few(Height(p))'
        /\ \A v \in Workers : Busy(v)' => Few(worker[v].h - 1)'
        /\ chain'.steady => Few(best - 1)'
    BY DEF OrderInv
  <2>2. faults <= 1 /\ InTurn
    BY <1>1 DEF InTurn
  <2>3. \A p \in Stored' : Few(Height(p))'
    BY <1>1, <1>2, <2>1, <2>2, HeightsKept DEF BlocksInv, OrderInv, Few
  <2>4. \A v \in Workers : ~Busy(v)'
    BY <1>1 DEF Quiet, Busy, At
  <2>5. chain'.steady => Few(best - 1)'
    BY <1>1, <1>4, <2>1, <2>2 DEF Few
  <2> QED  BY <2>3, <2>4, <2>5
<1> QED  BY <1>3, <1>6

(* Only the loop runs, in block h. *)
LEMMA StartIs ==
  ASSUME TInv, Quiet, NEW h \in Int, h <= Tip, worker' = [worker EXCEPT ![0] = Taking(h)]
  PROVE  /\ \A v \in Workers : Busy(v)' => v = 0
         /\ Busy(0)' => h >= 1 /\ worker'[0].h = h
         /\ h >= 1 => Busy(0)' /\ At(0, "transfer")'
         /\ DOMAIN worker'[0].seen = {}
<1>1. worker'[0] = Taking(h) /\ \A v \in Workers : v # 0 => worker'[v] = worker[v]
  BY Constants DEF TInv
<1>2. \A v \in Workers : Busy(v)' => v = 0
  BY <1>1 DEF Quiet, Busy, At
<1>3. /\ DOMAIN Taking(h).seen = {} /\ (h < 1 => Taking(h).pc = "idle")
      /\ h >= 1 => Taking(h).pc = "transfer" /\ Taking(h).h = h
  BY TakingTyped, IdleTyped
<1>4. Busy(0)' => h >= 1
  BY <1>1, <1>3 DEF Busy, At
<1> QED  BY <1>1, <1>2, <1>3, <1>4 DEF Busy, At

(* The loop moves on by one block, which it is then in. *)
LEMMA TakeNextBlocks ==
  ASSUME BlocksInv, TakeNext, chain' = chain
  PROVE  LoopInv' /\ OrderInv'
<1>1. /\ UNCHANGED <<chain, best, step, pins, faults, crashes, reindexed>>
      /\ maxHeight < best /\ Quiet /\ maxHeight' = maxHeight + 1
      /\ worker' = [worker EXCEPT ![0] = Taking(maxHeight + 1)]
  BY DEF TakeNext, counters
<1>2. Stored' = Stored /\ (\A h : Full(h)' <=> FullIn(h, Stored)) /\ \A p : Height(p)' = Height(p)
  BY <1>1, SameBlocks
<1>3. TInv /\ maxHeight \in Int /\ maxHeight + 1 \in Int /\ maxHeight + 1 <= Tip
      /\ \A h \in Heights : h \in Int /\ h >= 1
  BY <1>1, Numbered DEF BlocksInv
<1>4. /\ \A v \in Workers : Busy(v)' => v = 0
      /\ Busy(0)' => maxHeight + 1 >= 1 /\ worker'[0].h = maxHeight + 1
      /\ maxHeight + 1 >= 1 => Busy(0)'
  BY <1>1, <1>3, StartIs
<1>5. (OneLost' <=> OneLost) /\ (InTurn' <=> InTurn)
  BY <1>1 DEF OneLost, InTurn
<1>6. OneLost => \A f, g \in Heights :
        f <= maxHeight /\ g <= maxHeight /\ ~Full(f)' /\ ~Full(g)' => f = g /\ faults' # 0
  BY <1>1, <1>2, QuietFew DEF BlocksInv, Few, Full, FullIn
<1>7. \A f \in Heights : f <= maxHeight' /\ ~Current(f)' => f <= maxHeight
  <2> SUFFICES ASSUME NEW f \in Heights, f <= maxHeight', ~Current(f)' PROVE f <= maxHeight
    OBVIOUS
  <2>1. f # maxHeight + 1
    BY <1>3, <1>4 DEF Current
  <2> QED  BY <1>1, <1>3, <2>1
<1>8. LoopInv'
  <2> SUFFICES ASSUME OneLost' PROVE
        /\ \A f, g \in Heights :
             f <= maxHeight' /\ g <= maxHeight' /\ ~Full(f)' /\ ~Full(g)' /\ ~Current(f)' /\ ~Current(g)'
               => f = g /\ faults' # 0
        /\ \A u, v \in Workers :
             Busy(u)' /\ Busy(v)' /\ ~Full(worker[u].h)' /\ ~Full(worker[v].h)' => u = v
        /\ faults' = 0 =>
             /\ \A v \in 1..Back : Busy(v)' => Full(worker[v].h)'
             /\ Busy(0)' /\ ~Full(worker[0].h)' => maxHeight' <= worker'[0].h
    BY DEF LoopInv
  <2>1. \A v \in 1..Back : ~Busy(v)'
    BY <1>4, Constants
  <2>2. Busy(0)' => maxHeight' <= worker'[0].h
    BY <1>1, <1>3, <1>4
  <2> QED  BY <1>4, <1>5, <1>6, <1>7, <2>1, <2>2
<1>9. OrderInv'
  <2> SUFFICES ASSUME faults' <= 1, InTurn' PROVE
        /\ \A p \in Stored' : Few(Height(p))'
        /\ \A v \in Workers : Busy(v)' => Few(worker[v].h - 1)'
        /\ chain'.steady => Few(best - 1)'
    BY DEF OrderInv
  <2>1. \A n : Few(n) => \A f, g \in Heights :
          f <= n /\ g <= n /\ ~Full(f)' /\ ~Full(g)' => f = g /\ faults' # 0
    BY <1>1, <1>2 DEF Few, Full, FullIn
  <2>2. faults <= 1 /\ InTurn /\ OneLost
    BY <1>1, <1>5, TurnLost
  <2>3. \A p \in Stored' : Few(Height(p))'
    BY <1>1, <1>2, <2>1, <2>2 DEF BlocksInv, OrderInv, Few
  <2>4. Busy(0)' => worker'[0].h - 1 = maxHeight
    BY <1>3, <1>4
  <2>5. \A v \in Workers : Busy(v)' => Few(worker[v].h - 1)'
    BY <1>4, <1>6, <2>2, <2>4 DEF Few
  <2>6. chain'.steady => Few(best - 1)'
    BY <1>1, <2>1, <2>2 DEF BlocksInv, OrderInv, Few
  <2> QED  BY <2>3, <2>5, <2>6
<1> QED  BY <1>8, <1>9

(* In a steady chain the blocks before the one of an API call are stored. *)
LEMMA ReindexBlocks ==
  ASSUME BlocksInv, NEW h \in Heights, Reindex(h), chain' = chain
  PROVE  LoopInv' /\ OrderInv'
<1>1. /\ UNCHANGED <<chain, best, maxHeight, step, pins, faults, crashes>>
      /\ Quiet /\ reindexed' = reindexed + 1 /\ h <= best
      /\ worker' = [worker EXCEPT ![0] = Taking(h)]
  BY DEF Reindex, position
<1>2. Stored' = Stored /\ (\A g : Full(g)' <=> FullIn(g, Stored)) /\ \A p : Height(p)' = Height(p)
  BY <1>1, SameBlocks
<1>3. /\ TInv /\ h \in Int /\ h >= 1 /\ h <= Tip /\ best \in Int /\ maxHeight \in Int
      /\ reindexed + 1 # 0 /\ \A g \in Heights : g \in Int
  BY <1>1, Numbered DEF BlocksInv
<1>4. (\A v \in Workers : Busy(v)' => v = 0) /\ Busy(0)' /\ worker'[0].h = h
  BY <1>1, <1>3, StartIs
<1>5. (OneLost' => OneLost) /\ (InTurn' => InTurn /\ chain.steady)
  BY <1>1, <1>3 DEF OneLost, InTurn
<1>6. OneLost => \A f, g \in Heights :
        f <= maxHeight /\ g <= maxHeight /\ ~Full(f)' /\ ~Full(g)' => f = g /\ faults' # 0
  BY <1>1, <1>2, QuietFew DEF BlocksInv, Few, Full, FullIn
<1>7. LoopInv'
  <2> SUFFICES ASSUME OneLost' PROVE
        /\ \A f, g \in Heights :
             f <= maxHeight' /\ g <= maxHeight' /\ ~Full(f)' /\ ~Full(g)' /\ ~Current(f)' /\ ~Current(g)'
               => f = g /\ faults' # 0
        /\ \A u, v \in Workers :
             Busy(u)' /\ Busy(v)' /\ ~Full(worker[u].h)' /\ ~Full(worker[v].h)' => u = v
        /\ faults' = 0 =>
             /\ \A v \in 1..Back : Busy(v)' => Full(worker[v].h)'
             /\ Busy(0)' /\ ~Full(worker[0].h)' => maxHeight' <= worker'[0].h
    BY DEF LoopInv
  <2>1. \A v \in 1..Back : ~Busy(v)'
    BY <1>4, Constants
  <2>2. ASSUME faults' = 0, ~Full(worker[0].h)' PROVE maxHeight' <= worker'[0].h
    <3>1. ~Full(h)'
      BY <1>4, <2>2, <1>2 DEF Full, FullIn
    <3>2. ~(h <= maxHeight)
      BY <1>5, <1>6, <2>2, <3>1
    <3> QED  BY <1>1, <1>3, <1>4, <3>2
  <2> QED  BY <1>1, <1>4, <1>5, <1>6, <2>1, <2>2
<1>8. OrderInv'
  <2> SUFFICES ASSUME faults' <= 1, InTurn' PROVE
        /\ \A p \in Stored' : Few(Height(p))'
        /\ \A v \in Workers : Busy(v)' => Few(worker[v].h - 1)'
        /\ chain'.steady => Few(best - 1)'
    BY DEF OrderInv
  <2>1. \A n : Few(n) => \A f, g \in Heights :
          f <= n /\ g <= n /\ ~Full(f)' /\ ~Full(g)' => f = g /\ faults' # 0
    BY <1>1, <1>2 DEF Few, Full, FullIn
  <2>2. faults <= 1 /\ InTurn /\ Few(best - 1)
    BY <1>1, <1>5 DEF BlocksInv, OrderInv
  <2>3. \A p \in Stored' : Few(Height(p))'
    BY <1>1, <1>2, <2>1, <2>2 DEF BlocksInv, OrderInv, Few
  <2>4. Few(h - 1)
    BY <1>1, <1>3, <2>2, FewBelow
  <2>5. \A v \in Workers : Busy(v)' => Few(worker[v].h - 1)'
    BY <1>4, <2>1, <2>4 DEF Few
  <2>6. chain'.steady => Few(best - 1)'
    BY <1>1, <2>1, <2>2 DEF Few
  <2> QED  BY <2>3, <2>5, <2>6
<1> QED  BY <1>7, <1>8

(* What a round of one block starts. *)
LEMMA RerunIs ==
  ASSUME TInv, Rerun, step = 1
  PROVE  /\ ~Busy(0)'
         /\ \A v \in Workers : Busy(v)' =>
              /\ v \in 1..Back /\ worker'[v].h = best - v /\ worker'[v].h \in Heights
              /\ At(v, "transfer")' /\ DOMAIN worker'[v].seen = {}
         /\ \E v \in 1..Back : maxHeight' = best - v
<1>1. best \in Int /\ best <= Tip
  BY Numbered
<1>2. worker' = [v \in Workers |-> IF v = 0 THEN Idle ELSE Taking(Again(v))]
  BY DEF Rerun
<1>3. ~Busy(0)'
  BY <1>2, IdleTyped, Constants DEF Busy, At
<1>4. ASSUME NEW v \in Workers, Busy(v)'
      PROVE  /\ v \in 1..Back /\ worker'[v].h = best - v /\ worker'[v].h \in Heights
             /\ At(v, "transfer")' /\ DOMAIN worker'[v].seen = {}
  <2>1. v # 0 /\ v \in 1..Back /\ worker'[v] = Taking(Again(v))
    BY <1>2, <1>3, <1>4, Constants
  <2>2. Again(v) = best - v /\ Again(v) \in Int /\ Again(v) <= Tip
    BY <1>1, <2>1, Constants DEF Again
  <2>3. Again(v) >= 1
    BY <2>1, <2>2, <1>4, TakingTyped, IdleTyped DEF Busy, At
  <2>4. Again(v) \in Heights
    BY <2>2, <2>3, Constants
  <2> QED  BY <2>1, <2>2, <2>3, <2>4, TakingTyped DEF At
<1>5. \E v \in 1..Back : maxHeight' = best - v
  BY DEF Rerun, Again
<1> QED  BY <1>3, <1>4, <1>5

(* The goroutines of a re-run are in blocks behind the loop, at most one of them missing. *)
LEMMA RerunBlocks ==
  ASSUME BlocksInv, Rerun, chain' = chain
  PROVE  LoopInv' /\ OrderInv'
<1>1. /\ UNCHANGED <<chain, best, pins, faults, crashes, reindexed>>
      /\ maxHeight = best /\ Quiet
  BY DEF Rerun, counters
<1>2. Stored' = Stored /\ (\A h : Full(h)' <=> FullIn(h, Stored)) /\ \A p : Height(p)' = Height(p)
  BY <1>1, SameBlocks
<1>3. TInv /\ best \in Int /\ Back \in Nat /\ \A h \in Heights : h \in Int /\ h >= 1
  BY Numbered DEF BlocksInv
<1>4. (OneLost' <=> OneLost) /\ (InTurn' <=> InTurn)
  BY <1>1 DEF OneLost, InTurn
<1>5. OneLost => Few(best)
  BY <1>1, QuietFew DEF BlocksInv
<1>6. \A n : Few(n) => \A f, g \in Heights :
        f <= n /\ g <= n /\ ~Full(f)' /\ ~Full(g)' => f = g /\ faults' # 0
  BY <1>1, <1>2 DEF Few, Full, FullIn
<1>7. CASE step # 1
  <2>1. UNCHANGED <<worker, maxHeight>>
    BY <1>7 DEF Rerun
  <2>2. LoopInv'
    BY <1>1, <1>2, <1>4, <2>1 DEF BlocksInv, LoopInv, Current, Busy, At, Full, FullIn
  <2>3. OrderInv'
    BY <1>1, <1>2, <1>4, <1>6, <2>1 DEF BlocksInv, OrderInv, Busy, At, Few
  <2> QED  BY <2>2, <2>3
<1>8. CASE step = 1
  <2>1. /\ ~Busy(0)'
        /\ \A v \in Workers : Busy(v)' =>
             v \in 1..Back /\ worker'[v].h = best - v /\ worker'[v].h \in Heights
        /\ \E v \in 1..Back : maxHeight' = best - v
    BY <1>3, <1>8, RerunIs
  <2>2. maxHeight' \in Int /\ maxHeight' <= best
    BY <1>3, <2>1
  <2>3. ASSUME NEW v \in Workers, Busy(v)' PROVE worker'[v].h \in Int /\ worker'[v].h <= best
    <3>1. v \in Int /\ 0 <= v /\ worker'[v].h = best - v
      BY <1>3, <2>1, <2>3
    <3>2. best - v \in Int /\ best - v <= best
      BY <1>3, <3>1
    <3> QED  BY <3>1, <3>2
  <2>4. LoopInv'
    <3> SUFFICES ASSUME OneLost' PROVE
          /\ \A f, g \in Heights :
               f <= maxHeight' /\ g <= maxHeight' /\ ~Full(f)' /\ ~Full(g)' /\ ~Current(f)' /\ ~Current(g)'
                 => f = g /\ faults' # 0
          /\ \A u, v \in Workers :
               Busy(u)' /\ Busy(v)' /\ ~Full(worker[u].h)' /\ ~Full(worker[v].h)' => u = v
          /\ faults' = 0 =>
               /\ \A v \in 1..Back : Busy(v)' => Full(worker[v].h)'
               /\ Busy(0)' /\ ~Full(worker[0].h)' => maxHeight' <= worker'[0].h
      BY DEF LoopInv
    <3>1. \A f, g \in Heights : f <= best /\ g <= best /\ ~Full(f)' /\ ~Full(g)' => f = g /\ faults' # 0
      BY <1>4, <1>5, <1>6
    <3>2. \A f \in Heights : f <= maxHeight' => f <= best
      BY <1>3, <2>2
    <3>3. ASSUME NEW u \in Workers, NEW v \in Workers, Busy(u)', Busy(v)', ~Full(worker[u].h)',
                 ~Full(worker[v].h)'
          PROVE  u = v
      <4>1. worker'[u].h = worker'[v].h
        <5>1. \A f, g \in Heights :
                f <= best /\ g <= best /\ ~FullIn(f, Stored) /\ ~FullIn(g, Stored) => f = g
          BY <1>2, <3>1
        <5>2. ~FullIn(worker'[u].h, Stored) /\ ~FullIn(worker'[v].h, Stored)
          BY <1>1, <1>2, <3>3 DEF Full, FullIn
        <5> QED  BY <2>1, <2>3, <3>3, <5>1, <5>2
      <4>2. u \in Int /\ v \in Int /\ best - u = best - v
        BY <2>1, <3>3, <4>1
      <4> QED  BY <1>3, <4>2
    <3>4. \A v \in 1..Back : Busy(v)' /\ faults' = 0 => Full(worker[v].h)'
      BY <2>1, <2>3, <3>1, Constants
    <3> QED  BY <2>1, <3>1, <3>2, <3>3, <3>4
  <2>5. OrderInv'
    <3> SUFFICES ASSUME faults' <= 1, InTurn' PROVE
          /\ \A p \in Stored' : Few(Height(p))'
          /\ \A v \in Workers : Busy(v)' => Few(worker[v].h - 1)'
          /\ chain'.steady => Few(best - 1)'
      BY DEF OrderInv
    <3>1. faults <= 1 /\ InTurn /\ Few(best)
      BY <1>1, <1>4, <1>5, TurnLost
    <3>2. \A p \in Stored' : Few(Height(p))'
      BY <1>1, <1>2, <1>6, <3>1 DEF BlocksInv, OrderInv, Few
    <3>3. ASSUME NEW v \in Workers, Busy(v)' PROVE Few(worker[v].h - 1)'
      <4>1. worker'[v].h - 1 \in Int /\ worker'[v].h - 1 <= best
        BY <1>3, <2>3, <3>3
      <4>2. Few(worker'[v].h - 1)
        BY <1>3, <3>1, <4>1, FewBelow
      <4> QED  BY <1>6, <4>2 DEF Few
    <3>4. chain'.steady => Few(best - 1)'
      BY <1>1, <1>6, <3>1 DEF BlocksInv, OrderInv, Few
    <3> QED  BY <3>2, <3>3, <3>4
  <2> QED  BY <2>4, <2>5
<1> QED  BY <1>7, <1>8

(* A fetch that fails leaves the one block that may be missing. *)
LEMMA FetchFailsBlocks ==
  ASSUME BlocksInv, NEW w \in Workers, FetchFails(w), chain' = chain
  PROVE  LoopInv' /\ OrderInv'
<1>1. /\ UNCHANGED <<chain, best, maxHeight, pins, crashes, reindexed>>
      /\ Busy(w) /\ faults' = faults + 1 /\ worker' = [worker EXCEPT ![w] = Idle]
  BY DEF FetchFails, position, Busy, At
<1>2. Stored' = Stored /\ (\A h : Full(h)' <=> FullIn(h, Stored)) /\ \A p : Height(p)' = Height(p)
  BY <1>1, SameBlocks
<1>3. TInv /\ faults \in Nat /\ faults' # 0 /\ (faults' <= 1 => faults = 0)
  BY <1>1, Numbered DEF BlocksInv
<1>4. \A v \in Workers : Busy(v)' => Busy(v) /\ worker'[v] = worker[v]
  BY <1>1, <1>3, IdleTyped DEF TInv, Busy, At
<1>5. OneLost' => OneLost /\ faults = 0
  BY <1>1, <1>3 DEF OneLost, InTurn
<1>6. LoopInv'
  <2> SUFFICES ASSUME OneLost' PROVE
        /\ \A f, g \in Heights :
             f <= maxHeight' /\ g <= maxHeight' /\ ~Full(f)' /\ ~Full(g)' /\ ~Current(f)' /\ ~Current(g)'
               => f = g /\ faults' # 0
        /\ \A u, v \in Workers :
             Busy(u)' /\ Busy(v)' /\ ~Full(worker[u].h)' /\ ~Full(worker[v].h)' => u = v
        /\ faults' = 0 =>
             /\ \A v \in 1..Back : Busy(v)' => Full(worker[v].h)'
             /\ Busy(0)' /\ ~Full(worker[0].h)' => maxHeight' <= worker'[0].h
    BY DEF LoopInv
  <2>1. \A f \in Heights : f <= maxHeight /\ ~Full(f) => Current(f)
    BY <1>5 DEF BlocksInv, LoopInv
  <2>2. \A f, g \in Heights : f <= maxHeight' /\ g <= maxHeight' /\ ~Full(f)' /\ ~Full(g)' => f = g
    BY <1>1, <1>2, <2>1 DEF Current, Full, FullIn
  <2>3. \A u, v \in Workers :
          Busy(u)' /\ Busy(v)' /\ ~Full(worker[u].h)' /\ ~Full(worker[v].h)' => u = v
    BY <1>2, <1>4, <1>5 DEF BlocksInv, LoopInv, Full, FullIn
  <2> QED  BY <1>3, <2>2, <2>3
<1>7. OrderInv'
  <2> SUFFICES ASSUME faults' <= 1, InTurn' PROVE
        /\ \A p \in Stored' : Few(Height(p))'
        /\ \A v \in Workers : Busy(v)' => Few(worker[v].h - 1)'
        /\ chain'.steady => Few(best - 1)'
    BY DEF OrderInv
  <2>1. faults = 0 /\ InTurn
    BY <1>1, <1>3 DEF InTurn
  <2>2. \A n : Few(n) => \A f \in Heights : f <= n => Full(f)'
    BY <1>2, <2>1 DEF Few, Full, FullIn
  <2>3. \A n : Few(n) => \A f, g \in Heights :
          f <= n /\ g <= n /\ ~Full(f)' /\ ~Full(g)' => f = g /\ faults' # 0
    BY <2>2
  <2>4. \A p \in Stored' : Few(Height(p))'
    BY <1>2, <2>1, <2>3 DEF BlocksInv, OrderInv, Few
  <2>5. \A v \in Workers : Busy(v)' => Few(worker[v].h - 1)'
    BY <1>4, <2>1, <2>3 DEF BlocksInv, OrderInv, Few
  <2>6. chain'.steady => Few(best - 1)'
    BY <1>1, <2>1, <2>3 DEF BlocksInv, OrderInv, Few
  <2> QED  BY <2>4, <2>5, <2>6
<1> QED  BY <1>6, <1>7

(* After a restart the loop is behind every block that is missing and was not lost. *)
LEMMA CrashBlocks ==
  ASSUME BlocksInv, Crash, chain' = chain
  PROVE  LoopInv' /\ OrderInv'
<1> DEFINE top == Max({0} \cup {Height(p) : p \in Stored})
<1>1. /\ UNCHANGED <<chain, best, pins, faults, reindexed>>
      /\ crashes' = crashes + 1 /\ maxHeight' = top /\ worker' = [v \in Workers |-> Idle]
  BY DEF Crash
<1>2. Stored' = Stored /\ (\A h : Full(h)' <=> FullIn(h, Stored)) /\ \A p : Height(p)' = Height(p)
  BY <1>1, SameBlocks
<1>3. TInv /\ crashes' # 0 /\ \A h \in Heights : h \in Int /\ h >= 1
  BY <1>1, Numbered DEF BlocksInv
<1>4. top \in Int /\ (top = 0 \/ \E p \in Stored : Height(p) = top)
  <2>1. top \in 0..best /\ (top = 0 \/ \E p \in Stored : Height(p) = top)
    BY <1>3, HighestStored
  <2> HIDE DEF top
  <2> QED  BY <2>1
<1> HIDE DEF top
<1>5. \A v \in Workers : ~Busy(v)'
  BY <1>1, IdleTyped DEF Busy, At
<1>6. faults <= 1 /\ InTurn => Few(top)
  <2>1. top = 0 => Few(top)
    BY <1>3 DEF Few
  <2> QED  BY <1>4, <2>1 DEF BlocksInv, OrderInv
<1>7. \A n : Few(n) => \A f, g \in Heights :
        f <= n /\ g <= n /\ ~Full(f)' /\ ~Full(g)' => f = g /\ faults' # 0
  BY <1>1, <1>2 DEF Few, Full, FullIn
<1>8. LoopInv'
  <2>1. OneLost' => faults <= 1 /\ InTurn
    BY <1>1, <1>3 DEF OneLost, InTurn
  <2>2. 1..Back \subseteq Workers /\ 0 \in Workers
    BY Constants
  <2> QED  BY <1>1, <1>5, <1>6, <1>7, <2>1, <2>2 DEF LoopInv
<1>9. OrderInv'
  <2>1. InTurn' <=> InTurn
    BY <1>1 DEF InTurn
  <2> QED  BY <1>1, <1>2, <1>5, <1>7, <2>1 DEF BlocksInv, OrderInv, Few
<1> QED  BY <1>8, <1>9

(* Every step keeps the order of the blocks. *)
LEMMA StepBlocks == BlocksInv /\ [Next]_vars => BlocksInv'
<1>1. ASSUME BlocksInv, Next PROVE LoopInv' /\ OrderInv'
  <2>1. chain' = chain
    BY <1>1 DEF Next
  <2> QED  BY <1>1, <2>1, RoundBlocks, TakeNextBlocks, RerunBlocks, ReindexBlocks, CrashBlocks,
              FetchFailsBlocks, RunBlocks DEF Next
<1>2. ASSUME BlocksInv, UNCHANGED vars PROVE LoopInv' /\ OrderInv'
  <2>1. UNCHANGED <<chain, best, maxHeight, pins, worker, faults, crashes, reindexed>>
    BY <1>2 DEF vars
  <2>2. Stored' = Stored /\ (\A h : Full(h)' <=> FullIn(h, Stored)) /\ \A p : Height(p)' = Height(p)
    BY <2>1, SameBlocks
  <2>3. LoopInv'
    BY <1>2, <2>1, <2>2
       DEF BlocksInv, LoopInv, OneLost, InTurn, Current, Busy, At, Full, FullIn
  <2>4. \A n : Few(n)' <=> Few(n)
    BY <2>1, <2>2 DEF Few, Full, FullIn
  <2>5. OrderInv'
    BY <1>2, <2>1, <2>2, <2>4 DEF BlocksInv, OrderInv, InTurn, Busy, At, Few
  <2> QED  BY <2>3, <2>5
<1> QED  BY <1>1, <1>2, StepTInv DEF BlocksInv

(* The order of the blocks, at all times. *)
LEMMA BlocksKept == Spec => []BlocksInv
<1>1. Init => BlocksInv
  BY InitTInv, InitBlocks DEF BlocksInv
<1> QED  BY <1>1, StepBlocks, PTL DEF Spec

----------------------------------------------------------------------------
(* The numbers. *)

(* What the steps have in common that are not a goroutine's next one. *)
Other ==
  \/ Round \/ TakeNext \/ Rerun \/ (\E h \in Heights : Reindex(h)) \/ Crash
  \/ \E w \in Workers : FetchFails(w)
  \/ UNCHANGED vars

(* They touch neither pins nor transfers; a goroutine that starts has read nothing. *)
LEMMA OtherSteps ==
  ASSUME TInv, Other, chain' = chain
  PROVE  /\ UNCHANGED <<pins, hop>> /\ best <= best'
         /\ (OneLost' => OneLost) /\ (InTurn' => InTurn)
         /\ faults' \in Nat /\ faults <= faults' /\ crashes' \in Nat /\ crashes <= crashes'
         /\ \A v \in Workers :
              worker'[v] = worker[v]
              \/ (worker'[v].pc \in {"idle", "transfer"} /\ DOMAIN worker'[v].seen = {})
<1>1. /\ best \in Nat /\ faults \in Nat /\ crashes \in Nat /\ reindexed \in Nat /\ maxHeight \in Int
      /\ maxHeight <= best /\ best <= Tip /\ Tip \in Nat /\ \A h \in Heights : h \in Int
  BY Numbered
<1>2. CASE Round
  BY <1>1, <1>2 DEF Round, counters, OneLost, InTurn
<1>3. ASSUME NEW h \in Int, h <= best, worker' = [worker EXCEPT ![0] = Taking(h)]
      PROVE  \A v \in Workers :
               worker'[v] = worker[v]
               \/ (worker'[v].pc \in {"idle", "transfer"} /\ DOMAIN worker'[v].seen = {})
  <2>1. h <= Tip
    BY <1>1, <1>3
  <2>2. Taking(h).pc \in {"idle", "transfer"} /\ DOMAIN Taking(h).seen = {}
    BY <2>1, TakingTyped, IdleTyped
  <2>3. \A v \in Workers : worker'[v] = worker[v] \/ worker'[v] = Taking(h)
    BY <1>3 DEF TInv
  <2> QED  BY <2>2, <2>3
<1>4. CASE TakeNext
  <2>1. maxHeight + 1 \in Int /\ maxHeight + 1 <= best
    BY <1>1, <1>4 DEF TakeNext
  <2>2. /\ worker' = [worker EXCEPT ![0] = Taking(maxHeight + 1)]
        /\ UNCHANGED <<best, pins, hop, faults, crashes, reindexed>>
    BY <1>4 DEF TakeNext, counters
  <2>3. (OneLost' => OneLost) /\ (InTurn' => InTurn)
    BY <2>2 DEF OneLost, InTurn
  <2>4. \A v \in Workers :
          worker'[v] = worker[v]
          \/ (worker'[v].pc \in {"idle", "transfer"} /\ DOMAIN worker'[v].seen = {})
    BY <1>3, <2>1, <2>2
  <2>5. best <= best' /\ faults' \in Nat /\ faults <= faults' /\ crashes' \in Nat /\ crashes <= crashes'
    BY <1>1, <2>2
  <2> QED  BY <2>2, <2>3, <2>4, <2>5
<1>5. ASSUME NEW h \in Heights, Reindex(h)
      PROVE  /\ UNCHANGED <<best, pins, hop, faults, crashes>> /\ (OneLost' => OneLost)
             /\ (InTurn' => InTurn)
             /\ \A v \in Workers :
                  worker'[v] = worker[v]
                  \/ (worker'[v].pc \in {"idle", "transfer"} /\ DOMAIN worker'[v].seen = {})
  <2>1. h \in Int /\ h <= best /\ reindexed' = reindexed + 1 /\ reindexed' # 0
    BY <1>1, <1>5 DEF Reindex
  <2> QED  BY <1>3, <1>5, <2>1 DEF Reindex, position, OneLost, InTurn
<1>6. CASE Rerun
  <2>1. UNCHANGED <<best, pins, hop, faults, crashes, reindexed>> /\ chain' = chain
    BY <1>6 DEF Rerun, counters
  <2>2. step # 1 => worker' = worker
    BY <1>6 DEF Rerun
  <2>3. step = 1 => \A v \in Workers : worker'[v].pc \in {"idle", "transfer"}
                                       /\ DOMAIN worker'[v].seen = {}
    <3> SUFFICES ASSUME step = 1, NEW v \in Workers
                 PROVE  worker'[v].pc \in {"idle", "transfer"} /\ DOMAIN worker'[v].seen = {}
      OBVIOUS
    <3>1. worker' = [u \in Workers |-> IF u = 0 THEN Idle ELSE Taking(Again(u))]
      BY <1>6 DEF Rerun
    <3>2. CASE v = 0
      BY <3>1, <3>2, IdleTyped
    <3>3. CASE v # 0
      <4>1. Again(v) \in Int /\ Again(v) <= Tip
        BY <1>1, <3>3, Constants DEF Again
      <4> QED  BY <3>1, <3>3, <4>1, TakingTyped, IdleTyped
    <3> QED  BY <3>2, <3>3
  <2> QED  BY <1>1, <2>1, <2>2, <2>3 DEF OneLost, InTurn
<1>7. CASE Crash
  <2>1. UNCHANGED <<best, pins, hop, faults, reindexed>> /\ crashes' = crashes + 1
    BY <1>7 DEF Crash
  <2>2. \A v \in Workers : worker'[v].pc = "idle" /\ DOMAIN worker'[v].seen = {}
    BY <1>7, IdleTyped DEF Crash
  <2> QED  BY <1>1, <2>1, <2>2 DEF OneLost, InTurn
<1>8. ASSUME NEW w \in Workers, FetchFails(w)
      PROVE  /\ UNCHANGED <<best, pins, hop, crashes, reindexed>> /\ faults' = faults + 1
             /\ \A v \in Workers :
                  worker'[v] = worker[v]
                  \/ (worker'[v].pc \in {"idle", "transfer"} /\ DOMAIN worker'[v].seen = {})
  <2>1. UNCHANGED <<best, pins, hop, crashes, reindexed>> /\ faults' = faults + 1
    BY <1>8 DEF FetchFails, position
  <2>2. \A v \in Workers : worker'[v] = worker[v] \/ worker'[v] = Idle
    BY <1>8 DEF FetchFails, TInv
  <2> QED  BY <2>1, <2>2, IdleTyped
<1>9. (\E w \in Workers : FetchFails(w)) => (OneLost' => OneLost) /\ (InTurn' => InTurn)
  BY <1>1, <1>8 DEF OneLost, InTurn
<1>10. CASE UNCHANGED vars
  BY <1>1, <1>10 DEF vars, OneLost, InTurn
<1> QED  BY <1>1, <1>2, <1>4, <1>5, <1>6, <1>7, <1>8, <1>9, <1>10 DEF Other

(* A step is one of a goroutine or one of these. *)
LEMMA NextIs ==
  [Next]_vars => chain' = chain /\ (Other \/ \E w \in Workers : Run(w))
BY DEF Next, vars, Other

(* The order of two pins is that of the chain. *)
LEMMA BeforeKept == chain' = chain => \A p, q : Before(p, q)' <=> Before(p, q)
BY DEF Before, Height

(* Within a block pins are in the order of its list. *)
LEMMA BeforeIs ==
  ASSUME chain \in Chains, NEW h \in Heights, NEW p, NEW q, Height(p) = h, Height(q) = h,
         NEW i \in DOMAIN chain.blocks[h], NEW j \in DOMAIN chain.blocks[h],
         chain.blocks[h][i] = p, chain.blocks[h][j] = q
  PROVE  Before(p, q) <=> i < j
<1>1. \A k \in DOMAIN chain.blocks[h] : /\ chain.blocks[h][k] = p => k = i
                                        /\ chain.blocks[h][k] = q => k = j
  BY PlacesAssumption
<1>2. h \in Int
  BY Constants
<1> QED  BY <1>1, <1>2 DEF Before

(* Where numbers do not change and nobody is given one. *)
LEMMA SameNumbers ==
  ASSUME NumbersInv, chain' = chain, Stored' = Stored,
         \A p \in Stored : pins'[p].number = pins[p].number,
         OneLost' => OneLost, faults' = 0 /\ InTurn' => faults = 0 /\ InTurn,
         \A v \in Workers : Numbering(v)' => Numbering(v) /\ worker'[v].number = worker[v].number
  PROVE  NumbersInv'
<1>1. \A p, q : Before(p, q)' <=> Before(p, q)
  BY BeforeKept
<1>2. OneLost' =>
       /\ \A p, q \in Stored' : pins'[p].number = pins'[q].number => p = q
       /\ \A w \in Workers : Numbering(w)' => \A p \in Stored' : pins'[p].number < worker'[w].number
  BY DEF NumbersInv
<1>3. faults' = 0 /\ InTurn' =>
       /\ \A p \in Stored' : pins'[p].number < Cardinality(Stored')
       /\ \A n \in Nat : n < Cardinality(Stored') => \E p \in Stored' : pins'[p].number = n
       /\ \A p, q \in Stored' : Before(p, q)' <=> pins'[p].number < pins'[q].number
       /\ \A w \in Workers : Numbering(w)' => worker'[w].number = Cardinality(Stored')
  BY <1>1 DEF NumbersInv
<1> QED  BY <1>2, <1>3 DEF NumbersInv

(* The other steps give no numbers. *)
LEMMA OtherNumbers ==
  ASSUME TInv, NumbersInv, Other, chain' = chain
  PROVE  NumbersInv'
<1>1. /\ UNCHANGED pins /\ (OneLost' => OneLost) /\ (InTurn' => InTurn)
      /\ faults' \in Nat /\ faults <= faults'
      /\ \A v \in Workers : worker'[v] = worker[v] \/ worker'[v].pc \in {"idle", "transfer"}
  BY OtherSteps
<1>2. Stored' = Stored /\ \A h : Full(h)' <=> FullIn(h, Stored)
  BY <1>1, SameBlocks
<1>3. \A v \in Workers : Numbering(v)' => Numbering(v) /\ worker'[v].number = worker[v].number
  BY <1>1, <1>2 DEF Numbering, Full, FullIn
<1>4. faults' = 0 => faults = 0
  BY <1>1, Numbered
<1> QED  BY <1>1, <1>2, <1>3, <1>4, SameNumbers

(* The number read is above all that are given; without losses it is their count. *)
LEMMA ReadNumberNumbers ==
  ASSUME BlocksInv, NumbersInv, NEW w \in Workers, ReadNumber(w), chain' = chain
  PROVE  NumbersInv'
<1>1. /\ UNCHANGED <<pins, faults, crashes, reindexed>>
      /\ worker' = [worker EXCEPT ![w].number = NextNumber, ![w].pc = "info"]
  BY DEF ReadNumber, counters
<1>2. TInv /\ worker \in [Workers -> Local] /\ IsFiniteSet(Stored) /\ w \in Workers
  BY DEF BlocksInv, TInv, StoredInv
<1>3. worker'[w].number = NextNumber /\ \A v \in Workers : v # w => worker'[v] = worker[v]
  <2>1. DOMAIN worker[w] = {"pc", "h", "names", "seen", "number"} /\ DOMAIN worker = Workers
    BY <1>2 DEF Local
  <2> QED  BY <1>1, <2>1
<1>4. Stored' = Stored /\ (\A h : Full(h)' <=> FullIn(h, Stored)) /\ \A p : Height(p)' = Height(p)
  BY <1>1, SameBlocks
<1>5. (OneLost' <=> OneLost) /\ (InTurn' <=> InTurn)
  BY <1>1 DEF OneLost, InTurn
<1>6. /\ NextNumber \in Nat /\ \A p \in Stored : pins[p].number < NextNumber
      /\ NextNumber = 0 \/ \E p \in Stored : NextNumber = pins[p].number + 1
  BY <1>2, NextNumberIs
<1>7. ASSUME faults = 0, InTurn PROVE NextNumber = Cardinality(Stored)
  <2> DEFINE c == Cardinality(Stored)
  <2>1. c \in Nat /\ \A p \in Stored : pins[p].number \in Nat
    BY <1>2, FS_CardinalityType DEF TInv, TypeOK
  <2>2. /\ \A p \in Stored : pins[p].number < c
        /\ \A n \in Nat : n < c => \E p \in Stored : pins[p].number = n
    BY <1>7 DEF NumbersInv
  <2> HIDE DEF c
  <2>3. NextNumber <= c
    <3>1. CASE NextNumber = 0
      BY <2>1, <3>1
    <3>2. CASE \E p \in Stored : NextNumber = pins[p].number + 1
      BY <2>1, <2>2, <3>2
    <3> QED  BY <1>6, <3>1, <3>2
  <2>4. ~(NextNumber < c)
    BY <1>6, <2>1, <2>2
  <2>5. NextNumber = c
    BY <1>6, <2>1, <2>3, <2>4
  <2> QED  BY <2>5 DEF c
<1>8. \A v \in Workers : v # w => (Numbering(v)' <=> Numbering(v))
  BY <1>3, <1>4 DEF Numbering, Full, FullIn
<1>9. \A p, q : Before(p, q)' <=> Before(p, q)
  BY BeforeKept
<1>10. OneLost' =>
       /\ \A p, q \in Stored' : pins'[p].number = pins'[q].number => p = q
       /\ \A v \in Workers : Numbering(v)' => \A p \in Stored' : pins'[p].number < worker'[v].number
  <2> SUFFICES ASSUME OneLost' PROVE
        /\ \A p, q \in Stored : pins[p].number = pins[q].number => p = q
        /\ \A v \in Workers : Numbering(v)' => \A p \in Stored : pins[p].number < worker'[v].number
    BY <1>1, <1>4
  <2>1. /\ \A p, q \in Stored : pins[p].number = pins[q].number => p = q
        /\ \A v \in Workers : Numbering(v) => \A p \in Stored : pins[p].number < worker[v].number
    BY <1>5 DEF NumbersInv
  <2>2. \A v \in Workers : v # w => (Numbering(v)' =>
          \A p \in Stored : pins[p].number < worker'[v].number)
    BY <1>3, <1>8, <2>1
  <2> QED  BY <1>3, <1>6, <2>1, <2>2
<1>11. faults' = 0 /\ InTurn' =>
       /\ \A p \in Stored' : pins'[p].number < Cardinality(Stored')
       /\ \A n \in Nat : n < Cardinality(Stored') => \E p \in Stored' : pins'[p].number = n
       /\ \A p, q \in Stored' : Before(p, q)' <=> pins'[p].number < pins'[q].number
       /\ \A v \in Workers : Numbering(v)' => worker'[v].number = Cardinality(Stored')
  BY <1>1, <1>3, <1>4, <1>5, <1>7, <1>8, <1>9 DEF NumbersInv
<1> QED  BY <1>10, <1>11 DEF NumbersInv

(* A block that is not full has none of its pins stored. *)
LEMMA NoneStored ==
  ASSUME TInv, NEW h \in Heights, ~Full(h), NEW p \in Stored
  PROVE  ~InBlock(p, h) /\ Height(p) # h
<1>1. InBlock(p, h) => Height(p) = h
  BY HeightIs DEF TInv, TypeOK
<1> QED  BY <1>1, StoredHeight

(* What is stored when a block is. *)
LEMMA StoreNew ==
  ASSUME TInv, NEW w \in Workers, StorePins(w), chain' = chain, Stored' # Stored
  PROVE  /\ ~Full(worker[w].h) /\ Stored \cap Range(List(w)) = {}
         /\ \A p \in Range(List(w)) :
              Height(p) = worker[w].h
              /\ \E i \in DOMAIN List(w) :
                   List(w)[i] = p /\ pins'[p].number = worker[w].number + i - 1
         /\ \A i, j \in DOMAIN List(w) : List(w)[i] = List(w)[j] => i = j
         /\ IsFiniteSet(Range(List(w))) /\ Cardinality(Range(List(w))) = Len(List(w))
<1>1. /\ Busy(w) /\ Stored' = Stored \cup Range(List(w))
      /\ \A p \in Stored' \ Stored :
           \E i \in DOMAIN List(w) :
             List(w)[i] = p /\ pins'[p].number = worker[w].number + i - 1
  BY StorePinsIs
<1>2. List(w) = chain.blocks[worker[w].h] /\ worker[w].h \in Heights /\ List(w) \in Seq(Pins)
  BY <1>1, BusyIs
<1>3. ~Full(worker[w].h)
  BY <1>1, <1>2 DEF Full, FullIn, Range
<1>4. \A p \in Range(List(w)) : InBlock(p, worker[w].h)
  BY <1>2 DEF Range, InBlock
<1>5. Stored \cap Range(List(w)) = {}
  BY <1>2, <1>3, <1>4, NoneStored
<1>6. \A p \in Range(List(w)) : Height(p) = worker[w].h
  BY <1>2, <1>4, HeightIs DEF TInv, TypeOK
<1>7. \A i, j \in DOMAIN List(w) : List(w)[i] = List(w)[j] => i = j
  <2>1. chain \in Chains
    BY DEF TInv, TypeOK
  <2> QED  BY <1>2, <2>1, PlacesAssumption
<1>8. IsFiniteSet(Range(List(w))) /\ Cardinality(Range(List(w))) = Len(List(w))
  <2> DEFINE list == List(w)
             n == Len(list)
             f == [i \in 1..n |-> list[i]]
  <2>1. n \in Nat /\ DOMAIN list = 1..n
    BY <1>2
  <2>2. IsFiniteSet(1..n) /\ Cardinality(1..n) = n
    <3>1. IsFiniteSet(1..n) /\ Cardinality(1..n) = IF 1 > n THEN 0 ELSE n - 1 + 1
      BY <2>1, FS_Interval
    <3> HIDE DEF n
    <3> QED  BY <2>1, <3>1
  <2>3. f \in Bijection(1..n, Range(list))
    <3>1. f \in [1..n -> Range(list)] /\ \A y \in Range(list) : \E x \in 1..n : f[x] = y
      BY <2>1 DEF Range
    <3>2. \A x, y \in 1..n : f[x] = f[y] => x = y
      BY <1>7, <2>1
    <3> HIDE DEF f, n
    <3> QED  BY <3>1, <3>2 DEF Bijection, Injection, Surjection, IsInjective
  <2> HIDE DEF f
  <2>4. Cardinality(Range(list)) = n /\ IsFiniteSet(Range(list))
    BY <2>2, <2>3, FS_Bijection DEF ExistsBijection
  <2> QED  BY <2>4
<1>9. \A p \in Range(List(w)) :
        \E i \in DOMAIN List(w) : List(w)[i] = p /\ pins'[p].number = worker[w].number + i - 1
  BY <1>1, <1>5
<1> QED  BY <1>3, <1>5, <1>6, <1>7, <1>8, <1>9

(* Two pins of one block with one number are at one place. *)
LEMMA SameSum ==
  ASSUME NEW k \in Nat, NEW i \in Int, NEW j \in Int, NEW x, NEW y,
         x = k + i - 1, y = k + j - 1, x = y
  PROVE  i = j
OBVIOUS

(* A block stored gets the numbers from the one read, the next ones unless a block was lost. *)
LEMMA StoreNumbers ==
  ASSUME BlocksInv, NumbersInv, NEW w \in Workers, StorePins(w), chain' = chain, Stored' # Stored
  PROVE  NumbersInv'
<1> DEFINE list == List(w)
           h == worker[w].h
           k == worker[w].number
           c == Cardinality(Stored)
           n == Len(list)
<1>1. /\ TInv /\ Busy(w) /\ Stored' = Stored \cup Range(list)
      /\ \A p \in Stored : pins'[p] = pins[p]
  BY StorePinsIs DEF BlocksInv
<1>2. /\ ~Full(h) /\ Stored \cap Range(list) = {}
      /\ \A p \in Range(list) :
           Height(p) = h /\ \E i \in DOMAIN list : list[i] = p /\ pins'[p].number = k + i - 1
      /\ \A i, j \in DOMAIN list : list[i] = list[j] => i = j
      /\ IsFiniteSet(Range(list)) /\ Cardinality(Range(list)) = n
  BY <1>1, StoreNew
<1>3. /\ h \in Heights /\ h \in Int /\ k \in Nat /\ n \in Nat /\ DOMAIN list = 1..n
      /\ list = chain.blocks[h] /\ chain \in Chains
  BY <1>1, BusyIs, Constants DEF Local, TInv, TypeOK
<1>4. c \in Nat /\ Cardinality(Stored') = c + n
  <2>1. IsFiniteSet(Stored)
    BY <1>1 DEF TInv, StoredInv
  <2>2. c \in Nat /\ Cardinality(Stored') = c + n - Cardinality(Stored \cap Range(list))
    BY <1>1, <1>2, <2>1, FS_Union, FS_CardinalityType
  <2>3. Cardinality(Stored \cap Range(list)) = 0
    BY <1>2, FS_EmptySet
  <2> QED  BY <1>3, <2>2, <2>3
<1>5. Numbering(w)
  BY <1>2 DEF StorePins, At, Numbering
<1>6. /\ worker'[w].pc = "leave" /\ \A v \in Workers : v # w => worker'[v] = worker[v]
      /\ UNCHANGED <<faults, crashes, reindexed>>
  <2>1. worker[w] \in Local /\ worker' = [worker EXCEPT ![w].pc = "leave"]
        /\ worker \in [Workers -> Local]
    BY <1>1 DEF StorePins, TInv
  <2> QED  BY <2>1 DEF Local, StorePins, counters
<1>7. (OneLost' <=> OneLost) /\ (InTurn' <=> InTurn) /\ (faults' = 0 /\ InTurn' => OneLost)
  BY <1>6 DEF OneLost, InTurn
<1>8. OneLost => \A v \in Workers : ~Numbering(v)'
  <2> SUFFICES ASSUME OneLost, NEW v \in Workers, Numbering(v)' PROVE FALSE
    OBVIOUS
  <2>1. v # w
    BY <1>6 DEF Numbering
  <2>2. worker'[v] = worker[v] /\ Busy(v)
    BY <1>6, <2>1 DEF Numbering, Busy, At
  <2>3. Stored \subseteq Stored'
    BY <1>1
  <2>4. ~Full(worker[v].h)
    BY <2>2, <2>3 DEF Numbering, Full, FullIn
  <2>5. v = w
    BY <1>1, <1>2, <2>2, <2>4 DEF BlocksInv, LoopInv
  <2> QED  BY <2>1, <2>5
<1>9. \A p, q : Before(p, q)' <=> Before(p, q)
  BY BeforeKept
<1>10. \A p \in Stored : pins[p].number \in Nat
  BY <1>1 DEF TInv, TypeOK
<1> HIDE DEF list, h, k, c, n
<1>16. \A p \in Range(list) : \E i \in 1..n : list[i] = p /\ pins'[p].number = k + i - 1
  BY <1>2, <1>3
<1>11. \A p \in Range(list) : pins'[p].number \in Nat /\ k <= pins'[p].number
                             /\ pins'[p].number < k + n
  <2> SUFFICES ASSUME NEW p \in Range(list)
               PROVE  pins'[p].number \in Nat /\ k <= pins'[p].number /\ pins'[p].number < k + n
    OBVIOUS
  <2>1. PICK i \in 1..n : pins'[p].number = k + i - 1
    BY <1>2, <1>3
  <2>2. k + i - 1 \in Nat /\ k <= k + i - 1 /\ k + i - 1 < k + n
    BY <1>3
  <2> QED  BY <2>1, <2>2
<1>12. ASSUME OneLost
       PROVE  \A p, q \in Stored' : pins'[p].number = pins'[q].number => p = q
  <2>1. /\ \A p, q \in Stored : pins[p].number = pins[q].number => p = q
        /\ \A p \in Stored : pins[p].number < k
    BY <1>5, <1>12 DEF NumbersInv, k
  <2> SUFFICES ASSUME NEW p \in Stored', NEW q \in Stored', pins'[p].number = pins'[q].number
               PROVE  p = q
    OBVIOUS
  <2>2. CASE p \in Stored /\ q \in Stored
    BY <1>1, <2>1, <2>2
  <2>3. CASE p \in Stored /\ q \in Range(list)
    BY <1>1, <1>3, <1>10, <1>11, <2>1, <2>3
  <2>4. CASE p \in Range(list) /\ q \in Stored
    BY <1>1, <1>3, <1>10, <1>11, <2>1, <2>4
  <2>5. CASE p \in Range(list) /\ q \in Range(list)
    <3>1. PICK i \in 1..n : list[i] = p /\ pins'[p].number = k + i - 1
      BY <1>16, <2>5
    <3>2. PICK j \in 1..n : list[j] = q /\ pins'[q].number = k + j - 1
      BY <1>16, <2>5
    <3>3. pins'[p].number = pins'[q].number
      OBVIOUS
    <3>4. i = j
      <4>1. i \in Int /\ j \in Int /\ k \in Nat
        BY <1>3
      <4>2. pins'[p].number = k + i - 1 /\ pins'[q].number = k + j - 1
        BY <3>1, <3>2
      <4> QED  BY <3>3, <4>1, <4>2, SameSum
    <3> QED  BY <3>1, <3>2, <3>4
  <2> QED  BY <1>1, <2>2, <2>3, <2>4, <2>5
<1>13. ASSUME faults = 0, InTurn
       PROVE  /\ \A p \in Stored' : pins'[p].number < c + n
              /\ \A m \in Nat : m < c + n => \E p \in Stored' : pins'[p].number = m
              /\ \A p, q \in Stored' : Before(p, q) <=> pins'[p].number < pins'[q].number
  <2>1. /\ \A p \in Stored : pins[p].number < c
        /\ \A m \in Nat : m < c => \E p \in Stored : pins[p].number = m
        /\ \A p, q \in Stored : Before(p, q) <=> pins[p].number < pins[q].number
        /\ k = c
    BY <1>5, <1>13 DEF NumbersInv, k, c
  <2>2. \A p \in Stored' : pins'[p].number < c + n
    BY <1>1, <1>3, <1>4, <1>10, <1>11, <2>1
  <2>3. ASSUME NEW m \in Nat, m < c + n PROVE \E p \in Stored' : pins'[p].number = m
    <3>1. CASE m < c
      BY <1>1, <2>1, <3>1
    <3>2. CASE c <= m
      <4>1. m - c + 1 \in 1..n
        BY <1>3, <1>4, <2>3, <3>2
      <4> DEFINE p == list[m - c + 1]
      <4>2. p \in Range(list)
        BY <1>3, <4>1 DEF Range
      <4>3. PICK i \in 1..n : list[i] = p /\ pins'[p].number = k + i - 1
        BY <1>16, <4>2
      <4>4. i = m - c + 1
        BY <1>2, <1>3, <4>1, <4>3
      <4>5. pins'[p].number = m
        BY <1>3, <1>4, <2>1, <4>3, <4>4
      <4> QED  BY <1>1, <4>2, <4>5
    <3> QED  BY <1>4, <3>1, <3>2
  <2>4. \A p \in Stored : Height(p) < h /\ Height(p) \in Int
    <3> SUFFICES ASSUME NEW p \in Stored PROVE Height(p) < h /\ Height(p) \in Int
      OBVIOUS
    <3>1. Few(Height(p)) /\ Height(p) \in Int
      BY <1>1, <1>13, StoredHeight, Constants DEF BlocksInv, OrderInv
    <3>2. ~(h <= Height(p))
      BY <1>2, <1>3, <1>13, <3>1 DEF Few
    <3> QED  BY <1>3, <3>1, <3>2
  <2>5. ASSUME NEW p \in Stored', NEW q \in Stored'
        PROVE  Before(p, q) <=> pins'[p].number < pins'[q].number
    <3>1. CASE p \in Stored /\ q \in Stored
      BY <1>1, <2>1, <3>1
    <3>2. CASE p \in Stored /\ q \in Range(list)
      <4>1. Before(p, q)
        BY <1>2, <2>4, <3>2 DEF Before
      <4>2. pins'[p].number < pins'[q].number
        BY <1>1, <1>3, <1>4, <1>10, <1>11, <2>1, <3>2
      <4> QED  BY <4>1, <4>2
    <3>3. CASE p \in Range(list) /\ q \in Stored
      <4>1. Height(p) = h /\ Height(q) < h /\ Height(q) \in Int
        BY <1>2, <2>4, <3>3
      <4>2. ~Before(p, q)
        BY <1>3, <4>1 DEF Before
      <4>3. ~(pins'[p].number < pins'[q].number)
        BY <1>1, <1>3, <1>4, <1>10, <1>11, <2>1, <3>3
      <4> QED  BY <4>2, <4>3
    <3>4. CASE p \in Range(list) /\ q \in Range(list)
      <4>1. PICK i \in 1..n : list[i] = p /\ pins'[p].number = k + i - 1
        BY <1>16, <3>4
      <4>2. PICK j \in 1..n : list[j] = q /\ pins'[q].number = k + j - 1
        BY <1>16, <3>4
      <4>3. Before(p, q) <=> i < j
        <5>1. Height(p) = h /\ Height(q) = h
          BY <1>2, <3>4
        <5> QED  BY <1>3, <4>1, <4>2, <5>1, BeforeIs
      <4>4. k + i - 1 < k + j - 1 <=> i < j
        BY <1>3
      <4> QED  BY <4>1, <4>2, <4>3, <4>4
    <3> QED  BY <1>1, <3>1, <3>2, <3>3, <3>4
  <2> QED  BY <2>2, <2>3, <2>5
<1>14. OneLost' =>
       /\ \A p, q \in Stored' : pins'[p].number = pins'[q].number => p = q
       /\ \A v \in Workers : Numbering(v)' => \A p \in Stored' : pins'[p].number < worker'[v].number
  BY <1>7, <1>8, <1>12
<1>15. faults' = 0 /\ InTurn' =>
       /\ \A p \in Stored' : pins'[p].number < Cardinality(Stored')
       /\ \A m \in Nat : m < Cardinality(Stored') => \E p \in Stored' : pins'[p].number = m
       /\ \A p, q \in Stored' : Before(p, q)' <=> pins'[p].number < pins'[q].number
       /\ \A v \in Workers : Numbering(v)' => worker'[v].number = Cardinality(Stored')
  BY <1>4, <1>6, <1>7, <1>8, <1>9, <1>13
<1> QED  BY <1>14, <1>15 DEF NumbersInv

(* A goroutine is given its number in ReadNumber only. *)
LEMMA NumberKept ==
  ASSUME TInv, NEW w \in Workers, Run(w), ~ReadNumber(w), chain' = chain,
         NEW v \in Workers, Numbering(v)'
  PROVE  Numbering(v) /\ worker'[v].number = worker[v].number
<1>1. /\ TInv' /\ Busy(w) /\ (\A u \in Workers : u # w => worker'[u] = worker[u])
      /\ Busy(w)' => worker'[w].h = worker[w].h
      /\ Stored \subseteq Stored'
  BY RunShape
<1>2. CASE v # w
  BY <1>1, <1>2 DEF Numbering, Full, FullIn
<1>3. CASE v = w
  <2>1. DOMAIN worker[w] = {"pc", "h", "names", "seen", "number"} /\ DOMAIN worker = Workers
    BY <1>1, BusyIs DEF TInv
  <2>2. worker'[w].pc \in {"info", "store"} /\ worker'[w].h = worker[w].h
    BY <1>1, <1>3 DEF Numbering, Busy, At
  <2>3. ~Full(worker[w].h)
    BY <1>1, <1>3, <2>2 DEF Numbering, Full, FullIn
  <2>4. CASE WriteNames(w)
    <3>1. worker'[w].number = worker[w].number /\ worker[w].pc = "info"
      BY <2>1, <2>4 DEF WriteNames, At
    <3> QED  BY <1>3, <2>3, <3>1 DEF Numbering
  <2>5. CASE CheckTransfer(w)
    <3>1. worker'[w].pc \in {"idle", "names"}
      BY <2>1, <2>5, IdleTyped DEF CheckTransfer
    <3> QED  BY <2>2, <3>1
  <2>6. CASE ReadNames(w)
    BY <2>1, <2>2, <2>6 DEF ReadNames
  <2>7. CASE ReadOriginals(w)
    BY <2>1, <2>2, <2>7 DEF ReadOriginals
  <2>8. CASE StorePins(w) \/ TransferNew(w) \/ UpdatePins(w) \/ WriteFollows(w)
    BY <2>1, <2>2, <2>8 DEF StorePins, TransferNew, UpdatePins, WriteFollows
  <2>9. CASE WriteUnfollows(w)
    BY <2>1, <2>2, <2>9, IdleTyped DEF WriteUnfollows
  <2> QED  BY <2>4, <2>5, <2>6, <2>7, <2>8, <2>9 DEF Run
<1> QED  BY <1>2, <1>3

(* The numbers through every step of a goroutine. *)
LEMMA RunNumbers ==
  ASSUME BlocksInv, NumbersInv, NEW w \in Workers, Run(w), chain' = chain
  PROVE  NumbersInv'
<1>1. CASE ReadNumber(w)
  BY <1>1, ReadNumberNumbers
<1>2. CASE StorePins(w) /\ Stored' # Stored
  BY <1>2, StoreNumbers
<1>3. CASE ~ReadNumber(w) /\ Stored' = Stored
  <2>1. TInv /\ UNCHANGED <<faults, crashes, reindexed>>
    BY RunShape DEF BlocksInv
  <2>2. \A p \in Stored : pins'[p].number = pins[p].number
    <3>1. CASE UpdatePins(w)
      BY <2>1, <3>1, UpdatePinsIs
    <3>2. CASE StorePins(w)
      BY <2>1, <3>2, StorePinsIs
    <3>3. CASE pins' = pins
      BY <3>3
    <3> QED  BY <3>1, <3>2, <3>3 DEF Run, CheckTransfer, ReadNames, ReadOriginals, ReadNumber,
         WriteNames, TransferNew, WriteFollows, WriteUnfollows
  <2>3. \A v \in Workers : Numbering(v)' => Numbering(v) /\ worker'[v].number = worker[v].number
    BY <1>3, <2>1, NumberKept
  <2>4. (OneLost' <=> OneLost) /\ (InTurn' <=> InTurn)
    BY <2>1 DEF OneLost, InTurn
  <2> QED  BY <1>3, <2>1, <2>2, <2>3, <2>4, SameNumbers
<1> QED  BY <1>1, <1>2, <1>3, RunShape DEF BlocksInv

(* At the start no number is given. *)
LEMMA InitNumbers == Init => NumbersInv
<1> SUFFICES ASSUME Init PROVE NumbersInv
  OBVIOUS
<1>1. Stored = {} /\ \A w \in Workers : ~Numbering(w)
  BY IdleTyped DEF Init, Stored, Numbering
<1>2. Cardinality(Stored) = 0
  BY <1>1, FS_EmptySet
<1>3. \A n \in Nat : ~(n < 0)
  OBVIOUS
<1> QED  BY <1>1, <1>2, <1>3 DEF NumbersInv

(* The numbers below that of a pin are those of the pins before it. *)
LEMMA NumbersCount ==
  ASSUME BlocksInv, NumbersInv, faults = 0, InTurn, NEW p \in Stored
  PROVE  pins[p].number = Cardinality({q \in Stored : Before(q, p)})
<1> DEFINE n == pins[p].number
           S == {q \in Stored : Before(q, p)}
           f == [q \in S |-> pins[q].number + 1]
<1>1. n \in Nat /\ \A q \in Stored : pins[q].number \in Nat
  BY DEF BlocksInv, TInv, TypeOK
<1>2. OneLost
  BY DEF OneLost
<1>3. /\ \A q, r \in Stored : pins[q].number = pins[r].number => q = r
      /\ \A q \in Stored : Before(q, p) <=> pins[q].number < n
      /\ n < Cardinality(Stored) /\ \A m \in Nat : m < Cardinality(Stored) =>
           \E q \in Stored : pins[q].number = m
  BY <1>2 DEF NumbersInv
<1>4. IsFiniteSet(Stored) /\ Cardinality(Stored) \in Nat
  BY FS_CardinalityType DEF BlocksInv, TInv, StoredInv
<1>5. \A q \in S : pins[q].number \in Nat /\ pins[q].number < n
  BY <1>1, <1>3
<1>6. f \in [S -> 1..n]
  <2>1. \A q \in S : pins[q].number + 1 \in 1..n
    BY <1>1, <1>5
  <2> QED  BY <2>1
<1>7. \A q, r \in S : f[q] = f[r] => q = r
  <2> SUFFICES ASSUME NEW q \in S, NEW r \in S, f[q] = f[r] PROVE q = r
    OBVIOUS
  <2>1. pins[q].number = pins[r].number
    BY <1>5
  <2> QED  BY <1>3, <2>1
<1>8. \A m \in 1..n : \E q \in S : f[q] = m
  <2> SUFFICES ASSUME NEW m \in 1..n PROVE \E q \in S : f[q] = m
    OBVIOUS
  <2>1. m - 1 \in Nat /\ m - 1 < n /\ m - 1 < Cardinality(Stored)
    BY <1>1, <1>3, <1>4
  <2>2. PICK q \in Stored : pins[q].number = m - 1
    BY <1>3, <2>1
  <2>3. q \in S
    BY <1>3, <2>1, <2>2
  <2>4. f[q] = m
    BY <2>2, <2>3
  <2> QED  BY <2>3, <2>4
<1>9. IsFiniteSet(1..n) /\ Cardinality(1..n) = n
  <2>1. IsFiniteSet(1..n) /\ Cardinality(1..n) = IF 1 > n THEN 0 ELSE n - 1 + 1
    BY <1>1, FS_Interval
  <2> HIDE DEF n
  <2> QED  BY <1>1, <2>1
<1>10. IsFiniteSet(S)
  BY <1>4, FS_Subset
<1>11. Cardinality(1..n) = Cardinality(S)
  <2> HIDE DEF f, S, n
  <2>1. f \in Bijection(S, 1..n)
    BY <1>6, <1>7, <1>8 DEF Bijection, Injection, Surjection, IsInjective
  <2> QED  BY <1>10, <2>1, FS_Bijection DEF ExistsBijection
<1> QED  BY <1>9, <1>11

(* The numbers, at all times. *)
LEMMA NumbersKept == Spec => [](BlocksInv /\ NumbersInv)
<1>1. Init => BlocksInv /\ NumbersInv
  BY InitTInv, InitBlocks, InitNumbers DEF BlocksInv
<1>2. BlocksInv /\ NumbersInv /\ [Next]_vars => BlocksInv' /\ NumbersInv'
  <2> SUFFICES ASSUME BlocksInv, NumbersInv, [Next]_vars PROVE NumbersInv'
    BY StepBlocks
  <2>1. chain' = chain /\ (Other \/ \E w \in Workers : Run(w))
    BY NextIs
  <2>2. TInv
    BY DEF BlocksInv
  <2> QED  BY <2>1, <2>2, OtherNumbers, RunNumbers
<1> QED  BY <1>1, <1>2, PTL DEF Spec

(***************************************************************************)
(* While the node delivers every block and none is indexed ahead of its    *)
(* turn, the number of a pin is how many stored pins come before it on the *)
(* chain, whatever is run again and after crashes; with one lost block     *)
(* numbers are still given once (createPinNumber, man/man.go:454-469).     *)
(***************************************************************************)
THEOREM NumbersHold == Spec => []Numbers
<1>1. BlocksInv /\ NumbersInv => Numbers
  <2>1. ASSUME BlocksInv, NumbersInv, faults <= 1 /\ (InTurn \/ crashes = 0)
        PROVE  \A p, q \in Stored : pins[p].number = pins[q].number => p = q
    BY <2>1 DEF NumbersInv, OneLost
  <2>2. ASSUME BlocksInv, NumbersInv, faults = 0 /\ InTurn
        PROVE  \A p \in Stored : pins[p].number = Cardinality({q \in Stored : Before(q, p)})
    BY <2>2, NumbersCount
  <2> QED  BY <2>1, <2>2 DEF Numbers
<1> QED  BY <1>1, NumbersKept, PTL

----------------------------------------------------------------------------
(* The transfers. *)

(* How the stages follow each other. *)
LEMMA RunStages ==
  ASSUME TInv, NEW w \in Workers, Run(w), chain' = chain
  PROVE  /\ worker'[w].seen = worker[w].seen \/ DOMAIN worker'[w].seen = {} \/ ReadOriginals(w)
         /\ worker'[w].pc # "transfer"
         /\ At(w, "transfer") => CheckTransfer(w)
         /\ worker'[w].pc = "update" => TransferNew(w)
         /\ worker'[w].pc \in {"follow", "unfollow"} => worker[w].pc \in {"update", "follow"}
         /\ ~Busy(w)' => CheckTransfer(w) \/ At(w, "unfollow")
         /\ \A p \in Pins : hop'[p] \in Nat /\ (hop[p] # 0 => hop'[p] # 0)
<1>1. /\ Busy(w) /\ DOMAIN worker[w] = {"pc", "h", "names", "seen", "number"}
      /\ DOMAIN worker = Workers
  BY RunShape, BusyIs DEF TInv
<1>2. \A p \in Pins : hop[p] \in Nat
  BY DEF TInv
<1>3. \A p \in Pins : hop'[p] \in Nat /\ (hop[p] # 0 => hop'[p] # 0)
  <2>1. ASSUME NEW h, HandleTransfer(h), NEW p \in Pins
        PROVE  hop'[p] \in Nat /\ (hop[p] # 0 => hop'[p] # 0)
    <3>1. hop'[p] = hop[p] \/ hop'[p] = hop[p] + 1
      BY <2>1, HopsTyped
    <3> QED  BY <1>2, <3>1
  <2> QED  BY <1>2, <2>1 DEF Run, CheckTransfer, ReadNames, ReadOriginals, ReadNumber, WriteNames,
       StorePins, TransferNew, UpdatePins, WriteFollows, WriteUnfollows
<1>4. CASE CheckTransfer(w)
  <2>1. worker'[w] = Idle \/ (worker'[w].pc = "names" /\ worker'[w].seen = worker[w].seen)
    BY <1>1, <1>4 DEF CheckTransfer
  <2> QED  BY <1>3, <1>4, <2>1, IdleTyped
<1>5. CASE ReadNames(w)
  <2>1. worker'[w].pc \in {"originals", "number"} /\ worker'[w].seen = worker[w].seen
    BY <1>1, <1>5 DEF ReadNames
  <2> QED  BY <1>3, <1>5, <2>1 DEF ReadNames, At, Busy
<1>6. CASE ReadOriginals(w)
  <2>1. worker'[w].pc = "number"
    BY <1>1, <1>6 DEF ReadOriginals
  <2> QED  BY <1>3, <1>6, <2>1 DEF ReadOriginals, At, Busy
<1>7. CASE ReadNumber(w)
  <2>1. worker'[w].pc = "info" /\ worker'[w].seen = worker[w].seen
    BY <1>1, <1>7 DEF ReadNumber
  <2> QED  BY <1>3, <1>7, <2>1 DEF ReadNumber, At, Busy
<1>8. CASE WriteNames(w)
  <2>1. worker'[w].pc = "store" /\ worker'[w].seen = worker[w].seen
    BY <1>1, <1>8 DEF WriteNames
  <2> QED  BY <1>3, <1>8, <2>1 DEF WriteNames, At, Busy
<1>9. CASE StorePins(w)
  <2>1. worker'[w].pc = "leave" /\ worker'[w].seen = worker[w].seen
    BY <1>1, <1>9 DEF StorePins
  <2> QED  BY <1>3, <1>9, <2>1 DEF StorePins, At, Busy
<1>10. CASE TransferNew(w)
  <2>1. worker'[w].pc = "update" /\ worker'[w].seen = worker[w].seen
    BY <1>1, <1>10 DEF TransferNew
  <2> QED  BY <1>3, <1>10, <2>1 DEF TransferNew, At, Busy
<1>11. CASE UpdatePins(w)
  <2>1. worker'[w].pc = "follow" /\ worker'[w].seen = worker[w].seen
    BY <1>1, <1>11 DEF UpdatePins
  <2> QED  BY <1>3, <1>11, <2>1 DEF UpdatePins, At, Busy
<1>12. CASE WriteFollows(w)
  <2>1. worker'[w].pc = "unfollow" /\ worker'[w].seen = worker[w].seen
    BY <1>1, <1>12 DEF WriteFollows
  <2> QED  BY <1>3, <1>12, <2>1 DEF WriteFollows, At, Busy
<1>13. CASE WriteUnfollows(w)
  <2>1. worker'[w] = Idle
    BY <1>1, <1>13 DEF WriteUnfollows
  <2> QED  BY <1>3, <1>13, <2>1, IdleTyped DEF WriteUnfollows, At, Busy
<1> QED  BY <1>4, <1>5, <1>6, <1>7, <1>8, <1>9, <1>10, <1>11, <1>12, <1>13 DEF Run

(* When a pin leaves its first owner. *)
LEMMA LeavesIs ==
  ASSUME chain \in Chains, NEW p \in Pins
  PROVE  /\ \A m, n \in Int : Leaves(p, m) /\ m <= n => Leaves(p, n)
         /\ \A m \in Int : Leaves(p, m) => m >= 1
         /\ \A h \in Heights, m \in Int : InBlock(p, h) /\ Leaves(p, m) => h <= m
         /\ \A h \in Int : MovedBy(p, h) => Leaves(p, h)
<1> DEFINE r == chain.route[p]
<1>1. /\ r \in Seq([h: Heights, to: Addresses])
      /\ \A i \in DOMAIN r : r[i].h \in Heights /\ r[1].h <= r[i].h
      /\ \A i \in DOMAIN r, h \in Heights : InBlock(p, h) => h <= r[i].h
  <2>1. \A h \in Heights : p \in Range(chain.blocks[h]) <=> InBlock(p, h)
    BY DEF Range, InBlock
  <2> QED  BY <2>1, TypedChain, PlacesAssumption
<1>2. r # <<>> => 1 \in DOMAIN r
  BY <1>1
<1>3. \A h \in Heights : h \in Int /\ h >= 1
  BY Constants
<1>4. \A i \in DOMAIN r : r # <<>> /\ r[i].h \in Int /\ r[1].h \in Int /\ r[1].h >= 1
  <2>1. \A i \in DOMAIN r : r # <<>>
    OBVIOUS
  <2> QED  BY <1>1, <1>2, <1>3, <2>1
<1>5. \A n : Leaves(p, n) <=> r # <<>> /\ r[1].h <= n
  BY DEF Leaves
<1>6. \A h : MovedBy(p, h) <=> \E i \in DOMAIN r : r[i].h <= h
  BY DEF MovedBy
<1> HIDE DEF r
<1>7. \A m, n \in Int : Leaves(p, m) /\ m <= n => Leaves(p, n)
  BY <1>2, <1>4, <1>5
<1>8. \A m \in Int : Leaves(p, m) => m >= 1
  BY <1>2, <1>4, <1>5
<1>9. \A h \in Heights, m \in Int : InBlock(p, h) /\ Leaves(p, m) => h <= m
  BY <1>1, <1>2, <1>3, <1>4, <1>5
<1>10. \A h \in Int : MovedBy(p, h) => Leaves(p, h)
  <2> SUFFICES ASSUME NEW h \in Int, NEW i \in DOMAIN r, r[i].h <= h PROVE Leaves(p, h)
    BY <1>6
  <2>1. r # <<>> /\ r[i].h \in Int /\ r[1].h \in Int /\ r[1].h <= r[i].h
    BY <1>1, <1>4
  <2> QED  BY <1>5, <2>1
<1> QED  BY <1>7, <1>8, <1>9, <1>10

(* Transfers known up to a block are known up to an earlier one. *)
LEMMA MovedBelow ==
  ASSUME TInv, NEW n \in Int, NEW m \in Int, m <= n, Moved(n)
  PROVE  Moved(m)
<1>1. chain \in Chains /\ Stored \subseteq Pins
  BY DEF TInv, TypeOK
<1> QED  BY <1>1, LeavesIs DEF Moved

(* No pin leaves before the first block. *)
LEMMA NothingMoves == ASSUME TInv, NEW n \in Int, n < 1 PROVE Moved(n)
<1>1. chain \in Chains /\ Stored \subseteq Pins
  BY DEF TInv, TypeOK
<1> QED  BY <1>1, LeavesIs DEF Moved

(* A block's transfers bring the pins up to date with it. *)
LEMMA TransferMoves ==
  ASSUME TInv, NEW h \in Heights, HandleTransfer(h), Moved(h - 1), NEW p \in Stored, Leaves(p, h)
  PROVE  hop'[p] # 0
<1>1. chain \in Chains /\ p \in Pins /\ hop[p] \in Nat /\ h \in Int
  BY Constants DEF TInv, TypeOK
<1> DEFINE r == chain.route[p]
<1>2. r \in Seq([h: Heights, to: Addresses]) /\ r # <<>> /\ r[1].h <= h
  BY <1>1, TypedChain DEF Leaves
<1>3. 1 \in DOMAIN r /\ r[1].h \in Heights /\ 0 < Len(r)
  BY <1>1, <1>2, TypedChain
<1>4. r[1].h \in Int
  <2>1. \A g \in Heights : g \in Int
    BY Constants
  <2> HIDE DEF r
  <2> QED  BY <1>3, <2>1
<1>5. CASE hop[p] # 0
  BY <1>1, <1>5, HopsTyped
<1>6. CASE hop[p] = 0
  <2>1. ~(r[1].h <= h - 1)
    BY <1>2, <1>6 DEF Moved, Leaves
  <2>2. r[1].h = h
    BY <1>1, <1>2, <1>4, <2>1
  <2>3. hop[p] < Len(r) /\ r[hop[p] + 1].h = h
    BY <1>3, <1>6, <2>2
  <2>4. hop'[p] = hop[p] + 1
    BY <1>1, <2>3 DEF HandleTransfer
  <2> QED  BY <1>6, <2>4
<1> QED  BY <1>5, <1>6

(* A goroutine that starts after the transfers of the earlier blocks. *)
LEMMA StartMoves ==
  ASSUME UNCHANGED <<chain, pins, hop>>, NEW w \in Workers, NEW h \in Int,
         worker'[w].h = h, worker'[w].pc = "transfer", DOMAIN worker'[w].seen = {}, Moved(h - 1)
  PROVE  MovedFor(w)'
<1>1. Stored' = Stored
  BY SameBlocks
<1>2. Moved(worker[w].h - 1)'
  BY <1>1 DEF Moved, Leaves
<1> QED  BY <1>2 DEF MovedFor, At

(* The other steps start goroutines only when the transfers of earlier blocks are known. *)
LEMMA OtherTransfers ==
  ASSUME BlocksInv, TransfersInv, Other, chain' = chain
  PROVE  TransfersInv'
<1>1. /\ UNCHANGED <<chain, pins, hop>> /\ TInv
      /\ (InTurn' => InTurn) /\ faults' \in Nat /\ faults <= faults' /\ crashes' \in Nat
      /\ crashes <= crashes'
  BY OtherSteps DEF BlocksInv
<1>2. Stored' = Stored /\ (\A p : Height(p)' = Height(p))
  BY <1>1, SameBlocks
<1>3. /\ best \in Nat /\ faults \in Nat /\ crashes \in Nat /\ reindexed \in Nat /\ maxHeight \in Int
      /\ maxHeight <= best /\ best <= Tip /\ Tip \in Nat
      /\ \A h \in Heights : h \in Int /\ h >= 1
  BY <1>1, Numbered
<1>4. Undisturbed' => Undisturbed
  BY <1>1, <1>3 DEF Undisturbed
<1> SUFFICES ASSUME Undisturbed' PROVE
      /\ \A w \in Workers : Busy(w)' => MovedFor(w)'
      /\ Moved(maxHeight)' \/ Current(maxHeight)'
      /\ chain'.steady => Moved(best - 1)'
  BY DEF TransfersInv
<1>5. /\ \A w \in Workers : Busy(w) => MovedFor(w)
      /\ Moved(maxHeight) \/ Current(maxHeight)
      /\ chain.steady => Moved(best - 1)
  BY <1>4 DEF TransfersInv
<1>6. Quiet => Moved(maxHeight)
  BY <1>5, Constants DEF Quiet, Current, Busy
<1>7. CASE Round
  <2>1. UNCHANGED <<worker, maxHeight>> /\ Quiet /\ best' \in best..Tip /\ maxHeight < best'
        /\ (chain.steady => best' = best \/ (maxHeight = best /\ best' = best + 1))
    BY <1>7 DEF Round
  <2>2. \A w \in Workers : ~Busy(w)'
    BY <2>1 DEF Quiet, Busy, At
  <2>3. Moved(maxHeight)'
    BY <1>1, <1>2, <1>6, <2>1 DEF Moved, Leaves
  <2>4. chain.steady => Moved(best' - 1)
    <3>1. chain.steady => best' = best \/ best' - 1 = maxHeight
      <4>1. (best + 1) - 1 = best
        BY <1>3
      <4> QED  BY <2>1, <4>1
    <3> QED  BY <1>5, <1>6, <2>1, <3>1
  <2>5. chain'.steady => Moved(best - 1)'
    BY <1>1, <1>2, <2>4 DEF Moved, Leaves
  <2> QED  BY <2>2, <2>3, <2>5
<1>8. CASE TakeNext
  <2>1. /\ Quiet /\ maxHeight' = maxHeight + 1 /\ maxHeight < best /\ best' = best
        /\ worker' = [worker EXCEPT ![0] = Taking(maxHeight + 1)]
    BY <1>8 DEF TakeNext
  <2>2. maxHeight + 1 \in Int /\ maxHeight + 1 <= Tip /\ (maxHeight + 1) - 1 = maxHeight
    BY <1>3, <2>1
  <2>3. /\ \A v \in Workers : Busy(v)' => v = 0
        /\ Busy(0)' => maxHeight + 1 >= 1 /\ worker'[0].h = maxHeight + 1
        /\ maxHeight + 1 >= 1 => Busy(0)' /\ At(0, "transfer")'
        /\ DOMAIN worker'[0].seen = {}
    BY <1>1, <2>1, <2>2, StartIs
  <2>4. Busy(0)' => MovedFor(0)'
    BY <1>1, <1>6, <2>1, <2>2, <2>3, Constants, StartMoves DEF At
  <2>5. Moved(maxHeight)' \/ Current(maxHeight)'
    <3>1. CASE maxHeight + 1 >= 1
      BY <2>1, <2>3, <3>1 DEF Current
    <3>2. CASE maxHeight + 1 < 1
      <4>1. Moved(maxHeight + 1)
        BY <1>1, <2>2, <3>2, NothingMoves
      <4> QED  BY <1>1, <1>2, <2>1, <4>1 DEF Moved, Leaves
    <3> QED  BY <2>2, <3>1, <3>2
  <2>6. chain'.steady => Moved(best - 1)'
    BY <1>1, <1>2, <1>5, <2>1 DEF Moved, Leaves
  <2> QED  BY <2>3, <2>4, <2>5, <2>6
<1>9. CASE Rerun
  <2>1. Quiet /\ maxHeight = best /\ best' = best
    BY <1>9 DEF Rerun
  <2>2. chain'.steady => Moved(best - 1)'
    BY <1>1, <1>2, <1>5, <2>1 DEF Moved, Leaves
  <2>3. CASE step # 1
    <3>1. UNCHANGED <<worker, maxHeight>>
      BY <1>9, <2>3 DEF Rerun
    <3>2. \A w \in Workers : ~Busy(w)'
      BY <2>1, <3>1 DEF Quiet, Busy, At
    <3>3. Moved(maxHeight)'
      BY <1>1, <1>2, <1>6, <2>1, <3>1 DEF Moved, Leaves
    <3> QED  BY <2>2, <3>2, <3>3
  <2>4. CASE step = 1
    <3>1. /\ \A v \in Workers : Busy(v)' =>
               /\ v \in 1..Back /\ worker'[v].h = best - v
               /\ At(v, "transfer")' /\ DOMAIN worker'[v].seen = {}
          /\ \E v \in 1..Back : maxHeight' = best - v
      BY <1>1, <1>9, <2>4, RerunIs
    <3>2. \A v \in 1..Back : best - v \in Int /\ best - v <= best /\ best - v - 1 <= best
                             /\ best - v - 1 \in Int
      BY <1>3, Constants
    <3>3. \A v \in 1..Back : Moved(best - v) /\ Moved(best - v - 1)
      BY <1>1, <1>3, <1>6, <2>1, <3>2, MovedBelow
    <3>4. \A v \in Workers : Busy(v)' => MovedFor(v)'
      BY <1>1, <3>1, <3>2, <3>3, StartMoves DEF At
    <3>5. Moved(maxHeight')
      BY <3>1, <3>3
    <3>6. Moved(maxHeight)'
      BY <1>1, <1>2, <3>5 DEF Moved, Leaves
    <3> QED  BY <2>2, <3>4, <3>6
  <2> QED  BY <2>3, <2>4
<1>10. ASSUME NEW h \in Heights, Reindex(h)
       PROVE  /\ \A w \in Workers : Busy(w)' => MovedFor(w)'
              /\ Moved(maxHeight)' \/ Current(maxHeight)'
              /\ chain'.steady => Moved(best - 1)'
  <2>1. /\ Quiet /\ UNCHANGED <<best, maxHeight>> /\ h <= best /\ reindexed' = reindexed + 1
        /\ worker' = [worker EXCEPT ![0] = Taking(h)]
    BY <1>10 DEF Reindex, position
  <2>2. h \in Int /\ h >= 1 /\ h <= Tip /\ h - 1 \in Int /\ h - 1 <= best - 1 /\ best - 1 \in Int
    BY <1>3, <2>1
  <2>3. chain.steady
    <3>1. reindexed' # 0
      BY <1>3, <2>1
    <3> QED  BY <1>1, <3>1 DEF Undisturbed, InTurn
  <2>4. /\ \A v \in Workers : Busy(v)' => v = 0
        /\ worker'[0].h = h /\ At(0, "transfer")' /\ DOMAIN worker'[0].seen = {}
    BY <1>1, <2>1, <2>2, StartIs
  <2>5. Moved(h - 1)
    BY <1>1, <1>5, <2>2, <2>3, MovedBelow
  <2>6. MovedFor(0)'
    BY <1>1, <2>2, <2>4, <2>5, Constants, StartMoves DEF At
  <2>7. Moved(maxHeight)'
    BY <1>1, <1>2, <1>6, <2>1 DEF Moved, Leaves
  <2>8. chain'.steady => Moved(best - 1)'
    BY <1>1, <1>2, <1>5, <2>1 DEF Moved, Leaves
  <2> QED  BY <2>4, <2>6, <2>7, <2>8
<1>11. ~Crash /\ \A w \in Workers : ~FetchFails(w)
  <2>1. crashes' = 0 /\ faults' = 0
    BY DEF Undisturbed
  <2> QED  BY <1>3, <2>1 DEF Crash, FetchFails
<1>12. CASE UNCHANGED vars
  <2>1. UNCHANGED <<worker, maxHeight, best>>
    BY <1>12 DEF vars
  <2>2. \A w \in Workers : Busy(w)' => MovedFor(w)'
    BY <1>1, <1>2, <1>5, <2>1 DEF MovedFor, Moved, Leaves, At, Busy
  <2>3. Moved(maxHeight)' \/ Current(maxHeight)'
    BY <1>1, <1>2, <1>5, <2>1 DEF Moved, Leaves, Current, Busy, At
  <2>4. chain'.steady => Moved(best - 1)'
    BY <1>1, <1>2, <1>5, <2>1 DEF Moved, Leaves
  <2> QED  BY <2>2, <2>3, <2>4
<1> QED  BY <1>7, <1>8, <1>9, <1>10, <1>11, <1>12 DEF Other

(* Where a goroutine stores its pins: the other ones have nothing to do. *)
LEMMA StoreTransfers ==
  ASSUME BlocksInv, TransfersInv, NEW w \in Workers, StorePins(w), chain' = chain,
         Undisturbed, Stored' # Stored
  PROVE  /\ w = 0 /\ maxHeight <= worker[w].h
         /\ \A n \in Int : n < worker[w].h /\ Moved(n) =>
              \A p \in Stored' : Leaves(p, n) => hop[p] # 0
         /\ chain.steady => best = worker[w].h
<1> DEFINE h == worker[w].h
<1>1. /\ TInv /\ Busy(w) /\ ~Full(h) /\ h \in Heights /\ h \in Int /\ h <= best /\ best \in Int
      /\ Stored' = Stored \cup Range(List(w)) /\ List(w) = chain.blocks[h]
      /\ Range(List(w)) \subseteq Pins /\ chain \in Chains
  <2>1. TInv /\ chain \in Chains
    BY DEF BlocksInv, TInv, TypeOK
  <2>2. Busy(w) /\ Stored' = Stored \cup Range(List(w)) /\ Range(List(w)) \subseteq Pins
    BY <2>1, StorePinsIs
  <2>3. ~Full(h)
    BY <2>1, StoreNew
  <2>4. h \in Heights /\ h \in Int /\ h <= best /\ best \in Int /\ List(w) = chain.blocks[h]
    BY <2>1, <2>2, BusyIs, Numbered
  <2> QED  BY <2>1, <2>2, <2>3, <2>4
<1>2. OneLost /\ faults = 0 /\ InTurn
  BY DEF OneLost, Undisturbed
<1>3. w = 0 /\ maxHeight <= h
  BY <1>1, <1>2, Constants DEF BlocksInv, LoopInv
<1>4. ASSUME NEW n \in Int, n < h, Moved(n), NEW p \in Stored', Leaves(p, n)
      PROVE  hop[p] # 0
  <2>1. CASE p \in Stored
    BY <1>4, <2>1 DEF Moved
  <2>2. CASE p \in Range(List(w))
    <3>1. InBlock(p, h)
      BY <1>1, <2>2 DEF Range, InBlock
    <3>2. h <= n
      BY <1>1, <1>4, <2>2, <3>1, LeavesIs
    <3> QED  BY <1>1, <1>4, <3>2
  <2> QED  BY <1>1, <2>1, <2>2
<1>5. chain.steady => best = h
  <2> SUFFICES ASSUME chain.steady PROVE best = h
    OBVIOUS
  <2>1. Few(best - 1) /\ faults <= 1
    BY <1>2 DEF BlocksInv, OrderInv
  <2>2. ~(h <= best - 1)
    BY <1>1, <1>2, <2>1 DEF Few
  <2> QED  BY <1>1, <2>2
<1> QED  BY <1>3, <1>4, <1>5

(* The transfers through every step of a goroutine. *)
LEMMA RunTransfers ==
  ASSUME BlocksInv, TransfersInv, NEW w \in Workers, Run(w), chain' = chain
  PROVE  TransfersInv'
<1>1. /\ TInv /\ TInv' /\ Busy(w)
      /\ UNCHANGED <<best, maxHeight, step, faults, crashes, reindexed>>
      /\ \A v \in Workers : v # w => worker'[v] = worker[v]
      /\ Busy(w)' => worker'[w].h = worker[w].h
      /\ Stored \subseteq Stored'
      /\ \A p \in Stored' \ Stored : Height(p) = worker[w].h
      /\ Stored' # Stored => StorePins(w)
  BY RunShape DEF BlocksInv
<1>2. Undisturbed' <=> Undisturbed
  BY <1>1 DEF Undisturbed, InTurn
<1> SUFFICES ASSUME Undisturbed PROVE
      /\ \A v \in Workers : Busy(v)' => MovedFor(v)'
      /\ Moved(maxHeight)' \/ Current(maxHeight)'
      /\ chain'.steady => Moved(best - 1)'
  BY <1>2 DEF TransfersInv
<1>3. /\ \A v \in Workers : Busy(v) => MovedFor(v)
      /\ Moved(maxHeight) \/ Current(maxHeight)
      /\ chain.steady => Moved(best - 1)
  BY DEF TransfersInv
<1>4. /\ worker'[w].seen = worker[w].seen \/ DOMAIN worker'[w].seen = {} \/ ReadOriginals(w)
      /\ worker'[w].pc # "transfer"
      /\ At(w, "transfer") => CheckTransfer(w)
      /\ worker'[w].pc = "update" => TransferNew(w)
      /\ worker'[w].pc \in {"follow", "unfollow"} => worker[w].pc \in {"update", "follow"}
      /\ ~Busy(w)' => CheckTransfer(w) \/ At(w, "unfollow")
      /\ \A p \in Pins : hop'[p] \in Nat /\ (hop[p] # 0 => hop'[p] # 0)
  BY <1>1, RunStages
<1>5. Stored \subseteq Pins /\ Stored' \subseteq Pins /\ chain \in Chains
      /\ \A p : Height(p)' = Height(p)
  BY <1>1, HeightsKept DEF TInv, TypeOK
<1>6. /\ \A v \in Workers : Busy(v) => worker[v].h \in Int /\ worker[v].h \in Heights
      /\ best \in Int /\ maxHeight \in Int /\ maxHeight <= best
      /\ \A h \in Heights : h \in Int /\ h >= 1
  BY <1>1, Numbered, BusyIs
<1> DEFINE After(n) == \A p \in Stored' : Leaves(p, n) => hop'[p] # 0
<1>7. ASSUME NEW n \in Int, Moved(n), Stored' = Stored \/ n < worker[w].h PROVE After(n)
  <2>1. \A p \in Stored' : Leaves(p, n) => hop[p] # 0
    <3>1. CASE Stored' = Stored
      BY <1>7, <3>1 DEF Moved
    <3>2. CASE Stored' # Stored
      BY <1>1, <1>7, <3>2, StoreTransfers
    <3> QED  BY <3>1, <3>2
  <2> QED  BY <1>4, <1>5, <2>1
<1>8. CheckTransfer(w) \/ TransferNew(w) => After(worker[w].h)
  <2> SUFFICES ASSUME CheckTransfer(w) \/ TransferNew(w) PROVE After(worker[w].h)
    OBVIOUS
  <2>1. HandleTransfer(worker[w].h) /\ Stored' = Stored
    BY DEF CheckTransfer, TransferNew, Stored
  <2>2. Moved(worker[w].h - 1)
    BY <1>1, <1>3 DEF MovedFor
  <2> QED  BY <1>1, <1>6, <2>1, <2>2, TransferMoves
<1>9. worker[w].pc \in {"update", "follow", "unfollow"} => After(worker[w].h)
  <2> SUFFICES ASSUME worker[w].pc \in {"update", "follow", "unfollow"} PROVE After(worker[w].h)
    OBVIOUS
  <2>1. Moved(worker[w].h) /\ worker[w].h \in Int
    BY <1>1, <1>3, <1>6 DEF MovedFor
  <2>2. Stored' = Stored
    BY <1>1 DEF StorePins, At
  <2> QED  BY <1>7, <2>1, <2>2
<1>10. ASSUME NEW v \in Workers, v # w, Busy(v)' PROVE MovedFor(v)'
  <2>1. worker'[v] = worker[v] /\ Busy(v) /\ MovedFor(v)
    BY <1>1, <1>3, <1>10 DEF Busy, At
  <2>2. Stored' = Stored
    <3> SUFFICES ASSUME Stored' # Stored PROVE FALSE
      OBVIOUS
    <3>1. w = 0
      BY <1>1, StoreTransfers
    <3> QED  BY <1>1, <1>10, <2>1, <3>1, Constants DEF TInv, WorkerInv
  <2>3. After(worker[v].h - 1)
    <3>1. Moved(worker[v].h - 1) /\ worker[v].h - 1 \in Int
      BY <1>6, <2>1 DEF MovedFor
    <3> QED  BY <1>7, <2>2, <3>1
  <2>4. Moved(worker[v].h - 1)'
    BY <2>1, <2>3 DEF Moved, Leaves
  <2>5. (~At(v, "transfer") =>
           \A p \in Stored : Leaves(p, worker[v].h) /\ Height(p) < worker[v].h => hop[p] # 0)'
    BY <1>4, <1>5, <2>1, <2>2 DEF MovedFor, At, Leaves
  <2>6. (worker[v].pc \in {"update", "follow", "unfollow"} => Moved(worker[v].h))'
    <3> SUFFICES ASSUME worker[v].pc \in {"update", "follow", "unfollow"} PROVE Moved(worker[v].h)'
      BY <2>1
    <3>1. After(worker[v].h)
      BY <1>6, <1>7, <2>1, <2>2 DEF MovedFor
    <3> QED  BY <2>1, <3>1 DEF Moved, Leaves
  <2>7. (\A q \in DOMAIN worker[v].seen :
           ~worker[v].seen[q].moved /\ Height(q) < worker[v].h => ~Leaves(q, worker[v].h))'
    BY <1>5, <2>1 DEF MovedFor, Leaves
  <2> QED  BY <2>4, <2>5, <2>6, <2>7 DEF MovedFor
<1>11. ASSUME Busy(w)' PROVE MovedFor(w)'
  <2> DEFINE h == worker[w].h
  <2>1. worker'[w].h = h /\ MovedFor(w) /\ h \in Int /\ h - 1 \in Int /\ h - 1 < h
    BY <1>1, <1>3, <1>6, <1>11
  <2>2. Moved(worker[w].h - 1)'
    <3>1. After(h - 1)
      BY <1>7, <2>1 DEF MovedFor
    <3> QED  BY <2>1, <3>1 DEF Moved, Leaves
  <2>3. \A p \in Stored' : Leaves(p, h) /\ Height(p) < h => hop'[p] # 0
    <3>1. CASE At(w, "transfer")
      BY <1>4, <1>8, <3>1
    <3>2. CASE ~At(w, "transfer")
      <4> SUFFICES ASSUME NEW p \in Stored', Leaves(p, h), Height(p) < h PROVE hop'[p] # 0
        OBVIOUS
      <4>1. p \in Stored
        BY <1>1, <2>1
      <4>2. hop[p] # 0
        BY <2>1, <3>2, <4>1 DEF MovedFor
      <4> QED  BY <1>4, <1>5, <4>1, <4>2
    <3> QED  BY <3>1, <3>2
  <2>4. (~At(w, "transfer") =>
           \A p \in Stored : Leaves(p, worker[w].h) /\ Height(p) < worker[w].h => hop[p] # 0)'
    BY <1>5, <2>1, <2>3 DEF Leaves
  <2>5. (worker[w].pc \in {"update", "follow", "unfollow"} => Moved(worker[w].h))'
    <3> SUFFICES ASSUME worker'[w].pc \in {"update", "follow", "unfollow"} PROVE Moved(worker[w].h)'
      OBVIOUS
    <3>1. After(h)
      BY <1>4, <1>8, <1>9
    <3> QED  BY <2>1, <3>1 DEF Moved, Leaves
  <2>6. ASSUME NEW q \in DOMAIN worker'[w].seen, ~worker'[w].seen[q].moved, Height(q) < h
        PROVE  ~Leaves(q, h)
    <3>1. CASE worker'[w].seen = worker[w].seen
      BY <2>1, <2>6, <3>1 DEF MovedFor
    <3>2. CASE ReadOriginals(w)
      <4>1. DOMAIN worker[w] = {"pc", "h", "names", "seen", "number"} /\ DOMAIN worker = Workers
        BY <1>1, BusyIs DEF TInv
      <4> DEFINE wanted == {Of(p) : p \in Range(List(w))} \cap Stored
                 sn == [x \in wanted |-> [status |-> pins[x].status, kind |-> pins[x].kind,
                                          owner |-> Owner(x), moved |-> hop[x] > 0]]
      <4>2. worker'[w].seen = sn
        BY <3>2, <4>1 DEF ReadOriginals
      <4> HIDE DEF wanted
      <4>3. q \in wanted /\ ~(hop[q] > 0)
        <5>1. DOMAIN sn = wanted /\ \A x \in wanted : sn[x].moved <=> hop[x] > 0
          OBVIOUS
        <5> HIDE DEF sn
        <5> QED  BY <2>6, <4>2, <5>1
      <4>4. q \in Stored /\ hop[q] \in Nat
        BY <1>1, <1>5, <4>3 DEF wanted, TInv
      <4>5. hop[q] = 0
        BY <4>3, <4>4
      <4>6. ~At(w, "transfer")
        BY <3>2 DEF ReadOriginals, At
      <4> QED  BY <2>1, <2>6, <4>4, <4>5, <4>6 DEF MovedFor
    <3> QED  BY <1>4, <2>6, <3>1, <3>2
  <2>7. (\A q \in DOMAIN worker[w].seen :
           ~worker[w].seen[q].moved /\ Height(q) < worker[w].h => ~Leaves(q, worker[w].h))'
    BY <1>5, <2>1, <2>6 DEF Leaves
  <2> QED  BY <2>2, <2>4, <2>5, <2>7 DEF MovedFor
<1>12. Moved(maxHeight)' \/ Current(maxHeight)'
  <2>1. After(maxHeight) => Moved(maxHeight)'
    BY <1>1 DEF Moved, Leaves
  <2>2. CASE Current(maxHeight)
    <3>1. CASE Busy(0)'
      <4>1. worker'[0].h = worker[0].h
        BY <1>1, <3>1, Constants
      <4> QED  BY <1>1, <2>2, <3>1, <4>1 DEF Current
    <3>2. CASE ~Busy(0)'
      <4>1. w = 0
        BY <1>1, <2>2, <3>2, Constants DEF Current, Busy, At
      <4>2. After(worker[w].h)
        BY <1>4, <1>8, <1>9, <3>2, <4>1 DEF At
      <4> QED  BY <2>1, <2>2, <4>1, <4>2 DEF Current
    <3> QED  BY <3>1, <3>2
  <2>3. CASE Moved(maxHeight)
    <3>1. CASE Stored' = Stored \/ maxHeight < worker[w].h
      BY <1>6, <1>7, <2>1, <2>3, <3>1
    <3>2. CASE Stored' # Stored /\ ~(maxHeight < worker[w].h)
      <4>1. w = 0 /\ maxHeight <= worker[w].h /\ StorePins(w)
        BY <1>1, <3>2, StoreTransfers
      <4>2. maxHeight = worker[w].h
        BY <1>1, <1>6, <3>2, <4>1
      <4>3. Busy(w)'
        BY <1>4, <4>1 DEF StorePins, CheckTransfer, At
      <4> QED  BY <1>1, <4>1, <4>2, <4>3 DEF Current
    <3> QED  BY <3>1, <3>2
  <2> QED  BY <1>3, <2>2, <2>3
<1>13. chain'.steady => Moved(best - 1)'
  <2> SUFFICES ASSUME chain.steady PROVE Moved(best - 1)'
    OBVIOUS
  <2>1. Stored' = Stored \/ best - 1 < worker[w].h
    <3>1. Stored' # Stored => best = worker[w].h
      BY <1>1, StoreTransfers
    <3> QED  BY <1>6, <3>1
  <2>2. After(best - 1)
    BY <1>3, <1>6, <1>7, <2>1
  <2> QED  BY <1>1, <2>2 DEF Moved, Leaves
<1> QED  BY <1>10, <1>11, <1>12, <1>13

(* At the start there is nothing to follow. *)
LEMMA InitTransfers == Init => TransfersInv
<1> SUFFICES ASSUME Init PROVE TransfersInv
  OBVIOUS
<1>1. Stored = {} /\ \A w \in Workers : ~Busy(w)
  BY IdleTyped DEF Init, Stored, Busy, At
<1> QED  BY <1>1 DEF TransfersInv, Moved

(* Every step keeps what is known of the transfers. *)
LEMMA TransfersKept == BlocksInv /\ TransfersInv /\ [Next]_vars => TransfersInv'
BY NextIs, OtherTransfers, RunTransfers

(* What an update does while the transfers are known: an owner's operation. *)
LEMMA MarksRightful ==
  ASSUME BlocksInv, TransfersInv, Undisturbed, NEW w \in Workers, UpdatePins(w),
         NEW q \in Stored, NEW i \in DOMAIN List(w), MarksBy(w, i, q)
  PROVE  List(w)[i] \in Ops(q) /\ Rightful(List(w)[i])
<1> DEFINE r == List(w)[i]
           h == worker[w].h
<1>1. TInv /\ Busy(w) /\ Wrote(w) /\ chain \in Chains
  BY DEF BlocksInv, TInv, TypeOK, UpdatePins, Busy, At, Wrote
<1>2. /\ h \in Heights /\ h \in Int /\ List(w) = chain.blocks[h] /\ r \in Pins
      /\ DOMAIN worker[w].seen \subseteq Stored
      /\ \A x \in DOMAIN worker[w].seen :
           /\ ~worker[w].seen[x].moved => worker[w].seen[x].owner = By(x)
           /\ Op(x) = "create" => worker[w].seen[x].kind = chain.pin[x].kind
  BY <1>1, BusyIs, Numbered
<1>3. r \in Stored
  BY <1>1, <1>2 DEF TInv, WorkerInv, Full, FullIn
<1>4. InBlock(r, h)
  BY <1>2 DEF InBlock
<1>5. Height(r) = h
  BY <1>1, <1>2, <1>4, HeightIs
<1>6. q = Of(r) /\ Of(r) \in DOMAIN worker[w].seen
  BY DEF MarksBy, Marks, Refused
<1>7. /\ worker[w].seen[q].owner = By(r) /\ ~worker[w].seen[q].moved
      /\ ~(Mark(r) = -1 /\ Op(q) = "create" /\ worker[w].seen[q].kind = "name")
      /\ ~(Height(r) <= Height(q))
  BY <1>6 DEF MarksBy, Refused
<1>8. Height(q) \in Int /\ Height(q) < h
  <2>1. Height(q) \in Heights /\ \A g \in Heights : g \in Int
    BY <1>1, StoredHeight, Constants
  <2> QED  BY <1>2, <1>5, <1>7, <2>1
<1>9. ~MovedBy(q, h)
  <2>1. ~Leaves(q, h)
    BY <1>1, <1>6, <1>7, <1>8 DEF TransfersInv, MovedFor
  <2>2. q \in Pins
    BY <1>1 DEF TInv, TypeOK
  <2> QED  BY <1>1, <1>2, <2>1, <2>2, LeavesIs
<1>10. Op(r) = "revoke" => Mark(r) = -1
  BY DEF Mark
<1> HIDE DEF r, h
<1>11. Rightful(r)
  BY <1>2, <1>5, <1>6, <1>7, <1>8, <1>9, <1>10 DEF Rightful
<1>12. r \in Ops(q)
  BY <1>3, <1>6 DEF Ops, r, MarksBy
<1> QED  BY <1>11, <1>12 DEF r

(* Every step keeps statuses rightful. *)
LEMMA OwnersKept == OwnersInv /\ [Next]_vars => OwnersInv'
<1> SUFFICES ASSUME OwnersInv, [Next]_vars PROVE OwnersInv'
  OBVIOUS
<1>1. BlocksInv /\ TransfersInv /\ OnlyOwners /\ TInv
  BY DEF OwnersInv, BlocksInv
<1>2. BlocksInv' /\ TransfersInv'
  BY <1>1, StepBlocks, TransfersKept
<1>3. chain' = chain /\ (Other \/ \E w \in Workers : Run(w))
  BY NextIs
<1>4. \A p, r : /\ (Op(r)' = Op(r)) /\ (Of(r)' = Of(r)) /\ (Rightful(r)' <=> Rightful(r))
                /\ Mark(r)' = Mark(r)
  BY <1>3 DEF Op, Of, By, Rightful, Mark, MovedBy, Height
<1>5. ASSUME Stored \subseteq Stored', Undisturbed' => Undisturbed,
             Undisturbed => \A p \in Stored' : pins'[p].status \in {-1, 1} =>
               \/ p \in Stored /\ pins'[p].status = pins[p].status
               \/ \E r \in Ops(p) : Rightful(r) /\ Mark(r) = pins'[p].status
      PROVE  OnlyOwners'
  <2> SUFFICES ASSUME Undisturbed', NEW p \in Stored', pins'[p].status \in {-1, 1}
               PROVE  \E r \in Ops(p)' : Rightful(r)' /\ Mark(r)' = pins'[p].status
    BY DEF OnlyOwners, Undisturbed
  <2>1. \E r \in Ops(p) : Rightful(r) /\ Mark(r) = pins'[p].status
    BY <1>1, <1>5 DEF OnlyOwners, Undisturbed
  <2>2. Ops(p) \subseteq Ops(p)'
    BY <1>4, <1>5 DEF Ops
  <2> QED  BY <1>4, <2>1, <2>2
<1>6. CASE Other
  <2>1. /\ UNCHANGED pins /\ (InTurn' => InTurn) /\ faults' \in Nat /\ faults <= faults'
        /\ crashes' \in Nat /\ crashes <= crashes'
    BY <1>1, <1>3, <1>6, OtherSteps
  <2>2. faults \in Nat /\ crashes \in Nat
    BY <1>1, Numbered
  <2>3. (Undisturbed' => Undisturbed) /\ Stored' = Stored
    BY <2>1, <2>2 DEF Undisturbed, Stored
  <2> QED  BY <1>1, <1>2, <1>5, <2>1, <2>3 DEF OwnersInv
<1>7. ASSUME NEW w \in Workers, Run(w) PROVE OnlyOwners'
  <2>1. UNCHANGED <<faults, crashes, reindexed>> /\ Stored \subseteq Stored'
    BY <1>1, <1>3, <1>7, RunShape
  <2>2. Undisturbed' => Undisturbed
    BY <1>3, <2>1 DEF Undisturbed, InTurn
  <2>3. CASE UpdatePins(w)
    <3>1. Stored' = Stored /\ \A q \in Stored :
            pins'[q].status = pins[q].status
            \/ \E i \in DOMAIN List(w) : MarksBy(w, i, q) /\ pins'[q].status = Mark(List(w)[i])
      BY <1>1, <1>3, <2>3, UpdatePinsIs
    <3>2. Undisturbed => \A p \in Stored' :
            \/ p \in Stored /\ pins'[p].status = pins[p].status
            \/ \E r \in Ops(p) : Rightful(r) /\ Mark(r) = pins'[p].status
      BY <1>1, <2>3, <3>1, MarksRightful
    <3> QED  BY <1>5, <2>1, <2>2, <3>2
  <2>4. CASE StorePins(w)
    <3>1. /\ \A p \in Stored : pins'[p] = pins[p]
          /\ \A p \in Stored' \ Stored : pins'[p].status \in {-2, 0}
      BY <1>1, <1>3, <2>4, StorePinsIs
    <3> QED  BY <1>5, <2>1, <2>2, <3>1
  <2>5. CASE UNCHANGED pins
    <3>1. Stored' = Stored
      BY <2>5 DEF Stored
    <3> QED  BY <1>5, <2>2, <2>5, <3>1
  <2> QED  BY <1>7, <2>3, <2>4, <2>5 DEF Run, CheckTransfer, ReadNames, ReadOriginals, ReadNumber,
       WriteNames, TransferNew, WriteFollows, WriteUnfollows
<1> QED  BY <1>2, <1>3, <1>6, <1>7 DEF OwnersInv

(***************************************************************************)
(* When no block is lost, no crash cuts a block short and none comes       *)
(* before its turn, a pin is modified or revoked only by its author, in a  *)
(* later block, before it is transferred, however the goroutines of a      *)
(* re-run interleave (getModifyPinStatus, man/man.go:633-685).             *)
(***************************************************************************)
THEOREM OwnersHold == Spec => []OnlyOwners
<1>1. Init => OwnersInv
  <2>1. Init => OnlyOwners
    BY DEF Init, Stored, OnlyOwners
  <2> QED  BY <2>1, InitTInv, InitBlocks, InitTransfers DEF OwnersInv, BlocksInv
<1>2. OwnersInv => OnlyOwners
  BY DEF OwnersInv
<1> QED  BY <1>1, <1>2, OwnersKept, PTL DEF Spec

----------------------------------------------------------------------------
(* The modifications. *)

(* What updates the status of a pin is a stored operation on it. *)
LEMMA MarksStored ==
  ASSUME TInv, NEW w \in Workers, UpdatePins(w), NEW q, NEW i \in DOMAIN List(w), MarksBy(w, i, q)
  PROVE  List(w)[i] \in Ops(q)
<1>1. Busy(w) /\ Wrote(w)
  BY DEF UpdatePins, Busy, At, Wrote
<1>2. List(w) = chain.blocks[worker[w].h] /\ Full(worker[w].h)
  BY <1>1, BusyIs DEF TInv, WorkerInv
<1>3. List(w)[i] \in Stored
  BY <1>2 DEF Full, FullIn
<1> QED  BY <1>3 DEF MarksBy, Marks, Ops

(* The operations on a pin only become more. *)
LEMMA OpsKept ==
  ASSUME chain' = chain, Stored \subseteq Stored'
  PROVE  /\ \A p : Ops(p) \subseteq Ops(p)' /\ (Op(p)' = Op(p)) /\ (Of(p)' = Of(p))
         /\ \A p : Ops(Of(p)) \subseteq Ops(Of(p))'
BY DEF Ops, Op, Of

(* The status of a pin that is not operated on stays, that of others is set *)
(* by one of the operations.                                                *)
LEMMA StatusIs ==
  ASSUME TInv, [Next]_vars, NEW p \in Stored
  PROVE  /\ Stored \subseteq Stored'
         /\ \/ pins'[p].status = pins[p].status
            \/ \E r \in Ops(p) : pins'[p].status = Mark(r)
<1>1. chain' = chain /\ (Other \/ \E w \in Workers : Run(w))
  BY NextIs
<1>2. CASE Other
  <2>1. UNCHANGED pins
    BY <1>1, <1>2, OtherSteps
  <2> QED  BY <2>1 DEF Stored
<1>3. ASSUME NEW w \in Workers, Run(w)
      PROVE  /\ Stored \subseteq Stored'
             /\ \/ pins'[p].status = pins[p].status
                \/ \E r \in Ops(p) : pins'[p].status = Mark(r)
  <2>1. Stored \subseteq Stored'
    BY <1>1, <1>3, RunShape
  <2>2. CASE UpdatePins(w)
    <3>1. \/ pins'[p].status = pins[p].status
          \/ \E i \in DOMAIN List(w) : MarksBy(w, i, p) /\ pins'[p].status = Mark(List(w)[i])
      BY <1>1, <2>2, UpdatePinsIs
    <3> QED  BY <2>1, <2>2, <3>1, MarksStored
  <2>3. CASE StorePins(w)
    BY <1>1, <2>1, <2>3, StorePinsIs
  <2>4. CASE UNCHANGED pins
    BY <2>1, <2>4
  <2> QED  BY <1>3, <2>2, <2>3, <2>4 DEF Run, CheckTransfer, ReadNames, ReadOriginals, ReadNumber,
       WriteNames, TransferNew, WriteFollows, WriteUnfollows
<1> QED  BY <1>1, <1>2, <1>3

(* An accepted operation that was stored before was accepted before. *)
LEMMA AcceptedBefore ==
  ASSUME TInv, [Next]_vars, NEW q \in Stored, Accepted(q)'
  PROVE  Accepted(q)
<1>1. Ops(q) = {}
  BY StatusIs, NextIs, OpsKept DEF Accepted
<1>2. pins'[q].status = pins[q].status
  BY <1>1, StatusIs
<1> QED  BY <1>1, <1>2 DEF Accepted

(* An accepted modification that was stored before was one before. *)
LEMMA ModifiesBefore ==
  ASSUME TInv, [Next]_vars, NEW q \in Stored, Modifies(q)'
  PROVE  Modifies(q)
<1>1. Accepted(q)
  BY AcceptedBefore DEF Modifies
<1>2. chain' = chain /\ Stored \subseteq Stored'
  BY NextIs, StatusIs
<1>3. Op(q) = "modify" /\ \A r \in Ops(Of(q))' : Op(r)' = "modify"
  BY <1>2 DEF Modifies, Op
<1>4. \A r \in Ops(Of(q)) : Op(r) = "modify"
  BY <1>2, <1>3, OpsKept
<1> QED  BY <1>1, <1>3, <1>4 DEF Modifies

(* A goroutine decides the same until it reads again. *)
LEMMA RefusedKept ==
  ASSUME chain' = chain, NEW w, worker'[w].seen = worker[w].seen, NEW q
  PROVE  Refused(q, worker[w].seen)' <=> Refused(q, worker[w].seen)
BY DEF Refused, Of, By, Mark, Op, Height

(* Goroutine w has stored q, and what the others are in is stored. *)
MarkingBy(w, q) ==
  /\ worker[w].pc \in {"leave", "update"}
  /\ worker[w].h = Height(q) /\ ~Refused(q, worker[w].seen)
  /\ \A v \in Workers : v # w /\ Busy(v) => Full(worker[v].h)

(* It stays so while the goroutine does, and the others start no block. *)
LEMMA MarkingKept ==
  ASSUME chain' = chain, Stored \subseteq Stored', NEW q, NEW w \in Workers, MarkingBy(w, q),
         worker'[w].pc \in {"leave", "update"}, worker'[w].h = worker[w].h,
         worker'[w].seen = worker[w].seen,
         \A v \in Workers : v # w /\ Busy(v)' => Busy(v) /\ worker'[v].h = worker[v].h
  PROVE  Marking(q)'
<1>1. Height(q)' = Height(q) /\ (Refused(q, worker[w].seen)' <=> Refused(q, worker[w].seen))
  BY HeightsKept, RefusedKept
<1>2. worker'[w].h = Height(q)' /\ ~Refused(q, worker[w].seen)'
  BY <1>1 DEF MarkingBy
<1>3. ASSUME NEW v \in Workers, v # w, Busy(v)' PROVE Full(worker[v].h)'
  <2>1. Busy(v) /\ worker'[v].h = worker[v].h
    BY <1>3
  <2>2. Full(worker[v].h)
    BY <1>3, <2>1 DEF MarkingBy
  <2> QED  BY <2>1, <2>2 DEF Full, FullIn
<1> QED  BY <1>2, <1>3 DEF Marking

(* The other steps: while a goroutine is in a block only another one can stop. *)
LEMMA OtherModified ==
  ASSUME TInv, ModifiedInv, Other, [Next]_vars
  PROVE  ModifiedInv'
<1>1. /\ chain' = chain /\ UNCHANGED <<pins, hop>>
      /\ faults' \in Nat /\ faults <= faults' /\ crashes' \in Nat /\ crashes <= crashes'
      /\ \A v \in Workers :
           worker'[v] = worker[v]
           \/ (worker'[v].pc \in {"idle", "transfer"} /\ DOMAIN worker'[v].seen = {})
  BY NextIs, OtherSteps
<1> SUFFICES ASSUME crashes' = 0, faults' <= 1
             PROVE  /\ \A q \in Stored' : Modifies(q)' =>
                         /\ Of(q)' \in Stored'
                         /\ (pins[Of(q)].status = 1 \/ hop[Of(q)] # 0 \/ Marking(q))'
                    /\ \A w \in Workers : (Busy(w) /\ ~Full(worker[w].h))' =>
                         \A q \in Stored' : (Modifies(q) /\ Of(q) \in DOMAIN worker[w].seen)' =>
                           (worker[w].seen[Of(q)].status = 1 \/ worker[w].seen[Of(q)].moved)'
  BY DEF ModifiedInv
<1>2. faults <= 1 /\ crashes = 0
  <2>1. faults \in Nat /\ crashes \in Nat
    BY Numbered
  <2> QED  BY <1>1, <2>1
<1>3. Stored' = Stored /\ \A q : Of(q)' = Of(q)
  BY <1>1 DEF Stored, Of
<1>4. ASSUME NEW q \in Stored', Modifies(q)'
      PROVE  Of(q)' \in Stored' /\ (pins[Of(q)].status = 1 \/ hop[Of(q)] # 0 \/ Marking(q))'
  <2>1. Modifies(q)
    BY <1>3, <1>4, ModifiesBefore
  <2>2. Of(q) \in Stored /\ (pins[Of(q)].status = 1 \/ hop[Of(q)] # 0 \/ Marking(q))
    BY <1>2, <1>3, <2>1 DEF ModifiedInv
  <2>3. CASE Marking(q)
    <3>1. PICK w \in Workers : MarkingBy(w, q)
      BY <2>3 DEF Marking, MarkingBy
    <3>2. Busy(w) /\ ~Quiet /\ ~At(w, "transfer")
      BY <3>1 DEF MarkingBy, Busy, Quiet, At
    <3>3. (\E u \in Workers : FetchFails(u)) \/ UNCHANGED vars
      <4>1. ~Crash
        <5>1. crashes \in Nat
          BY Numbered
        <5> QED  BY <5>1 DEF Crash
      <4> QED  BY <3>2, <4>1 DEF Other, Round, TakeNext, Rerun, Reindex
    <3>4. /\ worker'[w] = worker[w]
          /\ \A v \in Workers : Busy(v)' => worker'[v] = worker[v]
      <4>1. CASE UNCHANGED vars
        BY <4>1 DEF vars
      <4>2. ASSUME NEW u \in Workers, FetchFails(u)
            PROVE  /\ worker'[w] = worker[w]
                   /\ \A v \in Workers : Busy(v)' => worker'[v] = worker[v]
        <5>1. u # w /\ \A v \in Workers : worker'[v] = IF v = u THEN Idle ELSE worker[v]
          BY <3>2, <4>2 DEF FetchFails, TInv
        <5>2. ~Busy(u)'
          BY <5>1, IdleTyped DEF Busy, At
        <5> QED  BY <5>1, <5>2
      <4> QED  BY <3>3, <4>1, <4>2
    <3>5. \A v \in Workers : v # w /\ Busy(v)' => Busy(v) /\ worker'[v].h = worker[v].h
      BY <3>4 DEF Busy, At
    <3>6. worker'[w].pc \in {"leave", "update"}
      BY <3>1, <3>4 DEF MarkingBy
    <3> QED  BY <1>1, <1>3, <2>2, <3>1, <3>4, <3>5, <3>6, MarkingKept
  <2> QED  BY <1>1, <1>3, <2>2, <2>3
<1>5. ASSUME NEW w \in Workers, (Busy(w) /\ ~Full(worker[w].h))', NEW q \in Stored',
             Modifies(q)', Of(q)' \in DOMAIN worker'[w].seen
      PROVE  (worker[w].seen[Of(q)].status = 1 \/ worker[w].seen[Of(q)].moved)'
  <2>1. worker'[w] = worker[w]
    BY <1>1, <1>5
  <2>2. Busy(w) /\ ~Full(worker[w].h)
    BY <1>1, <1>3, <1>5, <2>1 DEF Busy, At, Full, FullIn
  <2>3. Modifies(q)
    BY <1>3, <1>5, ModifiesBefore
  <2> QED  BY <1>2, <1>3, <1>5, <2>1, <2>2, <2>3 DEF ModifiedInv
<1> QED  BY <1>4, <1>5

(* The update of a goroutine that has stored a modification. *)
LEMMA UpdateModifies ==
  ASSUME TInv, NEW w \in Workers, UpdatePins(w), chain' = chain, NEW q \in Stored, Modifies(q),
         MarkingBy(w, q), hop[Of(q)] = 0
  PROVE  pins'[Of(q)].status = 1
<1> DEFINE p == Of(q)
           seen == worker[w].seen
<1>1. Busy(w) /\ worker[w].h = Height(q) /\ ~Refused(q, seen)
  BY DEF UpdatePins, Busy, At, MarkingBy
<1>2. PICK i \in DOMAIN List(w) : List(w)[i] = q
  BY <1>1, BusyIs, StoredHeight DEF InBlock
<1>3. p \in DOMAIN seen /\ seen[p].owner = By(q) /\ ~seen[p].moved
  BY <1>1 DEF Refused
<1>4. p \in Stored /\ p \in Pins /\ seen[p].owner = By(p)
  BY <1>3 DEF TInv, TypeOK, WorkerInv
<1>5. Owner(p) = By(q)
  BY <1>3, <1>4, OwnerTyped
<1>6. MarksBy(w, i, p)
  BY <1>1, <1>2, <1>5 DEF MarksBy, Marks, Modifies
<1>7. PICK j \in DOMAIN List(w) : MarksBy(w, j, p) /\ pins'[p].status = Mark(List(w)[j])
  BY <1>4, <1>6, UpdatePinsIs
<1>8. Op(List(w)[j]) = "modify"
  BY <1>7, MarksStored DEF Modifies
<1> QED  BY <1>7, <1>8 DEF Mark

(* A modification just stored: no other goroutine has anything left to store. *)
LEMMA NewModified ==
  ASSUME TInv, LoopInv, OneLost, NEW w \in Workers, Run(w), chain' = chain,
         NEW q \in Stored' \ Stored, Op(q) = "modify", Accepted(q)'
  PROVE  /\ StorePins(w) /\ Busy(w) /\ ~Full(worker[w].h) /\ Height(q) = worker[w].h
         /\ ~Refused(q, worker[w].seen) /\ Of(q) \in Stored
         /\ Marking(q)'
<1>1. /\ StorePins(w) /\ Busy(w) /\ Height(q) = worker[w].h /\ Stored \subseteq Stored'
      /\ \A v \in Workers : v # w => worker'[v] = worker[v]
  BY RunShape
<1>2. ~Full(worker[w].h)
  BY <1>1, StoreNew
<1>3. ~Refused(q, worker[w].seen)
  <2>1. pins'[q].status = IF Op(q) # "create" /\ Refused(q, worker[w].seen) THEN -2 ELSE 0
    BY <1>1, StorePinsIs
  <2>2. pins'[q].status # -2
    BY DEF Accepted
  <2> QED  BY <2>1, <2>2
<1>4. Of(q) \in Stored
  BY <1>1, <1>3, BusyIs DEF Refused
<1>5. worker'[w].pc = "leave" /\ worker'[w].h = worker[w].h /\ worker'[w].seen = worker[w].seen
  <2>1. worker[w] \in Local /\ worker' = [worker EXCEPT ![w].pc = "leave"]
        /\ DOMAIN worker[w] = {"pc", "h", "names", "seen", "number"} /\ DOMAIN worker = Workers
    BY <1>1, BusyIs DEF StorePins, TInv
  <2> QED  BY <2>1
<1>6. ASSUME NEW v \in Workers, v # w, Busy(v)' PROVE Full(worker[v].h)'
  <2>1. Busy(v) /\ worker'[v] = worker[v]
    BY <1>1, <1>6 DEF Busy, At
  <2>2. Full(worker[v].h)
    BY <1>1, <1>2, <1>6, <2>1 DEF LoopInv
  <2> QED  BY <1>1, <2>1, <2>2 DEF Full, FullIn
<1>7. Marking(q)'
  <2>1. Height(q)' = Height(q) /\ (Refused(q, worker[w].seen)' <=> Refused(q, worker[w].seen))
    BY <1>5, HeightsKept, RefusedKept
  <2>2. (worker[w].h = Height(q))' /\ ~Refused(q, worker[w].seen)'
    BY <1>1, <1>3, <1>5, <2>1
  <2> QED  BY <1>5, <1>6, <2>2 DEF Marking
<1> QED  BY <1>1, <1>2, <1>3, <1>4, <1>7 DEF StorePins

(* The modifications through every step of a goroutine. *)
LEMMA RunModified ==
  ASSUME TInv, LoopInv, ModifiedInv, NEW w \in Workers, Run(w), [Next]_vars
  PROVE  ModifiedInv'
<1>1. /\ chain' = chain /\ Busy(w) /\ UNCHANGED <<best, maxHeight, step, faults, crashes, reindexed>>
      /\ \A v \in Workers : v # w => worker'[v] = worker[v]
      /\ Busy(w)' => worker'[w].h = worker[w].h
      /\ Stored \subseteq Stored'
  BY NextIs, RunShape
<1> SUFFICES ASSUME crashes = 0, faults <= 1
             PROVE  /\ \A q \in Stored' : Modifies(q)' =>
                         /\ Of(q)' \in Stored'
                         /\ (pins[Of(q)].status = 1 \/ hop[Of(q)] # 0 \/ Marking(q))'
                    /\ \A v \in Workers : (Busy(v) /\ ~Full(worker[v].h))' =>
                         \A q \in Stored' : (Modifies(q) /\ Of(q) \in DOMAIN worker[v].seen)' =>
                           (worker[v].seen[Of(q)].status = 1 \/ worker[v].seen[Of(q)].moved)'
  BY <1>1 DEF ModifiedInv
<1>2. OneLost
  BY DEF OneLost
<1>3. \A q : (Of(q)' = Of(q)) /\ (Op(q)' = Op(q))
  BY <1>1 DEF Of, Op
<1>4. ASSUME NEW q \in Stored', Modifies(q)'
      PROVE  Of(q)' \in Stored' /\ (pins[Of(q)].status = 1 \/ hop[Of(q)] # 0 \/ Marking(q))'
  <2> DEFINE p == Of(q)
  <2>1. CASE q \notin Stored
    <3>1. Op(q) = "modify" /\ Accepted(q)'
      BY <1>3, <1>4 DEF Modifies
    <3>2. Marking(q)' /\ p \in Stored
      BY <1>1, <1>2, <2>1, <3>1, NewModified
    <3> QED  BY <1>1, <1>3, <3>2
  <2>2. CASE q \in Stored
    <3>1. Modifies(q)
      BY <1>4, <2>2, ModifiesBefore
    <3>2. p \in Stored /\ p \in Pins /\ (pins[p].status = 1 \/ hop[p] # 0 \/ Marking(q))
      BY <2>2, <3>1 DEF ModifiedInv, TInv, TypeOK
    <3>3. CASE hop[p] # 0
      <4>1. hop'[p] # 0
        BY <1>1, <3>2, <3>3, RunStages
      <4> QED  BY <1>1, <1>3, <3>2, <4>1
    <3>4. CASE pins[p].status = 1
      <4>1. pins'[p].status = 1 \/ \E r \in Ops(p) : pins'[p].status = Mark(r)
        BY <3>2, <3>4, StatusIs
      <4>2. \A r \in Ops(p) : Mark(r) = 1
        BY <3>1 DEF Modifies, Mark
      <4> QED  BY <1>1, <1>3, <3>2, <4>1, <4>2
    <3>5. CASE Marking(q) /\ hop[p] = 0
      <4>1. PICK u \in Workers : MarkingBy(u, q)
        BY <3>5 DEF Marking, MarkingBy
      <4>2. \A v \in Workers : v # u /\ Busy(v)' => Busy(v) /\ worker'[v].h = worker[v].h
        BY <1>1 DEF Busy, At
      <4>3. CASE u # w
        <5>1. worker'[u] = worker[u] /\ worker[u].pc \in {"leave", "update"}
          BY <1>1, <4>1, <4>3 DEF MarkingBy
        <5>2. Marking(q)'
          BY <1>1, <4>1, <4>2, <5>1, MarkingKept
        <5> QED  BY <1>1, <1>3, <3>2, <5>2
      <4>4. CASE u = w /\ At(w, "leave")
        <5>1. TransferNew(w)
          BY <4>4 DEF Run, CheckTransfer, ReadNames, ReadOriginals, ReadNumber, WriteNames, StorePins,
               UpdatePins, WriteFollows, WriteUnfollows, At
        <5>2. /\ worker[w] \in Local /\ worker' = [worker EXCEPT ![w].pc = "update"]
              /\ DOMAIN worker[w] = {"pc", "h", "names", "seen", "number"} /\ DOMAIN worker = Workers
          BY <1>1, <5>1, BusyIs DEF TransferNew, TInv
        <5>3. worker'[w].pc = "update" /\ worker'[w].h = worker[w].h
              /\ worker'[w].seen = worker[w].seen
          BY <5>2
        <5>4. Marking(q)'
          BY <1>1, <4>1, <4>2, <4>4, <5>3, MarkingKept
        <5> QED  BY <1>1, <1>3, <3>2, <5>4
      <4>5. CASE u = w /\ At(w, "update")
        <5>1. UpdatePins(w)
          BY <4>5 DEF Run, CheckTransfer, ReadNames, ReadOriginals, ReadNumber, WriteNames, StorePins,
               TransferNew, WriteFollows, WriteUnfollows, At
        <5>2. pins'[p].status = 1
          BY <1>1, <2>2, <3>1, <3>5, <4>1, <4>5, <5>1, UpdateModifies
        <5> QED  BY <1>1, <1>3, <3>2, <5>2
      <4> QED  BY <4>1, <4>3, <4>4, <4>5 DEF MarkingBy, At
    <3> QED  BY <3>2, <3>3, <3>4, <3>5
  <2> QED  BY <2>1, <2>2
<1>5. ASSUME NEW v \in Workers, (Busy(v) /\ ~Full(worker[v].h))', NEW q \in Stored',
             Modifies(q)', Of(q)' \in DOMAIN worker'[v].seen
      PROVE  (worker[v].seen[Of(q)].status = 1 \/ worker[v].seen[Of(q)].moved)'
  <2> DEFINE p == Of(q)
  <2>1. Busy(v) /\ worker'[v].h = worker[v].h /\ ~FullIn(worker[v].h, Stored')
    BY <1>1, <1>5 DEF Busy, At, Full, FullIn
  <2>2. ~Full(worker[v].h)
    BY <1>1, <2>1 DEF Full, FullIn
  <2>3. q \in Stored
    <3>1. SUFFICES ASSUME q \notin Stored PROVE FALSE
      OBVIOUS
    <3>2. StorePins(w) /\ FullIn(worker[w].h, Stored') /\ ~Full(worker[w].h)
      BY <1>1, <3>1, RunShape, StoreNew
    <3> QED  BY <1>1, <1>2, <2>1, <2>2, <3>2 DEF LoopInv
  <2>4. Modifies(q)
    BY <1>5, <2>3, ModifiesBefore
  <2>5. p \in DOMAIN worker'[v].seen
    BY <1>3, <1>5
  <2>6. CASE worker'[v].seen = worker[v].seen
    BY <1>3, <2>1, <2>2, <2>3, <2>4, <2>5, <2>6 DEF ModifiedInv
  <2>7. CASE v = w /\ ReadOriginals(w)
    <3>1. ~Marking(q)
      BY <1>1, <2>2, <2>7 DEF Marking, ReadOriginals, At
    <3>2. p \in Stored /\ p \in Pins /\ (pins[p].status = 1 \/ hop[p] # 0)
      BY <2>3, <2>4, <3>1 DEF ModifiedInv, TInv, TypeOK
    <3>3. hop[p] \in Nat
      BY <3>2 DEF TInv
    <3> DEFINE wanted == {Of(x) : x \in Range(List(w))} \cap Stored
               seen == [x \in wanted |-> [status |-> pins[x].status, kind |-> pins[x].kind,
                                          owner |-> Owner(x), moved |-> hop[x] > 0]]
    <3>4. /\ DOMAIN worker[w] = {"pc", "h", "names", "seen", "number"} /\ DOMAIN worker = Workers
          /\ worker' = [worker EXCEPT ![w].seen = seen, ![w].pc = "number"]
      BY <1>1, <2>7, BusyIs DEF ReadOriginals, TInv
    <3>5. \A x \in DOMAIN seen : seen[x].status = pins[x].status /\ (seen[x].moved <=> hop[x] > 0)
      OBVIOUS
    <3> HIDE DEF seen
    <3>6. worker'[w].seen = seen
      BY <3>4
    <3>7. p \in DOMAIN seen
      BY <2>5, <2>7, <3>6
    <3>8. seen[p].status = 1 \/ seen[p].moved
      <4>1. hop[p] # 0 => hop[p] > 0
        BY <3>3
      <4> QED  BY <3>2, <3>5, <3>7, <4>1
    <3> QED  BY <1>3, <2>7, <3>6, <3>8
  <2>8. worker'[v].seen = worker[v].seen \/ (v = w /\ ReadOriginals(w))
    BY <1>1, <2>5, RunStages
  <2> QED  BY <2>6, <2>7, <2>8
<1> QED  BY <1>4, <1>5

(* A modification stored before keeps a new one of the same pin from being accepted. *)
LEMMA SecondRefused ==
  ASSUME TInv, LoopInv, ModifiedInv, crashes = 0, faults <= 1, [Next]_vars,
         NEW q \in Stored' \ Stored, NEW r \in Stored,
         Op(q) = "modify", Op(r) = "modify", Of(q) = Of(r), Accepted(q)', Accepted(r)',
         \A x \in Ops(Of(r)) : Op(x) = "modify"
  PROVE  FALSE
<1>1. chain' = chain
  BY NextIs
<1>2. OneLost
  BY DEF OneLost
<1>3. PICK w \in Workers : Run(w)
  <2>1. CASE Other
    BY <1>1, <2>1, OtherSteps DEF Stored
  <2> QED  BY <2>1, NextIs
<1>4. /\ Busy(w) /\ ~Full(worker[w].h) /\ ~Refused(q, worker[w].seen)
  BY <1>1, <1>2, <1>3, NewModified
<1>5. Modifies(r)
  BY AcceptedBefore DEF Modifies
<1>6. /\ Of(r) \in DOMAIN worker[w].seen /\ worker[w].seen[Of(r)].status # 1
      /\ ~worker[w].seen[Of(r)].moved
  BY <1>4 DEF Refused, Mark
<1> QED  BY <1>4, <1>5, <1>6 DEF ModifiedInv

(* No step makes two modifications of different blocks accepted. *)
LEMMA OnceKept ==
  ASSUME TInv, LoopInv, ModifiedInv, ModifiedOnce, [Next]_vars
  PROVE  ModifiedOnce'
<1>1. chain' = chain /\ Stored \subseteq Stored' /\ (crashes' = 0 => crashes = 0)
      /\ (faults' <= 1 => faults <= 1)
  <2>1. CASE Other
    <3>1. /\ UNCHANGED pins /\ crashes' \in Nat /\ crashes <= crashes' /\ faults' \in Nat
          /\ faults <= faults' /\ crashes \in Nat /\ faults \in Nat
      BY <2>1, NextIs, OtherSteps, Numbered
    <3> QED  BY <3>1, NextIs DEF Stored
  <2>2. ASSUME NEW w \in Workers, Run(w)
        PROVE  UNCHANGED <<faults, crashes>> /\ Stored \subseteq Stored'
    BY <2>2, NextIs, RunShape
  <2> QED  BY <2>1, <2>2, NextIs
<1> SUFFICES ASSUME crashes' = 0, faults' <= 1, NEW p \in Pins,
                    \A r \in Ops(p)' : Op(r)' = "modify",
                    NEW q \in Ops(p)', NEW r \in Ops(p)', Accepted(q)', Accepted(r)'
             PROVE  Height(q)' = Height(r)'
  BY DEF ModifiedOnce
<1>2. crashes = 0 /\ faults <= 1
  BY <1>1
<1>3. /\ \A x : (Op(x)' = Op(x)) /\ (Of(x)' = Of(x)) /\ (Height(x)' = Height(x))
      /\ Ops(p) \subseteq Ops(p)'
  BY <1>1, OpsKept, HeightsKept
<1>4. \A x \in Ops(p) : Op(x) = "modify"
  BY <1>3
<1>5. /\ q \in Stored' /\ r \in Stored' /\ Op(q) = "modify" /\ Op(r) = "modify"
      /\ Of(q) = p /\ Of(r) = p
  BY <1>3 DEF Ops
<1>6. CASE q \in Stored /\ r \in Stored
  <2>1. Accepted(q) /\ Accepted(r)
    BY <1>6, AcceptedBefore
  <2>2. q \in Ops(p) /\ r \in Ops(p)
    BY <1>5, <1>6 DEF Ops
  <2> QED  BY <1>2, <1>3, <1>4, <2>1, <2>2 DEF ModifiedOnce
<1>7. CASE q \notin Stored /\ r \notin Stored
  <2>1. PICK w \in Workers : Run(w)
    <3>1. CASE Other
      BY <1>1, <1>5, <1>7, <3>1, OtherSteps DEF Stored
    <3> QED  BY <3>1, NextIs
  <2>2. Height(q) = worker[w].h /\ Height(r) = worker[w].h
    BY <1>1, <1>5, <1>7, <2>1, RunShape
  <2> QED  BY <1>3, <2>2
<1>8. ~(q \notin Stored /\ r \in Stored)
  BY <1>2, <1>4, <1>5, SecondRefused
<1>9. ~(r \notin Stored /\ q \in Stored)
  BY <1>2, <1>4, <1>5, SecondRefused
<1> QED  BY <1>6, <1>7, <1>8, <1>9

(* Every step keeps the modifications. *)
LEMMA OnceStep == OnceInv /\ [Next]_vars => OnceInv'
<1> SUFFICES ASSUME OnceInv, [Next]_vars PROVE OnceInv'
  OBVIOUS
<1>1. BlocksInv /\ TInv /\ LoopInv /\ ModifiedInv /\ ModifiedOnce
  BY DEF OnceInv, BlocksInv
<1>2. BlocksInv' /\ ModifiedOnce'
  BY <1>1, StepBlocks, OnceKept
<1>3. ModifiedInv'
  BY <1>1, NextIs, OtherModified, RunModified
<1> QED  BY <1>2, <1>3 DEF OnceInv

(***************************************************************************)
(* Of the modifications of one pin in different blocks at most one is      *)
(* accepted: a block reads the statuses when those of every other block    *)
(* stored so far are written, although the reading, the storing and the    *)
(* writing are separate steps (man/man.go:646-649, 543-547).               *)
(***************************************************************************)
THEOREM OnceHolds == Spec => []ModifiedOnce
<1>1. Init => OnceInv
  <2>1. ASSUME Init PROVE Stored = {} /\ \A w \in Workers : ~Busy(w)
    BY <2>1, IdleTyped DEF Init, Stored, Busy, At
  <2>2. Init => ModifiedInv /\ ModifiedOnce
    BY <2>1 DEF ModifiedInv, ModifiedOnce, Ops
  <2> QED  BY <2>2, InitTInv, InitBlocks DEF OnceInv, BlocksInv
<1>2. OnceInv => ModifiedOnce
  BY DEF OnceInv
<1> QED  BY <1>1, <1>2, OnceStep, PTL DEF Spec

=============================================================================
