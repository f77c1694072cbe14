----------------------------- MODULE PinStatus -----------------------------
(***************************************************************************)
(* What the pins of a block say about other pins and about addresses:      *)
(* modify and revoke, names, follows, and pin numbers                      *)
(* (handlePathAndOperation, getModifyPinStatus, createPinNumber and the    *)
(* writes of DoIndexerRun in man/man.go).  Everything is decided from what *)
(* the database held before the block's own pins are stored, and the       *)
(* automatic re-runs decide again.                                         *)
(*                                                                         *)
(* One round at a time: the main loop takes a block while no other         *)
(* goroutine runs; the goroutines of a re-run interleave with each other.  *)
(* (Rounds that overlap may miss transfers, see BlockIndexer.)             *)
(***************************************************************************)
EXTENDS Integers, SequencesExt, FiniteSetsExt

CONSTANTS
  Pins,        \* pin ids
  NoPin,       \* no pin
  Addresses,   \* owners and authors
  Tip,         \* last height; bounds the model
  Back,        \* how many blocks are run again, 4 in IndexerRun
  Chains,      \* the block chains and circumstances considered
  MaxFaults,   \* bound on blocks the node does not deliver
  MaxCrashes,  \* bound on crashes
  MaxReindex   \* bound on calls of the reindex API

Heights == 1..Tip

(* 0 is the main loop, the others are the goroutines of a re-run. *)
Workers == 0..Back

Kinds == {"name", "follow", "other"}

(***************************************************************************)
(* A pin: its operation; for modify and revoke the pin it is about; for    *)
(* create what its path is ("/info/name", "/follow", or any other); its    *)
(* author (also its first owner); and whom a follow pin follows.           *)
(***************************************************************************)
Content ==
  [op: {"create", "modify", "revoke"}, of: Pins \cup {NoPin}, kind: Kinds,
   by: Addresses, who: Addresses]

(***************************************************************************)
(* blocks: the pins of each block, in order; blocks up to 0 hold nothing.  *)
(* route: the blocks that move a pin, and to whom.  steady: a block        *)
(* appears only when the loop has taken the ones before.  fails, crashes,  *)
(* calls: whether blocks are not delivered, the process crashes, the       *)
(* reindex API is called.                                                  *)
(***************************************************************************)
Chain ==
  [pin: [Pins -> Content], blocks: [Heights -> Seq(Pins)],
   route: [Pins -> Seq([h: Heights, to: Addresses])],
   steady: BOOLEAN, fails: BOOLEAN, crashes: BOOLEAN, calls: BOOLEAN]

ASSUME ConstantsAssumption ==
  /\ NoPin \notin Pins
  /\ Tip \in Nat /\ Back \in Nat \ {0}
  /\ \A c \in Chains : c \in Chain
  /\ MaxFaults \in Nat /\ MaxCrashes \in Nat /\ MaxReindex \in Nat

(* A pin is inscribed once, and its output is spent in that block or later. *)
ASSUME PlacesAssumption ==
  \A c \in Chains :
    /\ \A g, h \in Heights : \A i \in DOMAIN c.blocks[g], j \in DOMAIN c.blocks[h] :
         c.blocks[g][i] = c.blocks[h][j] => g = h /\ i = j
    /\ \A p \in Pins : \A i \in DOMAIN c.route[p] :
         /\ c.route[p][1].h <= c.route[p][i].h
         /\ \A h \in Heights : p \in Range(c.blocks[h]) => h <= c.route[p][i].h

VARIABLES
  chain,      \* fixed
  best,       \* GetBestHeight of the current round
  maxHeight,  \* MaxHeight
  step,       \* how many blocks the round takes; 0 between rounds
  pins,       \* the pins collection: status, originalpath, number
  hop,        \* how far along its route each pin has been followed
  names,      \* MetaIdInfo: the pin (nameid) each address has its name from
  follows,    \* follow records, by followed and follower: followpinid, status
  orphans,    \* followpinids of records an unfollow has inserted
  worker,     \* the goroutines inside DoIndexerRun
  faults, crashes, reindexed   \* how often these happened

vars == <<chain, best, maxHeight, step, pins, hop, names, follows, orphans, worker,
          faults, crashes, reindexed>>

position == <<best, maxHeight, step>>
info == <<names, follows, orphans>>
counters == <<faults, crashes, reindexed>>

Op(p) == chain.pin[p].op

Of(p) == chain.pin[p].of

By(p) == chain.pin[p].by

Height(p) == CHOOSE h \in Heights : p \in Range(chain.blocks[h])

Stored == DOMAIN pins

Owner(p) == IF hop[p] = 0 THEN By(p) ELSE chain.route[p][hop[p]].to

List(w) == chain.blocks[worker[w].h]

At(w, stage) == worker[w].pc = stage

Quiet == \A w \in Workers : At(w, "idle")

(* -2 stands for the codes of a refusal. *)
Status == {-2, -1, 0, 1}

Idle == [pc |-> "idle", h |-> 0, names |-> <<>>, seen |-> <<>>, number |-> 0]

Taking(h) == IF h < 1 THEN Idle ELSE [Idle EXCEPT !.pc = "transfer", !.h = h]

----------------------------------------------------------------------------
(* Which blocks are taken, in rounds that do not overlap: see BlockIndexer. *)

(* getSyncHeight, when there is something to do. *)
Round ==
  /\ Quiet /\ step = 0
  /\ \E b \in best..Tip :
       /\ maxHeight < b
       /\ chain.steady => b = best \/ (maxHeight = best /\ b = best + 1)
       /\ best' = b
       /\ step' = b - maxHeight
  /\ UNCHANGED <<maxHeight, pins, hop, info, worker, counters>>

(* Mutation of TakeNext: the loop goes on past the best height. *)
TakeBeyond ==
  /\ Quiet /\ step > 0
  /\ maxHeight <= best
  /\ maxHeight' = maxHeight + 1
  /\ worker' = [worker EXCEPT ![0] = Taking(maxHeight + 1)]
  /\ UNCHANGED <<best, step, pins, hop, info, counters>>

TakeNext ==
  /\ Quiet /\ step > 0
  /\ maxHeight < best
  /\ maxHeight' = maxHeight + 1
  /\ worker' = [worker EXCEPT ![0] = Taking(maxHeight + 1)]
  /\ UNCHANGED <<best, step, pins, hop, info, counters>>

(* The block that goroutine w of a round of one block runs again. *)
Again(w) == best - w

(* The end of a round.  Any of the goroutines may be the last to set MaxHeight. *)
Rerun ==
  /\ Quiet /\ step > 0
  /\ maxHeight = best
  /\ step' = 0
  /\ IF step = 1
     THEN /\ \E w \in 1..Back : maxHeight' = Again(w)
          /\ worker' = [w \in Workers |-> IF w = 0 THEN Idle ELSE Taking(Again(w))]
     ELSE UNCHANGED <<maxHeight, worker>>
  /\ UNCHANGED <<best, pins, hop, info, counters>>

Reindex(h) ==
  /\ chain.calls /\ reindexed < MaxReindex
  /\ Quiet
  /\ h <= best
  /\ reindexed' = reindexed + 1
  /\ worker' = [worker EXCEPT ![0] = Taking(h)]
  /\ UNCHANGED <<position, pins, hop, info, faults, crashes>>

(* GetBlock fails: the block yields no pins and no transfers. *)
FetchFails(w) ==
  /\ chain.fails /\ faults < MaxFaults
  /\ At(w, "transfer")
  /\ faults' = faults + 1
  /\ worker' = [worker EXCEPT ![w] = Idle]
  /\ UNCHANGED <<position, pins, hop, info, crashes, reindexed>>

(* GetMaxHeight: the highest block with a stored pin. *)
Crash ==
  /\ chain.crashes /\ crashes < MaxCrashes
  /\ crashes' = crashes + 1
  /\ maxHeight' = Max({0} \cup {Height(p) : p \in Stored})
  /\ step' = 0
  /\ worker' = [w \in Workers |-> Idle]
  /\ UNCHANGED <<best, pins, hop, info, faults, reindexed>>

----------------------------------------------------------------------------
(* GetSaveData: what is read, and decided from it. *)

(* handleTransfer: a stored pin whose output the block spends moves once. *)
HandleTransfer(h) ==
  hop' = [p \in Pins |->
            IF /\ p \in Stored
               /\ hop[p] < Len(chain.route[p])
               /\ chain.route[p][hop[p] + 1].h = h
            THEN hop[p] + 1 ELSE hop[p]]

CheckTransfer(w) ==
  /\ At(w, "transfer")
  /\ HandleTransfer(worker[w].h)
  /\ worker' = [worker EXCEPT ![w] =
       IF List(w) = <<>> THEN Idle ELSE [worker[w] EXCEPT !.pc = "names"]]
  /\ UNCHANGED <<position, pins, info, counters>>

(* GetMetaIdInfo of the authors (metaIdInfoParse). *)
ReadNames(w) ==
  /\ At(w, "names")
  /\ LET authors == {By(p) : p \in Range(List(w))} IN
     worker' = [worker EXCEPT ![w].names = [a \in authors |-> names[a]],
                              ![w].pc = IF \E p \in Range(List(w)) : Op(p) # "create"
                                        THEN "originals" ELSE "number"]
  /\ UNCHANGED <<position, pins, hop, info, counters>>

(* GetPinListByIdList of the pins to modify or revoke. *)
ReadOriginals(w) ==
  /\ At(w, "originals")
  /\ LET wanted == {Of(p) : p \in Range(List(w))} \cap Stored IN
     worker' = [worker EXCEPT
       ![w].seen = [q \in wanted |-> [status |-> pins[q].status, kind |-> pins[q].kind,
                                      owner |-> Owner(q), moved |-> hop[q] > 0]],
       ![w].pc = "number"]
  /\ UNCHANGED <<position, pins, hop, info, counters>>

(* Mutation of NextNumber: the highest number itself. *)
MaxNumber == Max({0} \cup {pins[p].number : p \in Stored})

(* GetMaxNumber. *)
NextNumber == Max({0} \cup {pins[p].number + 1 : p \in Stored})

ReadNumber(w) ==
  /\ At(w, "number")
  /\ worker' = [worker EXCEPT ![w].number = NextNumber, ![w].pc = "info"]
  /\ UNCHANGED <<position, pins, hop, info, counters>>

(* The status an original gets. *)
Mark(p) == IF Op(p) = "modify" THEN 1 ELSE -1

(* Mutation of Refused: transfers are not looked at. *)
RefusedUnmoved(p, seen) ==
  LET q == Of(p) IN
  \/ q \notin DOMAIN seen
  \/ seen[q].owner # By(p)
  \/ seen[q].status = Mark(p)
  \/ Mark(p) = -1 /\ Op(q) = "create" /\ seen[q].kind = "name"
  \/ Height(p) <= Height(q)

(* getModifyPinStatus. *)
Refused(p, seen) ==
  LET q == Of(p) IN
  \/ q \notin DOMAIN seen
  \/ seen[q].owner # By(p)
  \/ seen[q].status = Mark(p)
  \/ Mark(p) = -1 /\ Op(q) = "create" /\ seen[q].kind = "name"
  \/ Height(p) <= Height(q)
  \/ seen[q].moved

(* originalpath: that of the original, or else the pin's own path, an id. *)
KindOf(p, seen) ==
  IF Op(p) = "create" THEN chain.pin[p].kind
  ELSE IF Of(p) \in DOMAIN seen THEN seen[Of(p)].kind ELSE "other"

(* metaIdInfoParse: the block's last pin that gives its author a name. *)
GivesName(p, seen) ==
  /\ KindOf(p, seen) = "name"
  /\ Op(p) # "revoke"
  /\ Op(p) = "modify" => ~Refused(p, seen)

NewNames(w) ==
  [a \in DOMAIN worker[w].names |->
     LET mine == {i \in DOMAIN List(w) :
                    By(List(w)[i]) = a /\ GivesName(List(w)[i], worker[w].seen)}
     IN  IF mine = {} THEN worker[w].names[a] ELSE List(w)[Max(mine)]]

----------------------------------------------------------------------------
(* DoIndexerRun: the writes. *)

(* BatchUpsertMetaIdInfo: what was read is written back, unless it is empty. *)
WriteNames(w) ==
  /\ At(w, "info")
  /\ LET new == NewNames(w) IN
     names' = [a \in Addresses |->
                 IF a \in DOMAIN new /\ new[a] # NoPin THEN new[a] ELSE names[a]]
  /\ worker' = [worker EXCEPT ![w].pc = "store"]
  /\ UNCHANGED <<position, pins, hop, follows, orphans, counters>>

Position(p, list) == CHOOSE i \in DOMAIN list : list[i] = p

(* BatchAddPins: pins stored before stay as they are. *)
StorePins(w) ==
  /\ At(w, "store")
  /\ pins' = [p \in Stored \cup Range(List(w)) |->
                IF p \in Stored THEN pins[p]
                ELSE [status |-> IF Op(p) # "create" /\ Refused(p, worker[w].seen) THEN -2 ELSE 0,
                      kind |-> KindOf(p, worker[w].seen),
                      number |-> worker[w].number + Position(p, List(w)) - 1]]
  /\ worker' = [worker EXCEPT ![w].pc = "leave"]
  /\ UNCHANGED <<position, hop, info, counters>>

(* The block's pins that left their outputs in the block itself. *)
TransferNew(w) ==
  /\ At(w, "leave")
  /\ HandleTransfer(worker[w].h)
  /\ worker' = [worker EXCEPT ![w].pc = "update"]
  /\ UNCHANGED <<position, pins, info, counters>>

(* Mutation of Marks: the filter is the pin's own id. *)
MarksSelf(p, q) == q = p

(* An update of BatchUpdatePins: by id and address. *)
Marks(p, q) == q = Of(p) /\ Owner(q) = By(p)

(* The bulk write is unordered: of two updates of one pin either may be the last. *)
UpdatePins(w) ==
  /\ At(w, "update")
  /\ LET list == List(w)
         updates == {i \in DOMAIN list :
                       Op(list[i]) # "create" /\ ~Refused(list[i], worker[w].seen)}
         marked == {q \in Stored : \E i \in updates : Marks(list[i], q)}
     IN  \E by \in [marked -> updates] :
           /\ \A q \in marked : Marks(list[by[q]], q)
           /\ pins' = [q \in Stored |-> IF q \in marked
                                       THEN [pins[q] EXCEPT !.status = Mark(list[by[q]])]
                                       ELSE pins[q]]
  /\ worker' = [worker EXCEPT ![w].pc = "follow"]
  /\ UNCHANGED <<position, hop, info, counters>>

(* BatchUpsertFollowData: first the follows, by followed and follower, unordered. *)
FollowKey(p) == <<chain.pin[p].who, By(p)>>

WriteFollows(w) ==
  /\ At(w, "follow")
  /\ LET list == List(w)
         new == {i \in DOMAIN list :
                   Op(list[i]) = "create" /\ chain.pin[list[i]].kind = "follow"}
         keys == {FollowKey(list[i]) : i \in new}
     IN  \E by \in [keys -> new] :
           /\ \A k \in keys : FollowKey(list[by[k]]) = k
           /\ follows' = [k \in DOMAIN follows \cup keys |->
                            IF k \in keys THEN [pin |-> list[by[k]], on |-> TRUE] ELSE follows[k]]
  /\ worker' = [worker EXCEPT ![w].pc = "unfollow"]
  /\ UNCHANGED <<position, pins, hop, names, orphans, counters>>

(* Mutation of Ended: all records of the follower end. *)
EndedAll(c, ended) ==
  [k \in DOMAIN c |-> IF \E q \in ended : k[2] = By(q) THEN [c[k] EXCEPT !.on = FALSE] ELSE c[k]]

Ended(c, ended) ==
  [k \in DOMAIN c |-> IF c[k].pin \in ended THEN [c[k] EXCEPT !.on = FALSE] ELSE c[k]]

(***************************************************************************)
(* Then the follow pins revoked, by followpinid, whether the revoke is     *)
(* refused or not.  A record is inserted when there is none; when there    *)
(* are two either may be the one updated.                                  *)
(***************************************************************************)
WriteUnfollows(w) ==
  /\ At(w, "unfollow")
  /\ LET seen == worker[w].seen
         ended == {Of(p) : p \in {r \in Range(List(w)) :
                              Op(r) = "revoke" /\ KindOf(r, seen) = "follow"}}
         recorded == {follows[k].pin : k \in DOMAIN follows} IN
     /\ \E passed \in SUBSET (ended \cap recorded \cap orphans) :
          follows' = Ended(follows, ended \ passed)
     /\ orphans' = orphans \cup (ended \ recorded)
  /\ worker' = [worker EXCEPT ![w] = Idle]
  /\ UNCHANGED <<position, pins, hop, names, counters>>

Run(w) ==
  \/ CheckTransfer(w) \/ ReadNames(w) \/ ReadOriginals(w) \/ ReadNumber(w)
  \/ WriteNames(w) \/ StorePins(w) \/ TransferNew(w) \/ UpdatePins(w)
  \/ WriteFollows(w) \/ WriteUnfollows(w)

----------------------------------------------------------------------------

Init ==
  /\ chain \in Chains
  /\ best = 0 /\ maxHeight = 0 /\ step = 0
  /\ pins = <<>>
  /\ hop = [p \in Pins |-> 0]
  /\ names = [a \in Addresses |-> NoPin]
  /\ follows = <<>> /\ orphans = {}
  /\ worker = [w \in Workers |-> Idle]
  /\ faults = 0 /\ crashes = 0 /\ reindexed = 0

Next ==
  /\ \/ Round \/ TakeNext \/ Rerun \/ (\E h \in Heights : Reindex(h)) \/ Crash
     \/ \E w \in Workers : FetchFails(w) \/ Run(w)
  /\ UNCHANGED chain

Spec == Init /\ [][Next]_vars

----------------------------------------------------------------------------

(* Every variable has the form the collections and the code give it: a pin is *)
(* stored with a number and one of the statuses, and goroutines are in blocks *)
(* that exist (man/man.go:284-350).                                           *)
TypeOK ==
  /\ chain \in Chains
  /\ best \in 0..Tip /\ maxHeight \in -Back..best /\ step \in 0..(Tip + Back)
  /\ Stored \subseteq Pins
  /\ \A p \in Stored : pins[p] \in [status: Status, kind: Kinds, number: Nat]
  /\ \A p \in Pins : hop[p] \in 0..Len(chain.route[p])
  /\ names \in [Addresses -> Pins \cup {NoPin}]
  /\ DOMAIN follows \subseteq Addresses \X Addresses
  /\ \A k \in DOMAIN follows : follows[k] \in [pin: Pins, on: BOOLEAN]
  /\ orphans \subseteq Pins
  /\ \A w \in Workers : At(w, "idle") \/ worker[w].h \in 1..best
  /\ faults \in 0..MaxFaults /\ crashes \in 0..MaxCrashes /\ reindexed \in 0..MaxReindex

Before(p, q) ==
  \/ Height(p) < Height(q)
  \/ /\ Height(p) = Height(q)
     /\ \E i, j \in DOMAIN chain.blocks[Height(p)] :
          i < j /\ chain.blocks[Height(p)][i] = p /\ chain.blocks[Height(p)][j] = q

(* No block is indexed ahead of its turn: the API is called for earlier ones. *)
InTurn == chain.steady \/ reindexed = 0

(* While the node delivers every block, numbers count the stored pins in the  *)
(* order of the chain, without a gap, whatever is run again and after         *)
(* crashes; one lost block disturbs the order, but numbers are still given    *)
(* once (createPinNumber, man/man.go:454-469).  Two lost blocks would be run  *)
(* again at the same time.                                                    *)
Numbers ==
  /\ faults <= 1 /\ (InTurn \/ crashes = 0) =>
       \A p, q \in Stored : pins[p].number = pins[q].number => p = q
  /\ faults = 0 /\ InTurn =>
       \A p \in Stored : pins[p].number = Cardinality({q \in Stored : Before(q, p)})

Ops(p) == {r \in Stored : Op(r) # "create" /\ Of(r) = p}

MovedBy(p, h) == \E i \in DOMAIN chain.route[p] : chain.route[p][i].h <= h

(* An operation that an owner who never gave the pin away may do. *)
Rightful(r) ==
  LET p == Of(r) IN
  /\ By(r) = By(p) /\ Height(p) < Height(r) /\ ~MovedBy(p, Height(r))
  /\ ~(Op(r) = "revoke" /\ Op(p) = "create" /\ chain.pin[p].kind = "name")

(* When no block is lost, no crash cuts a block short and none comes before   *)
(* its turn, a pin is modified or revoked only by its author, in a later      *)
(* block, before it is transferred, also when the author's block is run again *)
(* after the transfer (getModifyPinStatus, man/man.go:633-685).               *)
OnlyOwners ==
  faults = 0 /\ crashes = 0 /\ InTurn =>
    \A p \in Stored : pins[p].status \in {-1, 1} =>
      \E r \in Ops(p) : Rightful(r) /\ Mark(r) = pins[p].status

(* An operation was not refused; one that is itself operated on shows another status. *)
Accepted(r) == pins[r].status # -2 /\ Ops(r) = {}

(* Of the pins that modify one pin in different blocks at most one is         *)
(* accepted, even if its block is lost at first, unless the pin is revoked in *)
(* between, a crash comes before the status is written, or both blocks are    *)
(* lost and run again at the same time (man/man.go:646-649, 543-547).         *)
ModifiedOnce ==
  crashes = 0 /\ faults <= 1 =>
    \A p \in Pins : (\A r \in Ops(p) : Op(r) = "modify") =>
      \A q, r \in Ops(p) : Accepted(q) /\ Accepted(r) => Height(q) = Height(r)

(* The loop keeps up, nothing fails, and the last re-runs of every block that *)
(* holds pin p are over.                                                      *)
Healed(p) ==
  /\ chain.steady /\ faults = 0 /\ crashes = 0 /\ reindexed = 0
  /\ Quiet /\ step = 0
  /\ p \in Stored
  /\ Height(p) + Back <= best

(* An operation in the same block or run again early may take effect late or  *)
(* undo a later one for a while, but once the re-runs of its operations are   *)
(* over a pin has the status the last rightful one gives it                   *)
(* (man/man.go:274-279, 543-547, database/mongodb/pins.go:89-109).            *)
StatusHeals ==
  \A p \in Stored :
    LET due == {r \in Pins : Op(r) # "create" /\ Of(r) = p} IN
    (/\ due # {} /\ chain.route[p] = <<>>
     /\ \A r \in due : Healed(r) /\ Rightful(r)
     /\ \A q, r \in due : Height(q) = Height(r) => q = r)
    => \E r \in due : /\ \A q \in due : Height(q) <= Height(r)
                      /\ pins[p].status = Mark(r)

(* An address that only ever creates name pins has, once their re-runs are    *)
(* over, the name of the last one, although each re-run writes its own again  *)
(* (metaIdInfoParse, man/man.go:711-714).                                     *)
NamesHeal ==
  \A a \in Addresses :
    LET mine == {p \in Pins : By(p) = a} IN
    (/\ mine # {}
     /\ \A p \in mine : Healed(p) /\ Op(p) = "create" /\ chain.pin[p].kind = "name")
    => \A p \in mine : p # names[a] => Before(p, names[a])

(* Who follows whom once and ends it at most once is recorded as following    *)
(* exactly if it is not ended, once the re-runs are over, although a re-run   *)
(* of the block of the follow pin starts it again                             *)
(* (database/mongodb/follow.go:29-56).                                        *)
FollowHeals ==
  \A p \in Stored : LET key == <<chain.pin[p].who, By(p)>> IN
    (/\ Healed(p) /\ Op(p) = "create" /\ chain.pin[p].kind = "follow"
     /\ \A q \in Pins \ {p} : Op(q) = "create" /\ chain.pin[q].kind = "follow"
           => By(q) # By(p) \/ chain.pin[q].who # chain.pin[p].who
     /\ \A r \in Pins : Of(r) = p => Healed(r))
    => /\ key \in DOMAIN follows
       /\ follows[key].pin = p
       /\ follows[key].on <=> ~\E r \in Pins : Of(r) = p /\ Op(r) = "revoke"

(* What a round of re-runs puts back of other blocks' work is right again at  *)
(* its end: the names and the follow records.                                 *)
InfoHeals == NamesHeal /\ FollowHeals
=============================================================================
