------------------------------- MODULE Mrc721 -------------------------------
(***************************************************************************)
(* The mrc721 module: collections, their items and the descriptions of     *)
(* items, out of the pins and mempool pins below /nft/mrc721               *)
(* (basicprotocols/mrc721).                                                *)
(*                                                                         *)
(* A document of the log has a kind, "collection", "item" or "desc"; its   *)
(* collection (of); and the item a description is about (item).            *)
(***************************************************************************)
EXTENDS PinLog

CONSTANTS Supply   \* totalsupply, -1 for no limit

VARIABLES
  collections, \* by name: the pin and totalnum
  items,       \* by pin: collection, whether in the mempool, whether described, address
  job,         \* sync: its step, the documents read, the items accepted
  todo,        \* SyncAddress: the items it has not come to
  merging      \* SyncAddress: the item it is about to write back, {} for none

nftvars == <<collections, items, job, todo, merging>>
sweep == <<todo, merging>>

Doc(i) == chain.log[i]

At(pc) == job.pc = pc

Confirmed(p) == \E i \in stored : Pin(i) = p /\ ~Pending(i)

Resting(pc) == [pc |-> pc, docs |-> {}, owner |-> << >>, accepted |-> {}, last |-> 0]

OfKind(k) == {i \in job.docs : Doc(i).kind = k}

(* PinsView: pins and mempool pins. *)
ReadView ==
  /\ At("read")
  /\ LET found == Above("mrc721") IN
     job' = IF found = {} THEN Resting("transfers")
            ELSE [Resting("collections") EXCEPT
              !.docs = found, !.last = LastId(found), !.owner = [i \in found |-> Owner(Pin(i))]]
  /\ UNCHANGED <<logvars, collections, items, sweep>>

(* collectionHandle: a pin that makes no collection is dereferenced, the process ends. *)
Broken == \E i \in OfKind("collection") : ~Doc(i).ok

(* SaveMrc721Collection: not of the mempool, and not a name again. *)
SaveCollections ==
  /\ At("collections") /\ ~Broken
  /\ LET confirmed == {i \in OfKind("collection") : ~Pending(i)}
         new == {Doc(i).of : i \in confirmed} \ DOMAIN collections IN
     \E first \in [new -> confirmed] :
       /\ \A c \in new : Doc(first[c]).of = c
       /\ collections' = [c \in DOMAIN collections \cup new |->
            IF c \in new THEN [pin |-> Pin(first[c]), total |-> 0] ELSE collections[c]]
  /\ job' = [job EXCEPT !.pc = "items"]
  /\ UNCHANGED <<logvars, items, sweep>>

(* Mutation of RoomFor: as many as were there before, and all of the batch. *)
RoomForAll(c, n) == Supply = -1 \/ collections[c].total < Supply

(* Validator.Item: room for one more, n being the items of the batch before it. *)
RoomFor(c, n) == Supply = -1 \/ collections[c].total + n + 1 <= Supply

(***************************************************************************)
(* The items accepted: of collections stored by now; the first ones, in    *)
(* an order the find does not fix, that find room.  All are counted, also  *)
(* those stored before.                                                    *)
(***************************************************************************)
Acceptable(s) ==
  LET known == {i \in OfKind("item") : Doc(i).of \in DOMAIN collections}
      of(t, c) == {i \in t : Doc(i).of = c} IN
  /\ s \subseteq known
  /\ \A c \in DOMAIN collections :
       LET n == Cardinality(of(s, c)) IN
       /\ n > 0 => RoomFor(c, n - 1)
       /\ of(s, c) = of(known, c) \/ ~RoomFor(c, n)

AcceptItems ==
  /\ At("items")
  /\ \E s \in SUBSET OfKind("item") :
       Acceptable(s) /\ job' = [job EXCEPT !.pc = "save", !.accepted = s]
  /\ UNCHANGED <<logvars, collections, items, sweep>>

(* SaveMrc721Item: the whole document, over one that is there. *)
SaveItems ==
  /\ At("save")
  /\ LET new == {Pin(i) : i \in job.accepted}
         doc(p) == LET mine == {i \in job.accepted : Pin(i) = p} IN
                   [of |-> Doc(Max(mine)).of, mempool |-> \A i \in mine : Pending(i),
                    described |-> FALSE, address |-> job.owner[Max(mine)]] IN
     items' = [p \in DOMAIN items \cup new |-> IF p \in new THEN doc(p) ELSE items[p]]
  /\ job' = [job EXCEPT !.pc = "describe"]
  /\ UNCHANGED <<logvars, collections, sweep>>

(* itemDescHandle and UpdateMrc721ItemDesc: once, of a collection that is there. *)
DescribeItems ==
  /\ At("describe")
  /\ LET about == {Doc(i).item : i \in {i \in OfKind("desc") : Doc(i).of \in DOMAIN collections}} IN
     items' = [p \in DOMAIN items |->
                 IF p \in about THEN [items[p] EXCEPT !.described = TRUE] ELSE items[p]]
  /\ job' = [job EXCEPT !.pc = "count"]
  /\ UNCHANGED <<logvars, collections, sweep>>

(* BatchUpdateMrc721CollectionCount. *)
CountItems ==
  /\ At("count")
  /\ LET named == {Doc(i).of : i \in OfKind("item")} IN
     collections' = [c \in DOMAIN collections |->
       IF c \in named
       THEN [collections[c] EXCEPT !.total = Cardinality({p \in DOMAIN items : items[p].of = c})]
       ELSE collections[c]]
  /\ job' = [job EXCEPT !.pc = "cursor"]
  /\ UNCHANGED <<logvars, items, sweep>>

SaveCursor721 ==
  /\ At("cursor")
  /\ SaveCursor("mrc721", job.last)
  /\ job' = Resting("transfers")
  /\ UNCHANGED <<pinvars, crashes, collections, items, sweep>>

----------------------------------------------------------------------------
(* Transfers, and the addresses copied from the pins. *)

(* The last transfer of a pin among those after the first n. *)
MovesOf(p, n) == {k \in (n + 1)..Len(history) : history[k].pin = p}

MoveItems ==
  /\ At("transfers")
  /\ LET n == cursor["mrc721transfer"] IN
     /\ items' = [p \in DOMAIN items |->
          IF MovesOf(p, n) = {} THEN items[p]
          ELSE [items[p] EXCEPT !.address = history[Max(MovesOf(p, n))].to]]
     /\ job' = IF n = Len(history) THEN Resting("read")
               ELSE [Resting("saveTransfers") EXCEPT !.last = Len(history)]
  /\ UNCHANGED <<logvars, collections, sweep>>

SaveMoves ==
  /\ At("saveTransfers")
  /\ SaveCursor("mrc721transfer", job.last)
  /\ job' = Resting("read")
  /\ UNCHANGED <<pinvars, crashes, collections, items, sweep>>

(* SyncAddress, a goroutine of its own: all items in turn; each is joined with its pin ... *)
Sweep ==
  /\ todo = {} /\ merging = {}
  /\ todo' = {p \in DOMAIN items : Confirmed(p)}
  /\ UNCHANGED <<logvars, collections, items, job, merging>>

JoinAddress ==
  /\ merging = {}
  /\ \E p \in todo :
       /\ todo' = todo \ {p}
       /\ merging' = {[pin |-> p, doc |-> [items[p] EXCEPT !.address = Owner(p)]]}
  /\ UNCHANGED <<logvars, collections, items, job>>

(* Mutation of MergeAddress: only items that are described. *)
MergeDescribed ==
  /\ \E m \in merging :
       items' = [items EXCEPT ![m.pin] = IF @.described THEN m.doc ELSE @]
  /\ merging' = {}
  /\ UNCHANGED <<logvars, collections, job, todo>>

(* ... and merged into the collection of items, all its fields. *)
MergeAddress ==
  /\ \E m \in merging : items' = [items EXCEPT ![m.pin] = m.doc]
  /\ merging' = {}
  /\ UNCHANGED <<logvars, collections, job, todo>>

NftInit ==
  /\ collections = << >> /\ items = << >> /\ job = Resting("read")
  /\ todo = {} /\ merging = {}

NftCrash ==
  /\ LogCrash
  /\ job' = Resting("read") /\ todo' = {} /\ merging' = {}
  /\ UNCHANGED <<collections, items>>

NftSync ==
  \/ ReadView \/ SaveCollections \/ AcceptItems \/ SaveItems \/ DescribeItems
  \/ CountItems \/ SaveCursor721 \/ MoveItems \/ SaveMoves

SyncAddress == Sweep \/ JoinAddress \/ MergeAddress

NftNext == NftSync \/ SyncAddress \/ NftCrash

NftTypeOK ==
  /\ \A c \in DOMAIN collections : collections[c].pin \in Pins /\ collections[c].total \in Nat
  /\ \A p \in DOMAIN items :
       p \in Pins /\ {items[p].mempool, items[p].described} \subseteq BOOLEAN
  /\ job.pc \in {"read", "collections", "items", "save", "describe", "count", "cursor",
                 "transfers", "saveTransfers"}
  /\ job.docs \subseteq Ids /\ job.accepted \subseteq job.docs
  /\ todo \subseteq DOMAIN items
  /\ \A m \in merging : m.pin \in DOMAIN items

(***************************************************************************)
(* A collection has no more items than its totalsupply, also when batches  *)
(* are cut differently, an item is seen in the mempool and in its block,   *)
(* or the count is behind; a crash between SaveMrc721Item and the count    *)
(* can break this (pin_handle.go:57-80, mrc721_validator.go:92-99).        *)
(***************************************************************************)
SupplyKept ==
  Supply # -1 /\ crashes = 0 =>
    \A c \in DOMAIN collections : Cardinality({p \in DOMAIN items : items[p].of = c}) <= Supply

(***************************************************************************)
(* Every item of a confirmed pin comes to have its pin's owner and to keep *)
(* it, although only first moves reach it through the history, and crashes *)
(* lose some of those (mrc721_db.go:237).                                  *)
(***************************************************************************)
ItemOwnerHeals ==
  <>[](\A p \in DOMAIN items :
         Confirmed(p) => items[p].address = Owner(p))
=============================================================================
