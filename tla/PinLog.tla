------------------------------- MODULE PinLog -------------------------------
(***************************************************************************)
(* The pins and mempoolpins collections as their readers see them: the     *)
(* goroutines of metaso, metaname and mrc721 poll them by _id and keep in  *)
(* sync_lastid_log how far they have read (database/mongodb/mg.go).        *)
(*                                                                         *)
(* An _id is drawn by the goroutine that inserts, before it inserts, so    *)
(* that of two goroutines the one with the lower _ids may insert later.    *)
(***************************************************************************)
EXTENDS Integers, Sequences, FiniteSetsExt

CONSTANTS
  Chains,     \* the logs and circumstances considered
  Keys,       \* the keys of sync_lastid_log
  MaxCrashes  \* bound on crashes

ASSUME KeysAssumption ==
  {"tweet", "tweetlike", "metasodonate", "tweetcomment", "mempool", "metanametransfer",
   "metablock"} \subseteq Keys

(***************************************************************************)
(* A log is listed by _id.  The confirmed documents of a block come before *)
(* those of a later one, which draws its _ids later.                       *)
(***************************************************************************)
ASSUME LogAssumption ==
  \A c \in Chains :
    /\ c.log \in Seq({c.log[i] : i \in DOMAIN c.log})
    /\ \A i, j \in DOMAIN c.log :
         /\ c.log[i].block \in Nat
         /\ 0 < c.log[i].block /\ c.log[i].block < c.log[j].block => i < j

(* A pin is stored once by the mempool, once by its block, and says the same in both. *)
ASSUME PinsAssumption ==
  \A c \in Chains : \A i, j \in DOMAIN c.log :
    /\ c.log[i].pin # "unknown"
    /\ c.log[i].pin = c.log[j].pin /\ (c.log[i].block = 0 <=> c.log[j].block = 0) => i = j
    /\ c.module = "mrc721" /\ c.log[i].pin = c.log[j].pin => c.log[i].of = c.log[j].of

(***************************************************************************)
(* The metablocks another service divides the blocks into, some perhaps    *)
(* empty: the first and the last block of each, and the one that the       *)
(* pending blocks follow.                                                  *)
(***************************************************************************)
ASSUME MetaAssumption ==
  \A c \in Chains :
    /\ c.meta \in Seq(Int \X Int \X Int)
    /\ \A n \in DOMAIN c.meta :
         /\ c.meta[n][1] <= c.meta[n][2] + 1 /\ c.meta[n][3] <= c.meta[n][2]
         /\ n > 1 => c.meta[n][1] = c.meta[n - 1][2] + 1

VARIABLES
  chain,    \* fixed: log, the documents by _id; late, how many inserts may overtake one;
            \* by, the author of each pin; route, the addresses it moves to; alone, the
            \* blocks that were the only one of their round of the indexing loop
  stored,   \* the _ids inserted so far
  gone,     \* mempool pins deleted after their block was indexed
  cursor,   \* sync_lastid_log: the last _id of each reader, 0 for none
  hop,      \* how far each pin has moved along its route
  moving,   \* pins moved whose transfer is not yet in the history
  history,  \* pintransferhistory, by _id
  crashes   \* how often the process has crashed

pinvars == <<chain, stored, gone, hop, moving, history>>
logvars == <<pinvars, cursor, crashes>>

(* A document has a pin, a block (0 in the mempool), and what its reader looks at. *)
Ids == DOMAIN chain.log

Pin(i) == chain.log[i].pin

Pending(i) == chain.log[i].block = 0

Pins == {Pin(i) : i \in Ids}

Blocks == {chain.log[i].block : i \in Ids} \ {0}

LogInit ==
  /\ chain \in Chains
  /\ stored = {} /\ gone = {}
  /\ cursor = [k \in Keys |-> 0]
  /\ hop = [p \in Pins |-> 0] /\ moving = {} /\ history = <<>>
  /\ crashes = 0

LogTypeOK ==
  /\ chain \in Chains
  /\ gone \subseteq stored /\ stored \subseteq Ids
  /\ \A k \in Keys : cursor[k] \in Nat
  /\ \A p \in Pins : hop[p] \in 0..Len(chain.route[p])
  /\ moving \subseteq Pins /\ Len(history) <= Cardinality(Pins) * 2
  /\ crashes \in 0..MaxCrashes

(* BatchAddPins: one insert for the pins of a block. *)
StoreBlock(b) ==
  LET of(c) == {i \in Ids : chain.log[i].block = c} IN
  /\ ~ of(b) \subseteq stored
  /\ \A c \in Blocks : c < b - chain.late => of(c) \subseteq stored
  /\ stored' = stored \cup of(b)
  /\ UNCHANGED <<chain, gone, hop, moving, history, cursor, crashes>>

(* handleMempoolPin; a pin confirmed already is not announced any more. *)
Announce(i) ==
  /\ Pending(i) /\ i \notin stored
  /\ \A j \in stored : Pin(j) # Pin(i) /\ j < i
  /\ stored' = stored \cup {i}
  /\ UNCHANGED <<chain, gone, hop, moving, history, cursor, crashes>>

(* DeleteMempoolInscription: the pins of a block leave the mempool. *)
Discard(i) ==
  /\ Pending(i) /\ i \in stored \ gone
  /\ \E j \in stored : Pin(j) = Pin(i) /\ ~Pending(j)
  /\ gone' = gone \cup {i}
  /\ UNCHANGED <<chain, stored, hop, moving, history, cursor, crashes>>

(* The address of a pin: its author's, or where it has moved. *)
Owner(p) == IF hop[p] = 0 THEN chain.by[p] ELSE chain.route[p][hop[p]]

(* UpdateTransferPin, of handleTransfer. *)
MovePin(p) ==
  /\ p \notin moving
  /\ hop[p] < Len(chain.route[p])
  /\ \E i \in stored : Pin(i) = p /\ ~Pending(i)
  /\ hop' = [hop EXCEPT ![p] = @ + 1]
  /\ moving' = moving \cup {p}
  /\ UNCHANGED <<chain, stored, gone, history, cursor, crashes>>

(***************************************************************************)
(* AddTransferHistory.  The pin is named after the output it has left,     *)
(* which is its id only the first time it moves.                           *)
(***************************************************************************)
RecordMove(p) ==
  /\ p \in moving
  /\ moving' = moving \ {p}
  /\ history' = Append(history, [pin |-> IF hop[p] = 1 THEN p ELSE "unknown", to |-> Owner(p)])
  /\ UNCHANGED <<chain, stored, gone, hop, cursor, crashes>>

LogNext ==
  \/ \E b \in Blocks : StoreBlock(b)
  \/ \E i \in Ids : Announce(i) \/ Discard(i)
  \/ \E p \in Pins : MovePin(p) \/ RecordMove(p)

(* The transfer is not found again: the pin is at its new output already. *)
LogCrash ==
  /\ crashes < MaxCrashes
  /\ crashes' = crashes + 1
  /\ moving' = {}
  /\ UNCHANGED <<chain, stored, gone, hop, history, cursor>>

(* GetSyncLastId: what the reader has not read. *)
Above(key) == {i \in stored \ gone : i > cursor[key]}

(* Mutation of LastId: the first document of the batch. *)
FirstId(batch) == Min(batch)

LastId(batch) == Max(batch)

(* UpdateSyncLastIdLog. *)
SaveCursor(key, id) == cursor' = [cursor EXCEPT ![key] = id]

(* Sort by _id and limit. *)
Lowest(s, n) == {i \in s : Cardinality({j \in s : j < i}) < n}
=============================================================================
