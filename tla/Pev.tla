-------------------------------- MODULE Pev --------------------------------
(***************************************************************************)
(* The values the metaso module computes for hosts and addresses: SyncPEV  *)
(* evaluates one metablock after the other, and in between the pending     *)
(* blocks after the last one (sync_pev.go, pev_count.go).  A metablock     *)
(* comes from another service: its first block, its last block, and the    *)
(* block the pending ones follow (lastBlock); of the chains, whose blocks  *)
(* are counted in turn, the model has one.                                 *)
(*                                                                         *)
(* A document of the log has a kind; the pin it is about (to), or for a    *)
(* follow an address; its host, if one of AllowHost.  Each value is one    *)
(* unit; a pin that is about another gives one to both.                    *)
(***************************************************************************)
EXTENDS PinLog

VARIABLES
  rows,       \* metaso_pevdata: from, to, metablock, host, address
  blockHost,  \* metaso_block_ndvdata, by metablock and host: value and history
  blockAddr,  \* metaso_block_mdvdata, by metablock and address
  blockInfo,  \* metaso_block_info, by metablock
  totals,     \* metaso_ndvdata and metaso_mdvdata: the value of a host, of an address
  pev         \* SyncPEV: its step, the metablock, its blocks, the rows counted

pevvars == <<rows, blockHost, blockAddr, blockInfo, totals, pev>>

Unborn == -1   \* the number of the metablock that has not come yet

Doc(i) == chain.log[i]

Confirmed == {i \in stored : Doc(i).block > 0}

Restart(pc) == [pc |-> pc, meta |-> Unborn, range |-> <<1, 0>>, list |-> {}]

At(pc) == pev.pc = pc

(* The number of metablocks evaluated, one more than lastnumber of "metablock". *)
Evaluated == cursor["metablock"]

----------------------------------------------------------------------------
(* CountBlockPEV and CountPDV. *)

Row(i, to, meta, address) ==
  [from |-> Pin(i), to |-> Pin(to), meta |-> meta, host |-> Doc(to).host, address |-> address]

(* createPDV: for the author of the target; if that is another pin, for the pin's owner too. *)
CreatePDV(i, to, meta) ==
  {Row(i, to, meta, chain.by[Pin(to)])}
    \cup (IF to = i THEN {} ELSE {Row(i, i, meta, Owner(Pin(i)))})

ById(p) == {j \in Confirmed : Pin(j) = p}

(* countFollowPDV: the first pin an address owns now. *)
FirstOf(a) == Lowest({j \in Confirmed : Owner(Pin(j)) = a}, 1)

(* countPayLike, countDonatePDV and the like: nothing without a target, or for an unlike. *)
Targets(i) ==
  CASE Doc(i).kind = "other" -> {i}
    [] Doc(i).kind = "unlike" -> {}
    [] Doc(i).kind = "follow" -> FirstOf(Doc(i).to)
    [] OTHER -> IF Doc(i).kind = "buzz" /\ Doc(i).to = "" THEN {i} ELSE ById(Doc(i).to)

CountBlockPEV(range, meta) ==
  LET pins == {i \in Confirmed : Doc(i).block \in range[1]..range[2] /\ Doc(i).host # "unknown"}
  IN  UNION {UNION {CreatePDV(i, to, meta) : to \in Targets(i)} : i \in pins}

(* The unique index; what is there stays. *)
SameRow(r, s) == r.from = s.from /\ r.to = s.to /\ r.meta = s.meta

(* Mutation of AddRows: no index at all. *)
AddRowsAgain(old, new) == old \cup new

AddRows(old, new) == old \cup {r \in new : \A s \in old : ~SameRow(r, s)}

----------------------------------------------------------------------------
(* syncPEV and syncPendingPEV. *)

(* Mutation of DropPending. *)
KeepPending == rows' = rows

DropPending == rows' = {r \in rows : r.meta # Unborn}

(* The blocks of metablock n are indexed, as far as MaxHeight can say. *)
Indexed(n) ==
  \A i \in Ids : Doc(i).block \in 1..(chain.meta[n][2] - chain.early) => i \in stored

(* getLastMetaBlock(1): the next one, if the service has it, when its blocks are indexed. *)
BeginPEV ==
  /\ At("next") \/ At("skipped")
  /\ \/ /\ Evaluated < Len(chain.meta) /\ Indexed(Evaluated + 1)
        /\ DropPending
        /\ pev' = [Restart("count") EXCEPT !.meta = Evaluated, !.range = chain.meta[Evaluated + 1]]
     \/ pev' = Restart("pending") /\ UNCHANGED rows
  /\ UNCHANGED <<logvars, blockHost, blockAddr, blockInfo, totals>>

(***************************************************************************)
(* From after what the last metablock calls its last block, to the best    *)
(* height; unless there is none yet, or the service does not answer, which *)
(* leaves the pending rows and the totals as they are.                     *)
(***************************************************************************)
BeginPending ==
  /\ At("pending")
  /\ \/ /\ Evaluated > 0
        /\ DropPending
        /\ pev' = [Restart("count") EXCEPT !.range = <<chain.meta[Evaluated][3] + 1, Max(Blocks)>>]
     \/ pev' = Restart(IF Evaluated = 0 THEN "next" ELSE "skipped") /\ UNCHANGED rows
  /\ UNCHANGED <<logvars, blockHost, blockAddr, blockInfo, totals>>

CountBlocks ==
  /\ At("count")
  /\ LET new == CountBlockPEV(pev.range, pev.meta) IN
     /\ rows' = AddRows(rows, new)
     /\ pev' = [pev EXCEPT !.pc = "info", !.list = new]
  /\ UNCHANGED <<logvars, blockHost, blockAddr, blockInfo, totals>>

(* Documents written with SetUpsert. *)
Upsert(new, old) ==
  [k \in DOMAIN new \cup DOMAIN old |-> IF k \in DOMAIN new THEN new[k] ELSE old[k]]

(* getBlockHistory: what the metablock before says of itself. *)
BlockHistory(n) ==
  IF n \in DOMAIN blockInfo THEN blockInfo[n].history + blockInfo[n].value ELSE 0

SaveInfo ==
  /\ At("info")
  /\ blockInfo' = Upsert([n \in {pev.meta} |->
       [value |-> Cardinality(pev.list),
        history |-> IF n > 0 THEN BlockHistory(n - 1) ELSE 0]], blockInfo)
  /\ pev' = [pev EXCEPT !.pc = "hosts"]
  /\ UNCHANGED <<logvars, rows, blockHost, blockAddr, totals>>

Keep(values) ==
  IF pev.meta # Unborn THEN values
  ELSE [k \in {k \in DOMAIN values : k[1] # Unborn} |-> values[k]]

(* Mutation of History: the metablock itself too. *)
HistoryUpTo(k) == {r \in rows : r.meta \in 0..k[1]}

(* getBlockHistoryValue: the rows of the metablocks before. *)
History(k) == {r \in rows : r.meta \in 0..(k[1] - 1)}

(* UpdateBlockValue: upserts of what the list adds up to. *)
UpdateBlockHosts ==
  /\ At("hosts")
  /\ blockHost' = Upsert([k \in {<<pev.meta, r.host>> : r \in pev.list} |->
       [value |-> Cardinality({r \in pev.list : r.host = k[2]}),
        history |-> Cardinality({r \in History(k) : r.host = k[2]})]], Keep(blockHost))
  /\ pev' = [pev EXCEPT !.pc = "addresses"]
  /\ UNCHANGED <<logvars, rows, blockAddr, blockInfo, totals>>

UpdateBlockAddresses ==
  /\ At("addresses")
  /\ blockAddr' = Upsert([k \in {<<pev.meta, r.address>> : r \in pev.list} |->
       [value |-> Cardinality({r \in pev.list : r.address = k[2]}),
        history |-> Cardinality({r \in History(k) : r.address = k[2]})]], Keep(blockAddr))
  /\ pev' = [pev EXCEPT !.pc = "totals"]
  /\ UNCHANGED <<logvars, rows, blockHost, blockInfo, totals>>

(* The rows of a host or an address, in all metablocks. *)
SumOf(n) == Cardinality({r \in rows : n \in {r.host, r.address}})

(* UpdateDataValue: the sum over all rows, also the pending ones, for those in the list. *)
UpdateTotals ==
  /\ At("totals")
  /\ LET named == {r.host : r \in pev.list} \cup {r.address : r \in pev.list}
     IN totals' = Upsert([n \in {n \in named : SumOf(n) > 0} |-> SumOf(n)], totals)
  /\ IF pev.meta = Unborn THEN pev' = Restart("next") ELSE pev' = [pev EXCEPT !.pc = "save"]
  /\ UNCHANGED <<logvars, rows, blockHost, blockAddr, blockInfo>>

SaveMetablock ==
  /\ At("save")
  /\ SaveCursor("metablock", pev.meta + 1)
  /\ pev' = Restart("pending")
  /\ UNCHANGED <<pinvars, crashes, rows, blockHost, blockAddr, blockInfo, totals>>

PevInit ==
  /\ rows = {} /\ blockHost = << >> /\ blockAddr = << >> /\ blockInfo = << >>
  /\ totals = << >> /\ pev = Restart("pending")

PevCrash ==
  /\ LogCrash
  /\ pev' = Restart("pending")
  /\ UNCHANGED <<rows, blockHost, blockAddr, blockInfo, totals>>

SyncPEV ==
  \/ BeginPEV \/ BeginPending \/ CountBlocks \/ SaveInfo
  \/ UpdateBlockHosts \/ UpdateBlockAddresses \/ UpdateTotals \/ SaveMetablock

PevNext == SyncPEV \/ PevCrash

PevTypeOK ==
  /\ \A r \in rows : {r.from, r.to} \subseteq Pins /\ r.meta \in Unborn..Len(chain.meta)
  /\ \A r, s \in rows : SameRow(r, s) => r = s
  /\ Evaluated <= Len(chain.meta)
  /\ pev.pc \in {"next", "skipped", "pending", "count", "info", "hosts", "addresses", "totals", "save"}

----------------------------------------------------------------------------
(* What the pages show (statistics_data.go). *)

RowsOf(n) == {r \in rows : r.meta = n}

(* getBlockNDVPageList, getHostValuePageList: the hosts of a metablock. *)
HostValue(n, h) == LET v == blockHost[<<n, h>>] IN v.value + v.history

(* getBlockMDVPageList. *)
AddressValue(n, a) == LET v == blockAddr[<<n, a>>] IN v.value + v.history

(* What is counted for a block may only grow: no pin moves, and no insert overtakes. *)
Steady == chain.late = 0 /\ \A p \in Pins : hop[p] = 0

(***************************************************************************)
(* The values of an evaluated metablock, its hosts and its addresses, kept *)
(* in three collections, agree with the rows they were counted from, now   *)
(* and after crashes and repeats; unless a pin moved, or one of a lower    *)
(* _id was inserted, between two attempts at the same metablock            *)
(* (sync_pev.go:108-146).                                                  *)
(***************************************************************************)
ValuesAgree ==
  crashes = 0 \/ Steady =>
    \A n \in 0..(Evaluated - 1) :
      LET upTo == {r \in rows : r.meta \in 0..n} IN
      /\ blockInfo[n].value + blockInfo[n].history = Cardinality(upTo)
      /\ \A r \in RowsOf(n) :
           /\ HostValue(n, r.host) = Cardinality({s \in upTo : s.host = r.host})
           /\ AddressValue(n, r.address) = Cardinality({s \in upTo : s.address = r.address})

(* The service says that the pending blocks follow the last block of each of the first n. *)
PendingFollow(n) == \A m \in 1..n : chain.meta[m][3] = chain.meta[m][2]

(***************************************************************************)
(* After the pending blocks are counted, the total of every host and       *)
(* address is the sum of its rows, and no pin counts for the same target   *)
(* in two metablocks; unless pins move or are inserted late, and except    *)
(* that a metablock whose evaluation a crash broke off is pending once     *)
(* more, and so are the last blocks of one after which the service lets    *)
(* the pending ones begin too early; with the next metablock their pending *)
(* rows go, and the totals keep them (sync_pev.go:108, 150-231,            *)
(* pev_count.go:231).                                                      *)
(***************************************************************************)
TotalsRight ==
  At("next") /\ Evaluated > 0 /\ Steady =>
    /\ PendingFollow(Evaluated - 1) => \A n \in DOMAIN totals : totals[n] = SumOf(n)
    /\ \/ \E r \in rows : r.meta = Evaluated
       \/ ~PendingFollow(Evaluated)
       \/ \A r, s \in rows : r.from = s.from /\ r.to = s.to => r = s
=============================================================================
