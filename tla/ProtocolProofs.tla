--------------------------- MODULE ProtocolProofs ---------------------------
(***************************************************************************)
(* Proofs about the modules that read metanames and mrc721 collections     *)
(* from the log, for any log, any routes of the pins, any total supply and *)
(* any number of crashes; that the readers of metaso that save their       *)
(* cursor first implement LogReader; and about the values metaso counts,   *)
(* for any metablocks.                                                     *)
(***************************************************************************)
EXTENDS ReadersProofs

(***************************************************************************)
(* The names.                                                              *)
(***************************************************************************)

Addresses == {chain.by[p] : p \in Pins} \cup {chain.route[p][h] : p \in Pins, h \in Nat}

Moves == [pin : Pins \cup {"unknown"}, to : Addresses]

(* What moves, and the history of it; the first move of a pin is noted under its id. *)
MovesInv ==
  /\ hop \in [Pins -> Nat] /\ moving \subseteq Pins /\ history \in Seq(Moves)
  /\ \A p \in moving : hop[p] >= 1
  /\ \A k \in DOMAIN history : history[k].pin \in Pins =>
       hop[history[k].pin] >= 1 /\ history[k].to = chain.route[history[k].pin][1]

(* An address known when the transfers up to last have been read. *)
FollowedTo(address, p, last) ==
  /\ hop[p] = 0 => address = chain.by[p]
  /\ hop[p] = 1 =>
       address = chain.route[p][1] \/ \A k \in DOMAIN history : history[k].pin = p => k > last

(* How far the addresses of the names are. *)
Done == IF task.pc = "saveTransfers" THEN task.last ELSE cursor["metanametransfer"]

NamesInv ==
  /\ DOMAIN cursor = Keys /\ DOMAIN task = {"pc", "last", "docs"}
  /\ cursor["metanametransfer"] \in 0..Len(history)
  /\ task.pc = "saveTransfers" =>
       task.docs = {} /\ task.last \in cursor["metanametransfer"]..Len(history)
  /\ \A r \in names :
       {"pin", "address"} \subseteq DOMAIN r /\ r.pin \in Pins /\ FollowedTo(r.address, r.pin, Done)
  /\ \A d \in task.docs : d.pin \in Pins /\ FollowedTo(d.address, d.pin, cursor["metanametransfer"])

OwnerInv ==
  /\ chain \in Chains /\ stored \subseteq Ids
  /\ IF chain.module = "metaname" THEN MovesInv /\ NamesInv ELSE names = {}

(* The log itself is not touched. *)
LEMMA StoredKept == stored \subseteq Ids /\ [Next]_vars => stored' \subseteq Ids'
<1> SUFFICES ASSUME stored \subseteq Ids, [Next]_vars PROVE stored' \subseteq Ids'
  OBVIOUS
<1>1. Ids' = Ids
  BY ChainKept DEF Ids
<1>2. CASE LogNext
  BY <1>1, <1>2 DEF LogNext, StoreBlock, Announce, Discard, MovePin, RecordMove
<1>3. CASE stored' = stored
  BY <1>1, <1>3
<1> QED  BY <1>2, <1>3, MetasoKeeps, NameKeeps, NftKeeps, ValueKeeps, AccessKeeps
         DEF Next, Index, SyncMetaso, SyncName, SyncNft, SyncValue, HandleAccess, vars, logvars, pinvars

LEMMA UnknownNoPin == chain \in Chains => "unknown" \notin Pins
BY PinsAssumption DEF Pins, Pin, Ids

LEMMA InitOwner == Init => OwnerInv
<1> SUFFICES ASSUME Init PROVE OwnerInv
  OBVIOUS
<1>1. /\ chain \in Chains /\ stored = {} /\ cursor = [k \in Keys |-> 0] /\ hop = [p \in Pins |-> 0]
      /\ moving = {} /\ history = <<>> /\ names = {}
      /\ task = [pc |-> "read", last |-> 0, docs |-> {}]
  BY DEF Init, LogInit, Name!NameInit, Name!Idle
<1>2. MovesInv
  BY <1>1 DEF MovesInv
<1>3. NamesInv
  BY <1>1, KeysAssumption DEF NamesInv
<1> QED  BY <1>1, <1>2, <1>3 DEF OwnerInv

(* A move of a pin does not come to be read before it is noted. *)
LEMMA MovesKept ==
  ASSUME chain \in Chains, MovesInv, LogNext
  PROVE  /\ MovesInv' /\ Len(history) \in Nat /\ Len(history') \in Nat /\ Len(history) <= Len(history')
         /\ \A a, last : \A p \in Pins :
              last \in 0..Len(history) /\ FollowedTo(a, p, last) => FollowedTo(a, p, last)'
<1> USE DEF MovesInv
<1>1. chain' = chain /\ Pins' = Pins /\ Moves' = Moves
  <2>1. chain' = chain
    BY IndexKeeps
  <2>2. Pins' = Pins
    BY <2>1 DEF Pins, Pin, Ids
  <2>3. Addresses' = Addresses
    BY <2>1, <2>2 DEF Addresses
  <2> QED  BY <2>1, <2>2, <2>3 DEF Moves
<1>2. Len(history) \in Nat /\ DOMAIN history = 1..Len(history)
  OBVIOUS
<1>3. CASE UNCHANGED <<hop, moving, history>>
  BY <1>1, <1>2, <1>3 DEF FollowedTo
<1>4. ASSUME NEW p \in Pins, MovePin(p)
      PROVE  /\ MovesInv' /\ history' = history
             /\ \A a, last : \A q \in Pins :
                  last \in 0..Len(history) /\ FollowedTo(a, q, last) => FollowedTo(a, q, last)'
  <2>1. /\ hop' = [hop EXCEPT ![p] = hop[p] + 1] /\ moving' = moving \cup {p} /\ history' = history
    BY <1>4 DEF MovePin
  <2>2. /\ hop' \in [Pins -> Nat] /\ hop'[p] = hop[p] + 1 /\ hop'[p] >= 1
        /\ \A q \in Pins \ {p} : hop'[q] = hop[q]
    BY <2>1
  <2>3. MovesInv'
    BY <1>1, <2>1, <2>2
  <2>4. ASSUME NEW a, NEW last, NEW q \in Pins, FollowedTo(a, q, last) PROVE FollowedTo(a, q, last)'
    <3>1. CASE q # p
      BY <1>1, <2>1, <2>2, <2>4, <3>1 DEF FollowedTo
    <3>2. CASE q = p
      <4>1. hop'[p] = 1 => \A k \in DOMAIN history : history[k].pin # p
        BY <2>2
      <4> QED  BY <1>1, <2>1, <2>2, <3>2, <4>1 DEF FollowedTo
    <3> QED  BY <3>1, <3>2
  <2> QED  BY <2>1, <2>3, <2>4
<1>5. ASSUME NEW p \in Pins, RecordMove(p)
      PROVE  /\ MovesInv' /\ Len(history') = Len(history) + 1
             /\ \A a, last : \A q \in Pins :
                  last \in 0..Len(history) /\ FollowedTo(a, q, last) => FollowedTo(a, q, last)'
  <2> DEFINE e == [pin |-> IF hop[p] = 1 THEN p ELSE "unknown", to |-> Owner(p)]
  <2>1. /\ hop' = hop /\ moving' = moving \ {p} /\ history' = Append(history, e) /\ hop[p] >= 1
    BY <1>5 DEF RecordMove
  <2>2. e \in Moves
    <3>1. Owner(p) \in Addresses
      BY DEF Owner, Addresses
    <3> QED  BY <3>1 DEF Moves
  <2>3. e.pin \in Pins => e.pin = p /\ hop[p] = 1 /\ e.to = chain.route[p][1]
    BY UnknownNoPin DEF Owner
  <2> HIDE DEF e
  <2>4. /\ history' \in Seq(Moves) /\ Len(history') = Len(history) + 1
        /\ DOMAIN history' = 1..(Len(history) + 1)
        /\ \A k \in 1..Len(history) : history'[k] = history[k]
        /\ history'[Len(history) + 1] = e
    BY <1>2, <2>1, <2>2
  <2>5. ASSUME NEW k \in DOMAIN history', history'[k].pin \in Pins
        PROVE  hop[history'[k].pin] >= 1 /\ history'[k].to = chain.route[history'[k].pin][1]
    <3>1. CASE k \in 1..Len(history)
      BY <1>2, <2>4, <2>5, <3>1
    <3>2. CASE k = Len(history) + 1
      BY <2>1, <2>3, <2>4, <2>5, <3>2
    <3> QED  BY <1>2, <2>4, <3>1, <3>2
  <2>6. MovesInv'
    BY <1>1, <2>1, <2>4, <2>5
  <2>7. ASSUME NEW a, NEW last \in 0..Len(history), NEW q \in Pins, FollowedTo(a, q, last)
        PROVE  FollowedTo(a, q, last)'
    <3>1. ASSUME \A k \in DOMAIN history : history[k].pin = q => k > last, NEW k \in DOMAIN history',
                 history'[k].pin = q
          PROVE  k > last
      <4>1. CASE k \in 1..Len(history)
        BY <1>2, <2>4, <3>1, <4>1
      <4>2. CASE k = Len(history) + 1
        BY <1>2, <4>2
      <4> QED  BY <1>2, <2>4, <4>1, <4>2
    <3> QED  BY <1>1, <2>1, <2>7, <3>1 DEF FollowedTo
  <2> QED  BY <2>4, <2>6, <2>7
<1>6. ASSUME NEW p \in Pins, MovePin(p) \/ RecordMove(p)
      PROVE  /\ MovesInv' /\ Len(history') \in Nat /\ Len(history) <= Len(history')
             /\ \A a, last : \A q \in Pins :
                  last \in 0..Len(history) /\ FollowedTo(a, q, last) => FollowedTo(a, q, last)'
  BY <1>2, <1>4, <1>5, <1>6
<1> QED  BY <1>2, <1>3, <1>6 DEF LogNext, StoreBlock, Announce, Discard

LEMMA IndexOwner ==
  ASSUME OwnerInv, chain.module = "metaname", Index
  PROVE  MovesInv' /\ NamesInv'
<1>1. /\ chain' = chain /\ cursor' = cursor /\ UNCHANGED <<names, task>> /\ chain \in Chains
      /\ MovesInv /\ NamesInv /\ LogNext /\ Pins' = Pins
  BY IndexKeeps DEF Index, namevars, OwnerInv, Pins, Pin, Ids
<1>2. /\ MovesInv' /\ Len(history) \in Nat /\ Len(history') \in Nat /\ Len(history) <= Len(history')
      /\ \A a, last : \A p \in Pins :
           last \in 0..Len(history) /\ FollowedTo(a, p, last) => FollowedTo(a, p, last)'
  BY <1>1, MovesKept
<1>3. Done \in 0..Len(history) /\ Done' = Done /\ cursor["metanametransfer"] \in 0..Len(history)
  BY <1>1, <1>2 DEF Done, NamesInv
<1>4. \A r \in names : r.pin \in Pins' /\ FollowedTo(r.address, r.pin, Done)'
  BY <1>1, <1>2, <1>3 DEF NamesInv
<1>5. \A d \in task.docs : d.pin \in Pins' /\ FollowedTo(d.address, d.pin, cursor["metanametransfer"])'
  BY <1>1, <1>2, <1>3 DEF NamesInv
<1>6. NamesInv'
  BY <1>1, <1>2, <1>3, <1>4, <1>5 DEF NamesInv
<1> QED  BY <1>2, <1>6

(* A step that adds and changes no addresses but those it has. *)
LEMMA QuietOwner ==
  ASSUME OwnerInv, chain.module = "metaname", UNCHANGED <<chain, hop, history>>,
         moving' \subseteq moving, DOMAIN cursor' = Keys,
         cursor'["metanametransfer"] = cursor["metanametransfer"],
         DOMAIN task' = {"pc", "last", "docs"}, task.pc # "saveTransfers", task'.pc # "saveTransfers",
         \A d \in task'.docs : d.pin \in Pins /\ FollowedTo(d.address, d.pin, cursor["metanametransfer"]),
         \A r \in names' :
           /\ {"pin", "address"} \subseteq DOMAIN r
           /\ \E s \in names \cup task.docs : r.pin = s.pin /\ r.address = s.address
  PROVE  MovesInv' /\ NamesInv'
<1>1. Pins' = Pins /\ Moves' = Moves /\ MovesInv /\ NamesInv /\ chain \in Chains
  <2>1. Pins' = Pins
    BY DEF Pins, Pin, Ids
  <2>2. Addresses' = Addresses
    BY <2>1 DEF Addresses
  <2> QED  BY <2>1, <2>2 DEF OwnerInv, Moves
<1>2. MovesInv'
  BY <1>1 DEF MovesInv
<1>3. Done = cursor["metanametransfer"] /\ Done' = Done
  BY DEF Done
<1>4. \A a, p, last : FollowedTo(a, p, last) => FollowedTo(a, p, last)'
  BY DEF FollowedTo
<1>5. \A r \in names' : r.pin \in Pins' /\ FollowedTo(r.address, r.pin, Done)'
  BY <1>1, <1>3, <1>4 DEF NamesInv
<1>6. \A d \in task'.docs : d.pin \in Pins' /\ FollowedTo(d.address, d.pin, cursor["metanametransfer"])'
  BY <1>1, <1>3, <1>4
<1>7. NamesInv'
  BY <1>1, <1>3, <1>5, <1>6 DEF NamesInv
<1> QED  BY <1>2, <1>7

LEMMA IdleForm == \A pc : Name!Idle(pc) = [pc |-> pc, last |-> 0, docs |-> {}]
BY DEF Name!Idle

(* What a document asks for has the owner of its pin. *)
LEMMA ReadOwner ==
  ASSUME OwnerInv, chain.module = "metaname", Name!ReadNames
  PROVE  MovesInv' /\ NamesInv'
<1>1. /\ UNCHANGED <<chain, hop, history, moving, cursor, names>> /\ NamesInv /\ MovesInv
      /\ task.pc = "read" /\ chain \in Chains
  BY DEF Name!ReadNames, Name!logvars, Name!pinvars, OwnerInv, Name!At
<1> DEFINE docs == {Name!Request(i) : i \in {i \in Name!Found : ~Name!Refused(i)}}
<1>2. ASSUME NEW d \in docs
      PROVE  d.pin \in Pins /\ FollowedTo(d.address, d.pin, cursor["metanametransfer"])
  <2>1. PICK i \in Name!Found : d = Name!Request(i)
    OBVIOUS
  <2>2. d.pin = Pin(i) /\ d.address = Owner(Pin(i))
    BY <2>1 DEF Name!Request, Name!Ask, Name!Owner, Owner, Pin
  <2>3. Pin(i) \in Pins
    BY <2>1 DEF Name!Found, Name!Above, Pins, OwnerInv
  <2>4. hop[Pin(i)] \in Nat
    BY <1>1, <2>3 DEF MovesInv
  <2> QED  BY <2>2, <2>3, <2>4 DEF FollowedTo, Owner
<1>3. \/ task' = [pc |-> "transfers", last |-> 0, docs |-> {}]
      \/ task' = [pc |-> "save", last |-> Name!LastId(Name!Found), docs |-> docs]
  BY IdleForm DEF Name!ReadNames
<1> HIDE DEF docs
<1>4. /\ DOMAIN task' = {"pc", "last", "docs"} /\ task'.pc # "saveTransfers"
      /\ task'.docs = {} \/ task'.docs = docs
  BY <1>3
<1> QED  BY <1>1, <1>2, <1>4, QuietOwner DEF NamesInv

LEMMA TaskGoto ==
  ASSUME DOMAIN task = {"pc", "last", "docs"}, NEW pc, task' = [task EXCEPT !.pc = pc]
  PROVE  DOMAIN task' = {"pc", "last", "docs"} /\ task'.pc = pc /\ task'.docs = task.docs
OBVIOUS

LEMMA InsertOwner ==
  ASSUME OwnerInv, chain.module = "metaname",
         Name!SaveNames \/ Name!InsertNames \/ Name!UpdateNames \/ Name!InsertHistory
  PROVE  MovesInv' /\ NamesInv'
<1>1. NamesInv /\ UNCHANGED <<chain, hop, history, moving>> /\ task.pc # "saveTransfers"
  BY DEF OwnerInv, Name!SaveNames, Name!InsertNames, Name!UpdateNames, Name!InsertHistory,
     Name!logvars, Name!pinvars, Name!At
<1>2. DOMAIN cursor' = Keys /\ cursor'["metanametransfer"] = cursor["metanametransfer"]
  <2>1. cursor' = cursor \/ \E id : cursor' = [cursor EXCEPT !["metaname"] = id]
    BY DEF Name!SaveNames, Name!InsertNames, Name!UpdateNames, Name!InsertHistory,
       Name!logvars, Name!SaveCursor
  <2> QED  BY <1>1, <2>1, KeysAssumption DEF NamesInv
<1>3. /\ DOMAIN task' = {"pc", "last", "docs"} /\ task'.pc # "saveTransfers"
      /\ task'.docs = {} \/ task'.docs = task.docs
  <2>1. \/ task' = [pc |-> "transfers", last |-> 0, docs |-> {}]
        \/ \E pc \in {"insert", "update", "history"} : task' = [task EXCEPT !.pc = pc]
    BY IdleForm DEF Name!SaveNames, Name!InsertNames, Name!UpdateNames, Name!InsertHistory
  <2> QED  BY <1>1, <2>1, TaskGoto DEF NamesInv
<1>4. ASSUME NEW r \in names'
      PROVE  /\ {"pin", "address"} \subseteq DOMAIN r
             /\ \E s \in names \cup task.docs : r.pin = s.pin /\ r.address = s.address
  <2>1. CASE names' = names
    BY <1>1, <2>1 DEF NamesInv
  <2>2. CASE Name!InsertNames
    <3>1. r \in names \/ \E d \in task.docs : r = Name!Record(d)
      BY <2>2 DEF Name!InsertNames
    <3>2. ASSUME NEW d \in task.docs, r = Name!Record(d)
          PROVE  {"pin", "address"} \subseteq DOMAIN r /\ r.pin = d.pin /\ r.address = d.address
      BY <3>2 DEF Name!Record
    <3> QED  BY <1>1, <3>1, <3>2 DEF NamesInv
  <2>3. CASE Name!UpdateNames
    <3>0. PICK rev : names' = {[s EXCEPT !.rev = rev[s]] : s \in names}
      BY ONLY <2>3 DEF Name!UpdateNames
    <3>1. PICK s \in names : r = [s EXCEPT !.rev = rev[s]]
      BY <3>0
    <3>3. {"pin", "address"} \subseteq DOMAIN s
      BY <1>1 DEF NamesInv
    <3>4. DOMAIN r = DOMAIN s /\ r.pin = s.pin /\ r.address = s.address
      BY <3>1, <3>3
    <3> QED  BY <3>3, <3>4
  <2> QED  BY <2>1, <2>2, <2>3 DEF Name!SaveNames, Name!InsertHistory
<1> QED  BY <1>1, <1>2, <1>3, <1>4, QuietOwner DEF NamesInv

(* The last transfer of a pin after from: the first move, if it has moved once. *)
LEMMA MoveRead ==
  ASSUME OwnerInv, chain.module = "metaname", Name!MoveNames,
         NEW r \in names, NEW s,
         s = IF Name!Moved(r.pin, cursor["metanametransfer"])
             THEN [r EXCEPT !.address = Name!LastMove(r.pin, cursor["metanametransfer"])] ELSE r
  PROVE  {"pin", "address"} \subseteq DOMAIN s /\ s.pin = r.pin /\ FollowedTo(s.address, s.pin, Len(history))
<1> DEFINE from == cursor["metanametransfer"]
           p == r.pin
<1>1. /\ MovesInv /\ NamesInv /\ from \in 0..Len(history) /\ task.pc = "transfers"
      /\ {"pin", "address"} \subseteq DOMAIN r /\ p \in Pins /\ FollowedTo(r.address, p, from)
  BY DEF OwnerInv, NamesInv, Name!MoveNames, Name!At, Done
<1>2. Len(history) \in Nat /\ DOMAIN history = 1..Len(history) /\ hop[p] \in Nat
  BY <1>1 DEF MovesInv
<1>3. CASE Name!Moved(p, from)
  <2> DEFINE after == {k \in (from + 1)..Len(history) : history[k].pin = p}
             m == Max(after)
  <2>1. after # {} /\ after \subseteq Nat /\ IsFiniteSet(after)
    <3>1. IsFiniteSet((from + 1)..Len(history))
      <4>1. from + 1 \in Int /\ Len(history) \in Int
        BY <1>1, <1>2
      <4> QED  BY <4>1, FS_Interval
    <3> QED  BY <1>1, <1>2, <1>3, <3>1, FS_Subset DEF Name!Moved
  <2>2. m \in after
    BY <2>1, MaxOfFinite
  <2>3. s = [r EXCEPT !.address = history[m].to]
    BY <1>3 DEF Name!LastMove, Name!Max, Max
  <2>4. history[m].pin = p /\ m \in DOMAIN history
    BY <1>1, <1>2, <2>2
  <2>5. hop[p] >= 1 /\ history[m].to = chain.route[p][1]
    BY <1>1, <2>4 DEF MovesInv
  <2> HIDE DEF m, p
  <2>6. DOMAIN s = DOMAIN r /\ s.pin = r.pin /\ s.address = history[m].to
    BY <1>1, <2>3
  <2> QED  BY <1>1, <1>2, <2>5, <2>6 DEF FollowedTo, p
<1>4. CASE ~Name!Moved(p, from)
  <2>1. s = r
    BY <1>4
  <2>2. \A k \in DOMAIN history : history[k].pin = p => ~(k > from)
    BY <1>1, <1>2, <1>4 DEF Name!Moved
  <2>3. FollowedTo(r.address, p, Len(history))
    BY <1>1, <2>2 DEF FollowedTo
  <2> QED  BY <1>1, <2>1, <2>3
<1> QED  BY <1>3, <1>4

LEMMA MoveOwner ==
  ASSUME OwnerInv, chain.module = "metaname", Name!MoveNames
  PROVE  MovesInv' /\ NamesInv'
<1>1. /\ UNCHANGED <<chain, hop, history, moving, cursor>> /\ MovesInv /\ NamesInv /\ chain \in Chains
      /\ cursor["metanametransfer"] \in 0..Len(history)
  BY DEF Name!MoveNames, Name!logvars, Name!pinvars, OwnerInv, NamesInv
<1>2. Pins' = Pins /\ Moves' = Moves
  <2>1. Pins' = Pins
    BY <1>1 DEF Pins, Pin, Ids
  <2>2. Addresses' = Addresses
    BY <1>1, <2>1 DEF Addresses
  <2> QED  BY <2>1, <2>2 DEF Moves
<1>3. MovesInv'
  BY <1>1, <1>2 DEF MovesInv
<1>4. Len(history) \in Nat
  BY <1>1 DEF MovesInv
<1>5. \/ cursor["metanametransfer"] = Len(history) /\ task' = [pc |-> "read", last |-> 0, docs |-> {}]
      \/ task' = [pc |-> "saveTransfers", last |-> Len(history), docs |-> {}]
  <2>1. [Name!Idle("saveTransfers") EXCEPT !.last = Len(history)]
          = [pc |-> "saveTransfers", last |-> Len(history), docs |-> {}]
    <3> DEFINE n == Len(history)
    <3> HIDE DEF n
    <3>1. [Name!Idle("saveTransfers") EXCEPT !.last = n] = [pc |-> "saveTransfers", last |-> n, docs |-> {}]
      BY DEF Name!Idle
    <3> QED  BY <3>1 DEF n
  <2> QED  BY <2>1, IdleForm DEF Name!MoveNames
<1>6. /\ DOMAIN task' = {"pc", "last", "docs"} /\ task'.docs = {} /\ Done' = Len(history)
      /\ task'.pc = "saveTransfers" => task'.last = Len(history)
  BY <1>1, <1>5 DEF Done
<1>7. ASSUME NEW s \in names'
      PROVE  {"pin", "address"} \subseteq DOMAIN s /\ s.pin \in Pins /\ FollowedTo(s.address, s.pin, Len(history))
  <2>1. PICK r \in names :
          s = IF Name!Moved(r.pin, cursor["metanametransfer"])
              THEN [r EXCEPT !.address = Name!LastMove(r.pin, cursor["metanametransfer"])] ELSE r
    BY DEF Name!MoveNames
  <2>2. r.pin \in Pins
    BY <1>1 DEF NamesInv
  <2> QED  BY <2>1, <2>2, MoveRead
<1>8. \A a, p, last : FollowedTo(a, p, last) => FollowedTo(a, p, last)'
  BY <1>1 DEF FollowedTo
<1>9. \A s \in names' : {"pin", "address"} \subseteq DOMAIN s /\ s.pin \in Pins' /\ FollowedTo(s.address, s.pin, Done)'
  BY <1>2, <1>6, <1>7, <1>8
<1>10. NamesInv'
  BY <1>1, <1>4, <1>6, <1>9 DEF NamesInv
<1> QED  BY <1>3, <1>10

LEMMA SaveOwner ==
  ASSUME OwnerInv, chain.module = "metaname", Name!SaveTransfers \/ Name!NameCrash
  PROVE  MovesInv' /\ NamesInv'
<1>1. /\ UNCHANGED <<chain, hop, history, names>> /\ moving' \subseteq moving
      /\ MovesInv /\ NamesInv /\ chain \in Chains
      /\ task' = [pc |-> "read", last |-> 0, docs |-> {}]
  BY IdleForm DEF Name!SaveTransfers, Name!NameCrash, Name!LogCrash, Name!pinvars, OwnerInv
<1>2. /\ DOMAIN cursor' = Keys /\ cursor'["metanametransfer"] \in 0..Len(history)
      /\ cursor'["metanametransfer"] <= Done /\ cursor'["metanametransfer"] \in {Done, cursor["metanametransfer"]}
      /\ Len(history) \in Nat /\ Done \in Nat
  <2>1. Len(history) \in Nat
    BY <1>1 DEF MovesInv
  <2>2. CASE Name!SaveTransfers
    <3>1. task.pc = "saveTransfers" /\ cursor' = [cursor EXCEPT !["metanametransfer"] = task.last]
      BY <2>2 DEF Name!SaveTransfers, Name!At, Name!SaveCursor
    <3> QED  BY <1>1, <2>1, <3>1, KeysAssumption DEF NamesInv, Done
  <2>3. CASE Name!NameCrash
    <3>1. cursor' = cursor
      BY <2>3 DEF Name!NameCrash, Name!LogCrash
    <3> QED  BY <1>1, <2>1, <3>1 DEF NamesInv, Done
  <2> QED  BY <2>2, <2>3
<1>3. Pins' = Pins /\ Moves' = Moves
  <2>1. Pins' = Pins
    BY <1>1 DEF Pins, Pin, Ids
  <2>2. Addresses' = Addresses
    BY <1>1, <2>1 DEF Addresses
  <2> QED  BY <2>1, <2>2 DEF Moves
<1>4. MovesInv'
  BY <1>1, <1>3 DEF MovesInv
<1>5. Done' = cursor'["metanametransfer"] /\ DOMAIN task' = {"pc", "last", "docs"} /\ task'.docs = {}
      /\ task'.pc # "saveTransfers"
  BY <1>1 DEF Done
<1>6. ASSUME NEW r \in names PROVE FollowedTo(r.address, r.pin, Done')
  <2>1. FollowedTo(r.address, r.pin, Done)
    BY <1>1 DEF NamesInv
  <2>2. DOMAIN history = 1..Len(history)
    BY <1>1 DEF MovesInv
  <2> QED  BY <1>2, <1>5, <2>1, <2>2 DEF FollowedTo
<1>7. \A r \in names' : {"pin", "address"} \subseteq DOMAIN r /\ r.pin \in Pins' /\ FollowedTo(r.address, r.pin, Done)'
  BY <1>1, <1>3, <1>6 DEF NamesInv, FollowedTo
<1>8. NamesInv'
  BY <1>1, <1>2, <1>5, <1>7 DEF NamesInv
<1> QED  BY <1>4, <1>8

LEMMA NextOwner == OwnerInv /\ [Next]_vars => OwnerInv'
<1> SUFFICES ASSUME OwnerInv, [Next]_vars PROVE OwnerInv'
  OBVIOUS
<1>1. chain' = chain /\ chain \in Chains
  BY ChainKept DEF OwnerInv
<1>2. stored' \subseteq Ids'
  BY StoredKept DEF OwnerInv
<1>3. CASE chain.module # "metaname"
  <2>1. names' = names
    BY <1>3 DEF Next, Index, SyncMetaso, SyncName, SyncNft, SyncValue, HandleAccess, vars, namevars
  <2> QED  BY <1>2, <1>1, <1>3, <2>1 DEF OwnerInv
<1>4. CASE UNCHANGED vars
  <2>1. UNCHANGED <<chain, hop, moving, history, cursor, names, task>>
    BY <1>4 DEF vars, logvars, pinvars, namevars
  <2>2. Pins' = Pins /\ Moves' = Moves
    <3>1. Pins' = Pins
      BY <2>1 DEF Pins, Pin, Ids
    <3>2. Addresses' = Addresses
      BY <2>1, <3>1 DEF Addresses
    <3> QED  BY <3>1, <3>2 DEF Moves
  <2>3. Done' = Done /\ \A a, p, last : FollowedTo(a, p, last) => FollowedTo(a, p, last)'
    BY <2>1 DEF Done, FollowedTo
  <2>4. (MovesInv => MovesInv') /\ (NamesInv => NamesInv')
    BY <2>1, <2>2, <2>3 DEF MovesInv, NamesInv
  <2> QED  BY <1>2, <1>1, <2>1, <2>4 DEF OwnerInv
<1>5. CASE Index /\ chain.module = "metaname"
  BY <1>2, <1>1, <1>5, IndexOwner DEF OwnerInv
<1>6. CASE SyncName
  <2>1. Name!NameNext /\ chain.module = "metaname"
    BY <1>6 DEF SyncName
  <2>2. MovesInv' /\ NamesInv'
    BY <2>1, ReadOwner, InsertOwner, MoveOwner, SaveOwner DEF Name!NameNext, Name!NameSync
  <2> QED  BY <1>2, <1>1, <2>1, <2>2 DEF OwnerInv
<1> QED  BY <1>3, <1>4, <1>5, <1>6
         DEF Next, SyncMetaso, SyncNft, SyncValue, HandleAccess

(***************************************************************************)
(* When the transfers are read, a name belongs to the owner of its pin, as *)
(* long as the pin has moved at most once and its move is in the history;  *)
(* for any names, any routes and any number of crashes.                    *)
(***************************************************************************)
THEOREM NamesFollow == Spec => []NameOwner
<1>1. OwnerInv => NameOwner
  <2> SUFFICES ASSUME OwnerInv, chain.module = "metaname", Name!At("read"),
                      cursor["metanametransfer"] = Len(history), NEW r \in names,
                      ~(hop[r.pin] > 1)
               PROVE  \/ Owner(r.pin) = r.address
                      \/ hop[r.pin] = 1 /\ \A k \in DOMAIN history : history[k].pin # r.pin
    BY DEF NameOwner, Name!NameOwner, Name!Owner, Owner, OwnerInv
  <2>1. r.pin \in Pins /\ FollowedTo(r.address, r.pin, Len(history))
    BY DEF OwnerInv, NamesInv, Done, Name!At
  <2>2. hop[r.pin] \in Nat /\ Len(history) \in Nat /\ DOMAIN history = 1..Len(history)
    BY <2>1 DEF OwnerInv, MovesInv
  <2> QED  BY <2>1, <2>2 DEF FollowedTo, Owner
<1> QED  BY <1>1, InitOwner, NextOwner, PTL DEF Spec

(***************************************************************************)
(* The collections.                                                        *)
(***************************************************************************)

(* The items of a collection, of its that are there. *)
ItemsOf(its, c) == {p \in DOMAIN its : its[p].of = c}

OfLog(i) == chain.log[i].of

AcceptedOf(c) == {i \in job.accepted : OfLog(i) = c}

(* The collections whose items are counted at the end of the batch. *)
Counted == {OfLog(i) : i \in {i \in job.docs : chain.log[i].kind = "item"}}

Saved == job.pc \in {"describe", "count"}

(* What is accepted finds room, if the counts are right. *)
JobInv ==
  /\ DOMAIN job = {"pc", "docs", "owner", "accepted", "last"}
  /\ job.docs \subseteq Ids
  /\ job.accepted \subseteq job.docs
  /\ \A i \in job.accepted : OfLog(i) \in DOMAIN collections /\ OfLog(i) \in Counted
  /\ \A c \in DOMAIN collections :
       job.pc = "save" /\ AcceptedOf(c) # {} =>
         collections[c].total + Cardinality(AcceptedOf(c)) <= Supply

ItemsInv ==
  /\ DOMAIN items \subseteq Pins
  /\ \A p \in DOMAIN items :
       /\ "of" \in DOMAIN items[p] /\ items[p].of \in DOMAIN collections
       /\ \E i \in Ids : Pin(i) = p /\ items[p].of = OfLog(i)
  /\ todo \subseteq DOMAIN items
  /\ \A m \in merging :
       m.pin \in DOMAIN items /\ "of" \in DOMAIN m.doc /\ m.doc.of = items[m.pin].of

CountsInv ==
  \A c \in DOMAIN collections :
    /\ "total" \in DOMAIN collections[c] /\ collections[c].total \in Nat
    /\ Cardinality(ItemsOf(items, c)) <= Supply
    /\ Cardinality(ItemsOf(items, c)) <= collections[c].total \/ (Saved /\ c \in Counted)

SupplyInv ==
  /\ chain \in Chains /\ stored \subseteq Ids /\ crashes \in Nat
  /\ IF chain.module = "mrc721"
     THEN Supply # -1 /\ crashes = 0 => JobInv /\ ItemsInv /\ CountsInv
     ELSE collections = << >>
(* Where the counts matter: a supply that is limited, and no crash so far. *)
Counting ==
  /\ chain \in Chains /\ chain.module = "mrc721" /\ Supply \in Nat
  /\ JobInv /\ ItemsInv /\ CountsInv

LEMMA NftCardinality == \A S : Nft!Cardinality(S) = Cardinality(S)
BY DEF Nft!Cardinality, Cardinality

(* The pins of documents are no more than the documents. *)
LEMMA PinsOf ==
  ASSUME NEW S, IsFiniteSet(S)
  PROVE  IsFiniteSet({Pin(i) : i \in S}) /\ Cardinality({Pin(i) : i \in S}) <= Cardinality(S)
<1> DEFINE f == [i \in S |-> Pin(i)]
<1>1. DOMAIN f = S /\ {f[i] : i \in DOMAIN f} = {Pin(i) : i \in S}
  OBVIOUS
<1> HIDE DEF f
<1> QED  BY <1>1, ImageFinite

LEMMA PinsFinite == chain \in Chains => IsFiniteSet(Ids) /\ IsFiniteSet(Pins)
<1> SUFFICES ASSUME chain \in Chains PROVE IsFiniteSet(Ids) /\ IsFiniteSet(Pins)
  OBVIOUS
<1>1. IsFiniteSet(Ids)
  BY IdsTyped
<1>2. IsFiniteSet({Pin(i) : i \in Ids})
  BY <1>1, PinsOf
<1> QED  BY <1>1, <1>2 DEF Pins

LEMMA ItemsFinite ==
  ASSUME chain \in Chains
  PROVE  \A its, c : DOMAIN its \subseteq Pins =>
           IsFiniteSet(ItemsOf(its, c)) /\ Cardinality(ItemsOf(its, c)) \in Nat
<1> TAKE its, c
<1> HAVE DOMAIN its \subseteq Pins
<1>1. ItemsOf(its, c) \subseteq Pins
  BY DEF ItemsOf
<1>2. IsFiniteSet(ItemsOf(its, c))
  BY <1>1, PinsFinite, FS_Subset
<1> QED  BY <1>2, FS_CardinalityType

LEMMA SameItems ==
  \A f, g : DOMAIN f = DOMAIN g /\ (\A p \in DOMAIN f : f[p].of = g[p].of)
    => \A c : ItemsOf(f, c) = ItemsOf(g, c)
BY DEF ItemsOf

LEMMA RestForm == \A pc : Nft!Resting(pc) = [pc |-> pc, docs |-> {}, owner |-> << >>, accepted |-> {}, last |-> 0]
BY DEF Nft!Resting

(* A job with nothing accepted yet. *)
LEMMA FreshJob ==
  ASSUME chain' = chain, DOMAIN job' = {"pc", "docs", "owner", "accepted", "last"},
         job'.docs \subseteq Ids, job'.accepted = {}
  PROVE  JobInv'
BY DEF JobInv, AcceptedOf, Ids

(* A step that adds no item and changes the collection of none. *)
LEMMA QuietItems ==
  ASSUME Counting, chain' = chain, collections' = collections,
         DOMAIN items' = DOMAIN items,
         \A p \in DOMAIN items : "of" \in DOMAIN items'[p] /\ items'[p].of = items[p].of,
         todo' \subseteq DOMAIN items,
         \A m \in merging' :
           m.pin \in DOMAIN items /\ "of" \in DOMAIN m.doc /\ m.doc.of = items[m.pin].of,
         Saved => Saved' /\ job'.docs = job.docs
  PROVE  ItemsInv' /\ CountsInv'
<1>1. Ids' = Ids /\ Pins' = Pins /\ (\A i : OfLog(i)' = OfLog(i) /\ Pin(i)' = Pin(i))
  BY DEF Ids, Pins, OfLog, Pin
<1>2. ItemsInv'
  BY <1>1 DEF Counting, ItemsInv
<1>3. \A c : ItemsOf(items', c) = ItemsOf(items, c)
  BY SameItems
<1>4. Saved => Counted' = Counted
  BY <1>1 DEF Counted
<1>5. CountsInv'
  BY <1>3, <1>4 DEF Counting, CountsInv
<1> QED  BY <1>2, <1>5

LEMMA ReadItems ==
  ASSUME Counting, stored \subseteq Ids, Nft!ReadView
  PROVE  JobInv' /\ ItemsInv' /\ CountsInv'
<1>1. UNCHANGED <<chain, collections, items, todo, merging>> /\ job.pc = "read"
  BY DEF Nft!ReadView, Nft!logvars, Nft!pinvars, Nft!sweep, Nft!At
<1> DEFINE found == Nft!Above("mrc721")
           own == [i \in found |-> Nft!Owner(Nft!Pin(i))]
           last == Nft!LastId(found)
<1>2. found \subseteq Ids
  BY DEF Nft!Above
<1>3. \/ job' = Nft!Resting("transfers")
      \/ job' = [Nft!Resting("collections") EXCEPT !.docs = found, !.last = last, !.owner = own]
  BY DEF Nft!ReadView
<1> DEFINE rest == Nft!Resting("collections")
<1>4. /\ DOMAIN rest = {"pc", "docs", "owner", "accepted", "last"}
      /\ rest.accepted = {}
  BY RestForm
<1> HIDE DEF found, own, last, rest
<1>5. /\ DOMAIN job' = {"pc", "docs", "owner", "accepted", "last"}
      /\ job'.docs \in {{}, found} /\ job'.accepted = {}
  <2>1. CASE job' = Nft!Resting("transfers")
    BY <2>1, RestForm
  <2>2. CASE job' = [rest EXCEPT !.docs = found, !.last = last, !.owner = own]
    BY <1>4, <2>2
  <2> QED  BY <1>3, <2>1, <2>2 DEF rest
<1>6. JobInv'
  BY <1>1, <1>2, <1>5, FreshJob
<1>7. ~Saved
  BY <1>1 DEF Saved
<1> QED  BY <1>1, <1>6, <1>7, QuietItems DEF Counting, ItemsInv

(* Of a change of the job's step. *)
LEMMA JobGoto ==
  ASSUME JobInv, NEW pc, job' = [job EXCEPT !.pc = pc]
  PROVE  /\ DOMAIN job' = {"pc", "docs", "owner", "accepted", "last"} /\ job'.pc = pc
         /\ job'.docs = job.docs /\ job'.accepted = job.accepted
<1>1. DOMAIN job = {"pc", "docs", "owner", "accepted", "last"}
  BY DEF JobInv
<1> QED  BY <1>1

(* A new collection has no items, also none of an earlier batch. *)
LEMMA SaveCollectionsItems ==
  ASSUME Counting, Nft!SaveCollections
  PROVE  JobInv' /\ ItemsInv' /\ CountsInv'
<1>1. /\ UNCHANGED <<chain, items, todo, merging>> /\ job.pc = "collections"
      /\ job' = [job EXCEPT !.pc = "items"]
  BY DEF Nft!SaveCollections, Nft!logvars, Nft!pinvars, Nft!sweep, Nft!At
<1>2. /\ Ids' = Ids /\ Pins' = Pins /\ \A i : OfLog(i)' = OfLog(i) /\ Pin(i)' = Pin(i)
  BY <1>1 DEF Ids, Pins, OfLog, Pin
<1>3. /\ DOMAIN job' = {"pc", "docs", "owner", "accepted", "last"} /\ job'.pc = "items"
      /\ job'.docs = job.docs /\ job'.accepted = job.accepted
  BY <1>1, JobGoto DEF Counting
<1>4. /\ DOMAIN collections \subseteq DOMAIN collections'
      /\ \A c \in DOMAIN collections : collections'[c] = collections[c]
      /\ \A c \in DOMAIN collections' \ DOMAIN collections :
           "total" \in DOMAIN collections'[c] /\ collections'[c].total = 0
  <2> DEFINE confirmed == {i \in Nft!OfKind("collection") : ~Nft!Pending(i)}
             new == {Nft!Doc(i).of : i \in confirmed} \ DOMAIN collections
  <2>1. PICK first \in [new -> confirmed] :
          collections' = [c \in DOMAIN collections \cup new |->
            IF c \in new THEN [pin |-> Nft!Pin(first[c]), total |-> 0] ELSE collections[c]]
    BY DEF Nft!SaveCollections
  <2>2. new \cap DOMAIN collections = {}
    OBVIOUS
  <2> HIDE DEF new, confirmed
  <2> QED  BY <2>1, <2>2
<1>5. JobInv'
  <2>1. Counted' = Counted
    BY <1>1, <1>3 DEF Counted, OfLog
  <2>2. \A i \in job'.accepted : OfLog(i)' \in DOMAIN collections' /\ OfLog(i)' \in Counted'
    BY <1>2, <1>3, <1>4, <2>1 DEF Counting, JobInv
  <2> QED  BY <1>2, <1>3, <2>2 DEF Counting, JobInv
<1>6. ItemsInv'
  BY <1>1, <1>2, <1>4 DEF Counting, ItemsInv
<1>7. CountsInv'
  <2>1. ~Saved
    BY <1>1 DEF Saved
  <2>2. ASSUME NEW c \in DOMAIN collections' \ DOMAIN collections
        PROVE  Cardinality(ItemsOf(items, c)) = 0
    <3>1. ItemsOf(items, c) = {}
      BY DEF ItemsOf, Counting, ItemsInv
    <3> QED  BY <3>1, FS_EmptySet
  <2> QED  BY <1>1, <1>4, <2>1, <2>2 DEF Counting, CountsInv
<1> QED  BY <1>5, <1>6, <1>7

LEMMA AcceptKeepsCounts ==
  ASSUME Counting, Nft!AcceptItems
  PROVE  JobInv' /\ ItemsInv' /\ CountsInv'
<1>1. UNCHANGED <<chain, collections, items, todo, merging>> /\ job.pc = "items"
  BY DEF Nft!AcceptItems, Nft!logvars, Nft!pinvars, Nft!sweep, Nft!At
<1>2. PICK s \in SUBSET Nft!OfKind("item") :
        Nft!Acceptable(s) /\ job' = [job EXCEPT !.pc = "save", !.accepted = s]
  BY DEF Nft!AcceptItems
<1>3. /\ DOMAIN job' = {"pc", "docs", "owner", "accepted", "last"} /\ job'.pc = "save"
      /\ job'.docs = job.docs /\ job'.accepted = s
  <2>1. DOMAIN job = {"pc", "docs", "owner", "accepted", "last"}
    BY DEF Counting, JobInv
  <2> QED  BY <1>2, <2>1
<1>4. /\ Ids' = Ids /\ \A i : OfLog(i)' = OfLog(i)
      /\ Counted' = Counted
  BY <1>1, <1>3 DEF Ids, OfLog, Counted
<1>5. /\ s \subseteq job.docs
      /\ \A i \in s : OfLog(i) \in DOMAIN collections /\ OfLog(i) \in Counted
  BY <1>2 DEF Nft!Acceptable, Nft!OfKind, Nft!Doc, OfLog, Counted
<1>6. ASSUME NEW c \in DOMAIN collections, {i \in s : OfLog(i) = c} # {}
      PROVE  collections[c].total + Cardinality({i \in s : OfLog(i) = c}) <= Supply
  <2> DEFINE t == {i \in s : OfLog(i) = c}
  <2>1. t \subseteq Ids
    BY <1>5 DEF Counting, JobInv
  <2>2. IsFiniteSet(t)
    BY <2>1, PinsFinite, FS_Subset DEF Counting
  <2>3. Cardinality(t) \in Nat /\ Cardinality(t) # 0
    BY <1>6, <2>2, FS_CardinalityType, FS_EmptySet
  <2>4. t = {i \in s : Nft!Doc(i).of = c}
    BY DEF OfLog, Nft!Doc
  <2>5. Cardinality(t) > 0 => Nft!RoomFor(c, Cardinality(t) - 1)
    <3> DEFINE u == {i \in s : Nft!Doc(i).of = c}
    <3>1. Nft!Cardinality(u) > 0 => Nft!RoomFor(c, Nft!Cardinality(u) - 1)
      BY <1>2 DEF Nft!Acceptable
    <3> QED  BY <2>4, <3>1, NftCardinality
  <2> HIDE DEF t
  <2>6. collections[c].total \in Nat
    BY DEF Counting, CountsInv
  <2>7. collections[c].total + Cardinality(t) <= Supply
    BY <2>3, <2>5, <2>6 DEF Nft!RoomFor, Counting
  <2> QED  BY <2>7 DEF t
<1>7. JobInv'
  <2>1. \A c : AcceptedOf(c)' = {i \in s : OfLog(i) = c}
    BY <1>3, <1>4 DEF AcceptedOf
  <2> QED  BY <1>1, <1>3, <1>4, <1>5, <1>6, <2>1 DEF Counting, JobInv
<1>8. ~Saved
  BY <1>1 DEF Saved
<1> QED  BY <1>1, <1>7, <1>8, QuietItems DEF Counting, ItemsInv

(* The items saved are those of before and at most one for each document accepted. *)
LEMMA SaveKeepsSupply ==
  ASSUME Counting, Nft!SaveItems
  PROVE  JobInv' /\ ItemsInv' /\ CountsInv'
<1>1. /\ UNCHANGED <<chain, collections, todo, merging>> /\ job.pc = "save"
      /\ job' = [job EXCEPT !.pc = "describe"]
  BY DEF Nft!SaveItems, Nft!logvars, Nft!pinvars, Nft!sweep, Nft!At
<1>2. /\ DOMAIN job' = {"pc", "docs", "owner", "accepted", "last"} /\ job'.pc = "describe"
      /\ job'.docs = job.docs /\ job'.accepted = job.accepted
  BY <1>1, JobGoto DEF Counting
<1>3. /\ Ids' = Ids /\ Pins' = Pins /\ (\A i : OfLog(i)' = OfLog(i) /\ Pin(i)' = Pin(i))
  BY <1>1 DEF Ids, Pins, OfLog, Pin
<1>4. Counted' = Counted /\ ~Saved /\ Saved'
  BY <1>1, <1>2, <1>3 DEF Counted, Saved
<1>5. JobInv'
  BY <1>1, <1>2, <1>3, <1>4 DEF Counting, JobInv
<1> DEFINE new == {Pin(i) : i \in job.accepted}
           mine(p) == {i \in job.accepted : Pin(i) = p}
<1>6. /\ DOMAIN items' = DOMAIN items \cup new
      /\ \A p \in DOMAIN items \ new : items'[p] = items[p]
      /\ \A p \in new : "of" \in DOMAIN items'[p] /\ items'[p].of = OfLog(Max(mine(p)))
  <2> DEFINE doc(p) == [of |-> Nft!Doc(Nft!Max(mine(p))).of,
                        mempool |-> \A i \in mine(p) : Nft!Pending(i),
                        described |-> FALSE, address |-> job.owner[Nft!Max(mine(p))]]
  <2>1. items' = [p \in DOMAIN items \cup new |-> IF p \in new THEN doc(p) ELSE items[p]]
    BY DEF Nft!SaveItems, Nft!Pin, Pin
  <2>2. \A p : "of" \in DOMAIN doc(p) /\ doc(p).of = OfLog(Max(mine(p)))
    BY DEF OfLog, Nft!Doc, Nft!Max, Max
  <2> HIDE DEF new, doc, mine
  <2> QED  BY <2>1, <2>2
<1>7. ASSUME NEW p \in new
      PROVE  \E i \in job.accepted : Pin(i) = p /\ items'[p].of = OfLog(i)
  <2>1. mine(p) # {} /\ mine(p) \in SUBSET Ids
    BY DEF Counting, JobInv
  <2>2. Max(mine(p)) \in mine(p)
    BY <2>1, IdsTyped DEF Counting
  <2> QED  BY <1>6, <2>2
<1>8. ASSUME NEW p \in DOMAIN items \cap new
      PROVE  items'[p].of = items[p].of
  <2>1. PICK i \in job.accepted : Pin(i) = p /\ items'[p].of = OfLog(i)
    BY <1>7
  <2>2. PICK j \in Ids : Pin(j) = p /\ items[p].of = OfLog(j)
    BY DEF Counting, ItemsInv
  <2>3. i \in Ids
    BY DEF Counting, JobInv
  <2>4. OfLog(i) = OfLog(j)
    BY <2>1, <2>2, <2>3, PinsAssumption DEF OfLog, Pin, Ids, Counting
  <2> QED  BY <2>1, <2>2, <2>4
<1>9. \A p \in new : p \in Pins /\ items'[p].of \in DOMAIN collections /\ \E i \in Ids : Pin(i) = p /\ items'[p].of = OfLog(i)
  BY <1>7 DEF Counting, JobInv, Pins
<1> HIDE DEF new, mine
<1>10. ItemsInv'
  <2>1. \A p \in DOMAIN items' :
          /\ "of" \in DOMAIN items'[p] /\ items'[p].of \in DOMAIN collections
          /\ \E i \in Ids : Pin(i) = p /\ items'[p].of = OfLog(i)
    BY <1>6, <1>9 DEF Counting, ItemsInv
  <2>2. \A p \in DOMAIN items : items'[p].of = items[p].of
    BY <1>6, <1>8
  <2>3. DOMAIN items' \subseteq Pins
    BY <1>6, <1>9 DEF Counting, ItemsInv
  <2>4. todo' \subseteq DOMAIN items'
    BY <1>1, <1>6 DEF Counting, ItemsInv
  <2>5. \A m \in merging' : m.pin \in DOMAIN items' /\ "of" \in DOMAIN m.doc /\ m.doc.of = items'[m.pin].of
    BY <1>1, <1>6, <2>2 DEF Counting, ItemsInv
  <2> QED  BY <1>1, <1>3, <2>1, <2>3, <2>4, <2>5 DEF ItemsInv
<1>11. ASSUME NEW c \in DOMAIN collections
       PROVE  /\ Cardinality(ItemsOf(items', c)) <= Supply
              /\ Cardinality(ItemsOf(items', c)) <= collections[c].total \/ c \in Counted
  <2> DEFINE old == ItemsOf(items, c)
             acc == AcceptedOf(c)
             pins == {Pin(i) : i \in acc}
             now == ItemsOf(items', c)
  <2>1. now \subseteq old \cup pins
    <3>1. ASSUME NEW p \in DOMAIN items', items'[p].of = c, p \notin pins PROVE p \in old
      <4>1. p \notin new
        BY <1>7, <3>1 DEF AcceptedOf
      <4> QED  BY <1>6, <3>1, <4>1 DEF ItemsOf
    <3> QED  BY <3>1 DEF ItemsOf
  <2>2. acc \subseteq Ids
    BY DEF AcceptedOf, Counting, JobInv
  <2>3. IsFiniteSet(acc) /\ IsFiniteSet(old) /\ Cardinality(old) \in Nat
    BY <2>2, PinsFinite, FS_Subset, ItemsFinite DEF Counting, ItemsInv
  <2>4. IsFiniteSet(pins) /\ Cardinality(pins) <= Cardinality(acc)
    BY <2>3, PinsOf
  <2>5. Cardinality(acc) \in Nat /\ Cardinality(pins) \in Nat
    BY <2>3, <2>4, FS_CardinalityType
  <2>6. /\ collections[c].total \in Nat /\ Cardinality(old) <= Supply
        /\ Cardinality(old) <= collections[c].total
    BY <1>4 DEF Counting, CountsInv
  <2>7. CASE acc = {}
    <3>1. now \subseteq old
      BY <2>1, <2>7
    <3>2. Cardinality(now) <= Cardinality(old) /\ Cardinality(now) \in Nat
      BY <2>3, <3>1, FS_Subset, FS_CardinalityType
    <3> HIDE DEF now, old
    <3>3. Cardinality(now) <= Supply /\ Cardinality(now) <= collections[c].total
      BY <2>3, <2>6, <3>2 DEF Counting
    <3> QED  BY <3>3 DEF now
  <2>8. CASE acc # {}
    <3>1. c \in Counted
      BY <2>8 DEF AcceptedOf, Counting, JobInv
    <3>2. collections[c].total + Cardinality(acc) <= Supply
      BY <1>1, <2>8 DEF Counting, JobInv
    <3>3. /\ IsFiniteSet(old \cup pins) /\ Cardinality(old \cup pins) \in Nat
          /\ Cardinality(old \cup pins) <= Cardinality(old) + Cardinality(pins)
      <4> HIDE DEF old, pins
      <4>1. IsFiniteSet(old \cup pins) /\ IsFiniteSet(old \cap pins)
        BY <2>3, <2>4, FS_Union, FS_Intersection
      <4>2. Cardinality(old \cup pins) = Cardinality(old) + Cardinality(pins) - Cardinality(old \cap pins)
        BY <2>3, <2>4, FS_Union
      <4>3. Cardinality(old \cap pins) \in Nat /\ Cardinality(old \cup pins) \in Nat
        BY <4>1, FS_CardinalityType
      <4> QED  BY <2>3, <2>5, <4>1, <4>2, <4>3
    <3>4. Cardinality(now) <= Cardinality(old \cup pins) /\ Cardinality(now) \in Nat
      BY <2>1, <3>3, FS_Subset, FS_CardinalityType
    <3> HIDE DEF now, old, pins, acc
    <3>5. Cardinality(now) <= Supply
      BY <2>3, <2>4, <2>5, <2>6, <3>2, <3>3, <3>4 DEF Counting
    <3> QED  BY <3>1, <3>5 DEF now
  <2> QED  BY <2>7, <2>8
<1>12. CountsInv'
  BY <1>1, <1>4, <1>11 DEF Counting, CountsInv
<1> QED  BY <1>5, <1>10, <1>12

LEMMA DescribeKeepsItems ==
  ASSUME Counting, Nft!DescribeItems
  PROVE  JobInv' /\ ItemsInv' /\ CountsInv'
<1>1. /\ UNCHANGED <<chain, collections, todo, merging>> /\ job.pc = "describe"
      /\ job' = [job EXCEPT !.pc = "count"]
  BY DEF Nft!DescribeItems, Nft!logvars, Nft!pinvars, Nft!sweep, Nft!At
<1>2. /\ DOMAIN job' = {"pc", "docs", "owner", "accepted", "last"} /\ job'.pc = "count"
      /\ job'.docs = job.docs /\ job'.accepted = job.accepted
  BY <1>1, JobGoto DEF Counting
<1>3. JobInv'
  BY <1>1, <1>2 DEF Counting, JobInv, Ids, OfLog, Counted, AcceptedOf
<1>4. /\ DOMAIN items' = DOMAIN items
      /\ \A p \in DOMAIN items : "of" \in DOMAIN items'[p] /\ items'[p].of = items[p].of
  <2>1. PICK about : items' = [p \in DOMAIN items |->
                       IF p \in about THEN [items[p] EXCEPT !.described = TRUE] ELSE items[p]]
    BY DEF Nft!DescribeItems
  <2>2. \A p \in DOMAIN items : "of" \in DOMAIN items[p]
    BY DEF Counting, ItemsInv
  <2> QED  BY <2>1, <2>2
<1>5. Saved'
  BY <1>2 DEF Saved
<1> QED  BY <1>1, <1>2, <1>3, <1>4, <1>5, QuietItems DEF Counting, ItemsInv

LEMMA CountKeepsSupply ==
  ASSUME Counting, Nft!CountItems
  PROVE  JobInv' /\ ItemsInv' /\ CountsInv'
<1>1. /\ UNCHANGED <<chain, items, todo, merging>> /\ job.pc = "count"
      /\ job' = [job EXCEPT !.pc = "cursor"]
  BY DEF Nft!CountItems, Nft!logvars, Nft!pinvars, Nft!sweep, Nft!At
<1>2. /\ DOMAIN job' = {"pc", "docs", "owner", "accepted", "last"} /\ job'.pc = "cursor"
      /\ job'.docs = job.docs /\ job'.accepted = job.accepted
  BY <1>1, JobGoto DEF Counting
<1>3. /\ DOMAIN collections' = DOMAIN collections
      /\ \A c \in DOMAIN collections :
           IF c \in Counted
           THEN /\ "total" \in DOMAIN collections'[c]
                /\ collections'[c].total = Cardinality(ItemsOf(items, c))
           ELSE collections'[c] = collections[c]
  <2>1. Counted = {Nft!Doc(i).of : i \in Nft!OfKind("item")}
    BY DEF Counted, OfLog, Nft!Doc, Nft!OfKind
  <2>2. collections' = [c \in DOMAIN collections |->
          IF c \in Counted THEN [collections[c] EXCEPT !.total = Cardinality(ItemsOf(items, c))]
          ELSE collections[c]]
    BY <2>1, NftCardinality DEF Nft!CountItems, ItemsOf
  <2>3. \A c \in DOMAIN collections : "total" \in DOMAIN collections[c]
    BY DEF Counting, CountsInv
  <2> QED  BY <2>2, <2>3
<1>4. JobInv'
  BY <1>1, <1>2, <1>3 DEF Counting, JobInv, Ids, OfLog, Counted, AcceptedOf
<1>5. ItemsInv'
  BY <1>1, <1>3 DEF Counting, ItemsInv, Ids, Pins, Pin, OfLog
<1>6. CountsInv'
  <2>1. \A c : Cardinality(ItemsOf(items, c)) \in Nat
    BY ItemsFinite DEF Counting, ItemsInv
  <2>2. ASSUME NEW c \in DOMAIN collections
        PROVE  /\ "total" \in DOMAIN collections'[c] /\ collections'[c].total \in Nat
               /\ Cardinality(ItemsOf(items, c)) <= collections'[c].total
    BY <1>3, <2>1 DEF Counting, CountsInv
  <2> QED  BY <1>1, <1>3, <2>2 DEF Counting, CountsInv
<1> QED  BY <1>4, <1>5, <1>6

(* Transfers and cursors: what rests has nothing accepted. *)
LEMMA RestKeepsItems ==
  ASSUME Counting, Nft!SaveCursor721 \/ Nft!MoveItems \/ Nft!SaveMoves
  PROVE  JobInv' /\ ItemsInv' /\ CountsInv'
<1>1. /\ UNCHANGED <<chain, collections, todo, merging>> /\ ~Saved
  BY DEF Nft!SaveCursor721, Nft!MoveItems, Nft!SaveMoves, Nft!logvars, Nft!pinvars, Nft!sweep,
     Nft!At, Saved
<1>2. DOMAIN job' = {"pc", "docs", "owner", "accepted", "last"} /\ job'.docs = {} /\ job'.accepted = {}
  <2>1. (\E pc : job' = Nft!Resting(pc)) \/ \E n : job' = [Nft!Resting("saveTransfers") EXCEPT !.last = n]
    BY DEF Nft!SaveCursor721, Nft!MoveItems, Nft!SaveMoves
  <2> QED  BY <2>1, RestForm
<1>3. JobInv'
  BY <1>1, <1>2, FreshJob
<1>4. /\ DOMAIN items' = DOMAIN items
      /\ \A p \in DOMAIN items : "of" \in DOMAIN items'[p] /\ items'[p].of = items[p].of
  <2>1. \A p \in DOMAIN items : "of" \in DOMAIN items[p]
    BY DEF Counting, ItemsInv
  <2>2. CASE items' = items
    BY <2>1, <2>2
  <2>3. CASE Nft!MoveItems
    <3> DEFINE n == cursor["mrc721transfer"]
               to(p) == history[Nft!Max(Nft!MovesOf(p, n))].to
    <3>1. items' = [p \in DOMAIN items |->
            IF Nft!MovesOf(p, n) = {} THEN items[p] ELSE [items[p] EXCEPT !.address = to(p)]]
      BY <2>3 DEF Nft!MoveItems
    <3> HIDE DEF n, to
    <3> QED  BY <2>1, <3>1
  <2> QED  BY <2>2, <2>3 DEF Nft!SaveCursor721, Nft!SaveMoves
<1> QED  BY <1>1, <1>3, <1>4, QuietItems DEF Counting, ItemsInv

(* What SyncAddress writes back is of the item's collection still. *)
LEMMA SweepKeepsItems ==
  ASSUME Counting, Nft!SyncAddress
  PROVE  JobInv' /\ ItemsInv' /\ CountsInv'
<1>1. UNCHANGED <<chain, collections, job>>
  BY DEF Nft!SyncAddress, Nft!Sweep, Nft!JoinAddress, Nft!MergeAddress, Nft!logvars, Nft!pinvars
<1>2. JobInv'
  BY <1>1 DEF Counting, JobInv, Ids, OfLog, Counted, AcceptedOf
<1>3. Saved' <=> Saved
  BY <1>1 DEF Saved
<1>4. \A p \in DOMAIN items : "of" \in DOMAIN items[p]
  BY DEF Counting, ItemsInv
<1>5. /\ DOMAIN items' = DOMAIN items
      /\ \A p \in DOMAIN items : "of" \in DOMAIN items'[p] /\ items'[p].of = items[p].of
      /\ todo' \subseteq DOMAIN items
      /\ \A m \in merging' :
           m.pin \in DOMAIN items /\ "of" \in DOMAIN m.doc /\ m.doc.of = items[m.pin].of
  <2>1. CASE Nft!Sweep
    BY <1>4, <2>1 DEF Nft!Sweep, Counting, ItemsInv
  <2>2. CASE Nft!JoinAddress
    <3>1. PICK p \in todo :
            /\ todo' = todo \ {p} /\ items' = items
            /\ merging' = {[pin |-> p, doc |-> [items[p] EXCEPT !.address = Nft!Owner(p)]]}
      BY <2>2 DEF Nft!JoinAddress
    <3>2. p \in DOMAIN items /\ "of" \in DOMAIN items[p]
      BY <1>4 DEF Counting, ItemsInv
    <3> DEFINE d == [items[p] EXCEPT !.address = Nft!Owner(p)]
               m == [pin |-> p, doc |-> d]
    <3>3. "of" \in DOMAIN d /\ d.of = items[p].of
      BY <3>2
    <3> HIDE DEF d
    <3>4. m.pin = p /\ m.doc = d
      OBVIOUS
    <3>5. merging' = {m}
      BY <3>1 DEF d
    <3> HIDE DEF m
    <3>6. todo' \subseteq DOMAIN items
      BY <3>1 DEF Counting, ItemsInv
    <3> QED  BY <1>4, <3>1, <3>2, <3>3, <3>4, <3>5, <3>6
  <2>3. CASE Nft!MergeAddress
    <3>1. PICK m \in merging : items' = [items EXCEPT ![m.pin] = m.doc]
      BY <2>3 DEF Nft!MergeAddress
    <3>2. m.pin \in DOMAIN items /\ "of" \in DOMAIN m.doc /\ m.doc.of = items[m.pin].of
      BY DEF Counting, ItemsInv
    <3>3. todo' = todo /\ merging' = {}
      BY <2>3 DEF Nft!MergeAddress
    <3> QED  BY <1>4, <3>1, <3>2, <3>3 DEF Counting, ItemsInv
  <2> QED  BY <2>1, <2>2, <2>3 DEF Nft!SyncAddress
<1> QED  BY <1>1, <1>2, <1>3, <1>5, QuietItems

LEMMA InitSupply == Init => SupplyInv
<1> SUFFICES ASSUME Init PROVE SupplyInv
  OBVIOUS
<1>1. /\ chain \in Chains /\ stored = {} /\ crashes = 0 /\ collections = << >> /\ items = << >>
      /\ todo = {} /\ merging = {} /\ job = Nft!Resting("read")
  BY DEF Init, LogInit, Nft!NftInit
<1>2. DOMAIN collections = {} /\ DOMAIN items = {}
  BY <1>1
<1>3. JobInv
  BY <1>1, <1>2, RestForm DEF JobInv, AcceptedOf
<1>4. ItemsInv /\ CountsInv
  BY <1>1, <1>2 DEF ItemsInv, CountsInv
<1> QED  BY <1>1, <1>3, <1>4 DEF SupplyInv

LEMMA CrashesCount == [Next]_vars => crashes' = crashes \/ crashes' = crashes + 1
<1>1. LogNext => crashes' = crashes
  BY DEF LogNext, StoreBlock, Announce, Discard, MovePin, RecordMove
<1>2. Metaso!MetasoNext => crashes' = crashes \/ crashes' = crashes + 1
  BY DEF Metaso!MetasoNext, Metaso!Synchronization, Metaso!FixStatistics, Metaso!FixHost,
    Metaso!ReadTweets, Metaso!InsertTweets, Metaso!SaveTweetCursor,
    Metaso!SynchTweetLike, Metaso!SynchMeatsoDonate, Metaso!SynchTweetComment, Metaso!React,
    Metaso!Read, Metaso!SaveFirst, Metaso!Look, Metaso!Insert, Metaso!Count,
    Metaso!SyncHostData, Metaso!SyncMrc20TickData, Metaso!SynchMempoolData,
    Metaso!InsertMempoolData, Metaso!FixTweets, Metaso!FixCursor, Metaso!FixMark,
    Metaso!DeleteMetaSoMempool, Metaso!MetasoCrash, Metaso!LogCrash, Metaso!logvars
<1>3. Name!NameNext => crashes' = crashes \/ crashes' = crashes + 1
  BY DEF Name!NameNext, Name!NameSync, Name!ReadNames, Name!SaveNames, Name!InsertNames,
    Name!UpdateNames, Name!InsertHistory, Name!MoveNames, Name!SaveTransfers,
    Name!NameCrash, Name!LogCrash, Name!logvars
<1>4. Nft!NftNext => crashes' = crashes \/ crashes' = crashes + 1
  BY DEF Nft!NftNext, Nft!NftSync, Nft!ReadView, Nft!SaveCollections, Nft!AcceptItems,
    Nft!SaveItems, Nft!DescribeItems, Nft!CountItems, Nft!SaveCursor721, Nft!MoveItems,
    Nft!SaveMoves, Nft!SyncAddress, Nft!Sweep, Nft!JoinAddress, Nft!MergeAddress,
    Nft!NftCrash, Nft!LogCrash, Nft!logvars
<1>5. Value!PevNext => crashes' = crashes \/ crashes' = crashes + 1
  BY DEF Value!PevNext, Value!SyncPEV, Value!BeginPEV, Value!BeginPending, Value!CountBlocks,
    Value!SaveInfo, Value!UpdateBlockHosts, Value!UpdateBlockAddresses, Value!UpdateTotals,
    Value!SaveMetablock, Value!PevCrash, Value!LogCrash, Value!logvars
<1>6. Access!AccessNext => crashes' = crashes \/ crashes' = crashes + 1
  BY DEF Access!AccessNext, Access!AccessTurn, Access!Turn, Access!StartTurn, Access!Check,
    Access!SaveControls, Access!SavePasses, Access!HearControl, Access!AccessCrash,
    Access!LogCrash, Access!logvars
<1> QED  BY <1>1, <1>2, <1>3, <1>4, <1>5, <1>6
         DEF Next, Index, SyncMetaso, SyncName, SyncNft, SyncValue, HandleAccess, vars, logvars

LEMMA NextSupply == SupplyInv /\ [Next]_vars => SupplyInv'
<1> SUFFICES ASSUME SupplyInv, [Next]_vars PROVE SupplyInv'
  OBVIOUS
<1>1. chain' = chain /\ chain \in Chains /\ stored' \subseteq Ids' /\ stored \subseteq Ids
  BY ChainKept, StoredKept DEF SupplyInv
<1>2. crashes' \in Nat /\ (crashes' = 0 => crashes = 0)
  BY CrashesCount DEF SupplyInv
<1>3. CASE chain.module # "mrc721"
  <2>1. collections' = collections
    BY <1>3 DEF Next, Index, SyncMetaso, SyncName, SyncNft, SyncValue, HandleAccess, vars, nftvars
  <2> QED  BY <1>1, <1>2, <1>3, <2>1 DEF SupplyInv
<1>4. ASSUME chain.module = "mrc721", Supply # -1, crashes' = 0
      PROVE  JobInv' /\ ItemsInv' /\ CountsInv'
  <2>1. Counting
    BY <1>1, <1>2, <1>4, SupplyAssumption DEF SupplyInv, Counting
  <2>2. CASE UNCHANGED nftvars
    <3>1. UNCHANGED <<collections, items, job, todo, merging>>
      BY <2>2 DEF nftvars
    <3>2. JobInv'
      BY <1>1, <2>1, <3>1 DEF Counting, JobInv, Ids, OfLog, Counted, AcceptedOf
    <3>3. Saved' <=> Saved
      BY <3>1 DEF Saved
    <3> QED  BY <1>1, <2>1, <3>1, <3>2, <3>3, QuietItems DEF Counting, ItemsInv
  <2>3. CASE Nft!NftSync
    BY <1>1, <2>1, <2>3, ReadItems, SaveCollectionsItems, AcceptKeepsCounts, SaveKeepsSupply,
       DescribeKeepsItems, CountKeepsSupply, RestKeepsItems DEF Nft!NftSync
  <2>4. CASE Nft!SyncAddress
    BY <2>1, <2>4, SweepKeepsItems
  <2>5. ~Nft!NftCrash
    BY <1>2, <1>4 DEF Nft!NftCrash, Nft!LogCrash
  <2> QED  BY <1>4, <2>2, <2>3, <2>4, <2>5
           DEF Next, Index, SyncMetaso, SyncName, SyncNft, SyncValue, HandleAccess, vars, Nft!NftNext
<1> QED  BY <1>1, <1>2, <1>3, <1>4 DEF SupplyInv

(***************************************************************************)
(* A collection never has more items than its totalsupply, for any log,    *)
(* any supply and any way the batches are cut, as long as the process does *)
(* not crash.                                                              *)
(***************************************************************************)
THEOREM SupplyHolds == Spec => []SupplyKept
<1>1. SupplyInv => SupplyKept
  <2> SUFFICES ASSUME SupplyInv, Supply # -1, crashes = 0, NEW c \in DOMAIN collections
               PROVE  Cardinality(ItemsOf(items, c)) <= Supply
    BY NftCardinality DEF SupplyKept, Nft!SupplyKept, ItemsOf
  <2>1. chain.module = "mrc721"
    <3>1. DOMAIN << >> = {}
      OBVIOUS
    <3> QED  BY <3>1 DEF SupplyInv
  <2> QED  BY <2>1 DEF SupplyInv, CountsInv
<1> QED  BY <1>1, InitSupply, NextSupply, PTL DEF Spec


(***************************************************************************)
(* The readers of metaso that save their cursor first.                     *)
(***************************************************************************)

(* What has taken effect is behind the cursor of its reader. *)
TakenInv ==
  /\ DOMAIN counted = Pins /\ \A p \in Pins : counted[p] \in {0, 1}
  /\ \A i \in Ids : Metaso!IsEntry(i) /\ Metaso!Taken(i) = 1 => i <= cursor[Metaso!KeyOf(i)]

(* What is being read has not taken effect; it is behind the cursor once that is saved. *)
BatchInv ==
  sync.at \in ReactionKeys /\ sync.pc # "read" =>
    /\ sync.pc \in {"save", "look", "insert", "count"}
    /\ sync.batch # {} /\ sync.batch \subseteq Ids
    /\ \A i \in sync.batch :
         /\ Metaso!IsEntry(i) /\ Metaso!KeyOf(i) = sync.at /\ Metaso!Taken(i) = 0
         /\ IF sync.pc = "save" THEN i > cursor[sync.at] ELSE i <= cursor[sync.at]

FateInv ==
  /\ chain \in Chains /\ stored \subseteq Ids
  /\ chain.module = "metaso" =>
       /\ SyncForm /\ DOMAIN cursor = Keys /\ \A key \in ReactionKeys : cursor[key] \in Nat
       /\ TakenInv /\ BatchInv


(***************************************************************************)
(* The fate of an entry.                                                   *)
(***************************************************************************)
Fate(entry, taken, claimed, behind) ==
  IF ~entry THEN "unread"
  ELSE IF taken = 1 THEN "done"
  ELSE IF claimed THEN "claimed"
  ELSE IF behind THEN "lost" ELSE "unread"

Behind(i) == i <= cursor[Metaso!KeyOf(i)]

LEMMA FateIs ==
  \A i : (Metaso!IsEntry(i) => Metaso!Taken(i) \in {0, 1}) =>
    Metaso!FateOf(i) = Fate(Metaso!IsEntry(i), Metaso!Taken(i), Metaso!Claimed(i), Behind(i))
BY DEF Metaso!FateOf, Fate, Behind

LEMMA FateIsNext ==
  \A i : (Metaso!IsEntry(i)' => Metaso!Taken(i)' \in {0, 1}) =>
    Metaso!FateOf(i)' = Fate(Metaso!IsEntry(i)', Metaso!Taken(i)', Metaso!Claimed(i)', Behind(i)')
BY DEF Metaso!FateOf, Fate, Behind

(***************************************************************************)
(* The steps of LogReader, entry by entry.                                 *)
(***************************************************************************)
Passes(from, to) ==
  \A i \in Metaso!Entries :
    Metaso!FateOf(i)' = Metaso!FateOf(i) \/ (Metaso!FateOf(i) \in from /\ Metaso!FateOf(i)' \in to)

LEMMA ChangeIs ==
  ASSUME NEW from, NEW to, Passes(from, to)
  PROVE  \E s \in SUBSET Metaso!Entries : \E f \in [s -> to] : Metaso!Reader!Change(s, from, f)
<1> DEFINE s == {i \in Metaso!Entries : Metaso!FateOf(i)' # Metaso!FateOf(i)}
           f == [i \in s |-> Metaso!FateOf(i)']
<1>1. f \in [s -> to]
  BY DEF Passes
<1>2. Metaso!Reader!Change(s, from, f)
  BY DEF Passes, Metaso!Reader!Change
<1> QED  BY <1>1, <1>2

LEMMA StepIs ==
  /\ Passes({"unread"}, {"claimed", "lost"}) => Metaso!Reader!Next
  /\ Passes({"claimed"}, {"done", "lost"}) => Metaso!Reader!Next
  /\ Passes({"claimed", "done"}, {"lost"}) => Metaso!Reader!Next
<1>1. Passes({"unread"}, {"claimed", "lost"}) => Metaso!Reader!Claim
  BY ChangeIs DEF Metaso!Reader!Claim
<1>2. Passes({"claimed"}, {"done", "lost"}) => Metaso!Reader!Settle
  BY ChangeIs DEF Metaso!Reader!Settle
<1>3. Passes({"claimed", "done"}, {"lost"}) => Metaso!Reader!Lose
  <2> SUFFICES ASSUME Passes({"claimed", "done"}, {"lost"}) PROVE Metaso!Reader!Lose
    OBVIOUS
  <2>0. PICK s \in SUBSET Metaso!Entries :
          \E f \in [s -> {"lost"}] : Metaso!Reader!Change(s, {"claimed", "done"}, f)
    BY ChangeIs
  <2>1. PICK f \in [s -> {"lost"}] : Metaso!Reader!Change(s, {"claimed", "done"}, f)
    BY <2>0
  <2>2. f = [e \in s |-> "lost"]
    OBVIOUS
  <2> QED  BY <2>1, <2>2 DEF Metaso!Reader!Lose
<1> QED  BY <1>1, <1>2, <1>3 DEF Metaso!Reader!Next

LEMMA KeyIs ==
  \A i, key : key \in ReactionKeys /\ Metaso!Kind(i) \in Metaso!KindsOf(key)
      /\ (Metaso!Pending(i) <=> key = "mempool") =>
    /\ Metaso!KeyOf(i) = key
    /\ i \in Ids /\ chain.module = "metaso" => Metaso!IsEntry(i)
BY DEF Metaso!KeyOf, Metaso!IsEntry, Metaso!KindsOf, ReactionKeys, Metaso!Reactions, Metaso!Ids, Ids

LEMMA KeyRange ==
  \A i : Metaso!IsEntry(i) =>
    Metaso!KeyOf(i) \in ReactionKeys /\ (Metaso!Pending(i) <=> Metaso!KeyOf(i) = "mempool")
BY DEF Metaso!KeyOf, Metaso!IsEntry, Metaso!KindsOf, ReactionKeys, Metaso!Reactions

LEMMA EntryFixed ==
  ASSUME chain' = chain
  PROVE  \A i : /\ Metaso!IsEntry(i)' = Metaso!IsEntry(i) /\ Metaso!KeyOf(i)' = Metaso!KeyOf(i)
                /\ Metaso!Pending(i)' = Metaso!Pending(i) /\ Metaso!Pin(i)' = Metaso!Pin(i)
BY DEF Metaso!KeyOf, Metaso!IsEntry, Metaso!Kind, Metaso!Pending, Metaso!Ids, Metaso!Pin

(***************************************************************************)
(* The invariant, and the fates, step by step.                             *)
(***************************************************************************)
Reading == chain.module = "metaso" /\ FateInv

LEMMA ReadingFacts ==
  ASSUME Reading
  PROVE  /\ \A i : Metaso!IsEntry(i) =>
              /\ i \in Ids /\ i \in Nat /\ Metaso!KeyOf(i) \in ReactionKeys /\ Pin(i) \in Pins
              /\ Metaso!Taken(i) \in {0, 1} /\ (Metaso!Taken(i) = 1 => Behind(i))
              /\ cursor[Metaso!KeyOf(i)] \in Nat
              /\ (Metaso!Pending(i) <=> Metaso!KeyOf(i) = "mempool")
         /\ \A i : Metaso!FateOf(i) = Fate(Metaso!IsEntry(i), Metaso!Taken(i), Metaso!Claimed(i), Behind(i))
<1>1. \A i : Metaso!IsEntry(i) => i \in Ids /\ Pin(i) \in Pins
  BY DEF Metaso!IsEntry, Metaso!Ids, Ids, Pins
<1>2. \A i : Metaso!IsEntry(i) => Metaso!Taken(i) \in {0, 1}
  BY <1>1 DEF Reading, FateInv, TakenInv, Metaso!Taken, Metaso!Pin, Pin
<1>3. \A i : Metaso!IsEntry(i) => i \in Nat /\ (Metaso!Taken(i) = 1 => Behind(i))
  BY <1>1, IdsTyped DEF Reading, FateInv, TakenInv, Behind
<1>4. \A i : Metaso!IsEntry(i) => cursor[Metaso!KeyOf(i)] \in Nat
  BY KeyRange DEF Reading, FateInv
<1> QED  BY <1>1, <1>2, <1>3, <1>4, KeyRange, FateIs

(* A step that forgets, or does nothing. *)
LEMMA QuietFate ==
  ASSUME Reading, chain' = chain,
         \A key \in ReactionKeys : cursor'[key] = cursor[key],
         DOMAIN counted' = Pins, \A p \in Pins : counted'[p] \in {0, counted[p]},
         mempoolData' \subseteq mempoolData,
         sync' = sync \/ sync'.pc = "read" \/ sync'.at \notin ReactionKeys
  PROVE  TakenInv' /\ BatchInv' /\ Passes({"claimed", "done"}, {"lost"})
<1>1. /\ Pins' = Pins /\ Ids' = Ids
      /\ \A i : /\ Metaso!IsEntry(i)' = Metaso!IsEntry(i) /\ Metaso!KeyOf(i)' = Metaso!KeyOf(i)
                /\ Metaso!Pending(i)' = Metaso!Pending(i) /\ Metaso!Pin(i)' = Metaso!Pin(i)
  BY EntryFixed DEF Pins, Ids, Pin
<1>2. \A i : Metaso!IsEntry(i) => Metaso!Taken(i)' \in {0, Metaso!Taken(i)} /\ (Behind(i)' <=> Behind(i))
  <2> TAKE i
  <2> HAVE Metaso!IsEntry(i)
  <2>1. Metaso!Pin(i) \in Pins /\ Metaso!KeyOf(i) \in ReactionKeys
    BY ReadingFacts DEF Metaso!Pin, Pin
  <2> QED  BY <1>1, <2>1 DEF Metaso!Taken, Behind
<1>3. TakenInv'
  <2>1. \A p \in Pins : counted'[p] \in {0, 1}
    BY DEF Reading, FateInv, TakenInv
  <2>2. \A i \in Ids : Metaso!IsEntry(i) /\ Metaso!Taken(i)' = 1 => i <= cursor'[Metaso!KeyOf(i)]
    BY <1>2, ReadingFacts DEF Behind
  <2> QED  BY <1>1, <2>1, <2>2 DEF TakenInv
<1>4. BatchInv'
  <2>1. CASE sync' = sync
    <3>1. BatchInv
      BY DEF Reading, FateInv
    <3>2. \A i \in sync.batch : Metaso!IsEntry(i) /\ Metaso!Taken(i) = 0 => Metaso!Taken(i)' = 0
      BY <1>2
    <3> QED  BY <1>1, <2>1, <3>1, <3>2 DEF BatchInv
  <2>2. CASE sync'.pc = "read" \/ sync'.at \notin ReactionKeys
    BY <2>2 DEF BatchInv
  <2> QED  BY <2>1, <2>2
<1>5. ASSUME NEW i, Metaso!IsEntry(i)
      PROVE  /\ Metaso!Claimed(i)' => Metaso!Claimed(i)
             /\ Metaso!Claimed(i) => Behind(i)
             /\ Metaso!Claimed(i) => Metaso!Taken(i) = 0
  <2>1. Metaso!KeyOf(i) \in ReactionKeys
    BY <1>5, ReadingFacts
  <2>2. Metaso!Claimed(i) => Behind(i) /\ Metaso!Taken(i) = 0
    BY <2>1 DEF Metaso!Claimed, Reading, FateInv, BatchInv, Behind
  <2>3. Metaso!Claimed(i)' => Metaso!Claimed(i)
    BY <1>1, <2>1 DEF Metaso!Claimed
  <2> QED  BY <2>2, <2>3
<1>6. Passes({"claimed", "done"}, {"lost"})
  <2> SUFFICES ASSUME NEW i
               PROVE  \/ Metaso!FateOf(i)' = Metaso!FateOf(i)
                      \/ Metaso!FateOf(i) \in {"claimed", "done"} /\ Metaso!FateOf(i)' = "lost"
    BY DEF Passes
  <2>1. Metaso!FateOf(i) = Fate(Metaso!IsEntry(i), Metaso!Taken(i), Metaso!Claimed(i), Behind(i))
    BY ReadingFacts
  <2>2. Metaso!FateOf(i)' = Fate(Metaso!IsEntry(i), Metaso!Taken(i)', Metaso!Claimed(i)', Behind(i)')
    BY <1>1, <1>2, ReadingFacts, FateIsNext
  <2>3. CASE ~Metaso!IsEntry(i)
    BY <2>1, <2>2, <2>3 DEF Fate
  <2>4. CASE Metaso!IsEntry(i)
    <3>1. Metaso!Taken(i) \in {0, 1} /\ (Metaso!Taken(i) = 1 => Behind(i))
      BY <2>4, ReadingFacts
    <3> QED  BY <1>2, <1>5, <2>1, <2>2, <2>4, <3>1 DEF Fate
  <2> QED  BY <2>3, <2>4
<1> QED  BY <1>3, <1>4, <1>6

(***************************************************************************)
(* What a step does that leaves the cursors and the stores alone.          *)
(***************************************************************************)
LEMMA SameTaken ==
  ASSUME Reading, chain' = chain, UNCHANGED <<counted, mempoolData>>
  PROVE  /\ Pins' = Pins /\ Ids' = Ids
         /\ \A i : /\ Metaso!IsEntry(i)' = Metaso!IsEntry(i) /\ Metaso!KeyOf(i)' = Metaso!KeyOf(i)
                   /\ Metaso!Taken(i)' = Metaso!Taken(i)
<1>1. Pins' = Pins /\ Ids' = Ids
  BY DEF Pins, Ids, Pin
<1>2. \A i : Metaso!IsEntry(i)' = Metaso!IsEntry(i) /\ Metaso!KeyOf(i)' = Metaso!KeyOf(i)
  BY EntryFixed
<1>3. \A i : Metaso!Taken(i)' = Metaso!Taken(i)
  BY EntryFixed DEF Metaso!Taken
<1> QED  BY <1>1, <1>2, <1>3

(* The fates after a step, from what has been taken, claimed and passed by. *)
LEMMA FateAfter ==
  ASSUME Reading, \A i : Metaso!IsEntry(i)' = Metaso!IsEntry(i),
         \A i : Metaso!IsEntry(i) => Metaso!Taken(i)' \in {0, 1}
  PROVE  \A i : Metaso!FateOf(i)' =
           Fate(Metaso!IsEntry(i), Metaso!Taken(i)', Metaso!Claimed(i)', Behind(i)')
BY FateIsNext

LEMMA BatchForm ==
  ASSUME SyncForm, NEW pc, NEW b, sync' = [sync EXCEPT !.pc = pc, !.batch = b]
  PROVE  sync'.at = sync.at /\ sync'.pc = pc /\ sync'.batch = b
<1> DEFINE r == [at |-> sync.at, pc |-> sync.pc, batch |-> sync.batch]
<1>1. DOMAIN r = {"at", "pc", "batch"} /\ sync = r
  BY DEF SyncForm
<1> HIDE DEF r
<1>2. DOMAIN sync = {"at", "pc", "batch"}
  BY <1>1
<1> QED  BY <1>2

(* The find: above the cursor, where nothing has taken effect. *)
LEMMA FindFate ==
  ASSUME Reading, NEW key \in ReactionKeys, Metaso!Read(key), Metaso!Batch(key) # {}
  PROVE  TakenInv' /\ BatchInv' /\ Passes({"claimed"}, {"done", "lost"})
<1> DEFINE b == Metaso!Batch(key)
<1>1. /\ UNCHANGED <<chain, cursor, counted, mempoolData>> /\ sync.at = key /\ sync.pc = "read"
      /\ sync' = [sync EXCEPT !.pc = "save", !.batch = b]
  BY DEF Metaso!Read, Metaso!At, Metaso!logvars, Metaso!pinvars, Metaso!stores
<1>2. \A i \in b : /\ i \in Ids /\ i > cursor[key] /\ Metaso!Kind(i) \in Metaso!KindsOf(key)
                   /\ Metaso!Pending(i) <=> key = "mempool"
  BY DEF Metaso!Batch, Metaso!Lowest, Metaso!Above, Reading, FateInv
<1>3. \A i \in b : Metaso!IsEntry(i) /\ Metaso!KeyOf(i) = key
  BY <1>2, KeyIs DEF Reading
<1> HIDE DEF b
<1>4. sync'.at = key /\ sync'.pc = "save" /\ sync'.batch = b
  <2>1. SyncForm
    BY DEF Reading, FateInv
  <2>2. sync' = [sync EXCEPT !.pc = "save", !.batch = b]
    BY <1>1
  <2>3. sync'.at = sync.at /\ sync'.pc = "save" /\ sync'.batch = b
    BY ONLY <2>1, <2>2, BatchForm
  <2> QED  BY <1>1, <2>3
<1>5. /\ Pins' = Pins /\ Ids' = Ids
      /\ \A i : /\ Metaso!IsEntry(i)' = Metaso!IsEntry(i) /\ Metaso!KeyOf(i)' = Metaso!KeyOf(i)
                /\ Metaso!Taken(i)' = Metaso!Taken(i) /\ Behind(i)' = Behind(i)
  <2>1. Pins' = Pins /\ Ids' = Ids
        /\ \A i : /\ Metaso!IsEntry(i)' = Metaso!IsEntry(i) /\ Metaso!KeyOf(i)' = Metaso!KeyOf(i)
                  /\ Metaso!Taken(i)' = Metaso!Taken(i)
    BY <1>1, SameTaken
  <2> QED  BY <1>1, <2>1 DEF Behind
<1>6. TakenInv'
  BY <1>1, <1>5 DEF Reading, FateInv, TakenInv
<1>7. ASSUME NEW i \in b PROVE Metaso!Taken(i) = 0
  <2>1. ~Behind(i)
    <3>1. i \in Nat /\ cursor[key] \in Nat /\ i > cursor[key] /\ Metaso!KeyOf(i) = key
      BY <1>2, <1>3, ReadingFacts
    <3> QED  BY <3>1 DEF Behind
  <2> QED  BY <1>3, <2>1, ReadingFacts
<1>8. BatchInv'
  <2>1. b # {}
    BY DEF b
  <2> QED  BY <1>1, <1>2, <1>3, <1>4, <1>5, <1>7, <2>1 DEF BatchInv
<1>9. \A i : ~Metaso!Claimed(i) /\ ~Metaso!Claimed(i)'
  BY <1>1, <1>4 DEF Metaso!Claimed
<1>10. \A i : Metaso!FateOf(i)' = Metaso!FateOf(i)
  <2> TAKE i
  <2>1. Metaso!FateOf(i) = Fate(Metaso!IsEntry(i), Metaso!Taken(i), Metaso!Claimed(i), Behind(i))
    BY ReadingFacts
  <2>2. Metaso!FateOf(i)' = Fate(Metaso!IsEntry(i), Metaso!Taken(i)', Metaso!Claimed(i)', Behind(i)')
    BY <1>5, ReadingFacts, FateAfter
  <2> QED  BY <1>5, <1>9, <2>1, <2>2 DEF Fate
<1> QED  BY <1>6, <1>8, <1>10 DEF Passes

(* The cursor: the batch is claimed, whatever else it passes is lost. *)
LEMMA SaveFate ==
  ASSUME Reading, NEW key \in ReactionKeys, Metaso!SaveFirst(key)
  PROVE  TakenInv' /\ BatchInv' /\ Passes({"unread"}, {"claimed", "lost"})
         /\ DOMAIN cursor' = Keys /\ \A k \in ReactionKeys : cursor'[k] \in Nat
<1> DEFINE m == Max(sync.batch)
<1>1. /\ UNCHANGED <<chain, counted, mempoolData>> /\ sync.at = key /\ sync.pc = "save"
      /\ sync' = [sync EXCEPT !.pc = "look"] /\ cursor' = [cursor EXCEPT ![key] = m]
  BY MetasoMax DEF Metaso!SaveFirst, Metaso!SaveCursor, Metaso!Goto, Metaso!At, Metaso!pinvars, Metaso!stores
<1>2. sync'.at = key /\ sync'.pc = "look" /\ sync'.batch = sync.batch
  BY <1>1, FormExcept DEF Reading, FateInv
<1>3. /\ sync.batch # {} /\ sync.batch \subseteq Ids
      /\ \A i \in sync.batch :
           Metaso!IsEntry(i) /\ Metaso!KeyOf(i) = key /\ Metaso!Taken(i) = 0 /\ i > cursor[key]
  BY <1>1 DEF Reading, FateInv, BatchInv
<1>4. m \in sync.batch /\ m \in Nat /\ \A i \in sync.batch : i <= m
  <2>1. chain \in Chains /\ sync.batch \in SUBSET Ids
    BY <1>3 DEF Reading, FateInv
  <2> QED  BY <1>3, <2>1, IdsTyped
<1> HIDE DEF m
<1>5. /\ DOMAIN cursor' = Keys /\ cursor'[key] = m
      /\ \A k \in ReactionKeys : k # key => cursor'[k] = cursor[k]
  BY <1>1, KeysAssumption DEF Reading, FateInv, ReactionKeys
<1>6. cursor[key] \in Nat /\ cursor[key] < m /\ \A k \in ReactionKeys : cursor'[k] \in Nat
  BY <1>3, <1>4, <1>5 DEF Reading, FateInv
<1>7. /\ Pins' = Pins /\ Ids' = Ids
      /\ \A i : /\ Metaso!IsEntry(i)' = Metaso!IsEntry(i) /\ Metaso!KeyOf(i)' = Metaso!KeyOf(i)
                /\ Metaso!Taken(i)' = Metaso!Taken(i)
  BY <1>1, SameTaken
<1>8. ASSUME NEW i, Metaso!IsEntry(i)
      PROVE  /\ Behind(i) => Behind(i)'
             /\ Metaso!KeyOf(i) # key => (Behind(i)' <=> Behind(i))
  <2>1. i \in Nat /\ Metaso!KeyOf(i) \in ReactionKeys
    BY <1>8, ReadingFacts
  <2> QED  BY <1>5, <1>6, <1>7, <2>1 DEF Behind
<1>9. TakenInv'
  <2>1. \A i \in Ids : Metaso!IsEntry(i) /\ Metaso!Taken(i) = 1 => i <= cursor'[Metaso!KeyOf(i)]
    <3>1. \A i \in Ids : Metaso!IsEntry(i) /\ Metaso!Taken(i) = 1 => Behind(i)'
      BY <1>8, ReadingFacts
    <3> QED  BY <1>7, <3>1 DEF Behind
  <2> QED  BY <1>1, <1>7, <2>1 DEF Reading, FateInv, TakenInv
<1>10. BatchInv'
  BY <1>1, <1>2, <1>3, <1>4, <1>5, <1>7 DEF BatchInv
<1>11. ASSUME NEW i, Metaso!IsEntry(i)
       PROVE  ~Metaso!Claimed(i) /\ (Metaso!Claimed(i)' => ~Behind(i) /\ Metaso!KeyOf(i) = key)
  <2>1. ~Metaso!Claimed(i)
    BY <1>1 DEF Metaso!Claimed
  <2>2. Metaso!Claimed(i)' => i \in sync.batch
    BY <1>2 DEF Metaso!Claimed
  <2>3. i \in sync.batch => ~Behind(i) /\ Metaso!KeyOf(i) = key
    <3> SUFFICES ASSUME i \in sync.batch PROVE ~Behind(i) /\ Metaso!KeyOf(i) = key
      OBVIOUS
    <3>1. Metaso!KeyOf(i) = key /\ i > cursor[key] /\ i \in Nat
      BY <1>3, <1>11, ReadingFacts
    <3> QED  BY <1>6, <3>1 DEF Behind
  <2> QED  BY <2>1, <2>2, <2>3
<1>12. Passes({"unread"}, {"claimed", "lost"})
  <2> SUFFICES ASSUME NEW i
               PROVE  \/ Metaso!FateOf(i)' = Metaso!FateOf(i)
                      \/ Metaso!FateOf(i) = "unread" /\ Metaso!FateOf(i)' \in {"claimed", "lost"}
    BY DEF Passes
  <2>1. Metaso!FateOf(i) = Fate(Metaso!IsEntry(i), Metaso!Taken(i), Metaso!Claimed(i), Behind(i))
    BY ReadingFacts
  <2>2. Metaso!FateOf(i)' = Fate(Metaso!IsEntry(i), Metaso!Taken(i), Metaso!Claimed(i)', Behind(i)')
    BY <1>7, ReadingFacts, FateAfter
  <2>3. CASE ~Metaso!IsEntry(i)
    BY <2>1, <2>2, <2>3 DEF Fate
  <2>4. CASE Metaso!IsEntry(i)
    BY <1>8, <1>11, <2>1, <2>2, <2>4 DEF Fate
  <2> QED  BY <2>3, <2>4
<1> QED  BY <1>5, <1>6, <1>9, <1>10, <1>12

(* What is dropped of a batch is lost. *)
LEMMA DropFate ==
  ASSUME Reading, chain' = chain, UNCHANGED <<cursor, counted, mempoolData>>,
         sync.at \in ReactionKeys, sync.pc \in {"look", "insert"},
         sync'.at = sync.at, sync'.pc \in {"insert", "count"},
         sync'.batch # {}, sync'.batch \subseteq sync.batch
  PROVE  TakenInv' /\ BatchInv' /\ Passes({"claimed"}, {"done", "lost"})
<1>1. /\ Pins' = Pins /\ Ids' = Ids
      /\ \A i : /\ Metaso!IsEntry(i)' = Metaso!IsEntry(i) /\ Metaso!KeyOf(i)' = Metaso!KeyOf(i)
                /\ Metaso!Taken(i)' = Metaso!Taken(i)
  BY SameTaken
<1>2. \A i : Behind(i)' = Behind(i)
  BY <1>1 DEF Behind
<1>3. TakenInv'
  BY <1>1 DEF Reading, FateInv, TakenInv
<1>4. BatchInv'
  BY <1>1 DEF Reading, FateInv, BatchInv
<1>5. \A i : Metaso!Claimed(i)' => Metaso!Claimed(i)
  BY <1>1 DEF Metaso!Claimed
<1>6. \A i : Metaso!IsEntry(i) /\ Metaso!Claimed(i) => Behind(i)
  BY DEF Metaso!Claimed, Reading, FateInv, BatchInv, Behind
<1>7. Passes({"claimed"}, {"done", "lost"})
  <2> SUFFICES ASSUME NEW i
               PROVE  \/ Metaso!FateOf(i)' = Metaso!FateOf(i)
                      \/ Metaso!FateOf(i) = "claimed" /\ Metaso!FateOf(i)' \in {"done", "lost"}
    BY DEF Passes
  <2>1. Metaso!FateOf(i) = Fate(Metaso!IsEntry(i), Metaso!Taken(i), Metaso!Claimed(i), Behind(i))
    BY ReadingFacts
  <2>2. Metaso!FateOf(i)' = Fate(Metaso!IsEntry(i), Metaso!Taken(i), Metaso!Claimed(i)', Behind(i))
    BY <1>1, <1>2, ReadingFacts, FateAfter
  <2> QED  BY <1>5, <1>6, <2>1, <2>2 DEF Fate
<1> QED  BY <1>3, <1>4, <1>7

(* The end of a batch: only entries of it take effect. *)
LEMMA EndFate ==
  ASSUME Reading, chain' = chain, cursor' = cursor,
         sync.at \in ReactionKeys, sync.pc \in {"look", "count"}, sync'.pc = "read",
         DOMAIN counted' = Pins, \A p \in Pins : counted'[p] \in {0, 1},
         \A i : Metaso!IsEntry(i) =>
           Metaso!Taken(i)' = Metaso!Taken(i) \/ (i \in sync.batch /\ Metaso!Taken(i)' \in {0, 1})
  PROVE  TakenInv' /\ BatchInv' /\ Passes({"claimed"}, {"done", "lost"})
<1>1. /\ Pins' = Pins /\ Ids' = Ids
      /\ \A i : Metaso!IsEntry(i)' = Metaso!IsEntry(i) /\ Metaso!KeyOf(i)' = Metaso!KeyOf(i)
  BY EntryFixed DEF Pins, Ids, Pin
<1>2. \A i : Behind(i)' = Behind(i)
  BY <1>1 DEF Behind
<1>3. \A i \in sync.batch :
        Metaso!IsEntry(i) /\ Metaso!Claimed(i) /\ Metaso!Taken(i) = 0 /\ Behind(i)
  BY DEF Reading, FateInv, BatchInv, Metaso!Claimed, Behind
<1>4. TakenInv'
  <2>1. \A i \in Ids : Metaso!IsEntry(i) /\ Metaso!Taken(i)' = 1 => Behind(i)
    BY <1>3, ReadingFacts
  <2> QED  BY <1>1, <2>1 DEF TakenInv, Behind
<1>5. BatchInv'
  BY DEF BatchInv
<1>6. \A i : ~Metaso!Claimed(i)' /\ (Metaso!IsEntry(i) /\ Metaso!Claimed(i) => i \in sync.batch)
  BY DEF Metaso!Claimed
<1>7. Passes({"claimed"}, {"done", "lost"})
  <2> SUFFICES ASSUME NEW i
               PROVE  \/ Metaso!FateOf(i)' = Metaso!FateOf(i)
                      \/ Metaso!FateOf(i) = "claimed" /\ Metaso!FateOf(i)' \in {"done", "lost"}
    BY DEF Passes
  <2>1. Metaso!FateOf(i) = Fate(Metaso!IsEntry(i), Metaso!Taken(i), Metaso!Claimed(i), Behind(i))
    BY ReadingFacts
  <2>2. Metaso!FateOf(i)' = Fate(Metaso!IsEntry(i), Metaso!Taken(i)', Metaso!Claimed(i)', Behind(i)')
    <3>1. \A j : Metaso!IsEntry(j) => Metaso!Taken(j)' \in {0, 1}
      BY ReadingFacts
    <3> QED  BY <1>1, <3>1, FateAfter
  <2>3. Metaso!IsEntry(i) => Metaso!Taken(i) \in {0, 1} /\ (Metaso!Taken(i) = 1 => Behind(i))
    BY ReadingFacts
  <2> QED  BY <1>2, <1>3, <1>6, <2>1, <2>2, <2>3 DEF Fate
<1> QED  BY <1>4, <1>5, <1>7

(* Two documents of one pin, both in blocks or both in the mempool, are one. *)
LEMMA OneDocument ==
  ASSUME Reading
  PROVE  \A i, j \in Ids : Metaso!Pin(i) = Metaso!Pin(j)
           /\ (Metaso!Pending(i) <=> Metaso!Pending(j)) => i = j
BY PinsAssumption DEF Reading, FateInv, Ids, Metaso!Pin, Metaso!Pending

LEMMA CountFate ==
  ASSUME Reading, NEW key \in Metaso!Reactions, Metaso!Count(key)
  PROVE  TakenInv' /\ BatchInv' /\ Passes({"claimed"}, {"done", "lost"})
<1>1. /\ UNCHANGED <<chain, cursor, mempoolData>> /\ sync.at = key /\ sync.pc = "count"
      /\ Metaso!Return /\ key \in ReactionKeys /\ key # "mempool"
  BY DEF Metaso!Count, Metaso!At, Metaso!logvars, Metaso!pinvars, Metaso!Reactions, ReactionKeys
<1>2. sync'.pc = "read"
  BY <1>1, FormReading DEF Metaso!Return
<1>3. DOMAIN counted = Pins /\ \A p \in Pins : counted[p] \in {0, 1}
  BY DEF Reading, FateInv, TakenInv
<1> DEFINE hit(p) == \E i \in sync.batch : Metaso!Pin(i) = p /\ Metaso!To(i) \in tweets
<1>4. counted' = [p \in DOMAIN counted |->
                    IF hit(p) THEN IF counted[p] = 0 THEN 1 ELSE 2 ELSE counted[p]]
  BY DEF Metaso!Count
<1>5. \A i \in sync.batch : /\ i \in Ids /\ Metaso!IsEntry(i) /\ Metaso!KeyOf(i) = key
                            /\ ~Metaso!Pending(i) /\ Metaso!Taken(i) = 0
  <2>1. \A i \in sync.batch : i \in Ids /\ Metaso!IsEntry(i) /\ Metaso!KeyOf(i) = key /\ Metaso!Taken(i) = 0
    BY <1>1 DEF Reading, FateInv, BatchInv
  <2> QED  BY <1>1, <2>1, KeyRange
<1>6. \A p : hit(p) => \E i \in sync.batch : Metaso!Pin(i) = p /\ counted[p] = 0
  BY <1>5 DEF Metaso!Taken
<1> HIDE DEF hit
<1>7. DOMAIN counted' = Pins /\ \A p \in Pins : counted'[p] \in {0, 1} /\ (~hit(p) => counted'[p] = counted[p])
  BY <1>3, <1>4, <1>6
<1>8. ASSUME NEW i, Metaso!IsEntry(i)
      PROVE  Metaso!Taken(i)' = Metaso!Taken(i) \/ (i \in sync.batch /\ Metaso!Taken(i)' \in {0, 1})
  <2>1. i \in Ids /\ Metaso!Pin(i) \in Pins
    BY <1>8, ReadingFacts DEF Metaso!Pin, Pin
  <2>2. Metaso!Pending(i)' = Metaso!Pending(i) /\ Metaso!Pin(i)' = Metaso!Pin(i)
    BY <1>1, EntryFixed
  <2>3. CASE Metaso!Pending(i)
    BY <1>1, <2>2, <2>3 DEF Metaso!Taken
  <2>4. CASE ~Metaso!Pending(i) /\ ~hit(Metaso!Pin(i))
    BY <1>7, <2>1, <2>2, <2>4 DEF Metaso!Taken
  <2>5. CASE ~Metaso!Pending(i) /\ hit(Metaso!Pin(i))
    <3>1. i \in sync.batch
      BY <1>5, <1>6, <2>1, <2>5, OneDocument
    <3> QED  BY <1>7, <2>1, <2>2, <2>5, <3>1 DEF Metaso!Taken
  <2> QED  BY <2>3, <2>4, <2>5
<1> QED  BY <1>1, <1>2, <1>7, <1>8, EndFate

LEMMA MempoolFate ==
  ASSUME Reading, Metaso!InsertMempoolData
  PROVE  TakenInv' /\ BatchInv' /\ Passes({"claimed"}, {"done", "lost"})
<1>1. /\ UNCHANGED <<chain, cursor, counted>> /\ sync.at = "mempool" /\ sync.pc = "look" /\ Metaso!Return
  BY DEF Metaso!InsertMempoolData, Metaso!At, Metaso!logvars, Metaso!pinvars
<1>2. sync'.pc = "read" /\ sync.at \in ReactionKeys
  BY <1>1, FormReading DEF Metaso!Return, ReactionKeys
<1>3. DOMAIN counted = Pins /\ \A p \in Pins : counted[p] \in {0, 1}
  BY DEF Reading, FateInv, TakenInv
<1> DEFINE new == {Metaso!Pin(i) : i \in {i \in sync.batch : chain.log[i].ok}}
<1>4. mempoolData' = mempoolData \cup new
  BY DEF Metaso!InsertMempoolData
<1>5. \A i \in sync.batch : i \in Ids /\ Metaso!Pending(i)
  <2>1. \A i \in sync.batch : i \in Ids /\ Metaso!IsEntry(i) /\ Metaso!KeyOf(i) = "mempool"
    BY <1>1, <1>2 DEF Reading, FateInv, BatchInv
  <2> QED  BY <2>1, KeyRange
<1>6. ASSUME NEW i, Metaso!IsEntry(i)
      PROVE  Metaso!Taken(i)' = Metaso!Taken(i) \/ (i \in sync.batch /\ Metaso!Taken(i)' \in {0, 1})
  <2>1. i \in Ids
    BY <1>6, ReadingFacts
  <2>2. Metaso!Pending(i)' = Metaso!Pending(i) /\ Metaso!Pin(i)' = Metaso!Pin(i)
    BY <1>1, EntryFixed
  <2>3. CASE ~Metaso!Pending(i) \/ Metaso!Pin(i) \notin new
    BY <1>1, <1>4, <2>2, <2>3 DEF Metaso!Taken
  <2>4. CASE Metaso!Pending(i) /\ Metaso!Pin(i) \in new
    <3>1. i \in sync.batch
      BY <1>5, <2>1, <2>4, OneDocument
    <3> QED  BY <2>2, <2>4, <3>1 DEF Metaso!Taken
  <2> QED  BY <2>3, <2>4
<1> QED  BY <1>1, <1>2, <1>3, <1>6, EndFate

LEMMA FormKept == SyncForm /\ Metaso!MetasoNext => SyncForm'
<1> SUFFICES ASSUME SyncForm, Metaso!MetasoNext PROVE SyncForm'
  OBVIOUS
<1>1. \/ sync' = sync \/ Metaso!Return \/ (\E at : sync' = Metaso!Reading(at))
      \/ (\E pc : Metaso!Goto(pc)) \/ \E pc, b : sync' = [sync EXCEPT !.pc = pc, !.batch = b]
  BY DEF Metaso!MetasoNext, Metaso!Synchronization, Metaso!FixStatistics, Metaso!FixHost,
    Metaso!ReadTweets, Metaso!InsertTweets, Metaso!SaveTweetCursor,
    Metaso!SynchTweetLike, Metaso!SynchMeatsoDonate, Metaso!SynchTweetComment, Metaso!React,
    Metaso!Read, Metaso!SaveFirst, Metaso!Look, Metaso!Insert, Metaso!Count,
    Metaso!SyncHostData, Metaso!SyncMrc20TickData, Metaso!SynchMempoolData,
    Metaso!InsertMempoolData, Metaso!FixTweets, Metaso!FixCursor, Metaso!FixMark,
    Metaso!DeleteMetaSoMempool, Metaso!MetasoCrash
<1>2. CASE sync' = sync
  BY <1>2 DEF SyncForm
<1>3. CASE \E at : sync' = Metaso!Reading(at)
  BY <1>3, FormReading DEF SyncForm
<1> QED  BY <1>1, <1>2, <1>3, ReturnStays, GotoStays, BatchStays DEF Stays

(* The steps of Synchronization that are about a batch. *)
BatchStep ==
  \/ \E key \in ReactionKeys : Metaso!Read(key) /\ Metaso!Batch(key) # {}
  \/ \E key \in ReactionKeys : Metaso!SaveFirst(key)
  \/ \E key \in Metaso!Reactions :
       \/ (Metaso!Look(key) \/ Metaso!Insert(key)) /\ ~Metaso!Return
       \/ Metaso!Count(key)
  \/ Metaso!InsertMempoolData

LEMMA BatchFate ==
  ASSUME Reading, BatchStep
  PROVE  /\ TakenInv' /\ BatchInv' /\ Metaso!Reader!Next
         /\ DOMAIN cursor' = Keys /\ \A key \in ReactionKeys : cursor'[key] \in Nat
<1>1. DOMAIN cursor = Keys /\ \A key \in ReactionKeys : cursor[key] \in Nat
  BY DEF Reading, FateInv
<1>2. CASE \E key \in ReactionKeys : Metaso!Read(key) /\ Metaso!Batch(key) # {}
  <2>1. cursor' = cursor
    BY <1>2 DEF Metaso!Read, Metaso!logvars
  <2> QED  BY <1>1, <1>2, <2>1, FindFate, StepIs
<1>3. CASE \E key \in ReactionKeys : Metaso!SaveFirst(key)
  BY <1>3, SaveFate, StepIs
<1>4. ASSUME NEW key \in Metaso!Reactions,
             Metaso!Look(key) \/ Metaso!Insert(key), ~Metaso!Return
      PROVE  /\ TakenInv' /\ BatchInv' /\ Passes({"claimed"}, {"done", "lost"}) /\ cursor' = cursor
  <2>1. /\ UNCHANGED <<chain, cursor, counted, mempoolData>> /\ sync.at = key
        /\ key \in ReactionKeys /\ sync.pc \in {"look", "insert"}
    BY <1>4 DEF Metaso!Look, Metaso!Insert, Metaso!At, Metaso!logvars, Metaso!pinvars,
       Metaso!stores, Metaso!Reactions, ReactionKeys
  <2>2. sync.batch # {} /\ SyncForm
    BY <2>1 DEF Reading, FateInv, BatchInv
  <2>3. CASE Metaso!Look(key) /\ ~Metaso!Return
    <3> DEFINE found == {i \in sync.batch : chain.log[i].ok /\ Metaso!To(i) \in tweets}
    <3>1. found # {} /\ sync' = [sync EXCEPT !.pc = "insert", !.batch = found]
      BY <2>3 DEF Metaso!Look
    <3>2. found \subseteq sync.batch
      OBVIOUS
    <3> HIDE DEF found
    <3>3. sync'.at = sync.at /\ sync'.pc = "insert" /\ sync'.batch = found
      BY <2>2, <3>1, BatchForm
    <3> QED  BY <2>1, <3>1, <3>2, <3>3, DropFate
  <2>4. CASE Metaso!Insert(key) /\ ~Metaso!Return
    <3>1. Metaso!Goto("count")
      BY <2>4 DEF Metaso!Insert
    <3>2. sync'.at = sync.at /\ sync'.pc = "count" /\ sync'.batch = sync.batch
      BY <2>2, <3>1, FormExcept DEF Metaso!Goto
    <3> QED  BY <2>1, <2>2, <3>2, DropFate
  <2> QED  BY <1>4, <2>3, <2>4
<1>5. CASE (\E key \in Metaso!Reactions : Metaso!Count(key)) \/ Metaso!InsertMempoolData
  <2>1. cursor' = cursor
    BY <1>5 DEF Metaso!Count, Metaso!InsertMempoolData, Metaso!logvars
  <2> QED  BY <1>1, <1>5, <2>1, CountFate, MempoolFate, StepIs
<1> QED  BY <1>1, <1>2, <1>3, <1>4, <1>5, StepIs DEF BatchStep

(* All others forget, or pass by. *)
LEMMA OtherFate ==
  ASSUME Reading, Metaso!MetasoNext, ~BatchStep
  PROVE  /\ TakenInv' /\ BatchInv' /\ Metaso!Reader!Next
         /\ DOMAIN cursor' = Keys /\ \A key \in ReactionKeys : cursor'[key] \in Nat
<1>1. /\ DOMAIN cursor = Keys /\ (\A key \in ReactionKeys : cursor[key] \in Nat)
      /\ DOMAIN counted = Pins /\ SyncForm /\ chain' = chain
      /\ \A p \in Pins : counted[p] \in {0, 1}
  BY MetasoKeeps DEF Reading, FateInv, TakenInv
<1>2. ASSUME cursor' = cursor \/ (\E id : Metaso!SaveCursor("tweet", id)),
             counted' = counted \/ Metaso!DeleteTweets, mempoolData' \subseteq mempoolData,
             sync' = sync \/ sync'.pc = "read" \/ sync'.at \notin ReactionKeys
      PROVE  /\ TakenInv' /\ BatchInv' /\ Metaso!Reader!Next
             /\ DOMAIN cursor' = Keys /\ \A key \in ReactionKeys : cursor'[key] \in Nat
  <2>1. DOMAIN cursor' = Keys /\ \A key \in ReactionKeys : cursor'[key] = cursor[key]
    BY <1>1, <1>2, KeysAssumption DEF Metaso!SaveCursor, ReactionKeys
  <2>2. DOMAIN counted' = Pins /\ \A p \in Pins : counted'[p] \in {0, counted[p]}
    BY <1>1, <1>2 DEF Metaso!DeleteTweets
  <2> QED  BY <1>1, <1>2, <2>1, <2>2, QuietFate, StepIs
<1>3. CASE Metaso!Return /\ cursor' = cursor /\ counted' = counted /\ mempoolData' = mempoolData
  <2>1. sync'.pc = "read"
    BY <1>3, FormReading DEF Metaso!Return
  <2> QED  BY <1>2, <1>3, <2>1
<1>4. CASE Metaso!FixHost
  <2>1. sync'.pc = "read"
    BY <1>4, FormReading DEF Metaso!FixHost
  <2> QED  BY <1>2, <1>4, <2>1 DEF Metaso!FixHost
<1>5. CASE Metaso!ReadTweets \/ Metaso!InsertTweets \/ Metaso!SaveTweetCursor
  <2>1. \/ Metaso!Return \/ Metaso!Goto("save")
        \/ \E b : sync' = [sync EXCEPT !.pc = "insert", !.batch = b]
    BY <1>5 DEF Metaso!ReadTweets, Metaso!InsertTweets, Metaso!SaveTweetCursor
  <2>2. sync.at = "tweet"
    BY <1>5 DEF Metaso!ReadTweets, Metaso!InsertTweets, Metaso!SaveTweetCursor, Metaso!At
  <2>3. sync'.pc = "read" \/ sync'.at \notin ReactionKeys
    <3>1. CASE Metaso!Return
      BY <3>1, FormReading DEF Metaso!Return
    <3>2. CASE Metaso!Goto("save")
      BY <1>1, <2>2, <3>2, FormExcept DEF Metaso!Goto, ReactionKeys
    <3>3. ASSUME NEW b, sync' = [sync EXCEPT !.pc = "insert", !.batch = b]
          PROVE  sync'.at \notin ReactionKeys
      BY <1>1, <2>2, <3>3, BatchForm DEF ReactionKeys
    <3> QED  BY <2>1, <3>1, <3>2, <3>3
  <2> QED  BY <1>2, <1>5, <2>3
           DEF Metaso!ReadTweets, Metaso!InsertTweets, Metaso!SaveTweetCursor, Metaso!logvars,
               Metaso!stores
<1>6. CASE Metaso!SynchTweetLike \/ Metaso!SynchMeatsoDonate \/ Metaso!SynchTweetComment
             \/ Metaso!SynchMempoolData
  <2>1. \/ \E key \in ReactionKeys : Metaso!Read(key) /\ Metaso!Batch(key) = {}
        \/ \E key \in Metaso!Reactions : (Metaso!Look(key) \/ Metaso!Insert(key)) /\ Metaso!Return
    BY <1>6 DEF BatchStep, Metaso!SynchTweetLike, Metaso!SynchMeatsoDonate,
       Metaso!SynchTweetComment, Metaso!React, Metaso!SynchMempoolData, ReactionKeys, Metaso!Reactions
  <2>2. Metaso!Return /\ cursor' = cursor /\ counted' = counted /\ mempoolData' = mempoolData
    BY <2>1 DEF Metaso!Read, Metaso!Look, Metaso!Insert, Metaso!logvars, Metaso!stores
  <2> QED  BY <1>3, <2>2
<1>7. CASE Metaso!SyncHostData \/ Metaso!SyncMrc20TickData
  BY <1>3, <1>7 DEF Metaso!SyncHostData, Metaso!SyncMrc20TickData, Metaso!logvars
<1>8. CASE Metaso!FixStatistics
  BY <1>2, <1>8 DEF Metaso!FixStatistics, Metaso!FixTweets, Metaso!FixCursor, Metaso!FixMark,
     Metaso!logvars, Metaso!stores
<1>9. CASE Metaso!DeleteMetaSoMempool
  BY <1>2, <1>9 DEF Metaso!DeleteMetaSoMempool, Metaso!logvars
<1>10. CASE Metaso!MetasoCrash
  <2>1. sync'.pc = "read"
    BY <1>10, FormReading DEF Metaso!MetasoCrash
  <2> QED  BY <1>2, <1>10, <2>1 DEF Metaso!MetasoCrash, Metaso!LogCrash, Metaso!stores
<1> QED  BY <1>4, <1>5, <1>6, <1>7, <1>8, <1>9, <1>10
         DEF Metaso!MetasoNext, Metaso!Synchronization

(* Each step is a step of LogReader or leaves all fates alone. *)
LEMMA NextFate ==
  ASSUME FateInv, [Next]_vars
  PROVE  FateInv' /\ [Metaso!Reader!Next]_([i \in Metaso!Entries |-> Metaso!FateOf(i)])
<1>1. chain' = chain /\ chain \in Chains /\ stored' \subseteq Ids'
  BY ChainKept, StoredKept DEF FateInv
<1>2. CASE chain.module # "metaso"
  <2>1. \A i : Metaso!FateOf(i) = "unread" /\ Metaso!FateOf(i)' = "unread"
    BY <1>1, <1>2 DEF Metaso!FateOf, Metaso!IsEntry
  <2> QED  BY <1>1, <1>2, <2>1 DEF FateInv
<1>3. CASE chain.module = "metaso" /\ UNCHANGED <<cursor, metasovars>>
  <2>1. Reading /\ UNCHANGED <<cursor, counted, mempoolData, sync>>
    BY <1>3 DEF Reading, metasovars
  <2>2. /\ Pins' = Pins /\ Ids' = Ids
        /\ \A i : /\ Metaso!IsEntry(i)' = Metaso!IsEntry(i) /\ Metaso!KeyOf(i)' = Metaso!KeyOf(i)
                  /\ Metaso!Taken(i)' = Metaso!Taken(i)
    BY <1>1, <2>1, SameTaken
  <2>3. TakenInv' /\ BatchInv'
    BY <2>1, <2>2 DEF Reading, FateInv, TakenInv, BatchInv
  <2>4. \A i : Metaso!FateOf(i)' = Metaso!FateOf(i)
    BY <2>1, <2>2 DEF Metaso!FateOf, Metaso!Claimed
  <2>5. SyncForm'
    BY <2>1 DEF Reading, FateInv, SyncForm
  <2> QED  BY <1>1, <2>1, <2>3, <2>4, <2>5 DEF Reading, FateInv
<1>4. CASE chain.module = "metaso" /\ Metaso!MetasoNext
  <2>1. Reading
    BY <1>4 DEF Reading
  <2>2. SyncForm'
    BY <1>4, <2>1, FormKept DEF Reading, FateInv
  <2>3. /\ TakenInv' /\ BatchInv' /\ Metaso!Reader!Next
        /\ DOMAIN cursor' = Keys /\ \A key \in ReactionKeys : cursor'[key] \in Nat
    BY <1>4, <2>1, BatchFate, OtherFate
  <2> QED  BY <1>1, <2>2, <2>3 DEF FateInv
<1>5. CASE Index
  BY <1>2, <1>3, <1>5, IndexKeeps DEF Index
<1>6. CASE UNCHANGED vars
  BY <1>2, <1>3, <1>6 DEF vars, logvars
<1> QED  BY <1>2, <1>4, <1>5, <1>6
         DEF Next, SyncMetaso, SyncName, SyncNft, SyncValue, HandleAccess

LEMMA InitFate == Init => FateInv /\ Metaso!Reader!Init
<1> SUFFICES ASSUME Init PROVE FateInv /\ Metaso!Reader!Init
  OBVIOUS
<1>1. /\ chain \in Chains /\ stored = {} /\ cursor = [k \in Keys |-> 0]
      /\ counted = [p \in {Metaso!Pin(i) : i \in Metaso!Ids} |-> 0] /\ mempoolData = {}
      /\ sync = Metaso!Reading("fixhost")
  BY DEF Init, LogInit, Metaso!MetasoInit
<1>2. sync.at = "fixhost" /\ SyncForm
  BY <1>1, FormReading DEF SyncForm
<1>3. DOMAIN cursor = Keys /\ \A key \in ReactionKeys : cursor[key] = 0
  BY <1>1, KeysAssumption DEF ReactionKeys
<1>4. DOMAIN counted = Pins /\ \A p \in Pins : counted[p] = 0
  BY <1>1 DEF Pins, Pin, Ids, Metaso!Pin, Metaso!Ids
<1>5. \A i : Metaso!IsEntry(i) => i \in Ids /\ Pin(i) \in Pins /\ Metaso!Taken(i) = 0
  BY <1>1, <1>4 DEF Metaso!IsEntry, Metaso!Ids, Ids, Pins, Metaso!Taken, Metaso!Pin, Pin
<1>6. \A i : ~Metaso!Claimed(i) \/ ~Metaso!IsEntry(i)
  BY <1>2, KeyRange DEF Metaso!Claimed, ReactionKeys
<1>7. FateInv
  BY <1>1, <1>2, <1>3, <1>4, <1>5 DEF FateInv, TakenInv, BatchInv, ReactionKeys
<1>8. ASSUME NEW i PROVE Metaso!FateOf(i) = "unread"
  <2>1. Metaso!FateOf(i) = Fate(Metaso!IsEntry(i), Metaso!Taken(i), Metaso!Claimed(i), Behind(i))
    BY <1>5, FateIs
  <2>2. Metaso!IsEntry(i) => ~Behind(i)
    <3> SUFFICES ASSUME Metaso!IsEntry(i) PROVE ~Behind(i)
      OBVIOUS
    <3>1. cursor[Metaso!KeyOf(i)] = 0 /\ i \in Nat \ {0}
      BY <1>1, <1>3, <1>5, KeyRange, IdsTyped
    <3> QED  BY <3>1 DEF Behind
  <2> QED  BY <1>5, <1>6, <2>1, <2>2 DEF Fate
<1> QED  BY <1>7, <1>8 DEF Metaso!Reader!Init

(***************************************************************************)
(* A like, a donation, a comment or a mempool pin takes effect at most     *)
(* once: the readers implement LogReader, for any log and any number of    *)
(* crashes.                                                                *)
(***************************************************************************)
THEOREM ReadAtMostOnce == Spec => AtMostOnce
<1> QED  BY InitFate, NextFate, PTL DEF Spec, AtMostOnce, Metaso!AtMostOnce, Metaso!Reader!Spec


(***************************************************************************)
(* The values.                                                             *)
(***************************************************************************)

LEMMA ValueNames ==
  /\ \A S : Value!Cardinality(S) = Cardinality(S)
  /\ \A S : Value!Max(S) = Max(S)
  /\ \A i : Value!Pin(i) = Pin(i) /\ Value!Doc(i) = chain.log[i]
  /\ Value!Ids = Ids /\ Value!Pins = Pins /\ Value!Blocks = Blocks
  /\ \A p : Value!Owner(p) = Owner(p)
  /\ Value!Unborn = -1 /\ Value!Evaluated = cursor["metablock"]
BY DEF Value!Cardinality, Cardinality, Value!Max, Max, Value!Pin, Pin, Value!Doc, Value!Ids, Ids,
   Value!Pins, Pins, Value!Blocks, Blocks, Value!Owner, Owner, Value!Unborn, Value!Evaluated

(* What the metablocks are. *)
LEMMA MetaTyped ==
  ASSUME chain \in Chains
  PROVE  /\ Len(chain.meta) \in Nat /\ DOMAIN chain.meta = 1..Len(chain.meta)
         /\ \A n \in 1..Len(chain.meta) :
              /\ chain.meta[n] \in Int \X Int \X Int
              /\ chain.meta[n][1] \in Int /\ chain.meta[n][2] \in Int /\ chain.meta[n][3] \in Int
              /\ chain.meta[n][1] <= chain.meta[n][2] + 1 /\ chain.meta[n][3] <= chain.meta[n][2]
              /\ n > 1 => chain.meta[n][1] = chain.meta[n - 1][2] + 1
<1>1. chain.meta \in Seq(Int \X Int \X Int)
  BY MetaAssumption
<1>2. Len(chain.meta) \in Nat /\ DOMAIN chain.meta = 1..Len(chain.meta)
  BY <1>1
<1>3. \A n \in 1..Len(chain.meta) : chain.meta[n] \in Int \X Int \X Int
  BY <1>1
<1>4. \A n \in DOMAIN chain.meta :
        /\ chain.meta[n][1] <= chain.meta[n][2] + 1 /\ chain.meta[n][3] <= chain.meta[n][2]
        /\ n > 1 => chain.meta[n][1] = chain.meta[n - 1][2] + 1
  BY MetaAssumption
<1> QED  BY <1>2, <1>3, <1>4

(* A metablock begins after those before it. *)
LEMMA MetaOrder ==
  ASSUME chain \in Chains
  PROVE  \A m, n \in 1..Len(chain.meta) : m < n => chain.meta[m][2] < chain.meta[n][1]
<1> DEFINE F == {n \in Nat : n <= Len(chain.meta) =>
                   \A m \in 1..Len(chain.meta) : m < n => chain.meta[m][2] < chain.meta[n][1]}
<1>1. /\ Len(chain.meta) \in Nat
      /\ \A n \in 1..Len(chain.meta) :
           /\ chain.meta[n][1] \in Int /\ chain.meta[n][2] \in Int
           /\ chain.meta[n][1] <= chain.meta[n][2] + 1
           /\ n > 1 => chain.meta[n][1] = chain.meta[n - 1][2] + 1
  BY MetaTyped
<1>2. 0 \in F
  BY <1>1
<1>3. ASSUME NEW n \in F PROVE n + 1 \in F
  <2> SUFFICES ASSUME n + 1 <= Len(chain.meta), NEW m \in 1..Len(chain.meta), m < n + 1
               PROVE  chain.meta[m][2] < chain.meta[n + 1][1]
    OBVIOUS
  <2>1. n \in 1..Len(chain.meta) /\ n + 1 \in 1..Len(chain.meta)
    BY <1>1
  <2>2. chain.meta[n + 1][1] = chain.meta[n][2] + 1
    BY <1>1, <2>1
  <2>3. CASE m = n
    BY <1>1, <2>1, <2>2, <2>3
  <2>4. CASE m < n
    <3>1. chain.meta[m][2] < chain.meta[n][1]
      BY <1>1, <2>1, <2>4
    <3>2. /\ chain.meta[m][2] \in Int /\ chain.meta[n][1] \in Int /\ chain.meta[n][2] \in Int
          /\ chain.meta[n][1] <= chain.meta[n][2] + 1
      BY <1>1, <2>1
    <3>3. \A a, b, c, d \in Int : a < b /\ b <= c + 1 /\ d = c + 1 => a < d
      OBVIOUS
    <3>4. chain.meta[n + 1][1] \in Int
      BY <1>1, <2>1
    <3> QED  BY <2>2, <3>1, <3>2, <3>3, <3>4
  <2> QED  BY <2>1, <2>3, <2>4
<1>4. F = Nat
  <2> HIDE DEF F
  <2>1. F \in SUBSET Nat
    BY DEF F
  <2> QED  BY <1>2, <1>3, <2>1, NaturalsClosed
<1>5. \A n \in 1..Len(chain.meta) : n \in F
  <2> HIDE DEF F
  <2> QED  BY <1>4
<1> QED  BY <1>1, <1>5

(***************************************************************************)
(* What is counted for a range of blocks.                                  *)
(***************************************************************************)

(* A document that is counted. *)
Counts(i, range) == chain.log[i].block \in range[1]..range[2] /\ chain.log[i].host # "unknown"

(* The rows of a document for its target, and for its own pin. *)
IsRow(r, i, to, meta) ==
  \/ r = Value!Row(i, to, meta, chain.by[Pin(to)])
  \/ to # i /\ r = Value!Row(i, i, meta, Owner(Pin(i)))

LEMMA CountIs ==
  \A range, meta, r :
    r \in Value!CountBlockPEV(range, meta) <=>
      \E i \in Value!Confirmed : \E to \in Value!Targets(i) : Counts(i, range) /\ IsRow(r, i, to, meta)
<1> TAKE range, meta, r
<1> DEFINE docs == {i \in Value!Confirmed : Counts(i, range)}
<1>1. Value!CountBlockPEV(range, meta) =
        UNION {UNION {Value!CreatePDV(i, to, meta) : to \in Value!Targets(i)} : i \in docs}
  BY ValueNames DEF Value!CountBlockPEV, Counts
<1>2. \A i, to : r \in Value!CreatePDV(i, to, meta) <=> IsRow(r, i, to, meta)
  BY ValueNames DEF Value!CreatePDV, IsRow
<1> HIDE DEF docs
<1>3. r \in Value!CountBlockPEV(range, meta) <=>
        \E i \in docs : \E to \in Value!Targets(i) : r \in Value!CreatePDV(i, to, meta)
  BY <1>1
<1> QED  BY <1>2, <1>3 DEF docs

LEMMA RowIs ==
  \A i, to, meta, a :
    LET r == Value!Row(i, to, meta, a) IN
    /\ r.from = Pin(i) /\ r.to = Pin(to) /\ r.meta = meta
    /\ r.host = chain.log[to].host /\ r.address = a
BY ValueNames DEF Value!Row

LEMMA ConfirmedIs ==
  ASSUME stored \subseteq Ids
  PROVE  /\ Value!Confirmed \subseteq Ids
         /\ \A i : i \in Value!Confirmed <=> i \in stored /\ chain.log[i].block > 0
BY ValueNames DEF Value!Confirmed

(* The confirmed document of a pin is one. *)
LEMMA ConfirmedOne ==
  ASSUME chain \in Chains
  PROVE  \A i, j \in Ids :
           chain.log[i].block > 0 /\ chain.log[j].block > 0 /\ Pin(i) = Pin(j) => i = j
<1> SUFFICES ASSUME NEW i \in Ids, NEW j \in Ids, chain.log[i].block > 0, chain.log[j].block > 0,
                    Pin(i) = Pin(j)
             PROVE  i = j
  OBVIOUS
<1>1. chain.log[i].block \in Nat /\ chain.log[j].block \in Nat
  BY IdsTyped
<1>2. chain.log[i].block = 0 <=> chain.log[j].block = 0
  BY <1>1
<1> QED  BY <1>2, PinsAssumption DEF Ids, Pin

(* Lowest(s, 1) is the least element. *)
LEMMA LowestIs ==
  ASSUME chain \in Chains, NEW s \in SUBSET Ids
  PROVE  Value!Lowest(s, 1) = {i \in s : \A j \in s : ~(j < i)}
<1>1. ASSUME NEW i \in s PROVE Cardinality({j \in s : j < i}) < 1 <=> \A j \in s : ~(j < i)
  <2> DEFINE b == {j \in s : j < i}
  <2>1. IsFiniteSet(b)
    <3>1. b \in SUBSET Ids
      OBVIOUS
    <3> QED  BY <3>1, IdsTyped
  <2>2. Cardinality(b) \in Nat /\ (Cardinality(b) = 0 <=> b = {})
    BY <2>1, FS_CardinalityType, FS_EmptySet
  <2>3. b = {} <=> \A j \in s : ~(j < i)
    OBVIOUS
  <2> HIDE DEF b
  <2>4. Cardinality(b) < 1 <=> b = {}
    BY <2>2
  <2> QED  BY <2>3, <2>4 DEF b
<1>2. Value!Lowest(s, 1) = {i \in s : Cardinality({j \in s : j < i}) < 1}
  BY ValueNames DEF Value!Lowest
<1> QED  BY <1>1, <1>2

(* A document has at most one target. *)
LEMMA TargetsOne ==
  ASSUME chain \in Chains, stored \subseteq Ids
  PROVE  \A i \in Value!Confirmed :
           /\ Value!Targets(i) \subseteq Value!Confirmed
           /\ \A a, b \in Value!Targets(i) : a = b
<1> TAKE i \in Value!Confirmed
<1>1. \A p : /\ Value!ById(p) \subseteq Value!Confirmed
             /\ \A a, b \in Value!ById(p) : a = b
  BY ConfirmedIs, ConfirmedOne, ValueNames DEF Value!ById
<1>2. ASSUME NEW p
      PROVE  /\ Value!FirstOf(p) \subseteq Value!Confirmed
             /\ \A a, b \in Value!FirstOf(p) : a = b
  <2> DEFINE s == {j \in Value!Confirmed : Owner(Pin(j)) = p}
  <2>1. Value!FirstOf(p) = Value!Lowest(s, 1)
    BY ValueNames DEF Value!FirstOf
  <2>2. s \in SUBSET Ids /\ s \subseteq Value!Confirmed
    BY ConfirmedIs
  <2> HIDE DEF s
  <2>3. Value!FirstOf(p) = {j \in s : \A k \in s : ~(k < j)}
    BY <2>1, <2>2, LowestIs
  <2>4. \A a, b \in s : a \in Nat /\ b \in Nat
    BY <2>2, IdsTyped
  <2> QED  BY <2>2, <2>3, <2>4
<1> QED  BY <1>1, <1>2 DEF Value!Targets

(* Among what is counted, a row is told by its two pins. *)
LEMMA CountUnique ==
  ASSUME chain \in Chains, stored \subseteq Ids
  PROVE  \A range, meta : \A r, s \in Value!CountBlockPEV(range, meta) :
           /\ r.meta = meta
           /\ Value!SameRow(r, s) => r = s
<1> TAKE range, meta
<1> TAKE r, s \in Value!CountBlockPEV(range, meta)
<1>1. PICK i, t : i \in Value!Confirmed /\ t \in Value!Targets(i) /\ IsRow(r, i, t, meta)
  BY CountIs
<1>2. PICK j, u : j \in Value!Confirmed /\ u \in Value!Targets(j) /\ IsRow(s, j, u, meta)
  BY CountIs
<1>3. r.meta = meta /\ r.from = Pin(i) /\ s.from = Pin(j)
  BY <1>1, <1>2, RowIs DEF IsRow
<1>4. ASSUME Value!SameRow(r, s) PROVE r = s
  <2>1. i = j
    BY <1>1, <1>2, <1>3, <1>4, ConfirmedIs, ConfirmedOne DEF Value!SameRow
  <2>2. t = u /\ t \in Value!Confirmed
    BY <1>1, <1>2, <2>1, TargetsOne
  <2>3. t # i => Pin(t) # Pin(i)
    BY <1>1, <2>2, ConfirmedIs, ConfirmedOne
  <2>4. r.to = s.to
    BY <1>4 DEF Value!SameRow
  <2>5. CASE t = i
    BY <1>1, <1>2, <2>1, <2>2, <2>5 DEF IsRow
  <2>6. CASE t # i
    <3> DEFINE own == Value!Row(i, i, meta, Owner(Pin(i)))
               other == Value!Row(i, t, meta, chain.by[Pin(t)])
    <3>1. (r = own \/ r = other) /\ (s = own \/ s = other)
      BY <1>1, <1>2, <2>1, <2>2 DEF IsRow
    <3>2. own.to = Pin(i) /\ other.to = Pin(t)
      BY RowIs
    <3> HIDE DEF own, other
    <3> QED  BY <2>3, <2>4, <2>6, <3>1, <3>2
  <2> QED  BY <2>5, <2>6
<1> QED  BY <1>3, <1>4

LEMMA CountFinite ==
  ASSUME chain \in Chains, stored \subseteq Ids
  PROVE  \A range, meta : IsFiniteSet(Value!CountBlockPEV(range, meta))
<1> TAKE range, meta
<1> DEFINE f == [q \in Ids \X Ids |-> Value!Row(q[1], q[2], meta, chain.by[Pin(q[2])])]
           g == [i \in Ids |-> Value!Row(i, i, meta, Owner(Pin(i)))]
           F == {f[q] : q \in DOMAIN f}
           G == {g[i] : i \in DOMAIN g}
<1>1. IsFiniteSet(Ids) /\ IsFiniteSet(Ids \X Ids)
  BY PinsFinite, FS_Product
<1>2. DOMAIN f = Ids \X Ids /\ DOMAIN g = Ids
  OBVIOUS
<1>3. \A i, t \in Ids : /\ Value!Row(i, t, meta, chain.by[Pin(t)]) \in F
                        /\ Value!Row(i, i, meta, Owner(Pin(i))) \in G
  <2> TAKE i, t \in Ids
  <2>1. f[<<i, t>>] = Value!Row(i, t, meta, chain.by[Pin(t)]) /\ <<i, t>> \in DOMAIN f
    OBVIOUS
  <2>2. g[i] = Value!Row(i, i, meta, Owner(Pin(i))) /\ i \in DOMAIN g
    OBVIOUS
  <2> HIDE DEF f, g
  <2> QED  BY <2>1, <2>2
<1> HIDE DEF f, g
<1>4. IsFiniteSet(F) /\ IsFiniteSet(G)
  BY <1>1, <1>2, ImageFinite
<1> HIDE DEF F, G
<1>5. Value!CountBlockPEV(range, meta) \subseteq F \cup G
  <2> SUFFICES ASSUME NEW r \in Value!CountBlockPEV(range, meta) PROVE r \in F \cup G
    OBVIOUS
  <2>1. PICK i, t : i \in Value!Confirmed /\ t \in Value!Targets(i) /\ IsRow(r, i, t, meta)
    BY CountIs
  <2>2. i \in Ids /\ t \in Ids
    BY <2>1, ConfirmedIs, TargetsOne
  <2> QED  BY <1>3, <2>1, <2>2 DEF IsRow
<1> QED  BY <1>4, <1>5, FS_Union, FS_Subset

(* What is counted stays when more is stored, as long as no insert overtakes and no pin moves. *)
LEMMA CountGrows ==
  ASSUME chain \in Chains, chain' = chain, LogInOrder, stored \subseteq stored', stored' \subseteq Ids,
         Value!Steady, Value!Steady'
  PROVE  \A range, meta : Value!CountBlockPEV(range, meta) \subseteq Value!CountBlockPEV(range, meta)'
<1>1. Ids' = Ids /\ stored \subseteq Ids /\ chain.late = 0
  BY DEF Ids, LogInOrder, Value!Steady
<1>2. \A i : Pin(i)' = Pin(i)
  BY DEF Pin
<1>3. /\ \A i : i \in Value!Confirmed <=> i \in stored /\ chain.log[i].block > 0
      /\ \A i : i \in Value!Confirmed' <=> i \in stored' /\ chain.log[i].block > 0
  BY ValueNames DEF Value!Confirmed, Value!Doc
<1>4. \A i \in Ids : Pin(i) \in Pins
  BY DEF Pins
<1>5. \A i \in Ids : Owner(Pin(i)) = chain.by[Pin(i)] /\ Owner(Pin(i))' = chain.by[Pin(i)]
  <2>1. \A p \in Pins : hop[p] = 0 /\ hop'[p] = 0
    BY ValueNames DEF Value!Steady, Pins, Pin, Ids, Value!Pins, Value!Pin, Value!Ids
  <2> QED  BY <1>2, <1>4, <2>1 DEF Owner
<1>6. Value!Confirmed \subseteq Value!Confirmed' /\ Value!Confirmed' \subseteq Ids
  BY <1>1, <1>3
<1>7. ASSUME NEW i \in Value!Confirmed PROVE Value!Targets(i) \subseteq Value!Targets(i)'
  <2>1. \A p : Value!ById(p) \subseteq Value!ById(p)'
    BY <1>6 DEF Value!ById, Value!Pin
  <2>2. ASSUME NEW p PROVE Value!FirstOf(p) \subseteq Value!FirstOf(p)'
    <3> DEFINE s == {j \in Value!Confirmed : Owner(Pin(j)) = p}
               t == {j \in Value!Confirmed' : chain.by[Pin(j)] = p}
    <3>1. Value!FirstOf(p) = Value!Lowest(s, 1)
      BY ValueNames DEF Value!FirstOf
    <3>2. Value!FirstOf(p)' = Value!Lowest(t, 1)
      <4>1. Value!FirstOf(p)' = Value!Lowest({j \in Value!Confirmed' : Owner(Pin(j))' = p}, 1)
        BY DEF Value!FirstOf, Value!Lowest, Value!Owner, Owner, Value!Pin, Pin, Value!Cardinality
      <4>2. {j \in Value!Confirmed' : Owner(Pin(j))' = p} = t
        BY <1>5, <1>6
      <4> QED  BY <4>1, <4>2
    <3>3. s \in SUBSET Ids /\ t \in SUBSET Ids
      BY <1>6
    <3>4. \A j \in s, k \in t : k < j => k \in s
      <4> TAKE j \in s, k \in t
      <4> HAVE k < j
      <4>1. ~Pending(k) /\ ~Pending(j) /\ k <= j /\ j \in stored /\ k \in Ids /\ j \in Ids
        BY <1>3, <1>6, IdsTyped DEF Pending
      <4>2. k \in stored
        BY <1>1, <4>1 DEF LogInOrder
      <4> QED  BY <1>3, <1>5, <4>1, <4>2
    <3>5. s \subseteq t
      BY <1>5, <1>6
    <3> HIDE DEF s, t
    <3>6. /\ Value!Lowest(s, 1) = {j \in s : \A k \in s : ~(k < j)}
          /\ Value!Lowest(t, 1) = {j \in t : \A k \in t : ~(k < j)}
      BY <3>3, LowestIs
    <3> QED  BY <3>1, <3>2, <3>4, <3>5, <3>6
  <2> QED  BY <1>6, <2>1, <2>2 DEF Value!Targets, Value!Doc
<1>8. \A r, i, t, meta : i \in Ids /\ IsRow(r, i, t, meta) =>
        \/ r = Value!Row(i, t, meta, chain.by[Pin(t)])
        \/ t # i /\ r = Value!Row(i, i, meta, chain.by[Pin(i)])
  BY <1>5 DEF IsRow
<1> TAKE range, meta
<1> SUFFICES ASSUME NEW r \in Value!CountBlockPEV(range, meta)
             PROVE  r \in Value!CountBlockPEV(range, meta)'
  OBVIOUS
<1>9. PICK i, t : i \in Value!Confirmed /\ t \in Value!Targets(i) /\ Counts(i, range) /\ IsRow(r, i, t, meta)
  BY CountIs
<1>10. i \in Value!Confirmed' /\ t \in Value!Targets(i)' /\ i \in Ids
  BY <1>6, <1>7, <1>9
<1>11. r \in Value!CreatePDV(i, t, meta)'
  <2>1. /\ Value!Row(i, t, meta, chain.by[Pin(t)])' = Value!Row(i, t, meta, chain.by[Pin(t)])
        /\ Value!Row(i, i, meta, Owner(Pin(i)))' = Value!Row(i, i, meta, chain.by[Pin(i)])
    BY <1>2, <1>5, <1>10 DEF Value!Row, Value!Doc, Value!Pin
  <2>2. Value!CreatePDV(i, t, meta)' =
          {Value!Row(i, t, meta, chain.by[Pin(t)])'}
            \cup (IF t = i THEN {} ELSE {Value!Row(i, i, meta, Owner(Pin(i)))'})
    BY DEF Value!CreatePDV, Value!Row, Value!Doc, Value!Pin, Pin, Value!Owner, Owner
  <2> QED  BY <1>8, <1>9, <1>10, <2>1, <2>2
<1>12. Value!CountBlockPEV(range, meta)' =
         UNION {UNION {Value!CreatePDV(j, u, meta)' : u \in Value!Targets(j)'} :
                  j \in {j \in Value!Confirmed' : Counts(j, range)}}
  BY DEF Value!CountBlockPEV, Counts, Value!Doc
<1> QED  BY <1>9, <1>10, <1>11, <1>12

LEMMA SameRange ==
  \A range, q, meta : range[1] = q[1] /\ range[2] = q[2] =>
    Value!CountBlockPEV(range, meta) = Value!CountBlockPEV(q, meta)
<1> TAKE range, q, meta
<1> HAVE range[1] = q[1] /\ range[2] = q[2]
<1>1. \A i : Counts(i, range) <=> Counts(i, q)
  BY DEF Counts
<1>2. \A r : r \in Value!CountBlockPEV(range, meta) <=> r \in Value!CountBlockPEV(q, meta)
  BY <1>1, CountIs
<1>3. \A r : r \in Value!CountBlockPEV(range, meta) => r \in Value!CountBlockPEV(q, meta)
  BY <1>2
<1> QED  BY <1>2, <1>3

(* The last block there is. *)
Final == Max(Blocks)

LEMMA BlocksBelow ==
  ASSUME chain \in Chains
  PROVE  \A i \in Ids : chain.log[i].block > 0 =>
           chain.log[i].block \in Nat /\ Final \in Nat /\ chain.log[i].block <= Final
<1> TAKE i \in Ids
<1> HAVE chain.log[i].block > 0
<1> DEFINE f == [j \in Ids |-> chain.log[j].block]
<1>1. IsFiniteSet({f[j] : j \in DOMAIN f})
  BY PinsFinite, ImageFinite
<1>2. Blocks \subseteq {f[j] : j \in DOMAIN f}
  BY DEF Blocks
<1>3. Blocks \in SUBSET Nat /\ chain.log[i].block \in Blocks
  BY IdsTyped DEF Blocks
<1> HIDE DEF f
<1>4. IsFiniteSet(Blocks)
  BY <1>1, <1>2, FS_Subset
<1>5. Max(Blocks) \in Blocks /\ \A b \in Blocks : b <= Max(Blocks)
  BY <1>3, <1>4, MaxOfFinite
<1> QED  BY <1>3, <1>5 DEF Final

(* A host or an address that one of the rows is for. *)
IsValued(x, s) == \E r \in s : x \in {r.host, r.address}

(* Those a document's rows are for. *)
NamesOf(i, to) ==
  {chain.log[to].host, chain.by[Pin(to)]}
    \cup (IF to = i THEN {} ELSE {chain.log[i].host, Owner(Pin(i))})

LEMMA NamesIs ==
  \A x, range, meta :
    IsValued(x, Value!CountBlockPEV(range, meta)) <=>
      \E i \in Value!Confirmed : \E to \in Value!Targets(i) : Counts(i, range) /\ x \in NamesOf(i, to)
<1> TAKE x, range, meta
<1>1. \A i, to : x \in NamesOf(i, to) <=> \E r : IsRow(r, i, to, meta) /\ x \in {r.host, r.address}
  <2> TAKE i, to
  <2> DEFINE q == Value!Row(i, to, meta, chain.by[Pin(to)])
             o == Value!Row(i, i, meta, Owner(Pin(i)))
  <2>1. /\ q.host = chain.log[to].host /\ q.address = chain.by[Pin(to)]
        /\ o.host = chain.log[i].host /\ o.address = Owner(Pin(i))
    BY RowIs
  <2>2. \A r : IsRow(r, i, to, meta) <=> r = q \/ (to # i /\ r = o)
    BY DEF IsRow
  <2> HIDE DEF q, o
  <2>3. (\E r : IsRow(r, i, to, meta) /\ x \in {r.host, r.address}) <=>
          x \in {q.host, q.address} \/ (to # i /\ x \in {o.host, o.address})
    BY <2>2
  <2> QED  BY <2>1, <2>3 DEF NamesOf
<1>2. IsValued(x, Value!CountBlockPEV(range, meta)) <=>
        \E r : /\ x \in {r.host, r.address}
               /\ \E i \in Value!Confirmed : \E to \in Value!Targets(i) :
                    Counts(i, range) /\ IsRow(r, i, to, meta)
  BY CountIs DEF IsValued
<1> QED  BY <1>1, <1>2

(* Of a range that lies in two others, whatever the metablocks are. *)
LEMMA NamesSplit ==
  ASSUME NEW range, NEW q, NEW s,
         \A i \in Value!Confirmed : Counts(i, range) => Counts(i, q) \/ Counts(i, s)
  PROVE  \A x, meta, m, n :
           IsValued(x, Value!CountBlockPEV(range, meta)) =>
             \/ IsValued(x, Value!CountBlockPEV(q, m))
             \/ IsValued(x, Value!CountBlockPEV(s, n))
BY NamesIs

LEMMA UpsertIs ==
  ASSUME NEW new, NEW old
  PROVE  /\ DOMAIN Value!Upsert(new, old) = DOMAIN new \cup DOMAIN old
         /\ \A k \in DOMAIN new : Value!Upsert(new, old)[k] = new[k]
         /\ \A k \in DOMAIN old \ DOMAIN new : Value!Upsert(new, old)[k] = old[k]
BY DEF Value!Upsert

(***************************************************************************)
(* The rows, the step of the goroutine and what it has counted.            *)
(***************************************************************************)

(* The blocks a row of metablock n is counted for. *)
Span(n) ==
  IF n # -1 THEN <<chain.meta[n + 1][1], chain.meta[n + 1][2]>>
  ELSE <<IF Value!Evaluated = 0 THEN chain.meta[1][1] ELSE chain.meta[Value!Evaluated][3] + 1, Final>>

RowsInv ==
  /\ IsFiniteSet(rows)
  /\ \A r \in rows :
       /\ r.meta \in -1..Value!Evaluated /\ r.meta < Len(chain.meta)
       /\ r.meta = -1 => Value!Evaluated > 0
       /\ \E i \in Ids : /\ Pin(i) = r.from /\ chain.log[i].block > 0
                         /\ chain.log[i].block \in Span(r.meta)[1]..Span(r.meta)[2]
  /\ \A r, s \in rows : Value!SameRow(r, s) => r = s

Stages == {"info", "hosts", "addresses", "totals", "save"}

StageInv ==
  /\ pev = [pc |-> pev.pc, meta |-> pev.meta, range |-> pev.range, list |-> pev.list]
  /\ pev.pc \in {"next", "skipped", "pending", "count"} \cup Stages
  /\ pev.pc \in {"next", "skipped", "pending"} => pev.meta = -1
  /\ pev.meta # -1 => pev.meta = Value!Evaluated /\ Value!Evaluated < Len(chain.meta)
  /\ pev.pc \in {"count"} \cup Stages =>
       /\ pev.meta = -1 => Value!Evaluated > 0 /\ pev.pc # "save"
       /\ pev.range[1] = Span(pev.meta)[1] /\ pev.range[2] = Span(pev.meta)[2]
       /\ Value!RowsOf(-1) = IF pev.meta = -1 /\ pev.pc # "count" THEN pev.list ELSE {}

(* The metablock has been counted, and is not saved yet. *)
Started == pev.pc \in Stages /\ pev.meta # -1

Reliable == crashes = 0 \/ Value!Steady

CountInv ==
  /\ Started /\ Reliable => Value!RowsOf(Value!Evaluated) = pev.list
  /\ ~Started /\ crashes = 0 => Value!RowsOf(Value!Evaluated) = {}
  /\ Value!Steady =>
       Value!RowsOf(Value!Evaluated) \subseteq
         Value!CountBlockPEV(Span(Value!Evaluated), Value!Evaluated)

LogInv ==
  /\ chain \in Chains /\ crashes \in Nat /\ hop \in [Pins -> Nat] /\ LogInOrder
  /\ DOMAIN cursor = Keys /\ Value!Evaluated \in 0..Len(chain.meta)

RowSteps == LogInv /\ RowsInv /\ StageInv /\ CountInv

LEMMA RestartIs ==
  \A pc : LET p == Value!Restart(pc) IN
    /\ p = [pc |-> p.pc, meta |-> p.meta, range |-> p.range, list |-> p.list]
    /\ p.pc = pc /\ p.meta = -1
BY DEF Value!Restart, Value!Unborn

LEMMA CountStep ==
  \A pc, meta, range :
    [Value!Restart(pc) EXCEPT !.meta = meta, !.range = range]
      = [pc |-> pc, meta |-> meta, range |-> range, list |-> {}]
<1> TAKE pc, meta, range
<1> DEFINE r == [pc |-> pc, meta |-> -1, range |-> <<1, 0>>, list |-> {}]
           t == [pc |-> pc, meta |-> meta, range |-> <<1, 0>>, list |-> {}]
<1>1. [r EXCEPT !.meta = meta] = t
  OBVIOUS
<1>2. [t EXCEPT !.range = range] = [pc |-> pc, meta |-> meta, range |-> range, list |-> {}]
  OBVIOUS
<1>3. [r EXCEPT !.meta = meta, !.range = range] = [[r EXCEPT !.meta = meta] EXCEPT !.range = range]
  BY SMT
<1>4. Value!Restart(pc) = r
  BY DEF Value!Restart, Value!Unborn
<1> QED  BY <1>1, <1>2, <1>3, <1>4, Zenon

LEMMA PevStep ==
  ASSUME StageInv
  PROVE  /\ \A pc : LET p == [pev EXCEPT !.pc = pc] IN
              /\ p = [pc |-> p.pc, meta |-> p.meta, range |-> p.range, list |-> p.list]
              /\ p.pc = pc /\ p.meta = pev.meta /\ p.range = pev.range /\ p.list = pev.list
         /\ \A pc, list : LET p == [pev EXCEPT !.pc = pc, !.list = list] IN
              /\ p = [pc |-> p.pc, meta |-> p.meta, range |-> p.range, list |-> p.list]
              /\ p.pc = pc /\ p.meta = pev.meta /\ p.range = pev.range /\ p.list = list
<1>1. ASSUME NEW pc, NEW list
      PROVE  /\ [pev EXCEPT !.pc = pc] =
                  [pc |-> pc, meta |-> pev.meta, range |-> pev.range, list |-> pev.list]
             /\ [pev EXCEPT !.pc = pc, !.list = list] =
                  [pc |-> pc, meta |-> pev.meta, range |-> pev.range, list |-> list]
  <2> DEFINE c == pev.pc
             m == pev.meta
             g == pev.range
             l == pev.list
             r == [pc |-> c, meta |-> m, range |-> g, list |-> l]
  <2>1. pev = r
    BY DEF StageInv
  <2> HIDE DEF c, m, g, l
  <2>2. [r EXCEPT !.pc = pc] = [pc |-> pc, meta |-> m, range |-> g, list |-> l]
    OBVIOUS
  <2> DEFINE t == [pc |-> pc, meta |-> m, range |-> g, list |-> l]
  <2>3. [t EXCEPT !.list = list] = [pc |-> pc, meta |-> m, range |-> g, list |-> list]
    OBVIOUS
  <2>4. [r EXCEPT !.pc = pc, !.list = list] = [[r EXCEPT !.pc = pc] EXCEPT !.list = list]
    BY SMT
  <2> QED  BY <2>1, <2>2, <2>3, <2>4 DEF m, g, l
<1> QED  BY <1>1

(* What does not touch the log's cursor of the metablocks. *)
SameMeta ==
  /\ chain' = chain /\ Value!Evaluated' = Value!Evaluated
  /\ LogInv' /\ stored \subseteq stored'
  /\ (Value!Steady' => Value!Steady) /\ (crashes' = 0 => crashes = 0)

LEMMA SameSpan ==
  ASSUME chain' = chain, Value!Evaluated' = Value!Evaluated
  PROVE  /\ \A n : Span(n)' = Span(n)
         /\ Ids' = Ids /\ Pins' = Pins /\ \A i : Pin(i)' = Pin(i)
BY DEF Span, Final, Blocks, Ids, Pins, Pin

(* What was counted for a metablock would be counted again. *)
LEMMA CountStays ==
  ASSUME RowSteps, SameMeta, Value!Steady'
  PROVE  /\ \A n : Value!CountBlockPEV(Span(n), n) \subseteq Value!CountBlockPEV(Span(n), n)'
         /\ Value!CountBlockPEV(Span(Value!Evaluated), Value!Evaluated) \subseteq
              Value!CountBlockPEV(Span(Value!Evaluated), Value!Evaluated)'
<1>1. chain \in Chains /\ chain' = chain /\ LogInOrder /\ stored \subseteq stored' /\ stored' \subseteq Ids
  BY SameSpan DEF RowSteps, SameMeta, LogInv, LogInOrder
<1>2. \A range, meta : Value!CountBlockPEV(range, meta) \subseteq Value!CountBlockPEV(range, meta)'
  BY <1>1, CountGrows DEF SameMeta
<1>3. ASSUME NEW n PROVE Value!CountBlockPEV(Span(n), n) \subseteq Value!CountBlockPEV(Span(n), n)'
  <2>1. PICK q : q = Span(n)
    OBVIOUS
  <2>2. Span(n)' = q
    BY <2>1, SameSpan DEF SameMeta
  <2>3. Value!CountBlockPEV(Span(n), n)' = Value!CountBlockPEV(q, n)'
    BY <2>2 DEF Value!CountBlockPEV
  <2> QED  BY <1>2, <2>1, <2>3
<1>4. PICK e : e = Value!Evaluated
  OBVIOUS
<1>5. Value!Evaluated' = e /\ Span(Value!Evaluated)' = Span(e)'
  BY <1>4 DEF SameMeta, Span
<1>6. Value!CountBlockPEV(Span(Value!Evaluated), Value!Evaluated)' = Value!CountBlockPEV(Span(e), e)'
  BY <1>5 DEF Value!CountBlockPEV, Value!CreatePDV, Value!Row
<1> QED  BY <1>3, <1>4, <1>6

(* A step that takes no row away but the pending ones, and adds none. *)
LEMMA FewerRows ==
  ASSUME RowSteps, SameMeta, rows' = rows \/ Value!DropPending
  PROVE  /\ RowsInv'
         /\ \A n : n # -1 => Value!RowsOf(n)' = Value!RowsOf(n)
         /\ Value!RowsOf(-1)' = Value!RowsOf(-1) \/ Value!RowsOf(-1)' = {}
         /\ rows' = rows => Value!RowsOf(-1)' = Value!RowsOf(-1)
         /\ Value!DropPending => Value!RowsOf(-1)' = {}
         /\ Value!Steady' =>
              Value!RowsOf(Value!Evaluated)' \subseteq
                Value!CountBlockPEV(Span(Value!Evaluated), Value!Evaluated)'
<1>1. rows' \subseteq rows /\ (Value!DropPending => rows' = {r \in rows : r.meta # -1})
  BY DEF Value!DropPending, Value!Unborn
<1>2. RowsInv'
  <2>1. IsFiniteSet(rows')
    BY <1>1, FS_Subset DEF RowSteps, RowsInv
  <2> QED  BY <1>1, <2>1, SameSpan DEF RowSteps, RowsInv, SameMeta, Value!SameRow
<1>3. /\ \A n : n # -1 => Value!RowsOf(n)' = Value!RowsOf(n)
      /\ Value!RowsOf(-1)' = Value!RowsOf(-1) \/ Value!RowsOf(-1)' = {}
      /\ rows' = rows => Value!RowsOf(-1)' = Value!RowsOf(-1)
      /\ Value!DropPending => Value!RowsOf(-1)' = {}
  BY <1>1 DEF Value!RowsOf
<1>4. ASSUME Value!Steady'
      PROVE  Value!RowsOf(Value!Evaluated)' \subseteq
               Value!CountBlockPEV(Span(Value!Evaluated), Value!Evaluated)'
  <2>1. Value!Evaluated # -1
    BY DEF RowSteps, LogInv
  <2>2. Value!RowsOf(Value!Evaluated)' = Value!RowsOf(Value!Evaluated)
    BY <1>3, <2>1 DEF SameMeta, Value!RowsOf
  <2>3. Value!RowsOf(Value!Evaluated) \subseteq
          Value!CountBlockPEV(Span(Value!Evaluated), Value!Evaluated)
    BY <1>4 DEF SameMeta, RowSteps, CountInv
  <2> QED  BY <1>4, <2>2, <2>3, CountStays
<1> QED  BY <1>2, <1>3, <1>4

(* Nothing of what is kept changes. *)
LEMMA QuietRows ==
  ASSUME RowSteps, SameMeta, UNCHANGED <<rows, pev>>
  PROVE  RowSteps'
<1>1. RowsInv'
  BY FewerRows
<1>2. \A n : Value!RowsOf(n)' = Value!RowsOf(n)
  BY DEF Value!RowsOf
<1>3. StageInv'
  BY <1>2, SameSpan DEF RowSteps, StageInv, SameMeta
<1>4. Started' = Started /\ (Reliable' => Reliable)
  BY DEF Started, Reliable, SameMeta
<1>5. CountInv'
  <2>1. Value!RowsOf(Value!Evaluated)' = Value!RowsOf(Value!Evaluated)
    BY <1>2 DEF SameMeta, Value!RowsOf
  <2> QED  BY <1>4, <2>1, FewerRows DEF RowSteps, CountInv, SameMeta
<1> QED  BY <1>1, <1>3, <1>5 DEF RowSteps, SameMeta

(* The goroutine starts over, after a crash or at the end of its turn. *)
LEMMA RestartRows ==
  ASSUME RowSteps, SameMeta, rows' = rows, NEW pc \in {"next", "skipped", "pending"}, pev' = Value!Restart(pc),
         Started => crashes' # 0
  PROVE  RowSteps'
<1>1. RowsInv'
  BY FewerRows
<1>2. \A n : Value!RowsOf(n)' = Value!RowsOf(n)
  BY DEF Value!RowsOf
<1>3. /\ pev' = [pc |-> pev'.pc, meta |-> pev'.meta, range |-> pev'.range, list |-> pev'.list]
      /\ pev'.pc = pc /\ pev'.meta = -1
  BY RestartIs
<1>4. StageInv' /\ ~Started'
  BY <1>3 DEF StageInv, Started, Stages
<1>5. CountInv'
  <2>1. Value!RowsOf(Value!Evaluated)' = Value!RowsOf(Value!Evaluated)
    BY <1>2 DEF SameMeta, Value!RowsOf
  <2> QED  BY <1>4, <2>1, FewerRows DEF RowSteps, CountInv, SameMeta
<1> QED  BY <1>1, <1>4, <1>5 DEF RowSteps, SameMeta

(* The pending rows go, and the blocks are about to be counted. *)
LEMMA DropRows ==
  ASSUME RowSteps, SameMeta, Value!DropPending, ~Started,
         NEW meta, NEW range, pev' = [pc |-> "count", meta |-> meta, range |-> range, list |-> {}],
         \/ meta = -1 /\ Value!Evaluated > 0
         \/ meta = Value!Evaluated /\ Value!Evaluated < Len(chain.meta),
         range[1] = Span(meta)[1], range[2] = Span(meta)[2]
  PROVE  RowSteps'
<1>1. RowsInv' /\ Value!RowsOf(-1)' = {}
  BY FewerRows
<1>2. /\ pev' = [pc |-> pev'.pc, meta |-> pev'.meta, range |-> pev'.range, list |-> pev'.list]
      /\ pev'.pc = "count" /\ pev'.meta = meta /\ pev'.range = range
  OBVIOUS
<1>3. Value!Evaluated \in Nat /\ Value!Evaluated' = Value!Evaluated /\ chain' = chain
  BY DEF RowSteps, LogInv, SameMeta
<1>4. Span(meta)' = Span(meta)
  BY SameSpan DEF SameMeta
<1>5. StageInv'
  <2>1. Span(pev.meta)' = Span(meta)'
    BY <1>2 DEF Span
  <2> QED  BY <1>1, <1>2, <1>3, <1>4, <2>1 DEF StageInv, Stages
<1>6. ~Started'
  BY <1>2 DEF Started, Stages
<1>7. CountInv'
  <2>1. Value!RowsOf(Value!Evaluated)' = Value!RowsOf(Value!Evaluated)
    <3>1. PICK e : e = Value!Evaluated
      OBVIOUS
    <3>2. Value!RowsOf(Value!Evaluated)' = Value!RowsOf(e)'
      BY <1>3, <3>1 DEF Value!RowsOf
    <3> QED  BY <1>3, <3>1, <3>2, FewerRows
  <2> QED  BY <1>6, <2>1, FewerRows DEF RowSteps, CountInv, SameMeta
<1> QED  BY <1>1, <1>5, <1>7 DEF RowSteps, SameMeta

(* What CountBlocks counts. *)
LEMMA CountedIs ==
  ASSUME RowSteps, NEW new, new = Value!CountBlockPEV(pev.range, pev.meta), pev.pc = "count"
  PROVE  /\ new = Value!CountBlockPEV(Span(pev.meta), pev.meta)
         /\ IsFiniteSet(new)
         /\ \A r, s \in new : r.meta = pev.meta /\ (Value!SameRow(r, s) => r = s)
         /\ \A r \in new :
              \E i \in Ids : /\ Pin(i) = r.from /\ chain.log[i].block > 0
                             /\ chain.log[i].block \in Span(pev.meta)[1]..Span(pev.meta)[2]
<1>1. chain \in Chains /\ stored \subseteq Ids
  BY DEF RowSteps, LogInv, LogInOrder
<1>2. new = Value!CountBlockPEV(Span(pev.meta), pev.meta)
  BY SameRange DEF RowSteps, StageInv
<1>3. IsFiniteSet(new) /\ \A r, s \in new : r.meta = pev.meta /\ (Value!SameRow(r, s) => r = s)
  BY <1>1, CountFinite, CountUnique
<1>4. ASSUME NEW r \in new
      PROVE  \E i \in Ids : /\ Pin(i) = r.from /\ chain.log[i].block > 0
                            /\ chain.log[i].block \in Span(pev.meta)[1]..Span(pev.meta)[2]
  <2>1. PICK i, t : /\ i \in Value!Confirmed /\ t \in Value!Targets(i)
                    /\ Counts(i, Span(pev.meta)) /\ IsRow(r, i, t, pev.meta)
    BY <1>2, CountIs
  <2>2. r.from = Pin(i)
    BY <2>1, RowIs DEF IsRow
  <2> QED  BY <1>1, <2>1, <2>2, ConfirmedIs DEF Counts
<1> QED  BY <1>2, <1>3, <1>4

LEMMA CountRows ==
  ASSUME RowSteps, SameMeta, Value!CountBlocks
  PROVE  /\ RowSteps'
         /\ pev'.meta = pev.meta /\ pev'.pc = "info"
         /\ rows' \subseteq rows \cup pev'.list
         /\ pev'.list = Value!CountBlockPEV(Span(pev.meta), pev.meta)
<1> DEFINE new == Value!CountBlockPEV(pev.range, pev.meta)
<1>1. /\ rows' = rows \cup {r \in new : \A s \in rows : ~Value!SameRow(r, s)}
      /\ pev' = [pev EXCEPT !.pc = "info", !.list = new] /\ pev.pc = "count"
  BY DEF Value!CountBlocks, Value!AddRows, Value!At
<1>2. /\ pev' = [pc |-> pev'.pc, meta |-> pev'.meta, range |-> pev'.range, list |-> pev'.list]
      /\ pev'.pc = "info" /\ pev'.meta = pev.meta /\ pev'.range = pev.range /\ pev'.list = new
  BY <1>1, PevStep DEF RowSteps
<1>3. /\ new = Value!CountBlockPEV(Span(pev.meta), pev.meta)
      /\ IsFiniteSet(new)
      /\ \A r, s \in new : r.meta = pev.meta /\ (Value!SameRow(r, s) => r = s)
      /\ \A r \in new :
           \E i \in Ids : /\ Pin(i) = r.from /\ chain.log[i].block > 0
                          /\ chain.log[i].block \in Span(pev.meta)[1]..Span(pev.meta)[2]
  BY <1>1, CountedIs
<1> HIDE DEF new
<1>4. /\ Value!Evaluated \in Nat /\ Len(chain.meta) \in Nat /\ Value!Evaluated <= Len(chain.meta)
      /\ Value!Evaluated' = Value!Evaluated /\ chain' = chain
      /\ \/ pev.meta = -1 /\ Value!Evaluated > 0
         \/ pev.meta = Value!Evaluated /\ Value!Evaluated < Len(chain.meta)
  <2>1. Len(chain.meta) \in Nat
    BY MetaTyped DEF RowSteps, LogInv
  <2> QED  BY <1>1, <2>1 DEF RowSteps, LogInv, StageInv, SameMeta
<1>5. RowsInv'
  <2>1. IsFiniteSet(rows')
    <3>1. {r \in new : \A s \in rows : ~Value!SameRow(r, s)} \subseteq new
      OBVIOUS
    <3>2. IsFiniteSet({r \in new : \A s \in rows : ~Value!SameRow(r, s)})
      BY <1>3, <3>1, FS_Subset
    <3> QED  BY <1>1, <3>2, FS_Union DEF RowSteps, RowsInv
  <2>2. ASSUME NEW r \in rows'
        PROVE  /\ r.meta \in -1..Value!Evaluated /\ r.meta < Len(chain.meta)
               /\ r.meta = -1 => Value!Evaluated > 0
               /\ \E i \in Ids : /\ Pin(i) = r.from /\ chain.log[i].block > 0
                                 /\ chain.log[i].block \in Span(r.meta)[1]..Span(r.meta)[2]
    <3>1. CASE r \in rows
      BY <3>1 DEF RowSteps, RowsInv
    <3>2. CASE r \in new
      <4>1. r.meta = pev.meta
        BY <1>3, <3>2
      <4> QED  BY <1>3, <1>4, <3>2, <4>1
    <3> QED  BY <1>1, <3>1, <3>2
  <2>3. ASSUME NEW r \in rows', NEW s \in rows', Value!SameRow(r, s) PROVE r = s
    <3>1. Value!SameRow(s, r)
      BY <2>3 DEF Value!SameRow
    <3> QED  BY <1>1, <1>3, <2>3, <3>1 DEF RowSteps, RowsInv
  <2>4. \A n : Span(n)' = Span(n)
    BY <1>4, SameSpan
  <2>5. Ids' = Ids /\ \A i : Pin(i)' = Pin(i)
    BY <1>4, SameSpan
  <2> QED  BY <1>4, <2>1, <2>2, <2>3, <2>4, <2>5 DEF RowsInv, Value!SameRow
<1>6. \A n : n # pev.meta => Value!RowsOf(n)' = Value!RowsOf(n)
  BY <1>1, <1>3 DEF Value!RowsOf
<1>7. Value!RowsOf(pev.meta) \subseteq new =>
        \A n : n = pev.meta => Value!RowsOf(n)' = new
  <2> SUFFICES ASSUME Value!RowsOf(pev.meta) \subseteq new, NEW n, n = pev.meta
               PROVE  Value!RowsOf(n)' = new
    OBVIOUS
  <2>1. Value!RowsOf(n)' = {r \in rows' : r.meta = n}
    BY DEF Value!RowsOf
  <2>2. ASSUME NEW r \in new PROVE r \in rows'
    <3>1. CASE \E s \in rows : Value!SameRow(r, s)
      <4>1. PICK s \in rows : Value!SameRow(r, s)
        BY <3>1
      <4>2. s.meta = pev.meta
        BY <1>3, <2>2, <4>1 DEF Value!SameRow
      <4>3. s \in new
        BY <4>1, <4>2 DEF Value!RowsOf
      <4>4. r = s
        BY <1>3, <2>2, <4>1, <4>3
      <4> QED  BY <1>1, <4>1, <4>4
    <3> QED  BY <1>1, <2>2, <3>1
  <2>3. ASSUME NEW r \in rows', r.meta = n PROVE r \in new
    BY <1>1, <2>3 DEF Value!RowsOf
  <2> QED  BY <1>3, <2>1, <2>2, <2>3
<1>8. StageInv'
  <2>1. Value!RowsOf(-1) = {}
    BY <1>1 DEF RowSteps, StageInv
  <2>2. Value!RowsOf(-1)' = IF pev.meta = -1 THEN new ELSE {}
    <3>1. CASE pev.meta = -1
      BY <1>7, <2>1, <3>1
    <3>2. CASE pev.meta # -1
      BY <1>6, <2>1, <3>2
    <3> QED  BY <3>1, <3>2
  <2>3. Span(pev.meta)' = Span(pev.meta)
    <3>1. PICK m : m = pev.meta
      OBVIOUS
    <3>2. Span(pev.meta)' = Span(m)'
      BY <1>2, <3>1 DEF Span
    <3> QED  BY <1>4, <3>1, <3>2, SameSpan
  <2>4. pev.range[1] = Span(pev.meta)[1] /\ pev.range[2] = Span(pev.meta)[2]
    BY <1>1 DEF RowSteps, StageInv
  <2> QED  BY <1>2, <1>4, <2>2, <2>3, <2>4 DEF StageInv, Stages
<1>9. CountInv'
  <2>1. PICK e : e = Value!Evaluated
    OBVIOUS
  <2>2. Value!RowsOf(Value!Evaluated)' = Value!RowsOf(e)'
    BY <1>4, <2>1 DEF Value!RowsOf
  <2>3. ~Started /\ (Started' <=> pev.meta # -1)
    BY <1>1, <1>2 DEF Started, Stages
  <2>4. CASE pev.meta = -1
    <3>1. Value!RowsOf(e)' = Value!RowsOf(e)
      BY <1>4, <1>6, <2>1, <2>4
    <3>2. crashes' = 0 => Value!RowsOf(e)' = {}
      BY <2>1, <2>3, <3>1 DEF RowSteps, CountInv, SameMeta
    <3>3. ASSUME Value!Steady'
          PROVE  Value!RowsOf(e)' \subseteq Value!CountBlockPEV(Span(Value!Evaluated), Value!Evaluated)'
      BY <2>1, <3>1, <3>3, CountStays DEF RowSteps, CountInv, SameMeta
    <3> QED  BY <2>2, <2>3, <2>4, <3>2, <3>3 DEF CountInv
  <2>5. CASE pev.meta # -1
    <3>1. pev.meta = e
      BY <1>4, <2>1, <2>5
    <3>2. Reliable' => Value!RowsOf(e) \subseteq new
      <4>1. Reliable' => Reliable
        BY DEF Reliable, SameMeta
      <4> QED  BY <1>3, <2>1, <2>3, <3>1, <4>1 DEF RowSteps, CountInv, Reliable
    <3>3. Reliable' => Value!RowsOf(e)' = new
      BY <1>7, <3>1, <3>2
    <3>4. ASSUME Value!Steady'
          PROVE  new \subseteq Value!CountBlockPEV(Span(Value!Evaluated), Value!Evaluated)'
      BY <1>3, <2>1, <3>1, <3>4, CountStays
    <3> QED  BY <1>2, <2>2, <2>3, <2>5, <3>3, <3>4 DEF CountInv, Reliable
  <2> QED  BY <2>4, <2>5
<1> QED  BY <1>1, <1>2, <1>3, <1>5, <1>8, <1>9 DEF RowSteps, SameMeta

(* The next of the collections. *)
LEMMA AdvanceRows ==
  ASSUME RowSteps, SameMeta, rows' = rows, pev.pc \in Stages,
         NEW pc \in Stages, pev' = [pev EXCEPT !.pc = pc], pc = "save" => pev.meta # -1
  PROVE  RowSteps' /\ pev'.pc = pc /\ pev'.meta = pev.meta /\ pev'.list = pev.list
<1>1. /\ pev' = [pc |-> pev'.pc, meta |-> pev'.meta, range |-> pev'.range, list |-> pev'.list]
      /\ pev'.pc = pc /\ pev'.meta = pev.meta /\ pev'.range = pev.range /\ pev'.list = pev.list
  BY PevStep DEF RowSteps
<1>2. RowsInv'
  BY FewerRows
<1>3. /\ \A n : Value!RowsOf(n)' = Value!RowsOf(n)
      /\ Value!RowsOf(Value!Evaluated)' = Value!RowsOf(Value!Evaluated)
  BY DEF Value!RowsOf, SameMeta
<1>4. chain' = chain /\ Value!Evaluated' = Value!Evaluated
  BY DEF SameMeta
<1>5. Span(pev.meta)' = Span(pev.meta)
  <2>1. PICK m : m = pev.meta
    OBVIOUS
  <2>2. Span(pev.meta)' = Span(m)'
    BY <1>1, <2>1 DEF Span
  <2> QED  BY <1>4, <2>1, <2>2, SameSpan
<1>6. StageInv'
  BY <1>1, <1>3, <1>4, <1>5 DEF RowSteps, StageInv, Stages
<1>7. Started' = Started /\ (Reliable' => Reliable)
  BY <1>1 DEF Started, Reliable, SameMeta
<1>8. CountInv'
  BY <1>1, <1>3, <1>7, FewerRows DEF RowSteps, CountInv, SameMeta
<1> QED  BY <1>1, <1>2, <1>6, <1>8 DEF RowSteps, SameMeta

(* The metablock is saved, the next one comes. *)
LEMMA SaveRows ==
  ASSUME RowSteps, LogInv', chain' = chain, rows' = rows, pev.pc = "save",
         Value!Evaluated' = Value!Evaluated + 1, pev' = Value!Restart("pending")
  PROVE  RowSteps'
<1>1. /\ pev' = [pc |-> pev'.pc, meta |-> pev'.meta, range |-> pev'.range, list |-> pev'.list]
      /\ pev'.pc = "pending" /\ pev'.meta = -1
  BY RestartIs
<1>2. StageInv' /\ ~Started'
  BY <1>1 DEF StageInv, Started, Stages
<1>3. Value!RowsOf(-1) = {}
  BY DEF RowSteps, StageInv, Stages
<1>4. \A r \in rows : r.meta # -1
  BY <1>3 DEF Value!RowsOf
<1>5. Value!Evaluated \in Nat
  BY DEF RowSteps, LogInv
<1>6. \A n : n # -1 => Span(n)' = Span(n)
  BY DEF Span
<1>7. Ids' = Ids /\ \A i : Pin(i)' = Pin(i)
  BY DEF Ids, Pin
<1>8. RowsInv'
  <2>1. \A r \in rows : r.meta \in -1..(Value!Evaluated + 1)
    BY <1>5 DEF RowSteps, RowsInv
  <2> QED  BY <1>4, <1>6, <1>7, <2>1 DEF RowSteps, RowsInv, Value!SameRow
<1>9. Value!RowsOf(Value!Evaluated)' = {}
  <2>1. \A r \in rows : r.meta # Value!Evaluated + 1
    BY <1>5 DEF RowSteps, RowsInv
  <2> QED  BY <2>1 DEF Value!RowsOf
<1> QED  BY <1>2, <1>8, <1>9 DEF RowSteps, CountInv

(* A reader saves its own cursor only. *)
Saves == cursor' = cursor \/ \E key, id : key # "metablock" /\ cursor' = [cursor EXCEPT ![key] = id]

LEMMA ReadersSave ==
  /\ Metaso!MetasoNext => Saves
  /\ Name!NameNext => Saves
  /\ Nft!NftNext => Saves
  /\ Access!AccessNext => Saves
<1>1. Metaso!MetasoNext => Saves
  <2>1. ASSUME NEW key \in ReactionKeys, ReaderStep(key) PROVE Saves
    BY <2>1 DEF ReaderStep, ReactionKeys, Metaso!Read, Metaso!SaveFirst, Metaso!Look, Metaso!Insert,
       Metaso!Count, Metaso!SaveCursor, Metaso!logvars, Saves
  <2>2. Metaso!InsertMempoolData => Saves
    BY DEF Metaso!InsertMempoolData, Metaso!logvars, Saves
  <2>3. Metaso!FixStatistics \/ Metaso!DeleteMetaSoMempool \/ Metaso!MetasoCrash => Saves
    BY DEF Metaso!FixStatistics, Metaso!FixTweets, Metaso!FixCursor, Metaso!FixMark, Metaso!SaveCursor,
       Metaso!DeleteMetaSoMempool, Metaso!MetasoCrash, Metaso!LogCrash, Metaso!logvars, Saves
  <2>4. Metaso!FixHost \/ Metaso!ReadTweets \/ Metaso!InsertTweets \/ Metaso!SaveTweetCursor
          \/ Metaso!SyncHostData \/ Metaso!SyncMrc20TickData => Saves
    BY DEF Metaso!FixHost, Metaso!ReadTweets, Metaso!InsertTweets, Metaso!SaveTweetCursor,
       Metaso!SyncHostData, Metaso!SyncMrc20TickData, Metaso!SaveCursor, Metaso!logvars, Saves
  <2> QED  BY <2>1, <2>2, <2>3, <2>4, ReaderSteps DEF Metaso!MetasoNext, Metaso!Synchronization
<1>2. Name!NameNext => Saves
  BY DEF Name!NameNext, Name!NameSync, Name!ReadNames, Name!SaveNames, Name!InsertNames,
    Name!UpdateNames, Name!InsertHistory, Name!MoveNames, Name!SaveTransfers,
    Name!NameCrash, Name!LogCrash, Name!logvars, Name!SaveCursor, Saves
<1>3. Nft!NftNext => Saves
  BY DEF Nft!NftNext, Nft!NftSync, Nft!ReadView, Nft!SaveCollections, Nft!AcceptItems,
    Nft!SaveItems, Nft!DescribeItems, Nft!CountItems, Nft!SaveCursor721, Nft!MoveItems,
    Nft!SaveMoves, Nft!SyncAddress, Nft!Sweep, Nft!JoinAddress, Nft!MergeAddress,
    Nft!NftCrash, Nft!LogCrash, Nft!logvars, Nft!SaveCursor, Saves
<1>4. Access!AccessNext => Saves
  BY DEF Access!AccessNext, Access!AccessTurn, Access!Turn, Access!StartTurn, Access!Check,
    Access!SaveControls, Access!SavePasses, Access!HearControl, Access!AccessCrash,
    Access!LogCrash, Access!logvars, Saves
<1> QED  BY <1>1, <1>2, <1>3, <1>4

(* Of every step: the log grows, in order; what has moved stays so. *)
LEMMA LogSteps ==
  ASSUME LogInv, [Next]_vars
  PROVE  /\ chain' = chain /\ stored \subseteq stored' /\ LogInOrder'
         /\ crashes' \in Nat /\ (crashes' = 0 => crashes = 0)
         /\ hop' \in [Pins -> Nat] /\ (Value!Steady' => Value!Steady)
         /\ LogNext \/ UNCHANGED <<stored, hop>>
<1>1. chain' = chain /\ crashes' \in Nat /\ (crashes' = 0 => crashes = 0)
  BY ChainKept, CrashesCount DEF LogInv
<1>2. LogNext \/ UNCHANGED <<stored, gone, hop>>
  BY MetasoKeeps, NameKeeps, NftKeeps, ValueKeeps, AccessKeeps
     DEF Next, Index, SyncMetaso, SyncName, SyncNft, SyncValue, HandleAccess, vars, logvars, pinvars
<1>3. stored \subseteq stored' /\ LogInOrder'
  <2>1. CASE LogNext
    BY <2>1, LogOrder DEF LogInv
  <2>2. CASE UNCHANGED <<stored, gone>>
    BY <1>1, <2>2 DEF LogInv, LogInOrder, Ids, Pending
  <2> QED  BY <1>2, <2>1, <2>2
<1>4. hop' \in [Pins -> Nat] /\ ((\A p \in Pins : hop'[p] = 0) => \A p \in Pins : hop[p] = 0)
  <2>1. hop \in [Pins -> Nat]
    BY DEF LogInv
  <2>2. CASE hop' = hop
    BY <2>1, <2>2
  <2>3. ASSUME NEW p \in Pins, MovePin(p) PROVE hop' \in [Pins -> Nat] /\ hop'[p] # 0
    BY <2>1, <2>3 DEF MovePin
  <2> QED  BY <1>2, <2>1, <2>2, <2>3 DEF LogNext, StoreBlock, Announce, Discard, RecordMove
<1>5. Value!Steady' => Value!Steady
  <2>1. Value!Pins = Pins /\ Value!Pins' = Pins
    BY <1>1, ValueNames DEF Value!Pins, Value!Pin, Value!Ids, Pins, Pin, Ids
  <2> QED  BY <1>1, <1>4, <2>1 DEF Value!Steady
<1> QED  BY <1>1, <1>2, <1>3, <1>4, <1>5

(* A step of the goroutine, but the last of a metablock. *)
ValueStep ==
  \/ Value!BeginPEV \/ Value!BeginPending \/ Value!CountBlocks \/ Value!SaveInfo
  \/ Value!UpdateBlockHosts \/ Value!UpdateBlockAddresses \/ Value!UpdateTotals \/ Value!PevCrash

LEMMA MetaSteps ==
  ASSUME RowSteps, [Next]_vars
  PROVE  \/ SameMeta /\ UNCHANGED pevvars
         \/ SameMeta /\ ValueStep
         \/ /\ Value!SaveMetablock /\ LogInv' /\ Value!Evaluated' = Value!Evaluated + 1
            /\ pev.meta = Value!Evaluated /\ Value!Evaluated < Len(chain.meta)
            /\ UNCHANGED <<chain, stored, hop, crashes, rows, blockHost, blockAddr, blockInfo, totals>>
<1>1. /\ chain' = chain /\ stored \subseteq stored' /\ LogInOrder'
      /\ crashes' \in Nat /\ (crashes' = 0 => crashes = 0)
      /\ hop' \in [Pins -> Nat] /\ (Value!Steady' => Value!Steady)
  BY LogSteps DEF RowSteps
<1>2. chain' \in Chains /\ Pins' = Pins /\ DOMAIN cursor = Keys /\ "metablock" \in Keys
  BY <1>1, KeysAssumption DEF RowSteps, LogInv, Pins, Pin, Ids
<1>3. ASSUME DOMAIN cursor' = Keys, cursor'["metablock"] = cursor["metablock"] PROVE SameMeta
  <2>1. Value!Evaluated' = Value!Evaluated
    BY <1>3 DEF Value!Evaluated
  <2> QED  BY <1>1, <1>2, <1>3, <2>1 DEF SameMeta, RowSteps, LogInv
<1>4. CASE Saves /\ UNCHANGED pevvars
  BY <1>2, <1>3, <1>4 DEF Saves
<1>5. CASE ValueStep
  <2>1. cursor' = cursor
    BY <1>5 DEF ValueStep, Value!BeginPEV, Value!BeginPending, Value!CountBlocks, Value!SaveInfo,
       Value!UpdateBlockHosts, Value!UpdateBlockAddresses, Value!UpdateTotals, Value!PevCrash,
       Value!LogCrash, Value!logvars
  <2> QED  BY <1>2, <1>3, <1>5, <2>1
<1>6. CASE Value!SaveMetablock
  <2>1. /\ pev.pc = "save" /\ cursor' = [cursor EXCEPT !["metablock"] = pev.meta + 1]
        /\ UNCHANGED <<chain, stored, hop, crashes, rows, blockHost, blockAddr, blockInfo, totals>>
    BY <1>6 DEF Value!SaveMetablock, Value!At, Value!SaveCursor, Value!pinvars
  <2>2. pev.meta = Value!Evaluated /\ Value!Evaluated < Len(chain.meta)
    BY <2>1 DEF RowSteps, StageInv, Stages
  <2>3. DOMAIN cursor' = Keys /\ Value!Evaluated' = Value!Evaluated + 1
    BY <1>2, <2>1, <2>2 DEF Value!Evaluated
  <2>4. Value!Evaluated \in Nat /\ Len(chain.meta) \in Nat
    BY MetaTyped DEF RowSteps, LogInv
  <2> QED  BY <1>1, <1>2, <1>6, <2>1, <2>2, <2>3, <2>4 DEF LogInv
<1> QED  BY <1>4, <1>5, <1>6, ReadersSave, IndexKeeps
         DEF Next, Index, SyncMetaso, SyncName, SyncNft, SyncValue, HandleAccess, vars, logvars,
             Value!PevNext, Value!SyncPEV, ValueStep, Saves

LEMMA RangeStep ==
  \A pc, range :
    [Value!Restart(pc) EXCEPT !.range = range]
      = [pc |-> pc, meta |-> -1, range |-> range, list |-> {}]
<1> TAKE pc, range
<1> DEFINE r == [pc |-> pc, meta |-> -1, range |-> <<1, 0>>, list |-> {}]
<1>1. [r EXCEPT !.range = range] = [pc |-> pc, meta |-> -1, range |-> range, list |-> {}]
  OBVIOUS
<1>2. Value!Restart(pc) = r
  BY DEF Value!Restart, Value!Unborn
<1> QED  BY <1>1, <1>2, Zenon

(* What begins a turn, and what ends it. *)
LEMMA BeginRows ==
  ASSUME RowSteps, SameMeta, Value!BeginPEV \/ Value!BeginPending \/ Value!PevCrash
  PROVE  RowSteps'
<1>1. Value!Evaluated \in Nat /\ Len(chain.meta) \in Nat /\ Value!Evaluated <= Len(chain.meta)
  BY MetaTyped DEF RowSteps, LogInv
<1>2. CASE Value!BeginPEV
  <2>1. pev.pc \in {"next", "skipped"} /\ ~Started
    BY <1>2 DEF Value!BeginPEV, Value!At, Started, Stages
  <2>2. ASSUME Value!Evaluated < Len(chain.meta), Value!DropPending,
               pev' = [Value!Restart("count") EXCEPT !.meta = Value!Evaluated,
                                                     !.range = chain.meta[Value!Evaluated + 1]]
        PROVE  RowSteps'
    <3>1. PICK e, q : e = Value!Evaluated /\ q = chain.meta[Value!Evaluated + 1]
      OBVIOUS
    <3>2. pev' = [pc |-> "count", meta |-> e, range |-> q, list |-> {}]
      BY <2>2, <3>1, CountStep
    <3>3. q[1] = Span(e)[1] /\ q[2] = Span(e)[2]
      BY <1>1, <3>1 DEF Span
    <3> QED  BY <2>1, <2>2, <3>1, <3>2, <3>3, DropRows
  <2>3. CASE pev' = Value!Restart("pending") /\ rows' = rows
    BY <2>1, <2>3, RestartRows
  <2> QED  BY <1>2, <2>2, <2>3 DEF Value!BeginPEV
<1>3. CASE Value!BeginPending
  <2>1. pev.pc = "pending" /\ ~Started
    BY <1>3 DEF Value!BeginPending, Value!At, Started, Stages
  <2>2. CASE /\ pev' = Value!Restart(IF Value!Evaluated = 0 THEN "next" ELSE "skipped")
             /\ rows' = rows
    BY <2>1, <2>2, RestartRows
  <2>3. CASE /\ Value!Evaluated > 0 /\ Value!DropPending
             /\ pev' = [Value!Restart("count") EXCEPT !.range =
                         <<chain.meta[Value!Evaluated][3] + 1, Value!Max(Value!Blocks)>>]
    <3>1. PICK q : q = <<chain.meta[Value!Evaluated][3] + 1, Final>>
      OBVIOUS
    <3>2. Value!Max(Value!Blocks) = Final
      BY ValueNames DEF Final
    <3>3. pev' = [Value!Restart("count") EXCEPT !.range = q] /\ Value!DropPending
      BY <2>3, <3>1, <3>2
    <3>4. pev' = [pc |-> "count", meta |-> -1, range |-> q, list |-> {}]
      BY <3>3, RangeStep
    <3>5. q[1] = Span(-1)[1] /\ q[2] = Span(-1)[2]
      BY <2>3, <3>1 DEF Span
    <3> QED  BY <1>1, <2>1, <2>3, <3>3, <3>4, <3>5, DropRows
  <2> QED  BY <1>1, <1>3, <2>2, <2>3 DEF Value!BeginPending
<1>4. CASE Value!PevCrash
  <2>1. pev' = Value!Restart("pending") /\ rows' = rows /\ crashes' # 0
    BY <1>4 DEF Value!PevCrash, Value!LogCrash, RowSteps, LogInv
  <2> QED  BY <2>1, RestartRows
<1> QED  BY <1>2, <1>3, <1>4

LEMMA SaveSteps ==
  ASSUME RowSteps, SameMeta,
         \/ Value!SaveInfo \/ Value!UpdateBlockHosts \/ Value!UpdateBlockAddresses
         \/ Value!UpdateTotals /\ pev.meta # -1
  PROVE  RowSteps' /\ pev'.meta = pev.meta /\ pev'.list = pev.list
<1>1. /\ rows' = rows /\ pev.pc \in Stages
      /\ \E pc \in Stages : pev' = [pev EXCEPT !.pc = pc] /\ (pc = "save" => pev.meta # -1)
  BY DEF Value!SaveInfo, Value!UpdateBlockHosts, Value!UpdateBlockAddresses, Value!UpdateTotals,
     Value!At, Value!Unborn, Stages
<1> QED  BY <1>1, AdvanceRows

LEMMA NextRows == RowSteps /\ [Next]_vars => RowSteps'
<1> SUFFICES ASSUME RowSteps, [Next]_vars PROVE RowSteps'
  OBVIOUS
<1>1. CASE SameMeta /\ UNCHANGED pevvars
  BY <1>1, QuietRows DEF pevvars
<1>2. CASE SameMeta /\ ValueStep
  <2>1. CASE Value!UpdateTotals /\ pev.meta = -1
    <3>1. pev' = Value!Restart("next") /\ rows' = rows /\ ~Started
      BY <2>1 DEF Value!UpdateTotals, Value!Unborn, Started
    <3> QED  BY <1>2, <3>1, RestartRows
  <2> QED  BY <1>2, <2>1, BeginRows, CountRows, SaveSteps DEF ValueStep
<1>3. CASE /\ Value!SaveMetablock /\ LogInv' /\ Value!Evaluated' = Value!Evaluated + 1
           /\ UNCHANGED <<chain, rows>>
  <2>1. pev.pc = "save" /\ pev' = Value!Restart("pending")
    BY <1>3 DEF Value!SaveMetablock, Value!At
  <2> QED  BY <1>3, <2>1, SaveRows
<1> QED  BY <1>1, <1>2, <1>3, MetaSteps

LEMMA InitRows == Init => RowSteps
<1> SUFFICES ASSUME Init PROVE RowSteps
  OBVIOUS
<1>1. /\ chain \in Chains /\ stored = {} /\ gone = {} /\ cursor = [k \in Keys |-> 0]
      /\ hop = [p \in Pins |-> 0] /\ crashes = 0 /\ rows = {} /\ pev = Value!Restart("pending")
  BY DEF Init, LogInit, Value!PevInit
<1>2. DOMAIN cursor = Keys /\ Value!Evaluated = 0 /\ Len(chain.meta) \in Nat
  BY <1>1, KeysAssumption, MetaTyped DEF Value!Evaluated
<1>3. LogInv
  BY <1>1, <1>2 DEF LogInv, LogInOrder
<1>4. RowsInv
  BY <1>1, FS_EmptySet DEF RowsInv
<1>5. /\ pev = [pc |-> pev.pc, meta |-> pev.meta, range |-> pev.range, list |-> pev.list]
      /\ pev.pc = "pending" /\ pev.meta = -1
  BY <1>1, RestartIs
<1>6. StageInv
  BY <1>5 DEF StageInv, Stages
<1>7. CountInv
  BY <1>1, <1>5 DEF CountInv, Started, Value!RowsOf
<1> QED  BY <1>3, <1>4, <1>6, <1>7 DEF RowSteps

(***************************************************************************)
(* The values of the metablocks.                                           *)
(***************************************************************************)

UpTo(n) == {r \in rows : r.meta \in 0..n}

InfoRight(n) ==
  /\ n \in DOMAIN blockInfo /\ blockInfo[n].value \in Nat /\ blockInfo[n].history \in Nat
  /\ blockInfo[n].value + blockInfo[n].history = Cardinality(UpTo(n))

HostsRight(n) ==
  \A r \in Value!RowsOf(n) :
    /\ <<n, r.host>> \in DOMAIN blockHost
    /\ Value!HostValue(n, r.host) = Cardinality({s \in UpTo(n) : s.host = r.host})

AddressesRight(n) ==
  \A r \in Value!RowsOf(n) :
    /\ <<n, r.address>> \in DOMAIN blockAddr
    /\ Value!AddressValue(n, r.address) = Cardinality({s \in UpTo(n) : s.address = r.address})

(* A metablock is right collection by collection, and then saved. *)
ValuesInv ==
  Reliable =>
    /\ \A n \in 0..(Value!Evaluated - 1) : InfoRight(n) /\ HostsRight(n) /\ AddressesRight(n)
    /\ pev.meta # -1 =>
         /\ pev.pc \in {"hosts", "addresses", "totals", "save"} => InfoRight(pev.meta)
         /\ pev.pc \in {"addresses", "totals", "save"} => HostsRight(pev.meta)
         /\ pev.pc \in {"totals", "save"} => AddressesRight(pev.meta)

(* The rows up to a metablock are its own and those before. *)
LEMMA RowsSplit ==
  ASSUME RowsInv, NEW n \in Nat, NEW S
  PROVE  /\ IsFiniteSet(UpTo(n))
         /\ Cardinality(UpTo(n) \cap S) \in Nat /\ Cardinality(Value!RowsOf(n) \cap S) \in Nat
         /\ Cardinality(UpTo(n) \cap S)
              = Cardinality(Value!RowsOf(n) \cap S) + Cardinality(UpTo(n - 1) \cap S)
<1> DEFINE all == UpTo(n) \cap S
           own == Value!RowsOf(n) \cap S
           old == UpTo(n - 1) \cap S
<1>1. IsFiniteSet(rows)
  BY DEF RowsInv
<1>2. UpTo(n) \subseteq rows /\ all \subseteq rows /\ own \subseteq rows /\ old \subseteq rows
  BY DEF UpTo, Value!RowsOf
<1>3. \A m : m \in 0..n <=> m = n \/ m \in 0..(n - 1)
  OBVIOUS
<1>4. all = own \cup old /\ own \cap old = {}
  BY <1>3 DEF UpTo, Value!RowsOf
<1>5. IsFiniteSet(UpTo(n)) /\ IsFiniteSet(all) /\ IsFiniteSet(own) /\ IsFiniteSet(old)
  BY <1>1, <1>2, FS_Subset
<1> HIDE DEF all, own, old
<1>6. Cardinality(all) = Cardinality(own) + Cardinality(old) - Cardinality(own \cap old)
  BY <1>4, <1>5, FS_Union
<1>7. Cardinality(own) \in Nat /\ Cardinality(old) \in Nat /\ Cardinality(all) \in Nat
  BY <1>5, FS_CardinalityType
<1>8. Cardinality(own \cap old) = 0
  BY <1>4, FS_EmptySet
<1> QED  BY <1>5, <1>6, <1>7, <1>8 DEF all, own, old

InfoKept(n) ==
  n \in DOMAIN blockInfo => n \in DOMAIN blockInfo' /\ blockInfo'[n] = blockInfo[n]

HostsKept(n) ==
  \A h : <<n, h>> \in DOMAIN blockHost =>
           <<n, h>> \in DOMAIN blockHost' /\ blockHost'[<<n, h>>] = blockHost[<<n, h>>]

AddressesKept(n) ==
  \A a : <<n, a>> \in DOMAIN blockAddr =>
           <<n, a>> \in DOMAIN blockAddr' /\ blockAddr'[<<n, a>>] = blockAddr[<<n, a>>]

RowsKept(n) == UpTo(n)' = UpTo(n) /\ Value!RowsOf(n)' = Value!RowsOf(n)

LEMMA StaysRight ==
  ASSUME NEW n, RowsKept(n)
  PROVE  /\ InfoRight(n) /\ InfoKept(n) => InfoRight(n)'
         /\ HostsRight(n) /\ HostsKept(n) => HostsRight(n)'
         /\ AddressesRight(n) /\ AddressesKept(n) => AddressesRight(n)'
<1>1. InfoRight(n) /\ InfoKept(n) => InfoRight(n)'
  BY DEF InfoRight, InfoKept, RowsKept
<1>2. ASSUME HostsRight(n), HostsKept(n) PROVE HostsRight(n)'
  <2>1. ASSUME NEW r \in Value!RowsOf(n)
        PROVE  /\ <<n, r.host>> \in DOMAIN blockHost'
               /\ Value!HostValue(n, r.host)' = Cardinality({s \in UpTo(n) : s.host = r.host})
    BY <1>2, <2>1 DEF HostsRight, HostsKept, Value!HostValue
  <2>2. \A h : Value!HostValue(n, h)' = LET v == blockHost'[<<n, h>>] IN v.value + v.history
    BY DEF Value!HostValue
  <2> QED  BY <2>1, <2>2 DEF HostsRight, RowsKept, Value!HostValue
<1>3. ASSUME AddressesRight(n), AddressesKept(n) PROVE AddressesRight(n)'
  <2>1. ASSUME NEW r \in Value!RowsOf(n)
        PROVE  /\ <<n, r.address>> \in DOMAIN blockAddr'
               /\ Value!AddressValue(n, r.address)' = Cardinality({s \in UpTo(n) : s.address = r.address})
    BY <1>3, <2>1 DEF AddressesRight, AddressesKept, Value!AddressValue
  <2> QED  BY <2>1 DEF AddressesRight, RowsKept, Value!AddressValue
<1> QED  BY <1>1, <1>2, <1>3

LEMMA KeepIs ==
  \A n \in Nat : \A values, x :
    <<n, x>> \in DOMAIN values =>
      <<n, x>> \in DOMAIN Value!Keep(values) /\ Value!Keep(values)[<<n, x>>] = values[<<n, x>>]
<1> TAKE n \in Nat
<1> TAKE values, x
<1> HAVE <<n, x>> \in DOMAIN values
<1>1. n # -1 /\ <<n, x>>[1] = n
  OBVIOUS
<1> QED  BY <1>1 DEF Value!Keep, Value!Unborn

(* A metablock that is not being evaluated keeps its values. *)
LEMMA ValuesKept ==
  ASSUME ValueStep, NEW n \in Nat
  PROVE  /\ InfoKept(n) \/ (Value!SaveInfo /\ n = pev.meta)
         /\ HostsKept(n) \/ (Value!UpdateBlockHosts /\ n = pev.meta)
         /\ AddressesKept(n) \/ (Value!UpdateBlockAddresses /\ n = pev.meta)
<1>1. InfoKept(n) \/ (Value!SaveInfo /\ n = pev.meta)
  <2>1. CASE blockInfo' = blockInfo
    BY <2>1 DEF InfoKept
  <2>2. ASSUME Value!SaveInfo, n # pev.meta PROVE InfoKept(n)
    <3>1. PICK new : blockInfo' = Value!Upsert(new, blockInfo) /\ DOMAIN new = {pev.meta}
      BY <2>2 DEF Value!SaveInfo
    <3>2. /\ DOMAIN Value!Upsert(new, blockInfo) = DOMAIN new \cup DOMAIN blockInfo
          /\ \A k \in DOMAIN blockInfo \ DOMAIN new : Value!Upsert(new, blockInfo)[k] = blockInfo[k]
      BY ONLY UpsertIs
    <3> QED  BY <2>2, <3>1, <3>2 DEF InfoKept
  <2> QED  BY <2>1, <2>2 DEF ValueStep, Value!BeginPEV, Value!BeginPending, Value!CountBlocks,
              Value!UpdateBlockHosts, Value!UpdateBlockAddresses, Value!UpdateTotals, Value!PevCrash
<1>2. HostsKept(n) \/ (Value!UpdateBlockHosts /\ n = pev.meta)
  <2>1. CASE blockHost' = blockHost
    BY <2>1 DEF HostsKept
  <2>2. ASSUME Value!UpdateBlockHosts, n # pev.meta PROVE HostsKept(n)
    <3> DEFINE new == [k \in {<<pev.meta, r.host>> : r \in pev.list} |->
                        [value |-> Value!Cardinality({r \in pev.list : r.host = k[2]}),
                         history |-> Value!Cardinality({r \in Value!History(k) : r.host = k[2]})]]
               old == Value!Keep(blockHost)
    <3>1. blockHost' = Value!Upsert(new, old)
      BY <2>2 DEF Value!UpdateBlockHosts
    <3>2. \A h : <<n, h>> \notin DOMAIN new
      BY <2>2
    <3> HIDE DEF new
    <3>3. \A h : <<n, h>> \in DOMAIN blockHost => <<n, h>> \in DOMAIN old /\ old[<<n, h>>] = blockHost[<<n, h>>]
      BY KeepIs
    <3> HIDE DEF old
    <3>4. /\ DOMAIN Value!Upsert(new, old) = DOMAIN new \cup DOMAIN old
          /\ \A k \in DOMAIN old \ DOMAIN new : Value!Upsert(new, old)[k] = old[k]
      BY ONLY UpsertIs
    <3> QED  BY <3>1, <3>2, <3>3, <3>4 DEF HostsKept
  <2> QED  BY <2>1, <2>2 DEF ValueStep, Value!BeginPEV, Value!BeginPending, Value!CountBlocks,
              Value!SaveInfo, Value!UpdateBlockAddresses, Value!UpdateTotals, Value!PevCrash
<1>3. AddressesKept(n) \/ (Value!UpdateBlockAddresses /\ n = pev.meta)
  <2>1. CASE blockAddr' = blockAddr
    BY <2>1 DEF AddressesKept
  <2>2. ASSUME Value!UpdateBlockAddresses, n # pev.meta PROVE AddressesKept(n)
    <3> DEFINE new == [k \in {<<pev.meta, r.address>> : r \in pev.list} |->
                        [value |-> Value!Cardinality({r \in pev.list : r.address = k[2]}),
                         history |-> Value!Cardinality({r \in Value!History(k) : r.address = k[2]})]]
               old == Value!Keep(blockAddr)
    <3>1. blockAddr' = Value!Upsert(new, old)
      BY <2>2 DEF Value!UpdateBlockAddresses
    <3>2. \A a : <<n, a>> \notin DOMAIN new
      BY <2>2
    <3> HIDE DEF new
    <3>3. \A a : <<n, a>> \in DOMAIN blockAddr => <<n, a>> \in DOMAIN old /\ old[<<n, a>>] = blockAddr[<<n, a>>]
      BY KeepIs
    <3> HIDE DEF old
    <3>4. /\ DOMAIN Value!Upsert(new, old) = DOMAIN new \cup DOMAIN old
          /\ \A k \in DOMAIN old \ DOMAIN new : Value!Upsert(new, old)[k] = old[k]
      BY ONLY UpsertIs
    <3> QED  BY <3>1, <3>2, <3>3, <3>4 DEF AddressesKept
  <2> QED  BY <2>1, <2>2 DEF ValueStep, Value!BeginPEV, Value!BeginPending, Value!CountBlocks,
              Value!SaveInfo, Value!UpdateBlockHosts, Value!UpdateTotals, Value!PevCrash
<1> QED  BY <1>1, <1>2, <1>3

(* Of the metablocks before, no row comes or goes. *)
LEMMA OldRows ==
  ASSUME RowSteps, ValueStep, NEW n \in Nat, n < Value!Evaluated \/ pev.pc \in Stages
  PROVE  RowsKept(n)
<1>1. CASE rows' = rows
  BY <1>1 DEF RowsKept, UpTo, Value!RowsOf
<1>2. CASE Value!DropPending
  <2>1. \A m \in 0..n : m # -1
    OBVIOUS
  <2> QED  BY <1>2, <2>1 DEF RowsKept, UpTo, Value!RowsOf, Value!DropPending, Value!Unborn
<1>3. CASE Value!CountBlocks
  <2>1. pev.pc = "count" /\ Value!Evaluated \in Nat /\ n < Value!Evaluated
    BY <1>3 DEF Value!CountBlocks, Value!At, Stages, RowSteps, LogInv
  <2>2. pev.meta = -1 \/ pev.meta = Value!Evaluated
    BY <2>1 DEF RowSteps, StageInv
  <2>3. \A m \in 0..n : m # pev.meta
    BY <2>1, <2>2
  <2>4. PICK new : /\ new = Value!CountBlockPEV(pev.range, pev.meta)
                   /\ rows' = rows \cup {r \in new : \A s \in rows : ~Value!SameRow(r, s)}
    BY <1>3 DEF Value!CountBlocks, Value!AddRows
  <2>5. \A r \in new : r.meta = pev.meta
    BY <2>1, <2>4, CountedIs
  <2> QED  BY <2>3, <2>4, <2>5 DEF RowsKept, UpTo, Value!RowsOf
<1> QED  BY <1>1, <1>2, <1>3 DEF ValueStep, Value!BeginPEV, Value!BeginPending,
            Value!SaveInfo, Value!UpdateBlockHosts, Value!UpdateBlockAddresses, Value!UpdateTotals,
            Value!PevCrash

(* The metablock that is being evaluated, and its rows. *)
LEMMA StartedRows ==
  ASSUME RowSteps, Reliable, Started
  PROVE  /\ pev.meta \in Nat /\ pev.meta = Value!Evaluated
         /\ Value!RowsOf(pev.meta) = pev.list /\ RowsInv
<1>1. pev.meta = Value!Evaluated /\ Value!Evaluated \in Nat
  BY DEF RowSteps, StageInv, Started, LogInv
<1> QED  BY <1>1 DEF RowSteps, CountInv

LEMMA InfoWritten ==
  ASSUME RowSteps, ValuesInv, Reliable, Value!SaveInfo, pev.meta # -1, NEW n, n = pev.meta
  PROVE  InfoRight(n)'
<1>1. Started /\ rows' = rows
  BY DEF Value!SaveInfo, Value!At, Started, Stages
<1>2. n \in Nat /\ n = Value!Evaluated /\ Value!RowsOf(n) = pev.list /\ RowsInv
  BY <1>1, StartedRows
<1> DEFINE value == Cardinality(pev.list)
           before == IF n > 0 THEN Value!BlockHistory(n - 1) ELSE 0
           new == [m \in {pev.meta} |->
                     [value |-> Value!Cardinality(pev.list),
                      history |-> IF m > 0 THEN Value!BlockHistory(m - 1) ELSE 0]]
<1>3. blockInfo' = Value!Upsert(new, blockInfo)
  BY DEF Value!SaveInfo
<1>4. n \in DOMAIN new /\ new[n].value = value /\ new[n].history = before
  BY ValueNames
<1> HIDE DEF new
<1>5. n \in DOMAIN blockInfo' /\ blockInfo'[n].value = value /\ blockInfo'[n].history = before
  <2>1. /\ DOMAIN Value!Upsert(new, blockInfo) = DOMAIN new \cup DOMAIN blockInfo
        /\ \A k \in DOMAIN new : Value!Upsert(new, blockInfo)[k] = new[k]
    BY ONLY UpsertIs
  <2> QED  BY <1>3, <1>4, <2>1
<1>6. /\ Cardinality(UpTo(n)) = value + Cardinality(UpTo(n - 1))
      /\ value \in Nat /\ Cardinality(UpTo(n - 1)) \in Nat
  <2>1. /\ UpTo(n) \cap rows = UpTo(n) /\ UpTo(n - 1) \cap rows = UpTo(n - 1)
        /\ Value!RowsOf(n) \cap rows = Value!RowsOf(n)
    BY DEF UpTo, Value!RowsOf
  <2>2. /\ Cardinality(UpTo(n) \cap rows)
             = Cardinality(Value!RowsOf(n) \cap rows) + Cardinality(UpTo(n - 1) \cap rows)
        /\ Cardinality(Value!RowsOf(n) \cap rows) \in Nat
    BY <1>2, RowsSplit
  <2>3. Cardinality(UpTo(n - 1)) \in Nat
    <3>1. UpTo(n - 1) \subseteq rows /\ IsFiniteSet(rows)
      BY <1>2 DEF UpTo, RowsInv
    <3> QED  BY <3>1, FS_Subset, FS_CardinalityType
  <2> QED  BY <1>2, <2>1, <2>2, <2>3
<1>7. before = Cardinality(UpTo(n - 1))
  <2>1. CASE n = 0
    <3>1. UpTo(n - 1) = {}
      BY <2>1 DEF UpTo
    <3> QED  BY <2>1, <3>1, FS_EmptySet
  <2>2. CASE n # 0
    <3>1. n - 1 \in 0..(Value!Evaluated - 1) /\ n > 0
      BY <1>2, <2>2
    <3>2. InfoRight(n - 1)
      BY <3>1 DEF ValuesInv
    <3> QED  BY <3>1, <3>2 DEF InfoRight, Value!BlockHistory
  <2> QED  BY <2>1, <2>2
<1>8. UpTo(n)' = UpTo(n)
  BY <1>1 DEF UpTo
<1> HIDE DEF value, before
<1> QED  BY <1>5, <1>6, <1>7, <1>8 DEF InfoRight

(* What is written of a host: its rows of the metablock, and of those before. *)
LEMMA HostsWritten ==
  ASSUME RowSteps, Reliable, Value!UpdateBlockHosts, pev.meta # -1, NEW n, n = pev.meta
  PROVE  HostsRight(n)'
<1>1. Started /\ rows' = rows
  BY DEF Value!UpdateBlockHosts, Value!At, Started, Stages
<1>2. n \in Nat /\ Value!RowsOf(n) = pev.list /\ RowsInv
  BY <1>1, StartedRows
<1> DEFINE new == [k \in {<<pev.meta, r.host>> : r \in pev.list} |->
                     [value |-> Value!Cardinality({r \in pev.list : r.host = k[2]}),
                      history |-> Value!Cardinality({r \in Value!History(k) : r.host = k[2]})]]
<1>3. blockHost' = Value!Upsert(new, Value!Keep(blockHost))
  BY DEF Value!UpdateBlockHosts
<1> SUFFICES ASSUME NEW q \in Value!RowsOf(n)
             PROVE  /\ <<n, q.host>> \in DOMAIN blockHost'
                    /\ LET v == blockHost'[<<n, q.host>>] IN
                       v.value + v.history = Cardinality({s \in UpTo(n) : s.host = q.host})
  BY <1>1 DEF HostsRight, UpTo, Value!RowsOf, Value!HostValue
<1> DEFINE h == q.host
           these == {r \in rows : r.host = h}
<1>4. /\ <<n, h>> \in DOMAIN new
      /\ new[<<n, h>>].value = Cardinality({r \in pev.list : r.host = h})
      /\ new[<<n, h>>].history = Cardinality({r \in Value!History(<<n, h>>) : r.host = h})
  <2>1. <<n, h>> \in {<<pev.meta, r.host>> : r \in pev.list} /\ <<n, h>>[2] = h
    BY <1>2
  <2> QED  BY <2>1, ValueNames
<1> HIDE DEF new
<1>5. <<n, h>> \in DOMAIN blockHost' /\ blockHost'[<<n, h>>] = new[<<n, h>>]
  <2> DEFINE old == Value!Keep(blockHost)
  <2>1. blockHost' = Value!Upsert(new, old)
    BY <1>3
  <2> HIDE DEF old
  <2>2. /\ DOMAIN Value!Upsert(new, old) = DOMAIN new \cup DOMAIN old
        /\ \A k \in DOMAIN new : Value!Upsert(new, old)[k] = new[k]
    BY ONLY UpsertIs
  <2> QED  BY <1>4, <2>1, <2>2
<1>6. /\ {r \in pev.list : r.host = h} = Value!RowsOf(n) \cap these
      /\ {r \in Value!History(<<n, h>>) : r.host = h} = UpTo(n - 1) \cap these
      /\ {s \in UpTo(n) : s.host = h} = UpTo(n) \cap these
  BY <1>2 DEF Value!History, UpTo, Value!RowsOf
<1> HIDE DEF these, h
<1>7. Cardinality(UpTo(n) \cap these)
        = Cardinality(Value!RowsOf(n) \cap these) + Cardinality(UpTo(n - 1) \cap these)
  BY <1>2, RowsSplit
<1> QED  BY <1>4, <1>5, <1>6, <1>7 DEF h

LEMMA AddressesWritten ==
  ASSUME RowSteps, Reliable, Value!UpdateBlockAddresses, pev.meta # -1, NEW n, n = pev.meta
  PROVE  AddressesRight(n)'
<1>1. Started /\ rows' = rows
  BY DEF Value!UpdateBlockAddresses, Value!At, Started, Stages
<1>2. n \in Nat /\ Value!RowsOf(n) = pev.list /\ RowsInv
  BY <1>1, StartedRows
<1> DEFINE new == [k \in {<<pev.meta, r.address>> : r \in pev.list} |->
                     [value |-> Value!Cardinality({r \in pev.list : r.address = k[2]}),
                      history |-> Value!Cardinality({r \in Value!History(k) : r.address = k[2]})]]
<1>3. blockAddr' = Value!Upsert(new, Value!Keep(blockAddr))
  BY DEF Value!UpdateBlockAddresses
<1> SUFFICES ASSUME NEW q \in Value!RowsOf(n)
             PROVE  /\ <<n, q.address>> \in DOMAIN blockAddr'
                    /\ LET v == blockAddr'[<<n, q.address>>] IN
                       v.value + v.history = Cardinality({s \in UpTo(n) : s.address = q.address})
  BY <1>1 DEF AddressesRight, UpTo, Value!RowsOf, Value!AddressValue
<1> DEFINE a == q.address
           these == {r \in rows : r.address = a}
<1>4. /\ <<n, a>> \in DOMAIN new
      /\ new[<<n, a>>].value = Cardinality({r \in pev.list : r.address = a})
      /\ new[<<n, a>>].history = Cardinality({r \in Value!History(<<n, a>>) : r.address = a})
  <2>1. <<n, a>> \in {<<pev.meta, r.address>> : r \in pev.list} /\ <<n, a>>[2] = a
    BY <1>2
  <2> QED  BY <2>1, ValueNames
<1> HIDE DEF new
<1>5. <<n, a>> \in DOMAIN blockAddr' /\ blockAddr'[<<n, a>>] = new[<<n, a>>]
  <2> DEFINE old == Value!Keep(blockAddr)
  <2>1. blockAddr' = Value!Upsert(new, old)
    BY <1>3
  <2> HIDE DEF old
  <2>2. /\ DOMAIN Value!Upsert(new, old) = DOMAIN new \cup DOMAIN old
        /\ \A k \in DOMAIN new : Value!Upsert(new, old)[k] = new[k]
    BY ONLY UpsertIs
  <2> QED  BY <1>4, <2>1, <2>2
<1>6. /\ {r \in pev.list : r.address = a} = Value!RowsOf(n) \cap these
      /\ {r \in Value!History(<<n, a>>) : r.address = a} = UpTo(n - 1) \cap these
      /\ {s \in UpTo(n) : s.address = a} = UpTo(n) \cap these
  BY <1>2 DEF Value!History, UpTo, Value!RowsOf
<1> HIDE DEF these, a
<1>7. Cardinality(UpTo(n) \cap these)
        = Cardinality(Value!RowsOf(n) \cap these) + Cardinality(UpTo(n - 1) \cap these)
  BY <1>2, RowsSplit
<1> QED  BY <1>4, <1>5, <1>6, <1>7 DEF a

(* A step of an evaluation. *)
LEMMA StepValues ==
  ASSUME RowSteps, ValuesInv, SameMeta, ValueStep
  PROVE  ValuesInv'
<1> SUFFICES ASSUME Reliable' PROVE ValuesInv'
  BY DEF ValuesInv
<1>1. Reliable /\ Value!Evaluated' = Value!Evaluated /\ Value!Evaluated \in Nat
  BY DEF Reliable, SameMeta, RowSteps, LogInv
<1>2. PICK e : e = Value!Evaluated
  OBVIOUS
<1>3. ASSUME NEW n \in 0..(e - 1) PROVE (InfoRight(n) /\ HostsRight(n) /\ AddressesRight(n))'
  <2>1. n \in Nat /\ n < e /\ RowsKept(n)
    BY <1>1, <1>2, OldRows
  <2>2. n # pev.meta
    BY <1>2, <2>1 DEF RowSteps, StageInv
  <2>3. InfoKept(n) /\ HostsKept(n) /\ AddressesKept(n)
    BY <2>1, <2>2, ValuesKept
  <2>4. InfoRight(n) /\ HostsRight(n) /\ AddressesRight(n)
    BY <1>1, <1>2 DEF ValuesInv
  <2> QED  BY <2>1, <2>3, <2>4, StaysRight
<1>4. ASSUME pev'.meta # -1, pev'.pc \in {"hosts", "addresses", "totals", "save"}
      PROVE  /\ pev'.meta = pev.meta /\ pev.pc \in Stages
             /\ \/ Value!SaveInfo /\ pev'.pc = "hosts"
                \/ Value!UpdateBlockHosts /\ pev'.pc = "addresses" /\ pev.pc = "hosts"
                \/ Value!UpdateBlockAddresses /\ pev'.pc = "totals" /\ pev.pc = "addresses"
                \/ Value!UpdateTotals /\ pev'.pc = "save" /\ pev.pc = "totals"
  <2>1. \A pc : LET p == Value!Restart(pc) IN p.pc = pc /\ p.meta = -1
    BY RestartIs
  <2>2. ~Value!BeginPEV
    <3>1. ASSUME Value!BeginPEV PROVE pev'.pc = "count" \/ pev'.meta = -1
      BY <2>1, <3>1, CountStep DEF Value!BeginPEV
    <3> QED  BY <1>4, <3>1
  <2>3. ~Value!BeginPending
    <3>1. ASSUME Value!BeginPending PROVE pev'.pc = "count" \/ pev'.meta = -1
      BY <2>1, <3>1, RangeStep DEF Value!BeginPending
    <3> QED  BY <1>4, <3>1
  <2>4. ~Value!CountBlocks
    BY <1>4, CountRows
  <2>5. ~Value!PevCrash
    BY <1>4, <2>1 DEF Value!PevCrash
  <2>6. Value!UpdateTotals => pev.meta # -1
    BY <1>4, <2>1 DEF Value!UpdateTotals, Value!Unborn
  <2>7. pev'.meta = pev.meta
    BY <2>2, <2>3, <2>4, <2>5, <2>6, SaveSteps DEF ValueStep
  <2>8. \A pc : [pev EXCEPT !.pc = pc].pc = pc
    BY PevStep DEF RowSteps
  <2> QED  BY <2>2, <2>3, <2>4, <2>5, <2>6, <2>7, <2>8
           DEF ValueStep, Value!SaveInfo, Value!UpdateBlockHosts, Value!UpdateBlockAddresses,
               Value!UpdateTotals, Value!At, Stages, Value!Unborn
<1>5. ASSUME pev'.meta # -1, pev'.pc \in {"hosts", "addresses", "totals", "save"}, NEW n, n = pev'.meta
      PROVE  /\ InfoRight(n)'
             /\ pev'.pc \in {"addresses", "totals", "save"} => HostsRight(n)'
             /\ pev'.pc \in {"totals", "save"} => AddressesRight(n)'
  <2>1. n = pev.meta /\ n # -1 /\ pev.pc \in Stages /\ n \in Nat /\ RowsKept(n)
    <3>1. n = pev.meta /\ n # -1 /\ pev.pc \in Stages
      BY <1>4, <1>5
    <3>2. n \in Nat
      BY <1>1, <3>1 DEF RowSteps, StageInv
    <3> QED  BY <3>1, <3>2, OldRows
  <2>2. /\ InfoKept(n) \/ Value!SaveInfo
        /\ HostsKept(n) \/ Value!UpdateBlockHosts
        /\ AddressesKept(n) \/ Value!UpdateBlockAddresses
    BY <2>1, ValuesKept
  <2>3. InfoRight(n)'
    BY <1>1, <1>4, <1>5, <2>1, <2>2, StaysRight, InfoWritten DEF ValuesInv
  <2>4. pev'.pc \in {"addresses", "totals", "save"} => HostsRight(n)'
    BY <1>1, <1>4, <1>5, <2>1, <2>2, StaysRight, HostsWritten DEF ValuesInv
  <2>5. pev'.pc \in {"totals", "save"} => AddressesRight(n)'
    BY <1>1, <1>4, <1>5, <2>1, <2>2, StaysRight, AddressesWritten DEF ValuesInv
  <2> QED  BY <2>3, <2>4, <2>5
<1>6. PICK m : m = pev'.meta
  OBVIOUS
<1>7. /\ InfoRight(pev.meta)' <=> InfoRight(m)'
      /\ HostsRight(pev.meta)' <=> HostsRight(m)'
      /\ AddressesRight(pev.meta)' <=> AddressesRight(m)'
  BY <1>6 DEF InfoRight, HostsRight, AddressesRight, UpTo, Value!RowsOf, Value!HostValue, Value!AddressValue
<1> QED  BY <1>1, <1>2, <1>3, <1>5, <1>6, <1>7 DEF ValuesInv

LEMMA NextValues == RowSteps /\ ValuesInv /\ [Next]_vars => ValuesInv'
<1> SUFFICES ASSUME RowSteps, ValuesInv, [Next]_vars, Reliable' PROVE ValuesInv'
  BY DEF ValuesInv
<1>1. ASSUME NEW n, rows' = rows, UNCHANGED <<blockHost, blockAddr, blockInfo>>
      PROVE  /\ InfoRight(n) => InfoRight(n)'
             /\ HostsRight(n) => HostsRight(n)'
             /\ AddressesRight(n) => AddressesRight(n)'
  <2>1. RowsKept(n) /\ InfoKept(n) /\ HostsKept(n) /\ AddressesKept(n)
    BY <1>1 DEF RowsKept, InfoKept, HostsKept, AddressesKept, UpTo, Value!RowsOf
  <2> QED  BY <2>1, StaysRight
<1>2. PICK e, m : e = Value!Evaluated /\ m = pev.meta
  OBVIOUS
<1>3. e \in Nat
  BY <1>2 DEF RowSteps, LogInv
<1>4. CASE SameMeta /\ UNCHANGED pevvars
  <2>1. Reliable /\ Value!Evaluated' = e /\ pev' = pev
    BY <1>2, <1>4 DEF Reliable, SameMeta, pevvars
  <2>2. \A n \in 0..(e - 1) : (InfoRight(n) /\ HostsRight(n) /\ AddressesRight(n))'
    BY <1>1, <1>2, <1>4, <2>1 DEF ValuesInv, pevvars
  <2>3. /\ InfoRight(pev.meta)' <=> InfoRight(m)'
        /\ HostsRight(pev.meta)' <=> HostsRight(m)'
        /\ AddressesRight(pev.meta)' <=> AddressesRight(m)'
    BY <1>2, <2>1 DEF InfoRight, HostsRight, AddressesRight, UpTo, Value!RowsOf, Value!HostValue,
       Value!AddressValue
  <2>4. /\ InfoRight(m) => InfoRight(m)'
        /\ HostsRight(m) => HostsRight(m)'
        /\ AddressesRight(m) => AddressesRight(m)'
    BY <1>1, <1>4 DEF pevvars
  <2> QED  BY <1>2, <2>1, <2>2, <2>3, <2>4 DEF ValuesInv
<1>5. CASE SameMeta /\ ValueStep
  BY <1>5, StepValues
<1>6. CASE /\ Value!SaveMetablock /\ Value!Evaluated' = Value!Evaluated + 1 /\ pev.meta = Value!Evaluated
           /\ UNCHANGED <<chain, hop, crashes, rows, blockHost, blockAddr, blockInfo>>
  <2>1. pev.pc = "save" /\ pev'.meta = -1
    BY <1>6, RestartIs DEF Value!SaveMetablock, Value!At
  <2>2. Reliable
    <3>1. Value!Pins' = Value!Pins
      BY <1>6 DEF Value!Pins, Value!Pin, Value!Ids
    <3> QED  BY <1>6, <3>1 DEF Reliable, Value!Steady
  <2>3. InfoRight(e) /\ HostsRight(e) /\ AddressesRight(e)
    BY <1>2, <1>3, <1>6, <2>1, <2>2 DEF ValuesInv
  <2>4. \A n \in 0..((e + 1) - 1) : n \in 0..(e - 1) \/ n = e
    BY <1>3
  <2>5. \A n \in 0..((e + 1) - 1) : (InfoRight(n) /\ HostsRight(n) /\ AddressesRight(n))'
    BY <1>1, <1>2, <1>6, <2>2, <2>3, <2>4 DEF ValuesInv
  <2> QED  BY <1>2, <1>6, <2>1, <2>5 DEF ValuesInv
<1> QED  BY <1>4, <1>5, <1>6, MetaSteps

(***************************************************************************)
(* The value of an evaluated metablock is that of the rows up to it; so    *)
(* are the values of its hosts and of its addresses, in collections        *)
(* written one after the other: as long as there is no crash, or, whatever *)
(* the crashes and repeats, no pin moves and no insert overtakes; for any  *)
(* log, any metablocks, and whatever block they let the pending ones       *)
(* follow.                                                                 *)
(***************************************************************************)
THEOREM ValuesHold == Spec => []ValuesAgree
<1>1. RowSteps /\ ValuesInv => ValuesAgree
  <2> SUFFICES ASSUME RowSteps, ValuesInv, Reliable, NEW n \in 0..(Value!Evaluated - 1)
               PROVE  /\ blockInfo[n].value + blockInfo[n].history = Cardinality(UpTo(n))
                      /\ \A r \in Value!RowsOf(n) :
                           /\ Value!HostValue(n, r.host) = Cardinality({s \in UpTo(n) : s.host = r.host})
                           /\ Value!AddressValue(n, r.address)
                                = Cardinality({s \in UpTo(n) : s.address = r.address})
    BY ValueNames DEF ValuesAgree, Value!ValuesAgree, Reliable, UpTo
  <2> QED  BY DEF ValuesInv, InfoRight, HostsRight, AddressesRight
<1>2. Init => ValuesInv
  <2> SUFFICES ASSUME Init PROVE ValuesInv
    OBVIOUS
  <2>1. cursor = [k \in Keys |-> 0] /\ pev = Value!Restart("pending")
    BY DEF Init, LogInit, Value!PevInit
  <2>2. Value!Evaluated = 0 /\ pev.meta = -1
    BY <2>1, KeysAssumption, RestartIs DEF Value!Evaluated
  <2> QED  BY <2>2 DEF ValuesInv
<1> QED  BY <1>1, <1>2, InitRows, NextRows, NextValues, PTL DEF Spec

(***************************************************************************)
(* The totals.                                                             *)
(***************************************************************************)

(* What is counted for the pending blocks now; after the next metablock. *)
PendingCount == Value!CountBlockPEV(Span(-1), -1)

LaterCount == Value!CountBlockPEV(<<chain.meta[Value!Evaluated + 1][2] + 1, Final>>, -1)

(* The pending blocks follow the metablocks but the last; those, and the next one. *)
Followed == Value!PendingFollow(Value!Evaluated - 1)

FollowedNext == Value!PendingFollow(Value!Evaluated)

(* A total that is not the sum of its rows. *)
Due(x) == totals[x] # Value!SumOf(x)

(* It will be set by the list, or when the pending blocks are counted. *)
WillBeSet(x) ==
  /\ IsValued(x, PendingCount)
  /\ ~(pev.pc = "next" /\ Value!Evaluated > 0)
  /\ pev.pc \in Stages /\ pev.meta = -1 => IsValued(x, pev.list)
  /\ Started /\ FollowedNext =>
       (pev.pc # "save" /\ IsValued(x, pev.list)) \/ IsValued(x, LaterCount)

TotalsInv ==
  Value!Steady /\ Len(chain.meta) > 0 =>
    /\ Value!RowsOf(-1) \subseteq PendingCount
    /\ Followed => \A x \in DOMAIN totals : Due(x) => WillBeSet(x)

LEMMA SumKept ==
  ASSUME NEW q, rows' \subseteq rows \cup q, rows \subseteq rows' \cup q
  PROVE  \A x : Value!SumOf(x)' = Value!SumOf(x) \/ IsValued(x, q)
<1> TAKE x
<1> SUFFICES ASSUME ~IsValued(x, q) PROVE Value!SumOf(x)' = Value!SumOf(x)
  OBVIOUS
<1>1. {r \in rows' : x \in {r.host, r.address}} = {r \in rows : x \in {r.host, r.address}}
  BY DEF IsValued
<1>2. Value!SumOf(x)' = Value!Cardinality({r \in rows' : x \in {r.host, r.address}})
  BY DEF Value!SumOf, Value!Cardinality
<1> QED  BY <1>1, <1>2 DEF Value!SumOf

(* What was to be set is so still. *)
LEMMA CountedStays ==
  ASSUME RowSteps, SameMeta, Value!Steady'
  PROVE  /\ Value!Steady /\ chain' = chain /\ Value!Evaluated' = Value!Evaluated
         /\ Value!Evaluated \in Nat
         /\ Followed' = Followed /\ FollowedNext' = FollowedNext
         /\ PendingCount \subseteq PendingCount'
         /\ \A x : IsValued(x, PendingCount) => IsValued(x, PendingCount)'
         /\ \A x : IsValued(x, LaterCount) => IsValued(x, LaterCount)'
<1>1. /\ Value!Steady /\ chain' = chain /\ Value!Evaluated' = Value!Evaluated
      /\ Value!Evaluated \in Nat
  BY DEF SameMeta, RowSteps, LogInv
<1>2. PICK e : e = Value!Evaluated
  OBVIOUS
<1>3. Followed' = Followed /\ FollowedNext' = FollowedNext
  BY <1>1 DEF Followed, FollowedNext, Value!PendingFollow
<1>4. PendingCount \subseteq PendingCount'
  BY CountStays DEF PendingCount
<1>5. LaterCount \subseteq LaterCount'
  <2>1. PICK q : q = <<chain.meta[e + 1][2] + 1, Final>>
    OBVIOUS
  <2>2. LaterCount = Value!CountBlockPEV(q, -1) /\ LaterCount' = Value!CountBlockPEV(q, -1)'
    <3>1. <<chain.meta[Value!Evaluated + 1][2] + 1, Final>>' = q
      BY <1>1, <1>2, <2>1 DEF Final, Blocks, Ids
    <3> QED  BY <1>2, <2>1, <3>1 DEF LaterCount, Value!CountBlockPEV
  <2>3. chain \in Chains /\ LogInOrder /\ stored \subseteq stored' /\ stored' \subseteq Ids
    BY SameSpan DEF RowSteps, SameMeta, LogInv, LogInOrder
  <2> QED  BY <1>1, <2>2, <2>3, CountGrows
<1> QED  BY <1>1, <1>3, <1>4, <1>5 DEF IsValued

(* Where the blocks of the next metablock are. *)
LEMMA SpansJoin ==
  ASSUME RowSteps, Value!Evaluated < Len(chain.meta)
  PROVE  /\ \A i \in Value!Confirmed : Counts(i, Span(Value!Evaluated)) => Counts(i, Span(-1))
         /\ FollowedNext =>
              \A i \in Value!Confirmed : Counts(i, Span(-1)) =>
                \/ Counts(i, Span(Value!Evaluated))
                \/ Counts(i, <<chain.meta[Value!Evaluated + 1][2] + 1, Final>>)
         /\ \A i \in Value!Confirmed :
              Counts(i, <<chain.meta[Value!Evaluated + 1][2] + 1, Final>>) =>
                Counts(i, <<chain.meta[Value!Evaluated + 1][3] + 1, Final>>)
<1>1. PICK e : e = Value!Evaluated
  OBVIOUS
<1>2. /\ chain \in Chains /\ stored \subseteq Ids /\ e \in Nat /\ Len(chain.meta) \in Nat
      /\ e + 1 \in 1..Len(chain.meta) /\ (e # 0 => e \in 1..Len(chain.meta)) /\ e # -1
  BY <1>1, MetaTyped DEF RowSteps, LogInv, LogInOrder
<1> DEFINE a == chain.meta[e + 1][1]
           b == chain.meta[e + 1][2]
           c == chain.meta[e + 1][3]
           start == Span(-1)[1]
<1>3. a \in Int /\ b \in Int /\ c \in Int /\ c <= b
  BY <1>2, MetaTyped
<1>4. start \in Int /\ start <= a /\ (FollowedNext => start = a)
  <2>1. CASE e = 0
    BY <1>1, <1>2, <1>3, <2>1 DEF Span
  <2>2. CASE e # 0
    <3>1. /\ chain.meta[e][2] \in Int /\ chain.meta[e][3] \in Int
          /\ chain.meta[e][3] <= chain.meta[e][2]
      BY <1>2, <2>2, MetaTyped
    <3>2. a = chain.meta[e][2] + 1
      <4>1. e + 1 > 1 /\ (e + 1) - 1 = e
        BY <1>2, <2>2
      <4> QED  BY <1>2, <4>1, MetaTyped
    <3>3. start = chain.meta[e][3] + 1
      BY <1>1, <2>2 DEF Span
    <3>4. FollowedNext => chain.meta[e][3] = chain.meta[e][2]
      BY <1>1, <1>2, <2>2 DEF FollowedNext, Value!PendingFollow
    <3> HIDE DEF a, start
    <3> QED  BY <3>1, <3>2, <3>3, <3>4
  <2> QED  BY <2>1, <2>2
<1>5. \A i \in Value!Confirmed :
        chain.log[i].block \in Nat /\ Final \in Nat /\ chain.log[i].block <= Final
  BY <1>2, BlocksBelow, ConfirmedIs
<1>6. /\ Span(Value!Evaluated)[1] = a /\ Span(Value!Evaluated)[2] = b
      /\ Span(-1)[1] = start /\ Span(-1)[2] = Final
  BY <1>1, <1>2 DEF Span
<1> HIDE DEF a, b, c, start
<1>7. \A i : /\ Counts(i, Span(Value!Evaluated)) <=>
                  chain.log[i].block \in a..b /\ chain.log[i].host # "unknown"
             /\ Counts(i, Span(-1)) <=>
                  chain.log[i].block \in start..Final /\ chain.log[i].host # "unknown"
             /\ Counts(i, <<b + 1, Final>>) <=>
                  chain.log[i].block \in (b + 1)..Final /\ chain.log[i].host # "unknown"
             /\ Counts(i, <<c + 1, Final>>) <=>
                  chain.log[i].block \in (c + 1)..Final /\ chain.log[i].host # "unknown"
  BY <1>6 DEF Counts
<1>8. ASSUME NEW k \in Nat, NEW last \in Nat, k <= last
      PROVE  /\ k \in a..b => k \in start..last
             /\ FollowedNext /\ k \in start..last => k \in a..b \/ k \in (b + 1)..last
             /\ k \in (b + 1)..last => k \in (c + 1)..last
  BY <1>3, <1>4, <1>8
<1>9. \A i \in Value!Confirmed :
        /\ Counts(i, Span(Value!Evaluated)) => Counts(i, Span(-1))
        /\ FollowedNext /\ Counts(i, Span(-1)) =>
             Counts(i, Span(Value!Evaluated)) \/ Counts(i, <<b + 1, Final>>)
        /\ Counts(i, <<b + 1, Final>>) => Counts(i, <<c + 1, Final>>)
  BY <1>5, <1>7, <1>8
<1> QED  BY <1>1, <1>9 DEF b, c

(* The same of what is counted. *)
LEMMA NamesJoin ==
  ASSUME RowSteps, Value!Evaluated < Len(chain.meta)
  PROVE  \A x, m :
           /\ IsValued(x, Value!CountBlockPEV(Span(Value!Evaluated), m)) => IsValued(x, PendingCount)
           /\ FollowedNext /\ IsValued(x, PendingCount) =>
                \/ IsValued(x, Value!CountBlockPEV(Span(Value!Evaluated), m))
                \/ IsValued(x, LaterCount)
           /\ IsValued(x, LaterCount) =>
                IsValued(x, Value!CountBlockPEV(<<chain.meta[Value!Evaluated + 1][3] + 1, Final>>, -1))
<1> TAKE x, m
<1> DEFINE now == Span(Value!Evaluated)
           all == Span(-1)
           rest == <<chain.meta[Value!Evaluated + 1][2] + 1, Final>>
           next == <<chain.meta[Value!Evaluated + 1][3] + 1, Final>>
<1>1. /\ \A i \in Value!Confirmed : Counts(i, now) => Counts(i, all)
      /\ FollowedNext =>
           \A i \in Value!Confirmed : Counts(i, all) => Counts(i, now) \/ Counts(i, rest)
      /\ \A i \in Value!Confirmed : Counts(i, rest) => Counts(i, next)
  BY SpansJoin
<1>2. PendingCount = Value!CountBlockPEV(all, -1) /\ LaterCount = Value!CountBlockPEV(rest, -1)
  BY DEF PendingCount, LaterCount
<1> HIDE DEF now, all, rest, next
<1>3. IsValued(x, Value!CountBlockPEV(now, m)) => IsValued(x, Value!CountBlockPEV(all, -1))
  BY <1>1, NamesIs
<1>4. FollowedNext /\ IsValued(x, Value!CountBlockPEV(all, -1)) =>
        IsValued(x, Value!CountBlockPEV(now, m)) \/ IsValued(x, Value!CountBlockPEV(rest, -1))
  BY <1>1, NamesSplit
<1>5. IsValued(x, Value!CountBlockPEV(rest, -1)) => IsValued(x, Value!CountBlockPEV(next, -1))
  BY <1>1, NamesIs
<1> QED  BY <1>2, <1>3, <1>4, <1>5 DEF now, next

(* A turn begins or is broken off: nothing is listed. *)
LEMMA BeginTotals ==
  ASSUME RowSteps, TotalsInv, SameMeta, Value!BeginPEV \/ Value!BeginPending \/ Value!PevCrash
  PROVE  TotalsInv'
<1> SUFFICES ASSUME Value!Steady', Len(chain.meta) > 0
             PROVE  /\ Value!RowsOf(-1)' \subseteq PendingCount'
                    /\ Followed' => \A x \in DOMAIN totals' : Due(x)' => WillBeSet(x)'
  BY DEF TotalsInv, SameMeta
<1>1. /\ Value!Steady /\ Value!Evaluated' = Value!Evaluated /\ Followed' = Followed
      /\ PendingCount \subseteq PendingCount'
      /\ \A x : IsValued(x, PendingCount) => IsValued(x, PendingCount)'
  BY CountedStays
<1>2. Value!RowsOf(-1) \subseteq PendingCount /\ (Followed => \A x \in DOMAIN totals : Due(x) => WillBeSet(x))
  BY <1>1 DEF TotalsInv
<1>3. totals' = totals /\ (rows' = rows \/ Value!DropPending)
  BY DEF Value!BeginPEV, Value!BeginPending, Value!PevCrash
<1>4. Value!RowsOf(-1)' \subseteq PendingCount'
  BY <1>1, <1>2, <1>3, FewerRows
<1>5. pev'.pc \notin Stages /\ (pev'.pc = "next" => Value!Evaluated = 0)
  <2>1. \A pc : Value!Restart(pc).pc = pc
    BY RestartIs
  <2>2. \A pc, range : [Value!Restart(pc) EXCEPT !.range = range].pc = pc
    BY RangeStep
  <2>3. /\ Value!BeginPEV => pev'.pc \in {"count", "pending"}
        /\ Value!BeginPending =>
             pev'.pc \in {"count", "skipped"} \/ (pev'.pc = "next" /\ Value!Evaluated = 0)
        /\ Value!PevCrash => pev'.pc = "pending"
    <3>1. ASSUME Value!BeginPEV PROVE pev'.pc \in {"count", "pending"}
      <4>1. PICK meta, range :
              \/ pev' = [Value!Restart("count") EXCEPT !.meta = meta, !.range = range]
              \/ pev' = Value!Restart("pending")
        BY <3>1 DEF Value!BeginPEV
      <4>2. [Value!Restart("count") EXCEPT !.meta = meta, !.range = range]
              = [pc |-> "count", meta |-> meta, range |-> range, list |-> {}]
        BY CountStep
      <4>3. CASE pev' = [pc |-> "count", meta |-> meta, range |-> range, list |-> {}]
        BY <4>3
      <4> QED  BY <2>1, <4>1, <4>2, <4>3
    <3>2. ASSUME Value!BeginPending
          PROVE  pev'.pc \in {"count", "skipped"} \/ (pev'.pc = "next" /\ Value!Evaluated = 0)
      <4>1. CASE pev' = Value!Restart(IF Value!Evaluated = 0 THEN "next" ELSE "skipped")
        BY <2>1, <4>1
      <4>2. CASE \E range : pev' = [Value!Restart("count") EXCEPT !.range = range]
        BY <2>2, <4>2
      <4> QED  BY <3>2, <4>1, <4>2 DEF Value!BeginPending
    <3>3. ASSUME Value!PevCrash PROVE pev'.pc = "pending"
      BY <2>1, <3>3 DEF Value!PevCrash
    <3> QED  BY <3>1, <3>2, <3>3
  <2> QED  BY <2>3 DEF Stages
<1>6. ASSUME Followed', NEW x \in DOMAIN totals', Due(x)' PROVE WillBeSet(x)'
  <2>1. Value!SumOf(x)' = Value!SumOf(x) \/ IsValued(x, Value!RowsOf(-1))
    <3>1. rows' \subseteq rows \cup Value!RowsOf(-1) /\ rows \subseteq rows' \cup Value!RowsOf(-1)
      BY <1>3 DEF Value!DropPending, Value!Unborn, Value!RowsOf
    <3> QED  BY <3>1, SumKept
  <2>2. Due(x) \/ IsValued(x, Value!RowsOf(-1))
    BY <1>3, <1>6, <2>1 DEF Due
  <2>3. IsValued(x, PendingCount)
    BY <1>1, <1>2, <1>3, <1>6, <2>2 DEF WillBeSet, IsValued
  <2>4. IsValued(x, PendingCount)'
    BY <1>1, <2>3
  <2> QED  BY <1>1, <1>5, <2>4 DEF WillBeSet, Started
<1> QED  BY <1>4, <1>6

(* What has been counted is about to be set; or it is among the pending blocks of later. *)
LEMMA CountTotals ==
  ASSUME RowSteps, TotalsInv, SameMeta, Value!CountBlocks
  PROVE  TotalsInv'
<1> SUFFICES ASSUME Value!Steady', Len(chain.meta) > 0
             PROVE  /\ Value!RowsOf(-1)' \subseteq PendingCount'
                    /\ Followed' => \A x \in DOMAIN totals' : Due(x)' => WillBeSet(x)'
  BY DEF TotalsInv, SameMeta
<1> DEFINE list == pev'.list
<1>1. /\ Value!Steady /\ Followed' = Followed /\ FollowedNext' = FollowedNext
      /\ PendingCount \subseteq PendingCount'
      /\ \A x : IsValued(x, PendingCount) => IsValued(x, PendingCount)'
      /\ \A x : IsValued(x, LaterCount) => IsValued(x, LaterCount)'
  BY CountedStays
<1>2. Followed => \A x \in DOMAIN totals : Due(x) => IsValued(x, PendingCount)
  BY <1>1 DEF TotalsInv, WillBeSet
<1>3. /\ RowSteps' /\ pev'.meta = pev.meta /\ pev'.pc = "info" /\ totals' = totals
      /\ rows \subseteq rows' /\ rows' \subseteq rows \cup list
      /\ list = Value!CountBlockPEV(Span(pev.meta), pev.meta)
  BY CountRows DEF Value!CountBlocks, Value!AddRows
<1>4. Value!RowsOf(-1)' = IF pev.meta = -1 THEN list ELSE {}
  BY <1>3 DEF RowSteps, StageInv, Stages
<1>5. pev.meta = -1 => list = PendingCount
  BY <1>3 DEF PendingCount
<1>6. pev.meta # -1 => Value!Evaluated < Len(chain.meta) /\ pev.meta = Value!Evaluated
  BY DEF RowSteps, StageInv
<1>7. Value!RowsOf(-1)' \subseteq PendingCount'
  BY <1>1, <1>4, <1>5
<1>8. ASSUME Followed', NEW x \in DOMAIN totals', Due(x)' PROVE WillBeSet(x)'
  <2>1. Value!SumOf(x)' = Value!SumOf(x) \/ IsValued(x, list)
    BY <1>3, SumKept
  <2>2. IsValued(x, PendingCount) \/ IsValued(x, list)
    BY <1>1, <1>2, <1>3, <1>8, <2>1 DEF Due
  <2>3. pev.meta # -1 =>
          /\ IsValued(x, list) => IsValued(x, PendingCount)
          /\ FollowedNext /\ IsValued(x, PendingCount) => IsValued(x, list) \/ IsValued(x, LaterCount)
    BY <1>3, <1>6, NamesJoin
  <2>4. IsValued(x, PendingCount)' /\ (pev.meta = -1 => IsValued(x, list))
    BY <1>1, <1>5, <2>2, <2>3
  <2>5. pev.meta # -1 /\ FollowedNext => IsValued(x, list) \/ IsValued(x, LaterCount)'
    BY <1>1, <2>2, <2>3
  <2>6. IsValued(x, pev.list)' <=> IsValued(x, list)
    BY DEF IsValued
  <2> QED  BY <1>1, <1>3, <2>4, <2>5, <2>6 DEF WillBeSet, Started
<1> QED  BY <1>7, <1>8

(* Nothing of the totals or the rows changes. *)
LEMMA QuietTotals ==
  ASSUME RowSteps, TotalsInv, SameMeta, rows' = rows, totals' = totals,
         pev'.meta = pev.meta, pev'.list = pev.list,
         pev'.pc = pev.pc \/ (pev.pc \in Stages /\ pev'.pc \in Stages \ {"save"} /\ pev.pc # "save")
  PROVE  TotalsInv'
<1> SUFFICES ASSUME Value!Steady', Len(chain.meta) > 0
             PROVE  /\ Value!RowsOf(-1)' \subseteq PendingCount'
                    /\ Followed' => \A x \in DOMAIN totals' : Due(x)' => WillBeSet(x)'
  BY DEF TotalsInv, SameMeta
<1>1. /\ Value!Steady /\ Followed' = Followed /\ FollowedNext' = FollowedNext
      /\ Value!Evaluated' = Value!Evaluated
      /\ PendingCount \subseteq PendingCount'
      /\ \A x : IsValued(x, PendingCount) => IsValued(x, PendingCount)'
      /\ \A x : IsValued(x, LaterCount) => IsValued(x, LaterCount)'
  BY CountedStays
<1>2. Value!RowsOf(-1)' \subseteq PendingCount'
  BY <1>1 DEF TotalsInv, Value!RowsOf
<1>3. ASSUME Followed', NEW x \in DOMAIN totals', Due(x)' PROVE WillBeSet(x)'
  <2>1. Value!SumOf(x)' = Value!SumOf(x)
    BY DEF Value!SumOf, Value!Cardinality
  <2>2. WillBeSet(x)
    BY <1>1, <1>3, <2>1 DEF Due, TotalsInv
  <2>3. IsValued(x, pev.list)' <=> IsValued(x, pev.list)
    BY DEF IsValued
  <2>4. /\ pev'.pc = "next" => pev.pc = "next"
        /\ pev'.pc \in Stages => pev.pc \in Stages
        /\ pev'.pc \in Stages => (pev'.pc = "save" <=> pev.pc = "save")
    BY DEF Stages
  <2> QED  BY <1>1, <2>2, <2>3, <2>4 DEF WillBeSet, Started
<1> QED  BY <1>2, <1>3

(* A total is set when the rows of its host or address are in the list. *)
LEMMA SetTotals ==
  ASSUME RowSteps, TotalsInv, SameMeta, Value!UpdateTotals
  PROVE  TotalsInv'
<1> SUFFICES ASSUME Value!Steady', Len(chain.meta) > 0
             PROVE  /\ Value!RowsOf(-1)' \subseteq PendingCount'
                    /\ Followed' => \A x \in DOMAIN totals' : Due(x)' => WillBeSet(x)'
  BY DEF TotalsInv, SameMeta
<1>1. /\ Value!Steady /\ Followed' = Followed /\ FollowedNext' = FollowedNext
      /\ PendingCount \subseteq PendingCount'
      /\ \A x : IsValued(x, PendingCount) => IsValued(x, PendingCount)'
      /\ \A x : IsValued(x, LaterCount) => IsValued(x, LaterCount)'
  BY CountedStays
<1>2. pev.pc = "totals" /\ rows' = rows
  BY DEF Value!UpdateTotals, Value!At
<1>3. Value!RowsOf(-1)' \subseteq PendingCount'
  BY <1>1, <1>2 DEF TotalsInv, Value!RowsOf
<1>4. pev.list \subseteq rows
  <2>1. CASE pev.meta = -1
    BY <1>2, <2>1 DEF RowSteps, StageInv, Stages, Value!RowsOf
  <2>2. CASE pev.meta # -1
    <3>1. Started /\ Reliable
      BY <1>1, <1>2, <2>2 DEF Started, Stages, Reliable
    <3> QED  BY <3>1, StartedRows DEF Value!RowsOf
  <2> QED  BY <2>1, <2>2
<1> DEFINE named == {r.host : r \in pev.list} \cup {r.address : r \in pev.list}
           new == [n \in {n \in named : Value!SumOf(n) > 0} |-> Value!SumOf(n)]
<1>5. totals' = Value!Upsert(new, totals)
  BY DEF Value!UpdateTotals
<1>6. ASSUME NEW x, IsValued(x, pev.list) PROVE x \in DOMAIN new /\ new[x] = Value!SumOf(x)
  <2>1. x \in named
    BY <1>6 DEF IsValued
  <2>2. Value!SumOf(x) > 0
    <3> DEFINE own == {r \in rows : x \in {r.host, r.address}}
    <3>1. own # {} /\ own \subseteq rows
      BY <1>4, <1>6 DEF IsValued
    <3>2. IsFiniteSet(own)
      BY <3>1, FS_Subset DEF RowSteps, RowsInv
    <3>3. Value!SumOf(x) = Cardinality(own)
      BY ValueNames DEF Value!SumOf
    <3> HIDE DEF own
    <3> QED  BY <3>1, <3>2, <3>3, FS_EmptySet, FS_CardinalityType
  <2> QED  BY <2>1, <2>2
<1>7. \A x \in DOMAIN new : new[x] = Value!SumOf(x)
  OBVIOUS
<1> HIDE DEF new
<1>8. /\ DOMAIN totals' = DOMAIN new \cup DOMAIN totals
      /\ \A x \in DOMAIN new : totals'[x] = new[x]
      /\ \A x \in DOMAIN totals \ DOMAIN new : totals'[x] = totals[x]
  <2>1. /\ DOMAIN Value!Upsert(new, totals) = DOMAIN new \cup DOMAIN totals
        /\ \A k \in DOMAIN new : Value!Upsert(new, totals)[k] = new[k]
        /\ \A k \in DOMAIN totals \ DOMAIN new : Value!Upsert(new, totals)[k] = totals[k]
    BY ONLY UpsertIs
  <2> QED  BY <1>5, <2>1
<1>9. ASSUME Followed', NEW x \in DOMAIN totals', Due(x)' PROVE WillBeSet(x)'
  <2>1. totals'[x] # Value!SumOf(x)
    BY <1>2, <1>9 DEF Due, Value!SumOf, Value!Cardinality
  <2>2. x \in DOMAIN totals /\ Due(x) /\ ~IsValued(x, pev.list)
    BY <1>6, <1>7, <1>8, <2>1 DEF Due
  <2>3. WillBeSet(x)
    BY <1>1, <1>9, <2>2 DEF TotalsInv
  <2>4. pev.meta # -1 /\ Started /\ (FollowedNext => IsValued(x, LaterCount))
    BY <1>2, <2>2, <2>3 DEF WillBeSet, Started, Stages
  <2>5. pev'.pc = "save" /\ pev'.meta = pev.meta
    <3>1. pev' = [pev EXCEPT !.pc = "save"]
      BY <2>4 DEF Value!UpdateTotals, Value!Unborn
    <3> QED  BY <3>1, PevStep DEF RowSteps
  <2> QED  BY <1>1, <2>3, <2>4, <2>5 DEF WillBeSet, Started, Stages
<1> QED  BY <1>3, <1>9

(* The metablock is saved: what follows it is pending. *)
LEMMA SaveTotals ==
  ASSUME RowSteps, TotalsInv, LogInv', pev.pc = "save", pev'.pc = "pending",
         Value!Evaluated' = Value!Evaluated + 1, Value!Evaluated < Len(chain.meta),
         UNCHANGED <<chain, stored, hop, rows, totals>>
  PROVE  TotalsInv'
<1> SUFFICES ASSUME Value!Steady', Len(chain.meta) > 0
             PROVE  /\ Value!RowsOf(-1)' \subseteq PendingCount'
                    /\ Followed' => \A x \in DOMAIN totals' : Due(x)' => WillBeSet(x)'
  BY DEF TotalsInv
<1>1. PICK e : e = Value!Evaluated
  OBVIOUS
<1>2. e \in Nat /\ Value!Evaluated' = e + 1 /\ Len(chain.meta) \in Nat
  BY <1>1, MetaTyped DEF RowSteps, LogInv
<1>3. Value!Steady
  <2>1. Value!Pins' = Value!Pins
    BY DEF Value!Pins, Value!Pin, Value!Ids
  <2> QED  BY <2>1 DEF Value!Steady
<1>4. Value!RowsOf(-1)' = {} /\ pev.meta # -1 /\ Started
  BY DEF RowSteps, StageInv, Stages, Value!RowsOf, Started
<1>5. Followed' = FollowedNext /\ (FollowedNext => Followed)
  <2>1. Followed' = Value!PendingFollow((e + 1) - 1)
    BY <1>2 DEF Followed, Value!PendingFollow
  <2>2. (e + 1) - 1 = e /\ \A m \in 1..(e - 1) : m \in 1..e
    BY <1>2
  <2> QED  BY <1>1, <2>1, <2>2 DEF FollowedNext, Followed, Value!PendingFollow
<1>6. ASSUME NEW x, IsValued(x, LaterCount) PROVE IsValued(x, PendingCount)'
  <2>1. PICK q : q = <<chain.meta[e + 1][3] + 1, Final>>
    OBVIOUS
  <2>2. IsValued(x, Value!CountBlockPEV(q, -1))
    BY <1>1, <1>6, <2>1, NamesJoin
  <2>3. Span(-1)' = q
    BY <1>2, <2>1 DEF Span, Final, Blocks, Ids
  <2>4. PendingCount' = Value!CountBlockPEV(q, -1)'
    BY <2>3 DEF PendingCount, Value!CountBlockPEV
  <2>5. Value!CountBlockPEV(q, -1) \subseteq Value!CountBlockPEV(q, -1)'
    <3>1. chain \in Chains /\ LogInOrder /\ stored' \subseteq Ids
      BY DEF RowSteps, LogInv, LogInOrder
    <3> QED  BY <1>3, <3>1, CountGrows
  <2> QED  BY <2>2, <2>4, <2>5 DEF IsValued
<1>7. ASSUME Followed', NEW x \in DOMAIN totals', Due(x)' PROVE WillBeSet(x)'
  <2>1. Due(x)
    BY <1>7 DEF Due, Value!SumOf, Value!Cardinality
  <2>2. WillBeSet(x)
    BY <1>3, <1>5, <1>7, <2>1 DEF TotalsInv
  <2>3. IsValued(x, PendingCount)'
    BY <1>4, <1>5, <1>6, <1>7, <2>2 DEF WillBeSet
  <2> QED  BY <2>3 DEF WillBeSet, Started, Stages
<1> QED  BY <1>4, <1>7

LEMMA NextTotals == RowSteps /\ TotalsInv /\ [Next]_vars => TotalsInv'
<1> SUFFICES ASSUME RowSteps, TotalsInv, [Next]_vars PROVE TotalsInv'
  OBVIOUS
<1>1. CASE SameMeta /\ UNCHANGED pevvars
  BY <1>1, QuietTotals DEF pevvars
<1>2. CASE SameMeta /\ ValueStep
  <2>1. ASSUME Value!SaveInfo \/ Value!UpdateBlockHosts \/ Value!UpdateBlockAddresses
        PROVE  TotalsInv'
    <3>1. /\ rows' = rows /\ totals' = totals /\ pev'.meta = pev.meta /\ pev'.list = pev.list
      BY <1>2, <2>1, SaveSteps
         DEF Value!SaveInfo, Value!UpdateBlockHosts, Value!UpdateBlockAddresses
    <3>2. pev.pc \in Stages \ {"save"} /\ pev'.pc \in Stages \ {"save"}
      <4>1. \A pc : [pev EXCEPT !.pc = pc].pc = pc
        BY PevStep DEF RowSteps
      <4> QED  BY <2>1, <4>1 DEF Value!SaveInfo, Value!UpdateBlockHosts, Value!UpdateBlockAddresses,
                  Value!At, Stages
    <3> QED  BY <1>2, <3>1, <3>2, QuietTotals
  <2> QED  BY <1>2, <2>1, BeginTotals, CountTotals, SetTotals DEF ValueStep
<1>3. CASE /\ Value!SaveMetablock /\ LogInv' /\ Value!Evaluated' = Value!Evaluated + 1
           /\ Value!Evaluated < Len(chain.meta)
           /\ UNCHANGED <<chain, stored, hop, crashes, rows, blockHost, blockAddr, blockInfo, totals>>
  <2>1. pev.pc = "save" /\ pev'.pc = "pending"
    BY <1>3, RestartIs DEF Value!SaveMetablock, Value!At
  <2> QED  BY <1>3, <2>1, SaveTotals
<1> QED  BY <1>1, <1>2, <1>3, MetaSteps

(* A document counts in one metablock; the pending ones are counted from after the last. *)
LEMMA CountedOnce ==
  ASSUME RowSteps, Value!Evaluated > 0, FollowedNext, \A r \in rows : r.meta # Value!Evaluated,
         NEW r \in rows, NEW s \in rows, r.from = s.from, r.to = s.to
  PROVE  r = s
<1>1. PICK e : e = Value!Evaluated
  OBVIOUS
<1>2. /\ chain \in Chains /\ e \in Nat /\ e > 0 /\ e <= Len(chain.meta) /\ Len(chain.meta) \in Nat
  BY <1>1, MetaTyped DEF RowSteps, LogInv
<1>3. PICK i \in Ids : /\ Pin(i) = r.from /\ chain.log[i].block > 0
                       /\ chain.log[i].block \in Span(r.meta)[1]..Span(r.meta)[2]
  BY DEF RowSteps, RowsInv
<1>4. PICK j \in Ids : /\ Pin(j) = s.from /\ chain.log[j].block > 0
                       /\ chain.log[j].block \in Span(s.meta)[1]..Span(s.meta)[2]
  BY DEF RowSteps, RowsInv
<1>5. i = j /\ chain.log[i].block \in Nat
  BY <1>2, <1>3, <1>4, ConfirmedOne, IdsTyped
<1> DEFINE b == chain.log[i].block
<1>6. \A n \in 0..(e - 1) :
        /\ n + 1 \in 1..Len(chain.meta) /\ n # -1
        /\ Span(n)[1] = chain.meta[n + 1][1] /\ Span(n)[2] = chain.meta[n + 1][2]
        /\ chain.meta[n + 1][1] \in Int /\ chain.meta[n + 1][2] \in Int
  <2> TAKE n \in 0..(e - 1)
  <2>1. n + 1 \in 1..Len(chain.meta) /\ n # -1
    BY <1>2
  <2> QED  BY <1>2, <2>1, MetaTyped DEF Span
<1>7. Span(-1)[1] = chain.meta[e][2] + 1 /\ chain.meta[e][2] \in Int
  <2>1. chain.meta[e][3] = chain.meta[e][2] /\ e \in 1..Len(chain.meta)
    BY <1>1, <1>2 DEF FollowedNext, Value!PendingFollow
  <2> QED  BY <1>1, <1>2, <2>1, MetaTyped DEF Span
<1>8. \A n \in 0..(e - 1) : chain.meta[n + 1][2] <= chain.meta[e][2]
  <2> TAKE n \in 0..(e - 1)
  <2>1. CASE n + 1 = e
    BY <1>7, <2>1
  <2>2. CASE n + 1 < e
    <3>1. n + 1 \in 1..Len(chain.meta) /\ e \in 1..Len(chain.meta)
      BY <1>2
    <3>2. chain.meta[n + 1][2] < chain.meta[e][1] /\ chain.meta[e][1] <= chain.meta[e][2] + 1
      BY <1>2, <2>2, <3>1, MetaOrder, MetaTyped
    <3>3. chain.meta[n + 1][2] \in Int /\ chain.meta[e][1] \in Int
      BY <1>2, <3>1, MetaTyped
    <3>4. \A x, y, z \in Int : x < y /\ y <= z + 1 => x <= z
      OBVIOUS
    <3> QED  BY <1>7, <3>2, <3>3, <3>4
  <2> QED  BY <1>2, <2>1, <2>2
<1>9. ASSUME NEW m, NEW n, m \in -1..(e - 1), n \in 0..(e - 1), m # n, b \in Nat,
             b \in Span(m)[1]..Span(m)[2], b \in Span(n)[1]..Span(n)[2]
      PROVE  FALSE
  <2>1. Span(n)[1] \in Int /\ Span(n)[2] = chain.meta[n + 1][2] /\ chain.meta[n + 1][2] \in Int
    BY <1>6, <1>9
  <2> HIDE DEF b
  <2>2. b <= chain.meta[n + 1][2] /\ Span(n)[1] <= b
    BY <1>9, <2>1
  <2>3. CASE m = -1
    <3>1. chain.meta[e][2] + 1 <= b
      <4>1. b \in (chain.meta[e][2] + 1)..Span(-1)[2]
        BY <1>7, <1>9, <2>3
      <4> QED  BY <1>7, <4>1
    <3> QED  BY <1>7, <1>8, <1>9, <2>1, <2>2, <3>1
  <2>4. CASE m # -1
    <3>1. m \in 0..(e - 1)
      BY <1>2, <1>9, <2>4
    <3>2. /\ Span(m)[1] = chain.meta[m + 1][1] /\ Span(n)[1] = chain.meta[n + 1][1]
          /\ chain.meta[m + 1][1] \in Int /\ chain.meta[m + 1][2] \in Int
          /\ Span(m)[2] = chain.meta[m + 1][2]
          /\ m + 1 \in 1..Len(chain.meta) /\ n + 1 \in 1..Len(chain.meta)
      BY <1>6, <1>9, <3>1
    <3>3. b <= chain.meta[m + 1][2] /\ Span(m)[1] <= b
      <4>1. b \in chain.meta[m + 1][1]..chain.meta[m + 1][2]
        BY <1>9, <3>2
      <4> QED  BY <1>9, <3>2, <4>1
    <3>4. CASE m + 1 < n + 1
      <4>1. chain.meta[m + 1][2] < chain.meta[n + 1][1]
        BY <1>2, <3>2, <3>4, MetaOrder
      <4> QED  BY <1>9, <2>1, <2>2, <3>2, <3>3, <4>1
    <3>5. CASE n + 1 < m + 1
      <4>1. chain.meta[n + 1][2] < chain.meta[m + 1][1]
        BY <1>2, <3>2, <3>5, MetaOrder
      <4> QED  BY <1>9, <2>1, <2>2, <3>2, <3>3, <4>1
    <3> QED  BY <1>2, <1>9, <3>1, <3>4, <3>5
  <2> QED  BY <2>3, <2>4
<1>10. r.meta \in -1..(e - 1) /\ s.meta \in -1..(e - 1)
  <2>1. r.meta \in -1..e /\ s.meta \in -1..e /\ r.meta # e /\ s.meta # e
    BY <1>1 DEF RowSteps, RowsInv
  <2> QED  BY <1>2, <2>1
<1>11. r.meta = s.meta
  <2> SUFFICES ASSUME r.meta # s.meta PROVE FALSE
    OBVIOUS
  <2>1. b \in Nat /\ b \in Span(r.meta)[1]..Span(r.meta)[2] /\ b \in Span(s.meta)[1]..Span(s.meta)[2]
    BY <1>3, <1>4, <1>5
  <2> HIDE DEF b
  <2>2. CASE s.meta \in 0..(e - 1)
    BY <1>9, <1>10, <2>1, <2>2
  <2>3. CASE r.meta \in 0..(e - 1)
    BY <1>9, <1>10, <2>1, <2>3
  <2> QED  BY <1>2, <1>10, <2>2, <2>3
<1> QED  BY <1>11 DEF RowSteps, RowsInv, Value!SameRow

(***************************************************************************)
(* After the pending blocks are counted, as long as no pin moves and no    *)
(* insert overtakes: the total of every host and address is the sum of its *)
(* rows, unless the pending blocks follow an earlier block than the last   *)
(* one of a metablock but the newest; and no pin counts for a target in    *)
(* two metablocks, unless that is so of the newest or its successor was    *)
(* begun before a crash.  For any log, any metablocks, any number of       *)
(* crashes.                                                                *)
(***************************************************************************)
THEOREM TotalsHold == Spec => []TotalsRight
<1>1. RowSteps /\ TotalsInv => TotalsRight
  <2> SUFFICES ASSUME RowSteps, TotalsInv, pev.pc = "next", Value!Evaluated > 0, Value!Steady
               PROVE  /\ Followed => \A n \in DOMAIN totals : totals[n] = Value!SumOf(n)
                      /\ \/ \E r \in rows : r.meta = Value!Evaluated
                         \/ ~FollowedNext
                         \/ \A r, s \in rows : r.from = s.from /\ r.to = s.to => r = s
    BY DEF TotalsRight, Value!TotalsRight, Value!At, Followed, FollowedNext
  <2>1. Len(chain.meta) > 0
    BY MetaTyped DEF RowSteps, LogInv
  <2>2. Followed => \A n \in DOMAIN totals : totals[n] = Value!SumOf(n)
    BY <2>1 DEF TotalsInv, WillBeSet, Due
  <2> QED  BY <2>2, CountedOnce
<1>2. Init => TotalsInv
  <2> SUFFICES ASSUME Init PROVE TotalsInv
    OBVIOUS
  <2>1. rows = {} /\ totals = << >>
    BY DEF Init, Value!PevInit
  <2> QED  BY <2>1 DEF TotalsInv, Value!RowsOf
<1> QED  BY <1>1, <1>2, InitRows, NextRows, NextTotals, PTL DEF Spec
=============================================================================
