------------------------------ MODULE Metaname ------------------------------
(***************************************************************************)
(* The metaname module: names are registered and modified by pins below    *)
(* /metaname, and follow their pin to its next owner                       *)
(* (basicprotocols/metaname/indexer.go).                                   *)
(*                                                                         *)
(* A document of the log has an op; the name and space it asks for; for a  *)
(* modification the pin modified (of); and whether it can be parsed (ok).  *)
(***************************************************************************)
EXTENDS PinLog

VARIABLES
  names,     \* the names: pin, name, space, address, and the pin that set rev last
  opHistory, \* their history, by pin
  task       \* Synchronization: its step, the documents read and what they ask for

namevars == <<names, opHistory, task>>

Ask(i) == chain.log[i]

Taken(name) == \E r \in names : r.name = name

Idle(pc) == [pc |-> pc, last |-> 0, docs |-> {}]

At(pc) == task.pc = pc

(* validator: whether a pin is refused; a name is taken in all spaces. *)
Refused(i) ==
  \/ ~Ask(i).ok
  \/ Ask(i).op = "create" /\ Taken(Ask(i).name)

(* A modification is about the name of its pin, or else about the name it gives. *)
Request(i) ==
  LET r == Ask(i)
      mine == {n \in names : n.pin = r.of}
      n == IF r.op = "modify" /\ mine # {} THEN CHOOSE n \in mine : TRUE ELSE r IN
  [pin |-> r.pin, op |-> r.op, name |-> n.name, space |-> n.space, address |-> Owner(r.pin)]

Found == Above("metaname")

(* sync: find, without limit, and the cursor, which is saved before the names. *)
ReadNames ==
  /\ At("read")
  /\ task' = IF Found = {} THEN Idle("transfers")
             ELSE [pc |-> "save", last |-> LastId(Found),
                   docs |-> {Request(i) : i \in {i \in Found : ~Refused(i)}}]
  /\ UNCHANGED <<logvars, names, opHistory>>

SaveNames ==
  /\ At("save")
  /\ SaveCursor("metaname", task.last)
  /\ task' = [task EXCEPT !.pc = "insert"]
  /\ UNCHANGED <<pinvars, crashes, names, opHistory>>

(* Unique pinid, and unique name and space. *)
Clash(r, s) == r.pin = s.pin \/ (r.name = s.name /\ r.space = s.space)

Record(d) == [pin |-> d.pin, name |-> d.name, space |-> d.space, address |-> d.address, rev |-> d.pin]

(* Unordered; the find was not sorted, so any of two that clash may come first. *)
InsertNames ==
  /\ At("insert")
  /\ LET new == {Record(d) : d \in {d \in task.docs : d.op = "create"}} IN
     \E s \in SUBSET new :
       /\ \A r \in s, t \in s \cup names : r # t => ~Clash(r, t)
       /\ \A r \in new \ s : \E t \in s \cup names : Clash(r, t)
       /\ names' = names \cup s
  /\ task' = [task EXCEPT !.pc = "update"]
  /\ UNCHANGED <<logvars, opHistory>>

(* updateMetaName: rev, relay and metadata of the name, whoever asks. *)
UpdateNames ==
  /\ At("update")
  /\ LET of(r) == {d \in task.docs : d.op = "modify" /\ d.name = r.name /\ d.space = r.space} IN
     \E rev \in [names -> {r.rev : r \in names} \cup {d.pin : d \in task.docs}] :
       /\ \A r \in names : IF of(r) = {} THEN rev[r] = r.rev ELSE \E d \in of(r) : rev[r] = d.pin
       /\ names' = {[r EXCEPT !.rev = rev[r]] : r \in names}
  /\ task' = [task EXCEPT !.pc = "history"]
  /\ UNCHANGED <<logvars, opHistory>>

InsertHistory ==
  /\ At("history")
  /\ opHistory' = opHistory \cup {d.pin : d \in task.docs}
  /\ task' = Idle("transfers")
  /\ UNCHANGED <<logvars, names>>

(* transferMap: the last transfer of a pin in the batch. *)
LastMove(p, from) ==
  LET after == {k \in (from + 1)..Len(history) : history[k].pin = p} IN history[Max(after)].to

Moved(p, from) == \E k \in (from + 1)..Len(history) : history[k].pin = p

(* syncTransfer and transferItemHandle; then the cursor. *)
MoveNames ==
  /\ At("transfers")
  /\ LET from == cursor["metanametransfer"] IN
     /\ names' = {IF Moved(r.pin, from) THEN [r EXCEPT !.address = LastMove(r.pin, from)] ELSE r
                    : r \in names}
     /\ task' = IF from = Len(history) THEN Idle("read")
                ELSE [Idle("saveTransfers") EXCEPT !.last = Len(history)]
  /\ UNCHANGED <<logvars, opHistory>>

(* Mutation of SaveTransfers: the end of the history at this moment. *)
SaveTransfersNow ==
  /\ At("saveTransfers")
  /\ SaveCursor("metanametransfer", Len(history))
  /\ task' = Idle("read")
  /\ UNCHANGED <<pinvars, crashes, names, opHistory>>

SaveTransfers ==
  /\ At("saveTransfers")
  /\ SaveCursor("metanametransfer", task.last)
  /\ task' = Idle("read")
  /\ UNCHANGED <<pinvars, crashes, names, opHistory>>

NameInit == names = {} /\ opHistory = {} /\ task = Idle("read")

NameCrash ==
  /\ LogCrash
  /\ task' = Idle("read")
  /\ UNCHANGED <<names, opHistory>>

NameSync ==
  \/ ReadNames \/ SaveNames \/ InsertNames \/ UpdateNames \/ InsertHistory
  \/ MoveNames \/ SaveTransfers

NameNext == NameSync \/ NameCrash

NameTypeOK ==
  /\ \A r \in names : r.pin \in Pins /\ r.rev \in Pins
  /\ opHistory \subseteq Pins
  /\ task.pc \in {"read", "save", "insert", "update", "history", "transfers", "saveTransfers"}

(***************************************************************************)
(* When the transfers are read, a registered name belongs to the owner of  *)
(* its pin, through crashes, as long as the pin has moved at most once and *)
(* the move is in the history (man.go:423-437, indexer.go:197-235).  Later *)
(* moves, and moves a crash keeps out of the history, do not reach it.     *)
(***************************************************************************)
NameOwner ==
  At("read") /\ cursor["metanametransfer"] = Len(history) =>
    \A r \in names :
      \/ Owner(r.pin) = r.address
      \/ hop[r.pin] > 1
      \/ hop[r.pin] = 1 /\ \A k \in DOMAIN history : history[k].pin # r.pin
=============================================================================
