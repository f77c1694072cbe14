----------------------------- MODULE MetaAccess -----------------------------
(***************************************************************************)
(* Paid content: a control pin names the pins (or a path) it opens, a pass *)
(* pin names a control, and the interface asks whether an address has a    *)
(* pass (man/meta_access.go, database/mongodb/meta_access.go).             *)
(*                                                                         *)
(* A block's control and pass pins are handled after it is stored, by the  *)
(* loop, and again by goroutines when one of the next blocks makes a round *)
(* of the loop of its own (chain.alone); a control also when it is         *)
(* announced.  A document has what it opens, if it is a control; the       *)
(* control's pin, if it is a pass; and whether it can be parsed (ok).      *)
(***************************************************************************)
EXTENDS PinLog

CONSTANT Back  \* how many earlier blocks are run again

VARIABLES
  controls,  \* accesscontrol: pin, and whether it is marked as of the mempool
  passes,    \* accesspass: pin, control, what it opens, buyer
  heard,     \* the mempool controls handled
  turn       \* for a block and one run again with it: step, pins left, what was collected

accessvars == <<controls, passes, heard, turn>>

Of(b) == {i \in Ids : chain.log[i].block = b}

Turns == {r \in Blocks \X Blocks : r[2] <= r[1]}

(* Mutation of Again: no block is run again. *)
AgainNot(t) == {t}

(* IndexerRun: a block and, when its round has no other, the ones before it, each in a goroutine. *)
Again(t) == {b \in Blocks : b = t \/ (t \in chain.alone /\ b \in (t - Back)..t)}

Control(pin) == CHOOSE i \in Ids : Pin(i) = pin

(* AccessPass: one record for each pin the control opens, and one for its path. *)
Given(i) ==
  LET c == Control(chain.log[i].to) IN
  {[pin |-> Pin(i), control |-> Pin(c), opens |-> x, buyer |-> chain.by[Pin(i)]] :
     x \in chain.log[c].opens}

(* DoIndexerRun: blocks in order, and a block again after a later one with a round of its own. *)
StartTurn(t, b) ==
  /\ turn[<<t, b>>].pc = "idle" /\ b \in Again(t) /\ Of(t) \subseteq stored
  /\ IF b = t THEN \A c \in Blocks : c < t => turn[<<c, c>>].pc = "done"
     ELSE turn[<<t, t>>].pc = "done"
  /\ turn' = [turn EXCEPT ![<<t, b>>].pc = "check", ![<<t, b>>].left = Of(b)]
  /\ UNCHANGED <<logvars, controls, passes, heard>>

(* PinHandle looks a pass's control up among the stored ones, also of the mempool. *)
Check(t, b) ==
  LET r == turn[<<t, b>>]
      i == Min(r.left)
      found == \E c \in controls : c.pin = chain.log[i].to IN
  /\ r.pc = "check"
  /\ IF r.left = {} THEN turn' = [turn EXCEPT ![<<t, b>>].pc = "controls"]
     ELSE turn' = [turn EXCEPT ![<<t, b>>].left = @ \ {i},
                     ![<<t, b>>].new = IF chain.log[i].ok /\ chain.log[i].kind = "control"
                                       THEN @ \cup {Pin(i)} ELSE @,
                     ![<<t, b>>].give = IF chain.log[i].ok /\ chain.log[i].kind = "pass" /\ found
                                        THEN @ \cup Given(i) ELSE @]
  /\ UNCHANGED <<logvars, controls, passes, heard>>

Upsert(pin, mempool) ==
  {c \in controls : c.pin # pin} \cup {[pin |-> pin, mempool |-> mempool]}

(* BatchSaveAccesscontrol. *)
SaveControls(t, b) ==
  LET r == turn[<<t, b>>] IN
  /\ r.pc = "controls"
  /\ controls' = {c \in controls : c.pin \notin r.new} \cup {[pin |-> p, mempool |-> FALSE] : p \in r.new}
  /\ turn' = [turn EXCEPT ![<<t, b>>].pc = "passes"]
  /\ UNCHANGED <<logvars, passes, heard>>

(***************************************************************************)
(* BatchSaveAccessPass: an unordered insert; pinid is unique, so that of   *)
(* the records of one pass a single one is kept.                           *)
(***************************************************************************)
SavePasses(t, b) ==
  LET r == turn[<<t, b>>]
      new == {p.pin : p \in r.give} \ {p.pin : p \in passes} IN
  /\ r.pc = "passes"
  /\ \E kept \in SUBSET {p \in r.give : p.pin \in new} :
       /\ \A p \in new : Cardinality({k \in kept : k.pin = p}) = 1
       /\ passes' = passes \cup kept
  /\ turn' = [turn EXCEPT ![<<t, b>>].pc = "done"]
  /\ UNCHANGED <<logvars, controls, heard>>

(* handleMempoolPin: the control alone, marked, whatever is stored of it. *)
HearControl(i) ==
  /\ Pending(i) /\ i \in stored \ heard /\ chain.log[i].kind = "control"
  /\ heard' = heard \cup {i}
  /\ controls' = IF chain.log[i].ok THEN Upsert(Pin(i), TRUE) ELSE controls
  /\ UNCHANGED <<logvars, passes, turn>>

(* CheckAccessPass: a record with what is to be opened, whatever control it is of. *)
Purchased(buyer, x) == \E p \in passes : p.buyer = buyer /\ p.opens = x

(* CheckAccessPassInMempool. *)
InMempool(buyer, control) ==
  \E i \in stored \ gone :
    /\ Pending(i) /\ chain.log[i].kind = "pass" /\ chain.log[i].to = control
    /\ chain.by[Pin(i)] = buyer

(* accessContentDecrypt, for a control that asks for a payment. *)
Status(buyer, control, x) ==
  IF \A c \in controls : c.pin # control THEN "no control"
  ELSE IF Purchased(buyer, x) THEN "purchased"
  ELSE IF InMempool(buyer, control) THEN "mempool" ELSE "unpurchased"

AccessInit ==
  /\ controls = {} /\ passes = {} /\ heard = {}
  /\ turn = [r \in Turns |-> [pc |-> "idle", left |-> {}, new |-> {}, give |-> {}]]

(* What is stored but not handled is left to a later block. *)
AccessCrash ==
  /\ LogCrash
  /\ turn' = [r \in Turns |-> IF Of(r[1]) \subseteq stored THEN [turn[r] EXCEPT !.pc = "done"] ELSE turn[r]]
  /\ UNCHANGED <<controls, passes, heard>>

Turn(t, b) == StartTurn(t, b) \/ Check(t, b) \/ SaveControls(t, b) \/ SavePasses(t, b)

AccessTurn == \E r \in Turns : Turn(r[1], r[2])

AccessNext == AccessTurn \/ (\E i \in Ids : HearControl(i)) \/ AccessCrash

AccessTypeOK ==
  /\ \A c, d \in controls : c.pin = d.pin => c = d
  /\ \A p, q \in passes : p.pin = q.pin => p = q
  /\ heard \subseteq stored
  /\ \A r \in Turns : turn[r].pc \in {"idle", "check", "controls", "passes", "done"}

(***************************************************************************)
(* Whoever has a pass for a control can open what the control opens, once  *)
(* the pass's block is handled, if the control is of an earlier block.  A  *)
(* pass of the control's own block is refused at first, since controls are *)
(* saved after passes are checked (man/meta_access.go:15-42), and accepted *)
(* once one of the next Back blocks has made a round of its own: only then *)
(* is the block run again.  A control of several pins is excluded, for a   *)
(* pass for it opens only one of them; so is a crash.                      *)
(***************************************************************************)
PassesArrive ==
  LET due(i, c) ==
        LET d == chain.log[i]
            b == chain.log[c].block IN
        /\ chain.module = "access" /\ d.block > 0 /\ d.ok /\ d.kind = "pass" /\ Pin(c) = d.to
        /\ b > 0 /\ chain.log[c].ok /\ Cardinality(chain.log[c].opens) = 1
        /\ \/ b < d.block
           \/ b = d.block /\ \E t \in chain.alone : d.block \in (t - Back)..(t - 1) /\ Of(t) \subseteq stored IN
  [](crashes = 0) =>
    []<>(\A i \in stored, c \in Ids : due(i, c) =>
           \A x \in chain.log[c].opens :
             Status(chain.by[Pin(i)], Pin(c), x) = "purchased")
=============================================================================
