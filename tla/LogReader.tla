----------------------------- MODULE LogReader -----------------------------
(***************************************************************************)
(* What a reader of the pin log that saves its cursor first promises:      *)
(* every entry takes effect at most once.  A claimed entry may be lost,    *)
(* an effect may be wiped out, and what is lost does not come back.        *)
(***************************************************************************)
CONSTANT Entries

VARIABLE fate

Fates == {"unread", "claimed", "done", "lost"}

Init == fate = [e \in Entries |-> "unread"]

Change(s, from, to) ==
  /\ \A e \in s : fate[e] \in from
  /\ fate' = [e \in Entries |-> IF e \in s THEN to[e] ELSE fate[e]]

(* The cursor moves past entries: those of the batch are claimed, any other is missed. *)
Claim ==
  \E s \in SUBSET Entries : \E to \in [s -> {"claimed", "lost"}] : Change(s, {"unread"}, to)

(* The batch ends: its entries have taken effect or been dropped. *)
Settle ==
  \E s \in SUBSET Entries : \E to \in [s -> {"done", "lost"}] : Change(s, {"claimed"}, to)

(* A crash loses what is claimed; deleting what an entry had an effect on loses the effect. *)
Lose ==
  \E s \in SUBSET Entries : Change(s, {"claimed", "done"}, [e \in s |-> "lost"])

Next == Claim \/ Settle \/ Lose

Spec == Init /\ [][Next]_fate
=============================================================================
