---------------------------- MODULE MCPinStatus ----------------------------
(***************************************************************************)
(* Instances of PinStatus: three pins of two authors, at most one crash, *)
(* lost block or API call, and goroutines for the last two blocks.         *)
(***************************************************************************)
EXTENDS PinStatus

MCPins == {"p", "q", "r"}
MCAddresses == {"a", "b", "c"}

Create(kind, by, who) == [op |-> "create", of |-> NoPin, kind |-> kind, by |-> by, who |-> who]
Modify(p, by) == [op |-> "modify", of |-> p, kind |-> "other", by |-> by, who |-> by]
Revoke(p, by) == [Modify(p, by) EXCEPT !.op = "revoke"]

Story(p, q, r) == [p |-> p, q |-> q, r |-> r]

Other == Create("other", "a", "a")
Named == Create("name", "a", "a")
Follow == Create("follow", "a", "b")

(* A pin modified, revoked, by its author and by somebody else, and in turn. *)
StatusStories ==
  {Story(Other, q, r) : q \in {Modify("p", "a"), Revoke("p", "a")},
                        r \in {Modify("p", "a"), Revoke("p", "a"), Modify("p", "b")}}
  \cup {Story(Other, Modify("p", "a"), Modify("q", "a"))}

(* Names given twice, modified, revoked. *)
NameStories ==
  {Story(Named, Named, Create("name", "b", "b")),
   Story(Named, Modify("p", "a"), Other),
   Story(Named, Named, Revoke("p", "a"))}

(* Two follows, ended by the author or somebody else. *)
FollowStories ==
  {Story(Follow, Create("follow", f[1], f[2]), Revoke("p", by)) :
     f \in {<<"a", "b">>, <<"b", "a">>, <<"a", "c">>}, by \in {"a", "b"}}

(* The pins in the order p, q, r within a block, or the other way round. *)
Placed(hp, hq, hr, order) ==
  [h \in Heights |-> SelectSeq(order, LAMBDA x : [p |-> hp, q |-> hq, r |-> hr][x] = h)]

Orders == {<<"p", "q", "r">>, <<"r", "q", "p">>}

Still == [p |-> <<>>, q |-> <<>>, r |-> <<>>]
Leaves(h, to) == [Still EXCEPT !.p = <<[h |-> h, to |-> to]>>]

Calm == [steady |-> TRUE, fails |-> FALSE, crashes |-> FALSE, calls |-> FALSE]

ChainOf(story, blocks, route, when) ==
  [pin |-> story, blocks |-> blocks, route |-> route, steady |-> when.steady,
   fails |-> when.fails, crashes |-> when.crashes, calls |-> when.calls]

Unmoved ==
  {ChainOf(s, Placed(1, hq, hr, o), Still, Calm) :
     s \in StatusStories \cup NameStories \cup FollowStories,
     hq \in 1..2, hr \in 1..3, o \in Orders}

Transferred ==
  {ChainOf(Story(Other, q, r), Placed(1, 2, 3, <<"p", "q", "r">>), Leaves(h, "b"), when) :
     q \in {Modify("p", "a"), Modify("p", "b")},
     r \in {Revoke("p", "a"), Revoke("p", "b")}, h \in 1..3,
     when \in {Calm, [Calm EXCEPT !.calls = TRUE, !.steady = FALSE]}}

Disturbed ==
  {ChainOf(s, Placed(1, hq, 3, <<"p", "q", "r">>), Still, when) :
     s \in StatusStories \cup NameStories \cup FollowStories, hq \in 1..2,
     when \in {[Calm EXCEPT !.steady = FALSE], [Calm EXCEPT !.fails = TRUE],
               [Calm EXCEPT !.crashes = TRUE], [Calm EXCEPT !.calls = TRUE]}}

MCChains == Unmoved \cup Transferred \cup Disturbed
=============================================================================
