--------------------------- MODULE MCBlockIndexer ---------------------------
(***************************************************************************)
(* Instances of BlockIndexer: three pins in blocks 3 to 5, or some of them *)
(* before the initial height of 2, and goroutines for the last two blocks. *)
(***************************************************************************)
EXTENDS BlockIndexer

MCPins == {"p", "q", "r"}
MCPoints == {"p0", "q0", "r0", "x", "y", "z", "x'", "y'", "z'"}

PinAt(p, q, r) ==
  [p |-> [h |-> p[1], out |-> p[2]], q |-> [h |-> q[1], out |-> q[2]], r |-> [h |-> r[1], out |-> r[2]]]

Spend(h, to) == [h |-> h, to |-> to, as |-> to]
Version10(h, to) == [h |-> h, to |-> to, as |-> to \o "'"]

(* p moves in two blocks; q in the block it is created in. *)
PlainTrails ==
  [pin |-> PinAt(<<3, "p0">>, <<4, "q0">>, <<5, "r0">>),
   spent |-> [p0 |-> Spend(4, "x"), x |-> Spend(5, "y"), q0 |-> Spend(4, "z")]]

(* The same on mvc. *)
HashedTrails ==
  [PlainTrails EXCEPT !.spent =
     [p0 |-> Version10(4, "x"), x |-> Version10(5, "y"), q0 |-> Version10(4, "z")]]

(* p and q share an output; r is spent in the block it is created in. *)
SharedOutput ==
  [pin |-> PinAt(<<3, "p0">>, <<3, "p0">>, <<5, "q0">>),
   spent |-> [p0 |-> Spend(4, "x"), x |-> Spend(5, "y"), q0 |-> Spend(5, "z")]]

(* p and q move twice in one block. *)
TwoHops ==
  [pin |-> PinAt(<<3, "p0">>, <<3, "p0">>, <<5, "q0">>),
   spent |-> [p0 |-> Spend(5, "x"), x |-> Spend(5, "y"), q0 |-> Spend(5, "z")]]

(* p and q are from below the initial height; p moves there. *)
EarlyTrails ==
  [pin |-> PinAt(<<1, "p0">>, <<2, "q0">>, <<4, "r0">>),
   spent |-> [p0 |-> Spend(2, "x"), x |-> Spend(4, "y"), q0 |-> Spend(5, "x'")]]

ChainOf(trails, when) == [pin |-> trails.pin, spent |-> trails.spent, when |-> when]

Calmly == [overlap |-> FALSE, steady |-> TRUE, fails |-> FALSE, crashes |-> FALSE,
            calls |-> FALSE]

(* Nothing moves. *)
NoTrails == [pin |-> PinAt(<<3, "p0">>, <<4, "q0">>, <<5, "r0">>), spent |-> <<>>]

(* Rounds apart, with every trail; and rounds that overlap, with crashes or lost blocks. *)
MCChains ==
  {ChainOf(t, [Calmly EXCEPT !.steady = s]) :
     t \in {PlainTrails, HashedTrails, SharedOutput, TwoHops, EarlyTrails}, s \in BOOLEAN}
  \cup {ChainOf(PlainTrails, [Calmly EXCEPT !.fails = TRUE]),
        ChainOf(PlainTrails, [Calmly EXCEPT !.crashes = TRUE]),
        ChainOf(PlainTrails, [Calmly EXCEPT !.calls = TRUE]),
        ChainOf(NoTrails, [Calmly EXCEPT !.calls = TRUE, !.crashes = TRUE]),
        ChainOf(NoTrails, [Calmly EXCEPT !.overlap = TRUE, !.fails = TRUE]),
        ChainOf(NoTrails, [Calmly EXCEPT !.overlap = TRUE, !.crashes = TRUE])}

(* A block that is lost at first, and rounds that overlap. *)
RacingChains == {ChainOf(PlainTrails, [Calmly EXCEPT !.overlap = TRUE, !.fails = TRUE])}
=============================================================================
