------------------------------ MODULE Position -------------------------------
(***************************************************************************)
(* Positions: dict_position of matchengine/src/me_position.c and what a    *)
(* deal does to one of them (adjustPosition in me_market.c).               *)
(*                                                                         *)
(* A position of (user, market, side) splits the contracts it holds into   *)
(* `position`, free to be closed, and `frozen`, promised to close orders.  *)
(* Money amounts are integers; one contract is worth Unit of them, and a   *)
(* division rounds down as mpd_div does under MPD_ROUND_DOWN.              *)
(***************************************************************************)
EXTENDS Integers

CONSTANT Unit         \* value of one contract in money

ASSUME UnitAssumption == Unit \in Nat \ {0}

BEAR == 1             \* direction and side: short
BULL == 2             \* long
OPEN == 1             \* oper_type
CLOSE == 2
ISOLATED == 1         \* pattern
CROSS == 2

PositionRec == [pattern : {ISOLATED, CROSS}, leverage : Nat \ {0},
                position : Int, frozen : Int, price : Int, principal : Int]

\* A quotient is only taken of a positive divisor: contracts held, a price or
\* a leverage.  (The NaN that mpd_div returns otherwise is the 0 of the model.)
Quot(a, b) == IF b > 0 THEN a \div b ELSE 0

\* The margin of `amount` contracts: priAmount = amount / leverage.
Margin(amount, leverage) == Quot(amount * Unit, leverage)

Total(p) == p.position + p.frozen

\* getPNL: the equity of a position at a price.  It is its principal plus the
\* gain, or minus the loss, each relative to the entry price.
getPNL(p, side, latestPrice) ==
  LET delta == IF side = BULL THEN latestPrice - p.price
                              ELSE p.price - latestPrice
  IN  IF delta >= 0
      THEN p.principal + Quot(delta * Total(p) * Unit, p.price)
      ELSE p.principal - Quot((-delta) * Total(p) * Unit, p.price)

\* A deal of `amount` contracts at `price` meets no position: one is created,
\* whatever the oper_type of the order.
NewPosition(pattern, leverage, amount, price, fee) ==
  [pattern   |-> pattern,
   leverage  |-> leverage,
   position  |-> amount,
   frozen    |-> 0,
   price     |-> price,
   principal |-> Margin(amount, leverage) - fee]

\* (variant) an open order's contracts replace the free ones
OpenInto_Overwrites(p, amount, price, pri, fee) ==
  [p EXCEPT !.principal = @ + pri - fee, !.price = price, !.position = amount]

\* An open order adds to the position at the merged entry price.
OpenInto(p, amount, price, pri, fee) ==
  [p EXCEPT !.principal = @ + pri - fee,
            !.price     = Quot(amount * price + p.price * Total(p), Total(p) + amount),
            !.position  = @ + amount]

\* (variant) a close order takes out of the free part
CloseFrom_FreePart(p, amount) ==
  IF Total(p) = amount THEN [p EXCEPT !.position = 0, !.frozen = 0]
                       ELSE [p EXCEPT !.position = @ - amount]

\* A close order takes out of the frozen part, whose contracts were set aside
\* when the order was placed, and releases its share of the principal.
CloseFrom(p, amount) ==
  LET released == Quot(amount * p.principal, Total(p))
      closed   == [p EXCEPT !.principal = @ - released]
  IN  IF Total(p) = amount
      THEN [closed EXCEPT !.position = 0, !.frozen = 0]
      ELSE [closed EXCEPT !.frozen = @ - amount]

\* The equity a close order pays out: the dealt share of the position's equity.
ClosePNL(p, side, amount, price) ==
  Quot(getPNL(p, side, price) * amount, Total(p))

\* Placing a close order moves contracts from position to frozen, cancelling
\* one moves them back (amount < 0).
FreezePosition(p, amount) ==
  [p EXCEPT !.frozen = @ + amount, !.position = @ - amount]

\* dict_position is a partial function: add, replace and delete an entry.
WithEntry(f, k, v) == [x \in DOMAIN f \cup {k} |-> IF x = k THEN v ELSE f[x]]
WithoutEntry(f, k) == [x \in DOMAIN f \ {k} |-> f[x]]

\* A position that holds nothing is deleted at the end of a deal.
StorePosition(positions, k, p) ==
  IF p.position = 0 /\ p.frozen = 0
  THEN WithoutEntry(positions, k)
  ELSE WithEntry(positions, k, p)

\* adjustPosition for one of the two orders of a deal.
adjustPosition(positions, k, o, amount, price, fee) ==
  StorePosition(positions, k,
    IF k \notin DOMAIN positions
    THEN NewPosition(o.pattern, o.leverage, amount, price, fee)
    ELSE IF o.oper_type = OPEN
         THEN OpenInto(positions[k], amount, price, Margin(amount, o.leverage), fee)
         ELSE CloseFrom(positions[k], amount))
==============================================================================
