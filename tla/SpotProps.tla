------------------------------ MODULE SpotProps ------------------------------
(***************************************************************************)
(* What the spot market owes its users.                                    *)
(***************************************************************************)
EXTENDS Spot

Ids == 1..MaxOrders

\* Types of the memory: no balance is negative, and every order in the index has
\* something left.
SpotTypeOK ==
  \A m \in {mem, disk.mem} :
    /\ m.order_id \in 0..MaxOrders /\ m.crashed \in BOOLEAN
    /\ m.balance \in [Users -> [Assets -> Account]]
    /\ m.burnt \in [Assets -> Nat]
    /\ DOMAIN m.orders \subseteq 1..m.order_id
    /\ \A i \in DOMAIN m.orders :
         m.orders[i] \in [user : Users, side : Sides, price : Nat \ {0}, left : Nat \ {0},
                          freeze : Nat \ {0}, mm : {0, NORMAL, CANCEL}]
    /\ \A s \in Sides : m.book[s] \in Seq(Ids)

\* No cancelled order has taken what other orders had frozen, and no freed memory was
\* used.  (A cancelled ask does the one if oper_type is 1, or the other if it is 0.)
Sound == ~mem.crashed /\ \A u \in Users, a \in Assets : mem.owed[u][a] >= 0

\* What the orders of a user have frozen of an asset.
HeldBack(m, u, a) ==
  SumFunction([i \in DOMAIN m.orders |->
                 IF m.orders[i].user = u /\ Gives(m.orders[i].side) = a THEN m.orders[i].freeze ELSE 0])

\* While that is so, what an account has frozen is what its orders have and
\* what cancelled orders left behind: deals, partial or of a user with himself,
\* orders that make way, and orders that are replaced leave nothing else.
FrozenExact ==
  Sound => \A u \in Users, a \in Assets : mem.balance[u][a].freeze = HeldBack(mem, u, a) + mem.owed[u][a]

\* Types, and frozen money explained.
SpotInv == SpotTypeOK /\ FrozenExact

\* All there is of an asset, with the fees that were paid in it.
InAll(m, a) == SumFunction([u \in Users |-> m.balance[u][a].available + m.balance[u][a].freeze]) + m.burnt[a]

\* Deals and cancels neither make nor destroy money or stock, although the results
\* of the account operations are ignored.
Conserved == Sound => \A a \in Assets : InAll(mem, a) = InAll(Clean, a)

\* No bid rests at or above an ask, if the lists are sorted the way they are read.
SpotUncrossed ==
  heap = 1 => \A i \in ToSet(mem.book[BID]), j \in ToSet(mem.book[ASK]) :
                {i, j} \subseteq DOMAIN mem.orders => mem.orders[i].price < mem.orders[j].price

\* A process that replays the log, and can, comes to the state of the one that wrote
\* it: same accounts, same orders with the same ids in the same places; but for
\* what was done and not logged.
ReplayExact == disk.ok /\ ~mem.crashed /\ ~unlogged => disk.mem = mem

------------------------------------------------------------------------------
(* An instance for TLC. *)

\* Two prices, two amounts; orders of the market maker are small and cross.
MCRows ==
  {r \in [side : Sides, amount : {1, 2}, price : {1, 2}, mm : {0, CANCEL}] :
     r.mm = CANCEL => r.amount = 1 /\ r.price = r.side}

MCFunds == [a \in Assets |-> IF a = "stock" THEN 4 ELSE 8]
MCSymmetry == Permutations(Users)
==============================================================================
