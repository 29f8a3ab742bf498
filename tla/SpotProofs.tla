----------------------------- MODULE SpotProofs ------------------------------
(***************************************************************************)
(* The spot market: proofs of SpotInv, Conserved, SpotUncrossed and        *)
(* ReplayExact.                                                            *)
(*                                                                         *)
(* A handler is a function from a memory to a memory, so the invariant is  *)
(* one of a memory: Sane, of the memory of the process and of the one a    *)
(* replay makes.  It says, next to types, that an order has frozen exactly *)
(* what is left of it (Promised), that lists hold ids that were given out, *)
(* of orders of their side (Listing), that balances have no more digits    *)
(* than accounts store (Whole), and that only money can be missing         *)
(* (Lacking): each of these is what the deals need to find in the account  *)
(* what they take from it.  Then frozen money is explained (Exact) and     *)
(* nothing is made or lost (Kept).  If oper_type is 1 the lists are Neat:  *)
(* orders that exist, each once, the better price first, no bid at or      *)
(* above an ask.  That is kept because matching goes through a list from   *)
(* the front: what it passed is gone or does not meet the taker's price,   *)
(* and then nothing behind it does (Clear).                                *)
(*                                                                         *)
(* Folds over lists are taken apart by FoldRuns: a fold whose steps stay   *)
(* in a set goes through values of that set.                               *)
(***************************************************************************)
EXTENDS SpotProps, SumLemmas, SequenceTheorems

\* A multiple of what an account can store.
Mult(x) == \E k \in Int : x = k * Quantum

\* Dividing a multiple of Quantum by it gives the factor.
LEMMA DivMul == ASSUME NEW k \in Int PROVE (k * Quantum) \div Quantum = k
  BY QuantumAssumption, SMT

\* What an account stores of a number is a multiple of Quantum and not more.
LEMMA RescaleIs == ASSUME NEW x \in Int PROVE Mult(Rescale(x)) /\ Rescale(x) <= x /\ Rescale(x) \in Int
  BY QuantumAssumption, SMT DEF Rescale, Mult

\* It is not negative if the number is not.
LEMMA RescaleNat == ASSUME NEW x \in Nat PROVE Rescale(x) \in Nat
  BY QuantumAssumption, SMT DEF Rescale

\* A multiple of Quantum is stored as it is.
LEMMA RescaleMult == ASSUME NEW x \in Int, Mult(x) PROVE Rescale(x) = x
  BY QuantumAssumption, DivMul, SMT DEF Rescale, Mult

\* A number without remainder is a multiple.
LEMMA MultMod == ASSUME NEW x \in Int, x % Quantum = 0 PROVE Mult(x)
<1>1. Rescale(x) = x
  BY QuantumAssumption, SMT DEF Rescale
<1> QED BY <1>1, RescaleIs

\* Sums and differences of multiples are multiples.
LEMMA MultAdd ==
  ASSUME NEW x \in Int, NEW y \in Int, Mult(x), Mult(y)
  PROVE  Mult(x + y) /\ Mult(x - y)
<1>1. PICK k \in Int : x = k * Quantum
  BY DEF Mult
<1>2. PICK l \in Int : y = l * Quantum
  BY DEF Mult
<1>3. k + l \in Int /\ k - l \in Int /\ x + y = (k + l) * Quantum /\ x - y = (k - l) * Quantum
  BY <1>1, <1>2, QuantumAssumption, SMT
<1> QED BY <1>3 DEF Mult

\* So are products with an integer ...
LEMMA MultMul == ASSUME NEW x \in Int, NEW y \in Int, Mult(x) PROVE Mult(y * x)
<1>1. PICK k \in Int : x = k * Quantum
  BY DEF Mult
<1>2. y * k \in Int /\ y * x = (y * k) * Quantum
  BY <1>1, QuantumAssumption, SMT
<1> QED BY <1>2 DEF Mult

\* ... and nothing.
LEMMA MultZero == Mult(0)
<1>1. 0 = 0 * Quantum
  BY QuantumAssumption, SMT
<1> QED BY <1>1 DEF Mult

\* What an order is worth can be stored.
LEMMA WorthType ==
  ASSUME NEW a \in Assets, NEW amount \in Nat, NEW price \in Nat
  PROVE  Worth(a, amount, price) \in Nat /\ Mult(Worth(a, amount, price))
<1>1. Unit \in Nat /\ Mult(Unit)
  BY SpotAssumption, MultMod
<1>2. CASE a = "stock"
  <2>1. Worth(a, amount, price) = amount * Unit
    BY <1>2 DEF Worth
  <2> QED BY <2>1, <1>1, MultMul
<1>3. CASE a # "stock"
  <2>1. Worth(a, amount, price) = (amount * price) * Unit /\ amount * price \in Nat
    BY <1>3 DEF Worth
  <2> DEFINE p == amount * price
  <2>2. p \in Nat /\ Worth(a, amount, price) = p * Unit
    BY <2>1
  <2> HIDE DEF p
  <2> QED BY <2>2, <1>1, MultMul
<1> QED BY <1>2, <1>3

\* An order is worth what is dealt and what is left of it.
LEMMA WorthSplits ==
  ASSUME NEW a \in Assets, NEW x \in Nat, NEW y \in Nat, NEW price \in Nat, y <= x
  PROVE  Worth(a, x - y, price) = Worth(a, x, price) - Worth(a, y, price)
<1>1. Unit \in Nat
  BY SpotAssumption
<1>2. (x - y) * Unit = x * Unit - y * Unit
  BY <1>1, SMT
<1>3. (x - y) * price * Unit = x * price * Unit - y * price * Unit
  <2>1. (x - y) * price = x * price - y * price /\ x * price \in Int /\ y * price \in Int
    BY SMT
  <2> DEFINE p == x * price  q == y * price
  <2>2. p \in Int /\ q \in Int
    BY <2>1
  <2> HIDE DEF p, q
  <2>3. (p - q) * Unit = p * Unit - q * Unit
    BY <2>2, <1>1, SMT
  <2> QED BY <2>1, <2>3 DEF p, q
<1> QED BY <1>2, <1>3 DEF Worth

\* An order is worth something.
LEMMA WorthPositive ==
  ASSUME NEW a \in Assets, NEW x \in Nat \ {0}, NEW price \in Nat \ {0}
  PROVE  Worth(a, x, price) \in Nat \ {0}
<1>1. Unit \in Nat \ {0}
  BY SpotAssumption
<1>2. x * Unit \in Nat \ {0}
  BY <1>1, SMT
<1>3. x * price * Unit \in Nat \ {0}
  <2> DEFINE p == x * price
  <2>1. p \in Nat \ {0}
    BY SMT
  <2> HIDE DEF p
  <2>2. p * Unit \in Nat \ {0}
    BY <2>1, <1>1, SMT
  <2> QED BY <2>2 DEF p
<1> QED BY <1>2, <1>3 DEF Worth

\* What two orders are worth at two prices.
LEMMA WorthOrdered ==
  ASSUME NEW a \in Assets, NEW x \in Nat, NEW p \in Nat, NEW q \in Nat, p <= q
  PROVE  Worth(a, x, p) <= Worth(a, x, q)
<1>1. Unit \in Nat
  BY SpotAssumption
<1>2. x * p <= x * q /\ x * p \in Nat /\ x * q \in Nat
  BY SMT
<1> DEFINE b == x * p  c == x * q
<1> HIDE DEF b, c
<1>3. b <= c /\ b \in Nat /\ c \in Nat
  BY <1>2 DEF b, c
<1>4. b * Unit <= c * Unit
  BY <1>1, <1>3, SMT
<1>5. x * Unit <= x * Unit
  BY <1>1, SMT
<1> QED BY <1>4, <1>5 DEF Worth, b, c

\* The fee of a deal is no more than the deal.
LEMMA CostIs ==
  ASSUME NEW a \in Assets, NEW amount \in Nat, NEW price \in Nat, NEW fee \in 0..(Unit - 1)
  PROVE  LET cost == (Worth(a, amount, price) \div Unit) * fee
         IN  /\ cost \in Nat /\ cost <= Worth(a, amount, price)
             /\ fee % Quantum = 0 => Mult(cost)
<1>1. Unit \in Nat \ {0} /\ fee \in Nat /\ fee <= Unit
  BY SpotAssumption
<1>2. PICK k \in Nat : Worth(a, amount, price) = k * Unit
  <2>1. amount * price \in Nat
    BY SMT
  <2> QED BY <2>1 DEF Worth
<1>3. (k * Unit) \div Unit = k
  BY <1>1, SMT
<1>4. k * fee \in Nat /\ k * fee <= k * Unit
  BY <1>1, SMT
<1>5. fee % Quantum = 0 => Mult(k * fee)
  BY <1>1, MultMod, MultMul
<1> QED BY <1>2, <1>3, <1>4, <1>5

------------------------------------------------------------------------------
(* The memory                                                               *)

\* An order while a handler works on it, and a memory.
Orders == [user : Users, side : Sides, price : Nat \ {0}, left : Nat, freeze : Nat,
           mm : {0, NORMAL, CANCEL}]
Memories ==
  [balance  : [Users -> [Assets -> Account]],
   orders   : UNION {[D -> Orders] : D \in SUBSET Nat},
   book     : [Sides -> Seq(Nat)],
   order_id : Nat,
   crashed  : BOOLEAN,
   owed     : [Users -> [Assets -> Int]],
   burnt    : [Assets -> Nat]]

\* Orders and lists have ids that were given out, and an order is in no other list
\* than that of its side.
Listing(m, k) ==
  /\ DOMAIN m.orders \subseteq 1..k
  /\ \A s \in Sides : \A n \in DOMAIN m.book[s] :
       /\ m.book[s][n] \in 1..k
       /\ m.book[s][n] \in DOMAIN m.orders => m.orders[m.book[s][n]].side = s

\* An order has frozen what is left of it.
Promised(m) ==
  \A i \in DOMAIN m.orders :
    /\ m.orders[i].left > 0
    /\ m.orders[i].freeze = Worth(Gives(m.orders[i].side), m.orders[i].left, m.orders[i].price)

\* Accounts have no more digits than they are stored with.
Stored(acc) == acc \in Account /\ Mult(acc.available) /\ Mult(acc.freeze)
Whole(m) == \A u \in Users, a \in Assets : Stored(m.balance[u][a])

\* Only money can be missing, and only if cancelled orders unfreeze some.
Lacking(m) == \A u \in Users : m.owed[u]["stock"] >= 0 /\ (heap # 1 => m.owed[u]["money"] >= 0)

\* Sound, FrozenExact and Conserved of any memory.
SoundMem(m) == ~m.crashed /\ \A u \in Users, a \in Assets : m.owed[u][a] >= 0
Exact(m) == \A u \in Users, a \in Assets : m.balance[u][a].freeze = HeldBack(m, u, a) + m.owed[u][a]
Kept(m) == \A a \in Assets : InAll(m, a) = InAll(Clean, a)

\* The fees of a deal have no more digits than accounts are stored with.
FeesFit == TakerFee % Quantum = 0 /\ MakerFee % Quantum = 0

\* What handlers and replays keep of a memory that has given out the ids up to k.
Shaped(m, k) == m \in Memories /\ k \in Nat /\ Listing(m, k) /\ Whole(m) /\ Lacking(m)
Good(m, k) == Shaped(m, k) /\ Promised(m) /\ (SoundMem(m) => Exact(m) /\ (FeesFit => Kept(m)))

\* A memory whose orders and lists have some of another one's.
SameOrder(p, o) == p.side = o.side /\ p.price = o.price /\ p.user = o.user /\ p.mm = o.mm
Fewer(n, m) ==
  /\ DOMAIN n.orders \subseteq DOMAIN m.orders
  /\ \A i \in DOMAIN n.orders : SameOrder(n.orders[i], m.orders[i])
  /\ \A s \in Sides : \A i \in DOMAIN n.book[s] :
       \E j \in DOMAIN m.book[s] : m.book[s][j] = n.book[s][i]

\* There are two sides and two assets, and one side gives what the other gets.
LEMMA TwoAssets ==
  /\ \A s \in Sides : /\ Other(s) \in Sides /\ Other(s) # s /\ Other(Other(s)) = s
                      /\ Gives(s) \in Assets /\ Gets(s) \in Assets /\ Gives(s) # Gets(s)
                      /\ Gets(s) = Gives(Other(s)) /\ Gives(s) = Gets(Other(s))
                      /\ \A a \in Assets : a = Gives(s) \/ a = Gets(s)
  /\ "stock" \in Assets /\ "money" \in Assets /\ "stock" # "money"
  BY DEF Sides, ASK, BID, Other, Gives, Gets, Assets

\* The fields of a memory ...
LEMMA Fields ==
  ASSUME NEW m \in Memories
  PROVE  /\ m.balance \in [Users -> [Assets -> Account]]
         /\ m.book \in [Sides -> Seq(Nat)] /\ m.order_id \in Nat /\ m.crashed \in BOOLEAN
         /\ m.owed \in [Users -> [Assets -> Int]] /\ m.burnt \in [Assets -> Nat]
         /\ DOMAIN m.orders \in SUBSET Nat /\ m.orders \in [DOMAIN m.orders -> Orders]
         /\ m = [balance |-> m.balance, orders |-> m.orders, book |-> m.book,
                 order_id |-> m.order_id, crashed |-> m.crashed, owed |-> m.owed,
                 burnt |-> m.burnt]
<1>1. m.orders \in UNION {[D -> Orders] : D \in SUBSET Nat}
  BY DEF Memories
<1>2. PICK D \in SUBSET Nat : m.orders \in [D -> Orders]
  BY <1>1
<1>3. DOMAIN m.orders = D
  BY <1>2
<1> QED BY <1>2, <1>3 DEF Memories

\* ... make it a memory.
LEMMA MemoryIs ==
  ASSUME NEW n,
         n = [balance |-> n.balance, orders |-> n.orders, book |-> n.book, order_id |-> n.order_id,
              crashed |-> n.crashed, owed |-> n.owed, burnt |-> n.burnt],
         n.balance \in [Users -> [Assets -> Account]],
         DOMAIN n.orders \in SUBSET Nat, n.orders \in [DOMAIN n.orders -> Orders],
         n.book \in [Sides -> Seq(Nat)], n.order_id \in Nat, n.crashed \in BOOLEAN,
         n.owed \in [Users -> [Assets -> Int]], n.burnt \in [Assets -> Nat]
  PROVE  n \in Memories
<1>1. n.orders \in UNION {[E -> Orders] : E \in SUBSET Nat}
  OBVIOUS
<1> QED BY <1>1 DEF Memories
------------------------------------------------------------------------------
(* Accounts                                                                 *)

\* The account functions (me_balance.c) leave accounts that are stored with their digits,
\* and balance_sub fails if there is not enough.
LEMMA Accounts ==
  ASSUME NEW acc, Stored(acc), NEW x \in Nat, NEW type \in {"available", "freeze"}
  PROVE  /\ CanSub(acc, type, x) <=> acc[type] >= x
         /\ Stored(balance_add(acc, type, x)) /\ Stored(balance_sub(acc, type, x))
         /\ Stored(balance_freeze(acc, x)) /\ Stored(balance_unfreeze(acc, x))
         /\ acc[type] < x => balance_sub(acc, type, x) = acc
<1>1. /\ acc.available \in Nat /\ acc.freeze \in Nat /\ acc[type] \in Nat
      /\ acc = [available |-> acc.available, freeze |-> acc.freeze]
  BY DEF Stored, Account
<1>2. \A y \in Nat : Rescale(y) \in Nat /\ Mult(Rescale(y))
  BY RescaleIs, RescaleNat
<1>3. acc[type] + x \in Nat /\ acc.available + x \in Nat /\ acc.freeze + x \in Nat
  BY <1>1
<1>4. Stored(balance_add(acc, type, x))
  <2>1. CASE type = "available"
    <3>1. balance_add(acc, type, x) = [available |-> Rescale(acc.available + x), freeze |-> acc.freeze]
      <4>1. balance_add(acc, type, x) = [acc EXCEPT !["available"] = Rescale(acc["available"] + x)]
        BY <2>1 DEF balance_add
      <4> QED BY <4>1, <1>1
    <3> QED BY <3>1, <1>1, <1>2, <1>3 DEF Stored, Account
  <2>2. CASE type = "freeze"
    <3>1. balance_add(acc, type, x) = [available |-> acc.available, freeze |-> Rescale(acc.freeze + x)]
      <4>1. balance_add(acc, type, x) = [acc EXCEPT !["freeze"] = Rescale(acc["freeze"] + x)]
        BY <2>2 DEF balance_add
      <4> QED BY <4>1, <1>1
    <3> QED BY <3>1, <1>1, <1>2, <1>3 DEF Stored, Account
  <2> QED BY <2>1, <2>2
<1>5. Stored(balance_sub(acc, type, x))
  <2>0. CASE ~(acc[type] >= x)
    BY <2>0, <1>1 DEF balance_sub, CanSub
  <2>1. CASE type = "available" /\ acc[type] >= x
    <3>1. balance_sub(acc, type, x) = [available |-> Rescale(acc.available - x), freeze |-> acc.freeze]
      <4>1. balance_sub(acc, type, x) = [acc EXCEPT !["available"] = Rescale(acc["available"] - x)]
        BY <2>1 DEF balance_sub, CanSub
      <4> QED BY <4>1, <1>1
    <3>2. acc.available - x \in Nat
      BY <1>1, <2>1
    <3> QED BY <3>1, <3>2, <1>1, <1>2 DEF Stored, Account
  <2>2. CASE type = "freeze" /\ acc[type] >= x
    <3>1. balance_sub(acc, type, x) = [available |-> acc.available, freeze |-> Rescale(acc.freeze - x)]
      <4>1. balance_sub(acc, type, x) = [acc EXCEPT !["freeze"] = Rescale(acc["freeze"] - x)]
        BY <2>2 DEF balance_sub, CanSub
      <4> QED BY <4>1, <1>1
    <3>2. acc.freeze - x \in Nat
      BY <1>1, <2>2
    <3> QED BY <3>1, <3>2, <1>1, <1>2 DEF Stored, Account
  <2> QED BY <2>0, <2>1, <2>2
<1>6. Stored(balance_freeze(acc, x))
  <2>1. CASE acc.available >= x
    <3>1. acc.available - x \in Nat
      BY <1>1, <2>1
    <3> QED BY <3>1, <1>1, <1>2, <1>3 DEF Stored, Account, balance_freeze
  <2> QED BY <2>1, <1>1 DEF balance_freeze, CanSub
<1>7. Stored(balance_unfreeze(acc, x))
  <2>1. CASE acc.freeze >= x
    <3>1. acc.freeze - x \in Nat
      BY <1>1, <2>1
    <3> QED BY <3>1, <1>1, <1>2, <1>3 DEF Stored, Account, balance_unfreeze
  <2> QED BY <2>1, <1>1 DEF balance_unfreeze, CanSub
<1>8. CanSub(acc, type, x) <=> acc[type] >= x
  BY DEF CanSub
<1>9. acc[type] < x => balance_sub(acc, type, x) = acc
  BY <1>1 DEF CanSub, balance_sub
<1> QED BY <1>4, <1>5, <1>6, <1>7, <1>8, <1>9

\* Amounts that can be stored are moved as they are.
LEMMA AccountMoves ==
  ASSUME NEW acc, Stored(acc), NEW x \in Nat, Mult(x)
  PROVE  /\ acc.available >= x =>
              /\ balance_freeze(acc, x) = [available |-> acc.available - x, freeze |-> acc.freeze + x]
              /\ balance_sub(acc, "available", x) = [available |-> acc.available - x, freeze |-> acc.freeze]
         /\ acc.freeze >= x =>
              /\ balance_unfreeze(acc, x) = [available |-> acc.available + x, freeze |-> acc.freeze - x]
              /\ balance_sub(acc, "freeze", x) = [available |-> acc.available, freeze |-> acc.freeze - x]
         /\ ~(acc.available >= x) => balance_freeze(acc, x) = acc
         /\ ~(acc.freeze >= x) => balance_unfreeze(acc, x) = acc
         /\ balance_add(acc, "available", x) = [available |-> acc.available + x, freeze |-> acc.freeze]
<1>1. /\ acc.available \in Nat /\ acc.freeze \in Nat /\ Mult(acc.available) /\ Mult(acc.freeze)
      /\ acc = [available |-> acc.available, freeze |-> acc.freeze]
  BY DEF Stored, Account
<1>2. /\ Rescale(acc.available + x) = acc.available + x /\ Rescale(acc.freeze + x) = acc.freeze + x
      /\ Rescale(acc.available - x) = acc.available - x /\ Rescale(acc.freeze - x) = acc.freeze - x
  <2>1. /\ Mult(acc.available + x) /\ Mult(acc.freeze + x)
        /\ Mult(acc.available - x) /\ Mult(acc.freeze - x)
    BY <1>1, MultAdd
  <2>2. /\ acc.available + x \in Int /\ acc.freeze + x \in Int
        /\ acc.available - x \in Int /\ acc.freeze - x \in Int
    BY <1>1
  <2> QED BY <2>1, <2>2, RescaleMult
<1>3. CanSub(acc, "available", x) <=> acc.available >= x
  BY DEF CanSub
<1>4. CanSub(acc, "freeze", x) <=> acc.freeze >= x
  BY DEF CanSub
<1>5. ~(x < 0)
  OBVIOUS
<1> QED BY <1>1, <1>2, <1>3, <1>4, <1>5 DEF balance_freeze, balance_unfreeze, balance_add, balance_sub

------------------------------------------------------------------------------
(* What there is of an asset                                                *)

\* If one account changes, what there is of an asset changes by what that account and the
\* fees did.
LEMMA InAllChanges ==
  ASSUME NEW m \in Memories, NEW n \in Memories, NEW a \in Assets, NEW u \in Users,
         \A v \in Users \ {u} : n.balance[v][a] = m.balance[v][a]
  PROVE  /\ InAll(m, a) \in Int
         /\ InAll(n, a) = InAll(m, a) - (m.balance[u][a].available + m.balance[u][a].freeze)
                          + (n.balance[u][a].available + n.balance[u][a].freeze)
                          - m.burnt[a] + n.burnt[a]
<1> DEFINE f == [v \in Users |-> m.balance[v][a].available + m.balance[v][a].freeze]
           g == [v \in Users |-> n.balance[v][a].available + n.balance[v][a].freeze]
<1>1. \A v \in Users : /\ m.balance[v][a] \in Account /\ n.balance[v][a] \in Account
  BY Fields
<1>2. \A v \in Users : f[v] \in Int /\ g[v] \in Int
  BY <1>1 DEF Account
<1>3. \A v \in Users \ {u} : g[v] = f[v]
  OBVIOUS
<1>4. InAll(m, a) = SumFunctionOnSet(f, Users) + m.burnt[a]
  BY DEF InAll, SumFunction
<1>5. InAll(n, a) = SumFunctionOnSet(g, Users) + n.burnt[a]
  BY DEF InAll, SumFunction
<1>6. m.burnt[a] \in Int /\ n.burnt[a] \in Int
  BY Fields
<1>7. /\ f[u] = m.balance[u][a].available + m.balance[u][a].freeze
      /\ g[u] = n.balance[u][a].available + n.balance[u][a].freeze
  OBVIOUS
<1> HIDE DEF f, g
<1>8. IsFiniteSet(Users)
  BY SpotAssumption
<1>9. SumFunctionOnSet(f, Users) \in Int
  BY <1>2, <1>8, SumType
<1>10. SumFunctionOnSet(g, Users) = SumFunctionOnSet(f, Users) - f[u] + g[u]
  BY <1>2, <1>3, <1>8, SumChange
<1> QED BY <1>2, <1>4, <1>5, <1>6, <1>7, <1>9, <1>10

\* It depends on accounts and fees only.
LEMMA InAllSame ==
  ASSUME NEW m, NEW n, n.balance = m.balance, n.burnt = m.burnt
  PROVE  \A a \in Assets : InAll(n, a) = InAll(m, a)
  BY DEF InAll

\* What is stored of a number is no less than a multiple that is no more than the number.
LEMMA RescaleKeeps == ASSUME NEW x \in Int, NEW y \in Int, Mult(x), x <= y PROVE x <= Rescale(y)
<1>1. PICK k \in Int : x = k * Quantum
  BY DEF Mult
<1>2. k <= y \div Quantum /\ y \div Quantum \in Int
  BY <1>1, QuantumAssumption, SMT
<1>3. \A i, j \in Int : i <= j => i * Quantum <= j * Quantum
  BY QuantumAssumption, SMT
<1> QED BY <1>1, <1>2, <1>3 DEF Rescale

\* A sum less a multiple is a multiple.
LEMMA MultThree ==
  ASSUME NEW x \in Int, NEW y \in Int, NEW z \in Int, Mult(x), Mult(y), Mult(z)
  PROVE  Mult(x + y - z)
<1>1. x + y \in Int /\ Mult(x + y)
  BY MultAdd
<1> QED BY <1>1, MultAdd

\* One party's side of a deal.
IsSettled(n, m, u, g, t, type, w, x, fee) ==
  /\ n \in Memories /\ Whole(n)
  /\ n.orders = m.orders /\ n.book = m.book /\ n.order_id = m.order_id
  /\ n.crashed = m.crashed /\ n.owed = m.owed
  /\ \A v \in Users \ {u}, a \in Assets : n.balance[v][a] = m.balance[v][a]
  /\ m.balance[u][g][type] >= w =>
       n.balance[u][g] = IF type = "available"
                         THEN [available |-> m.balance[u][g].available - w,
                               freeze    |-> m.balance[u][g].freeze]
                         ELSE [available |-> m.balance[u][g].available,
                               freeze    |-> m.balance[u][g].freeze - w]
  /\ n.balance[u][t].freeze = m.balance[u][t].freeze
  /\ n.balance[u][t].available >= m.balance[u][t].available
  /\ m.balance[u][g][type] >= w /\ fee % Quantum = 0 =>
       InAll(n, g) = InAll(m, g) - w /\ InAll(n, t) = InAll(m, t) + x

\* Settled changes two accounts of one user and the fees, and moves what the deal is worth if
\* it is there.
LEMMA SettledIs ==
  ASSUME NEW m \in Memories, Whole(m), NEW u \in Users, NEW side \in Sides,
         NEW type \in {"available", "freeze"}, NEW amount \in Nat, NEW price \in Nat,
         NEW fee \in 0..(Unit - 1)
  PROVE  IsSettled(Settled(m, u, side, type, amount, price, fee), m, u, Gives(side), Gets(side), type,
                   Worth(Gives(side), amount, price), Worth(Gets(side), amount, price), fee)
<1> SUFFICES ASSUME NEW n, n = Settled(m, u, side, type, amount, price, fee),
                    NEW g, g = Gives(side), NEW t, t = Gets(side),
                    NEW w, w = Worth(g, amount, price), NEW x, x = Worth(t, amount, price)
             PROVE  IsSettled(n, m, u, g, t, type, w, x, fee)
  OBVIOUS
<1> DEFINE cost == (x \div Unit) * fee
           got  == balance_add(m.balance[u][t], "available", x)
           acc1 == balance_sub(m.balance[u][g], type, w)
           acc2 == balance_sub(got, "available", cost)
<1>0. /\ cost = (x \div Unit) * fee
      /\ got = balance_add(m.balance[u][t], "available", x)
      /\ acc1 = balance_sub(m.balance[u][g], type, w)
      /\ acc2 = balance_sub(got, "available", cost)
  OBVIOUS
<1> HIDE DEF cost, got, acc1, acc2
<1>1. /\ g \in Assets /\ t \in Assets /\ g # t /\ \A a \in Assets : a = g \/ a = t
  BY TwoAssets
<1>2. w \in Nat /\ x \in Nat /\ Mult(w) /\ Mult(x)
  BY <1>1, WorthType
<1>3. cost \in Nat /\ cost <= x /\ (fee % Quantum = 0 => Mult(cost))
  BY <1>0, <1>1, CostIs
<1>4. Stored(m.balance[u][g]) /\ Stored(m.balance[u][t])
  BY <1>1 DEF Whole
<1>5. Stored(acc1) /\ Stored(got)
  BY <1>0, <1>2, <1>4, Accounts
<1>6. Stored(acc2)
  BY <1>0, <1>3, <1>5, Accounts
<1> DEFINE b == [m.balance EXCEPT ![u] = [@ EXCEPT ![g] = acc1, ![t] = acc2]]
           k == [m.burnt EXCEPT ![t] = @ + cost]
<1>7. n = [balance |-> b, orders |-> m.orders, book |-> m.book, order_id |-> m.order_id,
           crashed |-> m.crashed, owed |-> m.owed, burnt |-> k]
  <2>1. n = [m EXCEPT !.balance[u][g] = acc1, !.balance[u][t] = acc2, !.burnt[t] = @ + cost]
    <3>1. ([m EXCEPT !.balance[u][g] = acc1]).balance[u][t] = m.balance[u][t]
      BY Fields, <1>1
    <3> QED BY <3>1, <1>0 DEF Settled
  <2>2. m.balance \in [Users -> [Assets -> Account]] /\ m.burnt \in [Assets -> Nat]
        /\ m = [balance |-> m.balance, orders |-> m.orders, book |-> m.book,
                 order_id |-> m.order_id, crashed |-> m.crashed, owed |-> m.owed,
                 burnt |-> m.burnt]
    BY Fields
  <2>3. b = [m.balance EXCEPT ![u][g] = acc1, ![u][t] = acc2]
    BY <2>2, <1>1
  <2>4. n = [m EXCEPT !.balance = b, !.burnt = k]
    BY <2>1, <2>2, <2>3
  <2> HIDE DEF b, k
  <2> QED BY <2>4, <2>2
<1>8. /\ b \in [Users -> [Assets -> Account]] /\ b[u][g] = acc1 /\ b[u][t] = acc2
      /\ \A v \in Users \ {u}, a \in Assets : b[v][a] = m.balance[v][a]
  <2> QED BY <1>1, <1>5, <1>6, Fields DEF Stored
<1>9. k \in [Assets -> Nat] /\ k[t] = m.burnt[t] + cost /\ k[g] = m.burnt[g]
  <2> QED BY <1>1, <1>3, Fields
<1>10. n \in Memories
  <2> HIDE DEF b, k
  <2>1. /\ DOMAIN m.orders \in SUBSET Nat /\ m.orders \in [DOMAIN m.orders -> Orders]
        /\ m.book \in [Sides -> Seq(Nat)] /\ m.order_id \in Nat /\ m.crashed \in BOOLEAN
        /\ m.owed \in [Users -> [Assets -> Int]]
    BY Fields
  <2>2. /\ n.orders = m.orders /\ n.book = m.book /\ n.order_id = m.order_id
        /\ n.crashed = m.crashed /\ n.owed = m.owed /\ n.balance = b /\ n.burnt = k
    BY <1>7
  <2> QED BY <1>7, <1>8, <1>9, <2>1, <2>2, MemoryIs
<1>11. /\ n.orders = m.orders /\ n.book = m.book /\ n.order_id = m.order_id
       /\ n.crashed = m.crashed /\ n.owed = m.owed /\ n.balance = b /\ n.burnt = k
  BY <1>7
<1> HIDE DEF b, k
<1>12. Whole(n)
  <2> SUFFICES ASSUME NEW v \in Users, NEW a \in Assets PROVE Stored(n.balance[v][a])
    BY DEF Whole
  <2>1. CASE v = u
    BY <2>1, <1>1, <1>5, <1>6, <1>8, <1>11
  <2>2. CASE v # u
    BY <2>2, <1>8, <1>11 DEF Whole
  <2> QED BY <2>1, <2>2
<1>13. m.balance[u][g][type] >= w =>
              acc1 = IF type = "available"
                                THEN [available |-> m.balance[u][g].available - w,
                                      freeze    |-> m.balance[u][g].freeze]
                                ELSE [available |-> m.balance[u][g].available,
                                      freeze    |-> m.balance[u][g].freeze - w]
  BY <1>0, <1>2, <1>4, AccountMoves
<1>14. got = [available |-> m.balance[u][t].available + x, freeze |-> m.balance[u][t].freeze]
  BY <1>0, <1>2, <1>4, AccountMoves
<1>15. /\ m.balance[u][t].available \in Nat /\ m.balance[u][t].freeze \in Nat
       /\ m.balance[u][g].available \in Nat /\ m.balance[u][g].freeze \in Nat
       /\ Mult(m.balance[u][t].available)
  BY <1>4 DEF Stored, Account
<1>16. /\ acc2.freeze = m.balance[u][t].freeze
       /\ acc2.available = Rescale(m.balance[u][t].available + x - cost)
  <2>1. acc2 = balance_sub(got, "available", cost)
    BY <1>0
  <2>2. m.balance[u][t].available \in Nat /\ x \in Nat /\ cost \in Nat /\ cost <= x
    BY <1>2, <1>3, <1>15
  <2>3. PICK p \in Nat : p = m.balance[u][t].available
    BY <2>2
  <2>4. PICK q : q = m.balance[u][t].freeze
    OBVIOUS
  <2>5. got = [available |-> p + x, freeze |-> q]
    BY <1>14, <2>3, <2>4
  <2>6. acc2.available = Rescale(p + x - cost) /\ acc2.freeze = q
    <3>1. got["available"] = p + x /\ got["available"] >= cost /\ cost >= 0
      BY <2>2, <2>3, <2>5
    <3>2. acc2 = [got EXCEPT !["available"] = Rescale(got["available"] - cost)]
      BY <2>1, <3>1 DEF balance_sub, CanSub
    <3>3. acc2.available = Rescale(got["available"] - cost) /\ acc2.freeze = q
      BY <3>2, <2>5
    <3>4. got["available"] - cost = p + x - cost
      BY <3>1, <2>2, <2>3
    <3> QED BY <3>3, <3>4, Zenon
  <2> QED BY <2>3, <2>4, <2>6
<1>17. m.balance[u][t].available <= Rescale(m.balance[u][t].available + x - cost)
  <2>1. m.balance[u][t].available + x - cost \in Int /\ m.balance[u][t].available \in Int
        /\ m.balance[u][t].available <= m.balance[u][t].available + x - cost
    BY <1>2, <1>3, <1>15
  <2> QED BY <2>1, <1>15, RescaleKeeps
<1>18. fee % Quantum = 0 => acc2.available = m.balance[u][t].available + x - cost
  <2> SUFFICES ASSUME fee % Quantum = 0 PROVE acc2.available = m.balance[u][t].available + x - cost
    OBVIOUS
  <2>0. fee % Quantum = 0
    OBVIOUS
  <2>1. /\ m.balance[u][t].available \in Int /\ x \in Int /\ cost \in Int
        /\ m.balance[u][t].available + x \in Int /\ m.balance[u][t].available + x - cost \in Int
    BY <1>2, <1>3, <1>15
  <2>2. Mult(m.balance[u][t].available + x)
    BY <2>1, <1>2, <1>15, MultAdd
  <2>3. Mult(m.balance[u][t].available + x - cost)
    BY <1>3, <2>0, <2>1, <1>2, <1>15, MultThree
  <2> QED BY <2>1, <2>3, <1>16, RescaleMult
<1>19. /\ n.balance[u][t].freeze = m.balance[u][t].freeze
       /\ n.balance[u][t].available >= m.balance[u][t].available
  <2>1. acc2.available \in Nat
    BY <1>6 DEF Stored, Account
  <2> QED BY <1>8, <1>11, <1>16, <1>17, <1>15, <2>1
<1>20. ASSUME m.balance[u][g][type] >= w, fee % Quantum = 0
       PROVE  InAll(n, g) = InAll(m, g) - w /\ InAll(n, t) = InAll(m, t) + x
  <2>1. \A a \in Assets : \A v \in Users \ {u} : n.balance[v][a] = m.balance[v][a]
    BY <1>8, <1>11
  <2>2. /\ InAll(m, g) \in Int
        /\ InAll(n, g) = InAll(m, g) - (m.balance[u][g].available + m.balance[u][g].freeze)
                          + (n.balance[u][g].available + n.balance[u][g].freeze)
                          - m.burnt[g] + n.burnt[g]
    BY <2>1, <1>1, <1>10, InAllChanges
  <2>3. /\ InAll(m, t) \in Int
        /\ InAll(n, t) = InAll(m, t) - (m.balance[u][t].available + m.balance[u][t].freeze)
                          + (n.balance[u][t].available + n.balance[u][t].freeze)
                          - m.burnt[t] + n.burnt[t]
    BY <2>1, <1>1, <1>10, InAllChanges
  <2>4. n.balance[u][g].available + n.balance[u][g].freeze
          = m.balance[u][g].available + m.balance[u][g].freeze - w
    <3> QED BY <1>8, <1>11, <1>13, <1>15, <1>2, <1>20
  <2>5. n.balance[u][t].available = m.balance[u][t].available + x - cost
        /\ n.balance[u][t].freeze = m.balance[u][t].freeze
    <3> QED BY <1>8, <1>11, <1>16, <1>18, <1>20
  <2>6. n.burnt[g] = m.burnt[g] /\ n.burnt[t] = m.burnt[t] + cost /\ m.burnt[g] \in Nat /\ m.burnt[t] \in Nat
    BY <1>1, <1>9, <1>11, Fields
  <2> QED BY <2>2, <2>3, <2>4, <2>5, <2>6, <1>15, <1>2, <1>3
<1> QED BY <1>8, <1>10, <1>11, <1>12, <1>13, <1>19, <1>20 DEF IsSettled

------------------------------------------------------------------------------
(* Lists                                                                    *)

\* RemoveAt closes the gap.
LEMMA Removed ==
  ASSUME NEW E, NEW s \in Seq(E), NEW i \in 1..Len(s)
  PROVE  /\ RemoveAt(s, i) \in Seq(E) /\ Len(RemoveAt(s, i)) = Len(s) - 1
         /\ \A j \in 1..(Len(s) - 1) : RemoveAt(s, i)[j] = IF j < i THEN s[j] ELSE s[j + 1]
<1>1. Len(s) \in Nat
  OBVIOUS
<1> DEFINE a == SubSeq(s, 1, i - 1)  b == SubSeq(s, i + 1, Len(s))
<1>2. /\ a \in Seq(E) /\ Len(a) = i - 1 /\ \A j \in 1..(i - 1) : a[j] = s[j]
  <2>1. 1 \in 1..(Len(s) + 1) /\ i - 1 \in (1 - 1)..Len(s) /\ 1 + (i - 1) - 1 = i - 1
    BY <1>1
  <2> QED BY <2>1, SubSeqProperties
<1>3. /\ b \in Seq(E) /\ Len(b) = Len(s) - i /\ \A j \in 1..(Len(s) - i) : b[j] = s[i + j]
  <2>1. i + 1 \in 1..(Len(s) + 1) /\ Len(s) \in ((i + 1) - 1)..Len(s)
    BY <1>1
  <2>2. /\ b \in Seq(E) /\ Len(b) = IF i + 1 <= Len(s) THEN Len(s) - (i + 1) + 1 ELSE 0
        /\ \A j \in 1..(Len(s) - (i + 1) + 1) : b[j] = s[(i + 1) + j - 1]
    BY <2>1, SubSeqProperties
  <2>3. (IF i + 1 <= Len(s) THEN Len(s) - (i + 1) + 1 ELSE 0) = Len(s) - i
    BY <1>1
  <2>4. \A j \in 1..(Len(s) - i) : j \in 1..(Len(s) - (i + 1) + 1) /\ (i + 1) + j - 1 = i + j
    BY <1>1
  <2> QED BY <2>2, <2>3, <2>4
<1>4. RemoveAt(s, i) = a \o b
  BY DEF RemoveAt
<1> HIDE DEF a, b
<1>5. /\ a \o b \in Seq(E) /\ Len(a \o b) = Len(a) + Len(b)
      /\ \A j \in 1..(Len(a) + Len(b)) : (a \o b)[j] = IF j <= Len(a) THEN a[j] ELSE b[j - Len(a)]
  BY <1>2, <1>3, ConcatProperties
<1>6. Len(a) + Len(b) = Len(s) - 1
  BY <1>1, <1>2, <1>3
<1>7. ASSUME NEW j \in 1..(Len(s) - 1) PROVE (a \o b)[j] = IF j < i THEN s[j] ELSE s[j + 1]
  <2>1. (a \o b)[j] = IF j <= i - 1 THEN a[j] ELSE b[j - (i - 1)]
    BY <1>2, <1>5, <1>6
  <2>2. CASE j < i
    <3>1. j <= i - 1 /\ j \in 1..(i - 1)
      BY <1>1, <2>2
    <3> QED BY <2>1, <2>2, <3>1, <1>2
  <2>3. CASE ~(j < i)
    <3>1. ~(j <= i - 1) /\ j - (i - 1) \in 1..(Len(s) - i) /\ i + (j - (i - 1)) = j + 1
      BY <1>1, <2>3
    <3> QED BY <2>1, <2>3, <3>1, <1>3
  <2> QED BY <2>2, <2>3
<1> QED BY <1>4, <1>5, <1>6, <1>7

\* r is s with e in place i.
IsInserted(r, s, i, e) ==
  /\ r \in Seq(Nat) /\ Len(r) = Len(s) + 1
  /\ \A j \in 1..(i - 1) : r[j] = s[j]
  /\ r[i] = e
  /\ \A j \in i..Len(s) : r[j + 1] = s[j]

\* InsertAt makes room.
LEMMA Inserted ==
  ASSUME NEW s \in Seq(Nat), NEW i \in 1..(Len(s) + 1), NEW e \in Nat
  PROVE  IsInserted(InsertAt(s, i, e), s, i, e)
<1>1. Len(s) \in Nat
  OBVIOUS
<1> DEFINE a == SubSeq(s, 1, i - 1)  b == SubSeq(s, i, Len(s))
<1>2. /\ a \in Seq(Nat) /\ Len(a) = i - 1 /\ \A j \in 1..(i - 1) : a[j] = s[j]
  <2>1. 1 \in 1..(Len(s) + 1) /\ i - 1 \in (1 - 1)..Len(s) /\ 1 + (i - 1) - 1 = i - 1
    BY <1>1
  <2> QED BY <2>1, SubSeqProperties
<1>3. /\ b \in Seq(Nat) /\ Len(b) = Len(s) - i + 1 /\ \A j \in 1..(Len(s) - i + 1) : b[j] = s[i + j - 1]
  <2>1. i \in 1..(Len(s) + 1) /\ Len(s) \in (i - 1)..Len(s)
    BY <1>1
  <2>2. /\ b \in Seq(Nat) /\ Len(b) = IF i <= Len(s) THEN Len(s) - i + 1 ELSE 0
        /\ \A j \in 1..(Len(s) - i + 1) : b[j] = s[i + j - 1]
    BY <2>1, SubSeqProperties
  <2>3. (IF i <= Len(s) THEN Len(s) - i + 1 ELSE 0) = Len(s) - i + 1
    BY <1>1
  <2> QED BY <2>2, <2>3
<1>4. InsertAt(s, i, e) = (a \o <<e>>) \o b
  BY DEF InsertAt
<1> HIDE DEF a, b
<1> DEFINE c == a \o <<e>>
<1>5. /\ c \in Seq(Nat) /\ Len(c) = i
      /\ \A j \in 1..i : c[j] = IF j <= i - 1 THEN a[j] ELSE <<e>>[j - (i - 1)]
  <2>1. <<e>> \in Seq(Nat) /\ Len(<<e>>) = 1 /\ i \in Int
    BY <1>1
  <2>2. /\ c \in Seq(Nat) /\ Len(c) = Len(a) + Len(<<e>>)
        /\ \A j \in 1..(Len(a) + Len(<<e>>)) : c[j] = IF j <= Len(a) THEN a[j] ELSE <<e>>[j - Len(a)]
    BY <2>1, <1>2, ConcatProperties
  <2>3. Len(a) + Len(<<e>>) = i
    BY <1>2, <2>1
  <2> HIDE DEF c
  <2> QED BY <2>2, <2>3, <1>2
<1> HIDE DEF c
<1>6. /\ c \o b \in Seq(Nat) /\ Len(c \o b) = Len(c) + Len(b)
      /\ \A j \in 1..(Len(c) + Len(b)) : (c \o b)[j] = IF j <= Len(c) THEN c[j] ELSE b[j - Len(c)]
  BY <1>3, <1>5, ConcatProperties
<1>7. Len(c) + Len(b) = Len(s) + 1
  BY <1>1, <1>3, <1>5
<1>8. ASSUME NEW j \in 1..(i - 1) PROVE (c \o b)[j] = s[j]
  <2>1. j <= i /\ j \in 1..(Len(s) + 1) /\ j <= i - 1 /\ j \in 1..i
    BY <1>1
  <2>2. (c \o b)[j] = c[j]
    BY <2>1, <1>5, <1>6, <1>7
  <2> QED BY <2>1, <2>2, <1>2, <1>5
<1>9. (c \o b)[i] = e
  <2>1. i <= i /\ i \in 1..(Len(s) + 1) /\ ~(i <= i - 1) /\ i \in 1..i /\ i - (i - 1) = 1
    BY <1>1
  <2>2. (c \o b)[i] = c[i]
    BY <2>1, <1>5, <1>6, <1>7
  <2>3. c[i] = <<e>>[1]
    BY <2>1, <1>5
  <2> QED BY <2>2, <2>3
<1>10. ASSUME NEW j \in i..Len(s) PROVE (c \o b)[j + 1] = s[j]
  <2>1. j + 1 \in 1..(Len(s) + 1) /\ ~(j + 1 <= i) /\ (j + 1) - i \in 1..(Len(s) - i + 1)
        /\ i + ((j + 1) - i) - 1 = j
    BY <1>1
  <2>2. (c \o b)[j + 1] = b[(j + 1) - i]
    BY <2>1, <1>5, <1>6, <1>7
  <2> QED BY <2>1, <2>2, <1>3
<1> QED BY <1>4, <1>6, <1>7, <1>8, <1>9, <1>10 DEF c, IsInserted

\* Taking an order out of a list changes nothing but the list and puts nothing there.
LEMMA UnlistedIs ==
  ASSUME NEW m \in Memories, NEW side \in Sides, NEW id, NEW n, n = Unlisted(m, side, id)
  PROVE  /\ n \in Memories
         /\ n.balance = m.balance /\ n.orders = m.orders /\ n.order_id = m.order_id
         /\ n.owed = m.owed /\ n.burnt = m.burnt /\ (m.crashed => n.crashed)
         /\ Fewer(n, m)
<1> DEFINE at == {i \in DOMAIN m.book[side] : m.book[side][i] = id}
<1>0. \A o : SameOrder(o, o)
  BY DEF SameOrder
<1>1. CASE Stale(m, side)
  <2>1. n = [m EXCEPT !.crashed = TRUE]
    BY <1>1 DEF Unlisted, Crash
  <2>2. /\ n.balance = m.balance /\ n.orders = m.orders /\ n.order_id = m.order_id
        /\ n.owed = m.owed /\ n.burnt = m.burnt /\ n.crashed = TRUE /\ n.book = m.book
        /\ n = [balance |-> n.balance, orders |-> n.orders, book |-> n.book, order_id |-> n.order_id,
              crashed |-> n.crashed, owed |-> n.owed, burnt |-> n.burnt]
    BY <2>1, Fields
  <2> QED BY <2>2, <1>0, Fields, MemoryIs DEF Fewer
<1>2. CASE ~Stale(m, side) /\ at = {}
  <2>1. n = m
    BY <1>2 DEF Unlisted
  <2> QED BY <2>1, <1>0 DEF Fewer
<1>3. CASE ~Stale(m, side) /\ at # {}
  <2> DEFINE i == CHOOSE i \in at : TRUE
             list == RemoveAt(m.book[side], i)
  <2>1. i \in at
    BY <1>3
  <2>2. n = [m EXCEPT !.book[side] = list]
    BY <1>3 DEF Unlisted
  <2>3. m.book[side] \in Seq(Nat) /\ i \in 1..Len(m.book[side]) /\ Len(m.book[side]) \in Nat
    BY <2>1, Fields
  <2> HIDE DEF i
  <2>4. /\ list \in Seq(Nat)
        /\ \A j \in DOMAIN list : \E k \in DOMAIN m.book[side] : list[j] = m.book[side][k]
    <3>1. /\ list \in Seq(Nat) /\ Len(list) = Len(m.book[side]) - 1
          /\ \A j \in 1..(Len(m.book[side]) - 1) :
               list[j] = IF j < i THEN m.book[side][j] ELSE m.book[side][j + 1]
      BY <2>3, Removed
    <3> HIDE DEF list
    <3>2. DOMAIN list = 1..(Len(m.book[side]) - 1) /\ DOMAIN m.book[side] = 1..Len(m.book[side])
      BY <2>3, <3>1
    <3>3. \A j \in DOMAIN list : j \in DOMAIN m.book[side] /\ j + 1 \in DOMAIN m.book[side]
      BY <2>3, <3>2
    <3> QED BY <3>1, <3>2, <3>3
  <2> HIDE DEF list
  <2>5. /\ n.balance = m.balance /\ n.orders = m.orders /\ n.order_id = m.order_id
        /\ n.owed = m.owed /\ n.burnt = m.burnt /\ n.crashed = m.crashed
        /\ n.book = [m.book EXCEPT ![side] = list]
        /\ n = [balance |-> n.balance, orders |-> n.orders, book |-> n.book, order_id |-> n.order_id,
              crashed |-> n.crashed, owed |-> n.owed, burnt |-> n.burnt]
    BY <2>2, Fields
  <2>6. n.book \in [Sides -> Seq(Nat)] /\ n.book[side] = list /\ \A s \in Sides \ {side} : n.book[s] = m.book[s]
    BY <2>4, <2>5, Fields
  <2>7. n \in Memories
    BY <2>5, <2>6, Fields, MemoryIs
  <2>8. Fewer(n, m)
    BY <2>4, <2>5, <2>6, <1>0 DEF Fewer
  <2> QED BY <2>5, <2>7, <2>8
<1> QED BY <1>1, <1>2, <1>3

\* n is m with id in a list.
IsListed(n, m, side, id) ==
  /\ n \in Memories
  /\ n.balance = m.balance /\ n.orders = m.orders /\ n.order_id = m.order_id
  /\ n.owed = m.owed /\ n.burnt = m.burnt /\ (m.crashed => n.crashed)
  /\ \A s \in Sides : \A i \in DOMAIN n.book[s] :
       (s = side /\ n.book[s][i] = id) \/ \E j \in DOMAIN m.book[s] : m.book[s][j] = n.book[s][i]

\* Putting an order into a list changes nothing else.
LEMMA ListedIs ==
  ASSUME NEW m \in Memories, NEW side \in Sides, NEW id \in Nat
  PROVE  IsListed(Listed(m, side, id), m, side, id)
<1>0. PICK n : n = Listed(m, side, id)
  OBVIOUS
<1> SUFFICES IsListed(n, m, side, id)
  BY <1>0, Zenon
<1>1. CASE Stale(m, side)
  <2>1. n = [m EXCEPT !.crashed = TRUE]
    BY <1>0, <1>1 DEF Listed, Crash
  <2>2. /\ n.balance = m.balance /\ n.orders = m.orders /\ n.order_id = m.order_id
        /\ n.owed = m.owed /\ n.burnt = m.burnt /\ n.crashed = TRUE /\ n.book = m.book
        /\ n = [balance |-> n.balance, orders |-> n.orders, book |-> n.book, order_id |-> n.order_id,
              crashed |-> n.crashed, owed |-> n.owed, burnt |-> n.burnt]
    <3>1. m = [balance |-> m.balance, orders |-> m.orders, book |-> m.book,
               order_id |-> m.order_id, crashed |-> m.crashed, owed |-> m.owed, burnt |-> m.burnt]
      BY Fields
    <3>2. n = [balance |-> m.balance, orders |-> m.orders, book |-> m.book,
               order_id |-> m.order_id, crashed |-> TRUE, owed |-> m.owed, burnt |-> m.burnt]
      BY <2>1, <3>1
    <3>3. /\ n.balance = m.balance /\ n.orders = m.orders /\ n.order_id = m.order_id
          /\ n.owed = m.owed /\ n.burnt = m.burnt /\ n.crashed = TRUE /\ n.book = m.book
      BY <3>2
    <3> QED BY <3>2, <3>3, Zenon
  <2> QED BY <2>2, Fields, MemoryIs DEF IsListed
<1>2. CASE ~Stale(m, side)
  <2> DEFINE old == m.book[side]
             ahead == {i \in DOMAIN old : Before(m, side, old[i], id)}
             k == Cardinality(ahead) + 1
             list == InsertAt(old, k, id)
  <2>1. n = [m EXCEPT !.book[side] = list]
    BY <1>0, <1>2 DEF Listed
  <2>2. old \in Seq(Nat) /\ Len(old) \in Nat /\ DOMAIN old = 1..Len(old)
    BY Fields
  <2>3. k \in 1..(Len(old) + 1)
    <3>1. IsFiniteSet(1..Len(old)) /\ Cardinality(1..Len(old)) = Len(old)
      BY <2>2, FS_Interval
    <3>2. ahead \subseteq 1..Len(old)
      BY <2>2
    <3> HIDE DEF ahead
    <3>3. Cardinality(ahead) \in Nat /\ Cardinality(ahead) <= Len(old)
      BY <3>1, <3>2, FS_Subset, FS_CardinalityType
    <3> QED BY <3>3, <2>2
  <2> HIDE DEF k, old, ahead
  <2>4. /\ list \in Seq(Nat) /\ Len(list) = Len(old) + 1
        /\ \A j \in 1..(k - 1) : list[j] = old[j]
        /\ list[k] = id
        /\ \A j \in k..Len(old) : list[j + 1] = old[j]
    <3>1. old \in Seq(Nat) /\ k \in 1..(Len(old) + 1) /\ id \in Nat
      BY <2>2, <2>3
    <3>2. IsInserted(list, old, k, id)
      BY <3>1, Inserted, Zenon
    <3> HIDE DEF list
    <3> QED BY <3>2 DEF IsInserted
  <2> HIDE DEF list
  <2>5. \A j \in DOMAIN list : list[j] = id \/ \E i \in DOMAIN old : old[i] = list[j]
    <3> SUFFICES ASSUME NEW j \in DOMAIN list PROVE list[j] = id \/ \E i \in DOMAIN old : old[i] = list[j]
      OBVIOUS
    <3>1. j \in 1..(Len(old) + 1)
      BY <2>4
    <3>2. CASE j < k
      <4>1. j \in DOMAIN old /\ j \in 1..(k - 1)
        BY <3>1, <3>2, <2>2, <2>3
      <4> QED BY <4>1, <2>4
    <3>3. CASE j > k
      <4>1. j - 1 \in DOMAIN old /\ j - 1 \in k..Len(old) /\ (j - 1) + 1 = j
        BY <3>1, <3>3, <2>2, <2>3
      <4>2. list[(j - 1) + 1] = old[j - 1]
        BY <4>1, <2>4
      <4> QED BY <4>1, <4>2
    <3> QED BY <3>1, <3>2, <3>3, <2>3, <2>4
  <2>6. /\ n.balance = m.balance /\ n.orders = m.orders /\ n.order_id = m.order_id
        /\ n.owed = m.owed /\ n.burnt = m.burnt /\ n.crashed = m.crashed
        /\ n.book = [m.book EXCEPT ![side] = list]
        /\ n = [balance |-> n.balance, orders |-> n.orders, book |-> n.book, order_id |-> n.order_id,
              crashed |-> n.crashed, owed |-> n.owed, burnt |-> n.burnt]
    <3>1. m = [balance |-> m.balance, orders |-> m.orders, book |-> m.book,
               order_id |-> m.order_id, crashed |-> m.crashed, owed |-> m.owed, burnt |-> m.burnt]
      BY Fields
    <3> DEFINE b == [m.book EXCEPT ![side] = list]
    <3>2. n = [m EXCEPT !.book = b]
      BY <2>1, Fields
    <3> HIDE DEF b
    <3>3. n = [balance |-> m.balance, orders |-> m.orders, book |-> b,
               order_id |-> m.order_id, crashed |-> m.crashed, owed |-> m.owed, burnt |-> m.burnt]
      BY <3>1, <3>2
    <3>4. /\ n.balance = m.balance /\ n.orders = m.orders /\ n.order_id = m.order_id
          /\ n.owed = m.owed /\ n.burnt = m.burnt /\ n.crashed = m.crashed /\ n.book = b
      BY <3>3
    <3>5. n = [balance |-> n.balance, orders |-> n.orders, book |-> n.book, order_id |-> n.order_id,
               crashed |-> n.crashed, owed |-> n.owed, burnt |-> n.burnt]
      BY <3>3, <3>4, Zenon
    <3> QED BY <3>4, <3>5 DEF b
  <2>7. n.book \in [Sides -> Seq(Nat)] /\ n.book[side] = list /\ \A s \in Sides \ {side} : n.book[s] = m.book[s]
    BY <2>4, <2>6, Fields
  <2>8. n \in Memories
    BY <2>6, <2>7, Fields, MemoryIs
  <2> QED BY <2>5, <2>6, <2>7, <2>8 DEF old, IsListed
<1> QED BY <1>1, <1>2

------------------------------------------------------------------------------
(* What orders have frozen                                                  *)

\* What an order adds to what a user has frozen of an asset.
Part(m, id, u, a) ==
  IF id \in DOMAIN m.orders /\ m.orders[id].user = u /\ Gives(m.orders[id].side) = a
  THEN m.orders[id].freeze ELSE 0

\* Ids up to a bound are finitely many.
LEMMA Finite == ASSUME NEW k \in Nat, NEW D, D \subseteq 1..k PROVE IsFiniteSet(D)
<1>1. IsFiniteSet(1..k)
  BY FS_Interval
<1> QED BY <1>1, FS_Subset

\* The fields of an order in a memory.
LEMMA OrderFields ==
  ASSUME NEW m \in Memories, NEW i \in DOMAIN m.orders
  PROVE  /\ m.orders[i] \in Orders
         /\ m.orders[i].user \in Users /\ m.orders[i].side \in Sides
         /\ m.orders[i].price \in Nat \ {0} /\ m.orders[i].left \in Nat
         /\ m.orders[i].freeze \in Nat /\ m.orders[i].mm \in {0, NORMAL, CANCEL}
<1>1. m.orders[i] \in Orders
  BY Fields
<1> QED BY <1>1 DEF Orders

\* What the orders of a user have frozen is no less than what one of them has.
LEMMA HeldIs ==
  ASSUME NEW m \in Memories, NEW k \in Nat, DOMAIN m.orders \subseteq 1..k, NEW u, NEW a
  PROVE  HeldBack(m, u, a) \in Nat /\ \A id : Part(m, id, u, a) \in Nat /\ Part(m, id, u, a) <= HeldBack(m, u, a)
<1> DEFINE f == [i \in DOMAIN m.orders |->
                   IF m.orders[i].user = u /\ Gives(m.orders[i].side) = a THEN m.orders[i].freeze ELSE 0]
<1>1. HeldBack(m, u, a) = SumFunctionOnSet(f, DOMAIN m.orders)
  BY DEF HeldBack, SumFunction
<1>2. \A i \in DOMAIN m.orders : f[i] \in Nat /\ Part(m, i, u, a) = f[i]
  BY OrderFields DEF Part
<1>3. \A i : i \notin DOMAIN m.orders => Part(m, i, u, a) = 0
  BY DEF Part
<1> HIDE DEF f
<1>4. IsFiniteSet(DOMAIN m.orders)
  BY Finite
<1>5. /\ SumFunctionOnSet(f, DOMAIN m.orders) \in Nat
      /\ \A i \in DOMAIN m.orders : f[i] <= SumFunctionOnSet(f, DOMAIN m.orders)
  BY <1>2, <1>4, SumOfNat
<1> QED BY <1>1, <1>2, <1>3, <1>5

\* If one order changes, it changes by what that order froze.
LEMMA HeldChanges ==
  ASSUME NEW m \in Memories, NEW n \in Memories, NEW k \in Nat,
         DOMAIN m.orders \subseteq 1..k, DOMAIN n.orders \subseteq 1..k, NEW id,
         (DOMAIN n.orders) \ {id} = (DOMAIN m.orders) \ {id},
         \A i \in (DOMAIN m.orders) \ {id} : n.orders[i] = m.orders[i],
         NEW u, NEW a
  PROVE  HeldBack(n, u, a) = HeldBack(m, u, a) - Part(m, id, u, a) + Part(n, id, u, a)
<1> DEFINE f == [i \in DOMAIN m.orders |->
                   IF m.orders[i].user = u /\ Gives(m.orders[i].side) = a THEN m.orders[i].freeze ELSE 0]
           g == [i \in DOMAIN n.orders |->
                   IF n.orders[i].user = u /\ Gives(n.orders[i].side) = a THEN n.orders[i].freeze ELSE 0]
           S == DOMAIN m.orders
           T == DOMAIN n.orders
<1>1. HeldBack(m, u, a) = SumFunctionOnSet(f, S) /\ HeldBack(n, u, a) = SumFunctionOnSet(g, T)
  BY DEF HeldBack, SumFunction
<1>2. \A i \in S : f[i] \in Int
  BY OrderFields
<1>3. \A i \in T : g[i] \in Int
  BY OrderFields
<1>4. \A i \in S \ {id} : g[i] = f[i]
  OBVIOUS
<1>5. Part(m, id, u, a) = (IF id \in S THEN f[id] ELSE 0) /\ Part(n, id, u, a) = (IF id \in T THEN g[id] ELSE 0)
  BY DEF Part
<1>6. IsFiniteSet(S) /\ IsFiniteSet(T) /\ S \ {id} = T \ {id}
  BY Finite
<1> HIDE DEF f, g, S, T
<1>7. SumFunctionOnSet(g, T) = SumFunctionOnSet(f, S)
           - (IF id \in S THEN f[id] ELSE 0) + (IF id \in T THEN g[id] ELSE 0)
  BY <1>2, <1>3, <1>4, <1>6, SumUpdate
<1> QED BY <1>1, <1>5, <1>7

\* It depends on orders only.
LEMMA HeldSame ==
  ASSUME NEW m, NEW n, n.orders = m.orders
  PROVE  \A u, a : HeldBack(n, u, a) = HeldBack(m, u, a)
  BY DEF HeldBack

\* Fewer orders and shorter lists stay lists of orders of their side.
LEMMA ListingKept ==
  ASSUME NEW m, NEW n, NEW k, Listing(m, k), Fewer(n, m)
  PROVE  Listing(n, k)
<1>1. DOMAIN n.orders \subseteq 1..k
  BY DEF Listing, Fewer
<1>2. ASSUME NEW s \in Sides, NEW i \in DOMAIN n.book[s]
      PROVE  /\ n.book[s][i] \in 1..k
             /\ n.book[s][i] \in DOMAIN n.orders => n.orders[n.book[s][i]].side = s
  <2>1. PICK j \in DOMAIN m.book[s] : m.book[s][j] = n.book[s][i]
    BY DEF Fewer
  <2>2. m.book[s][j] \in 1..k /\ (m.book[s][j] \in DOMAIN m.orders => m.orders[m.book[s][j]].side = s)
    BY DEF Listing
  <2> QED BY <2>1, <2>2 DEF Fewer, SameOrder
<1> QED BY <1>1, <1>2 DEF Listing

\* Fewer of fewer is fewer.
LEMMA FewerTwice ==
  ASSUME NEW m, NEW n, NEW l, Fewer(n, m), Fewer(l, n)
  PROVE  Fewer(l, m)
<1>1. DOMAIN l.orders \subseteq DOMAIN m.orders
  BY DEF Fewer
<1>2. \A i \in DOMAIN l.orders : SameOrder(l.orders[i], m.orders[i])
  BY DEF Fewer, SameOrder
<1>3. ASSUME NEW s \in Sides, NEW i \in DOMAIN l.book[s]
      PROVE  \E j \in DOMAIN m.book[s] : m.book[s][j] = l.book[s][i]
  <2>1. PICK j \in DOMAIN n.book[s] : n.book[s][j] = l.book[s][i]
    BY DEF Fewer
  <2>2. PICK h \in DOMAIN m.book[s] : m.book[s][h] = n.book[s][j]
    BY DEF Fewer
  <2> QED BY <2>1, <2>2
<1> QED BY <1>1, <1>2, <1>3 DEF Fewer

\* Forget takes one order out of the index.
LEMMA ForgetIs ==
  ASSUME NEW m \in Memories, NEW id, NEW n, n = Forget(m, id)
  PROVE  /\ n \in Memories /\ Fewer(n, m)
         /\ n.balance = m.balance /\ n.book = m.book /\ n.order_id = m.order_id
         /\ n.crashed = m.crashed /\ n.owed = m.owed /\ n.burnt = m.burnt
         /\ DOMAIN n.orders = (DOMAIN m.orders) \ {id}
         /\ \A i \in (DOMAIN m.orders) \ {id} : n.orders[i] = m.orders[i]
<1> DEFINE o == [i \in (DOMAIN m.orders) \ {id} |-> m.orders[i]]
<1>1. n = [m EXCEPT !.orders = o]
  BY DEF Forget
<1>2. o \in [(DOMAIN m.orders) \ {id} -> Orders] /\ DOMAIN o = (DOMAIN m.orders) \ {id}
      /\ DOMAIN o \in SUBSET Nat /\ \A i \in (DOMAIN m.orders) \ {id} : o[i] = m.orders[i]
  BY Fields
<1> HIDE DEF o
<1>3. /\ n.balance = m.balance /\ n.book = m.book /\ n.order_id = m.order_id
      /\ n.crashed = m.crashed /\ n.owed = m.owed /\ n.burnt = m.burnt /\ n.orders = o
      /\ n = [balance |-> n.balance, orders |-> n.orders, book |-> n.book, order_id |-> n.order_id,
              crashed |-> n.crashed, owed |-> n.owed, burnt |-> n.burnt]
  BY <1>1, Fields
<1>4. n \in Memories
  BY <1>2, <1>3, Fields, MemoryIs
<1>5. Fewer(n, m)
  BY <1>2, <1>3 DEF Fewer, SameOrder
<1> QED BY <1>2, <1>3, <1>4, <1>5

\* An account that changes.
WithAccount(m, u, a, acc) == [m EXCEPT !.balance[u][a] = acc]

AccountIs(n, m, u, a, acc) ==
  /\ n \in Memories
  /\ n.orders = m.orders /\ n.book = m.book /\ n.order_id = m.order_id
  /\ n.crashed = m.crashed /\ n.owed = m.owed /\ n.burnt = m.burnt
  /\ n.balance[u][a] = acc
  /\ \A v \in Users, b \in Assets : v # u \/ b # a => n.balance[v][b] = m.balance[v][b]

\* An update of one account.
LEMMA AccountSet ==
  ASSUME NEW m \in Memories, NEW u \in Users, NEW a \in Assets, NEW acc, Stored(acc)
  PROVE  AccountIs(WithAccount(m, u, a, acc), m, u, a, acc)
<1> DEFINE n == WithAccount(m, u, a, acc)
<1>1. acc \in Account
  BY DEF Stored
<1> DEFINE b == [m.balance EXCEPT ![u][a] = acc]
<1>2. n = [m EXCEPT !.balance = b]
  BY Fields DEF WithAccount
<1>3. b \in [Users -> [Assets -> Account]] /\ b[u][a] = acc
      /\ \A v \in Users, c \in Assets : v # u \/ c # a => b[v][c] = m.balance[v][c]
  BY <1>1, Fields
<1> HIDE DEF b, n
<1>4. /\ n.balance = b /\ n.book = m.book /\ n.order_id = m.order_id /\ n.orders = m.orders
      /\ n.crashed = m.crashed /\ n.owed = m.owed /\ n.burnt = m.burnt
      /\ n = [balance |-> n.balance, orders |-> n.orders, book |-> n.book, order_id |-> n.order_id,
              crashed |-> n.crashed, owed |-> n.owed, burnt |-> n.burnt]
  <2>1. m = [balance |-> m.balance, orders |-> m.orders, book |-> m.book,
             order_id |-> m.order_id, crashed |-> m.crashed, owed |-> m.owed, burnt |-> m.burnt]
    BY Fields
  <2>2. n = [balance |-> b, orders |-> m.orders, book |-> m.book,
             order_id |-> m.order_id, crashed |-> m.crashed, owed |-> m.owed, burnt |-> m.burnt]
    BY <1>2, <2>1
  <2>3. /\ n.balance = b /\ n.book = m.book /\ n.order_id = m.order_id /\ n.orders = m.orders
        /\ n.crashed = m.crashed /\ n.owed = m.owed /\ n.burnt = m.burnt
    BY <2>2
  <2> QED BY <2>2, <2>3, Zenon
<1>5. n \in Memories
  BY <1>3, <1>4, Fields, MemoryIs
<1>6. AccountIs(n, m, u, a, acc)
  BY <1>3, <1>4, <1>5 DEF AccountIs
<1> QED BY <1>6 DEF n

------------------------------------------------------------------------------
(* Orders that end                                                          *)

\* order_finish gives an order back what it froze, if the account has it, and drops it: nothing
\* is made or lost, and what accounts have frozen stays explained.
LEMMA FinishedIs ==
  ASSUME NEW m, NEW k, Shaped(m, k), NEW id \in DOMAIN m.orders, Mult(m.orders[id].freeze),
         NEW n, n = order_finish(m, id)
  PROVE  /\ Shaped(n, k) /\ Fewer(n, m)
         /\ n.order_id = m.order_id /\ n.owed = m.owed /\ (m.crashed => n.crashed)
         /\ \A i \in DOMAIN n.orders : n.orders[i] = m.orders[i]
         /\ (DOMAIN m.orders) \ {id} \subseteq DOMAIN n.orders
         /\ \A a \in Assets : InAll(n, a) = InAll(m, a)
         /\ \A u \in Users, a \in Assets : Available(n, u, a) >= Available(m, u, a)
         /\ m.balance[m.orders[id].user][Gives(m.orders[id].side)].freeze >= m.orders[id].freeze =>
              id \notin DOMAIN n.orders /\ (Exact(m) => Exact(n))
<1> DEFINE o == m.orders[id]  v == o.user  g == Gives(o.side)  f == o.freeze
           out == Unlisted(m, o.side, id)
<1>1. m \in Memories /\ k \in Nat /\ Listing(m, k) /\ Whole(m) /\ Lacking(m)
  BY DEF Shaped
<1>2. o.side \in Sides /\ v \in Users /\ f \in Nat /\ Mult(f) /\ g \in Assets
  BY <1>1, OrderFields, TwoAssets
<1>3. /\ out \in Memories
      /\ out.balance = m.balance /\ out.orders = m.orders /\ out.order_id = m.order_id
      /\ out.owed = m.owed /\ out.burnt = m.burnt /\ (m.crashed => out.crashed)
      /\ Fewer(out, m)
  BY <1>1, <1>2, UnlistedIs
<1> DEFINE acc == m.balance[v][g]  new == balance_unfreeze(acc, f)
<1>4. Stored(acc) /\ Stored(new)
  <2>1. Stored(acc)
    BY <1>1, <1>2 DEF Whole
  <2> HIDE DEF acc
  <2> QED BY <2>1, <1>2, Accounts
<1>5. CanSub(acc, "freeze", f) <=> acc.freeze >= f
  <2> HIDE DEF acc
  <2> QED BY <1>2, <1>4, Accounts DEF CanSub
<1>6. n = IF CanSub(acc, "freeze", f)
          THEN Forget([out EXCEPT !.balance[v][g] = balance_unfreeze(out.balance[v][g], f)], id)
          ELSE out
  BY DEF order_finish
<1>7. acc.available \in Nat /\ acc.freeze \in Nat
  BY <1>4 DEF Stored, Account
<1>8. acc.freeze >= f => new = [available |-> acc.available + f, freeze |-> acc.freeze - f]
  <2> HIDE DEF acc
  <2> QED BY <1>2, <1>4, AccountMoves
<1>9. m.balance[v][g] = acc
  OBVIOUS
<1>0. m.orders[id] = o /\ o.user = v /\ Gives(o.side) = g /\ o.freeze = f
  OBVIOUS
<1> HIDE DEF o, v, g, f, out, acc, new
<1>10. CASE acc.freeze >= f
  <2> DEFINE paid == [out EXCEPT !.balance[v][g] = new]
  <2>1. n = Forget(paid, id)
    BY <1>3, <1>5, <1>6, <1>9, <1>10 DEF new
  <2>0. paid = WithAccount(out, v, g, new)
    BY DEF WithAccount
  <2> HIDE DEF paid
  <2>2. /\ paid \in Memories
        /\ paid.orders = out.orders /\ paid.book = out.book /\ paid.order_id = out.order_id
        /\ paid.crashed = out.crashed /\ paid.owed = out.owed /\ paid.burnt = out.burnt
        /\ paid.balance[v][g] = new
        /\ \A u \in Users, b \in Assets : u # v \/ b # g => paid.balance[u][b] = out.balance[u][b]
    <3>1. AccountIs(paid, out, v, g, new)
      BY <2>0, <1>2, <1>3, <1>4, AccountSet, Zenon
    <3> QED BY <3>1 DEF AccountIs
  <2>3. /\ n \in Memories /\ Fewer(n, paid)
        /\ n.balance = paid.balance /\ n.book = paid.book /\ n.order_id = paid.order_id
        /\ n.crashed = paid.crashed /\ n.owed = paid.owed /\ n.burnt = paid.burnt
        /\ DOMAIN n.orders = (DOMAIN paid.orders) \ {id}
        /\ \A i \in (DOMAIN paid.orders) \ {id} : n.orders[i] = paid.orders[i]
    BY <2>1, <2>2, ForgetIs
  <2>4. /\ n.order_id = m.order_id /\ n.owed = m.owed /\ n.burnt = m.burnt /\ (m.crashed => n.crashed)
        /\ DOMAIN n.orders = (DOMAIN m.orders) \ {id}
        /\ \A i \in DOMAIN n.orders : n.orders[i] = m.orders[i]
        /\ n.balance[v][g] = new
        /\ \A u \in Users, b \in Assets : u # v \/ b # g => n.balance[u][b] = m.balance[u][b]
    BY <1>3, <2>2, <2>3
  <2>5. Fewer(n, m)
    <3>1. Fewer(paid, out)
      BY <2>2, <1>3, <1>0 DEF Fewer, SameOrder
    <3> QED BY <3>1, <2>3, <1>3, FewerTwice
  <2>6. Whole(n)
    BY <2>4, <1>1, <1>4 DEF Whole
  <2>7. Shaped(n, k)
    <3>1. Listing(n, k)
      BY <1>1, <2>5, ListingKept
    <3>2. Lacking(n)
      BY <1>1, <2>4 DEF Lacking
    <3> QED BY <3>1, <3>2, <2>6, <2>3, <1>1 DEF Shaped
  <2>8. ASSUME NEW a \in Assets PROVE InAll(n, a) = InAll(m, a)
    <3>1. /\ InAll(m, a) \in Int
          /\ InAll(n, a) = InAll(m, a) - (m.balance[v][a].available + m.balance[v][a].freeze)
                          + (n.balance[v][a].available + n.balance[v][a].freeze)
                          - m.burnt[a] + n.burnt[a]
      BY <1>1, <1>2, <2>3, <2>4, InAllChanges
    <3>2. m.burnt[a] \in Nat /\ n.burnt[a] = m.burnt[a]
      BY <1>1, <2>4, Fields
    <3>3. CASE a = g
      <4>1. n.balance[v][a].available + n.balance[v][a].freeze = m.balance[v][a].available + m.balance[v][a].freeze
            /\ m.balance[v][a].available + m.balance[v][a].freeze \in Int
        BY <3>3, <1>2, <1>7, <1>8, <1>9, <1>10, <2>4
      <4> QED BY <3>1, <3>2, <4>1
    <3>4. CASE a # g
      <4>1. n.balance[v][a] = m.balance[v][a] /\ m.balance[v][a] \in Account
        BY <3>4, <1>1, <1>2, <2>4, Fields
      <4>2. m.balance[v][a].available \in Nat /\ m.balance[v][a].freeze \in Nat
        BY <4>1 DEF Account
      <4> QED BY <3>1, <3>2, <4>1, <4>2
    <3> QED BY <3>3, <3>4
  <2>9. ASSUME NEW u \in Users, NEW a \in Assets PROVE Available(n, u, a) >= Available(m, u, a)
    <3>1. CASE u = v /\ a = g
      BY <3>1, <1>2, <1>7, <1>8, <1>9, <1>10, <2>4 DEF Available
    <3>2. CASE ~(u = v /\ a = g)
      <4>1. n.balance[u][a] = m.balance[u][a] /\ m.balance[u][a] \in Account
        BY <3>2, <1>1, <2>4, Fields
      <4>2. m.balance[u][a].available \in Nat
        BY <4>1 DEF Account
      <4> QED BY <4>1, <4>2 DEF Available
    <3> QED BY <3>1, <3>2
  <2>10. id \notin DOMAIN n.orders
    BY <2>4
  <2>11. ASSUME Exact(m) PROVE Exact(n)
    <3> SUFFICES ASSUME NEW u \in Users, NEW a \in Assets
                 PROVE  n.balance[u][a].freeze = HeldBack(n, u, a) + n.owed[u][a]
      BY DEF Exact
    <3>1. m.balance[u][a].freeze = HeldBack(m, u, a) + m.owed[u][a] /\ m.owed[u][a] \in Int
      BY <2>11, <1>1, Fields DEF Exact
    <3>2. DOMAIN m.orders \subseteq 1..k
      BY <1>1 DEF Listing
    <3>3. HeldBack(m, u, a) \in Nat /\ Part(m, id, u, a) \in Nat
      BY <1>1, <3>2, HeldIs
    <3>4. HeldBack(n, u, a) = HeldBack(m, u, a) - Part(m, id, u, a) + Part(n, id, u, a)
      <4>1. (DOMAIN n.orders) \ {id} = (DOMAIN m.orders) \ {id} /\ DOMAIN n.orders \subseteq 1..k
        BY <2>4, <3>2
      <4>2. \A i \in (DOMAIN m.orders) \ {id} : n.orders[i] = m.orders[i]
        BY <2>4
      <4> QED BY <1>1, <2>3, <3>2, <4>1, <4>2, HeldChanges
    <3>5. Part(n, id, u, a) = 0 /\ Part(m, id, u, a) = IF u = v /\ a = g THEN f ELSE 0
      BY <2>10, <1>0 DEF Part
    <3>6. n.owed[u][a] = m.owed[u][a]
      BY <2>4
    <3>7. n.balance[u][a].freeze = m.balance[u][a].freeze - (IF u = v /\ a = g THEN f ELSE 0)
      <4>1. CASE u = v /\ a = g
        BY <4>1, <1>2, <1>7, <1>8, <1>9, <1>10, <2>4
      <4>2. CASE ~(u = v /\ a = g)
        <5>1. n.balance[u][a] = m.balance[u][a] /\ m.balance[u][a].freeze \in Int
          BY <4>2, <2>4, <3>1, <3>3
        <5> QED BY <4>2, <5>1
      <4> QED BY <4>1, <4>2
    <3> QED BY <3>1, <3>3, <3>4, <3>5, <3>6, <3>7, <1>2
  <2> QED BY <2>4, <2>5, <2>7, <2>8, <2>9, <2>10, <2>11, <1>0
<1>11. CASE ~(acc.freeze >= f)
  <2>1. n = out
    BY <1>5, <1>6, <1>11
  <2>2. Listing(n, k)
    BY <1>1, <1>3, <2>1, ListingKept
  <2>3. Shaped(n, k)
    BY <1>1, <1>3, <2>1, <2>2 DEF Shaped, Whole, Lacking
  <2>4. \A a \in Assets : InAll(n, a) = InAll(m, a)
    BY <1>3, <2>1, InAllSame
  <2>5. ASSUME NEW u \in Users, NEW a \in Assets PROVE Available(n, u, a) >= Available(m, u, a)
    <3>1. m.balance[u][a] \in Account
      BY <1>1, Fields
    <3>2. m.balance[u][a].available \in Nat
      BY <3>1 DEF Account
    <3> QED BY <1>3, <2>1, <3>2 DEF Available
  <2> QED BY <1>0, <1>3, <1>9, <1>11, <2>1, <2>3, <2>4, <2>5
<1> QED BY <1>10, <1>11

\* An order makes way, or ends when all its money or stock is spent.
LEMMA GoodFinish ==
  ASSUME NEW m, NEW k, Good(m, k), NEW id \in DOMAIN m.orders, NEW n, n = order_finish(m, id)
  PROVE  /\ Good(n, k) /\ Fewer(n, m) /\ n.order_id = m.order_id
         /\ SoundMem(n) => SoundMem(m)
         /\ \A u \in Users, a \in Assets : Available(n, u, a) >= Available(m, u, a)
<1>1. Shaped(m, k) /\ Promised(m) /\ m \in Memories /\ k \in Nat /\ DOMAIN m.orders \subseteq 1..k
  BY DEF Good, Shaped, Listing
<1>2. m.orders[id].side \in Sides /\ m.orders[id].user \in Users /\ m.orders[id].left \in Nat /\ m.orders[id].price \in Nat
      /\ Gives(m.orders[id].side) \in Assets
  BY <1>1, OrderFields, TwoAssets
<1>3. Mult(m.orders[id].freeze)
  BY <1>1, <1>2, WorthType DEF Promised
<1>4. /\ Shaped(n, k) /\ Fewer(n, m)
      /\ n.order_id = m.order_id /\ n.owed = m.owed /\ (m.crashed => n.crashed)
      /\ \A i \in DOMAIN n.orders : n.orders[i] = m.orders[i]
      /\ \A a \in Assets : InAll(n, a) = InAll(m, a)
      /\ \A u \in Users, a \in Assets : Available(n, u, a) >= Available(m, u, a)
      /\ m.balance[m.orders[id].user][Gives(m.orders[id].side)].freeze >= m.orders[id].freeze =>
              (Exact(m) => Exact(n))
  BY <1>1, <1>3, FinishedIs
<1>5. SoundMem(n) => SoundMem(m)
  BY <1>4 DEF SoundMem
<1>6. Promised(n)
  BY <1>1, <1>4 DEF Promised, Fewer
<1>7. ASSUME SoundMem(n) PROVE Exact(n) /\ (FeesFit => Kept(n))
  <2>1. SoundMem(m) /\ Exact(m) /\ (FeesFit => Kept(m))
    BY <1>5, <1>7 DEF Good
  <2> DEFINE v == m.orders[id].user  g == Gives(m.orders[id].side)
  <2>2. m.balance[v][g].freeze = HeldBack(m, v, g) + m.owed[v][g] /\ m.owed[v][g] >= 0 /\ m.owed[v][g] \in Int
    BY <2>1, <1>1, <1>2, Fields DEF Exact, SoundMem
  <2>3. HeldBack(m, v, g) \in Nat /\ Part(m, id, v, g) <= HeldBack(m, v, g) /\ Part(m, id, v, g) = m.orders[id].freeze
        /\ m.orders[id].freeze \in Nat
    <3>1. Part(m, id, v, g) = m.orders[id].freeze
      BY DEF Part
    <3>2. HeldBack(m, v, g) \in Nat /\ Part(m, id, v, g) <= HeldBack(m, v, g)
      BY <1>1, HeldIs
    <3> QED BY <3>1, <3>2, <1>1, OrderFields
  <2>4. m.balance[v][g].freeze >= m.orders[id].freeze
    BY <2>2, <2>3
  <2> QED BY <2>1, <2>4, <1>4 DEF Kept
<1> QED BY <1>4, <1>5, <1>6, <1>7 DEF Good

------------------------------------------------------------------------------
(* Deals                                                                    *)

\* An order that changes, or comes.
WithOrder(m, id, o) ==
  [m EXCEPT !.orders = [i \in DOMAIN @ \cup {id} |-> IF i = id THEN o ELSE @[i]]]

OrderIs(n, m, id, o) ==
  /\ n \in Memories
  /\ n.balance = m.balance /\ n.book = m.book /\ n.order_id = m.order_id
  /\ n.crashed = m.crashed /\ n.owed = m.owed /\ n.burnt = m.burnt
  /\ DOMAIN n.orders = DOMAIN m.orders \cup {id}
  /\ n.orders[id] = o
  /\ \A i \in DOMAIN m.orders \ {id} : n.orders[i] = m.orders[i]

\* An update of one order.
LEMMA OrderPut ==
  ASSUME NEW m \in Memories, NEW id \in Nat, NEW o \in Orders
  PROVE  OrderIs(WithOrder(m, id, o), m, id, o)
<1> DEFINE n == WithOrder(m, id, o)
           os == [i \in DOMAIN m.orders \cup {id} |-> IF i = id THEN o ELSE m.orders[i]]
<1>1. n = [m EXCEPT !.orders = os]
  BY Fields DEF WithOrder
<1>2. /\ DOMAIN os = DOMAIN m.orders \cup {id} /\ DOMAIN os \in SUBSET Nat
      /\ os \in [DOMAIN os -> Orders] /\ os[id] = o
      /\ \A i \in DOMAIN m.orders \ {id} : os[i] = m.orders[i]
  BY Fields
<1> HIDE DEF os, n
<1>3. m = [balance |-> m.balance, orders |-> m.orders, book |-> m.book,
           order_id |-> m.order_id, crashed |-> m.crashed, owed |-> m.owed, burnt |-> m.burnt]
  BY Fields
<1>4. n = [balance |-> m.balance, orders |-> os, book |-> m.book,
           order_id |-> m.order_id, crashed |-> m.crashed, owed |-> m.owed, burnt |-> m.burnt]
  BY <1>1, <1>3
<1>5. /\ n.balance = m.balance /\ n.book = m.book /\ n.order_id = m.order_id /\ n.orders = os
      /\ n.crashed = m.crashed /\ n.owed = m.owed /\ n.burnt = m.burnt
  BY <1>4
<1>6. n = [balance |-> n.balance, orders |-> n.orders, book |-> n.book, order_id |-> n.order_id,
           crashed |-> n.crashed, owed |-> n.owed, burnt |-> n.burnt]
  BY <1>4, <1>5, Zenon
<1>7. n \in Memories
  BY <1>2, <1>5, <1>6, Fields, MemoryIs
<1>8. OrderIs(n, m, id, o)
  BY <1>2, <1>5, <1>7 DEF OrderIs
<1> QED BY <1>8 DEF n

\* What a deal leaves of the maker's order.
Shrinks(o, amount) ==
  [user |-> o.user, side |-> o.side, price |-> o.price, left |-> o.left - amount,
   freeze |-> o.freeze - Worth(Gives(o.side), amount, o.price), mm |-> o.mm]

\* A deal before the maker's order ends.
Bargain(m, taker, id, amount) ==
  WithOrder(Settled(Settled(m, taker.user, taker.side, "available", amount, m.orders[id].price, TakerFee),
                    m.orders[id].user, m.orders[id].side, "freeze", amount, m.orders[id].price, MakerFee),
            id, Shrinks(m.orders[id], amount))

Deals(taker, u, side) == taker.user = u /\ taker.side = side /\ u \in Users /\ side \in Sides

\* What a deal keeps, and what it takes of what the taker has.
IsBargain(n, m, k, u, side, id, amount) ==
  /\ Shaped(n, k) /\ Fewer(n, m) /\ n.order_id = m.order_id
  /\ DOMAIN n.orders = DOMAIN m.orders /\ n.book = m.book
  /\ n.crashed = m.crashed /\ n.owed = m.owed
  /\ n.orders[id] = Shrinks(m.orders[id], amount)
  /\ \A i \in DOMAIN m.orders \ {id} : n.orders[i] = m.orders[i]
  /\ SoundMem(m) =>
       /\ Exact(n) /\ (FeesFit => Kept(n))
       /\ Available(n, u, Gives(side)) >=
            Available(m, u, Gives(side)) - Worth(Gives(side), amount, m.orders[id].price)

\* The two sides of a deal and what is left of the resting order keep a good memory good.
LEMMA BargainIs ==
  ASSUME NEW m, NEW k, Good(m, k), NEW taker, NEW u, NEW side, Deals(taker, u, side),
         NEW id \in DOMAIN m.orders, m.orders[id].side = Other(side),
         NEW amount \in Nat, amount <= m.orders[id].left,
         SoundMem(m) => Available(m, u, Gives(side)) >= Worth(Gives(side), amount, m.orders[id].price)
  PROVE  IsBargain(Bargain(m, taker, id, amount), m, k, u, side, id, amount)
<1> DEFINE o == m.orders[id]  v == o.user  p == o.price
           g == Gives(side)  t == Gets(side)
           w == Worth(g, amount, p)  x == Worth(t, amount, p)
           paid  == Settled(m, taker.user, taker.side, "available", amount, p, TakerFee)
           dealt == Settled(paid, v, o.side, "freeze", amount, p, MakerFee)
           q == Shrinks(o, amount)
           n == WithOrder(dealt, id, q)
<1>1. /\ m \in Memories /\ k \in Nat /\ Listing(m, k) /\ Whole(m) /\ Lacking(m) /\ Promised(m)
      /\ DOMAIN m.orders \subseteq 1..k /\ (SoundMem(m) => Exact(m) /\ (FeesFit => Kept(m)))
  BY DEF Good, Shaped, Listing
<1>2. /\ u \in Users /\ side \in Sides /\ o.side = Other(side) /\ taker.user = u /\ taker.side = side
      /\ o.side \in Sides /\ v \in Users /\ p \in Nat \ {0} /\ o.left \in Nat /\ o.freeze \in Nat
      /\ o.mm \in {0, NORMAL, CANCEL} /\ id \in 1..k /\ o \in Orders
  BY <1>1, OrderFields DEF Deals
<1>3. /\ Gives(o.side) = t /\ Gets(o.side) = g /\ g \in Assets /\ t \in Assets /\ g # t
      /\ \A a \in Assets : a = g \/ a = t
  BY <1>2, TwoAssets
<1>4. w \in Nat /\ x \in Nat /\ p \in Nat
  BY <1>2, <1>3, WorthType
<1>5. IsSettled(paid, m, u, g, t, "available", w, x, TakerFee)
  BY <1>1, <1>2, <1>4, SettledIs, SpotAssumption
<1>6. paid \in Memories /\ Whole(paid)
  BY <1>5 DEF IsSettled
<1>7. IsSettled(dealt, paid, v, t, g, "freeze", x, w, MakerFee)
  <2>1. IsSettled(dealt, paid, v, Gives(o.side), Gets(o.side), "freeze",
                  Worth(Gives(o.side), amount, p), Worth(Gets(o.side), amount, p), MakerFee)
    <3> HIDE DEF paid, v, p
    <3>1. v \in Users /\ o.side \in Sides /\ p \in Nat /\ "freeze" \in {"available", "freeze"}
          /\ MakerFee \in 0..(Unit - 1) /\ amount \in Nat
      BY <1>2, <1>4, SpotAssumption DEF v, p
    <3> HIDE DEF o
    <3> QED BY <1>6, <3>1, SettledIs, Zenon
  <2> QED BY <2>1, <1>3
<1>8. /\ o.freeze = Worth(t, o.left, p) /\ x <= o.freeze
      /\ Worth(t, o.left - amount, p) = o.freeze - x /\ Mult(o.freeze - x)
  <2>1. o.freeze = Worth(t, o.left, p)
    BY <1>1, <1>3 DEF Promised
  <2>2. o.left - amount \in Nat /\ amount <= o.left
    BY <1>2
  <2>3. Worth(t, o.left - amount, p) = Worth(t, o.left, p) - x
    BY <1>2, <1>3, <1>4, <2>2, WorthSplits
  <2>4. Worth(t, o.left - amount, p) \in Nat /\ Mult(Worth(t, o.left - amount, p)) /\ Worth(t, o.left, p) \in Nat
    BY <1>2, <1>3, <1>4, <2>2, WorthType
  <2> QED BY <2>1, <2>3, <2>4, <1>4
<1>9. /\ q \in Orders /\ q.user = v /\ q.side = o.side /\ q.price = p /\ q.mm = o.mm
      /\ q.freeze = o.freeze - x /\ q.left = o.left - amount
  <2>1. q = [user |-> v, side |-> o.side, price |-> p, left |-> o.left - amount,
             freeze |-> o.freeze - x, mm |-> o.mm]
    BY <1>3 DEF Shrinks
  <2>2. o.left - amount \in Nat /\ o.freeze - x \in Nat
    BY <1>2, <1>4, <1>8
  <2> HIDE DEF q
  <2> QED BY <2>1, <2>2, <1>2 DEF Orders
<1>10. dealt \in Memories
  BY <1>7 DEF IsSettled
<1>11. OrderIs(n, dealt, id, q)
  <2> HIDE DEF dealt, q, o
  <2>1. id \in Nat
    BY <1>2
  <2> QED BY <2>1, <1>9, <1>10, OrderPut, Zenon
<1>12. n = Bargain(m, taker, id, amount)
  BY DEF Bargain
<1>13. Available(m, u, g) = m.balance[u][g].available
  BY DEF Available
<1>0. m.orders[id] = o /\ o.user = v /\ o.price = p /\ g = Gives(side) /\ q = Shrinks(o, amount) /\ w = Worth(g, amount, p)
  BY DEF q
<1>20. SoundMem(m) => m.balance[u][g].available >= w
  BY DEF Available
<1> HIDE DEF n, dealt, paid, q, x, w, g, t, p, v, o
<1>14. /\ n \in Memories /\ n.balance = dealt.balance /\ n.burnt = dealt.burnt
       /\ n.order_id = m.order_id /\ n.book = m.book /\ n.owed = m.owed /\ n.crashed = m.crashed
       /\ DOMAIN n.orders = DOMAIN m.orders /\ n.orders[id] = q
       /\ \A i \in DOMAIN m.orders \ {id} : n.orders[i] = m.orders[i]
  BY <1>5, <1>7, <1>11 DEF IsSettled, OrderIs
<1>15. Fewer(n, m)
  <2>1. \A i \in DOMAIN n.orders : SameOrder(n.orders[i], m.orders[i])
    BY <1>0, <1>9, <1>14 DEF SameOrder
  <2> QED BY <2>1, <1>14 DEF Fewer
<1>16. Shaped(n, k)
  <2>1. Listing(n, k)
    BY <1>1, <1>15, ListingKept
  <2>2. Whole(n)
    BY <1>7, <1>14 DEF IsSettled, Whole
  <2>3. Lacking(n)
    BY <1>1, <1>14 DEF Lacking
  <2> QED BY <2>1, <2>2, <2>3, <1>1, <1>14 DEF Shaped
<1>17. ASSUME SoundMem(m)
       PROVE  /\ Exact(n) /\ (FeesFit => Kept(n))
              /\ Available(n, u, g) >= Available(m, u, g) - w
  <2>1. Exact(m) /\ (FeesFit => Kept(m)) /\ m.balance[u][g].available >= w
    BY <1>1, <1>17, <1>20
  <2>2. m.balance[v][t].freeze >= x
    <3>1. m.balance[v][t].freeze = HeldBack(m, v, t) + m.owed[v][t]
          /\ m.owed[v][t] >= 0 /\ m.owed[v][t] \in Int
      BY <2>1, <1>1, <1>2, <1>3, <1>17, Fields DEF Exact, SoundMem
    <3>2. HeldBack(m, v, t) \in Nat /\ Part(m, id, v, t) <= HeldBack(m, v, t)
      BY <1>1, HeldIs
    <3>3. Part(m, id, v, t) = o.freeze
      BY <1>0, <1>3 DEF Part
    <3> QED BY <3>1, <3>2, <3>3, <1>2, <1>4, <1>8
  <2>3. \A b \in Users, a \in Assets : /\ m.balance[b][a].available \in Nat /\ m.balance[b][a].freeze \in Nat
                                       /\ paid.balance[b][a].available \in Nat /\ paid.balance[b][a].freeze \in Nat
                                       /\ dealt.balance[b][a].available \in Nat /\ dealt.balance[b][a].freeze \in Nat
    <3>1. \A b \in Users, a \in Assets : /\ m.balance[b][a] \in Account /\ paid.balance[b][a] \in Account
                                         /\ dealt.balance[b][a] \in Account
      BY <1>1, <1>6, <1>10, Fields
    <3> QED BY <3>1 DEF Account
  <2>4. paid.balance[u][g] = [available |-> m.balance[u][g].available - w, freeze |-> m.balance[u][g].freeze]
    BY <2>1, <1>5 DEF IsSettled
  <2>5. \A b \in Users, a \in Assets : paid.balance[b][a].freeze = m.balance[b][a].freeze
    <3> SUFFICES ASSUME NEW b \in Users, NEW a \in Assets PROVE paid.balance[b][a].freeze = m.balance[b][a].freeze
      OBVIOUS
    <3>1. CASE b = u /\ a = g
      BY <3>1, <2>4
    <3>2. CASE b = u /\ a = t
      BY <3>2, <1>5 DEF IsSettled
    <3>3. CASE b # u
      BY <3>3, <1>5 DEF IsSettled
    <3> QED BY <3>1, <3>2, <3>3, <1>3
  <2>6. paid.balance[v][t]["freeze"] >= x
    BY <2>2, <2>5, <1>2, <1>3
  <2>7. dealt.balance[v][t] = [available |-> paid.balance[v][t].available, freeze |-> paid.balance[v][t].freeze - x]
    BY <2>6, <1>7 DEF IsSettled
  <2>8. ASSUME NEW b \in Users, NEW a \in Assets
        PROVE  n.balance[b][a].freeze = m.balance[b][a].freeze - IF b = v /\ a = t THEN x ELSE 0
    <3>1. CASE b = v /\ a = t
      BY <3>1, <2>5, <2>7, <1>14
    <3>2. CASE b = v /\ a = g
      <4>1. dealt.balance[b][a].freeze = paid.balance[b][a].freeze
        BY <3>2, <1>7 DEF IsSettled
      <4> QED BY <4>1, <3>2, <2>3, <2>5, <1>3, <1>14
    <3>3. CASE b # v
      <4>1. dealt.balance[b][a].freeze = paid.balance[b][a].freeze
        BY <3>3, <1>7 DEF IsSettled
      <4> QED BY <4>1, <3>3, <2>3, <2>5, <1>14
    <3> QED BY <3>1, <3>2, <3>3, <1>3
  <2>9. Exact(n)
    <3> SUFFICES ASSUME NEW b \in Users, NEW a \in Assets
                 PROVE  n.balance[b][a].freeze = HeldBack(n, b, a) + n.owed[b][a]
      BY DEF Exact
    <3>1. m.balance[b][a].freeze = HeldBack(m, b, a) + m.owed[b][a] /\ m.owed[b][a] \in Int
      BY <2>1, <1>1, Fields DEF Exact
    <3>2. HeldBack(m, b, a) \in Nat
      BY <1>1, HeldIs
    <3>3. HeldBack(n, b, a) = HeldBack(m, b, a) - Part(m, id, b, a) + Part(n, id, b, a)
      BY <1>1, <1>14, HeldChanges
    <3>4. /\ Part(m, id, b, a) = IF b = v /\ a = t THEN o.freeze ELSE 0
          /\ Part(n, id, b, a) = IF b = v /\ a = t THEN o.freeze - x ELSE 0
      BY <1>0, <1>3, <1>9, <1>14 DEF Part
    <3>5. n.owed[b][a] = m.owed[b][a]
      BY <1>14
    <3> QED BY <3>1, <3>2, <3>3, <3>4, <3>5, <2>8, <1>2, <1>4
  <2>10. ASSUME FeesFit PROVE Kept(n)
    <3>1. TakerFee % Quantum = 0 /\ MakerFee % Quantum = 0
      BY <2>10 DEF FeesFit
    <3>2. InAll(paid, g) = InAll(m, g) - w /\ InAll(paid, t) = InAll(m, t) + x
      BY <3>1, <2>1, <1>5 DEF IsSettled
    <3>3. InAll(dealt, t) = InAll(paid, t) - x /\ InAll(dealt, g) = InAll(paid, g) + w
      BY <3>1, <2>6, <1>7 DEF IsSettled
    <3>4. InAll(n, g) = InAll(dealt, g) /\ InAll(n, t) = InAll(dealt, t)
      BY <1>3, <1>14, InAllSame
    <3>5. InAll(m, g) \in Int /\ InAll(m, t) \in Int
      BY <1>1, <1>2, <1>3, InAllChanges
    <3>6. InAll(n, g) = InAll(m, g) /\ InAll(n, t) = InAll(m, t)
      BY <3>2, <3>3, <3>4, <3>5, <1>4
    <3> QED BY <3>6, <2>1, <2>10, <1>3 DEF Kept
  <2>11. Available(n, u, g) >= Available(m, u, g) - w
    <3>1. paid.balance[u][g].available = m.balance[u][g].available - w
      BY <2>4
    <3>2. dealt.balance[u][g].available >= paid.balance[u][g].available
      <4>1. CASE u = v
        BY <4>1, <1>7 DEF IsSettled
      <4>2. CASE u # v
        <5>1. dealt.balance[u][g] = paid.balance[u][g]
          BY <4>2, <1>2, <1>3, <1>7 DEF IsSettled
        <5> QED BY <5>1, <2>3, <1>2, <1>3
      <4> QED BY <4>1, <4>2
    <3> QED BY <3>1, <3>2, <2>3, <1>2, <1>3, <1>4, <1>14 DEF Available
  <2> QED BY <2>9, <2>10, <2>11
<1> QED BY <1>0, <1>12, <1>14, <1>15, <1>16, <1>17 DEF IsBargain

\* A deal is that, and then the order is finished if nothing is left of it.
LEMMA DealIs ==
  ASSUME NEW m \in Memories, NEW taker, NEW id \in DOMAIN m.orders, NEW amount,
         NEW u, NEW side, Deals(taker, u, side), Whole(m), amount \in Nat
  PROVE  Deal(m, taker, id, amount) =
           LET n == Bargain(m, taker, id, amount) IN IF n.orders[id].left = 0 THEN order_finish(n, id) ELSE n
<1> DEFINE o == m.orders[id]
           paid  == Settled(m, taker.user, taker.side, "available", amount, o.price, TakerFee)
           dealt == Settled(paid, o.user, o.side, "freeze", amount, o.price, MakerFee)
           n == [dealt EXCEPT !.orders[id] = Shrunk(@, amount, o.price)]
<1>1. /\ o \in Orders /\ o.user \in Users /\ o.side \in Sides /\ o.price \in Nat
      /\ taker.user \in Users /\ taker.side \in Sides
  BY OrderFields DEF Deals
<1>2. IsSettled(paid, m, taker.user, Gives(taker.side), Gets(taker.side), "available",
                Worth(Gives(taker.side), amount, o.price), Worth(Gets(taker.side), amount, o.price), TakerFee)
  BY <1>1, SettledIs, SpotAssumption
<1>3. paid \in Memories /\ Whole(paid) /\ paid.orders = m.orders
  BY <1>2 DEF IsSettled
<1>4. IsSettled(dealt, paid, o.user, Gives(o.side), Gets(o.side), "freeze",
                Worth(Gives(o.side), amount, o.price), Worth(Gets(o.side), amount, o.price), MakerFee)
  <2> HIDE DEF paid, o
  <2> QED BY <1>1, <1>3, SettledIs, SpotAssumption
<1>5. dealt \in Memories /\ dealt.orders = m.orders
  BY <1>3, <1>4 DEF IsSettled
<1>6. Shrunk(o, amount, o.price) = Shrinks(o, amount)
  <2>1. o = [user |-> o.user, side |-> o.side, price |-> o.price, left |-> o.left,
             freeze |-> o.freeze, mm |-> o.mm]
    BY <1>1 DEF Orders
  <2> DEFINE w == Worth(Gives(o.side), amount, o.price)
             l == o.left - amount
             f == o.freeze - w
  <2>2. Shrunk(o, amount, o.price) = [o EXCEPT !.left = l, !.freeze = f]
    BY <2>1 DEF Shrunk
  <2>3. Shrinks(o, amount) = [user |-> o.user, side |-> o.side, price |-> o.price, left |-> l,
                              freeze |-> f, mm |-> o.mm]
    BY DEF Shrinks
  <2> HIDE DEF o, l, f
  <2> QED BY <2>1, <2>2, <2>3
<1>7. n = WithOrder(dealt, id, Shrinks(o, amount))
  <2> HIDE DEF dealt
  <2>1. dealt.orders[id] = o /\ DOMAIN dealt.orders \cup {id} = DOMAIN dealt.orders
    BY <1>5
  <2>2. n = [dealt EXCEPT !.orders[id] = Shrinks(o, amount)]
    BY <1>6, <2>1
  <2> DEFINE q == Shrinks(o, amount)
             a == [dealt.orders EXCEPT ![id] = q]
             b == [i \in DOMAIN dealt.orders \cup {id} |-> IF i = id THEN q ELSE dealt.orders[i]]
  <2>3. dealt.orders \in [DOMAIN dealt.orders -> Orders]
    BY <1>5, Fields
  <2> HIDE DEF q
  <2>4. a = b
    BY <2>1, <2>3
  <2>5. n = [dealt EXCEPT !.orders = a]
    BY <2>2 DEF q
  <2>6. WithOrder(dealt, id, q) = [dealt EXCEPT !.orders = b]
    BY DEF WithOrder
  <2> QED BY <2>4, <2>5, <2>6 DEF q
<1>8. Deal(m, taker, id, amount) = IF n.orders[id].left = 0 THEN order_finish(n, id) ELSE n
  BY DEF Deal
<1>9. Bargain(m, taker, id, amount) = WithOrder(dealt, id, Shrinks(o, amount))
  BY DEF Bargain
<1> HIDE DEF n, dealt
<1> QED BY <1>7, <1>8, <1>9

\* A deal as a whole.
IsDeal(n, m, k, u, side, spent) ==
  /\ Good(n, k) /\ Fewer(n, m) /\ n.order_id = m.order_id
  /\ SoundMem(n) => SoundMem(m) /\ Available(n, u, Gives(side)) >= Available(m, u, Gives(side)) - spent

\* A deal keeps a good memory good, and takes from the taker what it is worth.
LEMMA GoodDeal ==
  ASSUME NEW m, NEW k, Good(m, k), NEW taker, NEW u, NEW side, Deals(taker, u, side),
         NEW id \in DOMAIN m.orders, m.orders[id].side = Other(side),
         NEW amount \in Nat, amount <= m.orders[id].left,
         SoundMem(m) => Available(m, u, Gives(side)) >= Worth(Gives(side), amount, m.orders[id].price)
  PROVE  IsDeal(Deal(m, taker, id, amount), m, k, u, side, Worth(Gives(side), amount, m.orders[id].price))
<1> DEFINE b == Bargain(m, taker, id, amount)  n == Deal(m, taker, id, amount)
           spent == Worth(Gives(side), amount, m.orders[id].price)
<1>1. m \in Memories /\ k \in Nat /\ Whole(m) /\ Promised(m)
  BY DEF Good, Shaped
<1>2. n = IF b.orders[id].left = 0 THEN order_finish(b, id) ELSE b
  BY <1>1, DealIs
<1>3. IsBargain(b, m, k, u, side, id, amount)
  BY BargainIs
<1> HIDE DEF b, n
<1>4. /\ Shaped(b, k) /\ Fewer(b, m) /\ b.order_id = m.order_id
      /\ DOMAIN b.orders = DOMAIN m.orders
      /\ b.crashed = m.crashed /\ b.owed = m.owed
      /\ b.orders[id] = Shrinks(m.orders[id], amount)
      /\ \A i \in DOMAIN m.orders \ {id} : b.orders[i] = m.orders[i]
      /\ SoundMem(m) =>
           /\ Exact(b) /\ (FeesFit => Kept(b))
           /\ Available(b, u, Gives(side)) >= Available(m, u, Gives(side)) - spent
  BY <1>3 DEF IsBargain
<1>5. SoundMem(b) => SoundMem(m)
  BY <1>4 DEF SoundMem
<1>6. /\ m.orders[id].left \in Nat /\ m.orders[id].side \in Sides /\ m.orders[id].user \in Users
      /\ m.orders[id].price \in Nat /\ Gives(m.orders[id].side) \in Assets
      /\ u \in Users /\ side \in Sides /\ Gives(side) \in Assets
  BY <1>1, OrderFields, TwoAssets DEF Deals
<1>7. b \in Memories /\ id \in DOMAIN b.orders
  BY <1>4 DEF Shaped
<1>8. /\ b.orders[id].left = m.orders[id].left - amount /\ b.orders[id].left \in Nat
      /\ b.orders[id].side = m.orders[id].side /\ b.orders[id].user = m.orders[id].user
      /\ b.orders[id].price = m.orders[id].price
      /\ b.orders[id].freeze = Worth(Gives(m.orders[id].side), b.orders[id].left, m.orders[id].price)
  <2>1. m.orders[id].freeze = Worth(Gives(m.orders[id].side), m.orders[id].left, m.orders[id].price)
    BY <1>1 DEF Promised
  <2>2. Worth(Gives(m.orders[id].side), m.orders[id].left - amount, m.orders[id].price)
          = Worth(Gives(m.orders[id].side), m.orders[id].left, m.orders[id].price)
            - Worth(Gives(m.orders[id].side), amount, m.orders[id].price)
    BY <1>6, WorthSplits
  <2> QED BY <2>1, <2>2, <1>4, <1>6 DEF Shrinks
<1>9. Mult(b.orders[id].freeze)
  BY <1>6, <1>8, WorthType
<1>10. CASE b.orders[id].left = 0
  <2>1. n = order_finish(b, id)
    BY <1>2, <1>10
  <2>2. /\ Shaped(n, k) /\ Fewer(n, b)
        /\ n.order_id = b.order_id /\ n.owed = b.owed /\ (b.crashed => n.crashed)
        /\ \A i \in DOMAIN n.orders : n.orders[i] = b.orders[i]
        /\ \A a \in Assets : InAll(n, a) = InAll(b, a)
        /\ \A v \in Users, a \in Assets : Available(n, v, a) >= Available(b, v, a)
        /\ b.balance[b.orders[id].user][Gives(b.orders[id].side)].freeze >= b.orders[id].freeze =>
             id \notin DOMAIN n.orders /\ (Exact(b) => Exact(n))
    BY <2>1, <1>4, <1>7, <1>9, FinishedIs
  <2>3. b.balance[b.orders[id].user][Gives(b.orders[id].side)].freeze >= b.orders[id].freeze
    <3>1. b.orders[id].freeze = 0
      <4>1. \A x \in Nat : 0 * x = 0
        OBVIOUS
      <4>2. Unit \in Nat
        BY SpotAssumption
      <4> QED BY <4>1, <4>2, <1>6, <1>8, <1>10 DEF Worth
    <3>2. b.balance[b.orders[id].user][Gives(b.orders[id].side)] \in Account
      BY <1>6, <1>7, <1>8, Fields
    <3> QED BY <3>1, <3>2 DEF Account
  <2>4. Promised(n)
    <3>1. \A i \in DOMAIN n.orders : i # id /\ i \in DOMAIN m.orders /\ n.orders[i] = m.orders[i]
      BY <2>2, <2>3, <1>4 DEF Fewer
    <3> QED BY <3>1, <1>1 DEF Promised
  <2>5. SoundMem(n) => SoundMem(b)
    BY <2>2 DEF SoundMem
  <2>6. Fewer(n, m)
    BY <2>2, <1>4, FewerTwice
  <2>7. SoundMem(n) => Exact(n) /\ (FeesFit => Kept(n))
    BY <1>4, <1>5, <2>2, <2>3, <2>5 DEF Kept
  <2>8. SoundMem(n) => Available(n, u, Gives(side)) >= Available(m, u, Gives(side)) - spent
    <3>1. Available(n, u, Gives(side)) >= Available(b, u, Gives(side))
      BY <2>2, <1>6
    <3>2. /\ m.balance[u][Gives(side)] \in Account /\ b.balance[u][Gives(side)] \in Account
          /\ n.balance[u][Gives(side)] \in Account
      BY <1>1, <1>6, <1>7, <2>2, Fields DEF Shaped
    <3>3. /\ Available(m, u, Gives(side)) \in Nat /\ Available(b, u, Gives(side)) \in Nat
          /\ Available(n, u, Gives(side)) \in Nat
      BY <3>2 DEF Account, Available
    <3>4. spent \in Nat
      BY <1>6, WorthType
    <3> HIDE DEF spent
    <3> QED BY <3>1, <3>3, <3>4, <2>5, <1>4, <1>5
  <2> QED BY <2>2, <2>4, <2>5, <2>6, <2>7, <2>8, <1>4, <1>5 DEF IsDeal, Good, n
<1>11. CASE b.orders[id].left # 0
  <2>1. n = b
    BY <1>2, <1>11
  <2>2. Promised(b)
    <3> SUFFICES ASSUME NEW i \in DOMAIN b.orders
                 PROVE  /\ b.orders[i].left > 0
                        /\ b.orders[i].freeze = Worth(Gives(b.orders[i].side), b.orders[i].left, b.orders[i].price)
      BY DEF Promised
    <3>1. CASE i = id
      BY <3>1, <1>8, <1>11
    <3>2. CASE i # id
      BY <3>2, <1>1, <1>4 DEF Promised
    <3> QED BY <3>1, <3>2
  <2> QED BY <2>1, <2>2, <1>4, <1>5 DEF IsDeal, Good, n
<1> QED BY <1>10, <1>11

\* What the loop of a match is the value of.
MatchRecurs(g, base, s) ==
  g = [T \in SUBSET DOMAIN s |-> IF T = {} THEN base ELSE MatchStep(g[T \ {Max(T)}], s[Max(T)])]

\* The fold of MatchStep, as the library defines it.
LEMMA MatchDefinition ==
  ASSUME NEW base, NEW s
  PROVE  FoldLeft(MatchStep, base, s) = (CHOOSE g : MatchRecurs(g, base, s))[DOMAIN s]
  BY DEF FoldLeft, MapThenFoldSet, MatchRecurs

\* v is what the steps of the loop make of base.
Matched(v, M, base, s) ==
  \E h \in [0..Len(s) -> M] :
    /\ h[0] = base
    /\ \A i \in 1..Len(s) : h[i] = MatchStep(h[i - 1], s[i])
    /\ v = h[Len(s)]

\* If steps stay in M, the fold of MatchStep goes through values of M.
LEMMA MatchRuns ==
  ASSUME NEW M, NEW E, NEW base \in M, NEW s \in Seq(E),
         \A r \in M, e \in E : MatchStep(r, e) \in M
  PROVE  Matched(FoldLeft(MatchStep, base, s), M, base, s)
<1> DEFINE step == [x \in M \X E |-> MatchStep(x[1], x[2])]
           c == CHOOSE g : MatchRecurs(g, base, s)
<1>1. step \in [M \X E -> M] /\ \A r \in M, e \in E : step[<<r, e>>] = MatchStep(r, e)
  OBVIOUS
<1> HIDE DEF step
<1>2. PICK g \in [SUBSET DOMAIN s -> M] : FoldsUp(g, step, base, s, DOMAIN s)
  BY <1>1, FoldExists
<1>3. MatchRecurs(g, base, s)
  <2>1. ASSUME NEW T \in SUBSET DOMAIN s
        PROVE  g[T] = IF T = {} THEN base ELSE MatchStep(g[T \ {Max(T)}], s[Max(T)])
    <3>1. CASE T = {}
      BY <3>1, <1>2 DEF FoldsUp
    <3>2. CASE T # {}
      <4>1. Max(T) \in T /\ s[Max(T)] \in E /\ T \ {Max(T)} \in SUBSET DOMAIN s
        BY <3>2, MaxOfPlaces
      <4>2. g[T \ {Max(T)}] \in M
        BY <4>1, <1>2
      <4>3. g[T] = step[<<g[T \ {Max(T)}], s[Max(T)]>>]
        BY <3>2, <1>2 DEF FoldsUp
      <4> QED BY <3>2, <4>1, <4>2, <4>3, <1>1
    <3> QED BY <3>1, <3>2
  <2>2. DOMAIN g = SUBSET DOMAIN s
    BY <1>2
  <2> QED BY <2>1, <2>2, <1>2 DEF MatchRecurs
<1>4. MatchRecurs(c, base, s)
  BY <1>3
<1>5. FoldLeft(MatchStep, base, s) = c[DOMAIN s]
  BY MatchDefinition
<1> HIDE DEF c
<1>6. c[{}] = base
  BY <1>4 DEF MatchRecurs
<1>7. ASSUME NEW T \in SUBSET DOMAIN s, T # {}, c[T \ {Max(T)}] \in M
      PROVE  c[T] = step[<<c[T \ {Max(T)}], s[Max(T)]>>]
  <2>1. Max(T) \in T /\ s[Max(T)] \in E /\ T \ {Max(T)} \in SUBSET DOMAIN s
    BY <1>7, MaxOfPlaces
  <2>2. c[T] = MatchStep(c[T \ {Max(T)}], s[Max(T)])
    BY <1>4, <1>7 DEF MatchRecurs
  <2> QED BY <2>1, <2>2, <1>1, <1>7
<1>8. PICK h \in [0..Len(s) -> M] :
        /\ h[0] = base
        /\ \A i \in 1..Len(s) : h[i] = step[<<h[i - 1], s[i]>>]
        /\ c[DOMAIN s] = h[Len(s)]
  <2>1. FoldsUpIn(c, M, step, base, s)
    BY <1>6, <1>7 DEF FoldsUpIn
  <2>2. Traced(c[DOMAIN s], M, step, base, s)
    BY <1>1, <2>1, FoldRuns, Zenon
  <2> QED BY <2>2 DEF Traced
<1>9. ASSUME NEW i \in 1..Len(s) PROVE h[i] = MatchStep(h[i - 1], s[i])
  <2>1. i - 1 \in 0..Len(s) /\ s[i] \in E
    OBVIOUS
  <2> QED BY <2>1, <1>1, <1>8
<1> QED BY <1>5, <1>8, <1>9 DEF Matched

------------------------------------------------------------------------------
(* The loop of a match                                                      *)

Takers(u, side, price, mm) ==
  [user : {u}, side : {side}, price : {price}, left : Nat, freeze : {0}, mm : {mm}]

\* What a taker may still have to give.
Need(taker) ==
  IF MarketBid(taker) THEN taker.left * Unit ELSE Worth(Gives(taker.side), taker.left, taker.price)

\* What the loop keeps: L are the ids of the list it walks.
Running(k, L, u, side, price, mm) ==
  {r \in [mem : Memories, taker : Takers(u, side, price, mm), stop : BOOLEAN] :
     /\ Good(r.mem, k) /\ r.mem.order_id = k + 1
     /\ \A id \in L : id \in DOMAIN r.mem.orders => r.mem.orders[id].side = Other(side)
     /\ SoundMem(r.mem) => Available(r.mem, u, Gives(side)) >= Need(r.taker)}

\* A memory that crashed is good, and promises nothing of balances.
LEMMA CrashIs ==
  ASSUME NEW m, NEW k, Good(m, k), NEW n, n = Crash(m)
  PROVE  /\ Good(n, k) /\ Fewer(n, m) /\ n.order_id = m.order_id /\ ~SoundMem(n)
         /\ n.crashed = TRUE /\ n.book = m.book /\ n.orders = m.orders
<1>1. m \in Memories
  BY DEF Good, Shaped
<1>2. n = [m EXCEPT !.crashed = TRUE]
  BY DEF Crash
<1>3. m = [balance |-> m.balance, orders |-> m.orders, book |-> m.book,
           order_id |-> m.order_id, crashed |-> m.crashed, owed |-> m.owed, burnt |-> m.burnt]
  BY <1>1, Fields
<1>4. n = [balance |-> m.balance, orders |-> m.orders, book |-> m.book,
           order_id |-> m.order_id, crashed |-> TRUE, owed |-> m.owed, burnt |-> m.burnt]
  BY <1>2, <1>3
<1>5. /\ n.balance = m.balance /\ n.orders = m.orders /\ n.book = m.book
      /\ n.order_id = m.order_id /\ n.crashed = TRUE /\ n.owed = m.owed /\ n.burnt = m.burnt
  BY <1>4
<1>6. n = [balance |-> n.balance, orders |-> n.orders, book |-> n.book, order_id |-> n.order_id,
           crashed |-> n.crashed, owed |-> n.owed, burnt |-> n.burnt]
  BY <1>4, <1>5, Zenon
<1>7. n \in Memories
  BY <1>1, <1>5, <1>6, Fields, MemoryIs
<1>8. Shaped(n, k) /\ Promised(n)
  BY <1>5, <1>7 DEF Good, Shaped, Listing, Whole, Lacking, Promised
<1>9. Fewer(n, m)
  BY <1>5 DEF Fewer, SameOrder
<1>10. ~SoundMem(n)
  BY <1>5 DEF SoundMem
<1> QED BY <1>5, <1>8, <1>9, <1>10 DEF Good

\* Division rounds down.
LEMMA DivTimes == ASSUME NEW x \in Nat, NEW p \in Nat \ {0}
                  PROVE  x \div p \in Nat /\ (x \div p) * p <= x
  BY SMT

\* A product with a natural number keeps the order.
LEMMA TimesOrdered == ASSUME NEW x \in Nat, NEW y \in Nat, NEW p \in Nat, x <= y
                      PROVE  x * p <= y * p /\ x * p \in Nat /\ (y - x) * p = y * p - x * p
  BY SMT

\* A deal takes no more of the taker than it promised for what it got.
LEMMA Spending ==
  ASSUME NEW u \in Users, NEW side \in Sides, NEW price \in Nat, NEW mm, NEW taker \in Takers(u, side, price, mm),
         NEW maker \in Orders, Crosses(taker, maker), NEW amount, amount = AmountOf(taker, maker),
         NEW left, left = taker.left - IF MarketBid(taker) THEN amount * maker.price ELSE amount
  PROVE  /\ amount \in Nat /\ amount <= maker.left /\ left \in Nat
         /\ Need([taker EXCEPT !.left = left]) + Worth(Gives(side), amount, maker.price) <= Need(taker)
         /\ Need([taker EXCEPT !.left = left]) \in Nat /\ Need(taker) \in Nat
<1> DEFINE p == maker.price  l == taker.left  t == [taker EXCEPT !.left = left]
<1>1. /\ taker.user = u /\ taker.side = side /\ taker.price = price /\ l \in Nat
      /\ t.user = u /\ t.side = side /\ t.price = price /\ t.left = left
  BY DEF Takers
<1>2. p \in Nat \ {0} /\ maker.left \in Nat /\ Unit \in Nat
  BY SpotAssumption DEF Orders
<1>3. MarketBid(t) <=> MarketBid(taker)
  BY <1>1 DEF MarketBid
<1>4. side = ASK \/ side = BID
  BY DEF Sides
<1>5. l \div p \in Nat /\ (l \div p) * p <= l
  BY <1>1, <1>2, DivTimes
<1>6. amount \in Nat /\ amount <= maker.left /\ amount <= IF MarketBid(taker) THEN l \div p ELSE l
  <2> DEFINE most == IF MarketBid(taker) THEN taker.left \div maker.price ELSE taker.left
  <2>1. amount = IF most < maker.left THEN most ELSE maker.left
    BY DEF AmountOf
  <2>2. most \in Nat /\ most = IF MarketBid(taker) THEN l \div p ELSE l
    BY <1>1, <1>5
  <2> HIDE DEF most
  <2> QED BY <2>1, <2>2, <1>2
<1>7. /\ Need(taker) = IF MarketBid(taker) THEN l * Unit ELSE Worth(Gives(side), l, price)
      /\ Need(t) = IF MarketBid(taker) THEN left * Unit ELSE Worth(Gives(side), left, price)
  BY <1>1, <1>3 DEF Need
<1>8. Gives(side) \in Assets /\ p \in Nat
  BY <1>2, TwoAssets
<1>9. CASE MarketBid(taker)
  <2> DEFINE c == amount * p
  <2>1. c \in Nat /\ c <= l
    <3>1. amount <= l \div p
      BY <1>6, <1>9
    <3>2. amount * p <= (l \div p) * p /\ amount * p \in Nat
      <4> DEFINE d == l \div p
      <4>1. d \in Nat /\ amount <= d
        BY <1>5, <3>1
      <4> HIDE DEF d
      <4>2. amount * p <= d * p /\ amount * p \in Nat
        BY <4>1, <1>6, <1>8, TimesOrdered
      <4> QED BY <4>2 DEF d
    <3> DEFINE e == (l \div p) * p
    <3>3. e <= l /\ e \in Int /\ c <= e /\ c \in Nat
      BY <3>2, <1>5, <1>8
    <3> HIDE DEF c, e
    <3> QED BY <3>3, <1>1
  <2>2. left = l - c
    BY <1>9
  <2>3. Worth(Gives(side), amount, p) = c * Unit
    <3>1. Gives(side) = "money"
      BY <1>1, <1>9 DEF MarketBid, Gives, ASK, BID
    <3> QED BY <3>1 DEF Worth
  <2> HIDE DEF c
  <2>4. left \in Nat
    BY <2>1, <2>2, <1>1
  <2>5. left * Unit = l * Unit - c * Unit /\ c * Unit \in Nat /\ l * Unit \in Nat /\ left * Unit \in Nat
    BY <2>1, <2>2, <2>4, <1>1, <1>2, TimesOrdered, SMT
  <2> QED BY <1>6, <1>7, <1>9, <2>3, <2>4, <2>5
<1>10. CASE ~MarketBid(taker)
  <2>1. left = l - amount /\ amount <= l /\ left \in Nat
    BY <1>6, <1>1, <1>10
  <2>2. Worth(Gives(side), left, price) = Worth(Gives(side), l, price) - Worth(Gives(side), amount, price)
    BY <2>1, <1>1, <1>6, <1>8, WorthSplits
  <2>3. /\ Worth(Gives(side), left, price) \in Nat /\ Worth(Gives(side), l, price) \in Nat
        /\ Worth(Gives(side), amount, price) \in Nat /\ Worth(Gives(side), amount, p) \in Nat
    BY <2>1, <1>1, <1>6, <1>8, WorthType
  <2>4. Worth(Gives(side), amount, p) <= Worth(Gives(side), amount, price)
    <3>1. CASE side = ASK
      <4>1. Gives(side) = "stock"
        BY <3>1 DEF Gives
      <4> QED BY <4>1, <2>3 DEF Worth
    <3>2. CASE side = BID
      <4>1. p <= price
        BY <3>2, <1>1, <1>2, <1>10 DEF Crosses, MarketBid, ASK, BID
      <4> QED BY <4>1, <1>6, <1>8, WorthOrdered
    <3> QED BY <3>1, <3>2, <1>4
  <2> QED BY <1>6, <1>7, <1>10, <2>1, <2>2, <2>3, <2>4
<1> QED BY <1>9, <1>10

\* The fields of a state of the matching loop.
LEMMA RunIs ==
  ASSUME NEW k, NEW L, NEW u, NEW side, NEW price, NEW mm, NEW r \in Running(k, L, u, side, price, mm)
  PROVE  /\ r = [mem |-> r.mem, taker |-> r.taker, stop |-> r.stop]
         /\ r.mem \in Memories /\ r.taker \in Takers(u, side, price, mm) /\ r.stop \in BOOLEAN
         /\ Good(r.mem, k) /\ r.mem.order_id = k + 1
         /\ \A id \in L : id \in DOMAIN r.mem.orders => r.mem.orders[id].side = Other(side)
         /\ SoundMem(r.mem) => Available(r.mem, u, Gives(side)) >= Need(r.taker)
  BY DEF Running

\* A step of the loop that leaves fewer orders, and the taker enough for what is left.
LEMMA RunGoesOn ==
  ASSUME NEW k, NEW L, NEW u, NEW side, NEW price, NEW mm, NEW r \in Running(k, L, u, side, price, mm),
         NEW n, n \in Memories, Good(n, k), Fewer(n, r.mem), n.order_id = r.mem.order_id,
         NEW t \in Takers(u, side, price, mm), NEW stop \in BOOLEAN,
         SoundMem(n) => Available(n, u, Gives(side)) >= Need(t)
  PROVE  [mem |-> n, taker |-> t, stop |-> stop] \in Running(k, L, u, side, price, mm)
<1> DEFINE q == [mem |-> n, taker |-> t, stop |-> stop]
<1>1. q.mem = n /\ q.taker = t /\ q.stop = stop
  OBVIOUS
<1>2. q \in [mem : Memories, taker : Takers(u, side, price, mm), stop : BOOLEAN]
  OBVIOUS
<1> HIDE DEF q
<1>3. \A id \in L : id \in DOMAIN n.orders => n.orders[id].side = Other(side)
  BY RunIs DEF Fewer, SameOrder
<1>4. n.order_id = k + 1
  BY RunIs
<1>5. q \in Running(k, L, u, side, price, mm)
  BY <1>1, <1>2, <1>3, <1>4 DEF Running
<1> QED BY <1>5 DEF q

Halted(r, n, x) == [r EXCEPT !.stop = x, !.mem = n]
Went(r, n, left) == [r EXCEPT !.mem = n, !.taker.left = left]

\* A state of the loop that stops, ...
LEMMA RunStops ==
  ASSUME NEW r, r = [mem |-> r.mem, taker |-> r.taker, stop |-> r.stop], NEW x
  PROVE  [r EXCEPT !.stop = x] = [mem |-> r.mem, taker |-> r.taker, stop |-> x]
<1> PICK m, t, s : m = r.mem /\ t = r.taker /\ s = r.stop
  OBVIOUS
<1>1. r = [mem |-> m, taker |-> t, stop |-> s]
  BY Zenon
<1>2. ASSUME NEW q, q = [r EXCEPT !.stop = x] PROVE q = [mem |-> m, taker |-> t, stop |-> x]
  BY <1>1, <1>2
<1> QED BY <1>2, Zenon

\* ... whose memory changes, ...
LEMMA RunMoves ==
  ASSUME NEW r, r = [mem |-> r.mem, taker |-> r.taker, stop |-> r.stop], NEW n
  PROVE  [r EXCEPT !.mem = n] = [mem |-> n, taker |-> r.taker, stop |-> r.stop]
<1> PICK m, t, s : m = r.mem /\ t = r.taker /\ s = r.stop
  OBVIOUS
<1>1. r = [mem |-> m, taker |-> t, stop |-> s]
  BY Zenon
<1>2. ASSUME NEW q, q = [r EXCEPT !.mem = n] PROVE q = [mem |-> n, taker |-> t, stop |-> s]
  BY <1>1, <1>2
<1> QED BY <1>2, Zenon

\* ... that does both, ...
LEMMA RunHalted ==
  ASSUME NEW r, r = [mem |-> r.mem, taker |-> r.taker, stop |-> r.stop], NEW n, NEW x
  PROVE  Halted(r, n, x) = [mem |-> n, taker |-> r.taker, stop |-> x]
<1> PICK m, t, s : m = r.mem /\ t = r.taker /\ s = r.stop
  OBVIOUS
<1>1. r = [mem |-> m, taker |-> t, stop |-> s]
  BY Zenon
<1>2. ASSUME NEW q, q = [r EXCEPT !.stop = x, !.mem = n] PROVE q = [mem |-> n, taker |-> t, stop |-> x]
  BY <1>1, <1>2
<1> QED BY <1>2, Zenon DEF Halted

\* ... and that goes on with less to do.
LEMMA RunWent ==
  ASSUME NEW r, r = [mem |-> r.mem, taker |-> r.taker, stop |-> r.stop], NEW n, NEW left
  PROVE  Went(r, n, left) = [mem |-> n, taker |-> [r.taker EXCEPT !.left = left], stop |-> r.stop]
<1> PICK m, t, s : m = r.mem /\ t = r.taker /\ s = r.stop
  OBVIOUS
<1>1. r = [mem |-> m, taker |-> t, stop |-> s]
  BY Zenon
<1>2. ASSUME NEW q, q = [r EXCEPT !.mem = n, !.taker.left = left] PROVE q = [mem |-> n, taker |-> [t EXCEPT !.left = left], stop |-> s]
  BY <1>1, <1>2
<1> QED BY <1>2, Zenon DEF Went

\* A memory has no more than itself.
LEMMA FewerSame == ASSUME NEW m PROVE Fewer(m, m)
  BY DEF Fewer, SameOrder

\* Each step of the matching loop keeps the memory good and leaves the taker what the rest of
\* its order needs.
LEMMA MatchStepIs ==
  ASSUME NEW k \in Nat, NEW L, NEW u \in Users, NEW side \in Sides, NEW price \in Nat, NEW mm,
         NEW r \in Running(k, L, u, side, price, mm), NEW id \in L
  PROVE  MatchStep(r, id) \in Running(k, L, u, side, price, mm)
<1> DEFINE m == r.mem  taker == r.taker  maker == m.orders[id]  amount == AmountOf(taker, maker)
           S == Running(k, L, u, side, price, mm)
           spent == IF MarketBid(taker) THEN amount * maker.price ELSE amount
           left == taker.left - spent
           t == [taker EXCEPT !.left = left]  yes == TRUE
<1>1. /\ r = [mem |-> m, taker |-> taker, stop |-> r.stop]
      /\ m \in Memories /\ taker \in Takers(u, side, price, mm) /\ r.stop \in BOOLEAN
      /\ Good(m, k) /\ m.order_id = k + 1
      /\ (id \in DOMAIN m.orders => maker.side = Other(side))
      /\ SoundMem(m) => Available(m, u, Gives(side)) >= Need(taker)
  BY RunIs
<1>2. MatchStep(r, id) =
        IF r.stop \/ taker.left = 0 THEN [r EXCEPT !.stop = yes]
        ELSE IF id \notin DOMAIN m.orders THEN [r EXCEPT !.stop = yes, !.mem = Crash(m)]
        ELSE IF ~Crosses(taker, maker) THEN [r EXCEPT !.stop = yes]
        ELSE IF taker.mm > 0 /\ maker.mm = CANCEL THEN [r EXCEPT !.mem = order_finish(m, id)]
        ELSE IF amount = 0 THEN [r EXCEPT !.stop = yes]
        ELSE [r EXCEPT !.mem = Deal(m, taker, id, amount), !.taker.left = left]
  <2>1. r.taker.left - (IF MarketBid(taker) THEN amount * maker.price ELSE amount) = left
    OBVIOUS
  <2> QED BY <2>1, Zenon DEF MatchStep
<1>0. yes \in BOOLEAN
  OBVIOUS
<1> HIDE DEF yes
<1>3. [r EXCEPT !.stop = yes] \in S
  <2>1. [r EXCEPT !.stop = yes] = [mem |-> m, taker |-> taker, stop |-> yes]
    <3> HIDE DEF yes
    <3> QED BY <1>1, RunStops, RunMoves, Zenon
  <2>2. Fewer(m, m)
    BY FewerSame
  <2>3. [mem |-> m, taker |-> taker, stop |-> yes] \in S
    BY <2>2, <1>0, <1>1, RunGoesOn
  <2> QED BY <2>1, <2>3
<1>4. [r EXCEPT !.stop = yes, !.mem = Crash(m)] \in S
  <2> DEFINE n == Crash(m)
  <2>1. Good(n, k) /\ Fewer(n, m) /\ n.order_id = m.order_id /\ ~SoundMem(n)
    BY <1>1, CrashIs
  <2>2. n \in Memories
    BY <2>1 DEF Good, Shaped
  <2>3. [r EXCEPT !.stop = yes, !.mem = n] = [mem |-> n, taker |-> taker, stop |-> yes]
    <3> HIDE DEF n, yes
    <3>1. Halted(r, n, yes) = [mem |-> n, taker |-> taker, stop |-> yes]
      BY <1>1, RunHalted
    <3> QED BY <3>1, Zenon DEF Halted
  <2> HIDE DEF n
  <2>4. [mem |-> n, taker |-> taker, stop |-> yes] \in S
    BY <2>1, <2>2, <1>0, <1>1, RunGoesOn
  <2> QED BY <2>3, <2>4 DEF n
<1>5. ASSUME id \in DOMAIN m.orders PROVE [r EXCEPT !.mem = order_finish(m, id)] \in S
  <2> DEFINE n == order_finish(m, id)
  <2>1. /\ Good(n, k) /\ Fewer(n, m) /\ n.order_id = m.order_id
        /\ SoundMem(n) => SoundMem(m)
        /\ \A v \in Users, a \in Assets : Available(n, v, a) >= Available(m, v, a)
    BY <1>1, <1>5, GoodFinish
  <2>2. n \in Memories
    BY <2>1 DEF Good, Shaped
  <2>3. [r EXCEPT !.mem = n] = [mem |-> n, taker |-> taker, stop |-> r.stop]
    <3> HIDE DEF n, yes
    <3> QED BY <1>1, RunStops, RunMoves, Zenon
  <2> HIDE DEF n
  <2>4. SoundMem(n) => Available(n, u, Gives(side)) >= Need(taker)
    <3>1. Gives(side) \in Assets
      BY TwoAssets
    <3>2. n.balance[u][Gives(side)] \in Account /\ m.balance[u][Gives(side)] \in Account
      BY <3>1, <2>2, <1>1, Fields
    <3>3. Available(n, u, Gives(side)) \in Nat /\ Available(m, u, Gives(side)) \in Nat
      BY <3>2 DEF Account, Available
    <3>4. Need(taker) \in Nat
      <4>1. taker.left \in Nat /\ taker.price = price /\ taker.side = side
        BY <1>1 DEF Takers
      <4>2. taker.left * Unit \in Nat
        BY <4>1, SpotAssumption, SMT
      <4> QED BY <3>1, <4>1, <4>2, WorthType DEF Need
    <3>5. Available(n, u, Gives(side)) >= Available(m, u, Gives(side))
      BY <2>1, <3>1
    <3> QED BY <2>1, <3>3, <3>4, <3>5, <1>1
  <2>5. [mem |-> n, taker |-> taker, stop |-> r.stop] \in S
    BY <2>1, <2>2, <2>4, <1>1, RunGoesOn
  <2> QED BY <2>3, <2>5 DEF n
<1>6. ASSUME id \in DOMAIN m.orders, Crosses(taker, maker)
      PROVE  [r EXCEPT !.mem = Deal(m, taker, id, amount), !.taker.left = left] \in S
  <2> DEFINE n == Deal(m, taker, id, amount)  w == Worth(Gives(side), amount, maker.price)
  <2>0. /\ amount \in Nat /\ amount <= maker.left /\ left \in Nat
        /\ Need(t) + w <= Need(taker) /\ Need(t) \in Nat /\ Need(taker) \in Nat
    <3>1. maker \in Orders
      BY <1>1, <1>6, OrderFields
    <3> HIDE DEF maker, taker
    <3> QED BY <3>1, <1>1, <1>6, Spending
  <2>1. Gives(side) \in Assets /\ maker.price \in Nat
    BY <1>1, <1>6, TwoAssets, OrderFields
  <2>2. w \in Nat
    BY <2>0, <2>1, WorthType
  <2>3. m.balance[u][Gives(side)] \in Account
    BY <2>1, <1>1, Fields
  <2>4. Available(m, u, Gives(side)) \in Nat
    BY <2>3 DEF Account, Available
  <2>5. SoundMem(m) => Available(m, u, Gives(side)) >= w
    <3> HIDE DEF w, t, taker
    <3> QED BY <2>0, <2>2, <2>4, <1>1
  <2>6. Deals(taker, u, side)
    BY <1>1 DEF Deals, Takers
  <2>7. IsDeal(n, m, k, u, side, w)
    <3>1. maker.side = Other(side)
      BY <1>1, <1>6
    <3>2. id \in DOMAIN m.orders
      BY <1>6
    <3> HIDE DEF m, taker, amount
    <3> QED BY <3>1, <3>2, <2>0, <2>5, <2>6, <1>1, GoodDeal
  <2> HIDE DEF n, w
  <2>8. /\ Good(n, k) /\ Fewer(n, m) /\ n.order_id = m.order_id
        /\ SoundMem(n) => SoundMem(m) /\ Available(n, u, Gives(side)) >= Available(m, u, Gives(side)) - w
    BY <2>7 DEF IsDeal
  <2>9. n \in Memories
    BY <2>8 DEF Good, Shaped
  <2>10. t \in Takers(u, side, price, mm)
    <3> HIDE DEF left
    <3> QED BY <2>0, <1>1 DEF Takers
  <2>11. SoundMem(n) => Available(n, u, Gives(side)) >= Need(t)
    <3>1. n.balance[u][Gives(side)] \in Account
      BY <2>1, <2>9, Fields
    <3>2. Available(n, u, Gives(side)) \in Nat
      BY <3>1 DEF Account, Available
    <3> HIDE DEF t, taker
    <3> QED BY <3>2, <2>0, <2>2, <2>4, <2>8, <1>1
  <2>12. [r EXCEPT !.mem = n, !.taker.left = left] = [mem |-> n, taker |-> t, stop |-> r.stop]
    <3> HIDE DEF n, left
    <3>2. Went(r, n, left) = [mem |-> n, taker |-> [r.taker EXCEPT !.left = left], stop |-> r.stop]
      BY <1>1, RunWent
    <3> QED BY <3>2, Zenon DEF Went
  <2>13. [mem |-> n, taker |-> t, stop |-> r.stop] \in S
    <3> HIDE DEF t
    <3> QED BY <2>8, <2>9, <2>10, <2>11, <1>1, RunGoesOn
  <2> QED BY <2>12, <2>13 DEF n
<1> DEFINE e1 == [r EXCEPT !.stop = yes]  e2 == [r EXCEPT !.stop = yes, !.mem = Crash(m)]
           e4 == [r EXCEPT !.mem = order_finish(m, id)]
           e6 == [r EXCEPT !.mem = Deal(m, taker, id, amount), !.taker.left = left]
           c2 == id \in DOMAIN m.orders  c3 == Crosses(taker, maker)
<1>7. \/ MatchStep(r, id) \in {e1, e2}
      \/ c2 /\ MatchStep(r, id) = e4
      \/ c2 /\ c3 /\ MatchStep(r, id) = e6
  <2> HIDE DEF e1, e2, e4, e6
  <2>1. MatchStep(r, id) =
          IF r.stop \/ taker.left = 0 THEN e1 ELSE IF ~c2 THEN e2 ELSE IF ~c3 THEN e1
          ELSE IF taker.mm > 0 /\ maker.mm = CANCEL THEN e4 ELSE IF amount = 0 THEN e1 ELSE e6
    BY <1>2, Zenon DEF e1, e2, e4, e6
  <2> HIDE DEF c2, c3
  <2> QED BY <2>1
<1>8. e1 \in S /\ e2 \in S /\ (c2 => e4 \in S) /\ (c2 /\ c3 => e6 \in S)
  <2> HIDE DEF S
  <2> QED BY <1>3, <1>4, <1>5, <1>6, Zenon
<1> HIDE DEF S, c2, c3, e1, e2, e4, e6
<1>9. MatchStep(r, id) \in S
  BY <1>7, <1>8
<1> QED BY <1>9 DEF S

WithNextId(m) == [m EXCEPT !.order_id = @ + 1]

\* Giving out an id keeps a memory good.
LEMMA NextIdIs ==
  ASSUME NEW m, NEW k, Good(m, k), NEW n, n = WithNextId(m)
  PROVE  /\ Good(n, k) /\ n \in Memories /\ n.order_id = m.order_id + 1
         /\ n.balance = m.balance /\ n.orders = m.orders /\ n.book = m.book
         /\ n.crashed = m.crashed /\ n.owed = m.owed /\ n.burnt = m.burnt
         /\ SoundMem(n) <=> SoundMem(m)
<1>1. m \in Memories
  BY DEF Good, Shaped
<1>2. n = [m EXCEPT !.order_id = m.order_id + 1]
  BY DEF WithNextId
<1>3. m = [balance |-> m.balance, orders |-> m.orders, book |-> m.book,
           order_id |-> m.order_id, crashed |-> m.crashed, owed |-> m.owed, burnt |-> m.burnt]
  BY <1>1, Fields
<1>4. n = [balance |-> m.balance, orders |-> m.orders, book |-> m.book,
           order_id |-> m.order_id + 1, crashed |-> m.crashed, owed |-> m.owed, burnt |-> m.burnt]
  BY <1>2, <1>3
<1>5. /\ n.balance = m.balance /\ n.orders = m.orders /\ n.book = m.book
      /\ n.order_id = m.order_id + 1 /\ n.crashed = m.crashed /\ n.owed = m.owed /\ n.burnt = m.burnt
  BY <1>4
<1>6. n = [balance |-> n.balance, orders |-> n.orders, book |-> n.book, order_id |-> n.order_id,
           crashed |-> n.crashed, owed |-> n.owed, burnt |-> n.burnt]
  BY <1>4, <1>5, Zenon
<1>7. n \in Memories
  BY <1>1, <1>5, <1>6, Fields, MemoryIs
<1>8. Shaped(n, k) /\ Promised(n)
  BY <1>5, <1>7 DEF Good, Shaped, Listing, Whole, Lacking, Promised
<1>9. SoundMem(n) <=> SoundMem(m)
  BY <1>5 DEF SoundMem
<1>10. (Exact(m) => Exact(n)) /\ (Kept(m) => Kept(n))
  BY <1>5, HeldSame, InAllSame DEF Exact, Kept
<1> QED BY <1>5, <1>7, <1>8, <1>9, <1>10 DEF Good

\* The id of an order that is gone can be in a list.
LEMMA GoodMore ==
  ASSUME NEW m, NEW k, NEW l \in Nat, Good(m, k), k <= l
  PROVE  Good(m, l)
<1>1. k \in Nat /\ 1..k \subseteq 1..l
  BY DEF Good, Shaped
<1>2. Listing(m, l)
  BY <1>1 DEF Good, Shaped, Listing
<1> QED BY <1>1, <1>2 DEF Good, Shaped

\* The ids of a list.
IdsIn(m, side) == {m.book[side][i] : i \in DOMAIN m.book[side]}

\* What a match comes to.
LEMMA ExecutedIs ==
  ASSUME NEW m, Good(m, m.order_id), NEW u \in Users, NEW side \in Sides, NEW price \in Nat, NEW mm,
         NEW taker \in Takers(u, side, price, mm),
         SoundMem(m) => Available(m, u, Gives(side)) >= Need(taker)
  PROVE  Executed(m, taker) \in Running(m.order_id, IdsIn(m, Other(side)), u, side, price, mm)
<1> DEFINE k == m.order_id  L == IdsIn(m, Other(side))  S == Running(k, L, u, side, price, mm)
           n == WithNextId(m)  no == FALSE  base == [mem |-> n, taker |-> taker, stop |-> no]
<1>1. m \in Memories /\ k \in Nat
  BY DEF Good, Shaped
<1>2. /\ Good(n, k) /\ n \in Memories /\ n.order_id = k + 1
      /\ n.balance = m.balance /\ n.orders = m.orders /\ n.book = m.book
      /\ SoundMem(n) <=> SoundMem(m)
  BY NextIdIs
<1>3. Other(side) \in Sides
  BY TwoAssets
<1>4. m.book[Other(side)] \in Seq(Nat) /\ m.book[Other(side)] \in Seq(L)
  <2>1. m.book[Other(side)] \in Seq(Nat)
    BY <1>1, <1>3, Fields
  <2> DEFINE s == m.book[Other(side)]
  <2>2. s \in Seq(Nat) /\ L = {s[i] : i \in DOMAIN s}
    BY <2>1 DEF IdsIn
  <2> HIDE DEF s, L
  <2>3. s \in [1..Len(s) -> L] /\ Len(s) \in Nat
    BY <2>2
  <2>4. s \in Seq(L)
    BY <2>3
  <2> QED BY <2>1, <2>4 DEF s
<1>5. \A id \in L : id \in DOMAIN n.orders => n.orders[id].side = Other(side)
  BY <1>2, <1>3 DEF Good, Shaped, Listing, IdsIn
<1>6. SoundMem(n) => Available(n, u, Gives(side)) >= Need(taker)
  BY <1>2 DEF Available
<1>7. taker.side = side
  BY DEF Takers
<1>8. Executed(m, taker) = FoldLeft(MatchStep, base, m.book[Other(side)])
  BY <1>7 DEF Executed, WithNextId
<1>9. no \in BOOLEAN
  OBVIOUS
<1> HIDE DEF n, no
<1>10. base \in S
  <2>1. base.mem = n /\ base.taker = taker /\ base.stop = no
    OBVIOUS
  <2>2. base \in [mem : Memories, taker : Takers(u, side, price, mm), stop : BOOLEAN]
    BY <1>2, <1>9
  <2> HIDE DEF base, L
  <2> QED BY <1>2, <1>5, <1>6, <2>1, <2>2 DEF Running
<1> HIDE DEF base
<1>11. \A r \in S, id \in L : MatchStep(r, id) \in S
  <2> HIDE DEF L, k
  <2> QED BY <1>1, MatchStepIs
<1>12. PICK h \in [0..Len(m.book[Other(side)]) -> S] :
         FoldLeft(MatchStep, base, m.book[Other(side)]) = h[Len(m.book[Other(side)])]
  <2> DEFINE s == m.book[Other(side)]
  <2> HIDE DEF S, L, s
  <2>1. s \in Seq(L)
    BY <1>4 DEF s
  <2>2. Matched(FoldLeft(MatchStep, base, s), S, base, s)
    BY <2>1, <1>10, <1>11, MatchRuns, Zenon
  <2> QED BY <2>2 DEF s, Matched
<1>13. Len(m.book[Other(side)]) \in Nat
  BY <1>4
<1> QED BY <1>8, <1>12, <1>13

PutOrder(m, id, u, g, q, acc) == WithAccount(WithOrder(m, id, q), u, g, acc)

\* What order_put does but for the list.
LEMMA PutIs ==
  ASSUME NEW m \in Memories, NEW id \in Nat, NEW q \in Orders, NEW u \in Users, NEW g \in Assets,
         NEW acc, Stored(acc), NEW n, n = PutOrder(m, id, u, g, q, acc)
  PROVE  /\ n \in Memories
         /\ n.book = m.book /\ n.order_id = m.order_id
         /\ n.crashed = m.crashed /\ n.owed = m.owed /\ n.burnt = m.burnt
         /\ DOMAIN n.orders = DOMAIN m.orders \cup {id}
         /\ n.orders[id] = q
         /\ \A i \in DOMAIN m.orders \ {id} : n.orders[i] = m.orders[i]
         /\ n.balance[u][g] = acc
         /\ \A v \in Users, b \in Assets : v # u \/ b # g => n.balance[v][b] = m.balance[v][b]
<1> DEFINE p == WithOrder(m, id, q)
<1>1. OrderIs(p, m, id, q)
  BY OrderPut, Zenon
<1>2. n = WithAccount(p, u, g, acc)
  BY DEF PutOrder
<1> HIDE DEF p
<1>3. p \in Memories
  BY <1>1 DEF OrderIs
<1>4. AccountIs(n, p, u, g, acc)
  BY <1>2, <1>3, AccountSet, Zenon
<1> QED BY <1>1, <1>4 DEF OrderIs, AccountIs

\* The order of a taker once it is in the book.
Resting(o, want) ==
  [user |-> o.user, side |-> o.side, price |-> o.price, left |-> o.left, freeze |-> want, mm |-> o.mm]

\* An order with what it froze.
LEMMA RestingIs ==
  ASSUME NEW u \in Users, NEW side \in Sides, NEW price \in Nat \ {0}, NEW mm \in {0, NORMAL, CANCEL},
         NEW o \in Takers(u, side, price, mm), NEW want \in Nat
  PROVE  /\ [o EXCEPT !.freeze = want] = Resting(o, want)
         /\ Resting(o, want) \in Orders
         /\ Resting(o, want).user = u /\ Resting(o, want).side = side /\ Resting(o, want).price = price
         /\ Resting(o, want).left = o.left /\ Resting(o, want).freeze = want
<1>1. /\ o.user = u /\ o.side = side /\ o.price = price /\ o.left \in Nat /\ o.mm = mm
      /\ o = [user |-> o.user, side |-> o.side, price |-> o.price, left |-> o.left, freeze |-> o.freeze, mm |-> o.mm]
  BY DEF Takers
<1>2. [o EXCEPT !.freeze = want] = Resting(o, want)
  BY <1>1 DEF Resting
<1> QED BY <1>1, <1>2 DEF Resting, Orders

\* order_put: the order freezes what it promises, which the account has after the deals.
LEMMA OrderPutIs ==
  ASSUME NEW m, NEW k, Good(m, k), NEW u \in Users, NEW side \in Sides, NEW price \in Nat \ {0},
         NEW mm \in {0, NORMAL, CANCEL}, NEW o \in Takers(u, side, price, mm), o.left > 0,
         SoundMem(m) => Available(m, u, Gives(side)) >= Need(o),
         NEW n, n = order_put(m, k + 1, o)
  PROVE  Good(n, k + 1) /\ n.order_id = m.order_id /\ (SoundMem(n) => SoundMem(m))
<1> DEFINE id == k + 1  g == Gives(side)  want == Worth(g, o.left, price)
           q == Resting(o, want)  acc == m.balance[u][g]  new == balance_freeze(acc, want)
           put == PutOrder(m, id, u, g, q, new)
<1>1. /\ m \in Memories /\ k \in Nat /\ Listing(m, k) /\ Whole(m) /\ Lacking(m) /\ Promised(m)
      /\ DOMAIN m.orders \subseteq 1..k /\ (SoundMem(m) => Exact(m) /\ (FeesFit => Kept(m)))
      /\ id \in Nat /\ id \notin 1..k /\ 1..k \subseteq 1..id /\ id \in 1..id
  BY DEF Good, Shaped, Listing
<1>2. o.user = u /\ o.side = side /\ o.price = price /\ o.left \in Nat /\ g \in Assets
  BY TwoAssets DEF Takers
<1>3. want \in Nat /\ Mult(want)
  BY <1>2, WorthType
<1> HIDE DEF want, g
<1>4. /\ [o EXCEPT !.freeze = want] = q
      /\ q \in Orders /\ q.user = u /\ q.side = side /\ q.price = price /\ q.left = o.left /\ q.freeze = want
  BY <1>3, RestingIs
<1>5. Stored(acc) /\ Stored(new)
  <2>1. Stored(acc)
    BY <1>1, <1>2 DEF Whole
  <2> HIDE DEF acc
  <2> QED BY <2>1, <1>3, Accounts
<1>6. n = Listed(put, side, id)
  <2> DEFINE os == [i \in DOMAIN m.orders \cup {id} |-> IF i = id THEN q ELSE m.orders[i]]
             both == [m EXCEPT !.orders = os, !.balance[u][g] = balance_freeze(@, want)]
  <2>1. n = Listed(both, side, id)
    BY <1>2, <1>4 DEF order_put, g, want
  <2>2. both = put
    BY DEF PutOrder, WithOrder, WithAccount
  <2> QED BY <2>1, <2>2
<1> HIDE DEF q, put, new
<1>7. /\ put \in Memories
      /\ put.book = m.book /\ put.order_id = m.order_id
      /\ put.crashed = m.crashed /\ put.owed = m.owed /\ put.burnt = m.burnt
      /\ DOMAIN put.orders = DOMAIN m.orders \cup {id}
      /\ put.orders[id] = q
      /\ \A i \in DOMAIN m.orders \ {id} : put.orders[i] = m.orders[i]
      /\ put.balance[u][g] = new
      /\ \A v \in Users, b \in Assets : v # u \/ b # g => put.balance[v][b] = m.balance[v][b]
  BY <1>1, <1>2, <1>4, <1>5, PutIs DEF put
<1>8. /\ n \in Memories
      /\ n.balance = put.balance /\ n.orders = put.orders /\ n.order_id = put.order_id
      /\ n.owed = put.owed /\ n.burnt = put.burnt /\ (put.crashed => n.crashed)
      /\ \A s \in Sides : \A i \in DOMAIN n.book[s] :
           (s = side /\ n.book[s][i] = id) \/ \E j \in DOMAIN put.book[s] : put.book[s][j] = n.book[s][i]
  <2>1. put \in Memories /\ id \in Nat /\ n = Listed(put, side, id)
    BY <1>1, <1>6, <1>7
  <2> HIDE DEF id
  <2>2. IsListed(n, put, side, id)
    BY <2>1, ListedIs, Zenon
  <2> QED BY <2>2 DEF IsListed
<1> HIDE DEF id
<1>9. /\ n.order_id = m.order_id /\ n.owed = m.owed /\ n.burnt = m.burnt /\ (m.crashed => n.crashed)
      /\ DOMAIN n.orders = DOMAIN m.orders \cup {id} /\ n.orders[id] = q
      /\ \A i \in DOMAIN m.orders : n.orders[i] = m.orders[i]
      /\ n.balance[u][g] = new
      /\ \A v \in Users, b \in Assets : v # u \/ b # g => n.balance[v][b] = m.balance[v][b]
  BY <1>1, <1>7, <1>8
<1>10. SoundMem(n) => SoundMem(m)
  BY <1>9 DEF SoundMem
<1>11. Listing(n, id)
  <2>1. DOMAIN n.orders \subseteq 1..id
    BY <1>1, <1>9
  <2>2. ASSUME NEW s \in Sides, NEW i \in DOMAIN n.book[s]
        PROVE  /\ n.book[s][i] \in 1..id
               /\ n.book[s][i] \in DOMAIN n.orders => n.orders[n.book[s][i]].side = s
    <3>1. CASE s = side /\ n.book[s][i] = id
      BY <3>1, <1>1, <1>4, <1>9
    <3>2. CASE \E j \in DOMAIN put.book[s] : put.book[s][j] = n.book[s][i]
      <4>1. PICK j \in DOMAIN m.book[s] : m.book[s][j] = n.book[s][i]
        BY <3>2, <1>7
      <4>2. m.book[s][j] \in 1..k /\ (m.book[s][j] \in DOMAIN m.orders => m.orders[m.book[s][j]].side = s)
        BY <1>1 DEF Listing
      <4> QED BY <4>1, <4>2, <1>1, <1>9
    <3> QED BY <3>1, <3>2, <1>8
  <2> QED BY <2>1, <2>2 DEF Listing
<1>12. Whole(n)
  BY <1>1, <1>5, <1>9 DEF Whole
<1>13. Lacking(n)
  BY <1>1, <1>9 DEF Lacking
<1>14. Promised(n)
  <2> SUFFICES ASSUME NEW i \in DOMAIN n.orders
               PROVE  /\ n.orders[i].left > 0
                      /\ n.orders[i].freeze = Worth(Gives(n.orders[i].side), n.orders[i].left, n.orders[i].price)
    BY DEF Promised
  <2>1. CASE i = id
    BY <2>1, <1>4, <1>9 DEF want, g
  <2>2. CASE i # id
    <3>1. i \in DOMAIN m.orders /\ n.orders[i] = m.orders[i]
      BY <2>2, <1>9
    <3> QED BY <3>1, <1>1 DEF Promised
  <2> QED BY <2>1, <2>2
<1>15. ASSUME SoundMem(n) PROVE Exact(n) /\ (FeesFit => Kept(n))
  <2>1. SoundMem(m) /\ Exact(m) /\ (FeesFit => Kept(m))
    BY <1>1, <1>10, <1>15
  <2>2. Need(o) = want
    BY <1>2 DEF Need, MarketBid, want, g
  <2>3. acc.available >= want /\ acc.available \in Nat /\ acc.freeze \in Nat
    BY <2>1, <2>2, <1>5 DEF Available, g, Stored, Account
  <2>4. new = [available |-> acc.available - want, freeze |-> acc.freeze + want]
    <3> HIDE DEF acc
    <3> QED BY <2>3, <1>3, <1>5, AccountMoves DEF new
  <2>5. ASSUME NEW v \in Users, NEW a \in Assets PROVE n.balance[v][a].freeze = HeldBack(n, v, a) + n.owed[v][a]
    <3>1. m.balance[v][a].freeze = HeldBack(m, v, a) + m.owed[v][a] /\ m.owed[v][a] \in Int
      BY <2>1, <1>1, Fields DEF Exact
    <3>2. HeldBack(m, v, a) \in Nat
      BY <1>1, HeldIs
    <3>3. HeldBack(n, v, a) = HeldBack(m, v, a) - Part(m, id, v, a) + Part(n, id, v, a)
      <4>1. (DOMAIN n.orders) \ {id} = (DOMAIN m.orders) \ {id} /\ DOMAIN n.orders \subseteq 1..id
            /\ DOMAIN m.orders \subseteq 1..id
        BY <1>1, <1>9
      <4>2. \A i \in (DOMAIN m.orders) \ {id} : n.orders[i] = m.orders[i]
        BY <1>9
      <4> QED BY <1>1, <1>8, <4>1, <4>2, HeldChanges
    <3>4. Part(m, id, v, a) = 0 /\ Part(n, id, v, a) = IF v = u /\ a = g THEN want ELSE 0
      BY <1>1, <1>4, <1>9 DEF Part, g
    <3>5. n.balance[v][a].freeze = m.balance[v][a].freeze + (IF v = u /\ a = g THEN want ELSE 0)
      <4>1. CASE v = u /\ a = g
        BY <4>1, <2>4, <1>9
      <4>2. CASE ~(v = u /\ a = g)
        <5>1. n.balance[v][a] = m.balance[v][a] /\ m.balance[v][a].freeze \in Int
          BY <4>2, <1>9, <3>1, <3>2
        <5> QED BY <4>2, <5>1
      <4> QED BY <4>1, <4>2
    <3>6. n.owed[v][a] = m.owed[v][a]
      BY <1>9
    <3> QED BY <3>1, <3>2, <3>3, <3>4, <3>5, <3>6, <1>3
  <2>6. ASSUME NEW a \in Assets PROVE InAll(n, a) = InAll(m, a)
    <3>1. /\ InAll(m, a) \in Int
          /\ InAll(n, a) = InAll(m, a) - (m.balance[u][a].available + m.balance[u][a].freeze)
                          + (n.balance[u][a].available + n.balance[u][a].freeze)
                          - m.burnt[a] + n.burnt[a]
      BY <1>1, <1>2, <1>8, <1>9, InAllChanges
    <3>2. m.burnt[a] \in Nat /\ n.burnt[a] = m.burnt[a]
      BY <1>1, <1>9, Fields
    <3>3. CASE a = g
      <4>1. n.balance[u][a].available + n.balance[u][a].freeze = m.balance[u][a].available + m.balance[u][a].freeze
            /\ m.balance[u][a].available + m.balance[u][a].freeze \in Int
        BY <3>3, <2>3, <2>4, <1>3, <1>9
      <4> QED BY <3>1, <3>2, <4>1
    <3>4. CASE a # g
      <4>1. n.balance[u][a] = m.balance[u][a] /\ m.balance[u][a] \in Account
        BY <3>4, <1>1, <1>9, Fields
      <4>2. m.balance[u][a].available \in Nat /\ m.balance[u][a].freeze \in Nat
        BY <4>1 DEF Account
      <4> QED BY <3>1, <3>2, <4>1, <4>2
    <3> QED BY <3>3, <3>4
  <2> QED BY <2>1, <2>5, <2>6 DEF Exact, Kept
<1>16. Good(n, id)
  BY <1>1, <1>8, <1>11, <1>12, <1>13, <1>14, <1>15 DEF Good, Shaped
<1> QED BY <1>9, <1>10, <1>16 DEF id

------------------------------------------------------------------------------
(* Sorted lists                                                             *)

\* With oper_type 1 a list has the better price first: no price after p is better.
NoWorse(side, p, q) == IF side = ASK THEN p <= q ELSE p >= q

\* Lists of orders that exist, each once, sorted, and no bid at or above an ask.
Neat(m) ==
  /\ \A s \in Sides : \A i \in DOMAIN m.book[s] : m.book[s][i] \in DOMAIN m.orders
  /\ \A s \in Sides : \A i, j \in DOMAIN m.book[s] :
       i < j => /\ m.book[s][i] # m.book[s][j]
                /\ NoWorse(s, m.orders[m.book[s][i]].price, m.orders[m.book[s][j]].price)
  /\ \A i \in DOMAIN m.book[BID], j \in DOMAIN m.book[ASK] :
       m.orders[m.book[BID][i]].price < m.orders[m.book[ASK][j]].price

\* r has some of s, in the order of s.
Sub(r, s) ==
  /\ \A i \in DOMAIN r : \E a \in DOMAIN s : s[a] = r[i]
  /\ \A i, j \in DOMAIN r : i < j => \E a, b \in DOMAIN s : a < b /\ s[a] = r[i] /\ s[b] = r[j]

\* n has the orders and lists of m, or less.
Thinner(n, m) == Fewer(n, m) /\ \A s \in Sides : Sub(n.book[s], m.book[s])

\* A sequence has what it has.
LEMMA SubSame == ASSUME NEW s PROVE Sub(s, s)
  BY DEF Sub

\* Less of less is less.
LEMMA SubTwice == ASSUME NEW r, NEW s, NEW t, Sub(r, s), Sub(s, t) PROVE Sub(r, t)
<1>1. ASSUME NEW i \in DOMAIN r PROVE \E a \in DOMAIN t : t[a] = r[i]
  <2>1. PICK a \in DOMAIN s : s[a] = r[i]
    BY DEF Sub
  <2>2. PICK c \in DOMAIN t : t[c] = s[a]
    BY DEF Sub
  <2> QED BY <2>1, <2>2
<1>2. ASSUME NEW i \in DOMAIN r, NEW j \in DOMAIN r, i < j
      PROVE  \E a, b \in DOMAIN t : a < b /\ t[a] = r[i] /\ t[b] = r[j]
  <2>1. PICK a \in DOMAIN s, b \in DOMAIN s : a < b /\ s[a] = r[i] /\ s[b] = r[j]
    BY <1>2 DEF Sub
  <2>2. PICK c \in DOMAIN t, d \in DOMAIN t : c < d /\ t[c] = s[a] /\ t[d] = s[b]
    BY <2>1 DEF Sub
  <2> QED BY <2>1, <2>2
<1> QED BY <1>1, <1>2 DEF Sub

\* Having less twice is having less.
LEMMA ThinnerTwice ==
  ASSUME NEW m, NEW n, NEW l, Thinner(n, m), Thinner(l, n)
  PROVE  Thinner(l, m)
  BY FewerTwice, SubTwice DEF Thinner

\* Fewer orders in the same lists are less.
LEMMA ThinnerSame ==
  ASSUME NEW m, NEW n, Fewer(n, m), n.book = m.book
  PROVE  Thinner(n, m)
  BY SubSame DEF Thinner

\* What was neat stays neat if no order that goes is in a list.
LEMMA ThinNeat ==
  ASSUME NEW m \in Memories, NEW n \in Memories, Neat(m), Thinner(n, m),
         \A s \in Sides : \A i \in DOMAIN n.book[s] : n.book[s][i] \in DOMAIN n.orders
  PROVE  Neat(n)
<1>1. \A i \in DOMAIN n.orders : i \in DOMAIN m.orders /\ n.orders[i].price = m.orders[i].price
  BY DEF Thinner, Fewer, SameOrder
<1>2. \A s \in Sides : Sub(n.book[s], m.book[s])
  BY DEF Thinner
<1>3. ASSUME NEW s \in Sides, NEW i \in DOMAIN n.book[s], NEW j \in DOMAIN n.book[s], i < j
      PROVE  /\ n.book[s][i] # n.book[s][j]
             /\ NoWorse(s, n.orders[n.book[s][i]].price, n.orders[n.book[s][j]].price)
  <2>1. PICK a \in DOMAIN m.book[s], b \in DOMAIN m.book[s] :
          a < b /\ m.book[s][a] = n.book[s][i] /\ m.book[s][b] = n.book[s][j]
    BY <1>2, <1>3 DEF Sub
  <2>2. /\ m.book[s][a] # m.book[s][b]
        /\ NoWorse(s, m.orders[m.book[s][a]].price, m.orders[m.book[s][b]].price)
    BY <2>1 DEF Neat
  <2>3. n.book[s][i] \in DOMAIN n.orders /\ n.book[s][j] \in DOMAIN n.orders
    OBVIOUS
  <2> QED BY <2>1, <2>2, <2>3, <1>1
<1>4. ASSUME NEW i \in DOMAIN n.book[BID], NEW j \in DOMAIN n.book[ASK]
      PROVE  n.orders[n.book[BID][i]].price < n.orders[n.book[ASK][j]].price
  <2>1. BID \in Sides /\ ASK \in Sides
    BY DEF Sides
  <2>2. PICK a \in DOMAIN m.book[BID] : m.book[BID][a] = n.book[BID][i]
    BY <1>2, <2>1 DEF Sub
  <2>3. PICK b \in DOMAIN m.book[ASK] : m.book[ASK][b] = n.book[ASK][j]
    BY <1>2, <2>1 DEF Sub
  <2>4. m.orders[m.book[BID][a]].price < m.orders[m.book[ASK][b]].price
    BY DEF Neat
  <2>5. n.book[BID][i] \in DOMAIN n.orders /\ n.book[ASK][j] \in DOMAIN n.orders
    BY <2>1
  <2> QED BY <2>2, <2>3, <2>4, <2>5, <1>1
<1> QED BY <1>3, <1>4 DEF Neat

\* A gap closes without a change of order.
LEMMA RemovedSub ==
  ASSUME NEW s \in Seq(Nat), NEW i \in 1..Len(s)
  PROVE  /\ Sub(RemoveAt(s, i), s)
         /\ (\A a, b \in DOMAIN s : a < b => s[a] # s[b]) =>
              \A j \in DOMAIN RemoveAt(s, i) : RemoveAt(s, i)[j] # s[i]
<1> DEFINE r == RemoveAt(s, i)
<1>1. /\ r \in Seq(Nat) /\ Len(r) = Len(s) - 1
      /\ \A j \in 1..(Len(s) - 1) : r[j] = IF j < i THEN s[j] ELSE s[j + 1]
  BY Removed
<1> HIDE DEF r
<1>2. Len(s) \in Nat /\ DOMAIN r = 1..(Len(s) - 1) /\ DOMAIN s = 1..Len(s)
  BY <1>1
<1>3. i \in Nat /\ i \in DOMAIN s
  BY <1>2
<1> DEFINE from == [j \in Nat |-> IF j < i THEN j ELSE j + 1]
<1>4. \A j \in Nat : from[j] = IF j < i THEN j ELSE j + 1
  OBVIOUS
<1> HIDE DEF from
<1>5. ASSUME NEW j \in DOMAIN r
      PROVE  /\ from[j] \in DOMAIN s /\ s[from[j]] = r[j] /\ from[j] # i
             /\ from[j] < i \/ i < from[j]
  <2>1. j \in 1..(Len(s) - 1) /\ j \in Nat
    BY <1>2
  <2>2. r[j] = IF j < i THEN s[j] ELSE s[j + 1]
    BY <2>1, <1>1
  <2>3. from[j] = IF j < i THEN j ELSE j + 1
    BY <2>1, <1>4
  <2>4. CASE j < i
    <3>1. from[j] = j /\ r[j] = s[j]
      BY <2>2, <2>3, <2>4
    <3> QED BY <3>1, <2>1, <2>4, <1>2, <1>3
  <2>5. CASE ~(j < i)
    <3>1. from[j] = j + 1 /\ r[j] = s[j + 1]
      BY <2>2, <2>3, <2>5
    <3> QED BY <3>1, <2>1, <2>5, <1>2, <1>3
  <2> QED BY <2>4, <2>5
<1>8. ASSUME NEW j \in DOMAIN r, NEW k \in DOMAIN r, j < k PROVE from[j] < from[k]
  <2>1. j \in Nat /\ k \in Nat
    BY <1>2
  <2>2. from[j] = (IF j < i THEN j ELSE j + 1) /\ from[k] = (IF k < i THEN k ELSE k + 1)
    BY <2>1, <1>4
  <2> QED BY <2>1, <2>2, <1>3, <1>8
<1>6. Sub(r, s)
  <2>1. \A j \in DOMAIN r : \E a \in DOMAIN s : s[a] = r[j]
    BY <1>5
  <2>2. \A j, k \in DOMAIN r : j < k => \E a, b \in DOMAIN s : a < b /\ s[a] = r[j] /\ s[b] = r[k]
    BY <1>5, <1>8
  <2> QED BY <2>1, <2>2 DEF Sub
<1>7. ASSUME \A a, b \in DOMAIN s : a < b => s[a] # s[b], NEW j \in DOMAIN r PROVE r[j] # s[i]
  <2>1. from[j] \in DOMAIN s /\ s[from[j]] = r[j] /\ (from[j] < i \/ i < from[j])
    BY <1>5
  <2> QED BY <2>1, <1>3, <1>7
<1> QED BY <1>6, <1>7 DEF r

\* An order that leaves its list is in it no more, and the others stay where they are.
LEMMA UnlistedNeat ==
  ASSUME NEW m \in Memories, Neat(m), NEW side \in Sides, NEW id, NEW n, n = Unlisted(m, side, id)
  PROVE  /\ Neat(n) /\ Thinner(n, m) /\ n.crashed = m.crashed
         /\ \A i \in DOMAIN n.book[side] : n.book[side][i] # id
         /\ \A s \in Sides \ {side} : n.book[s] = m.book[s]
<1> DEFINE at == {i \in DOMAIN m.book[side] : m.book[side][i] = id}
<1>1. n \in Memories /\ n.orders = m.orders /\ Fewer(n, m)
  BY UnlistedIs
<1>2. ~Stale(m, side)
  BY DEF Stale, Neat
<1>3. CASE at = {}
  <2>1. n = m
    BY <1>2, <1>3 DEF Unlisted
  <2> QED BY <2>1, <1>1, <1>3, ThinnerSame
<1>4. CASE at # {}
  <2> DEFINE i == CHOOSE i \in at : TRUE
             list == RemoveAt(m.book[side], i)
  <2>1. i \in at
    BY <1>4
  <2>2. n = [m EXCEPT !.book[side] = list]
    BY <1>2, <1>4 DEF Unlisted
  <2>3. m.book[side] \in Seq(Nat) /\ i \in 1..Len(m.book[side]) /\ m.book[side][i] = id
    BY <2>1, Fields
  <2> HIDE DEF i
  <2>4. Sub(list, m.book[side]) /\ \A j \in DOMAIN list : list[j] # id
    <3>1. \A a, b \in DOMAIN m.book[side] : a < b => m.book[side][a] # m.book[side][b]
      BY DEF Neat
    <3> QED BY <2>3, <3>1, RemovedSub
  <2> HIDE DEF list
  <2>5. n.book = [m.book EXCEPT ![side] = list] /\ n.crashed = m.crashed
    BY <2>2, Fields
  <2>6. n.book[side] = list /\ \A s \in Sides \ {side} : n.book[s] = m.book[s]
    BY <2>5, Fields
  <2>7. Thinner(n, m)
    <3>1. ASSUME NEW s \in Sides PROVE Sub(n.book[s], m.book[s])
      BY <2>4, <2>6, SubSame
    <3> QED BY <3>1, <1>1 DEF Thinner
  <2>8. \A s \in Sides : \A j \in DOMAIN n.book[s] : n.book[s][j] \in DOMAIN n.orders
    <3> SUFFICES ASSUME NEW s \in Sides, NEW j \in DOMAIN n.book[s] PROVE n.book[s][j] \in DOMAIN n.orders
      OBVIOUS
    <3>1. PICK a \in DOMAIN m.book[s] : m.book[s][a] = n.book[s][j]
      BY <2>7 DEF Thinner, Sub
    <3> QED BY <3>1, <1>1 DEF Neat
  <2>9. Neat(n)
    BY <2>7, <2>8, <1>1, ThinNeat
  <2> QED BY <2>4, <2>5, <2>6, <2>7, <2>9
<1> QED BY <1>3, <1>4

\* An order that is in no list can go.
LEMMA ForgetNeat ==
  ASSUME NEW m \in Memories, Neat(m), NEW id, NEW n, n = Forget(m, id),
         \A s \in Sides : \A i \in DOMAIN m.book[s] : m.book[s][i] # id
  PROVE  Neat(n) /\ Thinner(n, m)
<1>1. /\ n \in Memories /\ Fewer(n, m) /\ n.book = m.book
      /\ DOMAIN n.orders = (DOMAIN m.orders) \ {id}
  BY ForgetIs
<1>2. Thinner(n, m)
  BY <1>1, ThinnerSame
<1>3. \A s \in Sides : \A i \in DOMAIN n.book[s] : n.book[s][i] \in DOMAIN n.orders
  BY <1>1 DEF Neat
<1> QED BY <1>1, <1>2, <1>3, ThinNeat

\* An account and a list are different fields.
LEMMA AccountNeat ==
  ASSUME NEW m \in Memories, Neat(m), NEW n \in Memories, n.orders = m.orders, n.book = m.book
  PROVE  Neat(n) /\ Thinner(n, m)
<1>1. Fewer(n, m)
  BY DEF Fewer, SameOrder
<1>2. Thinner(n, m)
  BY <1>1, ThinnerSame
<1>3. \A s \in Sides : \A i \in DOMAIN n.book[s] : n.book[s][i] \in DOMAIN n.orders
  BY DEF Neat
<1> QED BY <1>2, <1>3, ThinNeat

\* An order that is in the index is in no list but that of its side.
LEMMA OwnList ==
  ASSUME NEW m, NEW k, Listing(m, k), NEW id \in DOMAIN m.orders, NEW s \in Sides,
         NEW i \in DOMAIN m.book[s], m.book[s][i] = id
  PROVE  s = m.orders[id].side
  BY DEF Listing

\* order_finish takes the order out of its list, even if it stays in the index.
LEMMA FinishNeat ==
  ASSUME NEW m, NEW k, Shaped(m, k), Neat(m), NEW id \in DOMAIN m.orders,
         NEW side, side = m.orders[id].side, NEW n, n = order_finish(m, id)
  PROVE  /\ Neat(n) /\ Thinner(n, m) /\ n.crashed = m.crashed
         /\ \A i \in DOMAIN n.book[side] : n.book[side][i] # id
<1> DEFINE o == m.orders[id]  v == o.user  g == Gives(o.side)  f == o.freeze
           out == Unlisted(m, side, id)  acc == m.balance[v][g]  new == balance_unfreeze(acc, f)
           paid == WithAccount(out, v, g, new)
<1>1. m \in Memories /\ k \in Nat /\ Listing(m, k) /\ Whole(m) /\ Lacking(m)
  BY DEF Shaped
<1>2. side \in Sides /\ v \in Users /\ f \in Nat /\ g \in Assets
  BY <1>1, OrderFields, TwoAssets
<1>3. out \in Memories /\ out.balance = m.balance /\ out.orders = m.orders
  BY <1>1, <1>2, UnlistedIs
<1>4. /\ Neat(out) /\ Thinner(out, m) /\ out.crashed = m.crashed /\ \A i \in DOMAIN out.book[side] : out.book[side][i] # id
      /\ \A s \in Sides \ {side} : out.book[s] = m.book[s]
  BY <1>1, <1>2, UnlistedNeat
<1>5. Stored(acc) /\ Stored(new)
  <2>1. Stored(acc)
    BY <1>1, <1>2 DEF Whole
  <2> HIDE DEF acc
  <2> QED BY <2>1, <1>2, Accounts
<1>6. n = IF CanSub(acc, "freeze", f) THEN Forget(paid, id) ELSE out
  BY <1>3 DEF order_finish, WithAccount
<1> HIDE DEF o, v, g, f, acc, new, out
<1>7. AccountIs(paid, out, v, g, new)
  BY <1>2, <1>3, <1>5, AccountSet, Zenon
<1> HIDE DEF paid
<1>8. paid \in Memories /\ paid.orders = out.orders /\ paid.book = out.book /\ paid.crashed = out.crashed
  BY <1>7 DEF AccountIs
<1>9. Neat(paid) /\ Thinner(paid, out)
  BY <1>3, <1>4, <1>8, AccountNeat
<1>10. \A s \in Sides : \A i \in DOMAIN paid.book[s] : paid.book[s][i] # id
  <2> SUFFICES ASSUME NEW s \in Sides, NEW i \in DOMAIN paid.book[s] PROVE paid.book[s][i] # id
    OBVIOUS
  <2>1. CASE s = side
    BY <2>1, <1>4, <1>8
  <2>2. CASE s # side
    <3>1. paid.book[s] = m.book[s]
      BY <2>2, <1>4, <1>8
    <3> QED BY <3>1, <2>2, <1>1, OwnList
  <2> QED BY <2>1, <2>2
<1>11. PICK l : l = Forget(paid, id)
  OBVIOUS
<1>12. Neat(l) /\ Thinner(l, paid) /\ l.book = paid.book /\ l.crashed = paid.crashed
  BY <1>8, <1>9, <1>10, <1>11, ForgetNeat, ForgetIs
<1>13. Thinner(l, m)
  BY <1>4, <1>9, <1>12, ThinnerTwice
<1> QED BY <1>2, <1>4, <1>6, <1>8, <1>10, <1>11, <1>12, <1>13

\* With oper_type 1 order_finish_future looks in the list of the order's side.
LEMMA FinishFutureNeat ==
  ASSUME heap = 1, NEW m \in Memories, NEW k, Listing(m, k), Neat(m), NEW id \in DOMAIN m.orders,
         NEW n, n = order_finish_future(m, id)
  PROVE  Neat(n)
<1> DEFINE side == m.orders[id].side  out == Unlisted(m, side, id)
<1>1. side \in Sides /\ side = FinishSide(side)
  <2>1. side \in Sides
    BY OrderFields
  <2> QED BY <2>1 DEF FinishSide, Sides, ASK, BID
<1>2. n = Forget(out, id)
  BY <1>1 DEF order_finish_future
<1>3. out \in Memories
  BY <1>1, UnlistedIs
<1>4. /\ Neat(out) /\ \A i \in DOMAIN out.book[side] : out.book[side][i] # id
      /\ \A s \in Sides \ {side} : out.book[s] = m.book[s]
  BY <1>1, UnlistedNeat
<1> HIDE DEF out
<1>5. \A s \in Sides : \A i \in DOMAIN out.book[s] : out.book[s][i] # id
  <2> SUFFICES ASSUME NEW s \in Sides, NEW i \in DOMAIN out.book[s] PROVE out.book[s][i] # id
    OBVIOUS
  <2>1. CASE s = side
    BY <2>1, <1>4
  <2>2. CASE s # side
    <3>1. out.book[s] = m.book[s]
      BY <2>2, <1>4
    <3> QED BY <3>1, <2>2, OwnList
  <2> QED BY <2>1, <2>2
<1> QED BY <1>2, <1>3, <1>4, <1>5, ForgetNeat

\* A deal keeps the lists neat, and an order that is filled leaves its list.
LEMMA DealNeat ==
  ASSUME NEW m, NEW k, Good(m, k), Neat(m), NEW taker, NEW u, NEW side, Deals(taker, u, side),
         NEW id \in DOMAIN m.orders, m.orders[id].side = Other(side),
         NEW amount \in Nat, amount <= m.orders[id].left,
         SoundMem(m) => Available(m, u, Gives(side)) >= Worth(Gives(side), amount, m.orders[id].price),
         NEW n, n = Deal(m, taker, id, amount)
  PROVE  /\ Neat(n) /\ Thinner(n, m) /\ n.crashed = m.crashed
         /\ amount = m.orders[id].left => \A i \in DOMAIN n.book[Other(side)] : n.book[Other(side)][i] # id
<1> DEFINE b == Bargain(m, taker, id, amount)
<1>1. m \in Memories /\ k \in Nat /\ Whole(m)
  BY DEF Good, Shaped
<1>2. n = IF b.orders[id].left = 0 THEN order_finish(b, id) ELSE b
  BY <1>1, DealIs
<1>3. IsBargain(b, m, k, u, side, id, amount)
  BY BargainIs
<1> HIDE DEF b
<1>4. /\ Shaped(b, k) /\ b \in Memories /\ Fewer(b, m) /\ b.book = m.book /\ DOMAIN b.orders = DOMAIN m.orders
      /\ b.orders[id] = Shrinks(m.orders[id], amount) /\ b.crashed = m.crashed
  BY <1>3 DEF IsBargain, Shaped
<1>5. Thinner(b, m)
  BY <1>4, ThinnerSame
<1>6. Neat(b)
  <2>1. \A s \in Sides : \A i \in DOMAIN b.book[s] : b.book[s][i] \in DOMAIN b.orders
    BY <1>4 DEF Neat
  <2> QED BY <2>1, <1>1, <1>4, <1>5, ThinNeat
<1>7. b.orders[id].side = Other(side)
  BY <1>4 DEF Fewer, SameOrder
<1>8. amount = m.orders[id].left => b.orders[id].left = 0
  <2>1. m.orders[id].left \in Nat
    BY <1>1, OrderFields
  <2> QED BY <2>1, <1>4 DEF Shrinks
<1>9. CASE b.orders[id].left = 0
  <2>1. n = order_finish(b, id) /\ id \in DOMAIN b.orders
    BY <1>2, <1>4, <1>9
  <2>2. Neat(n) /\ Thinner(n, b) /\ n.crashed = b.crashed /\ \A i \in DOMAIN n.book[Other(side)] : n.book[Other(side)][i] # id
    BY <2>1, <1>4, <1>6, <1>7, FinishNeat
  <2> QED BY <2>2, <1>4, <1>5, ThinnerTwice
<1>10. CASE b.orders[id].left # 0
  BY <1>2, <1>4, <1>5, <1>6, <1>8, <1>10
<1> QED BY <1>9, <1>10

\* An order at price would match one at p.
Meets(side, price, p) == IF side = ASK THEN price <= p ELSE price >= p

\* A step of the loop for a limit order: it stops because there is nothing left to do, because
\* memory was freed or because the next order does not match; or that order leaves its list,
\* unless nothing is left to do.
Moves(q, r, id, side, price) ==
  /\ Neat(q.mem) /\ Thinner(q.mem, r.mem) /\ (r.mem.crashed => q.mem.crashed)
  /\ price > 0 =>
       \/ q.mem = r.mem /\ q.taker = r.taker /\ q.stop /\ (r.stop \/ r.taker.left = 0)
       \/ q.mem.crashed
       \/ /\ q.mem = r.mem /\ q.taker = r.taker /\ q.stop /\ id \in DOMAIN r.mem.orders
          /\ ~Meets(side, price, r.mem.orders[id].price)
       \/ /\ ~q.stop /\ ~r.stop /\ r.taker.left # 0
          /\ q.taker.left = 0 \/ \A i \in DOMAIN q.mem.book[Other(side)] : q.mem.book[Other(side)][i] # id

\* The amount of a deal with a limit order: either of the two orders is filled.
LEMMA AmountIs ==
  ASSUME NEW u, NEW side, NEW price \in Nat, price > 0, NEW mm, NEW taker \in Takers(u, side, price, mm),
         NEW maker, maker.left \in Nat
  PROVE  /\ ~MarketBid(taker) /\ AmountOf(taker, maker) \in {taker.left, maker.left}
         /\ Crosses(taker, maker) <=> Meets(side, price, maker.price)
<1>1. taker.price = price /\ taker.side = side /\ taker.left \in Nat /\ price # 0
  BY DEF Takers
<1> QED BY <1>1 DEF MarketBid, AmountOf, Crosses, Meets

\* The loop keeps the lists neat.
LEMMA MatchStepNeat ==
  ASSUME NEW k \in Nat, NEW L, NEW u \in Users, NEW side \in Sides, NEW price \in Nat, NEW mm,
         NEW r \in Running(k, L, u, side, price, mm), Neat(r.mem), NEW id \in L
  PROVE  Moves(MatchStep(r, id), r, id, side, price)
<1> DEFINE m == r.mem  taker == r.taker  maker == m.orders[id]  amount == AmountOf(taker, maker)
           spent == IF MarketBid(taker) THEN amount * maker.price ELSE amount
           left == taker.left - spent
           t == [taker EXCEPT !.left = left]  yes == TRUE
           crash == Crash(m)  fin == order_finish(m, id)  deal == Deal(m, taker, id, amount)
           e1 == [r EXCEPT !.stop = yes]  e2 == [r EXCEPT !.stop = yes, !.mem = crash]
           e4 == [r EXCEPT !.mem = fin]  e6 == [r EXCEPT !.mem = deal, !.taker.left = left]
           c1 == r.stop \/ taker.left = 0  c2 == id \in DOMAIN m.orders  c3 == Crosses(taker, maker)
           c4 == taker.mm > 0 /\ maker.mm = CANCEL  c5 == amount = 0
           q == MatchStep(r, id)
<1>1. /\ r = [mem |-> m, taker |-> taker, stop |-> r.stop]
      /\ m \in Memories /\ taker \in Takers(u, side, price, mm) /\ r.stop \in BOOLEAN
      /\ Good(m, k) /\ Neat(m)
      /\ (id \in DOMAIN m.orders => maker.side = Other(side))
      /\ SoundMem(m) => Available(m, u, Gives(side)) >= Need(taker)
  BY RunIs
<1>2. q = IF c1 THEN e1 ELSE IF ~c2 THEN e2 ELSE IF ~c3 THEN e1 ELSE IF c4 THEN e4 ELSE IF c5 THEN e1 ELSE e6
  <2>1. r.taker.left - (IF MarketBid(taker) THEN amount * maker.price ELSE amount) = left
    OBVIOUS
  <2> QED BY <2>1, Zenon DEF MatchStep
<1>3. e1.mem = m /\ e1.taker = taker /\ e1.stop = TRUE
  <2>1. e1 = [mem |-> m, taker |-> taker, stop |-> yes]
    <3> HIDE DEF yes
    <3> QED BY <1>1, RunStops, Zenon
  <2> HIDE DEF e1
  <2> QED BY <2>1
<1>4. e2.mem = crash
  <2>1. e2 = [mem |-> crash, taker |-> taker, stop |-> yes]
    <3> HIDE DEF crash, yes
    <3>1. Halted(r, crash, yes) = [mem |-> crash, taker |-> taker, stop |-> yes]
      BY <1>1, RunHalted
    <3> QED BY <3>1, Zenon DEF Halted
  <2> HIDE DEF e2
  <2> QED BY <2>1
<1>5. e4.mem = fin /\ e4.taker = taker /\ e4.stop = r.stop
  <2>1. e4 = [mem |-> fin, taker |-> taker, stop |-> r.stop]
    <3> HIDE DEF fin
    <3> QED BY <1>1, RunMoves, Zenon
  <2> HIDE DEF e4
  <2> QED BY <2>1
<1>6. e6.mem = deal /\ e6.taker.left = left /\ e6.stop = r.stop
  <2>1. e6 = [mem |-> deal, taker |-> t, stop |-> r.stop]
    <3> HIDE DEF deal, left
    <3>1. Went(r, deal, left) = [mem |-> deal, taker |-> [r.taker EXCEPT !.left = left], stop |-> r.stop]
      BY <1>1, RunWent
    <3> QED BY <3>1, Zenon DEF Went
  <2>2. t.left = left
    BY <1>1 DEF Takers
  <2> HIDE DEF e6, t
  <2> QED BY <2>1, <2>2
<1>7. c2 => maker \in Orders /\ maker.left \in Nat /\ maker.left > 0 /\ maker.side = Other(side)
  BY <1>1, OrderFields DEF Good, Promised
<1>8. Thinner(m, m)
  BY FewerSame, ThinnerSame
<1>9. taker.left \in Nat
  BY <1>1 DEF Takers
<1> HIDE DEF e1, e2, e4, e6, q
<1>10. CASE c1
  <2>1. q = e1
    BY <1>2, <1>10
  <2> QED BY <2>1, <1>1, <1>3, <1>8, <1>10 DEF Moves, q
<1>11. CASE ~c1 /\ ~c2
  <2>1. q = e2
    BY <1>2, <1>11
  <2>2. PICK n : n = Crash(m)
    OBVIOUS
  <2>3. n.crashed = TRUE /\ n \in Memories /\ n.book = m.book /\ n.orders = m.orders
    BY <1>1, <2>2, CrashIs DEF Good, Shaped
  <2>4. Neat(n) /\ Thinner(n, m)
    BY <2>3, <1>1, AccountNeat
  <2> QED BY <2>1, <2>2, <2>3, <2>4, <1>4 DEF Moves, q
<1>12. CASE ~c1 /\ c2 /\ ~c3
  <2>1. q = e1
    BY <1>2, <1>12
  <2>2. price > 0 => ~Meets(side, price, maker.price)
    <3> HIDE DEF taker, maker
    <3> QED BY <1>1, <1>7, <1>12, AmountIs
  <2> QED BY <2>1, <2>2, <1>1, <1>3, <1>8, <1>12 DEF Moves, q
<1>13. CASE ~c1 /\ c2 /\ c3 /\ c4
  <2>1. q = e4
    <3> HIDE DEF c1, c2, c3, c4, c5
    <3> QED BY <1>2, <1>13
  <2>2. Neat(fin) /\ Thinner(fin, m) /\ fin.crashed = m.crashed
        /\ \A i \in DOMAIN fin.book[Other(side)] : fin.book[Other(side)][i] # id
    BY <1>1, <1>7, <1>13, FinishNeat DEF Good
  <2> HIDE DEF fin
  <2> QED BY <2>1, <2>2, <1>5, <1>13 DEF Moves, q
<1>14. CASE ~c1 /\ c2 /\ c3 /\ ~c4 /\ c5
  <2>1. q = e1
    <3> HIDE DEF c1, c2, c3, c4, c5
    <3> QED BY <1>2, <1>14
  <2>2. ~(price > 0)
    <3>1. ASSUME price > 0 PROVE FALSE
      <4>1. amount \in {taker.left, maker.left}
        <5> HIDE DEF taker, maker
        <5> QED BY <3>1, <1>1, <1>7, <1>14, AmountIs
      <4> QED BY <4>1, <1>7, <1>9, <1>14
    <3> QED BY <3>1
  <2> QED BY <2>1, <2>2, <1>1, <1>3, <1>8 DEF Moves, q
<1>15. CASE ~c1 /\ c2 /\ c3 /\ ~c4 /\ ~c5
  <2>1. q = e6
    <3> HIDE DEF c1, c2, c3, c4, c5
    <3> QED BY <1>2, <1>15
  <2> DEFINE w == Worth(Gives(side), amount, maker.price)
  <2>2. /\ amount \in Nat /\ amount <= maker.left /\ left \in Nat
        /\ Need(t) + w <= Need(taker) /\ Need(t) \in Nat /\ Need(taker) \in Nat
    <3> HIDE DEF maker, taker
    <3> QED BY <1>1, <1>7, <1>15, Spending
  <2>3. SoundMem(m) => Available(m, u, Gives(side)) >= w
    <3>1. Gives(side) \in Assets /\ maker.price \in Nat
      BY <1>1, <1>15, TwoAssets, OrderFields
    <3>2. w \in Nat
      BY <2>2, <3>1, WorthType
    <3>3. m.balance[u][Gives(side)] \in Account
      BY <3>1, <1>1, Fields
    <3>4. Available(m, u, Gives(side)) \in Nat
      BY <3>3 DEF Account, Available
    <3> HIDE DEF w, t, taker
    <3> QED BY <2>2, <3>2, <3>4, <1>1
  <2>4. Deals(taker, u, side)
    BY <1>1 DEF Deals, Takers
  <2>5. /\ Neat(deal) /\ Thinner(deal, m) /\ deal.crashed = m.crashed
        /\ amount = maker.left => \A i \in DOMAIN deal.book[Other(side)] : deal.book[Other(side)][i] # id
    <3>1. maker.side = Other(side) /\ id \in DOMAIN m.orders
      BY <1>1, <1>15
    <3> HIDE DEF m, taker, amount
    <3> QED BY <3>1, <2>2, <2>3, <2>4, <1>1, DealNeat
  <2>6. price > 0 => left = 0 \/ amount = maker.left
    <3>1. ASSUME price > 0 PROVE left = 0 \/ amount = maker.left
      <4>1. ~MarketBid(taker) /\ amount \in {taker.left, maker.left}
        <5> HIDE DEF taker, maker
        <5> QED BY <3>1, <1>1, <1>7, <1>15, AmountIs
      <4>2. left = taker.left - amount
        BY <4>1
      <4> QED BY <4>1, <4>2, <1>9
    <3> QED BY <3>1
  <2> HIDE DEF deal, left, amount
  <2> QED BY <2>1, <2>5, <2>6, <1>6, <1>15 DEF Moves, q
<1> HIDE DEF c1, c2, c3, c4, c5
<1> QED BY <1>10, <1>11, <1>12, <1>13, <1>14, <1>15

\* No order of the other side matches one at price.
Apart(m, side, price) ==
  \A a \in DOMAIN m.book[Other(side)] : ~Meets(side, price, m.orders[m.book[Other(side)][a]].price)

\* While there is something left to do, nothing is in the list but what comes after place i of
\* s; and if the loop stopped, nothing matches.
Clear(r, i, s, side, price) ==
  price > 0 /\ r.taker.left > 0 /\ ~r.mem.crashed =>
    IF r.stop THEN Apart(r.mem, side, price)
    ELSE \A a \in DOMAIN r.mem.book[Other(side)] : \E j \in (i + 1)..Len(s) : s[j] = r.mem.book[Other(side)][a]

\* What does not match a price does not match with worse ones behind it.
LEMMA MeetsLess ==
  ASSUME NEW side \in Sides, NEW price \in Nat, NEW p \in Nat, NEW q \in Nat,
         NoWorse(Other(side), p, q), ~Meets(side, price, p)
  PROVE  ~Meets(side, price, q)
<1>1. CASE side = ASK
  BY <1>1 DEF NoWorse, Meets, Other, ASK, BID
<1>2. CASE side = BID
  BY <1>2 DEF NoWorse, Meets, Other, ASK, BID
<1> QED BY <1>1, <1>2 DEF Sides

\* A step of the loop goes one place further.
LEMMA StepClear ==
  ASSUME NEW m \in Memories, Neat(m), NEW side \in Sides, NEW price \in Nat,
         NEW s, s = m.book[Other(side)], NEW i \in 1..Len(s),
         NEW r, r.mem \in Memories, r.taker.left \in Nat, r.stop \in BOOLEAN, Thinner(r.mem, m), Neat(r.mem),
         NEW q, q.taker.left \in Nat, q.stop \in BOOLEAN, Moves(q, r, s[i], side, price),
         Clear(r, i - 1, s, side, price)
  PROVE  Clear(q, i, s, side, price)
<1> SUFFICES ASSUME price > 0, q.taker.left > 0, ~q.mem.crashed
             PROVE  IF q.stop THEN Apart(q.mem, side, price)
                    ELSE \A a \in DOMAIN q.mem.book[Other(side)] :
                           \E j \in (i + 1)..Len(s) : s[j] = q.mem.book[Other(side)][a]
  BY DEF Clear
<1> DEFINE o == Other(side)
<1>1. o \in Sides /\ s \in Seq(Nat) /\ Len(s) \in Nat /\ i \in DOMAIN s
  <2>1. o \in Sides /\ s \in Seq(Nat)
    BY TwoAssets, Fields
  <2> QED BY <2>1
<1>2. /\ Thinner(q.mem, r.mem) /\ ~r.mem.crashed
      /\ \/ q.mem = r.mem /\ q.taker = r.taker /\ q.stop /\ (r.stop \/ r.taker.left = 0)
         \/ /\ q.mem = r.mem /\ q.taker = r.taker /\ q.stop /\ s[i] \in DOMAIN r.mem.orders
            /\ ~Meets(side, price, r.mem.orders[s[i]].price)
         \/ /\ ~q.stop /\ ~r.stop /\ r.taker.left # 0
            /\ \A a \in DOMAIN q.mem.book[o] : q.mem.book[o][a] # s[i]
  BY DEF Moves
<1> HIDE DEF o
<1>3. r.taker.left > 0 => IF r.stop THEN Apart(r.mem, side, price)
        ELSE \A a \in DOMAIN r.mem.book[o] : \E j \in ((i - 1) + 1)..Len(s) : s[j] = r.mem.book[o][a]
  BY <1>2 DEF Clear, o
<1>4. ~r.stop /\ r.taker.left > 0 =>
        \A a \in DOMAIN r.mem.book[o] : \E j \in i..Len(s) : s[j] = r.mem.book[o][a]
  <2>1. (i - 1) + 1 = i
    BY <1>1
  <2> QED BY <2>1, <1>3
<1>5. CASE q.mem = r.mem /\ q.taker = r.taker /\ q.stop /\ (r.stop \/ r.taker.left = 0)
  BY <1>3, <1>5
<1>6. CASE /\ q.mem = r.mem /\ q.taker = r.taker /\ q.stop /\ s[i] \in DOMAIN r.mem.orders
           /\ ~Meets(side, price, r.mem.orders[s[i]].price)
  <2>1. CASE r.stop
    BY <2>1, <1>3, <1>6
  <2>2. CASE ~r.stop
    <3> SUFFICES ASSUME NEW a \in DOMAIN r.mem.book[o]
                 PROVE  ~Meets(side, price, r.mem.orders[r.mem.book[o][a]].price)
      BY <1>6 DEF Apart, o
    <3>1. PICK j \in i..Len(s) : s[j] = r.mem.book[o][a]
      BY <2>2, <1>4, <1>6
    <3>2. CASE j = i
      BY <3>1, <3>2, <1>6
    <3>3. CASE j # i
      <4>1. i < j /\ j \in DOMAIN s
        BY <3>1, <3>3, <1>1
      <4>2. NoWorse(o, m.orders[s[i]].price, m.orders[s[j]].price) /\ s[i] \in DOMAIN m.orders /\ s[j] \in DOMAIN m.orders
        BY <4>1, <1>1 DEF Neat, o
      <4>3. \A id \in DOMAIN r.mem.orders : r.mem.orders[id].price = m.orders[id].price
        BY DEF Thinner, Fewer, SameOrder
      <4>4. m.orders[s[i]].price \in Nat /\ m.orders[s[j]].price \in Nat
        BY <4>2, OrderFields
      <4>5. ~Meets(side, price, m.orders[s[j]].price)
        BY <4>2, <4>3, <4>4, <1>6, MeetsLess DEF o
      <4>6. s[j] \in DOMAIN r.mem.orders
        BY <3>1, <1>1 DEF Neat
      <4> QED BY <4>3, <4>5, <4>6, <3>1
    <3> QED BY <3>2, <3>3
  <2> QED BY <2>1, <2>2
<1>7. CASE /\ ~q.stop /\ ~r.stop /\ r.taker.left # 0
           /\ \A a \in DOMAIN q.mem.book[o] : q.mem.book[o][a] # s[i]
  <2> SUFFICES ASSUME NEW a \in DOMAIN q.mem.book[o]
               PROVE  \E j \in (i + 1)..Len(s) : s[j] = q.mem.book[o][a]
    BY <1>7 DEF o
  <2>1. PICK b \in DOMAIN r.mem.book[o] : r.mem.book[o][b] = q.mem.book[o][a]
    BY <1>1, <1>2 DEF Thinner, Sub
  <2>2. r.taker.left > 0
    BY <1>7
  <2>3. PICK j \in i..Len(s) : s[j] = r.mem.book[o][b]
    BY <2>2, <1>4, <1>7
  <2>4. j # i
    BY <2>1, <2>3, <1>7
  <2>5. j \in (i + 1)..Len(s)
    BY <2>3, <2>4, <1>1
  <2> QED BY <2>1, <2>3, <2>5
<1> QED BY <1>2, <1>5, <1>6, <1>7

\* What a match leaves: neat lists, and if something is left of a limit order, nothing it would match.
LEMMA ExecutedNeat ==
  ASSUME NEW m, Good(m, m.order_id), Neat(m), NEW u \in Users, NEW side \in Sides, NEW price \in Nat, NEW mm,
         NEW taker \in Takers(u, side, price, mm),
         SoundMem(m) => Available(m, u, Gives(side)) >= Need(taker),
         NEW run, run = Executed(m, taker)
  PROVE  /\ Neat(run.mem)
         /\ price > 0 /\ run.taker.left > 0 /\ ~run.mem.crashed => Apart(run.mem, side, price)
<1> DEFINE k == m.order_id  L == IdsIn(m, Other(side))  S == Running(k, L, u, side, price, mm)
           n == WithNextId(m)  no == FALSE  base == [mem |-> n, taker |-> taker, stop |-> no]
           s == m.book[Other(side)]  M == {r \in S : Neat(r.mem) /\ Thinner(r.mem, m)}
<1>1. m \in Memories /\ k \in Nat /\ Other(side) \in Sides
  BY TwoAssets DEF Good, Shaped
<1>2. /\ Good(n, k) /\ n \in Memories /\ n.order_id = k + 1
      /\ n.balance = m.balance /\ n.orders = m.orders /\ n.book = m.book
      /\ SoundMem(n) <=> SoundMem(m)
  BY NextIdIs
<1>3. Neat(n) /\ Thinner(n, m)
  BY <1>1, <1>2, AccountNeat
<1>4. s \in Seq(Nat) /\ s \in Seq(L) /\ L = {s[i] : i \in DOMAIN s} /\ Len(s) \in Nat
  <2>1. s \in Seq(Nat)
    BY <1>1, Fields
  <2>2. L = {s[i] : i \in DOMAIN s}
    BY DEF IdsIn
  <2> HIDE DEF s, L
  <2>3. s \in [1..Len(s) -> L] /\ Len(s) \in Nat
    BY <2>1, <2>2
  <2> QED BY <2>1, <2>2, <2>3
<1>5. \A id \in L : id \in DOMAIN n.orders => n.orders[id].side = Other(side)
  BY <1>1, <1>2 DEF Good, Shaped, Listing, IdsIn
<1>6. SoundMem(n) => Available(n, u, Gives(side)) >= Need(taker)
  BY <1>2 DEF Available
<1>7. taker.side = side
  BY DEF Takers
<1>8. run = FoldLeft(MatchStep, base, s)
  BY <1>7 DEF Executed, WithNextId
<1>9. no \in BOOLEAN
  OBVIOUS
<1> HIDE DEF n, no
<1>10. base \in M /\ base.mem = n /\ base.stop = no
  <2>1. base.mem = n /\ base.taker = taker /\ base.stop = no
    OBVIOUS
  <2>2. base \in [mem : Memories, taker : Takers(u, side, price, mm), stop : BOOLEAN]
    BY <1>2, <1>9
  <2> HIDE DEF base, L
  <2>3. base \in S
    BY <1>2, <1>5, <1>6, <2>1, <2>2 DEF Running
  <2> HIDE DEF S
  <2> QED BY <1>3, <2>1, <2>3
<1> HIDE DEF base, L, s
<1>11. ASSUME NEW r \in M, NEW id \in L
       PROVE  MatchStep(r, id) \in M /\ Moves(MatchStep(r, id), r, id, side, price)
  <2>1. PICK q : q = MatchStep(r, id)
    OBVIOUS
  <2>2. r \in S /\ Neat(r.mem) /\ Thinner(r.mem, m)
    OBVIOUS
  <2> HIDE DEF M, k
  <2>3. q \in S
    BY <1>1, <2>1, <2>2, MatchStepIs
  <2>4. Moves(q, r, id, side, price)
    BY <1>1, <2>1, <2>2, MatchStepNeat
  <2>5. Neat(q.mem) /\ Thinner(q.mem, m)
    BY <2>2, <2>4, ThinnerTwice DEF Moves
  <2> HIDE DEF S
  <2>6. q \in M
    BY <2>3, <2>5 DEF M
  <2> QED BY <2>1, <2>4, <2>6
<1>12. \A r \in M : /\ r.mem \in Memories /\ r.taker.left \in Nat /\ r.stop \in BOOLEAN
                    /\ Neat(r.mem) /\ Thinner(r.mem, m)
  <2> SUFFICES ASSUME NEW r \in M
               PROVE  /\ r.mem \in Memories /\ r.taker.left \in Nat /\ r.stop \in BOOLEAN
                      /\ Neat(r.mem) /\ Thinner(r.mem, m)
    OBVIOUS
  <2>1. r.mem \in Memories /\ r.taker \in Takers(u, side, price, mm) /\ r.stop \in BOOLEAN
    BY RunIs
  <2> QED BY <2>1 DEF Takers
<1> HIDE DEF M, S
<1>13. PICK h \in [0..Len(s) -> M] :
         /\ h[0] = base
         /\ \A i \in 1..Len(s) : h[i] = MatchStep(h[i - 1], s[i])
         /\ run = h[Len(s)]
  <2>1. Matched(run, M, base, s)
    BY <1>4, <1>8, <1>10, <1>11, MatchRuns, Zenon
  <2> QED BY <2>1 DEF Matched
<1>14. Clear(base, 0, s, side, price)
  <2>1. base.mem.book[Other(side)] = s /\ base.stop = FALSE
    BY <1>2, <1>10 DEF s, no
  <2>2. DOMAIN s = (0 + 1)..Len(s)
    BY <1>4
  <2> QED BY <2>1, <2>2 DEF Clear
<1>15. \A i \in 0..Len(s) : Clear(h[i], i, s, side, price)
  <2> DEFINE C == {i \in 0..Len(s) : Clear(h[i], i, s, side, price)}
  <2>1. 0 \in C
    BY <1>4, <1>13, <1>14
  <2>2. ASSUME NEW j \in 0..(Len(s) - 1), j \in C PROVE j + 1 \in C
    <3>1. PICK i : i = j + 1
      OBVIOUS
    <3>0. PICK l \in Nat : l = Len(s)
      BY <1>4
    <3>2. i \in 1..Len(s) /\ i - 1 = j /\ i \in 0..Len(s) /\ j \in 0..Len(s)
      <4>1. j \in 0..(l - 1)
        BY <3>0
      <4>2. i \in 1..l /\ i - 1 = j /\ i \in 0..l /\ j \in 0..l
        BY <4>1, <3>1
      <4> QED BY <4>2, <3>0
    <3>3. PICK r, q : r = h[j] /\ q = h[i]
      OBVIOUS
    <3>4. r \in M /\ q \in M /\ q = MatchStep(r, s[i]) /\ s[i] \in L
      <4>1. r \in M /\ q \in M
        BY <3>2, <3>3, <1>13
      <4>2. q = MatchStep(r, s[i])
        BY <3>2, <3>3, <1>13
      <4>3. s[i] \in L
        BY <3>2, <1>4
      <4> QED BY <4>1, <4>2, <4>3
    <3>5. Moves(q, r, s[i], side, price)
      BY <3>4, <1>11
    <3>6. Clear(r, i - 1, s, side, price)
      BY <2>2, <3>2, <3>3
    <3>7. Clear(q, i, s, side, price)
      <4>1. s = m.book[Other(side)]
        BY DEF s
      <4>2. /\ r.mem \in Memories /\ r.taker.left \in Nat /\ r.stop \in BOOLEAN
            /\ Neat(r.mem) /\ Thinner(r.mem, m) /\ q.taker.left \in Nat /\ q.stop \in BOOLEAN
        BY <3>4, <1>12
      <4> QED BY <3>2, <3>5, <3>6, <4>1, <4>2, <1>1, StepClear, Zenon
    <3> QED BY <3>1, <3>2, <3>3, <3>7
  <2> HIDE DEF C
  <2>3. \A i \in 0..Len(s) : i \in C
    BY <1>4, <2>1, <2>2, CountUp
  <2> QED BY <2>3 DEF C
<1>16. run \in M /\ Clear(run, Len(s), s, side, price)
  BY <1>4, <1>13, <1>15
<1>17. ASSUME price > 0, run.taker.left > 0, ~run.mem.crashed PROVE Apart(run.mem, side, price)
  <2>1. (Len(s) + 1)..Len(s) = {}
    BY <1>4
  <2> QED BY <2>1, <1>16, <1>17 DEF Clear, Apart
<1> QED BY <1>12, <1>16, <1>17

\* What has everything before what it has is the numbers up to its size.
LEMMA Segment ==
  ASSUME NEW n \in Nat, NEW D, D \subseteq 1..n, \A a \in D : \A b \in 1..n : b < a => b \in D
  PROVE  Cardinality(D) \in 0..n /\ D = 1..Cardinality(D)
<1>1. IsFiniteSet(1..n)
  BY FS_Interval
<1>2. IsFiniteSet(D) /\ D \subseteq Int
  <2>1. IsFiniteSet(D)
    BY <1>1, FS_Subset
  <2> QED BY <2>1
<1>3. CASE D = {}
  <2>1. Cardinality(D) = 0
    BY <1>3, FS_EmptySet
  <2> QED BY <1>3, <2>1
<1>4. CASE D # {}
  <2>1. PICK c : c = Max(D)
    OBVIOUS
  <2>2. c \in D /\ \A a \in D : a <= c
    BY <1>2, <1>4, <2>1, MaxIsIn
  <2>3. c \in 1..n /\ D = 1..c
    <3>1. c \in 1..n /\ c \in Nat
      BY <2>2
    <3>2. \A b \in 1..c : b \in D
      <4> SUFFICES ASSUME NEW b \in 1..c, b # c PROVE b \in D
        BY <2>2
      <4>1. b \in 1..n /\ b < c
        BY <3>1
      <4> QED BY <4>1, <2>2
    <3>3. \A a \in D : a \in 1..c
      <4> SUFFICES ASSUME NEW a \in D PROVE a \in 1..c
        OBVIOUS
      <4>1. a \in 1..n /\ a <= c
        BY <2>2
      <4> QED BY <4>1, <3>1
    <3> QED BY <3>1, <3>2, <3>3
  <2>4. Cardinality(1..c) = c
    BY <2>3, FS_Interval
  <2> QED BY <2>3, <2>4
<1> QED BY <1>3, <1>4

\* An order that was given the newest id comes behind all that are not worse.
LEMMA BeforeIs ==
  ASSUME heap = 1, NEW m \in Memories, NEW side \in Sides, NEW x \in DOMAIN m.orders,
         NEW id \in DOMAIN m.orders, x < id
  PROVE  /\ Before(m, side, x, id) <=> NoWorse(side, m.orders[x].price, m.orders[id].price)
         /\ ~Before(m, side, x, id) => NoWorse(side, m.orders[id].price, m.orders[x].price)
<1>1. m.orders[x].price \in Nat /\ m.orders[id].price \in Nat
  BY OrderFields
<1>2. side = ASK \/ side = BID
  BY DEF Sides
<1> QED BY <1>1, <1>2 DEF Before, NoWorse, ASK, BID

\* Worse than what is worse is worse.
LEMMA NoWorseTwice ==
  ASSUME NEW side, NEW p \in Nat, NEW q \in Nat, NEW r \in Nat, NoWorse(side, p, q), NoWorse(side, q, r)
  PROVE  NoWorse(side, p, r)
  BY DEF NoWorse

\* An order that nothing of the other side matches goes to its place in a neat list.
LEMMA ListedNeat ==
  ASSUME heap = 1, NEW m \in Memories, Neat(m), NEW side \in Sides, NEW id \in DOMAIN m.orders,
         \A s \in Sides : \A i \in DOMAIN m.book[s] : m.book[s][i] < id,
         Apart(m, side, m.orders[id].price), NEW n, n = Listed(m, side, id)
  PROVE  Neat(n)
<1> DEFINE old == m.book[side]
           ahead == {i \in DOMAIN old : Before(m, side, old[i], id)}
           c == Cardinality(ahead)
           list == InsertAt(old, c + 1, id)
           p(x) == m.orders[x].price
<1>1. ~Stale(m, side)
  BY DEF Stale, Neat
<1>2. n = [m EXCEPT !.book[side] = list]
  BY <1>1 DEF Listed
<1>3. old \in Seq(Nat) /\ Len(old) \in Nat /\ DOMAIN old = 1..Len(old) /\ id \in Nat
  BY Fields
<1>4. \A i \in DOMAIN old : old[i] \in DOMAIN m.orders /\ old[i] < id
  BY DEF Neat
<1>5. \A x \in DOMAIN m.orders : p(x) \in Nat
  BY OrderFields
<1>6. \A i, j \in DOMAIN old : i < j => old[i] # old[j] /\ NoWorse(side, p(old[i]), p(old[j]))
  BY DEF Neat
<1>7. ASSUME NEW i \in DOMAIN old
      PROVE  /\ i \in ahead <=> NoWorse(side, p(old[i]), p(id))
             /\ i \notin ahead => NoWorse(side, p(id), p(old[i]))
  BY <1>4, BeforeIs
<1>8. c \in 0..Len(old) /\ ahead = 1..c
  <2>1. ahead \subseteq 1..Len(old)
    BY <1>3
  <2>2. \A a \in ahead : \A b \in 1..Len(old) : b < a => b \in ahead
    <3> SUFFICES ASSUME NEW a \in ahead, NEW b \in 1..Len(old), b < a PROVE b \in ahead
      OBVIOUS
    <3>1. a \in DOMAIN old /\ b \in DOMAIN old
      BY <1>3
    <3>2. NoWorse(side, p(old[a]), p(id)) /\ NoWorse(side, p(old[b]), p(old[a]))
      BY <3>1, <1>6, <1>7
    <3>3. p(old[a]) \in Nat /\ p(old[b]) \in Nat /\ p(id) \in Nat
      BY <3>1, <1>4, <1>5
    <3> HIDE DEF p
    <3>4. NoWorse(side, p(old[b]), p(id))
      BY <3>2, <3>3, NoWorseTwice
    <3> QED BY <3>1, <3>4, <1>7
  <2> HIDE DEF ahead
  <2> QED BY <2>1, <2>2, <1>3, Segment
<1> HIDE DEF ahead, c, old
<1>9. /\ list \in Seq(Nat) /\ Len(list) = Len(old) + 1
      /\ \A j \in 1..c : list[j] = old[j]
      /\ list[c + 1] = id
      /\ \A j \in (c + 1)..Len(old) : list[j + 1] = old[j]
  <2>1. c + 1 \in 1..(Len(old) + 1)
    BY <1>3, <1>8
  <2>0. PICK i : i = c + 1
    OBVIOUS
  <2>2. IsInserted(list, old, i, id)
    <3>1. list = InsertAt(old, i, id) /\ i \in 1..(Len(old) + 1)
      BY <2>0, <2>1
    <3> HIDE DEF list
    <3> QED BY <3>1, <1>3, Inserted
  <2> HIDE DEF list
  <2>3. i - 1 = c
    BY <2>0, <1>8
  <2>4. /\ list \in Seq(Nat) /\ Len(list) = Len(old) + 1
        /\ \A j \in 1..c : list[j] = old[j]
        /\ list[i] = id
        /\ \A j \in i..Len(old) : list[j + 1] = old[j]
    BY <2>2, <2>3 DEF IsInserted
  <2> QED BY <2>0, <2>4
<1> HIDE DEF list
\* What is in place j.
<1>10. ASSUME NEW j \in DOMAIN list
       PROVE  \/ j <= c /\ j \in DOMAIN old /\ list[j] = old[j] /\ j \in ahead
              \/ j = c + 1 /\ list[j] = id
              \/ j > c + 1 /\ j - 1 \in DOMAIN old /\ list[j] = old[j - 1] /\ j - 1 \notin ahead
  <2>1. j \in 1..(Len(old) + 1)
    BY <1>9
  <2>2. CASE j <= c
    <3>1. j \in 1..c
      BY <2>1, <2>2, <1>8
    <3>2. j \in DOMAIN old
      BY <3>1, <1>3, <1>8
    <3> QED BY <3>1, <3>2, <2>2, <1>8, <1>9
  <2>3. CASE j > c + 1
    <3>1. j - 1 \in (c + 1)..Len(old) /\ (j - 1) + 1 = j /\ j - 1 \notin 1..c
      BY <2>1, <2>3, <1>3, <1>8
    <3>2. j - 1 \in 1..Len(old)
      BY <3>1, <1>3, <1>8
    <3>3. list[(j - 1) + 1] = old[j - 1]
      BY <3>1, <1>9
    <3> QED BY <3>1, <3>2, <3>3, <2>3, <1>3, <1>8
  <2>4. j <= c \/ j = c + 1 \/ j > c + 1
    BY <2>1, <1>8
  <2> QED BY <2>2, <2>3, <2>4, <1>9
<1>11. n.book = [m.book EXCEPT ![side] = list] /\ n.orders = m.orders
  BY <1>2, Fields
<1>12. n.book[side] = list /\ \A s \in Sides \ {side} : n.book[s] = m.book[s]
  BY <1>11, Fields
<1>13. \A j \in DOMAIN list : list[j] \in DOMAIN m.orders /\ (list[j] = id \/ \E a \in DOMAIN old : list[j] = old[a])
  BY <1>4, <1>10
<1>14. ASSUME NEW i \in DOMAIN list, NEW j \in DOMAIN list, i < j
       PROVE  list[i] # list[j] /\ NoWorse(side, p(list[i]), p(list[j]))
  <2>0. i \in Nat /\ j \in Nat /\ c \in Nat
    BY <1>8, <1>9
  <2> HIDE DEF p
  <2>1. CASE list[i] = id
    <3>0. i = c + 1
      <4>1. \A a \in DOMAIN old : old[a] # id
        BY <1>3, <1>4
      <4> QED BY <4>1, <2>1, <1>10
    <3>1. j > c + 1
      BY <2>0, <3>0, <1>14
    <3>2. j - 1 \in DOMAIN old /\ list[j] = old[j - 1] /\ j - 1 \notin ahead
      BY <2>0, <3>1, <1>10
    <3>3. old[j - 1] # id
      BY <3>2, <1>3, <1>4
    <3> QED BY <2>1, <3>2, <3>3, <1>7
  <2>2. CASE list[j] = id
    <3>0. j = c + 1
      <4>1. \A a \in DOMAIN old : old[a] # id
        BY <1>3, <1>4
      <4> QED BY <4>1, <2>2, <1>10
    <3>1. i <= c
      BY <2>0, <3>0, <1>14
    <3>2. i \in DOMAIN old /\ list[i] = old[i] /\ i \in ahead
      BY <2>0, <3>1, <1>10
    <3>3. old[i] # id
      BY <3>2, <1>3, <1>4
    <3> QED BY <2>2, <3>2, <3>3, <1>7
  <2>3. CASE list[i] # id /\ list[j] # id
    <3>1. PICK a, b \in DOMAIN old : a < b /\ list[i] = old[a] /\ list[j] = old[b]
      <4>1. CASE i <= c /\ j <= c
        <5>1. i \in DOMAIN old /\ j \in DOMAIN old /\ list[i] = old[i] /\ list[j] = old[j]
          BY <2>0, <4>1, <1>10
        <5> QED BY <5>1, <1>14
      <4>2. CASE i <= c /\ j > c + 1
        <5>1. i \in DOMAIN old /\ j - 1 \in DOMAIN old /\ list[i] = old[i] /\ list[j] = old[j - 1]
          BY <2>0, <4>2, <1>10
        <5>2. i < j - 1
          BY <2>0, <4>2
        <5> QED BY <5>1, <5>2
      <4>3. CASE i > c + 1 /\ j > c + 1
        <5>1. i - 1 \in DOMAIN old /\ j - 1 \in DOMAIN old /\ list[i] = old[i - 1] /\ list[j] = old[j - 1]
          BY <2>0, <4>3, <1>10
        <5>2. i - 1 < j - 1
          BY <2>0, <1>14
        <5> QED BY <5>1, <5>2
      <4>4. (i <= c \/ i > c + 1) /\ (j <= c \/ j > c + 1)
        BY <2>3, <1>10
      <4> QED BY <2>0, <4>1, <4>2, <4>3, <4>4, <1>14
    <3> QED BY <3>1, <1>6
  <2> QED BY <2>1, <2>2, <2>3
<1>15. ASSUME NEW s \in Sides, NEW i \in DOMAIN n.book[s] PROVE n.book[s][i] \in DOMAIN n.orders
  <2>1. CASE s = side
    BY <2>1, <1>11, <1>12, <1>13
  <2>2. CASE s # side
    BY <2>2, <1>11, <1>12 DEF Neat
  <2> QED BY <2>1, <2>2
<1>16. ASSUME NEW s \in Sides, NEW i \in DOMAIN n.book[s], NEW j \in DOMAIN n.book[s], i < j
       PROVE  /\ n.book[s][i] # n.book[s][j]
              /\ NoWorse(s, n.orders[n.book[s][i]].price, n.orders[n.book[s][j]].price)
  <2>1. CASE s = side
    BY <2>1, <1>11, <1>12, <1>14, <1>16
  <2>2. CASE s # side
    BY <2>2, <1>11, <1>12, <1>16 DEF Neat
  <2> QED BY <2>1, <2>2
<1>17. ASSUME NEW i \in DOMAIN n.book[BID], NEW j \in DOMAIN n.book[ASK]
       PROVE  n.orders[n.book[BID][i]].price < n.orders[n.book[ASK][j]].price
  <2>0. BID \in Sides /\ ASK \in Sides /\ BID # ASK
    BY DEF Sides, ASK, BID
  <2>1. CASE side = BID
    <3>1. n.book[BID] = list /\ n.book[ASK] = m.book[ASK] /\ old = m.book[BID]
      BY <2>0, <2>1, <1>12 DEF old
    <3>2. m.book[ASK][j] \in DOMAIN m.orders
      BY <2>0, <3>1 DEF Neat
    <3>3. CASE list[i] = id
      <4>1. ~Meets(BID, p(id), p(m.book[ASK][j]))
        BY <2>0, <2>1, <3>1 DEF Apart, Other
      <4>2. p(id) \in Nat /\ p(m.book[ASK][j]) \in Nat
        BY <3>2, <1>5
      <4> QED BY <4>1, <4>2, <2>0, <3>1, <3>3, <1>11 DEF Meets
    <3>4. CASE list[i] # id
      <4>1. PICK a \in DOMAIN m.book[BID] : list[i] = m.book[BID][a]
        BY <3>1, <3>4, <1>13
      <4>2. m.orders[m.book[BID][a]].price < m.orders[m.book[ASK][j]].price
        BY <3>1 DEF Neat
      <4> QED BY <4>1, <4>2, <3>1, <1>11
    <3> QED BY <3>3, <3>4
  <2>2. CASE side = ASK
    <3>1. n.book[ASK] = list /\ n.book[BID] = m.book[BID] /\ old = m.book[ASK]
      BY <2>0, <2>2, <1>12 DEF old
    <3>2. m.book[BID][i] \in DOMAIN m.orders
      BY <2>0, <3>1 DEF Neat
    <3>3. CASE list[j] = id
      <4>1. ~Meets(ASK, p(id), p(m.book[BID][i]))
        BY <2>0, <2>2, <3>1 DEF Apart, Other
      <4>2. p(id) \in Nat /\ p(m.book[BID][i]) \in Nat
        BY <3>2, <1>5
      <4> QED BY <4>1, <4>2, <2>0, <3>1, <3>3, <1>11 DEF Meets
    <3>4. CASE list[j] # id
      <4>1. PICK a \in DOMAIN m.book[ASK] : list[j] = m.book[ASK][a]
        BY <3>1, <3>4, <1>13
      <4>2. m.orders[m.book[BID][i]].price < m.orders[m.book[ASK][a]].price
        BY <3>1 DEF Neat
      <4> QED BY <4>1, <4>2, <3>1, <1>11
    <3> QED BY <3>3, <3>4
  <2> QED BY <2>1, <2>2 DEF Sides
<1> QED BY <1>15, <1>16, <1>17 DEF Neat

\* order_put of what a match left.
LEMMA OrderPutNeat ==
  ASSUME heap = 1, NEW m, NEW k, Good(m, k), Neat(m), NEW u \in Users, NEW side \in Sides, NEW price \in Nat \ {0},
         NEW mm \in {0, NORMAL, CANCEL}, NEW o \in Takers(u, side, price, mm),
         Apart(m, side, price), NEW n, n = order_put(m, k + 1, o)
  PROVE  Neat(n)
<1> DEFINE id == k + 1  g == Gives(side)  want == Worth(g, o.left, price)
           q == Resting(o, want)  acc == m.balance[u][g]  new == balance_freeze(acc, want)
           put == PutOrder(m, id, u, g, q, new)
<1>1. /\ m \in Memories /\ k \in Nat /\ Listing(m, k) /\ Whole(m) /\ DOMAIN m.orders \subseteq 1..k
      /\ id \in Nat /\ id \notin 1..k
  BY DEF Good, Shaped, Listing
<1>2. o.user = u /\ o.side = side /\ o.price = price /\ o.left \in Nat /\ g \in Assets
  BY TwoAssets DEF Takers
<1>3. want \in Nat /\ Mult(want)
  BY <1>2, WorthType
<1> HIDE DEF want, g
<1>4. [o EXCEPT !.freeze = want] = q /\ q \in Orders /\ q.price = price
  BY <1>3, RestingIs
<1>5. Stored(acc) /\ Stored(new)
  <2>1. Stored(acc)
    BY <1>1, <1>2 DEF Whole
  <2> HIDE DEF acc
  <2> QED BY <2>1, <1>3, Accounts
<1>6. n = Listed(put, side, id)
  <2> DEFINE os == [i \in DOMAIN m.orders \cup {id} |-> IF i = id THEN q ELSE m.orders[i]]
             both == [m EXCEPT !.orders = os, !.balance[u][g] = balance_freeze(@, want)]
  <2>1. n = Listed(both, side, id)
    BY <1>2, <1>4 DEF order_put, g, want
  <2>2. both = put
    BY DEF PutOrder, WithOrder, WithAccount
  <2> QED BY <2>1, <2>2
<1> HIDE DEF q, put, new
<1>7. /\ put \in Memories /\ put.book = m.book
      /\ DOMAIN put.orders = DOMAIN m.orders \cup {id} /\ put.orders[id] = q
      /\ \A i \in DOMAIN m.orders \ {id} : put.orders[i] = m.orders[i]
  BY <1>1, <1>2, <1>4, <1>5, PutIs DEF put
<1>8. \A i \in DOMAIN m.orders : i # id /\ i \in DOMAIN put.orders /\ put.orders[i] = m.orders[i]
  BY <1>1, <1>7
<1>9. \A s \in Sides : \A i \in DOMAIN m.book[s] : m.book[s][i] \in DOMAIN m.orders
  BY DEF Neat
<1>10. ASK \in Sides /\ BID \in Sides /\ Other(side) \in Sides
  BY TwoAssets DEF Sides
<1>11. Neat(put)
  BY <1>7, <1>8, <1>9, <1>10 DEF Neat
<1>12. Apart(put, side, price)
  BY <1>7, <1>8, <1>9, <1>10 DEF Apart
<1>13. \A s \in Sides : \A i \in DOMAIN put.book[s] : put.book[s][i] < id
  <2> SUFFICES ASSUME NEW s \in Sides, NEW i \in DOMAIN m.book[s] PROVE m.book[s][i] < id
    BY <1>7
  <2>1. m.book[s][i] \in 1..k
    BY <1>1 DEF Listing
  <2> QED BY <2>1, <1>1
<1>14. id \in DOMAIN put.orders /\ put.orders[id].price = price
  BY <1>4, <1>7
<1> HIDE DEF id
<1> QED BY <1>6, <1>7, <1>11, <1>12, <1>13, <1>14, ListedNeat

------------------------------------------------------------------------------
(* Handlers                                                                 *)

\* A memory between two handlers.
Sane(m) == Good(m, m.order_id) /\ (heap = 1 => Neat(m))

\* What a handler that gives out at most x ids makes of m.
Follow(n, m, x) == Sane(n) /\ n.order_id \in m.order_id..(m.order_id + x)

\* A sane memory is a memory.
LEMMA SaneType == ASSUME NEW m, Sane(m) PROVE m \in Memories /\ m.order_id \in Nat
  BY Fields DEF Sane, Good, Shaped

\* A handler may do nothing, ...
LEMMA FollowSelf == ASSUME NEW m, Sane(m), NEW x \in Nat PROVE Follow(m, m, x)
  BY SaneType DEF Follow

\* ... or crash.
LEMMA CrashFollows == ASSUME NEW m, Sane(m), NEW x \in Nat PROVE Follow(Crash(m), m, x)
<1>1. PICK n : n = Crash(m)
  OBVIOUS
<1>2. Good(n, m.order_id) /\ n.order_id = m.order_id /\ n.orders = m.orders /\ n.book = m.book
  BY <1>1, CrashIs DEF Sane
<1>3. heap = 1 => Neat(n)
  BY <1>2, AccountNeat DEF Sane, Good, Shaped
<1> QED BY <1>1, <1>2, <1>3, SaneType DEF Follow, Sane

\* The fields of a request and of the order made of it.
LEMMA RowFields ==
  ASSUME NEW r \in Rows \cup MarketRows, NEW u \in Users
  PROVE  /\ r.side \in Sides /\ r.amount \in Nat \ {0} /\ r.price \in Nat /\ r.mm \in {0, NORMAL, CANCEL}
         /\ r \in Rows => r.price \in Nat \ {0}
         /\ r \in MarketRows => r.price = 0
         /\ Order(u, r) \in Takers(u, r.side, r.price, r.mm)
         /\ Order(u, r).left = r.amount /\ Order(u, r).price = r.price /\ Order(u, r).side = r.side
<1>1. /\ r.side \in Sides /\ r.amount \in Nat \ {0} /\ r.mm \in {0, NORMAL, CANCEL}
      /\ r.price \in Nat /\ (r \in Rows => r.price \in Nat \ {0}) /\ (r \in MarketRows => r.price = 0)
  <2>1. \A q \in Rows : /\ q.side \in Sides /\ q.amount \in Nat \ {0} /\ q.mm \in {0, NORMAL, CANCEL}
                        /\ q.price \in Nat \ {0}
                        /\ q \in [side : Sides, amount : Nat \ {0}, price : Nat \ {0}, mm : {0, NORMAL, CANCEL}]
    BY SpotAssumption
  <2>2. ASSUME r \in MarketRows
        PROVE  /\ r.side \in Sides /\ r.amount \in Nat \ {0} /\ r.mm \in {0, NORMAL, CANCEL} /\ r.price = 0
    <3>1. PICK q \in Rows : r = [q EXCEPT !.price = 0]
      BY <2>2 DEF MarketRows
    <3>2. r = [side |-> q.side, amount |-> q.amount, price |-> 0, mm |-> q.mm]
      <4>1. q = [side |-> q.side, amount |-> q.amount, price |-> q.price, mm |-> q.mm]
        BY <2>1
      <4> QED BY <3>1, <4>1
    <3>3. r.side = q.side /\ r.amount = q.amount /\ r.price = 0 /\ r.mm = q.mm
      BY <3>2
    <3> QED BY <2>1, <3>3
  <2> QED BY <2>1, <2>2
<1> QED BY <1>1 DEF Order, Takers

\* market_put_limit_order keeps a memory sane and gives out at most one id.
LEMMA LimitOrderIs ==
  ASSUME NEW m, Sane(m), NEW u \in Users, NEW r \in Rows
  PROVE  Follow(market_put_limit_order(m, u, r).mem, m, 1)
<1> DEFINE side == r.side  g == Gives(side)  o == Order(u, r)  run == Executed(m, o)
           k == m.order_id  L == IdsIn(m, Other(side))  want == Worth(g, r.amount, r.price)
           res == market_put_limit_order(m, u, r)
<1>1. /\ side \in Sides /\ r.amount \in Nat /\ r.price \in Nat \ {0} /\ r.mm \in {0, NORMAL, CANCEL}
      /\ o \in Takers(u, side, r.price, r.mm) /\ o.left = r.amount /\ o.price = r.price /\ o.side = side
      /\ g \in Assets /\ m \in Memories /\ k \in Nat
  BY RowFields, TwoAssets, SaneType
<1>2. Need(o) = want
  BY <1>1 DEF Need, MarketBid
<1> HIDE DEF o
<1>3. res = IF Available(m, u, g) < want THEN Result(-1, m)
            ELSE IF r.amount < MinAmount THEN Result(-2, m)
            ELSE IF run.mem.crashed \/ run.taker.left = 0 THEN Result(0, run.mem)
            ELSE Result(0, order_put(run.mem, run.mem.order_id, run.taker))
  BY DEF market_put_limit_order, o
<1> HIDE DEF res
<1>4. \A i, n : Result(i, n).mem = n
  BY DEF Result
<1>5. CASE Available(m, u, g) < want \/ r.amount < MinAmount
  <2>1. res.mem = m
    <3> HIDE DEF run, want
    <3> QED BY <1>3, <1>4, <1>5
  <2> QED BY <2>1, FollowSelf DEF res
<1>6. CASE ~(Available(m, u, g) < want \/ r.amount < MinAmount)
  <2>1. Available(m, u, g) >= want
    <3>1. m.balance[u][g] \in Account
      BY <1>1, Fields
    <3>2. Available(m, u, g) \in Nat
      BY <3>1 DEF Available, Account
    <3>3. want \in Nat
      BY <1>1, WorthType
    <3> HIDE DEF want
    <3> QED BY <1>6, <3>2, <3>3
  <2>2. run \in Running(k, L, u, side, r.price, r.mm)
    <3>1. Good(m, m.order_id) /\ r.price \in Nat /\ Available(m, u, Gives(side)) >= Need(o)
      BY <1>1, <1>2, <2>1 DEF Sane
    <3> HIDE DEF want
    <3> QED BY <1>1, <3>1, ExecutedIs
  <2>20. heap = 1 => /\ Neat(run.mem)
                     /\ run.taker.left > 0 /\ ~run.mem.crashed => Apart(run.mem, side, r.price)
    <3>1. Good(m, m.order_id) /\ r.price \in Nat /\ r.price > 0 /\ Available(m, u, Gives(side)) >= Need(o)
          /\ (heap = 1 => Neat(m))
      BY <1>1, <1>2, <2>1 DEF Sane
    <3> HIDE DEF want
    <3> QED BY <1>1, <3>1, ExecutedNeat
  <2> HIDE DEF run, L
  <2>3. /\ run.mem \in Memories /\ run.taker \in Takers(u, side, r.price, r.mm)
        /\ Good(run.mem, k) /\ run.mem.order_id = k + 1
        /\ SoundMem(run.mem) => Available(run.mem, u, g) >= Need(run.taker)
    BY <2>2, RunIs
  <2>4. CASE run.mem.crashed \/ run.taker.left = 0
    <3>1. res.mem = run.mem
      BY <1>3, <1>4, <1>6, <2>4
    <3>2. Follow(run.mem, m, 1)
      BY <1>1, <2>3, <2>20, GoodMore DEF Follow, Sane
    <3> QED BY <3>1, <3>2 DEF res
  <2>5. CASE ~(run.mem.crashed \/ run.taker.left = 0)
    <3> DEFINE q == run.mem  t == run.taker
    <3>1. PICK n : n = order_put(q, k + 1, t)
      OBVIOUS
    <3>2. res.mem = n
      BY <1>3, <1>4, <1>6, <2>3, <2>5, <3>1
    <3>3. t.left > 0
      BY <2>3, <2>5 DEF Takers
    <3>4. Good(q, k) /\ q.order_id = k + 1 /\ t \in Takers(u, side, r.price, r.mm)
          /\ (SoundMem(q) => Available(q, u, Gives(side)) >= Need(t))
      BY <2>3
    <3>20. ~q.crashed /\ r.price \in Nat \ {0} /\ (heap = 1 => Neat(q) /\ Apart(q, side, r.price))
      BY <1>1, <2>5, <2>20, <3>3
    <3> HIDE DEF q, t
    <3>21. heap = 1 => Neat(n)
      BY <3>1, <3>4, <3>20, <1>1, OrderPutNeat
    <3>5. Good(n, k + 1) /\ n.order_id = q.order_id
      BY <3>1, <3>3, <3>4, <1>1, OrderPutIs
    <3>6. Follow(n, m, 1)
      BY <1>1, <3>4, <3>5, <3>21 DEF Follow, Sane
    <3> QED BY <3>2, <3>6 DEF res
  <2> QED BY <2>4, <2>5
<1> QED BY <1>5, <1>6

\* So does market_put_market_order.
LEMMA MarketOrderIs ==
  ASSUME NEW m, Sane(m), NEW u \in Users, NEW r \in MarketRows
  PROVE  Follow(market_put_market_order(m, u, r).mem, m, 1)
<1> DEFINE side == r.side  g == Gives(side)  o == Order(u, r)  run == Executed(m, o)
           k == m.order_id  L == IdsIn(m, Other(side))  others == m.book[Other(side)]
           least == IF side = ASK THEN MinAmount ELSE m.orders[Head(others)].price * MinAmount
           res == market_put_market_order(m, u, r)
<1>1. /\ side \in Sides /\ r.amount \in Nat /\ r.price = 0 /\ r.mm \in {0, NORMAL, CANCEL}
      /\ o \in Takers(u, side, r.price, r.mm) /\ o.left = r.amount /\ o.price = r.price /\ o.side = side
      /\ g \in Assets /\ m \in Memories /\ k \in Nat
  BY RowFields, TwoAssets, SaneType
<1>2. Need(o) = r.amount * Unit
  <2>1. side = ASK \/ side = BID
    BY <1>1 DEF Sides
  <2> QED BY <1>1, <2>1 DEF Need, MarketBid, Worth, Gives, ASK, BID
<1> HIDE DEF o
<1>3. res = IF Available(m, u, g) < r.amount * Unit THEN Result(-1, m)
            ELSE IF others = <<>> THEN Result(-3, m)
            ELSE IF side = BID /\ Head(others) \notin DOMAIN m.orders THEN Result(0, Crash(m))
            ELSE IF r.amount < least THEN Result(-2, m)
            ELSE Result(0, run.mem)
  BY DEF market_put_market_order, o
<1> HIDE DEF res, run, least, others
<1>4. \A i, n : Result(i, n).mem = n
  BY DEF Result
<1>5. \/ res.mem = m \/ res.mem = Crash(m)
      \/ res.mem = run.mem /\ ~(Available(m, u, g) < r.amount * Unit)
  BY <1>3, <1>4
<1>6. ASSUME ~(Available(m, u, g) < r.amount * Unit) PROVE Follow(run.mem, m, 1)
  <2>1. Available(m, u, g) >= r.amount * Unit
    <3>1. m.balance[u][g] \in Account
      BY <1>1, Fields
    <3>2. Available(m, u, g) \in Nat
      BY <3>1 DEF Available, Account
    <3>3. r.amount * Unit \in Nat
      BY <1>1, SpotAssumption, SMT
    <3> QED BY <1>6, <3>2, <3>3
  <2>2. run \in Running(k, L, u, side, r.price, r.mm)
    <3>1. Good(m, m.order_id) /\ r.price \in Nat /\ Available(m, u, Gives(side)) >= Need(o)
      BY <1>1, <1>2, <2>1 DEF Sane
    <3> QED BY <1>1, <3>1, ExecutedIs DEF run
  <2>20. heap = 1 => Neat(run.mem)
    <3>1. Good(m, m.order_id) /\ r.price \in Nat /\ Available(m, u, Gives(side)) >= Need(o) /\ (heap = 1 => Neat(m))
      BY <1>1, <1>2, <2>1 DEF Sane
    <3> QED BY <1>1, <3>1, ExecutedNeat DEF run
  <2> HIDE DEF L
  <2>3. Good(run.mem, k) /\ run.mem.order_id = k + 1
    BY <2>2, RunIs
  <2> QED BY <1>1, <2>3, <2>20, GoodMore DEF Follow, Sane
<1> QED BY <1>5, <1>6, FollowSelf, CrashFollows DEF res

Owes(m, v, g, f, c) ==
  [m EXCEPT !.owed[v] = [a \in Assets |-> @[a] + (IF a = g THEN f ELSE 0) - (IF a = "money" THEN c ELSE 0)]]

IsOwed(n, m, v, g, f, c) ==
  /\ n \in Memories
  /\ n.balance = m.balance /\ n.orders = m.orders /\ n.book = m.book /\ n.order_id = m.order_id
  /\ n.crashed = m.crashed /\ n.burnt = m.burnt
  /\ \A w \in Users, b \in Assets :
       n.owed[w][b] = m.owed[w][b] + (IF w = v /\ b = g THEN f ELSE 0) - (IF w = v /\ b = "money" THEN c ELSE 0)

\* An update of what is owed to a user.
LEMMA OwesIs ==
  ASSUME NEW m \in Memories, NEW v \in Users, NEW g \in Assets, NEW f \in Int, NEW c \in Int
  PROVE  IsOwed(Owes(m, v, g, f, c), m, v, g, f, c)
<1>1. PICK n : n = Owes(m, v, g, f, c)
  OBVIOUS
<1> SUFFICES IsOwed(n, m, v, g, f, c)
  BY <1>1, Zenon
<1> DEFINE his == [a \in Assets |-> m.owed[v][a] + (IF a = g THEN f ELSE 0) - (IF a = "money" THEN c ELSE 0)]
           two == [m.owed EXCEPT ![v] = his]
<1>2. m.owed \in [Users -> [Assets -> Int]]
  BY Fields
<1>3. n = [m EXCEPT !.owed = two]
  BY <1>1, Fields DEF Owes
<1>4. his \in [Assets -> Int]
  BY <1>2
<1>5. /\ two \in [Users -> [Assets -> Int]] /\ two[v] = his
      /\ \A w \in Users \ {v} : two[w] = m.owed[w]
  <2> HIDE DEF his
  <2> QED BY <1>2, <1>4
<1>20. \A b \in Assets : his[b] = m.owed[v][b] + (IF b = g THEN f ELSE 0) - (IF b = "money" THEN c ELSE 0)
  OBVIOUS
<1> HIDE DEF his, two
<1>6. m = [balance |-> m.balance, orders |-> m.orders, book |-> m.book,
           order_id |-> m.order_id, crashed |-> m.crashed, owed |-> m.owed, burnt |-> m.burnt]
  BY Fields
<1>7. n = [balance |-> m.balance, orders |-> m.orders, book |-> m.book,
           order_id |-> m.order_id, crashed |-> m.crashed, owed |-> two, burnt |-> m.burnt]
  BY <1>3, <1>6
<1>8. /\ n.balance = m.balance /\ n.orders = m.orders /\ n.book = m.book
      /\ n.order_id = m.order_id /\ n.crashed = m.crashed /\ n.owed = two /\ n.burnt = m.burnt
  BY <1>7
<1>9. n = [balance |-> n.balance, orders |-> n.orders, book |-> n.book, order_id |-> n.order_id,
           crashed |-> n.crashed, owed |-> n.owed, burnt |-> n.burnt]
  BY <1>7, <1>8, Zenon
<1>10. n \in Memories
  BY <1>5, <1>8, <1>9, Fields, MemoryIs
<1>11. ASSUME NEW w \in Users, NEW b \in Assets
       PROVE  n.owed[w][b] = m.owed[w][b] + (IF w = v /\ b = g THEN f ELSE 0) - (IF w = v /\ b = "money" THEN c ELSE 0)
  <2>1. m.owed[w][b] \in Int
    BY <1>2
  <2>2. CASE w = v
    BY <2>1, <2>2, <1>5, <1>20, <1>8
  <2>3. CASE w # v
    <3>1. n.owed[w][b] = m.owed[w][b]
      BY <2>3, <1>5, <1>8
    <3> QED BY <3>1, <2>1, <2>3
  <2> QED BY <2>2, <2>3
<1> QED BY <1>8, <1>10, <1>11 DEF IsOwed

\* order_finish_future looks in one of the two lists.
LEMMA FinishSideIs == ASSUME NEW s PROVE FinishSide(s) \in Sides
  BY DEF FinishSide, Sides

\* order_finish_future drops the order and touches no account.
LEMMA FinishFutureIs ==
  ASSUME NEW m \in Memories, NEW id \in DOMAIN m.orders, NEW n, n = order_finish_future(m, id)
  PROVE  /\ n \in Memories /\ Fewer(n, m)
         /\ n.balance = m.balance /\ n.order_id = m.order_id
         /\ (m.crashed => n.crashed) /\ n.owed = m.owed /\ n.burnt = m.burnt
         /\ DOMAIN n.orders = (DOMAIN m.orders) \ {id}
         /\ \A i \in (DOMAIN m.orders) \ {id} : n.orders[i] = m.orders[i]
<1> DEFINE side == FinishSide(m.orders[id].side)  q == Unlisted(m, side, id)
<1>1. side \in Sides
  BY FinishSideIs
<1>2. n = Forget(q, id)
  BY DEF order_finish_future
<1> HIDE DEF side
<1>3. /\ q \in Memories
      /\ q.balance = m.balance /\ q.orders = m.orders /\ q.order_id = m.order_id
      /\ q.owed = m.owed /\ q.burnt = m.burnt /\ (m.crashed => q.crashed)
      /\ Fewer(q, m)
  BY <1>1, UnlistedIs
<1> HIDE DEF q
<1>4. /\ n \in Memories /\ Fewer(n, q)
      /\ n.balance = q.balance /\ n.book = q.book /\ n.order_id = q.order_id
      /\ n.crashed = q.crashed /\ n.owed = q.owed /\ n.burnt = q.burnt
      /\ DOMAIN n.orders = (DOMAIN q.orders) \ {id}
      /\ \A i \in (DOMAIN q.orders) \ {id} : n.orders[i] = q.orders[i]
  BY <1>2, <1>3, ForgetIs
<1>5. Fewer(n, m)
  BY <1>3, <1>4, FewerTwice
<1> QED BY <1>3, <1>4, <1>5

\* What a cancelled order leaves: of the money c is free, and the user is owed what the
\* order froze.
Leaves(n, m, id, v, g, f, c) ==
  /\ v = m.orders[id].user /\ g = Gives(m.orders[id].side) /\ f = m.orders[id].freeze
  /\ n \in Memories /\ Fewer(n, m) /\ n.order_id = m.order_id /\ (m.crashed => n.crashed)
  /\ DOMAIN n.orders = (DOMAIN m.orders) \ {id}
  /\ \A i \in (DOMAIN m.orders) \ {id} : n.orders[i] = m.orders[i]
  /\ n.burnt = m.burnt
  /\ n.balance[v]["money"].available = m.balance[v]["money"].available + c
  /\ n.balance[v]["money"].freeze = m.balance[v]["money"].freeze - c
  /\ Stored(n.balance[v]["money"])
  /\ \A w \in Users, b \in Assets : w # v \/ b # "money" => n.balance[w][b] = m.balance[w][b]
  /\ \A w \in Users, b \in Assets :
       n.owed[w][b] = m.owed[w][b] + (IF w = v /\ b = g THEN f ELSE 0) - (IF w = v /\ b = "money" THEN c ELSE 0)

\* If an order goes that froze f and c was unfrozen instead, what is owed explains what
\* accounts have frozen as before.
LEMMA CancelledIs ==
  ASSUME NEW m, NEW k, Good(m, k), NEW id \in DOMAIN m.orders, NEW v, NEW g, NEW f,
         NEW c, c = (IF heap = 1 THEN f ELSE 0), NEW n, Leaves(n, m, id, v, g, f, c)
  PROVE  Good(n, k)
<1>1. /\ m \in Memories /\ k \in Nat /\ Listing(m, k) /\ Whole(m) /\ Lacking(m) /\ Promised(m)
      /\ DOMAIN m.orders \subseteq 1..k /\ (SoundMem(m) => Exact(m) /\ (FeesFit => Kept(m)))
  BY DEF Good, Shaped, Listing
<1>2. v \in Users /\ g \in Assets /\ f \in Nat /\ c \in Nat /\ "money" \in Assets /\ "stock" \in Assets
  <2>1. v = m.orders[id].user /\ g = Gives(m.orders[id].side) /\ f = m.orders[id].freeze
    BY DEF Leaves
  <2> QED BY <2>1, <1>1, OrderFields, TwoAssets
<1>3. \A w \in Users, b \in Assets : m.owed[w][b] \in Int
  <2>1. m.owed \in [Users -> [Assets -> Int]]
    BY <1>1, Fields
  <2> QED BY <2>1
<1>4. Listing(n, k)
  BY <1>1, ListingKept DEF Leaves
<1>5. Whole(n)
  <2> SUFFICES ASSUME NEW w \in Users, NEW b \in Assets PROVE Stored(n.balance[w][b])
    BY DEF Whole
  <2>1. Stored(n.balance[v]["money"]) /\ (w # v \/ b # "money" => n.balance[w][b] = m.balance[w][b])
    BY Zenon DEF Leaves
  <2>2. Stored(m.balance[w][b])
    BY <1>1 DEF Whole
  <2> QED BY <2>1, <2>2, Zenon
<1>6. \A w \in Users, b \in Assets :
       n.owed[w][b] = m.owed[w][b] + (IF w = v /\ b = g THEN f ELSE 0) - (IF w = v /\ b = "money" THEN c ELSE 0)
  BY DEF Leaves
<1>7. Lacking(n)
  <2> SUFFICES ASSUME NEW w \in Users
               PROVE  n.owed[w]["stock"] >= 0 /\ (heap # 1 => n.owed[w]["money"] >= 0)
    BY DEF Lacking
  <2>1. m.owed[w]["stock"] >= 0 /\ (heap # 1 => m.owed[w]["money"] >= 0)
    BY <1>1 DEF Lacking
  <2>2. m.owed[w]["stock"] \in Int /\ m.owed[w]["money"] \in Int
    BY <1>2, <1>3
  <2>3. /\ n.owed[w]["stock"] = m.owed[w]["stock"] + (IF w = v /\ "stock" = g THEN f ELSE 0)
        /\ n.owed[w]["money"] = m.owed[w]["money"] + (IF w = v /\ "money" = g THEN f ELSE 0) - (IF w = v THEN c ELSE 0)
    BY <1>2, <1>6, <2>2
  <2> QED BY <2>1, <2>2, <2>3, <1>2
<1>8. Promised(n)
  BY <1>1 DEF Promised, Leaves
<1>9. SoundMem(n) => SoundMem(m)
  <2> SUFFICES ASSUME SoundMem(n), NEW w \in Users PROVE m.owed[w]["stock"] >= 0 /\ m.owed[w]["money"] >= 0
    BY DEF SoundMem, Leaves, Assets
  <2>1. n.owed[w]["money"] >= 0
    BY <1>2 DEF SoundMem
  <2>2. m.owed[w]["stock"] \in Int /\ m.owed[w]["money"] \in Int
    BY <1>2, <1>3
  <2>3. n.owed[w]["money"] = m.owed[w]["money"] + (IF w = v /\ "money" = g THEN f ELSE 0) - (IF w = v THEN c ELSE 0)
    BY <1>2, <1>6, <2>2
  <2>4. m.owed[w]["stock"] >= 0 /\ (heap # 1 => m.owed[w]["money"] >= 0)
    BY <1>1 DEF Lacking
  <2>5. heap = 1 => m.owed[w]["money"] >= 0
    BY <2>1, <2>2, <2>3, <1>2
  <2> QED BY <2>4, <2>5
<1>10. ASSUME SoundMem(n) PROVE Exact(n) /\ (FeesFit => Kept(n))
  <2>1. SoundMem(m) /\ Exact(m) /\ (FeesFit => Kept(m))
    BY <1>1, <1>9, <1>10
  <2>2. ASSUME NEW w \in Users, NEW a \in Assets PROVE n.balance[w][a].freeze = HeldBack(n, w, a) + n.owed[w][a]
    <3>1. m.balance[w][a].freeze = HeldBack(m, w, a) + m.owed[w][a] /\ m.owed[w][a] \in Int
      BY <2>1, <1>3 DEF Exact
    <3>2. HeldBack(m, w, a) \in Nat
      BY <1>1, HeldIs
    <3>3. HeldBack(n, w, a) = HeldBack(m, w, a) - Part(m, id, w, a) + Part(n, id, w, a)
      <4>1. (DOMAIN n.orders) \ {id} = (DOMAIN m.orders) \ {id} /\ DOMAIN n.orders \subseteq 1..k /\ n \in Memories
        BY <1>1 DEF Leaves
      <4>2. \A i \in (DOMAIN m.orders) \ {id} : n.orders[i] = m.orders[i]
        BY DEF Leaves
      <4> QED BY <1>1, <4>1, <4>2, HeldChanges
    <3>4. Part(n, id, w, a) = 0 /\ Part(m, id, w, a) = IF w = v /\ a = g THEN f ELSE 0
      BY DEF Part, Leaves
    <3>5. n.balance[w][a].freeze = m.balance[w][a].freeze - (IF w = v /\ a = "money" THEN c ELSE 0)
      <4>1. CASE w = v /\ a = "money"
        BY <4>1 DEF Leaves
      <4>2. CASE ~(w = v /\ a = "money")
        <5>1. n.balance[w][a] = m.balance[w][a]
          BY <4>2, Zenon DEF Leaves
        <5>2. m.balance[w][a].freeze \in Int
          BY <3>1, <3>2
        <5> QED BY <4>2, <5>1, <5>2
      <4> QED BY <4>1, <4>2
    <3>6. n.owed[w][a] = m.owed[w][a] + (IF w = v /\ a = g THEN f ELSE 0) - (IF w = v /\ a = "money" THEN c ELSE 0)
      BY <1>6
    <3> QED BY <3>1, <3>2, <3>3, <3>4, <3>5, <3>6, <1>2
  <2>3. ASSUME NEW a \in Assets PROVE InAll(n, a) = InAll(m, a)
    <3>0. n \in Memories /\ n.burnt = m.burnt /\ \A w \in Users \ {v} : n.balance[w][a] = m.balance[w][a]
      BY DEF Leaves
    <3>1. /\ InAll(m, a) \in Int
          /\ InAll(n, a) = InAll(m, a) - (m.balance[v][a].available + m.balance[v][a].freeze)
                          + (n.balance[v][a].available + n.balance[v][a].freeze)
                          - m.burnt[a] + n.burnt[a]
      BY <1>1, <1>2, <3>0, InAllChanges
    <3>2. m.burnt[a] \in Nat /\ n.burnt[a] = m.burnt[a]
      BY <1>1, <3>0, Fields
    <3>3. m.balance[v][a] \in Account
      BY <1>1, <1>2, Fields
    <3>4. m.balance[v][a].available \in Nat /\ m.balance[v][a].freeze \in Nat
      BY <3>3 DEF Account
    <3>5. n.balance[v][a].available + n.balance[v][a].freeze = m.balance[v][a].available + m.balance[v][a].freeze
      <4>1. CASE a = "money"
        <5>1. /\ n.balance[v][a].available = m.balance[v][a].available + c
              /\ n.balance[v][a].freeze = m.balance[v][a].freeze - c
          BY <4>1 DEF Leaves
        <5> QED BY <5>1, <3>4, <1>2
      <4>2. CASE a # "money"
        BY <4>2, <1>2 DEF Leaves
      <4> QED BY <4>1, <4>2
    <3> QED BY <3>1, <3>2, <3>4, <3>5
  <2> QED BY <2>1, <2>2, <2>3 DEF Exact, Kept
<1> QED BY <1>1, <1>4, <1>5, <1>7, <1>8, <1>10 DEF Good, Shaped, Leaves

\* One after the other.
LEMMA FollowTwice ==
  ASSUME NEW m, Sane(m), NEW x \in Nat, NEW y \in Nat, NEW n, Follow(n, m, x), NEW l, Follow(l, n, y)
  PROVE  Follow(l, m, x + y)
<1>1. m.order_id \in Nat /\ n.order_id \in Nat /\ l.order_id \in Nat
  BY SaneType DEF Follow
<1> QED BY <1>1 DEF Follow

\* order.cancel: the order leaves the index, whether or not it left a list.
LEMMA CancelIs ==
  ASSUME heap \in 0..2, NEW m, Sane(m), NEW id \in DOMAIN m.orders
  PROVE  Follow(market_cancel_order(m, id).mem, m, 0)
<1> DEFINE o == m.orders[id]  v == o.user  g == Gives(o.side)  f == o.freeze  k == m.order_id
           acc == m.balance[v]["money"]  new == balance_unfreeze(acc, f)
           unfrozen == WithAccount(m, v, "money", new)
           res == market_cancel_order(m, id)
<1>1. /\ m \in Memories /\ k \in Nat /\ Whole(m) /\ Promised(m) /\ Good(m, k) /\ Listing(m, k)
      /\ (heap = 1 => Neat(m))
  BY SaneType DEF Sane, Good, Shaped
<1>2. /\ v \in Users /\ g \in Assets /\ f \in Nat /\ "money" \in Assets /\ Mult(f)
  <2>1. o.side \in Sides /\ o.left \in Nat /\ o.price \in Nat /\ v \in Users /\ f \in Nat
    BY <1>1, OrderFields
  <2>2. g \in Assets /\ "money" \in Assets
    BY <2>1, TwoAssets
  <2>3. f = Worth(g, o.left, o.price)
    BY <1>1 DEF Promised
  <2> QED BY <2>1, <2>2, <2>3, WorthType
<1>3. Stored(acc) /\ acc.available \in Nat /\ acc.freeze \in Nat
  BY <1>1, <1>2 DEF Whole, Stored, Account
<1>4. Stored(new) /\ (CanSub(acc, "freeze", f) <=> acc.freeze >= f)
      /\ (acc.freeze >= f => new = [available |-> acc.available + f, freeze |-> acc.freeze - f])
  <2> HIDE DEF acc, f
  <2>1. Stored(new)
    BY <1>2, <1>3, Accounts
  <2>2. CanSub(acc, "freeze", f) <=> acc["freeze"] >= f
    BY <1>2, <1>3, Accounts
  <2>3. acc.freeze >= f => new = [available |-> acc.available + f, freeze |-> acc.freeze - f]
    BY <1>2, <1>3, AccountMoves
  <2> QED BY <2>1, <2>2, <2>3
<1>5. res = CASE heap = 0 -> Result(0, Owes(order_finish_future(m, id), v, g, f, 0))
              [] heap = 1 -> IF CanSub(acc, "freeze", f)
                             THEN Result(0, Owes(order_finish_future(unfrozen, id), v, g, f, f))
                             ELSE Result(-1, m)
              [] heap = 2 -> Result(0, Crash(m))
  BY DEF market_cancel_order, Owing, Owes, WithAccount
<1>6. \A i, n : Result(i, n).mem = n
  BY DEF Result
<1>7. heap = 0 \/ heap = 1 \/ heap = 2
  OBVIOUS
<1> HIDE DEF res
<1>8. CASE heap = 2
  <2>1. res.mem = Crash(m)
    BY <1>5, <1>6, <1>8
  <2> QED BY <2>1, CrashFollows DEF res
<1>9. CASE heap = 0
  <2> DEFINE q == order_finish_future(m, id)
  <2>0. PICK n : n = Owes(q, v, g, f, 0)
    OBVIOUS
  <2>1. res.mem = n
    BY <1>5, <1>6, <1>9, <2>0
  <2>2. /\ q \in Memories /\ Fewer(q, m)
        /\ q.balance = m.balance /\ q.order_id = m.order_id
        /\ (m.crashed => q.crashed) /\ q.owed = m.owed /\ q.burnt = m.burnt
        /\ DOMAIN q.orders = (DOMAIN m.orders) \ {id}
        /\ \A i \in (DOMAIN m.orders) \ {id} : q.orders[i] = m.orders[i]
    BY <1>1, FinishFutureIs
  <2> HIDE DEF q, v, g, f
  <2>3. IsOwed(n, q, v, g, f, 0)
    <3>1. f \in Int /\ 0 \in Int
      BY <1>2
    <3> QED BY <1>2, <2>0, <2>2, <3>1, OwesIs, Zenon
  <2>4. Leaves(n, m, id, v, g, f, 0)
    <3>1. Fewer(n, m)
      BY <2>2, <2>3 DEF Fewer, IsOwed
    <3>2. v = m.orders[id].user /\ g = Gives(m.orders[id].side) /\ f = m.orders[id].freeze
      BY DEF v, g, f
    <3>3. /\ n \in Memories /\ n.order_id = m.order_id /\ (m.crashed => n.crashed)
          /\ n.burnt = m.burnt /\ n.balance = m.balance /\ n.orders = q.orders
      BY <2>2, <2>3 DEF IsOwed
    <3>4. \A w \in Users, b \in Assets : n.owed[w][b] = m.owed[w][b] + (IF w = v /\ b = g THEN f ELSE 0)
                                                        - (IF w = v /\ b = "money" THEN 0 ELSE 0)
      BY <2>2, <2>3 DEF IsOwed
    <3>5. /\ n.balance[v]["money"].available = m.balance[v]["money"].available + 0
          /\ n.balance[v]["money"].freeze = m.balance[v]["money"].freeze - 0
          /\ Stored(n.balance[v]["money"])
      BY <3>3, <1>3
    <3>6. \A w \in Users, b \in Assets : n.balance[w][b] = m.balance[w][b]
      BY <3>3
    <3>7. /\ DOMAIN n.orders = (DOMAIN m.orders) \ {id}
          /\ \A i \in (DOMAIN m.orders) \ {id} : n.orders[i] = m.orders[i]
      BY <2>2, <3>3
    <3> QED BY <3>1, <3>2, <3>3, <3>4, <3>5, <3>6, <3>7, Zenon DEF Leaves
  <2>5. Good(n, k)
    <3>1. 0 = (IF heap = 1 THEN f ELSE 0)
      BY <1>9
    <3> QED BY <1>1, <2>4, <3>1, CancelledIs
  <2>6. n.order_id = m.order_id
    BY <2>2, <2>3 DEF IsOwed
  <2> QED BY <2>1, <2>5, <2>6, <1>1, <1>9 DEF Follow, Sane, res
<1>10. CASE heap = 1 /\ ~CanSub(acc, "freeze", f)
  <2>1. res.mem = m
    BY <1>5, <1>6, <1>10
  <2> QED BY <2>1, FollowSelf DEF res
<1>11. CASE heap = 1 /\ CanSub(acc, "freeze", f)
  <2> DEFINE q == order_finish_future(unfrozen, id)
  <2>0. PICK n : n = Owes(q, v, g, f, f)
    OBVIOUS
  <2>1. res.mem = n
    <3> DEFINE yes == CanSub(acc, "freeze", f)  w == Owes(order_finish_future(m, id), v, g, f, 0)
    <3>1. res = CASE heap = 0 -> Result(0, w) [] heap = 1 -> IF yes THEN Result(0, n) ELSE Result(-1, m)
                  [] heap = 2 -> Result(0, Crash(m))
      BY <1>5, <2>0
    <3>2. heap = 1 /\ yes
      BY <1>11
    <3> HIDE DEF yes, w, q, unfrozen
    <3> QED BY <3>1, <3>2, <1>6
  <2>2. AccountIs(unfrozen, m, v, "money", new)
    <3> HIDE DEF new, v
    <3> QED BY <1>1, <1>2, <1>4, AccountSet, Zenon
  <2> HIDE DEF unfrozen
  <2>3. /\ unfrozen \in Memories /\ unfrozen.orders = m.orders /\ unfrozen.order_id = m.order_id
        /\ unfrozen.crashed = m.crashed /\ unfrozen.owed = m.owed /\ unfrozen.burnt = m.burnt
        /\ unfrozen.book = m.book /\ unfrozen.balance[v]["money"] = new
        /\ \A w \in Users, b \in Assets : w # v \/ b # "money" => unfrozen.balance[w][b] = m.balance[w][b]
    BY <2>2 DEF AccountIs
  <2>4. /\ q \in Memories /\ Fewer(q, unfrozen)
        /\ q.balance = unfrozen.balance /\ q.order_id = unfrozen.order_id
        /\ (unfrozen.crashed => q.crashed) /\ q.owed = unfrozen.owed /\ q.burnt = unfrozen.burnt
        /\ DOMAIN q.orders = (DOMAIN unfrozen.orders) \ {id}
        /\ \A i \in (DOMAIN unfrozen.orders) \ {id} : q.orders[i] = unfrozen.orders[i]
        /\ Neat(q)
    <3>0. Neat(unfrozen) /\ Listing(unfrozen, k)
      <4>1. Neat(unfrozen)
        BY <1>1, <1>11, <2>3, AccountNeat
      <4> QED BY <4>1, <1>1, <2>3 DEF Listing
    <3>1. id \in DOMAIN unfrozen.orders
      BY <2>3
    <3>2. Neat(q)
      BY <1>1, <1>11, <2>3, <3>0, <3>1, FinishFutureNeat
    <3> QED BY <2>3, <3>1, <3>2, FinishFutureIs
  <2>5. new = [available |-> acc.available + f, freeze |-> acc.freeze - f]
    BY <1>4, <1>11
  <2>6. new.available = acc.available + f /\ new.freeze = acc.freeze - f
    BY <2>5
  <2> HIDE DEF q, v, g, f, new
  <2>7. IsOwed(n, q, v, g, f, f)
    <3>1. f \in Int
      BY <1>2
    <3> QED BY <1>2, <2>0, <2>4, <3>1, OwesIs, Zenon
  <2>8. Leaves(n, m, id, v, g, f, f)
    <3>1. Fewer(n, m)
      BY <2>3, <2>4, <2>7 DEF Fewer, IsOwed
    <3>2. v = m.orders[id].user /\ g = Gives(m.orders[id].side) /\ f = m.orders[id].freeze
      BY DEF v, g, f
    <3>3. /\ n \in Memories /\ n.order_id = m.order_id /\ (m.crashed => n.crashed)
          /\ n.burnt = m.burnt /\ n.balance = unfrozen.balance /\ n.orders = q.orders
      BY <2>3, <2>4, <2>7 DEF IsOwed
    <3>4. \A w \in Users, b \in Assets : n.owed[w][b] = m.owed[w][b] + (IF w = v /\ b = g THEN f ELSE 0)
                                                        - (IF w = v /\ b = "money" THEN f ELSE 0)
      BY <2>3, <2>4, <2>7 DEF IsOwed
    <3>5. /\ n.balance[v]["money"].available = m.balance[v]["money"].available + f
          /\ n.balance[v]["money"].freeze = m.balance[v]["money"].freeze - f
          /\ Stored(n.balance[v]["money"])
      BY <3>3, <2>3, <2>6, <1>4
    <3>6. \A w \in Users, b \in Assets : w # v \/ b # "money" => n.balance[w][b] = m.balance[w][b]
      BY <3>3, <2>3
    <3>7. /\ DOMAIN n.orders = (DOMAIN m.orders) \ {id}
          /\ \A i \in (DOMAIN m.orders) \ {id} : n.orders[i] = m.orders[i]
      BY <2>3, <2>4, <3>3
    <3> QED BY <3>1, <3>2, <3>3, <3>4, <3>5, <3>6, <3>7, Zenon DEF Leaves
  <2>9. Good(n, k)
    <3>1. f = (IF heap = 1 THEN f ELSE 0)
      BY <1>11
    <3> QED BY <1>1, <2>8, <3>1, CancelledIs
  <2>10. n.order_id = m.order_id
    BY <2>3, <2>4, <2>7 DEF IsOwed
  <2>20. Neat(n)
    BY <2>4, <2>7, AccountNeat DEF IsOwed
  <2> QED BY <2>1, <2>9, <2>10, <2>20, <1>1 DEF Follow, Sane, res
<1> QED BY <1>7, <1>8, <1>9, <1>10, <1>11

\* CancelOther keeps a memory sane.
LEMMA CancelOtherIs ==
  ASSUME heap \in 0..2, NEW m, Sane(m), NEW u, NEW id
  PROVE  Follow(CancelOther(m, u, id), m, 0)
  BY CancelIs, FollowSelf DEF CancelOther

------------------------------------------------------------------------------
(* Batches                                                                  *)

\* What CancelEach does for an id.
CancelStep(n, u, id) ==
  IF id \in DOMAIN n.orders /\ n.orders[id].user = u /\ ~n.crashed
  THEN market_cancel_order(n, id).mem ELSE n

\* The function CancelEach takes a value of, and the states it goes through.
CancelRecurs(g, u, base, s) ==
  g = [T \in SUBSET DOMAIN s |-> IF T = {} THEN base ELSE CancelStep(g[T \ {Max(T)}], u, s[Max(T)])]

CancelRan(v, u, M, base, s) ==
  \E h \in [0..Len(s) -> M] :
    /\ h[0] = base
    /\ \A i \in 1..Len(s) : h[i] = CancelStep(h[i - 1], u, s[i])
    /\ v = h[Len(s)]

\* If steps stay in M, the fold of CancelEach goes through values of M.
LEMMA CancelRuns ==
  ASSUME NEW u, NEW M, NEW E, NEW base \in M, NEW s \in Seq(E),
         \A r \in M, e \in E : CancelStep(r, u, e) \in M,
         NEW v, v = (CHOOSE g : CancelRecurs(g, u, base, s))[DOMAIN s]
  PROVE  CancelRan(v, u, M, base, s)
<1> DEFINE step == [x \in M \X E |-> CancelStep(x[1], u, x[2])]
           c == CHOOSE g : CancelRecurs(g, u, base, s)
<1>1. step \in [M \X E -> M] /\ \A r \in M, e \in E : step[<<r, e>>] = CancelStep(r, u, e)
  OBVIOUS
<1> HIDE DEF step
<1>2. PICK g \in [SUBSET DOMAIN s -> M] : FoldsUp(g, step, base, s, DOMAIN s)
  BY <1>1, FoldExists
<1>3. CancelRecurs(g, u, base, s)
  <2>1. ASSUME NEW T \in SUBSET DOMAIN s
        PROVE  g[T] = IF T = {} THEN base ELSE CancelStep(g[T \ {Max(T)}], u, s[Max(T)])
    <3>1. CASE T = {}
      BY <3>1, <1>2 DEF FoldsUp
    <3>2. CASE T # {}
      <4>1. Max(T) \in T /\ s[Max(T)] \in E /\ T \ {Max(T)} \in SUBSET DOMAIN s
        BY <3>2, MaxOfPlaces
      <4>2. g[T \ {Max(T)}] \in M
        BY <4>1, <1>2
      <4>3. g[T] = step[<<g[T \ {Max(T)}], s[Max(T)]>>]
        BY <3>2, <1>2 DEF FoldsUp
      <4> QED BY <3>2, <4>1, <4>2, <4>3, <1>1
    <3> QED BY <3>1, <3>2
  <2>2. DOMAIN g = SUBSET DOMAIN s
    BY <1>2
  <2> QED BY <2>1, <2>2, <1>2 DEF CancelRecurs
<1>4. CancelRecurs(c, u, base, s)
  BY <1>3
<1>5. v = c[DOMAIN s]
  OBVIOUS
<1> HIDE DEF c
<1>6. c[{}] = base
  BY <1>4 DEF CancelRecurs
<1>7. ASSUME NEW T \in SUBSET DOMAIN s, T # {}, c[T \ {Max(T)}] \in M
      PROVE  c[T] = step[<<c[T \ {Max(T)}], s[Max(T)]>>]
  <2>1. Max(T) \in T /\ s[Max(T)] \in E /\ T \ {Max(T)} \in SUBSET DOMAIN s
    BY <1>7, MaxOfPlaces
  <2>2. c[T] = CancelStep(c[T \ {Max(T)}], u, s[Max(T)])
    BY <1>4, <1>7 DEF CancelRecurs
  <2> QED BY <2>1, <2>2, <1>1, <1>7
<1>8. PICK h \in [0..Len(s) -> M] :
        /\ h[0] = base
        /\ \A i \in 1..Len(s) : h[i] = step[<<h[i - 1], s[i]>>]
        /\ c[DOMAIN s] = h[Len(s)]
  <2>1. FoldsUpIn(c, M, step, base, s)
    BY <1>6, <1>7 DEF FoldsUpIn
  <2>2. Traced(c[DOMAIN s], M, step, base, s)
    BY <1>1, <2>1, FoldRuns, Zenon
  <2> QED BY <2>2 DEF Traced
<1>9. ASSUME NEW i \in 1..Len(s) PROVE h[i] = CancelStep(h[i - 1], u, s[i])
  <2>1. i - 1 \in 0..Len(s) /\ s[i] \in E
    OBVIOUS
  <2> QED BY <2>1, <1>1, <1>8
<1> QED BY <1>5, <1>8, <1>9 DEF CancelRan

\* CancelEach, as the library defines folds.
LEMMA CancelDefinition ==
  ASSUME NEW u, NEW base, NEW s
  PROVE  CancelEach(base, u, s) = (CHOOSE g : CancelRecurs(g, u, base, s))[DOMAIN s]
  BY DEF CancelEach, FoldLeft, MapThenFoldSet, CancelRecurs, CancelStep

\* What PutEach does for a row.
PutStep(n, u, r) == IF n.crashed THEN n ELSE market_put_limit_order(n, u, r).mem

\* The same of PutEach.
PutRecurs(g, u, base, s) ==
  g = [T \in SUBSET DOMAIN s |-> IF T = {} THEN base ELSE PutStep(g[T \ {Max(T)}], u, s[Max(T)])]

PutRan(v, u, M, base, s) ==
  \E h \in [0..Len(s) -> M] :
    /\ h[0] = base
    /\ \A i \in 1..Len(s) : h[i] = PutStep(h[i - 1], u, s[i])
    /\ v = h[Len(s)]

\* If steps stay in M, the fold of PutEach goes through values of M.
LEMMA PutRuns ==
  ASSUME NEW u, NEW M, NEW E, NEW base \in M, NEW s \in Seq(E),
         \A r \in M, e \in E : PutStep(r, u, e) \in M,
         NEW v, v = (CHOOSE g : PutRecurs(g, u, base, s))[DOMAIN s]
  PROVE  PutRan(v, u, M, base, s)
<1> DEFINE step == [x \in M \X E |-> PutStep(x[1], u, x[2])]
           c == CHOOSE g : PutRecurs(g, u, base, s)
<1>1. step \in [M \X E -> M] /\ \A r \in M, e \in E : step[<<r, e>>] = PutStep(r, u, e)
  OBVIOUS
<1> HIDE DEF step
<1>2. PICK g \in [SUBSET DOMAIN s -> M] : FoldsUp(g, step, base, s, DOMAIN s)
  BY <1>1, FoldExists
<1>3. PutRecurs(g, u, base, s)
  <2>1. ASSUME NEW T \in SUBSET DOMAIN s
        PROVE  g[T] = IF T = {} THEN base ELSE PutStep(g[T \ {Max(T)}], u, s[Max(T)])
    <3>1. CASE T = {}
      BY <3>1, <1>2 DEF FoldsUp
    <3>2. CASE T # {}
      <4>1. Max(T) \in T /\ s[Max(T)] \in E /\ T \ {Max(T)} \in SUBSET DOMAIN s
        BY <3>2, MaxOfPlaces
      <4>2. g[T \ {Max(T)}] \in M
        BY <4>1, <1>2
      <4>3. g[T] = step[<<g[T \ {Max(T)}], s[Max(T)]>>]
        BY <3>2, <1>2 DEF FoldsUp
      <4> QED BY <3>2, <4>1, <4>2, <4>3, <1>1
    <3> QED BY <3>1, <3>2
  <2>2. DOMAIN g = SUBSET DOMAIN s
    BY <1>2
  <2> QED BY <2>1, <2>2, <1>2 DEF PutRecurs
<1>4. PutRecurs(c, u, base, s)
  BY <1>3
<1>5. v = c[DOMAIN s]
  OBVIOUS
<1> HIDE DEF c
<1>6. c[{}] = base
  BY <1>4 DEF PutRecurs
<1>7. ASSUME NEW T \in SUBSET DOMAIN s, T # {}, c[T \ {Max(T)}] \in M
      PROVE  c[T] = step[<<c[T \ {Max(T)}], s[Max(T)]>>]
  <2>1. Max(T) \in T /\ s[Max(T)] \in E /\ T \ {Max(T)} \in SUBSET DOMAIN s
    BY <1>7, MaxOfPlaces
  <2>2. c[T] = PutStep(c[T \ {Max(T)}], u, s[Max(T)])
    BY <1>4, <1>7 DEF PutRecurs
  <2> QED BY <2>1, <2>2, <1>1, <1>7
<1>8. PICK h \in [0..Len(s) -> M] :
        /\ h[0] = base
        /\ \A i \in 1..Len(s) : h[i] = step[<<h[i - 1], s[i]>>]
        /\ c[DOMAIN s] = h[Len(s)]
  <2>1. FoldsUpIn(c, M, step, base, s)
    BY <1>6, <1>7 DEF FoldsUpIn
  <2>2. Traced(c[DOMAIN s], M, step, base, s)
    BY <1>1, <2>1, FoldRuns, Zenon
  <2> QED BY <2>2 DEF Traced
<1>9. ASSUME NEW i \in 1..Len(s) PROVE h[i] = PutStep(h[i - 1], u, s[i])
  <2>1. i - 1 \in 0..Len(s) /\ s[i] \in E
    OBVIOUS
  <2> QED BY <2>1, <1>1, <1>8
<1> QED BY <1>5, <1>8, <1>9 DEF PutRan

\* PutEach, as the library defines folds.
LEMMA PutDefinition ==
  ASSUME NEW u, NEW base, NEW s
  PROVE  PutEach(base, u, s) = (CHOOSE g : PutRecurs(g, u, base, s))[DOMAIN s]
  BY DEF PutEach, FoldLeft, MapThenFoldSet, PutRecurs, PutStep

\* What market_cancel_all_order does for an id of the lists.
ClearStep(n, id) == IF id \in DOMAIN n.orders THEN order_finish(n, id) ELSE Crash(n)

\* The same of market_cancel_all_order.
ClearRecurs(g, base, s) ==
  g = [T \in SUBSET DOMAIN s |-> IF T = {} THEN base ELSE ClearStep(g[T \ {Max(T)}], s[Max(T)])]

ClearRan(v, M, base, s) ==
  \E h \in [0..Len(s) -> M] :
    /\ h[0] = base
    /\ \A i \in 1..Len(s) : h[i] = ClearStep(h[i - 1], s[i])
    /\ v = h[Len(s)]

\* If steps stay in M, the fold of market_cancel_all_order goes through values of M.
LEMMA ClearRuns ==
  ASSUME NEW M, NEW E, NEW base \in M, NEW s \in Seq(E),
         \A r \in M, e \in E : ClearStep(r, e) \in M,
         NEW v, v = (CHOOSE g : ClearRecurs(g, base, s))[DOMAIN s]
  PROVE  ClearRan(v, M, base, s)
<1> DEFINE step == [x \in M \X E |-> ClearStep(x[1], x[2])]
           c == CHOOSE g : ClearRecurs(g, base, s)
<1>1. step \in [M \X E -> M] /\ \A r \in M, e \in E : step[<<r, e>>] = ClearStep(r, e)
  OBVIOUS
<1> HIDE DEF step
<1>2. PICK g \in [SUBSET DOMAIN s -> M] : FoldsUp(g, step, base, s, DOMAIN s)
  BY <1>1, FoldExists
<1>3. ClearRecurs(g, base, s)
  <2>1. ASSUME NEW T \in SUBSET DOMAIN s
        PROVE  g[T] = IF T = {} THEN base ELSE ClearStep(g[T \ {Max(T)}], s[Max(T)])
    <3>1. CASE T = {}
      BY <3>1, <1>2 DEF FoldsUp
    <3>2. CASE T # {}
      <4>1. Max(T) \in T /\ s[Max(T)] \in E /\ T \ {Max(T)} \in SUBSET DOMAIN s
        BY <3>2, MaxOfPlaces
      <4>2. g[T \ {Max(T)}] \in M
        BY <4>1, <1>2
      <4>3. g[T] = step[<<g[T \ {Max(T)}], s[Max(T)]>>]
        BY <3>2, <1>2 DEF FoldsUp
      <4> QED BY <3>2, <4>1, <4>2, <4>3, <1>1
    <3> QED BY <3>1, <3>2
  <2>2. DOMAIN g = SUBSET DOMAIN s
    BY <1>2
  <2> QED BY <2>1, <2>2, <1>2 DEF ClearRecurs
<1>4. ClearRecurs(c, base, s)
  BY <1>3
<1>5. v = c[DOMAIN s]
  OBVIOUS
<1> HIDE DEF c
<1>6. c[{}] = base
  BY <1>4 DEF ClearRecurs
<1>7. ASSUME NEW T \in SUBSET DOMAIN s, T # {}, c[T \ {Max(T)}] \in M
      PROVE  c[T] = step[<<c[T \ {Max(T)}], s[Max(T)]>>]
  <2>1. Max(T) \in T /\ s[Max(T)] \in E /\ T \ {Max(T)} \in SUBSET DOMAIN s
    BY <1>7, MaxOfPlaces
  <2>2. c[T] = ClearStep(c[T \ {Max(T)}], s[Max(T)])
    BY <1>4, <1>7 DEF ClearRecurs
  <2> QED BY <2>1, <2>2, <1>1, <1>7
<1>8. PICK h \in [0..Len(s) -> M] :
        /\ h[0] = base
        /\ \A i \in 1..Len(s) : h[i] = step[<<h[i - 1], s[i]>>]
        /\ c[DOMAIN s] = h[Len(s)]
  <2>1. FoldsUpIn(c, M, step, base, s)
    BY <1>6, <1>7 DEF FoldsUpIn
  <2>2. Traced(c[DOMAIN s], M, step, base, s)
    BY <1>1, <2>1, FoldRuns, Zenon
  <2> QED BY <2>2 DEF Traced
<1>9. ASSUME NEW i \in 1..Len(s) PROVE h[i] = ClearStep(h[i - 1], s[i])
  <2>1. i - 1 \in 0..Len(s) /\ s[i] \in E
    OBVIOUS
  <2> QED BY <2>1, <1>1, <1>8
<1> QED BY <1>5, <1>8, <1>9 DEF ClearRan

\* That fold, as the library defines folds.
LEMMA ClearDefinition ==
  ASSUME NEW base, NEW s
  PROVE  FoldLeft(ClearStep, base, s) = (CHOOSE g : ClearRecurs(g, base, s))[DOMAIN s]
  BY DEF FoldLeft, MapThenFoldSet, ClearRecurs, ClearStep

\* market_cancel_all_order is that fold over both lists.
LEMMA ClearIs == ASSUME NEW m
  PROVE market_cancel_all_order(m) = FoldLeft(ClearStep, m, m.book[ASK] \o m.book[BID])
  BY DEF market_cancel_all_order, ClearStep

\* CancelEach keeps a memory sane.
LEMMA CancelEachIs ==
  ASSUME heap \in 0..2, NEW m, Sane(m), NEW u, NEW ids \in Seq(Nat)
  PROVE  Follow(CancelEach(m, u, ids), m, 0)
<1> DEFINE M == {n \in Memories : Follow(n, m, 0)}
<1>1. m \in M
  BY SaneType, FollowSelf
<1>2. ASSUME NEW n \in M, NEW id \in Nat PROVE CancelStep(n, u, id) \in M
  <2>1. Sane(n) /\ Follow(n, m, 0)
    BY DEF Follow
  <2>2. PICK l : l = CancelStep(n, u, id)
    OBVIOUS
  <2>3. Follow(l, n, 0)
    BY <2>1, <2>2, CancelIs, FollowSelf DEF CancelStep
  <2>4. Follow(l, m, 0)
    <3>1. Follow(l, m, 0 + 0)
      BY <2>1, <2>3, FollowTwice
    <3> QED BY <3>1
  <2>5. l \in Memories
    BY <2>4, SaneType DEF Follow
  <2> QED BY <2>2, <2>4, <2>5
<1> HIDE DEF M
<1>3. PICK v : v = CancelEach(m, u, ids)
  OBVIOUS
<1>4. CancelRan(v, u, M, m, ids)
  <2>1. v = (CHOOSE g : CancelRecurs(g, u, m, ids))[DOMAIN ids]
    BY <1>3, CancelDefinition, Zenon
  <2> QED BY <1>1, <1>2, <2>1, CancelRuns, Zenon
<1>5. v \in M
  BY <1>4 DEF CancelRan
<1> QED BY <1>3, <1>5 DEF M

\* PutEach does, and gives out at most one id for each row.
LEMMA PutEachIs ==
  ASSUME NEW m, Sane(m), NEW u \in Users, NEW rows \in Seq(Rows)
  PROVE  Follow(PutEach(m, u, rows), m, Len(rows))
<1> DEFINE M == {n \in Memories : Sane(n)}
<1>1. m \in M
  BY SaneType
<1>2. ASSUME NEW n \in M, NEW r \in Rows PROVE Follow(PutStep(n, u, r), n, 1) /\ PutStep(n, u, r) \in M
  <2>1. Sane(n)
    OBVIOUS
  <2>2. PICK l : l = PutStep(n, u, r)
    OBVIOUS
  <2>3. Follow(l, n, 1)
    BY <2>1, <2>2, LimitOrderIs, FollowSelf DEF PutStep
  <2>4. l \in Memories /\ Sane(l)
    BY <2>3, SaneType DEF Follow
  <2> QED BY <2>2, <2>3, <2>4
<1> HIDE DEF M
<1>3. PICK v : v = PutEach(m, u, rows)
  OBVIOUS
<1>4. PutRan(v, u, M, m, rows)
  <2>1. v = (CHOOSE g : PutRecurs(g, u, m, rows))[DOMAIN rows]
    BY <1>3, PutDefinition, Zenon
  <2> QED BY <1>1, <1>2, <2>1, PutRuns, Zenon
<1>5. PICK h \in [0..Len(rows) -> M] :
        /\ h[0] = m
        /\ \A i \in 1..Len(rows) : h[i] = PutStep(h[i - 1], u, rows[i])
        /\ v = h[Len(rows)]
  BY <1>4 DEF PutRan
<1>6. Len(rows) \in Nat
  OBVIOUS
<1>7. \A i \in 0..Len(rows) : Follow(h[i], m, i)
  <2> DEFINE S == {i \in 0..Len(rows) : Follow(h[i], m, i)}
  <2>1. 0 \in S
    BY <1>5, <1>6, FollowSelf
  <2>2. ASSUME NEW i \in 0..(Len(rows) - 1), i \in S PROVE i + 1 \in S
    <3>1. i + 1 \in 1..Len(rows) /\ (i + 1) - 1 = i /\ i \in Nat /\ i \in 0..Len(rows) /\ i + 1 \in 0..Len(rows)
      BY <1>6
    <3>2. h[i] \in M /\ rows[i + 1] \in Rows /\ h[i + 1] = PutStep(h[i], u, rows[i + 1])
      BY <3>1, <1>5
    <3>3. Follow(h[i + 1], h[i], 1)
      BY <3>2, <1>2
    <3>4. Follow(h[i], m, i)
      BY <2>2
    <3>5. Follow(h[i + 1], m, i + 1)
      BY <3>1, <3>3, <3>4, FollowTwice
    <3> QED BY <3>1, <3>5
  <2> HIDE DEF S
  <2>3. \A i \in 0..Len(rows) : i \in S
    BY <1>6, <2>1, <2>2, CountUp
  <2> QED BY <2>3 DEF S
<1> QED BY <1>3, <1>5, <1>6, <1>7

\* market_cancel_all_order does.
LEMMA CancelAllIs ==
  ASSUME NEW m, Sane(m)
  PROVE  Follow(market_cancel_all_order(m), m, 0)
<1> DEFINE M == {n \in Memories : Follow(n, m, 0)}  s == m.book[ASK] \o m.book[BID]
<1>1. m \in M /\ s \in Seq(Nat)
  <2>1. m \in Memories /\ ASK \in Sides /\ BID \in Sides
    BY SaneType DEF Sides
  <2>2. m.book[ASK] \in Seq(Nat) /\ m.book[BID] \in Seq(Nat)
    BY <2>1, Fields
  <2> QED BY <2>1, <2>2, FollowSelf
<1>2. ASSUME NEW n \in M, NEW id \in Nat PROVE ClearStep(n, id) \in M
  <2>1. Sane(n) /\ Follow(n, m, 0)
    BY DEF Follow
  <2>2. PICK l : l = ClearStep(n, id)
    OBVIOUS
  <2>3. Follow(l, n, 0)
    <3>1. CASE id \in DOMAIN n.orders
      <4>1. l = order_finish(n, id)
        BY <2>2, <3>1 DEF ClearStep
      <4>2. Good(l, n.order_id) /\ l.order_id = n.order_id
        BY <2>1, <3>1, <4>1, GoodFinish DEF Sane
      <4>3. heap = 1 => Neat(l)
        BY <2>1, <3>1, <4>1, FinishNeat DEF Sane, Good
      <4> QED BY <4>2, <4>3, <2>1, SaneType DEF Follow, Sane
    <3>2. CASE id \notin DOMAIN n.orders
      BY <2>1, <2>2, <3>2, CrashFollows DEF ClearStep
    <3> QED BY <3>1, <3>2
  <2>4. Follow(l, m, 0)
    <3>1. Follow(l, m, 0 + 0)
      BY <2>1, <2>3, FollowTwice
    <3> QED BY <3>1
  <2>5. l \in Memories
    BY <2>4, SaneType DEF Follow
  <2> QED BY <2>2, <2>4, <2>5
<1> HIDE DEF M, s
<1>3. PICK v : v = market_cancel_all_order(m)
  OBVIOUS
<1>4. ClearRan(v, M, m, s)
  <2>1. v = (CHOOSE g : ClearRecurs(g, m, s))[DOMAIN s]
    BY <1>3, ClearIs, ClearDefinition, Zenon DEF s
  <2> QED BY <1>1, <1>2, <2>1, ClearRuns, Zenon
<1>5. v \in M
  BY <1>4 DEF ClearRan
<1> QED BY <1>3, <1>5 DEF M

\* Ids are numbers.
LEMMA IdsOfIs ==
  ASSUME NEW m, m.order_id \in Nat, NEW op, op.ids \in Seq(Nat)
  PROVE  IdsOf(m, op) \in Seq(Nat)
<1>1. NewestFirst(m) \in [1..m.order_id -> Nat]
  BY DEF NewestFirst
<1>2. NewestFirst(m) \in Seq(Nat)
  BY <1>1
<1> QED BY <1>2 DEF IdsOf

\* What is in a log.
IsRequest(op) ==
  /\ op.user \in Users /\ op.ids \in Seq(Nat)
  /\ op.method # "market_order" => op.rows \in Seq(Rows)
  /\ op.method = "update_limit_order" => Len(op.rows) = 1

\* The replay of a request keeps a memory sane and gives out no more ids than the request had
\* room for.
LEMMA LoadIs ==
  ASSUME heap \in 0..2, NEW d, Sane(d.mem), NEW op, IsRequest(op)
  PROVE  Follow(load_oper(d, op).mem, d.mem, IF op.method = "market_order" THEN 0 ELSE Len(op.rows))
<1> DEFINE m == d.mem  n == load_oper(d, op).mem  x == IF op.method = "market_order" THEN 0 ELSE Len(op.rows)
           r == CASE op.method = "limit_order_batch"        -> Result(0, PutEach(m, op.user, op.rows))
                  [] op.method = "update_limit_order"       -> load_update_limit_order(m, op)
                  [] op.method = "update_limit_order_batch" -> load_update_limit_order_batch(m, op)
                  [] op.method = "cancel_order"             -> load_cancel_order(m, op)
                  [] op.method = "cancel_order_batch" -> Result(0, CancelEach(m, op.user, IdsOf(m, op)))
                  [] OTHER -> Result(-1, m)
<1>1. n = m \/ n = r.mem
  BY DEF load_oper
<1>2. x \in Nat /\ op.user \in Users /\ op.ids \in Seq(Nat)
  BY DEF IsRequest
<1>3. \A i, l : Result(i, l).mem = l
  BY DEF Result
<1>4. Sane(m)
  OBVIOUS
<1>5. \A l : Follow(l, m, 0) => Follow(l, m, x)
  BY <1>2, <1>4, SaneType DEF Follow
<1> HIDE DEF m
<1>6. CASE op.method = "limit_order_batch"
  <2>1. op.rows \in Seq(Rows) /\ x = Len(op.rows) /\ r.mem = PutEach(m, op.user, op.rows)
    BY <1>3, <1>6 DEF IsRequest
  <2>2. Follow(r.mem, m, x)
    BY <2>1, <1>2, <1>4, PutEachIs
  <2> QED BY <1>1, <1>2, <1>4, <2>2, FollowSelf DEF m
<1>7. CASE op.method = "update_limit_order"
  <2> DEFINE q == CancelOther(m, op.user, op.ids[1])
  <2>1. op.rows \in Seq(Rows) /\ x = 1 /\ op.rows[1] \in Rows
        /\ r.mem = market_put_limit_order(q, op.user, op.rows[1]).mem
    <3>1. op.rows \in Seq(Rows) /\ Len(op.rows) = 1
      BY <1>7 DEF IsRequest
    <3>2. r = load_update_limit_order(m, op)
      BY <1>7
    <3>3. op.rows[1] \in Rows
      BY <3>1
    <3> QED BY <1>7, <3>1, <3>2, <3>3 DEF load_update_limit_order
  <2>2. Follow(q, m, 0)
    BY <1>4, CancelOtherIs
  <2> HIDE DEF q
  <2>3. Follow(r.mem, q, 1)
    BY <1>2, <2>1, <2>2, LimitOrderIs DEF Follow
  <2>4. Follow(r.mem, m, x)
    <3>1. Follow(r.mem, m, 0 + 1)
      <4> HIDE DEF r
      <4> QED BY <1>4, <2>2, <2>3, FollowTwice
    <3>2. x = 0 + 1
      BY <2>1
    <3> HIDE DEF r, x
    <3> QED BY <3>1, <3>2
  <2> QED BY <1>1, <1>2, <1>4, <2>4, FollowSelf DEF m
<1>8. CASE op.method = "update_limit_order_batch"
  <2> DEFINE q == CancelEach(m, op.user, op.ids)
  <2>1. op.rows \in Seq(Rows) /\ x = Len(op.rows) /\ r.mem = PutEach(q, op.user, op.rows)
    BY <1>3, <1>8 DEF IsRequest, load_update_limit_order_batch
  <2>2. Follow(q, m, 0)
    BY <1>2, <1>4, CancelEachIs
  <2> HIDE DEF q
  <2>3. Follow(r.mem, q, x)
    BY <1>2, <2>1, <2>2, PutEachIs DEF Follow
  <2>4. Follow(r.mem, m, x)
    <3>1. Follow(r.mem, m, 0 + x)
      <4> HIDE DEF r, x
      <4> QED BY <1>2, <1>4, <2>2, <2>3, FollowTwice
    <3> QED BY <3>1, <1>2
  <2> QED BY <1>1, <1>2, <1>4, <2>4, FollowSelf DEF m
<1>9. CASE op.method = "cancel_order"
  <2>1. r = load_cancel_order(m, op)
    BY <1>9
  <2>2. Follow(r.mem, m, 0)
    <3> HIDE DEF r
    <3> QED BY <2>1, <1>3, <1>4, CancelIs, FollowSelf DEF load_cancel_order
  <2> QED BY <1>1, <1>2, <1>4, <1>5, <2>2, FollowSelf DEF m
<1>10. CASE op.method = "cancel_order_batch"
  <2>1. r.mem = CancelEach(m, op.user, IdsOf(m, op)) /\ IdsOf(m, op) \in Seq(Nat)
    BY <1>2, <1>3, <1>4, <1>10, IdsOfIs, SaneType
  <2>2. Follow(r.mem, m, 0)
    BY <2>1, <1>4, CancelEachIs
  <2> QED BY <1>1, <1>2, <1>4, <1>5, <2>2, FollowSelf DEF m
<1>11. CASE op.method \notin {"limit_order_batch", "update_limit_order", "update_limit_order_batch",
                              "cancel_order", "cancel_order_batch"}
  <2>1. r.mem = m
    BY <1>3, <1>11
  <2> QED BY <1>1, <1>2, <1>4, <2>1, FollowSelf DEF m
<1> QED BY <1>6, <1>7, <1>8, <1>9, <1>10, <1>11

------------------------------------------------------------------------------
(* The invariant                                                            *)

\* The process, and one that starts now, work on memories that handlers leave.
IInv ==
  /\ heap \in 0..2
  /\ Sane(mem) /\ mem.order_id <= MaxOrders
  /\ Sane(disk.mem) /\ disk.mem.order_id <= MaxOrders

\* The invariant says that types are right and frozen money is explained, ...
LEMMA SpotInvFollows == IInv => SpotInv
<1> SUFFICES ASSUME IInv PROVE SpotInv
  OBVIOUS
<1>1. ASSUME NEW m, Sane(m), m.order_id <= MaxOrders
      PROVE  /\ m.order_id \in 0..MaxOrders /\ m.crashed \in BOOLEAN
             /\ m.balance \in [Users -> [Assets -> Account]]
             /\ m.burnt \in [Assets -> Nat]
             /\ DOMAIN m.orders \subseteq 1..m.order_id
             /\ \A i \in DOMAIN m.orders :
                  m.orders[i] \in [user : Users, side : Sides, price : Nat \ {0}, left : Nat \ {0},
                                   freeze : Nat \ {0}, mm : {0, NORMAL, CANCEL}]
             /\ \A s \in Sides : m.book[s] \in Seq(Ids)
  <2>1. m \in Memories /\ Listing(m, m.order_id) /\ Promised(m) /\ m.order_id \in Nat
    BY <1>1 DEF Sane, Good, Shaped
  <2>2. m.order_id \in 0..MaxOrders
    BY <1>1, <2>1, SpotAssumption
  <2>3. /\ m.crashed \in BOOLEAN /\ m.balance \in [Users -> [Assets -> Account]]
        /\ m.burnt \in [Assets -> Nat] /\ DOMAIN m.orders \subseteq 1..m.order_id
    BY <2>1, Fields DEF Listing
  <2>4. ASSUME NEW i \in DOMAIN m.orders
        PROVE  m.orders[i] \in [user : Users, side : Sides, price : Nat \ {0}, left : Nat \ {0},
                                freeze : Nat \ {0}, mm : {0, NORMAL, CANCEL}]
    <3> DEFINE o == m.orders[i]
    <3>1. /\ o \in Orders /\ o.side \in Sides /\ o.price \in Nat \ {0} /\ o.left \in Nat
      BY <2>1, OrderFields
    <3>2. o.left > 0 /\ o.freeze = Worth(Gives(o.side), o.left, o.price)
      BY <2>1 DEF Promised
    <3>3. Gives(o.side) \in Assets
      BY <3>1, TwoAssets
    <3>4. o.freeze \in Nat \ {0}
      BY <3>1, <3>2, <3>3, WorthPositive
    <3> HIDE DEF o
    <3>5. o \in [user : Users, side : Sides, price : Nat \ {0}, left : Nat \ {0},
                 freeze : Nat \ {0}, mm : {0, NORMAL, CANCEL}]
      BY <3>1, <3>2, <3>4 DEF Orders
    <3> QED BY <3>5 DEF o
  <2>5. ASSUME NEW s \in Sides PROVE m.book[s] \in Seq(Ids)
    <3>1. m.book[s] \in Seq(Nat) /\ \A n \in DOMAIN m.book[s] : m.book[s][n] \in 1..m.order_id
      BY <2>1, Fields DEF Listing
    <3>2. \A n \in DOMAIN m.book[s] : m.book[s][n] \in Ids
      BY <3>1, <2>1, <1>1, SpotAssumption DEF Ids
    <3> DEFINE t == m.book[s]
    <3>3. t \in Seq(Nat) /\ \A n \in DOMAIN t : t[n] \in Ids
      BY <3>1, <3>2
    <3> HIDE DEF t
    <3>4. t \in [1..Len(t) -> Ids] /\ Len(t) \in Nat
      BY <3>3
    <3>5. t \in Seq(Ids)
      BY <3>4
    <3> QED BY <3>5 DEF t
  <2> QED BY <2>2, <2>3, <2>4, <2>5
<1>2. SpotTypeOK
  BY <1>1 DEF IInv, SpotTypeOK
<1>3. FrozenExact
  BY DEF IInv, FrozenExact, Sound, SoundMem, Sane, Good, Exact
<1> QED BY <1>2, <1>3 DEF SpotInv

\* ... and that nothing is made or lost if fees have no more digits than accounts.
LEMMA ConservedFollows == IInv /\ FeesFit => Conserved
  BY DEF IInv, Conserved, Sound, SoundMem, Sane, Good, Kept

\* A neat book is not crossed.
LEMMA UncrossedFollows == IInv => SpotUncrossed
<1> SUFFICES ASSUME IInv, heap = 1, NEW i \in ToSet(mem.book[BID]), NEW j \in ToSet(mem.book[ASK])
             PROVE  mem.orders[i].price < mem.orders[j].price
  BY DEF SpotUncrossed
<1>1. Neat(mem)
  BY DEF IInv, Sane
<1>2. PICK a \in DOMAIN mem.book[BID] : mem.book[BID][a] = i
  BY DEF ToSet
<1>3. PICK b \in DOMAIN mem.book[ASK] : mem.book[ASK][b] = j
  BY DEF ToSet
<1> QED BY <1>1, <1>2, <1>3 DEF Neat

\* A process that starts has a sane memory.
LEMMA CleanIsSane == Sane(Clean) /\ Clean.order_id = 0
<1> DEFINE m == Clean  b == [u \in Users |-> [a \in Assets |-> [available |-> Rescale(Funds[a]), freeze |-> 0]]]
           o == [u \in Users |-> [a \in Assets |-> 0]]  l == [s \in Sides |-> <<>>]
           c == [a \in Assets |-> 0]  no == FALSE
<1>1. m = [balance |-> b, orders |-> <<>>, book |-> l, order_id |-> 0, crashed |-> no, owed |-> o, burnt |-> c]
  BY DEF Clean
<1>2. /\ m.balance = b /\ m.orders = <<>> /\ m.book = l /\ m.order_id = 0 /\ m.crashed = no
      /\ m.owed = o /\ m.burnt = c
  <2> HIDE DEF b, o, l, c, no, m
  <2> QED BY <1>1
<1>3. \A a \in Assets : Rescale(Funds[a]) \in Nat /\ Mult(Rescale(Funds[a]))
  <2> SUFFICES ASSUME NEW a \in Assets PROVE Rescale(Funds[a]) \in Nat /\ Mult(Rescale(Funds[a]))
    OBVIOUS
  <2>1. Funds[a] \in Nat
    BY SpotAssumption
  <2> QED BY <2>1, RescaleIs, RescaleNat
<1>4. b \in [Users -> [Assets -> Account]] /\ \A u \in Users, a \in Assets : Stored(b[u][a]) /\ b[u][a].freeze = 0
  BY <1>3, MultZero DEF Stored, Account
<1>5. l \in [Sides -> Seq(Nat)] /\ \A s \in Sides : DOMAIN l[s] = {}
  BY DEF Sides
<1>6. o \in [Users -> [Assets -> Int]] /\ \A u \in Users, a \in Assets : o[u][a] = 0
  OBVIOUS
<1>7. c \in [Assets -> Nat]
  OBVIOUS
<1> DEFINE e == <<>>
<1>8. DOMAIN e = {} /\ e \in [DOMAIN e -> Orders] /\ DOMAIN e \in SUBSET Nat
  OBVIOUS
<1>9. no \in BOOLEAN
  OBVIOUS
<1> HIDE DEF b, o, l, c, no, m
<1>10. m = [balance |-> m.balance, orders |-> m.orders, book |-> m.book, order_id |-> m.order_id,
            crashed |-> m.crashed, owed |-> m.owed, burnt |-> m.burnt]
  BY <1>1, <1>2, Zenon
<1>11. m \in Memories
  <2>1. m.balance \in [Users -> [Assets -> Account]] /\ m.book \in [Sides -> Seq(Nat)]
        /\ m.owed \in [Users -> [Assets -> Int]] /\ m.burnt \in [Assets -> Nat]
    BY <1>2, <1>4, <1>5, <1>6, <1>7
  <2>2. DOMAIN m.orders \in SUBSET Nat /\ m.orders \in [DOMAIN m.orders -> Orders]
    BY <1>2, <1>8
  <2>3. m.order_id \in Nat /\ m.crashed \in BOOLEAN
    BY <1>2, <1>9
  <2> QED BY <1>10, <2>1, <2>2, <2>3, MemoryIs
<1>12. DOMAIN m.orders = {}
  BY <1>2, <1>8
<1>13. Listing(m, 0)
  BY <1>2, <1>5, <1>12 DEF Listing
<1>14. Whole(m)
  BY <1>2, <1>4 DEF Whole
<1>15. Lacking(m)
  BY <1>2, <1>6, TwoAssets DEF Lacking
<1>16. Promised(m)
  BY <1>12 DEF Promised
<1>17. Exact(m)
  <2> SUFFICES ASSUME NEW u \in Users, NEW a \in Assets PROVE m.balance[u][a].freeze = HeldBack(m, u, a) + m.owed[u][a]
    BY DEF Exact
  <2>1. HeldBack(m, u, a) = 0
    <3> DEFINE f == [i \in DOMAIN m.orders |->
                       IF m.orders[i].user = u /\ Gives(m.orders[i].side) = a THEN m.orders[i].freeze ELSE 0]
    <3>1. HeldBack(m, u, a) = SumFunctionOnSet(f, DOMAIN m.orders)
      BY DEF HeldBack, SumFunction
    <3>2. IsFiniteSet(DOMAIN m.orders) /\ \A i \in DOMAIN m.orders : f[i] = 0
      BY <1>12, FS_EmptySet
    <3> HIDE DEF f
    <3> QED BY <3>1, <3>2, SumOfZeros
  <2>2. m.balance[u][a].freeze = 0
    BY <1>2, <1>4
  <2>3. m.owed[u][a] = 0
    BY <1>2, <1>6
  <2> QED BY <2>1, <2>2, <2>3
<1>18. Kept(m)
  BY DEF Kept, m
<1>19. Neat(m)
  <2>1. BID \in Sides /\ ASK \in Sides
    BY DEF Sides
  <2> QED BY <2>1, <1>2, <1>5 DEF Neat
<1> QED BY <1>2, <1>11, <1>13, <1>14, <1>15, <1>16, <1>17, <1>18, <1>19 DEF m, Sane, Good, Shaped

\* So the invariant holds at first.
LEMMA InitSane == Init => IInv
<1> SUFFICES ASSUME Init PROVE IInv
  OBVIOUS
<1>1. heap \in 0..2 /\ mem = Clean /\ disk.mem = Clean
  BY SpotAssumption DEF Init
<1>2. MaxOrders \in Nat
  BY SpotAssumption
<1> QED BY <1>1, <1>2, CleanIsSane DEF IInv

\* A bounded sequence is a sequence.
LEMMA BoundedIs ==
  ASSUME NEW E, NEW n \in Nat, NEW s \in BoundedSeq(E, n)
  PROVE  s \in Seq(E) /\ Len(s) \in Nat
<1>1. PICK k \in 0..n : s \in [1..k -> E]
  BY DEF BoundedSeq, SeqOf
<1> QED BY <1>1

\* Sane speaks of heap, which never changes.
LEMMA SaneNext ==
  ASSUME heap' = heap, NEW n, Sane(n)
  PROVE  mem' = n => Sane(mem)'
  BY DEF Sane, Good, Shaped, Lacking, SoundMem, Exact, Kept, Neat, NoWorse

\* The same of the memory after a replay.
LEMMA SaneNextDisk ==
  ASSUME heap' = heap, NEW n, Sane(n)
  PROVE  disk'.mem = n => Sane(disk.mem)'
  BY DEF Sane, Good, Shaped, Lacking, SoundMem, Exact, Kept, Neat, NoWorse

\* A request whose handler keeps memory sane and has room keeps the invariant.
LEMMA HandledIs ==
  ASSUME IInv, NEW r, NEW op, Handled(r, op), NEW x \in Nat, Room(x), Follow(r.mem, mem, x),
         IsRequest(op), op.method # "market_order" => Len(op.rows) <= x
  PROVE  IInv'
<1>1. /\ heap' = heap /\ mem' = r.mem /\ heap \in 0..2 /\ Sane(mem) /\ Sane(disk.mem)
      /\ disk' = disk \/ disk' = load_oper(disk, op)
      /\ disk.mem.order_id <= MaxOrders
  BY DEF Handled, IInv
<1>2. mem.order_id \in Nat /\ disk.mem.order_id \in Nat /\ MaxOrders \in Nat
  BY <1>1, SaneType, SpotAssumption
<1>3. Sane(mem') /\ mem'.order_id <= MaxOrders /\ Sane(mem)'
  <2>1. Sane(r.mem)
    BY DEF Follow
  <2>2. Sane(mem)'
    BY <1>1, <2>1, SaneNext
  <2> QED BY <1>1, <1>2, <2>1, <2>2 DEF Follow, Room
<1>4. PICK d : d = load_oper(disk, op)
  OBVIOUS
<1> DEFINE y == IF op.method = "market_order" THEN 0 ELSE Len(op.rows)
<1>5. Follow(d.mem, disk.mem, y) /\ y \in Nat /\ y <= x
  <2>1. Follow(d.mem, disk.mem, y)
    BY <1>1, <1>4, LoadIs
  <2>2. y \in Nat
    BY DEF IsRequest
  <2> QED BY <2>1, <2>2
<1> HIDE DEF y
<1>6. Sane(d.mem) /\ d.mem.order_id <= MaxOrders
  BY <1>2, <1>5 DEF Follow, Room
<1>7. Sane(disk'.mem) /\ disk'.mem.order_id <= MaxOrders
  BY <1>1, <1>4, <1>6
<1>8. Sane(disk.mem)'
  BY <1>1, <1>7, SaneNextDisk
<1> QED BY <1>1, <1>3, <1>7, <1>8 DEF IInv

\* The same if handler and replay need the same room.
LEMMA HandledOne ==
  ASSUME IInv, NEW r, NEW op, Handled(r, op), NEW x \in Nat, Room(x), Follow(r.mem, mem, x),
         IsRequest(op), Len(op.rows) = x
  PROVE  IInv'
<1>1. Len(op.rows) <= x
  OBVIOUS
<1> QED BY <1>1, HandledIs

\* Every step keeps the invariant: handlers and the replay of what they logged are the same
\* functions, of memories that are sane but need not be equal.
LEMMA StepSane == IInv /\ [Next]_vars => IInv'
<1> SUFFICES ASSUME IInv, [Next]_vars PROVE IInv'
  OBVIOUS
<1>0. /\ heap \in 0..2 /\ Sane(mem) /\ Sane(disk.mem) /\ mem \in Memories
      /\ mem.order_id \in Nat /\ BatchMax \in Nat /\ MaxOrders \in Nat
  BY SaneType, SpotAssumption DEF IInv
<1>20. \A i, n : Result(i, n).mem = n
  BY DEF Result
<1>101. <<>> \in Seq(Nat) /\ <<>> \in Seq(Rows) /\ Len(<<>>) = 0
  OBVIOUS
<1>1. CASE on_cmd_order_put_limit
  <2>1. PICK u \in Users, r \in Rows :
          Room(1) /\ Handled(market_put_limit_order(mem, u, r), Request("limit_order", u, <<>>, <<r>>))
    BY <1>1 DEF on_cmd_order_put_limit
  <2>2. PICK op, res : op = Request("limit_order", u, <<>>, <<r>>) /\ res = market_put_limit_order(mem, u, r)
    OBVIOUS
  <2>3. IsRequest(op) /\ Len(op.rows) = 1
    BY <2>2, <1>101 DEF Request, IsRequest
  <2>4. Follow(res.mem, mem, 1)
    BY <2>2, <1>0, LimitOrderIs
  <2> QED BY <2>1, <2>2, <2>3, <2>4, HandledOne
<1>2. CASE on_cmd_order_put_market
  <2>1. PICK u \in Users, r \in MarketRows :
          Room(1) /\ Handled(market_put_market_order(mem, u, r), Request("market_order", u, <<>>, <<r>>))
    BY <1>2 DEF on_cmd_order_put_market
  <2>2. PICK op, res : op = Request("market_order", u, <<>>, <<r>>) /\ res = market_put_market_order(mem, u, r)
    OBVIOUS
  <2>3. IsRequest(op) /\ op.method = "market_order"
    BY <2>2, <1>101 DEF Request, IsRequest
  <2>4. Follow(res.mem, mem, 1)
    BY <2>2, <1>0, MarketOrderIs
  <2> QED BY <2>1, <2>2, <2>3, <2>4, HandledIs
<1>3. CASE on_cmd_order_put_limit_batch
  <2>1. PICK u \in Users, rows \in BoundedSeq(Rows, BatchMax) :
          Room(Len(rows)) /\ Handled(Result(0, PutEach(mem, u, rows)), Request("limit_order_batch", u, <<>>, rows))
    BY <1>3 DEF on_cmd_order_put_limit_batch
  <2>2. PICK op, res : op = Request("limit_order_batch", u, <<>>, rows) /\ res = Result(0, PutEach(mem, u, rows))
    OBVIOUS
  <2>3. rows \in Seq(Rows) /\ Len(rows) \in Nat
    BY <1>0, BoundedIs
  <2>4. IsRequest(op) /\ op.rows = rows
    BY <2>2, <2>3, <1>101 DEF Request, IsRequest
  <2>5. Follow(res.mem, mem, Len(rows))
    BY <2>2, <2>3, <1>0, <1>20, PutEachIs
  <2> QED BY <2>1, <2>2, <2>3, <2>4, <2>5, HandledIs
<1>4. CASE on_cmd_order_update_limit
  <2>1. PICK u \in Users, id \in 1..MaxOrders, r \in Rows :
          /\ Room(1)
          /\ Handled(IF CancelOther(mem, u, id).crashed THEN Result(0, CancelOther(mem, u, id))
                     ELSE market_put_limit_order(CancelOther(mem, u, id), u, r),
                     Request("update_limit_order", u, <<id>>, <<r>>))
    BY <1>4 DEF on_cmd_order_update_limit
  <2>2. PICK op, m, res :
          /\ op = Request("update_limit_order", u, <<id>>, <<r>>)
          /\ m = CancelOther(mem, u, id)
          /\ res = IF m.crashed THEN Result(0, m) ELSE market_put_limit_order(m, u, r)
    OBVIOUS
  <2>3. IsRequest(op) /\ Len(op.rows) = 1
    BY <2>2 DEF Request, IsRequest
  <2>4. Follow(m, mem, 0)
    BY <2>2, <1>0, CancelOtherIs
  <2>5. Follow(res.mem, m, 1)
    BY <2>2, <2>4, <1>20, LimitOrderIs, FollowSelf DEF Follow
  <2>6. Follow(res.mem, mem, 1)
    <3>1. Follow(res.mem, mem, 0 + 1)
      BY <2>4, <2>5, <1>0, FollowTwice
    <3> QED BY <3>1
  <2> QED BY <2>1, <2>2, <2>3, <2>6, HandledOne
<1>5. CASE on_cmd_order_update_limit_batch
  <2>1. PICK u \in Users, ids \in BoundedSeq(1..MaxOrders, 1), rows \in BoundedSeq(Rows, BatchMax) :
          /\ Room(Len(rows))
          /\ Handled(Result(0, PutEach(CancelEach(mem, u, ids), u, rows)),
                     Request("update_limit_order_batch", u, ids, rows))
    BY <1>5 DEF on_cmd_order_update_limit_batch
  <2>2. PICK op, m, res :
          /\ op = Request("update_limit_order_batch", u, ids, rows)
          /\ m = CancelEach(mem, u, ids)
          /\ res = Result(0, PutEach(m, u, rows))
    OBVIOUS
  <2>3. rows \in Seq(Rows) /\ Len(rows) \in Nat /\ ids \in Seq(Nat)
    <3>1. ids \in Seq(1..MaxOrders)
      BY BoundedIs
    <3> QED BY <3>1, <1>0, BoundedIs
  <2>4. IsRequest(op) /\ op.rows = rows
    BY <2>2, <2>3 DEF Request, IsRequest
  <2>5. Follow(m, mem, 0)
    BY <2>2, <2>3, <1>0, CancelEachIs
  <2>6. Follow(res.mem, m, Len(rows))
    BY <2>2, <2>3, <2>5, <1>20, PutEachIs DEF Follow
  <2>7. Follow(res.mem, mem, Len(rows))
    <3>1. Follow(res.mem, mem, 0 + Len(rows))
      BY <2>3, <2>5, <2>6, <1>0, FollowTwice
    <3> QED BY <3>1, <2>3
  <2> QED BY <2>1, <2>2, <2>3, <2>4, <2>7, HandledIs
<1>6. CASE on_cmd_order_cancel
  <2>1. PICK u \in Users, id \in DOMAIN mem.orders :
          Handled(market_cancel_order(mem, id), Request("cancel_order", u, <<id>>, <<>>))
    BY <1>6 DEF on_cmd_order_cancel
  <2>2. PICK op, res : op = Request("cancel_order", u, <<id>>, <<>>) /\ res = market_cancel_order(mem, id)
    OBVIOUS
  <2>3. IsRequest(op) /\ Len(op.rows) = 0
    <3>1. id \in Nat
      BY <1>0, Fields
    <3> QED BY <2>2, <3>1, <1>101 DEF Request, IsRequest
  <2>4. Follow(res.mem, mem, 0)
    BY <2>2, <1>0, CancelIs
  <2>5. Room(0)
    BY <1>0, SaneType DEF Room, IInv
  <2> QED BY <2>1, <2>2, <2>3, <2>4, <2>5, HandledOne
<1>7. CASE on_cmd_order_cancel_batch
  <2>1. PICK u \in Users, all \in BOOLEAN, ids \in BoundedSeq(1..MaxOrders, BatchMax) :
          LET op == [Request("cancel_order_batch", u, ids, <<>>) EXCEPT !.all = all]
          IN  Handled(Result(0, CancelEach(mem, u, IdsOf(mem, op))), op)
    BY <1>7 DEF on_cmd_order_cancel_batch
  <2>2. PICK op, res :
          /\ op = [Request("cancel_order_batch", u, ids, <<>>) EXCEPT !.all = all]
          /\ res = Result(0, CancelEach(mem, u, IdsOf(mem, op)))
    OBVIOUS
  <2>3. op.method = "cancel_order_batch" /\ op.user = u /\ op.ids = ids /\ op.rows = <<>>
    BY <2>2 DEF Request
  <2>4. ids \in Seq(Nat)
    <3>1. ids \in Seq(1..MaxOrders)
      BY <1>0, BoundedIs
    <3> QED BY <3>1, <1>0
  <2>5. IsRequest(op) /\ Len(op.rows) = 0
    BY <2>3, <2>4, <1>101 DEF IsRequest
  <2>6. Follow(res.mem, mem, 0)
    <3>1. IdsOf(mem, op) \in Seq(Nat)
      BY <2>3, <2>4, <1>0, IdsOfIs
    <3> QED BY <2>2, <3>1, <1>0, <1>20, CancelEachIs
  <2>7. Room(0)
    BY <1>0, SaneType DEF Room, IInv
  <2>8. Handled(res, op) /\ 0 \in Nat
    BY <2>1, <2>2
  <2> QED BY <2>5, <2>6, <2>7, <2>8, HandledOne
<1>8. CASE on_cmd_market_add_market
  <2>1. mem' = market_cancel_all_order(mem) /\ heap' = heap /\ disk' = disk
    BY <1>8 DEF on_cmd_market_add_market
  <2>2. Follow(mem', mem, 0)
    BY <2>1, <1>0, CancelAllIs
  <2>3. Sane(mem') /\ mem'.order_id <= MaxOrders
    BY <2>2, <1>0 DEF Follow, IInv
  <2>4. Sane(mem)' /\ Sane(disk.mem)'
    BY <2>1, <2>3, <1>0, SaneNext, SaneNextDisk
  <2> QED BY <2>1, <2>3, <2>4 DEF IInv
<1>9. CASE Restart
  <2>1. mem' = disk.mem /\ heap' = heap /\ disk' = disk
    BY <1>9 DEF Restart
  <2>2. Sane(mem)' /\ Sane(disk.mem)'
    BY <2>1, <1>0, SaneNext, SaneNextDisk
  <2> QED BY <2>1, <2>2 DEF IInv
<1>10. CASE UNCHANGED vars
  <2>1. mem' = mem /\ heap' = heap /\ disk' = disk
    BY <1>10 DEF vars
  <2>2. Sane(mem)' /\ Sane(disk.mem)'
    BY <2>1, <1>0, SaneNext, SaneNextDisk
  <2> QED BY <2>1, <2>2 DEF IInv
<1> QED BY <1>1, <1>2, <1>3, <1>4, <1>5, <1>6, <1>7, <1>8, <1>9, <1>10 DEF Next

\* Accounts, orders and lists have their types, and while no cancelled order took what other
\* orders had frozen and no freed memory was used, what an account has frozen (me_balance.c) is
\* what its orders in the index froze and what cancelled orders left: in partial deals, in deals
\* of a user with himself, with orders that make way, with orders that are replaced, in the
\* memory of the process and in that of a replay (me_market.c, me_load.c), whatever malloc left
\* in oper_type.
THEOREM SpotInvHolds == Spec => []SpotInv
<1>1. Spec => []IInv
  BY InitSane, StepSane, PTL DEF Spec
<1> QED BY <1>1, SpotInvFollows, PTL

\* Deals, fees and cancels neither make nor destroy money or stock, for any fees that have no
\* more digits than an account stores.  market_create (me_market.c:486-495) demands this of no
\* fee of a deal in money: with Quantum 2, Unit 2 and a fee of 1 it is wrong.
THEOREM ConservedHolds == ASSUME FeesFit PROVE Spec => []Conserved
<1>1. Spec => []IInv
  BY InitSane, StepSane, PTL DEF Spec
<1>2. IInv => Conserved
  BY ConservedFollows
<1> QED BY <1>1, <1>2, PTL

\* As long as the lists are sorted the way they are read (oper_type 1) no bid rests at
\* or above an ask: what matching left of an order crosses nothing that still rests, and
\* skiplist_insert puts it where the list stays sorted.
THEOREM SpotUncrossedHolds == Spec => []SpotUncrossed
<1>1. Spec => []IInv
  BY InitSane, StepSane, PTL DEF Spec
<1> QED BY <1>1, UncrossedFollows, PTL

------------------------------------------------------------------------------
(* Replay                                                                   *)

\* The replay of op does what was done.
Replays(r, op) ==
  ~mem.crashed /\ r.ret = 0 /\ ~r.mem.crashed =>
    LET d == load_oper([ok |-> TRUE, mem |-> mem], op) IN d.ok => d.mem = r.mem

\* What a replay does depends on the memory it goes on with.
LEMMA LoadFields ==
  ASSUME NEW d, NEW op, d.ok, ~d.mem.crashed
  PROVE  load_oper(d, op) = load_oper([ok |-> TRUE, mem |-> d.mem], op)
  BY DEF load_oper

\* A replay that failed does nothing more.
LEMMA LoadSkips ==
  ASSUME NEW d, NEW op, ~d.ok \/ d.mem.crashed
  PROVE  load_oper(d, op) = d
  BY DEF load_oper

\* If the replay of a request does what the request did, it does so next to everything that
\* was logged before.
LEMMA HandledReplays ==
  ASSUME ReplayExact, NEW r, NEW op, Handled(r, op), Replays(r, op)
  PROVE  ReplayExact'
<1> SUFFICES ASSUME disk'.ok, ~mem'.crashed, ~unlogged' PROVE disk'.mem = mem'
  BY DEF ReplayExact
<1> DEFINE logged == r.ret = 0 /\ ~r.mem.crashed
<1>1. /\ ~mem.crashed /\ mem' = r.mem
      /\ disk' = IF logged THEN load_oper(disk, op) ELSE disk
      /\ ~unlogged /\ (logged \/ r.mem = mem)
  BY DEF Handled
<1>2. CASE logged
  <2>1. disk' = load_oper(disk, op)
    BY <1>1, <1>2
  <2>2. disk.ok
    BY <2>1, LoadSkips
  <2>3. disk.mem = mem
    BY <2>2, <1>1 DEF ReplayExact
  <2>4. disk' = load_oper([ok |-> TRUE, mem |-> mem], op)
    <3>1. load_oper(disk, op) = load_oper([ok |-> TRUE, mem |-> disk.mem], op)
      BY <2>2, <2>3, <1>1, LoadFields
    <3> QED BY <3>1, <2>1, <2>3, Zenon
  <2> QED BY <2>4, <1>1, <1>2 DEF Replays
<1>3. CASE ~logged
  <2>1. disk' = disk /\ mem' = mem
    BY <1>1, <1>3
  <2> QED BY <2>1, <1>1 DEF ReplayExact
<1> QED BY <1>2, <1>3

\* What load_oper calls for a method.
LEMMA Loaded ==
  ASSUME NEW m, ~m.crashed, NEW op, NEW d, d = load_oper([ok |-> TRUE, mem |-> m], op)
  PROVE  /\ op.method = "limit_order_batch" => d.mem = PutEach(m, op.user, op.rows)
         /\ op.method = "update_limit_order" => d.mem = load_update_limit_order(m, op).mem
         /\ op.method = "update_limit_order_batch" => d.mem = load_update_limit_order_batch(m, op).mem
         /\ op.method = "cancel_order" => d.mem = load_cancel_order(m, op).mem
         /\ op.method = "cancel_order_batch" => d.mem = CancelEach(m, op.user, IdsOf(m, op))
         /\ op.method \in {"limit_order", "market_order"} => ~d.ok
<1> DEFINE r == CASE op.method = "limit_order_batch"        -> Result(0, PutEach(m, op.user, op.rows))
                  [] op.method = "update_limit_order"       -> load_update_limit_order(m, op)
                  [] op.method = "update_limit_order_batch" -> load_update_limit_order_batch(m, op)
                  [] op.method = "cancel_order"             -> load_cancel_order(m, op)
                  [] op.method = "cancel_order_batch" -> Result(0, CancelEach(m, op.user, IdsOf(m, op)))
                  [] OTHER -> Result(-1, m)
<1>1. d.mem = r.mem /\ d.ok = (r.ret = 0)
  BY DEF load_oper
<1>2. \A i, l : Result(i, l).mem = l /\ Result(i, l).ret = i
  BY DEF Result
<1>3. op.method = "limit_order_batch" => r = Result(0, PutEach(m, op.user, op.rows))
  OBVIOUS
<1>4. op.method = "update_limit_order" => r = load_update_limit_order(m, op)
  OBVIOUS
<1>5. op.method = "update_limit_order_batch" => r = load_update_limit_order_batch(m, op)
  OBVIOUS
<1>6. op.method = "cancel_order" => r = load_cancel_order(m, op)
  OBVIOUS
<1>7. op.method = "cancel_order_batch" => r = Result(0, CancelEach(m, op.user, IdsOf(m, op)))
  OBVIOUS
<1>8. op.method \in {"limit_order", "market_order"} => r = Result(-1, m)
  OBVIOUS
<1> HIDE DEF r
<1>9. op.method = "limit_order_batch" => d.mem = PutEach(m, op.user, op.rows)
  BY <1>1, <1>2, <1>3
<1>10. op.method = "cancel_order_batch" => d.mem = CancelEach(m, op.user, IdsOf(m, op))
  BY <1>1, <1>2, <1>7
<1>11. op.method \in {"limit_order", "market_order"} => ~d.ok
  <2>1. op.method \in {"limit_order", "market_order"} => r.ret = -1
    BY <1>2, <1>8
  <2>2. d.ok <=> r.ret = 0
    BY <1>1
  <2>3. ~(-1 = 0)
    BY SMT
  <2> QED BY <2>1, <2>2, <2>3
<1> QED BY <1>1, <1>4, <1>5, <1>6, <1>9, <1>10, <1>11

\* Every step leaves the replay right.
LEMMA StepReplays == ReplayExact /\ [Next]_vars => ReplayExact'
<1> SUFFICES ASSUME ReplayExact, [Next]_vars PROVE ReplayExact'
  OBVIOUS
<1>20. \A i, n : Result(i, n).mem = n
  BY DEF Result
<1>1. CASE on_cmd_order_put_limit
  <2>1. PICK u \in Users, r \in Rows :
          Handled(market_put_limit_order(mem, u, r), Request("limit_order", u, <<>>, <<r>>))
    BY <1>1 DEF on_cmd_order_put_limit
  <2>2. PICK op, res : op = Request("limit_order", u, <<>>, <<r>>) /\ res = market_put_limit_order(mem, u, r)
    OBVIOUS
  <2>3. op.method = "limit_order"
    BY <2>2 DEF Request
  <2>4. Replays(res, op)
    BY <2>3, Loaded DEF Replays
  <2> QED BY <2>1, <2>2, <2>4, HandledReplays
<1>2. CASE on_cmd_order_put_market
  <2>1. PICK u \in Users, r \in MarketRows :
          Handled(market_put_market_order(mem, u, r), Request("market_order", u, <<>>, <<r>>))
    BY <1>2 DEF on_cmd_order_put_market
  <2>2. PICK op, res : op = Request("market_order", u, <<>>, <<r>>) /\ res = market_put_market_order(mem, u, r)
    OBVIOUS
  <2>3. op.method = "market_order"
    BY <2>2 DEF Request
  <2>4. Replays(res, op)
    BY <2>3, Loaded DEF Replays
  <2> QED BY <2>1, <2>2, <2>4, HandledReplays
<1>3. CASE on_cmd_order_put_limit_batch
  <2>1. PICK u \in Users, rows \in BoundedSeq(Rows, BatchMax) :
          Handled(Result(0, PutEach(mem, u, rows)), Request("limit_order_batch", u, <<>>, rows))
    BY <1>3 DEF on_cmd_order_put_limit_batch
  <2>2. PICK op, res : op = Request("limit_order_batch", u, <<>>, rows) /\ res = Result(0, PutEach(mem, u, rows))
    OBVIOUS
  <2>3. op.method = "limit_order_batch" /\ op.user = u /\ op.rows = rows
    BY <2>2 DEF Request
  <2>4. res.mem = PutEach(mem, op.user, op.rows)
    BY <2>2, <2>3, <1>20
  <2>5. Replays(res, op)
    BY <2>3, <2>4, Loaded DEF Replays
  <2> QED BY <2>1, <2>2, <2>5, HandledReplays
<1>4. CASE on_cmd_order_update_limit
  <2>1. PICK u \in Users, id \in 1..MaxOrders, r \in Rows :
          Handled(IF CancelOther(mem, u, id).crashed THEN Result(0, CancelOther(mem, u, id))
                  ELSE market_put_limit_order(CancelOther(mem, u, id), u, r),
                  Request("update_limit_order", u, <<id>>, <<r>>))
    BY <1>4 DEF on_cmd_order_update_limit
  <2>2. PICK op, m, res :
          /\ op = Request("update_limit_order", u, <<id>>, <<r>>)
          /\ m = CancelOther(mem, u, id)
          /\ res = IF m.crashed THEN Result(0, m) ELSE market_put_limit_order(m, u, r)
    OBVIOUS
  <2>3. op.method = "update_limit_order" /\ op.user = u /\ op.ids[1] = id /\ op.rows[1] = r
    BY <2>2 DEF Request
  <2>4. ~res.mem.crashed => res = load_update_limit_order(mem, op)
    BY <2>2, <2>3, <1>20 DEF load_update_limit_order
  <2>5. Replays(res, op)
    BY <2>3, <2>4, Loaded DEF Replays
  <2> QED BY <2>1, <2>2, <2>5, HandledReplays
<1>5. CASE on_cmd_order_update_limit_batch
  <2>1. PICK u \in Users, ids \in BoundedSeq(1..MaxOrders, 1), rows \in BoundedSeq(Rows, BatchMax) :
          Handled(Result(0, PutEach(CancelEach(mem, u, ids), u, rows)),
                  Request("update_limit_order_batch", u, ids, rows))
    BY <1>5 DEF on_cmd_order_update_limit_batch
  <2>2. PICK op, res :
          /\ op = Request("update_limit_order_batch", u, ids, rows)
          /\ res = Result(0, PutEach(CancelEach(mem, u, ids), u, rows))
    OBVIOUS
  <2>3. op.method = "update_limit_order_batch" /\ op.user = u /\ op.ids = ids /\ op.rows = rows
    BY <2>2 DEF Request
  <2>4. res = load_update_limit_order_batch(mem, op)
    BY <2>2, <2>3 DEF load_update_limit_order_batch
  <2>5. Replays(res, op)
    BY <2>3, <2>4, Loaded DEF Replays
  <2> QED BY <2>1, <2>2, <2>5, HandledReplays
<1>6. CASE on_cmd_order_cancel
  <2>1. PICK u \in Users, id \in DOMAIN mem.orders :
          Handled(market_cancel_order(mem, id), Request("cancel_order", u, <<id>>, <<>>))
    BY <1>6 DEF on_cmd_order_cancel
  <2>2. PICK op, res : op = Request("cancel_order", u, <<id>>, <<>>) /\ res = market_cancel_order(mem, id)
    OBVIOUS
  <2>3. op.method = "cancel_order" /\ op.ids[1] = id
    BY <2>2 DEF Request
  <2>4. res = load_cancel_order(mem, op)
    BY <2>2, <2>3 DEF load_cancel_order
  <2>5. Replays(res, op)
    BY <2>3, <2>4, Loaded DEF Replays
  <2> QED BY <2>1, <2>2, <2>5, HandledReplays
<1>7. CASE on_cmd_order_cancel_batch
  <2>1. PICK u \in Users, all \in BOOLEAN, ids \in BoundedSeq(1..MaxOrders, BatchMax) :
          LET op == [Request("cancel_order_batch", u, ids, <<>>) EXCEPT !.all = all]
          IN  Handled(Result(0, CancelEach(mem, u, IdsOf(mem, op))), op)
    BY <1>7 DEF on_cmd_order_cancel_batch
  <2>2. PICK op, res :
          /\ op = [Request("cancel_order_batch", u, ids, <<>>) EXCEPT !.all = all]
          /\ res = Result(0, CancelEach(mem, u, IdsOf(mem, op)))
    OBVIOUS
  <2>3. op.method = "cancel_order_batch" /\ op.user = u
    BY <2>2 DEF Request
  <2>4. res.mem = CancelEach(mem, op.user, IdsOf(mem, op))
    BY <2>2, <2>3, <1>20
  <2>5. Replays(res, op)
    BY <2>3, <2>4, Loaded DEF Replays
  <2>6. Handled(res, op)
    BY <2>1, <2>2
  <2> QED BY <2>5, <2>6, HandledReplays
<1>8. CASE on_cmd_market_add_market
  BY <1>8 DEF on_cmd_market_add_market, ReplayExact
<1>9. CASE Restart
  BY <1>9 DEF Restart, ReplayExact
<1>10. CASE UNCHANGED vars
  BY <1>10 DEF vars, ReplayExact
<1> QED BY <1>1, <1>2, <1>3, <1>4, <1>5, <1>6, <1>7, <1>8, <1>9, <1>10 DEF Next

\* A process that replays the log (load_oper of me_load.c), if it can, comes to the state of
\* the process that wrote it, but for what was done and not logged: the same accounts, orders,
\* ids and places in the lists.  Nothing of the accounts or lists is needed for it but that the
\* replay calls what the handlers of me_server.c call, in the same order, and that a log with
\* limit_order or market_order cannot be replayed.
THEOREM ReplayIsExact == Spec => []ReplayExact
<1>1. Init => ReplayExact
  BY DEF Init, ReplayExact
<1> QED BY <1>1, StepReplays, PTL DEF Spec
==============================================================================
