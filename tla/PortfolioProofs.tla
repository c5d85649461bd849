--------------------------- MODULE PortfolioProofs ---------------------------
(***************************************************************************)
(* Whatever receipt of its schema reaches the reducer, a sound portfolio   *)
(* stays sound, and what the adapters answer are receipts of that schema.  *)
(*                                                                         *)
(* Each branch of the reducer is shown to be explained: rows keep their    *)
(* types, and the value of the book less its profit falls by exactly the   *)
(* gap the branch names.  The costs then account for that gap, for what    *)
(* they take from cash and for what stays owed, and the history counts the *)
(* operation once.                                                         *)
(*                                                                         *)
(* Last, what a counted receipt leaves behind (Counted), and the receipts  *)
(* that a portfolio can only refuse for want of money, time or integers    *)
(* (MatchFits): those that find there what they move, at the right price.  *)
(***************************************************************************)
EXTENDS MarketAdapters, SumTheorems

LEMMA Product == \A m, n \in Nat : m * n \in Nat
OBVIOUS

(* Rows with an amount: their sum follows a row more or less. *)
Priced(rows) == IsFiniteSet(rows) /\ \A x \in rows : x.amount \in Nat

LEMMA AmountsType ==
  ASSUME NEW rows, Priced(rows)
  PROVE  /\ Amounts(rows) \in Nat
         /\ rows = {} => Amounts(rows) = 0
<1> DEFINE f == [x \in rows |-> x.amount]
<1>1. f \in [rows -> Nat] /\ f \in [rows -> Int]
  BY DEF Priced
<1>2. Amounts(rows) = SumFunction(f) /\ IsFiniteSet(rows)
  BY DEF Amounts, Priced
<1> HIDE DEF f
<1>3. SumFunction(f) \in Nat
  BY <1>1, <1>2, SumNat
<1>4. rows = {} => SumFunction(f) = 0
  BY <1>1, SumEmpty
<1> QED BY <1>2, <1>3, <1>4

LEMMA AmountsWithout ==
  ASSUME NEW rows, Priced(rows), NEW x \in rows
  PROVE  Priced(rows \ {x}) /\ Amounts(rows \ {x}) = Amounts(rows) - x.amount
<1> DEFINE f == [y \in rows |-> y.amount]
           g == [y \in rows \ {x} |-> y.amount]
<1>1. /\ f \in [rows -> Int] /\ g \in [rows \ {x} -> Int]
      /\ f[x] = x.amount /\ \A y \in rows \ {x} : g[y] = f[y]
      /\ IsFiniteSet(rows) /\ IsFiniteSet(rows \ {x})
  BY FS_RemoveElement DEF Priced
<1>2. Amounts(rows) = SumFunction(f) /\ Amounts(rows \ {x}) = SumFunction(g)
  BY DEF Amounts
<1>3. x.amount \in Nat /\ Priced(rows \ {x})
  BY <1>1 DEF Priced
<1> HIDE DEF f, g
<1>4. SumFunction(f) = f[x] + SumFunction(g) /\ SumFunction(f) \in Int /\ SumFunction(g) \in Int
  BY <1>1, SumWithout, SumType
<1>5. Amounts(rows) = x.amount + Amounts(rows \ {x}) /\ Amounts(rows) \in Int /\ Amounts(rows \ {x}) \in Int
  BY <1>1, <1>2, <1>4
<1> QED BY <1>3, <1>5

LEMMA AmountsWith ==
  ASSUME NEW rows, Priced(rows), NEW x, x \notin rows, x.amount \in Nat
  PROVE  Priced(rows \cup {x}) /\ Amounts(rows \cup {x}) = Amounts(rows) + x.amount
<1>1. Priced(rows \cup {x}) /\ (rows \cup {x}) \ {x} = rows
  BY FS_AddElement DEF Priced
<1>2. Amounts(rows) = Amounts(rows \cup {x}) - x.amount
  <2> DEFINE more == rows \cup {x}
  <2>1. x \in more /\ Priced(more) /\ more \ {x} = rows
    BY <1>1
  <2> HIDE DEF more
  <2>2. Amounts(more \ {x}) = Amounts(more) - x.amount
    BY <2>1, AmountsWithout
  <2>3. Amounts(rows) = Amounts(more) - x.amount
    BY <2>1, <2>2
  <2> QED BY <2>3 DEF more
<1>3. Amounts(rows) \in Nat /\ Amounts(rows \cup {x}) \in Nat
  BY <1>1, AmountsType
<1> QED BY <1>1, <1>2, <1>3

(* Disjoint rows add up. *)
LEMMA AmountsBoth ==
  ASSUME NEW S, Priced(S), NEW R, Priced(R), \A x \in R : x \notin S
  PROVE  Priced(S \cup R) /\ Amounts(S \cup R) = Amounts(S) + Amounts(R)
<1> DEFINE X == {T \in SUBSET R : Priced(S \cup T) /\ Amounts(S \cup T) = Amounts(S) + Amounts(T)}
<1>0. IsFiniteSet(R) /\ Amounts(S) \in Nat /\ \A T \in SUBSET R : Priced(T)
  BY FS_Subset, AmountsType DEF Priced
<1>1. {} \in X
  <2>1. Amounts({}) = 0 /\ S \cup {} = S
    BY <1>0, AmountsType
  <2>2. Priced(S \cup {}) /\ Amounts(S \cup {}) = Amounts(S) + Amounts({})
    BY <1>0, <2>1
  <2> QED BY <2>2
<1>2. ASSUME NEW T \in SUBSET R, NEW x \in R \ T, T \in X
      PROVE  T \cup {x} \in X
  <2>1. Priced(T) /\ Priced(S \cup T) /\ x \notin T /\ x \notin S \cup T /\ x.amount \in Nat
    BY <1>0, <1>2 DEF Priced
  <2>2. Amounts(T \cup {x}) = Amounts(T) + x.amount
    BY <2>1, AmountsWith
  <2>3. Priced((S \cup T) \cup {x}) /\ Amounts((S \cup T) \cup {x}) = Amounts(S \cup T) + x.amount
    <3> DEFINE U == S \cup T
    <3>1. Priced(U) /\ x \notin U
      BY <2>1
    <3> HIDE DEF U
    <3>2. Priced(U \cup {x}) /\ Amounts(U \cup {x}) = Amounts(U) + x.amount
      BY <2>1, <3>1, AmountsWith
    <3> QED BY <3>2 DEF U
  <2>4. (S \cup T) \cup {x} = S \cup (T \cup {x})
    OBVIOUS
  <2>5. Priced(S \cup (T \cup {x})) /\ Amounts(S \cup (T \cup {x})) = Amounts(S \cup T) + x.amount
    BY <2>3, <2>4
  <2>6. Amounts(T) \in Nat /\ Amounts(S \cup T) = Amounts(S) + Amounts(T)
    BY <1>2, <2>1, AmountsType
  <2>7. Amounts(S \cup (T \cup {x})) = Amounts(S) + Amounts(T \cup {x})
    BY <1>0, <2>1, <2>2, <2>5, <2>6
  <2> QED BY <2>5, <2>7
<1>3. R \in X
  <2> HIDE DEF X
  <2> QED BY <1>0, <1>1, <1>2, FiniteInduction
<1> QED BY <1>3

(* Rows renamed one to one keep their sum. *)
LEMMA AmountsAlong ==
  ASSUME NEW S, Priced(S), NEW b, b = [x \in S |-> b[x]],
         \A x, y \in S : b[x] = b[y] => x = y, \A x \in S : b[x].amount = x.amount
  PROVE  Priced({b[x] : x \in S}) /\ Amounts({b[x] : x \in S}) = Amounts(S)
<1> DEFINE R == {b[x] : x \in S}
           f == [x \in S |-> x.amount]
           g == [y \in R |-> y.amount]
<1>1. IsFiniteSet(S) /\ \A x \in S : x.amount \in Nat
  BY DEF Priced
<1>2. b \in [S -> R] /\ (\A y \in R : \E x \in S : y = b[x]) /\ \A y \in R : y.amount \in Nat
  BY <1>1
<1>3. IsFiniteSet(R)
  <2>1. b \in Surjection(S, R)
    BY <1>2 DEF Surjection
  <2> QED BY <1>1, <2>1, FS_Surjection
<1>4. /\ f \in [S -> Int] /\ g \in [R -> Int]
      /\ \A x \in S : g[b[x]] = f[x]
  BY <1>1, <1>2
<1>5. Amounts(S) = SumFunction(f) /\ Amounts(R) = SumFunction(g)
  BY DEF Amounts
<1>6. Priced(R)
  BY <1>2, <1>3 DEF Priced
<1>7. R = {b[x] : x \in S}
  OBVIOUS
<1> HIDE DEF f, g, R
<1>8. SumFunction(f) = SumFunction(g)
  BY <1>1, <1>2, <1>3, <1>4, <1>7, SumAlong
<1> QED BY <1>5, <1>6, <1>7, <1>8

-----------------------------------------------------------------------------
(* A position is worth its shares at its index, rounded down.                 *)
LEMMA FloorType ==
  ASSUME NEW a \in Nat, NEW b \in Nat, NEW d \in Nat \ {0}
  PROVE  Floor(a, b, d) \in Nat /\ (a * b) % d \in Nat
<1>1. a * b \in Nat
  BY Product
<1> DEFINE m == a * b
<1>2. \A k \in Nat : k \div d \in Nat /\ k % d \in Nat
  OBVIOUS
<1> HIDE DEF m
<1> QED BY <1>1, <1>2 DEF Floor

PositionFields == {"id", "family", "shares", "num", "den", "book", "rest", "at"}

(* The row of a position, with the book its shares and index ask for or not. *)
IsPosition(x) ==
  /\ x = [f \in PositionFields |-> x[f]]
  /\ x.shares \in Nat /\ x.num \in Nat /\ x.den \in Nat \ {0}
  /\ x.book \in Nat /\ x.rest \in Nat /\ x.at \in Nat

LEMMA RebookedIs ==
  ASSUME NEW x, IsPosition(x)
  PROVE  /\ IsPosition(Rebooked(x)) /\ Rebooked(Rebooked(x)) = Rebooked(x)
         /\ \A f \in {"id", "family", "shares", "num", "den", "at"} : Rebooked(x)[f] = x[f]
         /\ Rebooked(x).book = Floor(x.shares, x.num, x.den)
<1> DEFINE book == Floor(x.shares, x.num, x.den)
           rest == (x.shares * x.num) % x.den
           y == [x EXCEPT !.book = book, !.rest = rest]
<1>1. x = [f \in PositionFields |-> x[f]] /\ book \in Nat /\ rest \in Nat
  BY FloorType DEF IsPosition
<1>2. Rebooked(x) = y
  BY DEF Rebooked
<1> HIDE DEF book, rest
<1>3. /\ \A f \in {"id", "family", "shares", "num", "den", "at"} : y[f] = x[f]
      /\ y.book = book /\ y.rest = rest /\ y = [f \in PositionFields |-> y[f]]
  BY <1>1 DEF PositionFields
<1> HIDE DEF y
<1>4. IsPosition(y)
  BY <1>1, <1>3 DEF IsPosition
<1>5. Floor(y.shares, y.num, y.den) = book /\ (y.shares * y.num) % y.den = rest
  <2>1. y.shares = x.shares /\ y.num = x.num /\ y.den = x.den
    BY <1>3
  <2> QED BY <2>1 DEF book, rest
<1>6. Rebooked(y) = [y EXCEPT !.book = book, !.rest = rest]
  BY <1>5 DEF Rebooked
<1>7. [y EXCEPT !.book = book, !.rest = rest] = y
  BY <1>3 DEF PositionFields
<1> QED BY <1>2, <1>3, <1>4, <1>6, <1>7 DEF book

Booked(rows) == IsFiniteSet(rows) /\ \A x \in rows : x.book \in Nat
BooksOf(rows) == SumFunction([x \in rows |-> x.book])

LEMMA BooksType ==
  ASSUME NEW rows, Booked(rows)
  PROVE  BooksOf(rows) \in Nat /\ (rows = {} => BooksOf(rows) = 0)
<1> DEFINE f == [x \in rows |-> x.book]
<1>1. f \in [rows -> Nat] /\ f \in [rows -> Int] /\ BooksOf(rows) = SumFunction(f)
      /\ IsFiniteSet(rows)
  BY DEF BooksOf, Booked
<1> HIDE DEF f
<1> QED BY <1>1, SumNat, SumEmpty

LEMMA BooksWithout ==
  ASSUME NEW rows, Booked(rows), NEW x \in rows
  PROVE  BooksOf(rows \ {x}) = BooksOf(rows) - x.book
<1> DEFINE f == [y \in rows |-> y.book]
           g == [y \in rows \ {x} |-> y.book]
<1>1. /\ f \in [rows -> Int] /\ g \in [rows \ {x} -> Int]
      /\ f[x] = x.book /\ \A y \in rows \ {x} : g[y] = f[y]
      /\ IsFiniteSet(rows \ {x}) /\ IsFiniteSet(rows) /\ x \in rows
  BY FS_RemoveElement DEF Booked
<1>2. BooksOf(rows) = SumFunction(f) /\ BooksOf(rows \ {x}) = SumFunction(g)
  BY DEF BooksOf
<1> HIDE DEF f, g
<1>3. SumFunction(f) = f[x] + SumFunction(g)
  BY <1>1, SumWithout
<1>6. SumFunction(f) \in Int /\ SumFunction(g) \in Int
  BY <1>1, SumType
<1>4. BooksOf(rows) = x.book + BooksOf(rows \ {x}) /\ BooksOf(rows) \in Int /\ BooksOf(rows \ {x}) \in Int
  BY <1>1, <1>2, <1>3, <1>6
<1>5. x.book \in Nat
  BY DEF Booked
<1> QED BY <1>4, <1>5

LEMMA BooksWith ==
  ASSUME NEW rows, Booked(rows),
         NEW x, x \notin rows, x.book \in Nat
  PROVE  BooksOf(rows \cup {x}) = BooksOf(rows) + x.book
<1> DEFINE more == rows \cup {x}
<1>1. Booked(more) /\ more \ {x} = rows /\ x \in more
  BY FS_AddElement DEF Booked
<1> HIDE DEF more
<1>2. BooksOf(more \ {x}) = BooksOf(more) - x.book
  BY <1>1, BooksWithout
<1>3. BooksOf(rows) \in Nat /\ BooksOf(more) \in Nat
  BY <1>1, BooksType
<1>4. BooksOf(more) = BooksOf(rows) + x.book
  BY <1>1, <1>2, <1>3
<1> QED BY <1>4 DEF more

-----------------------------------------------------------------------------
(* The parts of a portfolio, each with what assertPortfolio says of it alone. *)
BookFields == {"version", "initial", "cash", "reservations", "positions", "receivables",
               "payables", "allowances", "costs", "pnl", "applied", "last", "closed",
               "deadline"}

IsBook(p) == p = [f \in BookFields |-> p[f]]

ReceivableFields == {"id", "message", "family", "amount", "state", "tries", "at"}

ReservationsFit(rows) == Priced(rows) /\ Distinct(rows) /\ \A x \in rows : x.family \in Family

PositionFits(x, time) == IsPosition(x) /\ x = Rebooked(x) /\ x.at <= time

PositionsFit(rows, time) ==
  IsFiniteSet(rows) /\ Distinct(rows) /\ \A x \in rows : PositionFits(x, time)

ReceivableFits(x, time) ==
  /\ x = [f \in ReceivableFields |-> x[f]]
  /\ x.amount \in Nat /\ x.family \in Family
  /\ x.tries \in Nat /\ x.tries <= DestinationAttempts /\ x.at \in Nat /\ x.at <= time

ReceivablesFit(rows, time) ==
  /\ IsFiniteSet(rows) /\ Distinct(rows)
  /\ \A x, y \in rows : x.message = y.message => x = y
  /\ \A x \in rows : ReceivableFits(x, time)

(* What every receipt keeps of the portfolio, whatever it moves. *)
Parts(p, time) ==
  /\ IsBook(p) /\ p.pnl \in Int
  /\ ReservationsFit(p.reservations) /\ PositionsFit(p.positions, time)
  /\ ReceivablesFit(p.receivables, time)
  /\ Priced(p.payables) /\ Distinct(p.payables) /\ Distinct(p.allowances)
  /\ (p.closed = None) <=> (p.deadline = None)

LEMMA PositionsPriced ==
  ASSUME NEW rows, NEW time, PositionsFit(rows, time)
  PROVE  Booked(rows) /\ BooksOf(rows) \in Nat
<1>1. Booked(rows)
  BY DEF Booked, PositionsFit, PositionFits, IsPosition
<1> QED BY <1>1, BooksType

LEMMA ReceivablesPriced ==
  ASSUME NEW rows, NEW time, ReceivablesFit(rows, time)
  PROVE  Priced(rows)
BY DEF ReceivablesFit, ReceivableFits, Priced

LEMMA TotalType ==
  ASSUME NEW cash \in [Family -> Int]
  PROVE  Total(cash) \in Int
BY SumType, ReducerAssumption DEF Total

LEMMA TotalMoved ==
  ASSUME NEW cash \in [Family -> Int], NEW f \in Family, NEW d \in Int
  PROVE  LET next == [cash EXCEPT ![f] = @ + d]
         IN  next \in [Family -> Int] /\ Total(next) = Total(cash) + d
<1> DEFINE next == [cash EXCEPT ![f] = @ + d]
<1>1. next \in [Family -> Int] /\ next[f] = cash[f] + d /\ \A g \in Family \ {f} : next[g] = cash[g]
  OBVIOUS
<1>2. cash[f] \in Int /\ IsFiniteSet(Family)
  BY ReducerAssumption
<1> HIDE DEF next
<1>3. SumFunction(next) = SumFunction(cash) - cash[f] + next[f] /\ SumFunction(cash) \in Int
  BY <1>1, <1>2, SumChange, SumType
<1>4. Total(next) = Total(cash) + d
  BY <1>1, <1>2, <1>3 DEF Total
<1> QED BY <1>1, <1>4

(* The value of a portfolio, part by part. *)
Worth(p) ==
  (Total(p.cash) + Amounts(p.reservations) + BooksOf(p.positions) + Amounts(p.receivables))
    - Amounts(p.payables)

LEMMA PartsWorth ==
  ASSUME NEW p, NEW time, Parts(p, time), p.cash \in [Family -> Int]
  PROVE  /\ GlobalBook(p) = Worth(p)
         /\ Total(p.cash) \in Int /\ Amounts(p.reservations) \in Nat
         /\ BooksOf(p.positions) \in Nat /\ Amounts(p.receivables) \in Nat
         /\ Amounts(p.payables) \in Nat
<1>1. Books(p) = BooksOf(p.positions)
  BY Zenon DEF Books, BooksOf
<1>2. /\ Priced(p.reservations) /\ Priced(p.receivables) /\ Priced(p.payables)
      /\ PositionsFit(p.positions, time)
  BY ReceivablesPriced DEF Parts, ReservationsFit
<1>3. Total(p.cash) \in Int
  BY TotalType
<1>4. Amounts(p.reservations) \in Nat /\ Amounts(p.receivables) \in Nat /\ Amounts(p.payables) \in Nat
  BY <1>2, AmountsType
<1>5. BooksOf(p.positions) \in Nat
  BY <1>2, PositionsPriced
<1>6. GlobalBook(p) = (Total(p.cash) + Amounts(p.reservations) + Books(p) + Amounts(p.receivables))
                        - Amounts(p.payables)
  BY DEF GlobalBook, Gross
<1>7. GlobalBook(p) = Worth(p)
  BY <1>1, <1>3, <1>4, <1>5, <1>6 DEF Worth
<1> QED BY <1>3, <1>4, <1>5, <1>7

(* Rows of any part: found by their id, one at most. *)
LEMMA TheOne ==
  ASSUME NEW rows, NEW id, With(rows, id) # {}
  PROVE  /\ The(rows, id) \in rows /\ The(rows, id).id = id
         /\ Distinct(rows) => With(rows, id) = {The(rows, id)}
<1>1. \E x \in rows : x.id = id
  BY DEF With
<1>2. The(rows, id) \in rows /\ The(rows, id).id = id
  BY <1>1 DEF The
<1> DEFINE one == The(rows, id)
<1> HIDE DEF one
<1>3. Distinct(rows) => With(rows, id) = {one}
  BY <1>2 DEF Distinct, With, one
<1> QED BY <1>2, <1>3 DEF one

LEMMA PositionPut ==
  ASSUME NEW rows, NEW time, PositionsFit(rows, time), NEW x, PositionFits(x, time),
         \A y \in rows : y.id # x.id
  PROVE  /\ PositionsFit(rows \cup {x}, time)
         /\ BooksOf(rows \cup {x}) = BooksOf(rows) + x.book
<1>1. x \notin rows /\ x.book \in Nat
  BY DEF PositionFits, IsPosition
<1>2. IsFiniteSet(rows \cup {x})
  BY FS_AddElement DEF PositionsFit
<1>3. Distinct(rows \cup {x})
  BY DEF Distinct, PositionsFit
<1>4. PositionsFit(rows \cup {x}, time)
  BY <1>2, <1>3 DEF PositionsFit
<1>5. Booked(rows)
  BY PositionsPriced
<1>6. BooksOf(rows \cup {x}) = BooksOf(rows) + x.book
  BY <1>1, <1>5, BooksWith
<1> QED BY <1>4, <1>6

LEMMA PositionTaken ==
  ASSUME NEW rows, NEW time, PositionsFit(rows, time), NEW x \in rows
  PROVE  /\ PositionsFit(rows \ {x}, time)
         /\ BooksOf(rows \ {x}) = BooksOf(rows) - x.book
         /\ \A y \in rows \ {x} : y.id # x.id
<1>1. Booked(rows) /\ IsFiniteSet(rows \ {x})
  BY PositionsPriced, FS_RemoveElement DEF PositionsFit
<1>2. Distinct(rows \ {x}) /\ \A y \in rows \ {x} : y.id # x.id
  BY DEF PositionsFit, Distinct
<1>3. PositionsFit(rows \ {x}, time)
  BY <1>1, <1>2 DEF PositionsFit
<1>4. BooksOf(rows \ {x}) = BooksOf(rows) - x.book
  BY <1>1, BooksWithout
<1> QED BY <1>2, <1>3, <1>4

LEMMA ReceivablePut ==
  ASSUME NEW rows, NEW time, ReceivablesFit(rows, time), NEW x, ReceivableFits(x, time),
         \A y \in rows : y.id # x.id /\ y.message # x.message
  PROVE  /\ ReceivablesFit(rows \cup {x}, time)
         /\ Amounts(rows \cup {x}) = Amounts(rows) + x.amount
<1>1. x \notin rows /\ x.amount \in Nat
  BY DEF ReceivableFits
<1>2. IsFiniteSet(rows \cup {x})
  BY FS_AddElement DEF ReceivablesFit
<1>3. Distinct(rows \cup {x}) /\ \A y, z \in rows \cup {x} : y.message = z.message => y = z
  BY DEF Distinct, ReceivablesFit
<1>4. ReceivablesFit(rows \cup {x}, time)
  BY <1>2, <1>3 DEF ReceivablesFit
<1>5. Amounts(rows \cup {x}) = Amounts(rows) + x.amount
  BY <1>1, ReceivablesPriced, AmountsWith
<1> QED BY <1>4, <1>5

LEMMA ReceivableTaken ==
  ASSUME NEW rows, NEW time, ReceivablesFit(rows, time), NEW x \in rows
  PROVE  /\ ReceivablesFit(rows \ {x}, time)
         /\ Amounts(rows \ {x}) = Amounts(rows) - x.amount
         /\ \A y \in rows \ {x} : y.id # x.id /\ y.message # x.message
<1>1. IsFiniteSet(rows \ {x})
  BY FS_RemoveElement DEF ReceivablesFit
<1>2. /\ Distinct(rows \ {x}) /\ (\A y, z \in rows \ {x} : y.message = z.message => y = z)
      /\ \A y \in rows \ {x} : y.id # x.id /\ y.message # x.message
  BY DEF ReceivablesFit, Distinct
<1>3. ReceivablesFit(rows \ {x}, time)
  BY <1>1, <1>2 DEF ReceivablesFit
<1>4. Amounts(rows \ {x}) = Amounts(rows) - x.amount
  BY ReceivablesPriced, AmountsWithout
<1> QED BY <1>2, <1>3, <1>4

LEMMA ReservationTaken ==
  ASSUME NEW rows, ReservationsFit(rows), NEW x \in rows
  PROVE  /\ ReservationsFit(rows \ {x})
         /\ Amounts(rows \ {x}) = Amounts(rows) - x.amount
         /\ x.amount \in Nat /\ x.family \in Family
<1>1. Priced(rows) /\ x.amount \in Nat /\ x.family \in Family
  BY DEF ReservationsFit, Priced
<1>2. Priced(rows \ {x}) /\ Amounts(rows \ {x}) = Amounts(rows) - x.amount
  BY <1>1, AmountsWithout
<1>3. Distinct(rows \ {x})
  BY DEF ReservationsFit, Distinct
<1>4. ReservationsFit(rows \ {x})
  BY <1>2, <1>3 DEF ReservationsFit
<1> QED BY <1>1, <1>2, <1>4

LEMMA ReservationPut ==
  ASSUME NEW rows, ReservationsFit(rows), NEW x, x.amount \in Nat, x.family \in Family,
         \A y \in rows : y.id # x.id
  PROVE  /\ ReservationsFit(rows \cup {x})
         /\ Amounts(rows \cup {x}) = Amounts(rows) + x.amount
<1>1. Priced(rows) /\ x \notin rows
  BY DEF ReservationsFit
<1>2. Priced(rows \cup {x}) /\ Amounts(rows \cup {x}) = Amounts(rows) + x.amount
  BY <1>1, AmountsWith
<1>3. Distinct(rows \cup {x})
  BY DEF ReservationsFit, Distinct
<1>4. ReservationsFit(rows \cup {x})
  BY <1>2, <1>3 DEF ReservationsFit
<1> QED BY <1>2, <1>4

LEMMA CashDebited ==
  ASSUME NEW cash \in [Family -> Int], NEW f \in Family, NEW d \in Nat
  PROVE  LET next == [cash EXCEPT ![f] = @ - d]
         IN  next \in [Family -> Int] /\ Total(next) = Total(cash) - d
<1> DEFINE e == -d
           next == [cash EXCEPT ![f] = @ + e]
<1>1. cash[f] \in Int /\ cash[f] - d = cash[f] + e /\ e \in Int
  OBVIOUS
<1>2. [cash EXCEPT ![f] = @ - d] = next
  BY <1>1
<1> HIDE DEF e
<1>3. next \in [Family -> Int] /\ Total(next) = Total(cash) + e
  BY <1>1, TotalMoved, Zenon
<1>4. Total(cash) \in Int
  BY TotalType
<1> HIDE DEF next
<1> QED BY <1>2, <1>3, <1>4 DEF e

(* What a receipt finds: a portfolio whose parts fit, at a time not past.     *)
Ready(p, r) ==
  /\ Parts(p, r.at) /\ p.cash \in [Family -> Nat] /\ p.version \in Nat /\ IsReceipt(r)

(* What it leaves before its costs are charged.                               *)
Kept(p, q, op) ==
  /\ q.version = p.version /\ q.initial = p.initial /\ q.costs = p.costs
  /\ q.applied = p.applied /\ q.last = p.last
  /\ q.payables \subseteq p.payables
  /\ \A x \in q.reservations : x \in p.reservations \/ x.op = op

Explained(p, r, m) ==
  /\ Parts(m.portfolio, r.at) /\ m.portfolio.cash \in [Family -> Int]
  /\ Kept(p, m.portfolio, r.op) /\ m.gap \in Int
  /\ GlobalBook(m.portfolio) - m.portfolio.pnl = GlobalBook(p) - p.pnl - m.gap

LEMMA ReadyFacts ==
  ASSUME NEW p, NEW r, Ready(p, r)
  PROVE  /\ Parts(p, r.at) /\ p.cash \in [Family -> Int] /\ IsBook(p) /\ p.pnl \in Int
         /\ r.at \in Nat
         /\ GlobalBook(p) = Worth(p)
         /\ Total(p.cash) \in Int /\ Amounts(p.reservations) \in Nat
         /\ BooksOf(p.positions) \in Nat /\ Amounts(p.receivables) \in Nat
         /\ Amounts(p.payables) \in Nat
<1>1. Parts(p, r.at) /\ p.cash \in [Family -> Int]
  BY DEF Ready
<1>2. IsBook(p) /\ p.pnl \in Int /\ r.at \in Nat
  BY DEF Ready, Parts, IsReceipt
<1> QED BY <1>1, <1>2, PartsWorth

LEMMA ExplainedBy ==
  ASSUME NEW p, NEW r, Ready(p, r), NEW m, NEW q, q = m.portfolio,
         Parts(q, r.at), q.cash \in [Family -> Int], Kept(p, q, r.op), m.gap \in Int,
         Worth(q) - q.pnl = Worth(p) - p.pnl - m.gap
  PROVE  Explained(p, r, m)
<1>1. GlobalBook(q) = Worth(q) /\ GlobalBook(p) = Worth(p)
  BY PartsWorth, ReadyFacts
<1> QED BY <1>1 DEF Explained

LEMMA FieldTypes ==
  ASSUME NEW r, IsReceipt(r)
  PROVE  /\ \A f \in {"family", "into"} : f \in Fields[r.kind] => r[f] \in Family
         /\ \A f \in {"amount", "credit", "shares", "num"} : f \in Fields[r.kind] => r[f] \in Nat
         /\ "den" \in Fields[r.kind] => r.den \in Nat \ {0}
         /\ r.at \in Nat /\ r.version \in Nat
<1>1. \A f \in Fields[r.kind] : Valid(r, f)
  BY DEF IsReceipt
<1>2. \A f \in {"family", "into"} : Valid(r, f) => r[f] \in Family
  BY DEF Valid
<1>3. \A f \in {"amount", "credit", "shares", "num"} : Valid(r, f) => r[f] \in Nat
  BY DEF Valid
<1>4. Valid(r, "den") => r.den \in Nat \ {0}
  BY DEF Valid
<1>5. r.at \in Nat /\ r.version \in Nat
  BY DEF IsReceipt
<1> QED BY <1>1, <1>2, <1>3, <1>4, <1>5

LEMMA NoFault == ASSUME NEW bad, NEW reason, Fault(bad, reason) = {} PROVE ~bad
BY DEF Fault

LEMMA ReserveExplained ==
  ASSUME NEW p, NEW r, Ready(p, r), r.kind = "RESERVE", Reserve(p, r).faults = {}
  PROVE  Explained(p, r, Reserve(p, r))
<1> DEFINE row == [id |-> r.id, op |-> r.op, family |-> r.family, amount |-> r.amount]
           q == [p EXCEPT !.cash[r.family] = @ - r.amount, !.reservations = @ \cup {row}]
           m == Reserve(p, r)
<1>1. m.portfolio = q /\ m.gap = 0 /\ Fault(With(p.reservations, r.id) # {}, "EXISTS") = {}
  BY DEF Reserve, Moves
<1>2. r.family \in Family /\ r.amount \in Nat
  BY FieldTypes DEF Ready, Fields
<1>3. /\ IsBook(q) /\ q.cash = [p.cash EXCEPT ![r.family] = @ - r.amount]
      /\ q.reservations = p.reservations \cup {row}
      /\ \A f \in BookFields \ {"cash", "reservations"} : q[f] = p[f]
  BY ReadyFacts DEF IsBook, BookFields
<1>4. \A x \in p.reservations : x.id # row.id
  BY <1>1, NoFault DEF With
<1>5. /\ ReservationsFit(p.reservations)
      /\ row.amount \in Nat /\ row.family \in Family /\ row.op = r.op /\ row.amount = r.amount
  BY <1>2, ReadyFacts DEF Parts
<1> HIDE DEF m, q, row
<1>6. /\ ReservationsFit(q.reservations)
      /\ Amounts(q.reservations) = Amounts(p.reservations) + r.amount
  BY <1>3, <1>4, <1>5, ReservationPut
<1>7. q.cash \in [Family -> Int] /\ Total(q.cash) = Total(p.cash) - r.amount
  BY <1>2, <1>3, ReadyFacts, CashDebited
<1>8. Parts(q, r.at)
  BY <1>3, <1>6, ReadyFacts DEF Parts, BookFields
<1>9. Kept(p, q, r.op)
  BY <1>3, <1>5 DEF Kept, BookFields
<1>10. Worth(q) - q.pnl = Worth(p) - p.pnl - m.gap
  <2>1. q.positions = p.positions /\ q.receivables = p.receivables /\ q.payables = p.payables /\ q.pnl = p.pnl
    BY <1>3 DEF BookFields
  <2> QED BY <1>1, <1>2, <1>6, <1>7, <2>1, ReadyFacts DEF Worth
<1> QED BY <1>1, <1>7, <1>8, <1>9, <1>10, ExplainedBy DEF m

LEMMA ApproveExplained ==
  ASSUME NEW p, NEW r, Ready(p, r), r.kind = "APPROVE"
  PROVE  Explained(p, r, Approve(p, r))
<1> DEFINE row == [id |-> r.id, amount |-> r.amount]
           q == [p EXCEPT !.allowances = (@ \ With(@, r.id)) \cup {row}]
           m == Approve(p, r)
<1>1. m.portfolio = q /\ m.gap = 0
  BY DEF Approve, Moves
<1>2. /\ IsBook(q) /\ q.allowances = (p.allowances \ With(p.allowances, r.id)) \cup {row}
      /\ \A f \in BookFields \ {"allowances"} : q[f] = p[f]
  BY ReadyFacts DEF IsBook, BookFields
<1>3. row.id = r.id
  OBVIOUS
<1> HIDE DEF m, q, row
<1>4. Distinct(q.allowances)
  <2>1. Distinct(p.allowances)
    BY ReadyFacts DEF Parts
  <2> QED BY <1>2, <1>3, <2>1 DEF Distinct, With
<1>5. Parts(q, r.at)
  BY <1>2, <1>4, ReadyFacts DEF Parts, BookFields
<1>6. Kept(p, q, r.op) /\ q.cash = p.cash
  BY <1>2 DEF Kept, BookFields
<1>7. Worth(q) - q.pnl = Worth(p) - p.pnl - m.gap
  <2>1. Worth(q) = Worth(p) /\ q.pnl = p.pnl
    BY <1>2 DEF Worth, BookFields
  <2> QED BY <1>1, <2>1, ReadyFacts DEF Worth
<1>8. q.cash \in [Family -> Int] /\ m.gap \in Int
  BY <1>1, <1>6, ReadyFacts
<1> QED BY <1>1, <1>5, <1>6, <1>7, <1>8, ExplainedBy DEF m

(* A position that is bought or sold a share, or accrues, is booked again.    *)
LEMMA BookedAgain ==
  ASSUME NEW x, IsPosition(x), NEW shares \in Nat, NEW num \in Nat, NEW den \in Nat \ {0},
         NEW at \in Nat, NEW y, y = [f \in PositionFields |-> y[f]],
         y.id = x.id, y.shares = shares, y.num = num, y.den = den, y.at = at,
         y.book = x.book, y.rest = x.rest
  PROVE  PositionFits(Rebooked(y), at) /\ Rebooked(y).id = x.id /\ Rebooked(y).book \in Nat
<1>1. IsPosition(y)
  BY DEF IsPosition
<1>2. /\ IsPosition(Rebooked(y)) /\ Rebooked(Rebooked(y)) = Rebooked(y)
      /\ Rebooked(y).id = x.id /\ Rebooked(y).at = at
  BY <1>1, RebookedIs
<1> DEFINE z == Rebooked(y)
<1> HIDE DEF z
<1>3. IsPosition(z) /\ Rebooked(z) = z /\ z.id = x.id /\ z.at = at
  BY <1>2 DEF z
<1>4. PositionFits(z, at) /\ z.book \in Nat
  BY <1>3 DEF PositionFits, IsPosition
<1> QED BY <1>3, <1>4 DEF z

LEMMA PositionReplaced ==
  ASSUME NEW rows, NEW time, PositionsFit(rows, time), NEW x \in rows,
         NEW y, PositionFits(y, time), y.id = x.id
  PROVE  /\ PositionsFit((rows \ {x}) \cup {y}, time)
         /\ BooksOf((rows \ {x}) \cup {y}) = BooksOf(rows) - x.book + y.book
         /\ x.book \in Nat /\ y.book \in Nat
<1> DEFINE left == rows \ {x}
<1>1. PositionsFit(left, time) /\ BooksOf(left) = BooksOf(rows) - x.book /\ \A z \in left : z.id # y.id
  BY PositionTaken
<1> HIDE DEF left
<1>2. PositionsFit(left \cup {y}, time) /\ BooksOf(left \cup {y}) = BooksOf(left) + y.book
  BY <1>1, PositionPut
<1>3. BooksOf(rows) \in Nat /\ x.book \in Nat /\ y.book \in Nat
  BY PositionsPriced DEF PositionsFit, PositionFits, IsPosition
<1>4. PositionsFit(left \cup {y}, time) /\ BooksOf(left \cup {y}) = BooksOf(rows) - x.book + y.book
  BY <1>1, <1>2, <1>3
<1> QED BY <1>3, <1>4 DEF left

LEMMA DepositExplained ==
  ASSUME NEW p, NEW r, Ready(p, r), r.kind = "DEPOSIT", Deposit(p, r).faults = {}
  PROVE  Explained(p, r, Deposit(p, r))
<1> DEFINE held == With(p.positions, r.position)
           before == IF held # {} THEN The(held, r.position)
                     ELSE [id |-> r.position, family |-> r.family, shares |-> 0,
                           num |-> r.num, den |-> r.den, book |-> 0, rest |-> 0, at |-> r.at]
           more == [before EXCEPT !.shares = @ + r.shares, !.at = r.at]
           after == Rebooked(more)
           q == [p EXCEPT !.cash[r.family] = @ - r.amount, !.positions = (@ \ held) \cup {after}]
           m == Deposit(p, r)
<1>1. m.portfolio = q /\ m.gap = r.amount - (after.book - before.book)
  BY DEF Deposit, Moves
<1>2. /\ r.family \in Family /\ r.amount \in Nat /\ r.shares \in Nat /\ r.num \in Nat
      /\ r.den \in Nat \ {0} /\ r.at \in Nat
  BY FieldTypes DEF Ready, Fields
<1>3. PositionsFit(p.positions, r.at)
  BY ReadyFacts DEF Parts
<1>4. /\ IsBook(q) /\ q.cash = [p.cash EXCEPT ![r.family] = @ - r.amount]
      /\ q.positions = (p.positions \ held) \cup {after}
      /\ \A f \in BookFields \ {"cash", "positions"} : q[f] = p[f]
  <2> HIDE DEF after, held
  <2> QED BY ReadyFacts DEF IsBook, BookFields
<1>5. IsPosition(before) /\ before.id = r.position
      /\ (held # {} => before \in p.positions /\ held = {before}) /\ (held = {} => before.book = 0)
  <2>1. CASE held # {}
    <3>1. With(held, r.position) # {} /\ Distinct(held)
      BY <1>3, <2>1 DEF With, PositionsFit, Distinct
    <3> DEFINE x == The(held, r.position)
    <3>2. x \in held /\ x.id = r.position /\ held = {x}
      BY <3>1, TheOne DEF With
    <3>3. before = x
      BY <2>1
    <3> HIDE DEF x, before
    <3>4. x \in p.positions
      BY <3>2 DEF With
    <3>5. IsPosition(x)
      BY <1>3, <3>4 DEF PositionsFit, PositionFits
    <3> QED BY <2>1, <3>2, <3>3, <3>4, <3>5
  <2>2. CASE held = {}
    <3>1. before = [id |-> r.position, family |-> r.family, shares |-> 0,
                    num |-> r.num, den |-> r.den, book |-> 0, rest |-> 0, at |-> r.at]
      BY <2>2
    <3> HIDE DEF before
    <3>2. before = [f \in PositionFields |-> before[f]]
      BY <3>1 DEF PositionFields
    <3>3. IsPosition(before) /\ before.id = r.position /\ before.book = 0
      BY <1>2, <3>1, <3>2 DEF IsPosition
    <3> QED BY <2>2, <3>3
  <2> QED BY <2>1, <2>2
<1>6. PositionFits(after, r.at) /\ after.id = r.position /\ after.book \in Nat
  <2> HIDE DEF before
  <2>1. /\ more = [f \in PositionFields |-> more[f]] /\ more.shares = before.shares + r.shares
        /\ more.id = before.id /\ more.num = before.num /\ more.den = before.den
        /\ more.at = r.at /\ more.book = before.book /\ more.rest = before.rest
    BY <1>5 DEF IsPosition, PositionFields
  <2>2. before.shares + r.shares \in Nat /\ before.num \in Nat /\ before.den \in Nat \ {0}
    BY <1>2, <1>5 DEF IsPosition
  <2> HIDE DEF more
  <2> DEFINE shares == before.shares + r.shares
             num == before.num
             den == before.den
  <2>3. /\ shares \in Nat /\ num \in Nat /\ den \in Nat \ {0}
        /\ more.shares = shares /\ more.num = num /\ more.den = den
    BY <2>1, <2>2
  <2> HIDE DEF shares, num, den
  <2>4. PositionFits(Rebooked(more), r.at) /\ Rebooked(more).id = before.id /\ Rebooked(more).book \in Nat
    BY <1>2, <1>5, <2>1, <2>3, BookedAgain
  <2> QED BY <1>5, <2>4
<1> HIDE DEF m, q, after, before, held, more
<1>7. before.book \in Nat
  BY <1>5 DEF IsPosition
<1>8. /\ PositionsFit(q.positions, r.at)
      /\ BooksOf(q.positions) = BooksOf(p.positions) - before.book + after.book
  <2>1. CASE held # {}
    <3>1. held = {before} /\ before \in p.positions
      BY <1>5, <2>1
    <3>2. /\ PositionsFit((p.positions \ {before}) \cup {after}, r.at)
          /\ BooksOf((p.positions \ {before}) \cup {after})
                = BooksOf(p.positions) - before.book + after.book
      BY <1>3, <1>5, <1>6, <3>1, PositionReplaced
    <3> QED BY <1>4, <3>1, <3>2
  <2>2. CASE held = {}
    <3>1. \A x \in p.positions : x.id # after.id
      BY <1>6, <2>2 DEF held, With
    <3>2. /\ PositionsFit(p.positions \cup {after}, r.at)
          /\ BooksOf(p.positions \cup {after}) = BooksOf(p.positions) + after.book
      BY <1>3, <1>6, <3>1, PositionPut
    <3>3. p.positions \ held = p.positions /\ before.book = 0 /\ BooksOf(p.positions) \in Nat
      BY <1>5, <2>2, ReadyFacts
    <3>4. q.positions = p.positions \cup {after}
      BY <1>4, <3>3
    <3>5. BooksOf(q.positions) = BooksOf(p.positions) + after.book /\ PositionsFit(q.positions, r.at)
      BY <3>2, <3>4
    <3> QED BY <1>6, <3>3, <3>5
  <2> QED BY <2>1, <2>2
<1>9. q.cash \in [Family -> Int] /\ Total(q.cash) = Total(p.cash) - r.amount
  BY <1>2, <1>4, ReadyFacts, CashDebited
<1>10. Parts(q, r.at)
  BY <1>4, <1>8, ReadyFacts DEF Parts, BookFields
<1>11. Kept(p, q, r.op)
  BY <1>4 DEF Kept, BookFields
<1>12. m.gap \in Int /\ Worth(q) - q.pnl = Worth(p) - p.pnl - m.gap
  <2>1. /\ q.reservations = p.reservations /\ q.receivables = p.receivables
        /\ q.payables = p.payables /\ q.pnl = p.pnl
    BY <1>4 DEF BookFields
  <2>2. m.gap \in Int
    BY <1>1, <1>2, <1>6, <1>7
  <2> QED BY <1>1, <1>2, <1>6, <1>7, <1>8, <1>9, <2>1, <2>2, ReadyFacts DEF Worth
<1> QED BY <1>1, <1>9, <1>10, <1>11, <1>12, ExplainedBy DEF m

LEMMA WithdrawExplained ==
  ASSUME NEW p, NEW r, Ready(p, r), r.kind = "WITHDRAW", Withdraw(p, r).faults = {}
  PROVE  Explained(p, r, Withdraw(p, r))
<1> DEFINE before == The(p.positions, r.position)
           less == [before EXCEPT !.shares = @ - r.shares, !.at = r.at]
           after == Rebooked(less)
           put == IF after.shares = 0 THEN {} ELSE {after}
           debit == BookDebit(before, after)
           q == [p EXCEPT !.cash[r.family] = @ + r.amount,
                          !.positions = (@ \ {before}) \cup put]
           m == Withdraw(p, r)
<1>1. With(p.positions, r.position) # {}
  BY DEF Withdraw, Refuses, Moves
<1>2. /\ m.portfolio = q /\ m.gap = debit - r.amount
      /\ Fault(r.shares > before.shares, "SHARES") = {}
  BY <1>1 DEF Withdraw, Moves
<1>3. r.family \in Family /\ r.amount \in Nat /\ r.shares \in Nat /\ r.at \in Nat
  BY FieldTypes DEF Ready, Fields
<1>4. PositionsFit(p.positions, r.at)
  BY ReadyFacts DEF Parts
<1>5. before \in p.positions
  BY <1>1, TheOne
<1>6. IsPosition(before) /\ before.shares - r.shares \in Nat /\ before.book \in Nat
  <2>1. IsPosition(before)
    BY <1>4, <1>5 DEF PositionsFit, PositionFits
  <2>2. ~ (r.shares > before.shares)
    BY <1>2, NoFault
  <2> HIDE DEF before
  <2> QED BY <1>3, <2>1, <2>2 DEF IsPosition
<1>7. PositionFits(after, r.at) /\ after.id = before.id /\ after.book \in Nat
  <2> HIDE DEF before
  <2>1. /\ less = [f \in PositionFields |-> less[f]] /\ less.shares = before.shares - r.shares
        /\ less.id = before.id /\ less.num = before.num /\ less.den = before.den
        /\ less.at = r.at /\ less.book = before.book /\ less.rest = before.rest
    BY <1>6 DEF IsPosition, PositionFields
  <2> HIDE DEF less
  <2> DEFINE shares == before.shares - r.shares
             num == before.num
             den == before.den
  <2>3. /\ shares \in Nat /\ num \in Nat /\ den \in Nat \ {0}
        /\ less.shares = shares /\ less.num = num /\ less.den = den
    BY <1>6, <2>1 DEF IsPosition
  <2> HIDE DEF shares, num, den
  <2>4. /\ PositionFits(Rebooked(less), r.at) /\ Rebooked(less).id = before.id
        /\ Rebooked(less).book \in Nat
    BY <1>3, <1>6, <2>1, <2>3, BookedAgain
  <2> QED BY <2>4
<1> HIDE DEF after, less
<1>8. after.shares = 0 => after.book = 0
  <2>1. IsPosition(after) /\ after = Rebooked(after)
    BY <1>7 DEF PositionFits
  <2>2. after.book = Floor(after.shares, after.num, after.den)
    BY <2>1, RebookedIs
  <2>3. \A n \in Nat : \A d \in Nat \ {0} : Floor(0, n, d) = 0
    BY DEF Floor
  <2> QED BY <2>1, <2>2, <2>3 DEF IsPosition
<1>9. /\ IsBook(q) /\ q.cash = [p.cash EXCEPT ![r.family] = @ + r.amount]
      /\ q.positions = (p.positions \ {before}) \cup put
      /\ \A f \in BookFields \ {"cash", "positions"} : q[f] = p[f]
  <2> HIDE DEF before, put
  <2> QED BY ReadyFacts DEF IsBook, BookFields
<1> HIDE DEF m, q, before
<1>10. /\ PositionsFit(q.positions, r.at)
       /\ BooksOf(q.positions) = BooksOf(p.positions) - before.book + after.book
  <2>1. CASE after.shares = 0
    <3>1. q.positions = p.positions \ {before} /\ after.book = 0
      BY <1>8, <1>9, <2>1
    <3>2. /\ PositionsFit(p.positions \ {before}, r.at)
          /\ BooksOf(p.positions \ {before}) = BooksOf(p.positions) - before.book
      BY <1>4, <1>5, PositionTaken
    <3>3. BooksOf(q.positions) = BooksOf(p.positions) - before.book /\ BooksOf(p.positions) \in Nat
      BY <3>1, <3>2, ReadyFacts
    <3> QED BY <1>6, <3>1, <3>2, <3>3
  <2>2. CASE after.shares # 0
    <3>1. q.positions = (p.positions \ {before}) \cup {after}
      BY <1>9, <2>2
    <3>2. /\ PositionsFit((p.positions \ {before}) \cup {after}, r.at)
          /\ BooksOf((p.positions \ {before}) \cup {after})
                = BooksOf(p.positions) - before.book + after.book
      BY <1>4, <1>5, <1>7, PositionReplaced
    <3> QED BY <3>1, <3>2
  <2> QED BY <2>1, <2>2
<1>11. q.cash \in [Family -> Int] /\ Total(q.cash) = Total(p.cash) + r.amount
  <2>1. r.amount \in Int
    BY <1>3
  <2> QED BY <1>3, <1>9, <2>1, ReadyFacts, TotalMoved
<1>12. Parts(q, r.at)
  BY <1>9, <1>10, ReadyFacts DEF Parts, BookFields
<1>13. Kept(p, q, r.op)
  BY <1>9 DEF Kept, BookFields
<1>14. m.gap \in Int /\ Worth(q) - q.pnl = Worth(p) - p.pnl - m.gap
  <2>1. /\ q.reservations = p.reservations /\ q.receivables = p.receivables
        /\ q.payables = p.payables /\ q.pnl = p.pnl
    BY <1>9 DEF BookFields
  <2>2. m.gap = before.book - after.book - r.amount /\ m.gap \in Int
    BY <1>2, <1>3, <1>6, <1>7 DEF BookDebit
  <2> QED BY <1>3, <1>6, <1>7, <1>10, <1>11, <2>1, <2>2, ReadyFacts DEF Worth
<1> QED BY <1>2, <1>11, <1>12, <1>13, <1>14, ExplainedBy DEF m

LEMMA AccrueExplained ==
  ASSUME NEW p, NEW r, Ready(p, r), r.kind = "ACCRUE", Accrue(p, r).faults = {}
  PROVE  Explained(p, r, Accrue(p, r))
<1> DEFINE before == The(p.positions, r.position)
           next == [before EXCEPT !.num = r.num, !.den = r.den, !.at = r.at]
           after == Rebooked(next)
           q == [p EXCEPT !.positions = (@ \ {before}) \cup {after},
                          !.pnl = @ + (after.book - before.book)]
           m == Accrue(p, r)
<1>1. With(p.positions, r.position) # {} /\ Fits(r.num) /\ Fits(r.den)
  BY DEF Accrue, Refuses, Moves
<1>2. m.portfolio = q /\ m.gap = 0
  BY <1>1 DEF Accrue, Moves
<1>3. r.num \in Nat /\ r.den \in Nat \ {0} /\ r.at \in Nat
  BY FieldTypes DEF Ready, Fields
<1>4. PositionsFit(p.positions, r.at)
  BY ReadyFacts DEF Parts
<1>5. before \in p.positions
  BY <1>1, TheOne
<1>6. IsPosition(before) /\ before.book \in Nat
  <2>1. IsPosition(before)
    BY <1>4, <1>5 DEF PositionsFit, PositionFits
  <2> HIDE DEF before
  <2> QED BY <2>1 DEF IsPosition
<1>7. PositionFits(after, r.at) /\ after.id = before.id /\ after.book \in Nat
  <2> HIDE DEF before
  <2>1. /\ next = [f \in PositionFields |-> next[f]] /\ next.shares = before.shares
        /\ next.id = before.id /\ next.num = r.num /\ next.den = r.den
        /\ next.at = r.at /\ next.book = before.book /\ next.rest = before.rest
    BY <1>6 DEF IsPosition, PositionFields
  <2> HIDE DEF next
  <2> DEFINE shares == before.shares
             num == r.num
             den == r.den
  <2>3. /\ shares \in Nat /\ num \in Nat /\ den \in Nat \ {0}
        /\ next.shares = shares /\ next.num = num /\ next.den = den
    BY <1>3, <1>6, <2>1 DEF IsPosition
  <2> HIDE DEF shares, num, den
  <2>4. /\ PositionFits(Rebooked(next), r.at) /\ Rebooked(next).id = before.id
        /\ Rebooked(next).book \in Nat
    BY <1>3, <1>6, <2>1, <2>3, BookedAgain
  <2> QED BY <2>4
<1>9. /\ IsBook(q) /\ q.pnl = p.pnl + (after.book - before.book)
      /\ q.positions = (p.positions \ {before}) \cup {after}
      /\ \A f \in BookFields \ {"pnl", "positions"} : q[f] = p[f]
  <2> HIDE DEF before, after
  <2> QED BY ReadyFacts DEF IsBook, BookFields
<1> HIDE DEF m, q, before, after, next
<1>10. /\ PositionsFit(q.positions, r.at)
       /\ BooksOf(q.positions) = BooksOf(p.positions) - before.book + after.book
  <2>2. /\ PositionsFit((p.positions \ {before}) \cup {after}, r.at)
        /\ BooksOf((p.positions \ {before}) \cup {after})
              = BooksOf(p.positions) - before.book + after.book
    BY <1>4, <1>5, <1>7, PositionReplaced
  <2> QED BY <1>9, <2>2
<1>11. q.pnl \in Int
  BY <1>6, <1>7, <1>9, ReadyFacts
<1>12. Parts(q, r.at)
  BY <1>9, <1>10, <1>11, ReadyFacts DEF Parts, BookFields
<1>13. Kept(p, q, r.op) /\ q.cash = p.cash
  BY <1>9 DEF Kept, BookFields
<1>14. Worth(q) - q.pnl = Worth(p) - p.pnl - m.gap
  <2>1. /\ q.reservations = p.reservations /\ q.receivables = p.receivables
        /\ q.payables = p.payables
    BY <1>9 DEF BookFields
  <2> QED BY <1>2, <1>6, <1>7, <1>9, <1>10, <1>13, <2>1, ReadyFacts DEF Worth
<1>15. q.cash \in [Family -> Int] /\ m.gap \in Int
  BY <1>2, <1>13, ReadyFacts
<1> QED BY <1>2, <1>12, <1>13, <1>14, <1>15, ExplainedBy DEF m

LEMMA SwapExplained ==
  ASSUME NEW p, NEW r, Ready(p, r), r.kind = "SWAP"
  PROVE  Explained(p, r, Swap(p, r))
<1> DEFINE paid == [p EXCEPT !.cash[r.family] = @ - r.amount]
           q == [paid EXCEPT !.cash[r.into] = @ + r.credit]
           m == Swap(p, r)
<1>1. m.portfolio = q /\ m.gap = r.amount - r.credit
  BY DEF Swap, Moves
<1>2. r.family \in Family /\ r.into \in Family /\ r.amount \in Nat /\ r.credit \in Nat
  BY FieldTypes DEF Ready, Fields
<1>3. /\ IsBook(paid) /\ paid.cash = [p.cash EXCEPT ![r.family] = @ - r.amount]
      /\ \A f \in BookFields \ {"cash"} : paid[f] = p[f]
  BY ReadyFacts DEF IsBook, BookFields
<1> HIDE DEF paid
<1>4. paid.cash \in [Family -> Int] /\ Total(paid.cash) = Total(p.cash) - r.amount
  BY <1>2, <1>3, ReadyFacts, CashDebited
<1>5. /\ IsBook(q) /\ q.cash = [paid.cash EXCEPT ![r.into] = @ + r.credit]
      /\ \A f \in BookFields \ {"cash"} : q[f] = p[f]
  BY <1>3 DEF IsBook, BookFields
<1> HIDE DEF m, q
<1>9. q.cash \in [Family -> Int] /\ Total(q.cash) = Total(paid.cash) + r.credit
  <2>1. r.credit \in Int
    BY <1>2
  <2> QED BY <1>2, <1>4, <1>5, <2>1, TotalMoved
<1>6. Parts(q, r.at)
  BY <1>5, ReadyFacts DEF Parts, BookFields
<1>7. Kept(p, q, r.op)
  BY <1>5 DEF Kept, BookFields
<1>8. m.gap \in Int /\ Worth(q) - q.pnl = Worth(p) - p.pnl - m.gap
  <2>1. /\ q.reservations = p.reservations /\ q.receivables = p.receivables
        /\ q.payables = p.payables /\ q.pnl = p.pnl /\ q.positions = p.positions
    BY <1>5 DEF BookFields
  <2> QED BY <1>1, <1>2, <1>4, <1>9, <2>1, ReadyFacts DEF Worth
<1> QED BY <1>1, <1>9, <1>6, <1>7, <1>8, ExplainedBy DEF m

LEMMA PayableExplained ==
  ASSUME NEW p, NEW r, Ready(p, r), r.kind = "PAYABLE_SETTLED", SettlePayable(p, r).faults = {}
  PROVE  Explained(p, r, SettlePayable(p, r))
<1> DEFINE due == The(p.payables, r.id)
           q == [p EXCEPT !.cash[r.family] = @ - due.amount, !.payables = @ \ {due}]
           m == SettlePayable(p, r)
<1>1. With(p.payables, r.id) # {}
  BY DEF SettlePayable, Refuses, Moves
<1>2. m.portfolio = q /\ m.gap = 0
  BY <1>1 DEF SettlePayable, Moves
<1>3. r.family \in Family
  BY FieldTypes DEF Ready, Fields
<1>4. Priced(p.payables) /\ Distinct(p.payables)
  BY ReadyFacts DEF Parts
<1>5. due \in p.payables /\ due.amount \in Nat
  BY <1>1, <1>4, TheOne DEF Priced
<1>6. /\ IsBook(q) /\ q.cash = [p.cash EXCEPT ![r.family] = @ - due.amount]
      /\ q.payables = p.payables \ {due}
      /\ \A f \in BookFields \ {"cash", "payables"} : q[f] = p[f]
  <2> HIDE DEF due
  <2> QED BY ReadyFacts DEF IsBook, BookFields
<1> HIDE DEF m, q, due
<1>7. /\ Priced(q.payables) /\ Distinct(q.payables)
      /\ Amounts(q.payables) = Amounts(p.payables) - due.amount
  <2>1. Priced(q.payables) /\ Amounts(q.payables) = Amounts(p.payables) - due.amount
    BY <1>4, <1>5, <1>6, AmountsWithout
  <2> QED BY <1>4, <1>6, <2>1 DEF Distinct
<1>8. q.cash \in [Family -> Int] /\ Total(q.cash) = Total(p.cash) - due.amount
  BY <1>3, <1>5, <1>6, ReadyFacts, CashDebited
<1>9. Parts(q, r.at)
  BY <1>6, <1>7, ReadyFacts DEF Parts, BookFields
<1>10. Kept(p, q, r.op)
  BY <1>6 DEF Kept, BookFields
<1>11. Worth(q) - q.pnl = Worth(p) - p.pnl - m.gap
  <2>1. /\ q.reservations = p.reservations /\ q.receivables = p.receivables
        /\ q.pnl = p.pnl /\ q.positions = p.positions
    BY <1>6 DEF BookFields
  <2> QED BY <1>2, <1>5, <1>7, <1>8, <2>1, ReadyFacts DEF Worth
<1>12. m.gap \in Int
  BY <1>2
<1> QED BY <1>2, <1>8, <1>9, <1>10, <1>11, <1>12, ExplainedBy DEF m

LEMMA BurnExplained ==
  ASSUME NEW p, NEW r, Ready(p, r), r.kind = "TRANSFER_BURNED", Burn(p, r).faults = {}
  PROVE  Explained(p, r, Burn(p, r))
<1> DEFINE held == The(p.reservations, r.reservation)
           row == [id |-> r.id, message |-> r.message, family |-> r.family, amount |-> r.amount,
                   state |-> "IN_TRANSIT", tries |-> 0, at |-> r.at]
           q == [p EXCEPT !.reservations = @ \ {held}, !.receivables = @ \cup {row}]
           m == Burn(p, r)
<1>1. With(p.reservations, r.reservation) # {}
  BY DEF Burn, Refuses, Moves
<1>2. /\ m.portfolio = q /\ m.gap = held.amount - r.amount
      /\ Fault(\E x \in p.receivables : x.id = r.id \/ x.message = r.message, "EXISTS") = {}
  BY <1>1 DEF Burn, Moves
<1>3. r.family \in Family /\ r.amount \in Nat /\ r.at \in Nat
  BY FieldTypes DEF Ready, Fields
<1>4. /\ ReceivableFits(row, r.at) /\ row.amount = r.amount
      /\ \A x \in p.receivables : x.id # row.id /\ x.message # row.message
  <2>1. \A x \in p.receivables : x.id # r.id /\ x.message # r.message
    BY <1>2, NoFault
  <2>2. row = [f \in ReceivableFields |-> row[f]]
    BY DEF ReceivableFields
  <2> QED BY <1>3, <2>1, <2>2, ReducerAssumption DEF ReceivableFits
<1>5. held \in p.reservations
  BY <1>1, TheOne
<1>6. /\ IsBook(q) /\ q.reservations = p.reservations \ {held}
      /\ q.receivables = p.receivables \cup {row}
      /\ \A f \in BookFields \ {"reservations", "receivables"} : q[f] = p[f]
  <2> HIDE DEF held, row
  <2> QED BY ReadyFacts DEF IsBook, BookFields
<1> HIDE DEF m, q, held, row
<1>7. /\ ReservationsFit(q.reservations) /\ held.amount \in Nat
      /\ Amounts(q.reservations) = Amounts(p.reservations) - held.amount
  <2>1. ReservationsFit(p.reservations)
    BY ReadyFacts DEF Parts
  <2> QED BY <1>5, <1>6, <2>1, ReservationTaken
<1>8. /\ ReceivablesFit(q.receivables, r.at)
      /\ Amounts(q.receivables) = Amounts(p.receivables) + r.amount
  <2>1. ReceivablesFit(p.receivables, r.at)
    BY ReadyFacts DEF Parts
  <2> QED BY <1>4, <1>6, <2>1, ReceivablePut
<1>9. Parts(q, r.at)
  BY <1>6, <1>7, <1>8, ReadyFacts DEF Parts, BookFields
<1>10. Kept(p, q, r.op) /\ q.cash = p.cash
  BY <1>6 DEF Kept, BookFields
<1>11. m.gap \in Int /\ Worth(q) - q.pnl = Worth(p) - p.pnl - m.gap
  <2>1. q.payables = p.payables /\ q.pnl = p.pnl /\ q.positions = p.positions
    BY <1>6 DEF BookFields
  <2> QED BY <1>2, <1>3, <1>7, <1>8, <1>10, <2>1, ReadyFacts DEF Worth
<1>12. q.cash \in [Family -> Int]
  BY <1>10, ReadyFacts
<1> QED BY <1>2, <1>9, <1>10, <1>11, <1>12, ExplainedBy DEF m

LEMMA CostsPriced ==
  ASSUME NEW r, IsReceipt(r), NEW S, S \subseteq r.costs
  PROVE  Priced(S)
<1>1. IsFiniteSet(S)
  BY FS_Subset DEF IsReceipt
<1> QED BY <1>1 DEF Priced, IsReceipt, IsCost

LEMMA SourceFailedExplained ==
  ASSUME NEW p, NEW r, Ready(p, r), r.kind = "TRANSFER_SOURCE_FAILED",
         SourceFailed(p, r).faults = {}
  PROVE  Explained(p, r, SourceFailed(p, r))
<1> DEFINE held == The(p.reservations, r.reservation)
           withheld == Amounts({c \in r.costs : c.funding = "WITHHELD"})
           back == held.amount - withheld
           q == [p EXCEPT !.reservations = @ \ {held}, !.cash[held.family] = @ + back]
           m == SourceFailed(p, r)
<1>1. With(p.reservations, r.reservation) # {}
  BY DEF SourceFailed, Refuses, Moves
<1>2. m.portfolio = q /\ m.gap = withheld
  BY <1>1 DEF SourceFailed, Moves
<1>3. withheld \in Nat
  <2> DEFINE S == {c \in r.costs : c.funding = "WITHHELD"}
  <2>1. S \subseteq r.costs /\ IsReceipt(r)
    BY DEF Ready
  <2> HIDE DEF S
  <2>2. Amounts(S) \in Nat
    BY <2>1, CostsPriced, AmountsType
  <2> QED BY <2>2 DEF S
<1>4. held \in p.reservations
  BY <1>1, TheOne
<1>5. /\ IsBook(q) /\ q.reservations = p.reservations \ {held}
      /\ q.cash = [p.cash EXCEPT ![held.family] = @ + back]
      /\ \A f \in BookFields \ {"reservations", "cash"} : q[f] = p[f]
  <2> HIDE DEF held, back
  <2> QED BY ReadyFacts DEF IsBook, BookFields
<1> HIDE DEF m, q, held, withheld
<1>6. /\ ReservationsFit(q.reservations) /\ held.amount \in Nat /\ held.family \in Family
      /\ Amounts(q.reservations) = Amounts(p.reservations) - held.amount
  <2>1. ReservationsFit(p.reservations)
    BY ReadyFacts DEF Parts
  <2> QED BY <1>4, <1>5, <2>1, ReservationTaken
<1>7. back \in Int
  BY <1>3, <1>6
<1>8. q.cash \in [Family -> Int] /\ Total(q.cash) = Total(p.cash) + back
  <2> HIDE DEF back
  <2> QED BY <1>5, <1>6, <1>7, ReadyFacts, TotalMoved
<1>9. Parts(q, r.at)
  BY <1>5, <1>6, ReadyFacts DEF Parts, BookFields
<1>10. Kept(p, q, r.op)
  BY <1>5 DEF Kept, BookFields
<1>11. m.gap \in Int /\ Worth(q) - q.pnl = Worth(p) - p.pnl - m.gap
  <2>1. /\ q.payables = p.payables /\ q.pnl = p.pnl /\ q.positions = p.positions
        /\ q.receivables = p.receivables
    BY <1>5 DEF BookFields
  <2> QED BY <1>2, <1>3, <1>6, <1>8, <2>1, ReadyFacts DEF Worth
<1> QED BY <1>2, <1>8, <1>9, <1>10, <1>11, ExplainedBy DEF m

LEMMA ReceivableReplaced ==
  ASSUME NEW rows, NEW time, ReceivablesFit(rows, time), NEW x \in rows,
         NEW y, ReceivableFits(y, time), y.id = x.id, y.message = x.message,
         y.amount = x.amount
  PROVE  /\ ReceivablesFit((rows \ {x}) \cup {y}, time)
         /\ Amounts((rows \ {x}) \cup {y}) = Amounts(rows)
<1> DEFINE left == rows \ {x}
<1>1. /\ ReceivablesFit(left, time) /\ Amounts(left) = Amounts(rows) - x.amount
      /\ \A z \in left : z.id # y.id /\ z.message # y.message
  BY ReceivableTaken
<1> HIDE DEF left
<1>2. ReceivablesFit(left \cup {y}, time) /\ Amounts(left \cup {y}) = Amounts(left) + y.amount
  BY <1>1, ReceivablePut
<1>3. Amounts(rows) \in Nat /\ y.amount \in Nat
  BY ReceivablesPriced, AmountsType DEF ReceivableFits
<1>4. Amounts(left \cup {y}) = Amounts(rows)
  BY <1>1, <1>2, <1>3
<1> QED BY <1>2, <1>4 DEF left

(* A receivable that only changes its state, or is tried once more.           *)
Stepped(x, state, tries, at) == [x EXCEPT !.state = state, !.tries = tries, !.at = at]

LEMMA SteppedFits ==
  ASSUME NEW x, NEW at \in Nat, ReceivableFits(x, at), NEW state, NEW tries \in Nat,
         tries <= DestinationAttempts
  PROVE  LET y == Stepped(x, state, tries, at)
         IN  ReceivableFits(y, at) /\ y.id = x.id /\ y.message = x.message /\ y.amount = x.amount
<1> DEFINE y == Stepped(x, state, tries, at)
<1>1. /\ y = [f \in ReceivableFields |-> y[f]] /\ y.id = x.id /\ y.message = x.message
      /\ y.amount = x.amount /\ y.family = x.family /\ y.tries = tries /\ y.at = at
  BY DEF Stepped, ReceivableFits, ReceivableFields
<1> HIDE DEF y
<1>2. y.at <= at /\ y.at \in Nat /\ y.tries \in Nat /\ y.tries <= DestinationAttempts
  BY <1>1
<1>3. ReceivableFits(y, at)
  BY <1>1, <1>2 DEF ReceivableFits
<1> QED BY <1>1, <1>3 DEF y

Moved(p, x, y) == [p EXCEPT !.receivables = (p.receivables \ {x}) \cup {y}]

LEMMA MovedExplained ==
  ASSUME NEW p, NEW r, Ready(p, r), NEW x \in p.receivables, NEW y, ReceivableFits(y, r.at),
         y.id = x.id, y.message = x.message, y.amount = x.amount,
         NEW m, m.gap = 0, m.portfolio = Moved(p, x, y)
  PROVE  Explained(p, r, m)
<1> DEFINE q == m.portfolio
<1>1. ReceivablesFit(p.receivables, r.at)
  BY ReadyFacts DEF Parts
<1>2. /\ IsBook(q) /\ q.receivables = (p.receivables \ {x}) \cup {y}
      /\ \A f \in BookFields \ {"receivables"} : q[f] = p[f]
  BY ReadyFacts DEF IsBook, BookFields, Moved
<1> HIDE DEF q
<1>3. /\ ReceivablesFit(q.receivables, r.at)
      /\ Amounts(q.receivables) = Amounts(p.receivables)
  BY <1>1, <1>2, ReceivableReplaced
<1>4. Parts(q, r.at)
  BY <1>2, <1>3, ReadyFacts DEF Parts, BookFields
<1>5. Kept(p, q, r.op) /\ q.cash = p.cash
  BY <1>2 DEF Kept, BookFields
<1>6. Worth(q) - q.pnl = Worth(p) - p.pnl - m.gap
  <2>1. /\ q.payables = p.payables /\ q.pnl = p.pnl /\ q.positions = p.positions
        /\ q.reservations = p.reservations
    BY <1>2 DEF BookFields
  <2> QED BY <1>3, <1>5, <2>1, ReadyFacts DEF Worth
<1>7. q.cash \in [Family -> Int] /\ m.gap \in Int
  BY <1>5, ReadyFacts
<1> QED BY <1>4, <1>5, <1>6, <1>7, ExplainedBy DEF q

Received(p, x, amount) ==
  [p EXCEPT !.receivables = p.receivables \ {x}, !.cash[x.family] = @ + amount]

LEMMA SettledExplained ==
  ASSUME NEW p, NEW r, Ready(p, r), NEW x \in p.receivables, r.amount \in Nat,
         NEW m, m.gap = x.amount - r.amount, m.portfolio = Received(p, x, r.amount)
  PROVE  Explained(p, r, m)
<1> DEFINE q == m.portfolio
<1>1. ReceivablesFit(p.receivables, r.at) /\ ReceivableFits(x, r.at)
  BY ReadyFacts DEF Parts, ReceivablesFit
<1>2. x.family \in Family /\ x.amount \in Nat
  BY <1>1 DEF ReceivableFits
<1>3. /\ IsBook(q) /\ q.receivables = p.receivables \ {x}
      /\ q.cash = [p.cash EXCEPT ![x.family] = @ + r.amount]
      /\ \A f \in BookFields \ {"receivables", "cash"} : q[f] = p[f]
  <2>1. q = Received(p, x, r.amount)
    OBVIOUS
  <2>2. IsBook(p)
    BY ReadyFacts
  <2> HIDE DEF q
  <2> QED BY <2>1, <2>2 DEF IsBook, BookFields, Received
<1> HIDE DEF q
<1>4. /\ ReceivablesFit(q.receivables, r.at)
      /\ Amounts(q.receivables) = Amounts(p.receivables) - x.amount
  BY <1>1, <1>3, ReceivableTaken
<1>5. q.cash \in [Family -> Int] /\ Total(q.cash) = Total(p.cash) + r.amount
  <2>1. r.amount \in Int
    OBVIOUS
  <2> QED BY <1>2, <1>3, <2>1, ReadyFacts, TotalMoved
<1>6. Parts(q, r.at)
  BY <1>3, <1>4, ReadyFacts DEF Parts, BookFields
<1>7. Kept(p, q, r.op)
  BY <1>3 DEF Kept, BookFields
<1>8. m.gap \in Int /\ Worth(q) - q.pnl = Worth(p) - p.pnl - m.gap
  <2>1. /\ q.payables = p.payables /\ q.pnl = p.pnl /\ q.positions = p.positions
        /\ q.reservations = p.reservations
    BY <1>3 DEF BookFields
  <2> QED BY <1>2, <1>4, <1>5, <2>1, ReadyFacts DEF Worth
<1> QED BY <1>5, <1>6, <1>7, <1>8, ExplainedBy DEF q

LEMMA MoveExplained ==
  ASSUME NEW p, NEW r, Ready(p, r), r.kind \in TransferMove, MoveTransfer(p, r).faults = {}
  PROVE  Explained(p, r, MoveTransfer(p, r))
<1> DEFINE x == The(p.receivables, r.id)
           m == MoveTransfer(p, r)
<1>1. With(p.receivables, r.id) # {}
  BY DEF MoveTransfer, Refuses, Moves
<1>2. x \in p.receivables /\ r.at \in Nat
  BY <1>1, TheOne, ReadyFacts
<1>3. ReceivableFits(x, r.at) /\ x.tries \in Nat /\ x.tries <= DestinationAttempts
  <2>1. ReceivableFits(x, r.at)
    BY <1>2, ReadyFacts DEF Parts, ReceivablesFit
  <2> HIDE DEF x
  <2> QED BY <2>1 DEF ReceivableFits
<1>4. DestinationAttempts \in Nat
  BY ReducerAssumption
<1> HIDE DEF x
<1>0. ASSUME NEW state, NEW tries \in Nat, tries <= DestinationAttempts, m.gap = 0,
             m.portfolio = Moved(p, x, Stepped(x, state, tries, r.at))
      PROVE  Explained(p, r, m)
  <2> DEFINE y == Stepped(x, state, tries, r.at)
  <2>1. ReceivableFits(y, r.at) /\ y.id = x.id /\ y.message = x.message /\ y.amount = x.amount
    BY <1>0, <1>2, <1>3, SteppedFits
  <2>2. m.gap = 0 /\ m.portfolio = Moved(p, x, y)
    BY <1>0
  <2> HIDE DEF m, y
  <2>3. Explained(p, r, m)
    BY <1>2, <2>1, <2>2, MovedExplained
  <2> QED BY <2>3
<1>5. CASE r.kind # "TRANSFER_SETTLED"
  <2>1. CASE r.kind = "TRANSFER_READY"
    <3>1. m.gap = 0 /\ m.portfolio = Moved(p, x, Stepped(x, "READY_TO_RECEIVE", x.tries, r.at))
      BY <1>1, <2>1 DEF MoveTransfer, Moves, x, Moved, Stepped
    <3> HIDE DEF m
    <3>2. Explained(p, r, m)
      BY <1>0, <1>3, <3>1
    <3> QED BY <3>2 DEF m
  <2>2. CASE r.kind = "TRANSFER_DELAYED"
    <3>1. m.gap = 0 /\ m.portfolio = Moved(p, x, Stepped(x, "DELAYED", x.tries, r.at))
      BY <1>1, <2>2 DEF MoveTransfer, Moves, x, Moved, Stepped
    <3> HIDE DEF m
    <3>2. Explained(p, r, m)
      BY <1>0, <1>3, <3>1
    <3> QED BY <3>2 DEF m
  <2>3. CASE r.kind = "TRANSFER_DESTINATION_RETRY"
    <3>1. /\ m.gap = 0 /\ Fault(~MayMove(r.kind, x), "TRANSITION") = {}
          /\ m.portfolio = Moved(p, x, Stepped(x, "DESTINATION_RETRY", x.tries + 1, r.at))
      BY <1>1, <2>3 DEF MoveTransfer, Moves, x, Moved, Stepped
    <3>2. MayMove(r.kind, x)
      BY <3>1, NoFault
    <3>3. x.tries + 1 \in Nat /\ x.tries + 1 <= DestinationAttempts
      BY <1>3, <1>4, <2>3, <3>2 DEF MayMove
    <3> HIDE DEF m
    <3>4. Explained(p, r, m)
      BY <1>0, <3>1, <3>3
    <3> QED BY <3>4 DEF m
  <2> QED BY <1>5, <2>1, <2>2, <2>3 DEF TransferMove
<1>6. CASE r.kind = "TRANSFER_SETTLED"
  <2>1. m.gap = x.amount - r.amount /\ m.portfolio = Received(p, x, r.amount)
    BY <1>1, <1>6 DEF MoveTransfer, Moves, x, Received
  <2> HIDE DEF m
  <2>2. r.amount \in Nat
    BY <1>6, FieldTypes DEF Ready, Fields
  <2>3. Explained(p, r, m)
    BY <1>2, <2>1, <2>2, SettledExplained
  <2> QED BY <2>3 DEF m
<1> QED BY <1>5, <1>6

(* A receipt that moves nothing but the closing time.                         *)
LEMMA CloseExplained ==
  ASSUME NEW p, NEW r, Ready(p, r)
  PROVE  Explained(p, r, Close(p, r))
<1> DEFINE q == [p EXCEPT !.closed = r.at, !.deadline = p.version]
           m == Close(p, r)
<1>1. m.portfolio = q /\ m.gap = 0
  BY DEF Close, Moves
<1>2. /\ IsBook(q) /\ q.closed = r.at /\ q.deadline = p.version
      /\ \A f \in BookFields \ {"closed", "deadline"} : q[f] = p[f]
  BY ReadyFacts DEF IsBook, BookFields
<1>3. q.closed # None /\ q.deadline # None
  <2>1. r.at \in Nat /\ p.version \in Nat
    BY ReadyFacts DEF Ready
  <2> QED BY <1>2, <2>1, ReducerAssumption
<1> HIDE DEF m, q
<1>4. Parts(q, r.at)
  BY <1>2, <1>3, ReadyFacts DEF Parts, BookFields
<1>5. Kept(p, q, r.op) /\ q.cash = p.cash
  BY <1>2 DEF Kept, BookFields
<1>6. Worth(q) - q.pnl = Worth(p) - p.pnl - m.gap
  <2>1. Worth(q) = Worth(p) /\ q.pnl = p.pnl
    BY <1>2 DEF Worth, BookFields
  <2> QED BY <1>1, <2>1, ReadyFacts DEF Worth
<1>7. q.cash \in [Family -> Int] /\ m.gap \in Int
  BY <1>1, <1>5, ReadyFacts
<1> QED BY <1>1, <1>4, <1>5, <1>6, <1>7, ExplainedBy DEF m

LEMMA NothingExplained ==
  ASSUME NEW p, NEW r, Ready(p, r)
  PROVE  Explained(p, r, Moves(p, 0, {}))
<1> DEFINE m == Moves(p, 0, {})
<1>1. m.portfolio = p /\ m.gap = 0
  BY DEF Moves
<1> HIDE DEF m
<1>2. Parts(p, r.at) /\ p.cash \in [Family -> Int] /\ Kept(p, p, r.op)
  BY ReadyFacts DEF Kept
<1>3. Worth(p) - p.pnl = Worth(p) - p.pnl - m.gap /\ m.gap \in Int
  BY <1>1, ReadyFacts DEF Worth
<1> QED BY <1>1, <1>2, <1>3, ExplainedBy DEF m

(* Every receipt that is not refused explains what it moves: the book value   *)
(* changes by the profit and the gap, and by nothing else.                    *)
LEMMA EffectExplained ==
  ASSUME NEW p, NEW r, Ready(p, r), Effect(p, r).faults = {}
  PROVE  Explained(p, r, Effect(p, r))
<1>1. CASE r.kind \in {"NO_EFFECT", "COST"}
  <2>1. Effect(p, r) = Moves(p, 0, {})
    BY <1>1 DEF Effect, TransferMove
  <2> QED BY <2>1, NothingExplained
<1>2. CASE r.kind = "RESERVE"
  <2>1. Effect(p, r) = Reserve(p, r)
    BY <1>2 DEF Effect, TransferMove
  <2> QED BY <1>2, <2>1, ReserveExplained
<1>3. CASE r.kind = "APPROVE"
  <2>1. Effect(p, r) = Approve(p, r)
    BY <1>3 DEF Effect, TransferMove
  <2> QED BY <1>3, <2>1, ApproveExplained
<1>4. CASE r.kind = "DEPOSIT"
  <2>1. Effect(p, r) = Deposit(p, r)
    BY <1>4 DEF Effect, TransferMove
  <2> QED BY <1>4, <2>1, DepositExplained
<1>5. CASE r.kind = "WITHDRAW"
  <2>1. Effect(p, r) = Withdraw(p, r)
    BY <1>5 DEF Effect, TransferMove
  <2> QED BY <1>5, <2>1, WithdrawExplained
<1>6. CASE r.kind = "SWAP"
  <2>1. Effect(p, r) = Swap(p, r)
    BY <1>6 DEF Effect, TransferMove
  <2> QED BY <1>6, <2>1, SwapExplained
<1>7. CASE r.kind = "PAYABLE_SETTLED"
  <2>1. Effect(p, r) = SettlePayable(p, r)
    BY <1>7 DEF Effect, TransferMove
  <2> QED BY <1>7, <2>1, PayableExplained
<1>8. CASE r.kind = "TRANSFER_SOURCE_FAILED"
  <2>1. Effect(p, r) = SourceFailed(p, r)
    BY <1>8 DEF Effect, TransferMove
  <2> QED BY <1>8, <2>1, SourceFailedExplained
<1>9. CASE r.kind = "TRANSFER_BURNED"
  <2>1. Effect(p, r) = Burn(p, r)
    BY <1>9 DEF Effect, TransferMove
  <2> QED BY <1>9, <2>1, BurnExplained
<1>10. CASE r.kind \in TransferMove
  <2>1. Effect(p, r) = MoveTransfer(p, r)
    BY <1>10 DEF Effect, TransferMove
  <2> QED BY <1>10, <2>1, MoveExplained
<1>11. CASE r.kind = "ACCRUE"
  <2>1. Effect(p, r) = Accrue(p, r)
    BY <1>11 DEF Effect, TransferMove
  <2> QED BY <1>11, <2>1, AccrueExplained
<1>12. CASE r.kind = "CLOSE"
  <2>1. Effect(p, r) = Close(p, r)
    BY <1>12 DEF Effect, TransferMove
  <2> QED BY <2>1, CloseExplained
<1>13. r.kind \in DOMAIN Fields
  BY DEF Ready, IsReceipt
<1> QED
  BY <1>1, <1>2, <1>3, <1>4, <1>5, <1>6, <1>7, <1>8, <1>9, <1>10, <1>11, <1>12, <1>13
     DEF Fields, TransferMove

(* The cash a receipt takes is its costs in cash, family by family.           *)
InFamily(costs, f) == {c \in costs : c.family = f}
PaidFrom(cash, costs) == [f \in Family |-> cash[f] - Amounts(InFamily(costs, f))]

LEMMA PaidTotal ==
  ASSUME NEW cash \in [Family -> Int], NEW S, Priced(S), \A c \in S : c.family \in Family
  PROVE  PaidFrom(cash, S) \in [Family -> Int] /\ Total(PaidFrom(cash, S)) = Total(cash) - Amounts(S)
<1> DEFINE Adds(T) == /\ PaidFrom(cash, T) \in [Family -> Int]
                      /\ Total(PaidFrom(cash, T)) = Total(cash) - Amounts(T)
           X == {T \in SUBSET S : Adds(T)}
<1>0. IsFiniteSet(S) /\ Total(cash) \in Int
  BY TotalType DEF Priced
<1>1. \A T \in SUBSET S : Priced(T)
  BY <1>0, FS_Subset DEF Priced
<1>2. {} \in X
  <2>1. Priced({})
    BY <1>1
  <2>2. Amounts({}) = 0
    BY <2>1, AmountsType
  <2>3. \A f \in Family : InFamily({}, f) = {}
    BY DEF InFamily
  <2>4. PaidFrom(cash, {}) = cash
    <3> DEFINE t == PaidFrom(cash, {})
    <3>1. t = [f \in Family |-> t[f]] /\ cash = [f \in Family |-> cash[f]]
      BY DEF PaidFrom
    <3>2. \A f \in Family : t[f] = cash[f] - Amounts(InFamily({}, f))
      BY DEF PaidFrom
    <3> HIDE DEF t
    <3>3. \A f \in Family : t[f] = cash[f]
      BY <2>2, <2>3, <3>2
    <3>4. t = cash
      BY <3>1, <3>3
    <3> QED BY <3>4 DEF t
  <2>5. Adds({})
    BY <1>0, <2>2, <2>4
  <2> HIDE DEF Adds
  <2> QED BY <2>5
<1>3. ASSUME NEW T \in SUBSET S, NEW x \in S \ T, T \in X
      PROVE  T \cup {x} \in X
  <2> DEFINE more == T \cup {x}
             before == PaidFrom(cash, T)
             after == PaidFrom(cash, more)
             f == x.family
             d == x.amount
  <2>1. before \in [Family -> Int] /\ Total(before) = Total(cash) - Amounts(T)
    BY <1>3
  <2>2. f \in Family /\ d \in Nat /\ x \notin T /\ Priced(T)
    BY <1>1 DEF Priced
  <2>3. Amounts(more) = Amounts(T) + d /\ Amounts(T) \in Nat
    BY <2>2, AmountsWith, AmountsType
  <2>4. ASSUME NEW g \in Family PROVE after[g] = before[g] - (IF g = f THEN d ELSE 0)
    <3>1. after[g] = cash[g] - Amounts(InFamily(more, g)) /\ before[g] = cash[g] - Amounts(InFamily(T, g))
      BY DEF PaidFrom
    <3>2. Priced(InFamily(T, g)) /\ x \notin InFamily(T, g)
      BY <1>1, <2>2 DEF InFamily
    <3>3. Amounts(InFamily(T, g)) \in Nat /\ cash[g] \in Int
      BY <3>2, AmountsType
    <3>4. CASE g = f
      <4>1. InFamily(more, g) = InFamily(T, g) \cup {x}
        BY <3>4 DEF InFamily
      <4>2. Amounts(InFamily(T, g) \cup {x}) = Amounts(InFamily(T, g)) + d
        BY <2>2, <3>2, AmountsWith
      <4> HIDE DEF after, before, more, d
      <4> QED BY <2>2, <3>1, <3>3, <3>4, <4>1, <4>2
    <3>5. CASE g # f
      <4>1. InFamily(more, g) = InFamily(T, g)
        BY <3>5 DEF InFamily
      <4> HIDE DEF after, before, more, d
      <4> QED BY <3>1, <3>3, <3>5, <4>1
    <3> QED BY <3>4, <3>5
  <2>5. after = [g \in Family |-> after[g]]
    BY DEF PaidFrom
  <2> HIDE DEF after, before, f, d
  <2>6. after = [before EXCEPT ![f] = @ - d]
    <3> DEFINE next == [before EXCEPT ![f] = @ - d]
    <3>1. /\ next = [g \in Family |-> next[g]] /\ next[f] = before[f] - d
          /\ \A g \in Family \ {f} : next[g] = before[g]
      BY <2>1, <2>2
    <3> HIDE DEF next
    <3>2. \A g \in Family : before[g] \in Int /\ before[g] - 0 = before[g]
      BY <2>1
    <3>3. ASSUME NEW g \in Family PROVE after[g] = next[g]
      BY <2>4, <3>1, <3>2
    <3>4. after = next
      BY <2>5, <3>1, <3>3
    <3> QED BY <3>4 DEF next
  <2>7. after \in [Family -> Int] /\ Total(after) = Total(before) - d
    BY <2>1, <2>2, <2>6, CashDebited
  <2>8. Total(after) = Total(cash) - Amounts(more)
    BY <1>0, <2>1, <2>2, <2>3, <2>7
  <2>9. Adds(more)
    BY <2>7, <2>8 DEF after
  <2> HIDE DEF Adds
  <2> QED BY <2>9
<1>4. S \in X
  <2> HIDE DEF X
  <2> QED BY <1>0, <1>2, <1>3, FiniteInduction
<1> QED BY <1>4

(* A receipt's costs are paid, owed or withheld.                              *)
LEMMA CostsSplit ==
  ASSUME NEW r, IsReceipt(r)
  PROVE  /\ Priced(r.costs)
         /\ \A funding : Priced(Funded(r.costs, funding)) /\ Amounts(Funded(r.costs, funding)) \in Nat
         /\ Amounts(r.costs) = Amounts(Funded(r.costs, "AVAILABLE_CASH"))
                                 + Amounts(Funded(r.costs, "PAYABLE"))
                                 + Amounts(Funded(r.costs, "WITHHELD"))
         /\ \A c \in Funded(r.costs, "AVAILABLE_CASH") : c.family \in Family
<1> DEFINE A == Funded(r.costs, "AVAILABLE_CASH")
           B == Funded(r.costs, "PAYABLE")
           C == Funded(r.costs, "WITHHELD")
<1>1. \A funding : Funded(r.costs, funding) \subseteq r.costs
  BY DEF Funded
<1>2. Priced(r.costs) /\ \A funding : Priced(Funded(r.costs, funding))
  BY <1>1, CostsPriced
<1>3. \A funding : Amounts(Funded(r.costs, funding)) \in Nat
  BY <1>2, AmountsType
<1>4. \A c \in r.costs : IsCost(c)
  BY DEF IsReceipt
<1>5. /\ r.costs = (A \cup B) \cup C /\ (\A c \in B : c \notin A)
      /\ \A c \in C : c \notin A \cup B
  BY <1>4 DEF IsCost, Funded
<1>6. \A c \in A : c.family \in Family
  BY <1>4 DEF IsCost, Funded
<1>7. Priced(A) /\ Priced(B) /\ Priced(C) /\ Amounts(A) \in Nat /\ Amounts(B) \in Nat /\ Amounts(C) \in Nat
  BY <1>2, <1>3
<1> HIDE DEF A, B, C
<1>8. Priced(A \cup B) /\ Amounts(A \cup B) = Amounts(A) + Amounts(B)
  BY <1>5, <1>7, AmountsBoth
<1> DEFINE D == A \cup B
<1>9. Priced(D) /\ Amounts(D) = Amounts(A) + Amounts(B) /\ \A c \in C : c \notin D
  BY <1>5, <1>8
<1>10. r.costs = D \cup C
  BY <1>5
<1> HIDE DEF D
<1>11. Amounts(r.costs) = Amounts(D) + Amounts(C)
  BY <1>7, <1>9, <1>10, AmountsBoth
<1>12. Amounts(r.costs) = Amounts(A) + Amounts(B) + Amounts(C)
  BY <1>7, <1>9, <1>11
<1> QED BY <1>2, <1>3, <1>6, <1>12 DEF A, B, C

(* Costs recognized anew, as rows of the portfolio.                           *)
Image(b, S) == {b[c] : c \in S}

LEMMA RowsAdded ==
  ASSUME NEW S, Priced(S), Distinct(S), NEW old, Priced(old), Distinct(old),
         NEW b, b = [c \in S |-> b[c]],
         \A c \in S : b[c].id = c.id /\ b[c].amount = c.amount,
         \A c \in S, x \in old : x.id # c.id
  PROVE  /\ Priced(old \cup Image(b, S)) /\ Distinct(old \cup Image(b, S))
         /\ Amounts(old \cup Image(b, S)) = Amounts(old) + Amounts(S)
<1> DEFINE new == {b[c] : c \in S}
<1>1. \A x, y \in S : b[x] = b[y] => x = y
  BY DEF Distinct
<1>2. Priced(new) /\ Amounts(new) = Amounts(S)
  BY <1>1, AmountsAlong
<1>3. \A y \in new : y \notin old
  OBVIOUS
<1>4. Distinct(old \cup new)
  BY DEF Distinct
<1>5. Image(b, S) = new
  BY DEF Image
<1> HIDE DEF new
<1>6. Priced(old \cup new) /\ Amounts(old \cup new) = Amounts(old) + Amounts(new)
  BY <1>2, <1>3, AmountsBoth
<1>7. Amounts(old \cup new) = Amounts(old) + Amounts(S)
  BY <1>2, <1>6
<1> QED BY <1>4, <1>5, <1>6, <1>7

(* Every payable has its cost. *)
Owed(payables, costs) ==
  \A x \in payables : \E c \in costs : c.id = x.id /\ c.funding = "PAYABLE" /\ c.amount = x.amount

CostRow(r, c) == [id |-> c.id, op |-> r.op, funding |-> c.funding, amount |-> c.amount]
PayableRow(c) == [id |-> c.id, network |-> c.network, amount |-> c.amount]

IsCharged(c, q, r) ==
  /\ IsBook(c)
  /\ c.cash = PaidFrom(q.cash, Funded(r.costs, "AVAILABLE_CASH"))
  /\ c.payables = q.payables \cup {PayableRow(k) : k \in Funded(r.costs, "PAYABLE")}
  /\ c.costs = q.costs \cup {CostRow(r, k) : k \in r.costs}
  /\ \A f \in BookFields \ {"cash", "payables", "costs"} : c[f] = q[f]

LEMMA ChargedIs ==
  ASSUME NEW q, IsBook(q), NEW r
  PROVE  IsCharged(Charged(q, r), q, r)
<1> DEFINE cash == PaidFrom(q.cash, Funded(r.costs, "AVAILABLE_CASH"))
           owed == {PayableRow(k) : k \in Funded(r.costs, "PAYABLE")}
           costs == {CostRow(r, k) : k \in r.costs}
           c == [q EXCEPT !.cash = cash, !.payables = @ \cup owed, !.costs = @ \cup costs]
<1>1. Charged(q, r) = c
  <2>1. [f \in Family |-> q.cash[f] - Amounts({k \in Funded(r.costs, "AVAILABLE_CASH") : k.family = f})]
           = cash
    BY Zenon DEF PaidFrom, InFamily
  <2>2. /\ {[id |-> k.id, network |-> k.network, amount |-> k.amount] : k \in Funded(r.costs, "PAYABLE")}
              = owed
        /\ {[id |-> k.id, op |-> r.op, funding |-> k.funding, amount |-> k.amount] : k \in r.costs}
              = costs
    BY Zenon DEF PayableRow, CostRow
  <2> HIDE DEF cash, owed, costs
  <2> QED BY <2>1, <2>2, Zenon DEF Charged
<1> HIDE DEF cash, owed, costs
<1>2. /\ IsBook(c) /\ c.cash = cash /\ c.payables = q.payables \cup owed
      /\ c.costs = q.costs \cup costs
      /\ \A f \in BookFields \ {"cash", "payables", "costs"} : c[f] = q[f]
  BY DEF IsBook, BookFields
<1> HIDE DEF c
<1>3. IsCharged(c, q, r)
  BY <1>2, Zenon DEF IsCharged, cash, owed, costs
<1> QED BY <1>1, <1>3

CashFits(p) == p.cash \in [Family -> Nat] /\ \A f \in Family : Fits(p.cash[f])

LEMMA ChargedCosts ==
  ASSUME NEW r, IsReceipt(r), Distinct(r.costs),
         NEW costs, Priced(costs), Distinct(costs), \A c \in r.costs, x \in costs : x.id # c.id,
         NEW payables, Priced(payables), Distinct(payables), Owed(payables, costs)
  PROVE  LET more == costs \cup {CostRow(r, k) : k \in r.costs}
             owed == payables \cup {PayableRow(k) : k \in Funded(r.costs, "PAYABLE")}
         IN  /\ Priced(more) /\ Distinct(more)
             /\ Amounts(more) = Amounts(costs) + Amounts(r.costs)
             /\ Priced(owed) /\ Distinct(owed)
             /\ Amounts(owed) = Amounts(payables) + Amounts(Funded(r.costs, "PAYABLE"))
             /\ Owed(owed, more)
<1> DEFINE more == costs \cup {CostRow(r, k) : k \in r.costs}
           due == Funded(r.costs, "PAYABLE")
           owed == payables \cup {PayableRow(k) : k \in due}
<1>1. Priced(more) /\ Distinct(more) /\ Amounts(more) = Amounts(costs) + Amounts(r.costs)
  <2> DEFINE b == [k \in r.costs |-> CostRow(r, k)]
             S == r.costs
  <2>1. b = [k \in S |-> b[k]] /\ \A k \in S : b[k].id = k.id /\ b[k].amount = k.amount
    BY DEF CostRow
  <2>2. Image(b, S) = {CostRow(r, k) : k \in r.costs}
    BY DEF Image
  <2>3. Priced(S) /\ Distinct(S) /\ \A c \in S, x \in costs : x.id # c.id
    BY CostsSplit
  <2> HIDE DEF b, S
  <2>4. /\ Priced(costs \cup Image(b, S)) /\ Distinct(costs \cup Image(b, S))
        /\ Amounts(costs \cup Image(b, S)) = Amounts(costs) + Amounts(S)
    BY <2>1, <2>3, RowsAdded
  <2> QED BY <2>2, <2>4 DEF S
<1>2. Priced(owed) /\ Distinct(owed) /\ Amounts(owed) = Amounts(payables) + Amounts(due)
  <2> DEFINE b == [k \in due |-> PayableRow(k)]
  <2>1. b = [k \in due |-> b[k]] /\ \A k \in due : b[k].id = k.id /\ b[k].amount = k.amount
    BY DEF PayableRow
  <2>2. Image(b, due) = {PayableRow(k) : k \in due}
    BY DEF Image
  <2>3. \A c \in due, x \in payables : x.id # c.id
    BY DEF Owed, Funded
  <2>4. Priced(due) /\ Distinct(due)
    BY CostsSplit DEF Distinct, Funded
  <2> HIDE DEF b, due
  <2>5. /\ Priced(payables \cup Image(b, due)) /\ Distinct(payables \cup Image(b, due))
        /\ Amounts(payables \cup Image(b, due)) = Amounts(payables) + Amounts(due)
    BY <2>1, <2>3, <2>4, RowsAdded
  <2> QED BY <2>2, <2>5
<1>3. Owed(owed, more)
  <2>1. \A k \in due : /\ CostRow(r, k) \in more /\ CostRow(r, k).id = PayableRow(k).id
                       /\ CostRow(r, k).funding = "PAYABLE"
                       /\ CostRow(r, k).amount = PayableRow(k).amount
    BY DEF CostRow, PayableRow, Funded
  <2>2. costs \subseteq more
    OBVIOUS
  <2> HIDE DEF more, due
  <2> QED BY <2>1, <2>2 DEF Owed
<1> QED BY <1>1, <1>2, <1>3

Charges(p, r, m) ==
  /\ Ready(p, r) /\ Explained(p, r, m)
  /\ Priced(p.costs) /\ Distinct(p.costs) /\ Owed(p.payables, p.costs)
  /\ CostFaults(p, m, r) = {} /\ StateFaults(m, Charged(m.portfolio, r)) = {}

LEMMA ChargedSound ==
  ASSUME NEW p, NEW r, NEW m, Charges(p, r, m), NEW c, c = Charged(m.portfolio, r)
  PROVE  /\ Parts(c, r.at) /\ CashFits(c) /\ Priced(c.costs) /\ Distinct(c.costs)
         /\ Owed(c.payables, c.costs) /\ c.costs = p.costs \cup {CostRow(r, k) : k \in r.costs}
         /\ c.version = p.version /\ c.initial = p.initial /\ c.applied = p.applied
         /\ c.last = p.last /\ \A x \in c.reservations : x \in p.reservations \/ x.op = r.op
         /\ GlobalBook(c) >= 0 /\ GlobalBook(c) \in Int
         /\ GlobalBook(c) - c.pnl = GlobalBook(p) - p.pnl - (Amounts(c.costs) - Amounts(p.costs))
<1> DEFINE q == m.portfolio
           A == Funded(r.costs, "AVAILABLE_CASH")
           B == Funded(r.costs, "PAYABLE")
<1>1. /\ Ready(p, r) /\ Explained(p, r, m) /\ Priced(p.costs) /\ Distinct(p.costs)
      /\ Owed(p.payables, p.costs) /\ IsReceipt(r)
      /\ CostFaults(p, m, r) = {} /\ StateFaults(m, c) = {}
  BY DEF Charges, Ready
<1>2. /\ Parts(q, r.at) /\ q.cash \in [Family -> Int] /\ Kept(p, q, r.op) /\ m.gap \in Int
      /\ GlobalBook(q) - q.pnl = GlobalBook(p) - p.pnl - m.gap
  BY <1>1 DEF Explained
<1>3. /\ Distinct(r.costs) /\ (\A k \in r.costs : With(p.costs, k.id) = {})
      /\ Amounts(Funded(r.costs, "WITHHELD")) = m.gap
  <2>1. /\ ~(~Distinct(r.costs) \/ \E k \in r.costs : With(p.costs, k.id) # {})
        /\ ~(Amounts(Funded(r.costs, "WITHHELD")) # m.gap)
    BY <1>1, NoFault DEF CostFaults
  <2> QED BY <2>1
<1>4. /\ ~(\E f \in Family : c.cash[f] < 0)
      /\ ~(\E f \in Family : q.cash[f] >= UintLimit)
      /\ ~(Amounts(c.payables) > Gross(c))
  BY <1>1, NoFault DEF StateFaults
<1> HIDE DEF q
<1>5. IsBook(q) /\ q.pnl \in Int
  BY <1>2 DEF Parts
<1>6. /\ IsBook(c) /\ c.cash = PaidFrom(q.cash, A)
      /\ c.payables = q.payables \cup {PayableRow(k) : k \in B}
      /\ c.costs = q.costs \cup {CostRow(r, k) : k \in r.costs}
      /\ \A f \in BookFields \ {"cash", "payables", "costs"} : c[f] = q[f]
  <2>1. c = Charged(q, r)
    BY DEF q
  <2>2. IsCharged(c, q, r)
    BY <1>5, <2>1, ChargedIs
  <2> QED BY <2>2, Zenon DEF IsCharged
<1>7. /\ q.costs = p.costs /\ q.payables \subseteq p.payables /\ q.version = p.version
      /\ q.initial = p.initial /\ q.applied = p.applied /\ q.last = p.last
      /\ \A x \in q.reservations : x \in p.reservations \/ x.op = r.op
  BY <1>2 DEF Kept
<1>8. /\ Priced(c.costs) /\ Distinct(c.costs)
      /\ Amounts(c.costs) = Amounts(p.costs) + Amounts(r.costs)
      /\ Priced(c.payables) /\ Distinct(c.payables)
      /\ Amounts(c.payables) = Amounts(q.payables) + Amounts(B)
      /\ Owed(c.payables, c.costs)
  <2>1. Priced(q.payables) /\ Distinct(q.payables)
    BY <1>2 DEF Parts
  <2>2. Owed(q.payables, p.costs)
    BY <1>1, <1>7 DEF Owed
  <2>3. \A k \in r.costs, x \in p.costs : x.id # k.id
    BY <1>3 DEF With
  <2>4. LET more == p.costs \cup {CostRow(r, k) : k \in r.costs}
            owed == q.payables \cup {PayableRow(k) : k \in Funded(r.costs, "PAYABLE")}
        IN  /\ Priced(more) /\ Distinct(more)
            /\ Amounts(more) = Amounts(p.costs) + Amounts(r.costs)
            /\ Priced(owed) /\ Distinct(owed)
            /\ Amounts(owed) = Amounts(q.payables) + Amounts(Funded(r.costs, "PAYABLE"))
            /\ Owed(owed, more)
    BY <1>1, <1>3, <2>1, <2>2, <2>3, ChargedCosts, Zenon
  <2> QED BY <1>6, <1>7, <2>4
<1>9. /\ Amounts(r.costs) = Amounts(A) + Amounts(B) + m.gap
      /\ Amounts(A) \in Nat /\ Amounts(B) \in Nat
      /\ Priced(A) /\ \A k \in A : k.family \in Family
  BY <1>1, <1>3, CostsSplit
<1> HIDE DEF A, B
<1>10. c.cash \in [Family -> Int] /\ Total(c.cash) = Total(q.cash) - Amounts(A)
  BY <1>2, <1>6, <1>9, PaidTotal
<1>11. CashFits(c)
  <2>1. ASSUME NEW f \in Family PROVE c.cash[f] \in Nat /\ Fits(c.cash[f])
    <3>1. c.cash[f] = q.cash[f] - Amounts(InFamily(A, f))
      BY <1>6 DEF PaidFrom
    <3>2. Amounts(InFamily(A, f)) \in Nat
      <4>1. IsFiniteSet(InFamily(A, f))
        BY <1>9, FS_Subset DEF InFamily, Priced
      <4>2. Priced(InFamily(A, f))
        BY <1>9, <4>1 DEF InFamily, Priced
      <4> QED BY <4>2, AmountsType
    <3>3. q.cash[f] \in Int /\ UintLimit \in Nat /\ c.cash[f] \in Int
      BY <1>2, <1>10, ReducerAssumption
    <3>4. ~(c.cash[f] < 0) /\ ~(q.cash[f] >= UintLimit)
      BY <1>4
    <3> QED BY <3>1, <3>2, <3>3, <3>4 DEF Fits
  <2> QED BY <1>10, <2>1 DEF CashFits
<1>12. Parts(c, r.at)
  BY <1>2, <1>6, <1>8 DEF Parts, BookFields
<1>13. /\ GlobalBook(q) = Worth(q) /\ GlobalBook(c) = Worth(c) /\ GlobalBook(c) \in Int
       /\ Total(q.cash) \in Int /\ Amounts(q.reservations) \in Nat
       /\ BooksOf(q.positions) \in Nat /\ Amounts(q.receivables) \in Nat
       /\ Amounts(q.payables) \in Nat
  <2>1. GlobalBook(c) = Worth(c) /\ Total(c.cash) \in Int /\ Amounts(c.reservations) \in Nat
         /\ BooksOf(c.positions) \in Nat /\ Amounts(c.receivables) \in Nat
         /\ Amounts(c.payables) \in Nat
    BY <1>10, <1>12, PartsWorth
  <2>2. GlobalBook(c) \in Int
    BY <2>1 DEF Worth
  <2> QED BY <1>2, <2>1, <2>2, PartsWorth
<1>14. Worth(c) = Worth(q) - Amounts(A) - Amounts(B)
  <2>1. /\ c.reservations = q.reservations /\ c.positions = q.positions
        /\ c.receivables = q.receivables
    BY <1>6 DEF BookFields
  <2> QED BY <1>8, <1>9, <1>10, <1>13, <2>1 DEF Worth
<1>15. GlobalBook(c) >= 0
  <2>1. Gross(c) \in Int
    <3>1. Books(c) = BooksOf(c.positions)
      BY Zenon DEF Books, BooksOf
    <3>2. /\ Total(c.cash) \in Int /\ Amounts(c.reservations) \in Nat
          /\ BooksOf(c.positions) \in Nat /\ Amounts(c.receivables) \in Nat
      BY <1>10, <1>12, PartsWorth
    <3> QED BY <3>1, <3>2 DEF Gross
  <2>2. Amounts(c.payables) \in Nat
    BY <1>8, AmountsType
  <2> QED BY <1>4, <2>1, <2>2 DEF GlobalBook
<1>16. GlobalBook(c) - c.pnl = GlobalBook(p) - p.pnl - (Amounts(c.costs) - Amounts(p.costs))
  <2>1. c.pnl = q.pnl
    BY <1>6 DEF BookFields
  <2>2. Amounts(p.costs) \in Nat /\ p.pnl \in Int /\ GlobalBook(p) \in Int
    BY <1>1, AmountsType, ReadyFacts DEF Worth
  <2>3. Worth(q) \in Int
    BY <1>13 DEF Worth
  <2>4. GlobalBook(q) \in Int /\ GlobalBook(c) = GlobalBook(q) - Amounts(A) - Amounts(B)
    BY <1>13, <1>14, <2>3
  <2>5. Amounts(c.costs) - Amounts(p.costs) = Amounts(A) + Amounts(B) + m.gap
    BY <1>2, <1>8, <1>9, <2>2
  <2>6. GlobalBook(q) - q.pnl = GlobalBook(p) - p.pnl - m.gap /\ m.gap \in Int
    BY <1>2
  <2> QED BY <1>5, <1>9, <2>1, <2>2, <2>4, <2>5, <2>6
<1>17. /\ c.version = p.version /\ c.initial = p.initial /\ c.applied = p.applied
       /\ c.last = p.last /\ \A x \in c.reservations : x \in p.reservations \/ x.op = r.op
  BY <1>6, <1>7 DEF BookFields
<1>18. c.costs = p.costs \cup {CostRow(r, k) : k \in r.costs}
  BY <1>6, <1>7
<1> QED BY <1>8, <1>11, <1>12, <1>13, <1>15, <1>16, <1>17, <1>18

(* Every operation counts once, in the order of the versions.                 *)
History(applied) ==
  \A i \in DOMAIN applied :
    /\ applied[i].version = i
    /\ \A j \in DOMAIN applied : applied[i].op = applied[j].op => i = j

(* Costs and reservations belong to an operation of the history.              *)
Rooted(rows, applied) == \A x \in rows : \E i \in DOMAIN applied : applied[i].op = x.op

Sound(p) ==
  /\ Parts(p, p.last) /\ CashFits(p) /\ Priced(p.costs)
  /\ p.version \in Nat /\ p.initial \in Nat /\ p.last \in Nat /\ IsSequence(p.applied)
  /\ AssertPortfolio(p)

LEMMA SoundFacts ==
  ASSUME NEW p, Sound(p)
  PROVE  /\ Parts(p, p.last) /\ CashFits(p) /\ Priced(p.costs) /\ Distinct(p.costs)
         /\ p.version \in Nat /\ p.initial \in Nat /\ p.last \in Nat /\ p.pnl \in Int
         /\ IsSequence(p.applied) /\ p.version = Len(p.applied) /\ History(p.applied)
         /\ Owed(p.payables, p.costs) /\ Rooted(p.costs, p.applied)
         /\ Rooted(p.reservations, p.applied) /\ IsBook(p)
         /\ GlobalBook(p) = p.initial + p.pnl - Amounts(p.costs)
BY DEF Sound, AssertPortfolio, History, Owed, Rooted, Parts

LEMMA SoundBy ==
  ASSUME NEW p, Parts(p, p.last), CashFits(p), Priced(p.costs), Distinct(p.costs),
         p.version \in Nat, p.initial \in Nat, p.last \in Nat, IsSequence(p.applied),
         p.version = Len(p.applied), History(p.applied), Owed(p.payables, p.costs),
         Rooted(p.costs, p.applied), Rooted(p.reservations, p.applied),
         GlobalBook(p) >= 0, GlobalBook(p) = p.initial + p.pnl - Amounts(p.costs)
  PROVE  Sound(p)
<1>1. /\ Distinct(p.reservations) /\ Distinct(p.positions) /\ Distinct(p.receivables)
      /\ Distinct(p.payables) /\ Distinct(p.allowances)
      /\ \A x, y \in p.receivables : x.message = y.message => x = y
      /\ (p.closed = None) <=> (p.deadline = None)
  BY DEF Parts, ReservationsFit, PositionsFit, ReceivablesFit
<1>2. \A x \in p.positions : x = Rebooked(x) /\ x.at <= p.last
  BY DEF Parts, PositionsFit, PositionFits
<1>3. \A x \in p.receivables : x.tries <= DestinationAttempts /\ x.at <= p.last
  BY DEF Parts, ReceivablesFit, ReceivableFits
<1>4. \A c \in p.costs \cup p.reservations : \E i \in DOMAIN p.applied : p.applied[i].op = c.op
  BY DEF Rooted
<1>5. AssertPortfolio(p)
  BY <1>1, <1>2, <1>3, <1>4 DEF AssertPortfolio, History, Owed
<1> QED BY <1>5 DEF Sound

(* A later moment: rows are no newer than before.                             *)
LEMMA PartsLater ==
  ASSUME NEW p, NEW s \in Nat, NEW t \in Nat, s <= t, Parts(p, s)
  PROVE  Parts(p, t)
<1>1. PositionsFit(p.positions, s) /\ ReceivablesFit(p.receivables, s)
  BY DEF Parts
<1>2. PositionsFit(p.positions, t)
  <2>1. ASSUME NEW x \in p.positions PROVE PositionFits(x, t)
    <3>1. PositionFits(x, s) /\ x.at \in Nat
      BY <1>1 DEF PositionsFit, PositionFits, IsPosition
    <3>2. x.at <= t
      BY <3>1 DEF PositionFits
    <3> QED BY <3>1, <3>2 DEF PositionFits
  <2> QED BY <1>1, <2>1 DEF PositionsFit
<1>3. ReceivablesFit(p.receivables, t)
  <2>1. ASSUME NEW x \in p.receivables PROVE ReceivableFits(x, t)
    <3>1. ReceivableFits(x, s)
      BY <1>1 DEF ReceivablesFit
    <3> QED BY <3>1 DEF ReceivableFits
  <2> QED BY <1>1, <2>1 DEF ReceivablesFit
<1> QED BY <1>2, <1>3 DEF Parts

LEMMA HistoryGrows ==
  ASSUME NEW s, IsSequence(s), History(s), NEW e, e.version = Len(s) + 1,
         \A i \in DOMAIN s : s[i].op # e.op
  PROVE  /\ History(Append(s, e)) /\ IsSequence(Append(s, e)) /\ Len(Append(s, e)) = Len(s) + 1
         /\ \A rows : Rooted(rows, s) => Rooted(rows, Append(s, e))
         /\ \A rows : (\A x \in rows : x.op = e.op) => Rooted(rows, Append(s, e))
<1> DEFINE t == Append(s, e)
           n == Len(s)
<1>1. /\ IsSequence(t) /\ Len(t) = n + 1 /\ DOMAIN t = 1 .. n + 1
      /\ t[n + 1] = e /\ \A i \in 1 .. n : t[i] = s[i]
  BY AppendFacts
<1>2. n \in Nat /\ DOMAIN s = 1 .. n
  BY SequenceFacts
<1>3. e.version = n + 1
  OBVIOUS
<1> HIDE DEF t, n
<1>4. DOMAIN t = (1 .. n) \cup {n + 1} /\ n + 1 \notin 1 .. n
  BY <1>1, <1>2
<1>5. History(t)
  <2>1. ASSUME NEW i \in DOMAIN t PROVE t[i].version = i
    BY <1>1, <1>2, <1>3, <1>4 DEF History
  <2>2. ASSUME NEW i \in DOMAIN t, NEW j \in DOMAIN t, t[i].op = t[j].op PROVE i = j
    <3>1. CASE i \in 1 .. n /\ j \in 1 .. n
      BY <1>1, <1>2, <2>2, <3>1 DEF History
    <3>2. CASE i = n + 1 /\ j \in 1 .. n
      <4>1. t[i] = e /\ t[j] = s[j] /\ s[j].op # e.op
        BY <1>1, <1>2, <3>2
      <4> QED BY <2>2, <4>1
    <3>3. CASE j = n + 1 /\ i \in 1 .. n
      <4>1. t[j] = e /\ t[i] = s[i] /\ s[i].op # e.op
        BY <1>1, <1>2, <3>3
      <4> QED BY <2>2, <4>1
    <3> QED BY <1>4, <3>1, <3>2, <3>3
  <2> QED BY <2>1, <2>2 DEF History
<1>6. ASSUME NEW rows, Rooted(rows, s) PROVE Rooted(rows, t)
  BY <1>1, <1>2, <1>4, <1>6 DEF Rooted
<1>7. ASSUME NEW rows, \A x \in rows : x.op = e.op PROVE Rooted(rows, t)
  BY <1>1, <1>4, <1>7 DEF Rooted
<1> QED BY <1>1, <1>5, <1>6, <1>7 DEF t, n

LEMMA AppliedSound ==
  ASSUME NEW p, Sound(p), NEW r, IsReceipt(r), Prior(p, r) = {}, r.at >= p.last,
         Applied(p, r, Effect(p, r)).faults = {}
  PROVE  LET q == Applied(p, r, Effect(p, r)).portfolio
         IN  Sound(q) /\ q.initial = p.initial
<1> DEFINE m == Effect(p, r)
           c == Charged(m.portfolio, r)
           next == Recorded(c, r)
<1>1. /\ m.faults = {} /\ CostFaults(p, m, r) = {} /\ StateFaults(m, c) = {}
      /\ Applied(p, r, m).portfolio = next
  <2> HIDE DEF m
  <2>1. Applied(p, r, m).faults = m.faults \cup CostFaults(p, m, r) \cup StateFaults(m, c)
    BY DEF Applied, Decided, Outcome
  <2>2. m.faults \cup CostFaults(p, m, r) \cup StateFaults(m, c) = {}
    BY <2>1 DEF m
  <2> QED BY <2>2 DEF Applied, Decided, Outcome
<1>2. /\ Parts(p, p.last) /\ CashFits(p) /\ Priced(p.costs) /\ Distinct(p.costs)
      /\ p.version \in Nat /\ p.initial \in Nat /\ p.last \in Nat /\ p.pnl \in Int
      /\ IsSequence(p.applied) /\ p.version = Len(p.applied) /\ History(p.applied)
      /\ Owed(p.payables, p.costs) /\ Rooted(p.costs, p.applied)
      /\ Rooted(p.reservations, p.applied)
      /\ GlobalBook(p) = p.initial + p.pnl - Amounts(p.costs)
  BY SoundFacts
<1>3. Ready(p, r)
  <2>1. r.at \in Nat
    BY DEF IsReceipt
  <2>2. Parts(p, r.at)
    BY <1>2, <2>1, PartsLater
  <2> QED BY <1>2, <2>2 DEF Ready, CashFits
<1>4. Explained(p, r, m)
  BY <1>1, <1>3, EffectExplained
<1> HIDE DEF m, c
<1>5. Charges(p, r, m)
  BY <1>1, <1>2, <1>3, <1>4 DEF Charges, c
<1>6. /\ Parts(c, r.at) /\ CashFits(c) /\ Priced(c.costs) /\ Distinct(c.costs)
      /\ Owed(c.payables, c.costs) /\ c.costs = p.costs \cup {CostRow(r, k) : k \in r.costs}
      /\ c.version = p.version /\ c.initial = p.initial /\ c.applied = p.applied
      /\ c.last = p.last /\ \A x \in c.reservations : x \in p.reservations \/ x.op = r.op
      /\ GlobalBook(c) >= 0 /\ GlobalBook(c) \in Int
      /\ GlobalBook(c) - c.pnl = GlobalBook(p) - p.pnl - (Amounts(c.costs) - Amounts(p.costs))
  <2>1. c = Charged(m.portfolio, r)
    BY DEF c
  <2> QED BY <1>5, <2>1, ChargedSound
<1> DEFINE e == [op |-> r.op, receipt |-> r, version |-> p.version + 1]
<1>7. /\ IsBook(next) /\ next.version = p.version + 1 /\ next.last = r.at
      /\ next.applied = Append(p.applied, e)
      /\ \A f \in BookFields \ {"version", "last", "applied"} : next[f] = c[f]
  <2>1. IsBook(c)
    BY <1>6 DEF Parts
  <2>2. next = [c EXCEPT !.version = p.version + 1, !.last = r.at, !.applied = Append(p.applied, e)]
    BY <1>6 DEF Recorded
  <2> HIDE DEF next, e
  <2> QED BY <2>1, <2>2 DEF IsBook, BookFields
<1>8. e.version = Len(p.applied) + 1 /\ e.op = r.op
  BY <1>2
<1>9. \A i \in DOMAIN p.applied : p.applied[i].op # e.op
  BY <1>8 DEF Prior
<1> HIDE DEF e, next
<1>10. /\ History(next.applied) /\ IsSequence(next.applied)
       /\ Len(next.applied) = next.version
       /\ \A rows : Rooted(rows, p.applied) => Rooted(rows, next.applied)
       /\ \A rows : (\A x \in rows : x.op = r.op) => Rooted(rows, next.applied)
  BY <1>2, <1>7, <1>8, <1>9, HistoryGrows
<1>11. Rooted(next.costs, next.applied)
  <2>1. Rooted(p.costs, next.applied)
    BY <1>2, <1>10
  <2> DEFINE new == {CostRow(r, k) : k \in r.costs}
  <2>2. \A x \in new : x.op = r.op
    BY DEF CostRow
  <2>3. next.costs = p.costs \cup new
    BY <1>6, <1>7 DEF BookFields
  <2> HIDE DEF new
  <2>4. Rooted(new, next.applied)
    BY <1>10, <2>2
  <2> QED BY <2>1, <2>3, <2>4 DEF Rooted
<1>12. Rooted(next.reservations, next.applied)
  <2>1. Rooted(p.reservations, next.applied)
    BY <1>2, <1>10
  <2> DEFINE new == {x \in c.reservations : x.op = r.op}
  <2>2. \A x \in new : x.op = r.op
    OBVIOUS
  <2>3. next.reservations \subseteq p.reservations \cup new
    BY <1>6, <1>7 DEF BookFields
  <2> HIDE DEF new
  <2>4. Rooted(new, next.applied)
    BY <1>10, <2>2
  <2> QED BY <2>1, <2>3, <2>4 DEF Rooted
<1>13. /\ next.pnl = c.pnl /\ next.initial = p.initial /\ next.costs = c.costs
       /\ next.payables = c.payables /\ next.cash = c.cash
  BY <1>6, <1>7 DEF BookFields
<1>14. Parts(next, next.last) /\ CashFits(next)
  BY <1>6, <1>7 DEF Parts, CashFits, BookFields
<1>15. GlobalBook(next) = GlobalBook(c)
  BY <1>7 DEF GlobalBook, Gross, Books, BookFields
<1>16. GlobalBook(next) = next.initial + next.pnl - Amounts(next.costs) /\ GlobalBook(next) >= 0
  <2>1. Amounts(p.costs) \in Nat /\ Amounts(c.costs) \in Nat
    BY <1>2, <1>6, AmountsType
  <2>2. c.pnl \in Int
    BY <1>6 DEF Parts
  <2>3. GlobalBook(p) - p.pnl = p.initial - Amounts(p.costs)
    BY <1>2, <2>1
  <2>4. /\ GlobalBook(c) - c.pnl = GlobalBook(p) - p.pnl - (Amounts(c.costs) - Amounts(p.costs))
        /\ GlobalBook(c) >= 0 /\ GlobalBook(c) \in Int /\ p.initial \in Nat
    BY <1>2, <1>6
  <2>5. GlobalBook(c) = p.initial + c.pnl - Amounts(c.costs)
    BY <2>1, <2>2, <2>3, <2>4
  <2> QED BY <1>13, <1>15, <2>4, <2>5
<1>17. next.last \in Nat /\ next.version \in Nat /\ next.initial \in Nat
  BY <1>2, <1>7, <1>13, FieldTypes
<1>18. Sound(next)
  BY <1>6, <1>10, <1>11, <1>12, <1>13, <1>14, <1>16, <1>17, SoundBy
<1> QED BY <1>1, <1>13, <1>18 DEF m

(* Whatever a receipt asks for, and whether applyReceipt refuses it, applies it *)
(* or answers a repetition: the portfolio it returns is sound again, to the     *)
(* last clause of assertPortfolio, and of the same capital.                     *)
THEOREM ReceiptsKeepBooksSound ==
  ASSUME NEW p, Sound(p), NEW r, IsReceipt(r)
  PROVE  LET q == ApplyReceipt(p, r).portfolio
         IN  Sound(q) /\ q.initial = p.initial
<1> DEFINE StaysSound(q) == Sound(q) /\ q.initial = p.initial
           a == Applied(p, r, Effect(p, r))
<1>1. StaysSound(p)
  OBVIOUS
<1>2. CASE Prior(p, r) # {}
  BY <1>1, <1>2 DEF ApplyReceipt, Outcome
<1>3. CASE Prior(p, r) = {} /\ ~(r.at >= p.last)
  <2>1. r.at \in Nat /\ p.last \in Nat
    BY SoundFacts DEF IsReceipt
  <2>2. r.at < p.last
    BY <1>3, <2>1
  <2> QED BY <1>1, <1>3, <2>2 DEF ApplyReceipt, Outcome
<1>4. CASE Prior(p, r) = {} /\ r.at >= p.last
  <2>1. ApplyReceipt(p, r).portfolio = p \/ ApplyReceipt(p, r) = a
    BY DEF ApplyReceipt, Outcome
  <2>2. a.faults = {} => StaysSound(a.portfolio)
    BY <1>4, AppliedSound
  <2>3. a.faults # {} => a.portfolio = p
    BY DEF Applied, Decided, Outcome
  <2> HIDE DEF a
  <2> QED BY <1>1, <2>1, <2>2, <2>3
<1> QED BY <1>2, <1>3, <1>4

-----------------------------------------------------------------------------
(* A receipt is a record of five fields joined with those of its kind.        *)
Fixed == {"op", "version", "at", "kind", "costs"}

LEMMA JoinedFacts ==
  ASSUME NEW s, NEW b
  PROVE  /\ DOMAIN Joined(s, b) = DOMAIN s \cup DOMAIN b
         /\ \A f \in DOMAIN s : Joined(s, b)[f] = s[f]
         /\ \A f \in DOMAIN b : f \notin DOMAIN s => Joined(s, b)[f] = b[f]
BY DEF Joined

LEMMA FieldsApart ==
  ASSUME NEW kind \in DOMAIN Fields
  PROVE  \A f \in Fields[kind] : f \notin Fixed
BY DEF Fields, Fixed

CostsFit(costs) == IsFiniteSet(costs) /\ \A c \in costs : IsCost(c)

Header(op, version, at, kind, costs) ==
  [op |-> op, version |-> version, at |-> at, kind |-> kind, costs |-> costs]

LEMMA ReceiptIs ==
  ASSUME NEW op, NEW version \in Nat, NEW at \in Nat, NEW kind \in DOMAIN Fields,
         NEW costs, CostsFit(costs), NEW b, DOMAIN b = Fields[kind],
         \A f \in Fields[kind] : Valid(b, f)
  PROVE  LET r == Joined(Header(op, version, at, kind, costs), b)
         IN  IsReceipt(r) /\ r.at = at /\ r.costs = costs /\ r.op = op /\ r.kind = kind
<1> DEFINE s == Header(op, version, at, kind, costs)
           r == Joined(s, b)
<1>1. DOMAIN s = Fixed /\ s.op = op /\ s.version = version /\ s.at = at /\ s.kind = kind /\ s.costs = costs
  BY DEF Fixed, Header
<1> HIDE DEF s
<1>2. /\ DOMAIN r = Fixed \cup Fields[kind] /\ \A f \in Fixed : r[f] = s[f]
      /\ \A f \in Fields[kind] : r[f] = b[f]
  <2>1. /\ DOMAIN r = DOMAIN s \cup DOMAIN b /\ \A f \in DOMAIN s : r[f] = s[f]
        /\ \A f \in DOMAIN b : f \notin DOMAIN s => r[f] = b[f]
    BY JoinedFacts
  <2>2. \A f \in Fields[kind] : f \notin Fixed
    BY FieldsApart
  <2> HIDE DEF r
  <2> QED BY <1>1, <2>1, <2>2
<1> HIDE DEF r
<1>3. r.op = op /\ r.version = version /\ r.at = at /\ r.kind = kind /\ r.costs = costs
  BY <1>1, <1>2 DEF Fixed
<1>4. \A f \in Fields[kind] : Valid(r, f)
  BY <1>2 DEF Valid
<1>5. IsReceipt(r)
  BY <1>2, <1>3, <1>4 DEF IsReceipt, CostsFit, Fixed
<1> QED BY <1>3, <1>5 DEF r, s

(* The same receipt, delivered as another operation, at another version.      *)
LEMMA DatedReceipt ==
  ASSUME NEW r, IsReceipt(r), NEW at \in Nat
  PROVE  IsReceipt([r EXCEPT !.at = at])
<1> DEFINE s == [r EXCEPT !.at = at]
<1>1. r.kind \in DOMAIN Fields /\ DOMAIN r = Fixed \cup Fields[r.kind]
  BY DEF IsReceipt, Fixed
<1>2. DOMAIN s = DOMAIN r /\ s.at = at /\ \A f \in DOMAIN r : f # "at" => s[f] = r[f]
  BY <1>1 DEF Fixed
<1> HIDE DEF s
<1>3. /\ s.version = r.version /\ s.kind = r.kind /\ s.costs = r.costs
      /\ \A f \in Fields[r.kind] : s[f] = r[f]
  <2>1. \A f \in Fields[r.kind] : f # "at"
    BY <1>1, FieldsApart DEF Fixed
  <2> QED BY <1>1, <1>2, <2>1 DEF Fixed
<1>4. \A f \in Fields[r.kind] : Valid(s, f)
  <2>1. \A f \in Fields[r.kind] : Valid(r, f)
    BY DEF IsReceipt
  <2> QED BY <1>3, <2>1 DEF Valid
<1>5. IsReceipt(s)
  BY <1>1, <1>2, <1>3, <1>4 DEF IsReceipt, Fixed
<1> QED BY <1>5 DEF s

-----------------------------------------------------------------------------
(* What the adapters answer.                                                  *)
CeilType == \A a, b \in Nat : \A d \in Nat \ {0} : Ceil(a, b, d) \in Nat

LEMMA CeilIsNat == CeilType
<1> SUFFICES ASSUME NEW a \in Nat, NEW b \in Nat, NEW d \in Nat \ {0} PROVE Ceil(a, b, d) \in Nat
  BY DEF CeilType
<1>1. a * b \in Nat
  BY Product
<1> DEFINE m == a * b
<1>2. \A k \in Nat : (k + d - 1) \div d \in Nat
  <2> TAKE k \in Nat
  <2>1. k + d - 1 \in Nat
    OBVIOUS
  <2> DEFINE j == k + d - 1
  <2> HIDE DEF j
  <2>2. j \in Nat => j \div d \in Nat
    OBVIOUS
  <2> QED BY <2>1, <2>2 DEF j
<1> HIDE DEF m
<1> QED BY <1>1, <1>2 DEF Ceil, CeilDiv

ContextFits(context) ==
  context.version \in Nat /\ context.at \in Nat /\ context.family \in Family

GaugeFits(gas, conversion) ==
  gas.wei \in Nat /\ conversion.num \in Nat /\ conversion.den \in Nat \ {0}

AnswerFits(a) ==
  a.faults = {} => IsSequence(a.receipts) /\ \A i \in DOMAIN a.receipts : IsReceipt(a.receipts[i])

LEMMA GasFits ==
  ASSUME NEW id, NEW gas, NEW conversion, NEW context, GaugeFits(gas, conversion)
  PROVE  IsCost(GasCost(id, gas, conversion, context))
<1>1. GasAmount(gas, conversion) \in Nat
  BY CeilIsNat DEF CeilType, GaugeFits, GasAmount
<1> QED BY <1>1 DEF GasCost, Cost, IsCost

LEMMA WithheldFits ==
  ASSUME NEW id, NEW context, NEW amount \in Nat
  PROVE  CostsFit(Withheld(id, context, amount))
<1>1. IsFiniteSet({}) /\ IsFiniteSet({Cost(id, "WITHHELD", context, amount)})
  BY FS_EmptySet, FS_Singleton
<1>2. IsCost(Cost(id, "WITHHELD", context, amount))
  BY DEF Cost, IsCost
<1> QED BY <1>1, <1>2 DEF Withheld, CostsFit

LEMMA OneCostFits ==
  ASSUME NEW c, IsCost(c), NEW more, CostsFit(more)
  PROVE  CostsFit({c}) /\ CostsFit({c} \cup more) /\ CostsFit({})
<1>1. IsFiniteSet({c}) /\ IsFiniteSet({}) /\ IsFiniteSet({c} \cup more)
  <2>1. {c} \cup more = more \cup {c}
    OBVIOUS
  <2>2. IsFiniteSet(more \cup {c})
    BY FS_AddElement DEF CostsFit
  <2> QED BY <2>1, <2>2, FS_EmptySet, FS_Singleton
<1> QED BY <1>1 DEF CostsFit

LEMMA NoCostFits == CostsFit({})
BY FS_EmptySet DEF CostsFit

LEMMA GasOnly ==
  ASSUME NEW id, NEW gas, NEW conversion, NEW context, GaugeFits(gas, conversion)
  PROVE  CostsFit({GasCost(id, gas, conversion, context)})
BY GasFits, NoCostFits, OneCostFits

LEMMA GasAndWithheld ==
  ASSUME NEW id, NEW gas, NEW conversion, NEW context, GaugeFits(gas, conversion),
         NEW other, NEW amount \in Nat
  PROVE  CostsFit({GasCost(id, gas, conversion, context)} \cup Withheld(other, context, amount))
BY GasFits, WithheldFits, OneCostFits

LEMMA PinnedFits ==
  ASSUME NEW context, ContextFits(context), NEW steps \in Nat, NEW op, NEW kind \in DOMAIN Fields,
         NEW costs, CostsFit(costs), NEW b, DOMAIN b = Fields[kind],
         \A f \in Fields[kind] : Valid(b, f)
  PROVE  IsReceipt(Pinned(context, steps, op, kind, costs, b))
<1> DEFINE version == context.version + steps
           at == context.at
<1>1. version \in Nat /\ at \in Nat
  BY DEF ContextFits
<1>2. Pinned(context, steps, op, kind, costs, b)
        = Joined(Header(op, version, at, kind, costs), b)
  BY DEF Pinned, Header
<1> HIDE DEF version, at
<1> QED BY <1>1, <1>2, ReceiptIs

LEMMA OneReceipt ==
  ASSUME NEW faults, NEW r, faults = {} => IsReceipt(r)
  PROVE  AnswerFits(Answer(faults, <<r>>))
<1>1. IsSequence(<<r>>) /\ DOMAIN <<r>> = {1} /\ <<r>>[1] = r
  <2>1. <<r>> \in Seq({r})
    OBVIOUS
  <2>2. Len(<<r>>) = 1 /\ <<r>>[1] = r
    OBVIOUS
  <2>3. IsSequence(<<r>>)
    BY <2>1 DEF IsSequence
  <2>4. DOMAIN <<r>> = 1 .. 1
    BY <2>2, <2>3, SequenceFacts
  <2> QED BY <2>2, <2>3, <2>4
<1> QED BY <1>1 DEF AnswerFits, Answer

LEMMA ApproveFits ==
  ASSUME NEW context, ContextFits(context), NEW op, NEW allowance, NEW amount \in Nat,
         NEW cost, IsCost(cost)
  PROVE  IsReceipt(ApproveReceipt(context, op, allowance, amount, cost))
<1> DEFINE b == [id |-> allowance, amount |-> amount]
           costs == {cost}
<1>1. DOMAIN b = Fields["APPROVE"] /\ "APPROVE" \in DOMAIN Fields
  BY DEF Fields
<1>2. \A f \in Fields["APPROVE"] : Valid(b, f)
  BY DEF Fields, Valid
<1>3. CostsFit(costs)
  BY NoCostFits, OneCostFits
<1>4. ApproveReceipt(context, op, allowance, amount, cost)
        = Pinned(context, 0, op, "APPROVE", costs, b)
  BY DEF ApproveReceipt
<1> HIDE DEF b, costs
<1> QED BY <1>1, <1>2, <1>3, <1>4, PinnedFits

LEMMA ApprovalAnswers ==
  ASSUME NEW context, ContextFits(context), NEW in, in.amount \in Nat,
         GaugeFits(in.gas, in.conversion)
  PROVE  AnswerFits(Erc20Approval(context, in))
<1> DEFINE op == <<in.op, "approval">>
           nothing == Pinned(context, 0, op, "NO_EFFECT", {}, << >>)
           cost == GasCost(<<in.op, "approval-gas">>, in.gas, in.conversion, context)
           approve == ApproveReceipt(context, op, in.allowance, in.amount, cost)
           faults == Erc20Approval(context, in).faults
<1>1. IsReceipt(nothing)
  <2>1. DOMAIN << >> = Fields["NO_EFFECT"] /\ "NO_EFFECT" \in DOMAIN Fields
    BY DEF Fields
  <2>2. \A f \in Fields["NO_EFFECT"] : Valid(<< >>, f)
    BY DEF Fields
  <2> HIDE DEF op
  <2> QED BY <2>1, <2>2, NoCostFits, PinnedFits
<1>2. IsReceipt(approve)
  <2>1. IsCost(cost)
    BY GasFits
  <2> HIDE DEF op, cost
  <2> QED BY <2>1, ApproveFits
<1>3. PICK given : \/ Erc20Approval(context, in) = Answer(given, <<nothing>>)
                   \/ Erc20Approval(context, in) = Answer(given, <<approve>>)
  <2> DEFINE some == Stale({in.gas, in.conversion}, context)
                 \cup RoundExpired(in.conversion, context)
                 \cup Fault(in.gas.amount # in.amount, "DATA_UNAVAILABLE")
                 \cup (IF in.current >= in.amount THEN {} ELSE NoGas(in.gas, in.conversion))
  <2>1. Erc20Approval(context, in)
          = Answer(some, IF in.current >= in.amount THEN <<nothing>> ELSE <<approve>>)
    BY DEF Erc20Approval
  <2> HIDE DEF some, nothing, approve
  <2> QED BY <2>1
<1> HIDE DEF nothing, approve
<1> QED BY <1>1, <1>2, <1>3, OneReceipt

LEMMA SupplyAnswers ==
  ASSUME NEW context, ContextFits(context), NEW in, in.amount \in Nat,
         GaugeFits(in.gas, in.conversion), GaugeFits(in.approvalGas, in.conversion)
  PROVE  AnswerFits(AaveSupply(context, in))
<1> DEFINE cost == GasCost(<<in.op, "approval-gas">>, in.approvalGas, in.conversion, context)
           approve == ApproveReceipt(context, <<in.op, "approve">>, in.allowance, in.amount, cost)
           approvals == IF in.current >= in.amount THEN << >> ELSE <<approve>>
           b == [family |-> context.family, position |-> in.position, shares |-> in.amount,
                 num |-> 1, den |-> 1, amount |-> in.amount]
           gas == GasCost(<<in.op, "supply-gas">>, in.gas, in.conversion, context)
           op == <<in.op, "deposit">>
           deposit == Pinned(context, DepositStep(approvals), op, "DEPOSIT", {gas}, b)
<1>1. IsReceipt(approve)
  <2>1. IsCost(cost)
    BY GasFits
  <2> HIDE DEF cost
  <2> QED BY <2>1, ApproveFits
<1>2. /\ IsSequence(approvals) /\ DepositStep(approvals) \in Nat
      /\ \A i \in DOMAIN approvals : IsReceipt(approvals[i])
  <2>1. <<approve>> \in Seq({approve}) /\ << >> \in Seq({approve}) /\ approvals \in {<<approve>>, << >>}
    OBVIOUS
  <2>2. approvals \in Seq({approve})
    BY <2>1
  <2>3. IsSequence(approvals)
    BY <2>2 DEF IsSequence
  <2> HIDE DEF approve, approvals
  <2>4. \A i \in DOMAIN approvals : approvals[i] = approve
    BY <2>2
  <2> QED BY <1>1, <2>3, <2>4, SequenceFacts DEF DepositStep
<1>3. IsReceipt(deposit)
  <2>1. DOMAIN b = Fields["DEPOSIT"] /\ "DEPOSIT" \in DOMAIN Fields
    BY DEF Fields
  <2>2. \A f \in Fields["DEPOSIT"] : Valid(b, f)
    BY DEF Fields, Valid, ContextFits
  <2>3. CostsFit({gas})
    BY GasOnly
  <2> HIDE DEF b, gas, op, approvals
  <2> QED BY <1>2, <2>1, <2>2, <2>3, PinnedFits
<1> DEFINE s == Append(approvals, deposit)
<1>4. PICK faults : AaveSupply(context, in) = Answer(faults, s)
  BY DEF AaveSupply
<1> HIDE DEF approvals, deposit
<1>5. IsSequence(s) /\ \A i \in DOMAIN s : IsReceipt(s[i])
  <2>1. /\ IsSequence(s) /\ DOMAIN s = 1 .. Len(approvals) + 1
        /\ s[Len(approvals) + 1] = deposit /\ \A i \in 1 .. Len(approvals) : s[i] = approvals[i]
    BY <1>2, AppendFacts
  <2>2. Len(approvals) \in Nat /\ DOMAIN approvals = 1 .. Len(approvals)
    BY <1>2, SequenceFacts
  <2> DEFINE n == Len(approvals)
  <2> HIDE DEF s, n
  <2>3. \A i \in 1 .. n + 1 : i \in 1 .. n \/ i = n + 1
    BY <2>2 DEF n
  <2> QED BY <1>2, <1>3, <2>1, <2>2, <2>3 DEF n
<1> HIDE DEF s
<1> QED BY <1>4, <1>5 DEF AnswerFits, Answer

LEMMA AccrualAnswers ==
  ASSUME NEW context, ContextFits(context), NEW in, in.reserve.ray \in Nat,
         in.opening \in Nat \ {0}
  PROVE  AnswerFits(AaveAccrue(context, in))
<1> DEFINE b == [position |-> in.position, num |-> in.reserve.ray, den |-> in.opening]
           op == <<context.scenario, "aave-accrue">>
           r == Pinned(context, 0, op, "ACCRUE", {}, b)
<1>1. DOMAIN b = Fields["ACCRUE"] /\ "ACCRUE" \in DOMAIN Fields
  BY DEF Fields
<1>2. \A f \in Fields["ACCRUE"] : Valid(b, f)
  BY DEF Fields, Valid
<1>3. PICK faults : AaveAccrue(context, in) = Answer(faults, <<r>>)
  BY DEF AaveAccrue
<1>4. IsReceipt(r)
  <2> HIDE DEF b, op
  <2> QED BY <1>1, <1>2, NoCostFits, PinnedFits
<1> HIDE DEF r
<1> QED BY <1>3, <1>4, OneReceipt

LEMMA WithdrawalAnswers ==
  ASSUME NEW context, ContextFits(context), NEW in, in.shares \in Nat, in.book \in Nat,
         GaugeFits(in.gas, in.conversion)
  PROVE  AnswerFits(AaveWithdraw(context, in))
<1> DEFINE b == [family |-> context.family, position |-> in.position,
                 shares |-> in.shares, amount |-> in.book]
           op == <<context.scenario, "aave-withdraw">>
           gas == GasCost(<<context.scenario, "aave-withdraw-gas">>, in.gas, in.conversion, context)
           r == Pinned(context, 0, op, "WITHDRAW", {gas}, b)
<1>1. DOMAIN b = Fields["WITHDRAW"] /\ "WITHDRAW" \in DOMAIN Fields
  BY DEF Fields
<1>2. \A f \in Fields["WITHDRAW"] : Valid(b, f)
  BY DEF Fields, Valid, ContextFits
<1>3. PICK faults : AaveWithdraw(context, in) = Answer(faults, <<r>>)
  BY DEF AaveWithdraw
<1>4. CostsFit({gas})
  BY GasOnly
<1>5. IsReceipt(r)
  <2> HIDE DEF b, op, gas
  <2> QED BY <1>1, <1>2, <1>4, PinnedFits
<1> HIDE DEF r
<1> QED BY <1>3, <1>5, OneReceipt

LEMMA VaultDepositAnswers ==
  ASSUME NEW context, ContextFits(context), NEW in, in.amount \in Nat, in.vault.shares \in Nat,
         in.vault.depositFee \in Nat, GaugeFits(in.gas, in.conversion)
  PROVE  AnswerFits(VaultDeposit(context, in))
<1> DEFINE fee == Ceil(in.amount, in.vault.depositFee, Bps)
           b == [family |-> context.family, position |-> in.position,
                 shares |-> in.vault.shares, num |-> in.amount - fee,
                 den |-> in.vault.shares, amount |-> in.amount]
           op == <<context.scenario, "vault-deposit">>
           costs == {GasCost(<<context.scenario, "vault-deposit-gas">>, in.gas, in.conversion,
                             context)}
                      \cup Withheld(<<context.scenario, "vault-entry-fee">>, context, fee)
           r == Pinned(context, 0, op, "DEPOSIT", costs, b)
<1>1. DOMAIN b = Fields["DEPOSIT"] /\ "DEPOSIT" \in DOMAIN Fields
  BY DEF Fields
<1>2. fee \in Nat
  BY CeilIsNat, AdapterAssumption DEF CeilType
<1>3. PICK faults : /\ VaultDeposit(context, in) = Answer(faults, <<r>>)
                    /\ faults = {} => ~(in.vault.shares = 0) /\ ~(fee >= in.amount)
  <2> DEFINE faults == VaultDeposit(context, in).faults
             all == Stale({in.vault, in.gas, in.conversion}, context)
                 \cup RoundExpired(in.conversion, context)
                 \cup Fault(in.vault.amount # in.amount \/ in.gas.amount # in.amount,
                            "DATA_UNAVAILABLE")
                 \cup Fault(in.amount > in.vault.maxDeposit \/ in.vault.shares > in.vault.maxMint,
                            "LIMIT_EXCEEDED")
                 \cup Fault(in.vault.shares = 0, "LIMIT_EXCEEDED")
                 \cup Fault(fee >= in.amount, "ZERO_INDEX")
                 \cup NoGas(in.gas, in.conversion)
  <2>1. VaultDeposit(context, in) = Answer(all, <<r>>)
    BY DEF VaultDeposit
  <2>2. all = {} => /\ Fault(in.vault.shares = 0, "LIMIT_EXCEEDED") = {}
                    /\ Fault(fee >= in.amount, "ZERO_INDEX") = {}
    BY Zenon
  <2> HIDE DEF all, r
  <2> QED BY <2>1, <2>2, NoFault
<1>4. CostsFit(costs)
  BY <1>2, GasAndWithheld
<1>5. faults = {} => IsReceipt(r)
  <2> SUFFICES ASSUME faults = {} PROVE IsReceipt(r)
    OBVIOUS
  <2>1. ~(in.vault.shares = 0) /\ ~(fee >= in.amount)
    BY <1>3
  <2> HIDE DEF fee
  <2>2. in.amount - fee \in Nat /\ in.vault.shares \in Nat \ {0}
    BY <1>2, <2>1
  <2>3. \A f \in Fields["DEPOSIT"] : Valid(b, f)
    BY <2>2 DEF Fields, Valid, ContextFits
  <2> HIDE DEF b, op, costs
  <2> QED BY <1>1, <1>4, <2>3, PinnedFits
<1> HIDE DEF r
<1> QED BY <1>3, <1>5, OneReceipt

LEMMA VaultRedeemAnswers ==
  ASSUME NEW context, ContextFits(context), NEW in, in.shares \in Nat, in.book \in Nat,
         in.vault.assets \in Nat, in.vault.redeemFee \in Nat, GaugeFits(in.gas, in.conversion)
  PROVE  AnswerFits(VaultRedeem(context, in))
<1> DEFINE credit == in.vault.assets - RedeemFee(in.vault)
           gap == ExitGap(in, credit)
           b == [family |-> context.family, position |-> in.position,
                 shares |-> in.shares, amount |-> credit]
           op == <<context.scenario, "vault-redeem">>
           costs == {GasCost(<<context.scenario, "vault-redeem-gas">>, in.gas, in.conversion,
                             context)}
                      \cup Withheld(<<context.scenario, "vault-exit-gap">>, context, gap)
           r == Pinned(context, 0, op, "WITHDRAW", costs, b)
<1>1. DOMAIN b = Fields["WITHDRAW"] /\ "WITHDRAW" \in DOMAIN Fields
  BY DEF Fields
<1>2. credit \in Int
  <2>1. RedeemFee(in.vault) \in Nat
    BY CeilIsNat, AdapterAssumption DEF CeilType, RedeemFee
  <2> QED BY <2>1
<1>3. PICK faults : /\ VaultRedeem(context, in) = Answer(faults, <<r>>)
                    /\ faults = {} => ~(credit < 0 \/ credit > in.book)
  <2> DEFINE all == Stale({in.vault, in.gas, in.conversion}, context)
                 \cup RoundExpired(in.conversion, context)
                 \cup Fault(in.gas.amount # in.book, "DATA_UNAVAILABLE")
                 \cup Fault(in.shares > in.vault.maxRedeem \/ in.vault.assets > in.vault.maxWithdraw,
                            "LIMIT_EXCEEDED")
                 \cup Fault(in.vault.assets > in.vault.exit, "LIQUIDITY_UNAVAILABLE")
                 \cup Fault(credit < 0 \/ credit > in.book, "CREATES")
                 \cup NoGas(in.gas, in.conversion)
  <2>1. VaultRedeem(context, in) = Answer(all, <<r>>)
    BY DEF VaultRedeem
  <2>2. all = {} => Fault(credit < 0 \/ credit > in.book, "CREATES") = {}
    BY Zenon
  <2> HIDE DEF all, r
  <2> QED BY <2>1, <2>2, NoFault
<1>4. faults = {} => IsReceipt(r)
  <2> SUFFICES ASSUME faults = {} PROVE IsReceipt(r)
    OBVIOUS
  <2>1. ~(credit < 0 \/ credit > in.book)
    BY <1>3
  <2>2. credit \in Nat /\ gap \in Nat
    <3> HIDE DEF credit
    <3> QED BY <1>2, <2>1 DEF ExitGap
  <2>3. CostsFit(costs)
    <3> HIDE DEF gap
    <3> QED BY <2>2, GasAndWithheld
  <2>4. \A f \in Fields["WITHDRAW"] : Valid(b, f)
    <3> HIDE DEF credit
    <3> QED BY <2>2 DEF Fields, Valid, ContextFits
  <2> HIDE DEF b, op, costs
  <2> QED BY <1>1, <2>3, <2>4, PinnedFits
<1> HIDE DEF r
<1> QED BY <1>3, <1>4, OneReceipt

QuotesFit(quotes) ==
  /\ IsFiniteSet(quotes)
  /\ \A q \in quotes : q.out \in Nat

(* The best of a finite set of quotes is one of them.                         *)
LEMMA BestQuote ==
  ASSUME NEW S, QuotesFit(S), S # {}
  PROVE  \E q \in S : \A o \in S : o.out <= q.out
<1> DEFINE Best(T) == T = {} \/ \E q \in T : \A o \in T : o.out <= q.out
           X == {T \in SUBSET S : Best(T)}
<1>1. {} \in X
  OBVIOUS
<1>2. ASSUME NEW T \in SUBSET S, NEW x \in S \ T, T \in X
      PROVE  T \cup {x} \in X
  <2>1. \A q \in S : q.out \in Nat
    BY DEF QuotesFit
  <2>2. Best(T \cup {x})
    <3>1. CASE T = {}
      <4>1. \A o \in T \cup {x} : o.out <= x.out
        BY <2>1, <3>1
      <4> QED BY <4>1
    <3>2. CASE T # {}
      <4>1. PICK q \in T : \A o \in T : o.out <= q.out
        BY <1>2, <3>2
      <4>2. q.out \in Nat /\ x.out \in Nat /\ \A o \in T : o.out \in Nat
        BY <2>1
      <4>3. CASE x.out <= q.out
        BY <4>1, <4>2, <4>3
      <4>4. CASE ~(x.out <= q.out)
        <5>1. \A o \in T \cup {x} : o.out <= x.out
          BY <4>1, <4>2, <4>4
        <5> QED BY <5>1
      <4> QED BY <4>3, <4>4
    <3> QED BY <3>1, <3>2
  <2> HIDE DEF Best
  <2> QED BY <2>2
<1>3. S \in X
  <2> HIDE DEF X
  <2> QED BY <1>1, <1>2, FiniteInduction DEF QuotesFit
<1> QED BY <1>3

LEMMA SwapAnswers ==
  ASSUME NEW context, NEW in, in.amount \in Nat, in.pair \in Family \X Family,
         QuotesFit(in.quotes), GaugeFits(in.gas, in.conversion), ContextFits(context)
  PROVE  AnswerFits(UniswapSwap(context, in))
<1> DEFINE out == Selected(in).out
           b == [family |-> in.pair[1], into |-> in.pair[2], amount |-> in.amount,
                 credit |-> out]
           op == <<context.scenario, "uniswap-swap">>
           costs == {GasCost(<<context.scenario, "swap-gas">>, in.gas, in.conversion, context)}
                      \cup Withheld(<<context.scenario, "swap-fee-impact">>, context,
                                    in.amount - out)
           r == Pinned(context, 0, op, "SWAP", costs, b)
           faults == SelectFaults(context, in)
<1>1. DOMAIN b = Fields["SWAP"] /\ "SWAP" \in DOMAIN Fields
  BY DEF Fields
<1>2. UniswapSwap(context, in) = Answer(faults, <<r>>)
  BY DEF UniswapSwap
<1>3. faults = {} => IsReceipt(r)
  <2> SUFFICES ASSUME faults = {} PROVE IsReceipt(r)
    OBVIOUS
  <2>1. /\ Candidates(in) # {}
        /\ Fault(Selected(in).out > in.amount, "CREATES") = {}
    <3> DEFINE first == Stale(in.quotes \cup {in.gas, in.conversion}, context)
                  \cup RoundExpired(in.conversion, context)
                  \cup Fault(in.gas.amount # in.amount, "DATA_UNAVAILABLE")
                  \cup NoGas(in.gas, in.conversion)
               last == IF Candidates(in) = {} THEN {"QUOTE_UNAVAILABLE"}
                       ELSE Fault(Selected(in).out < in.minimum, "SLIPPAGE_EXCEEDED")
                              \cup Fault(Selected(in).out > in.amount, "CREATES")
    <3>1. faults = first \cup last
      BY DEF SelectFaults
    <3> HIDE DEF first
    <3> QED BY <3>1
  <2>2. QuotesFit(Candidates(in))
    <3>1. Candidates(in) \subseteq in.quotes /\ IsFiniteSet(in.quotes)
      BY DEF Candidates, QuotesFit
    <3>2. IsFiniteSet(Candidates(in))
      BY <3>1, FS_Subset
    <3> QED BY <3>1, <3>2 DEF QuotesFit
  <2>3. \E q \in Candidates(in) : \A o \in Candidates(in) : o.out <= q.out
    BY <2>1, <2>2, BestQuote
  <2>4. Selected(in) \in Candidates(in)
    BY <2>3 DEF Selected
  <2>5. out \in Nat /\ ~(out > in.amount)
    BY <2>1, <2>2, <2>4, NoFault DEF QuotesFit
  <2> HIDE DEF out
  <2>6. in.amount - out \in Nat
    BY <2>5
  <2> DEFINE gap == in.amount - out
  <2>7. CostsFit(costs)
    <3>1. gap \in Nat
      BY <2>6
    <3> HIDE DEF gap
    <3>2. CostsFit({GasCost(<<context.scenario, "swap-gas">>, in.gas, in.conversion, context)}
                      \cup Withheld(<<context.scenario, "swap-fee-impact">>, context, gap))
      BY <3>1, GasAndWithheld
    <3> QED BY <3>2 DEF gap
  <2>8. \A f \in Fields["SWAP"] : Valid(b, f)
    BY <2>5 DEF Fields, Valid
  <2> HIDE DEF b, op, costs
  <2> QED BY <1>1, <2>7, <2>8, PinnedFits
<1> HIDE DEF r, faults
<1> QED BY <1>2, <1>3, OneReceipt

(* The operations of a history.                                               *)
Ops(p) == {p.applied[i].op : i \in DOMAIN p.applied}

LEMMA RepeatsIs ==
  ASSUME NEW p, NEW r
  PROVE  Prior(p, r) # {} <=> r.op \in Ops(p)
BY DEF Prior, Ops

(* A receipt that counts adds its operation, its costs and what it moves.     *)
Counted(p, r, q) ==
  /\ r.op \notin Ops(p) /\ r.version = p.version /\ p.last <= r.at
  /\ Effect(p, r).faults = {} /\ Explained(p, r, Effect(p, r))
  /\ q.version = p.version + 1 /\ q.last = r.at /\ q.initial = p.initial
  /\ Ops(q) = Ops(p) \cup {r.op}
  /\ q.costs = p.costs \cup {CostRow(r, c) : c \in r.costs}
  /\ \A f \in {"positions", "allowances", "reservations", "receivables", "closed"} :
       q[f] = Effect(p, r).portfolio[f]

LEMMA OpsGrow ==
  ASSUME NEW s, IsSequence(s), NEW e
  PROVE  {Append(s, e)[i].op : i \in DOMAIN Append(s, e)} = {s[i].op : i \in DOMAIN s} \cup {e.op}
<1> DEFINE n == Len(s)
           t == Append(s, e)
<1>1. /\ DOMAIN t = 1 .. n + 1 /\ t[n + 1] = e /\ \A i \in 1 .. n : t[i] = s[i]
  BY AppendFacts
<1>2. n \in Nat /\ DOMAIN s = 1 .. n
  BY SequenceFacts
<1> HIDE DEF t, n
<1>3. DOMAIN t = (1 .. n) \cup {n + 1}
  BY <1>1, <1>2
<1>4. {t[i].op : i \in DOMAIN t} = {s[i].op : i \in DOMAIN s} \cup {e.op}
  BY <1>1, <1>2, <1>3
<1> QED BY <1>4 DEF t

LEMMA CountsOrNot ==
  ASSUME NEW p, Sound(p), NEW r, IsReceipt(r)
  PROVE  LET a == ApplyReceipt(p, r)
         IN  /\ a.portfolio = p \/ (a.faults = {} /\ Counted(p, r, a.portfolio))
             /\ a.faults = {} /\ r.op \notin Ops(p) => Counted(p, r, a.portfolio)
             /\ a.faults # {} => a.portfolio = p
<1> DEFINE m == Effect(p, r)
           c == Charged(m.portfolio, r)
           a == ApplyReceipt(p, r)
           faults == m.faults \cup CostFaults(p, m, r) \cup StateFaults(m, c)
           q == Recorded(c, r)
<1>1. CASE r.op \in Ops(p)
  <2>1. Prior(p, r) # {}
    BY <1>1, RepeatsIs
  <2>2. a.portfolio = p
    BY <2>1 DEF ApplyReceipt, Outcome
  <2> QED BY <1>1, <2>2
<1>2. CASE r.op \notin Ops(p) /\ ~(r.version = p.version /\ ~(r.at < p.last))
  <2>1. Prior(p, r) = {}
    BY <1>2, RepeatsIs
  <2>2. a.portfolio = p /\ a.faults # {}
    BY <1>2, <2>1 DEF ApplyReceipt, Outcome
  <2> QED BY <2>2
<1>3. CASE r.op \notin Ops(p) /\ r.version = p.version /\ ~(r.at < p.last)
  <2>1. Prior(p, r) = {}
    BY <1>3, RepeatsIs
  <2>2. a = Outcome(p, {"CLOSED"}) \/ a = Outcome(IF faults = {} THEN q ELSE p, faults)
    <3>1. a = Outcome(p, {"CLOSED"}) \/ a = Applied(p, r, m)
      BY <1>3, <2>1 DEF ApplyReceipt
    <3>2. Applied(p, r, m) = Outcome(IF faults = {} THEN q ELSE p, faults)
      <4> HIDE DEF m
      <4> QED BY DEF Applied, Decided
    <3> QED BY <3>1, <3>2
  <2>3. CASE a = Outcome(p, {"CLOSED"})
    BY <2>3 DEF Outcome
  <2>4. CASE a = Outcome(p, faults) /\ faults # {}
    <3> HIDE DEF faults
    <3> QED BY <2>4 DEF Outcome
  <2>5. CASE a = Outcome(q, {}) /\ faults = {}
    <3>1. a.portfolio = q /\ a.faults = {}
      BY <2>5 DEF Outcome
    <3>2. r.at \in Nat /\ p.last \in Nat /\ p.version \in Nat /\ p.version = Len(p.applied)
          /\ IsSequence(p.applied)
      BY SoundFacts, FieldTypes
    <3>3. p.last <= r.at
      BY <1>3, <3>2
    <3>4. Ready(p, r)
      <4>1. Parts(p, r.at)
        BY <3>2, <3>3, SoundFacts, PartsLater
      <4> QED BY <3>2, <4>1, SoundFacts DEF Ready, CashFits
    <3>5. m.faults = {}
      BY <2>5
    <3>6. Explained(p, r, m)
      BY <3>4, <3>5, EffectExplained
    <3> HIDE DEF m, q, a
    <3>7. IsBook(m.portfolio) /\ Kept(p, m.portfolio, r.op)
      BY <3>6 DEF Explained, Parts
    <3>8. IsCharged(c, m.portfolio, r)
      BY <3>7, ChargedIs
    <3> HIDE DEF c, faults
    <3>9. /\ IsBook(c) /\ c.version = p.version /\ c.initial = p.initial /\ c.applied = p.applied
          /\ c.costs = p.costs \cup {CostRow(r, k) : k \in r.costs}
          /\ \A f \in {"positions", "allowances", "reservations", "receivables", "closed"} :
               c[f] = m.portfolio[f]
      BY <3>7, <3>8 DEF IsCharged, BookFields, Kept
    <3> DEFINE e == [op |-> r.op, receipt |-> r, version |-> p.version + 1]
    <3>10. /\ q.version = p.version + 1 /\ q.last = r.at /\ q.initial = p.initial
           /\ q.applied = Append(p.applied, e) /\ q.costs = c.costs
           /\ \A f \in {"positions", "allowances", "reservations", "receivables", "closed"} :
               q[f] = c[f]
      <4>1. q = [c EXCEPT !.version = p.version + 1, !.last = r.at,
                          !.applied = Append(p.applied, e)]
        BY <3>9 DEF Recorded, q
      <4> HIDE DEF e
      <4> QED BY <3>9, <4>1 DEF IsBook, BookFields
    <3>11. Ops(q) = Ops(p) \cup {r.op}
      <4>1. e.op = r.op
        OBVIOUS
      <4> HIDE DEF e
      <4> QED BY <3>2, <3>10, <4>1, OpsGrow DEF Ops
    <3>12. Counted(p, r, q)
      BY <1>3, <3>3, <3>5, <3>6, <3>9, <3>10, <3>11 DEF Counted, m
    <3> QED BY <3>1, <3>12 DEF a
  <2> HIDE DEF q, a, faults
  <2>6. \/ a = Outcome(q, {}) /\ faults = {}
        \/ a = Outcome(p, faults) /\ faults # {}
        \/ a = Outcome(p, {"CLOSED"})
    BY <2>2
  <2> QED BY <2>3, <2>4, <2>5, <2>6 DEF a
<1> QED BY <1>1, <1>2, <1>3

(* The rows a receipt does not move.                                          *)
Elsewhere(p, kind, q) ==
  /\ kind \notin {"DEPOSIT", "WITHDRAW", "ACCRUE"} => q.positions = p.positions
  /\ kind # "APPROVE" => q.allowances = p.allowances
  /\ kind # "RESERVE" => q.reservations \subseteq p.reservations
  /\ kind \notin {"RESERVE", "TRANSFER_BURNED", "TRANSFER_SOURCE_FAILED"}
       => q.reservations = p.reservations
  /\ kind \notin {"TRANSFER_BURNED"} \cup TransferMove => q.receivables = p.receivables

LEMMA NothingElsewhere ==
  ASSUME NEW p, NEW kind, NEW q,
         \A f \in {"positions", "allowances", "reservations", "receivables"} : q[f] = p[f]
  PROVE  Elsewhere(p, kind, q)
BY DEF Elsewhere

LEMMA MovesElsewhere ==
  ASSUME NEW p, IsBook(p), NEW r, r.kind \in TransferMove
  PROVE  Elsewhere(p, r.kind, MoveTransfer(p, r).portfolio)
<1> DEFINE q == MoveTransfer(p, r).portfolio
<1>1. \A f \in {"positions", "allowances", "reservations"} : q[f] = p[f]
  <2>1. CASE With(p.receivables, r.id) = {}
    BY <2>1 DEF MoveTransfer, Refuses, Moves
  <2>2. CASE With(p.receivables, r.id) # {}
    <3>1. CASE r.kind = "TRANSFER_READY"
      BY <2>2, <3>1 DEF MoveTransfer, Moves, IsBook, BookFields
    <3>2. CASE r.kind = "TRANSFER_DELAYED"
      BY <2>2, <3>2 DEF MoveTransfer, Moves, IsBook, BookFields
    <3>3. CASE r.kind = "TRANSFER_DESTINATION_RETRY"
      BY <2>2, <3>3 DEF MoveTransfer, Moves, IsBook, BookFields
    <3>4. CASE r.kind = "TRANSFER_SETTLED"
      BY <2>2, <3>4 DEF MoveTransfer, Moves, IsBook, BookFields
    <3> QED BY <3>1, <3>2, <3>3, <3>4 DEF TransferMove
  <2> QED BY <2>1, <2>2
<1> HIDE DEF q
<1>2. Elsewhere(p, r.kind, q)
  BY <1>1 DEF Elsewhere
<1> QED BY <1>2 DEF q

LEMMA RowsElsewhere ==
  ASSUME NEW p, IsBook(p), NEW r, r.kind \in DOMAIN Fields
  PROVE  Elsewhere(p, r.kind, Effect(p, r).portfolio)
<1>1. CASE r.kind \in {"NO_EFFECT", "COST"}
  <2>1. Effect(p, r) = Moves(p, 0, {})
    BY <1>1 DEF Effect, TransferMove
  <2> QED BY <2>1, NothingElsewhere DEF Moves
<1>2. CASE r.kind = "RESERVE"
  <2>1. Effect(p, r) = Reserve(p, r)
    BY <1>2 DEF Effect, TransferMove
  <2>2. \A f \in {"positions", "allowances", "receivables"} : Reserve(p, r).portfolio[f] = p[f]
    BY DEF Reserve, Moves, IsBook, BookFields
  <2> QED BY <1>2, <2>1, <2>2 DEF Elsewhere
<1>3. CASE r.kind = "APPROVE"
  <2>1. Effect(p, r) = Approve(p, r)
    BY <1>3 DEF Effect, TransferMove
  <2>2. \A f \in {"positions", "reservations", "receivables"} : Approve(p, r).portfolio[f] = p[f]
    BY DEF Approve, Moves, IsBook, BookFields
  <2> QED BY <1>3, <2>1, <2>2 DEF Elsewhere
<1>4. CASE r.kind = "DEPOSIT"
  <2>1. Effect(p, r) = Deposit(p, r)
    BY <1>4 DEF Effect, TransferMove
  <2>2. \A f \in {"allowances", "reservations", "receivables"} : Deposit(p, r).portfolio[f] = p[f]
    BY DEF Deposit, Moves, IsBook, BookFields
  <2> QED BY <1>4, <2>1, <2>2 DEF Elsewhere
<1>5. CASE r.kind = "WITHDRAW"
  <2>1. Effect(p, r) = Withdraw(p, r)
    BY <1>5 DEF Effect, TransferMove
  <2>2. \A f \in {"allowances", "reservations", "receivables"} : Withdraw(p, r).portfolio[f] = p[f]
    BY DEF Withdraw, Refuses, Moves, IsBook, BookFields
  <2> QED BY <1>5, <2>1, <2>2 DEF Elsewhere
<1>6. CASE r.kind = "SWAP"
  <2>1. Effect(p, r) = Swap(p, r)
    BY <1>6 DEF Effect, TransferMove
  <2>2. \A f \in {"positions", "allowances", "reservations", "receivables"} :
           Swap(p, r).portfolio[f] = p[f]
    BY DEF Swap, Moves, IsBook, BookFields
  <2> QED BY <2>1, <2>2, NothingElsewhere
<1>7. CASE r.kind = "PAYABLE_SETTLED"
  <2>1. Effect(p, r) = SettlePayable(p, r)
    BY <1>7 DEF Effect, TransferMove
  <2>2. \A f \in {"positions", "allowances", "reservations", "receivables"} :
           SettlePayable(p, r).portfolio[f] = p[f]
    BY DEF SettlePayable, Refuses, Moves, IsBook, BookFields
  <2> QED BY <2>1, <2>2, NothingElsewhere
<1>8. CASE r.kind = "TRANSFER_SOURCE_FAILED"
  <2>1. Effect(p, r) = SourceFailed(p, r)
    BY <1>8 DEF Effect, TransferMove
  <2>2. \A f \in {"positions", "allowances", "receivables"} :
           SourceFailed(p, r).portfolio[f] = p[f]
    BY DEF SourceFailed, Refuses, Moves, IsBook, BookFields
  <2>3. SourceFailed(p, r).portfolio.reservations \subseteq p.reservations
    BY DEF SourceFailed, Refuses, Moves, IsBook, BookFields
  <2> QED BY <1>8, <2>1, <2>2, <2>3 DEF Elsewhere
<1>9. CASE r.kind = "TRANSFER_BURNED"
  <2>1. Effect(p, r) = Burn(p, r)
    BY <1>9 DEF Effect, TransferMove
  <2>2. \A f \in {"positions", "allowances"} : Burn(p, r).portfolio[f] = p[f]
    BY DEF Burn, Refuses, Moves, IsBook, BookFields
  <2>3. Burn(p, r).portfolio.reservations \subseteq p.reservations
    BY DEF Burn, Refuses, Moves, IsBook, BookFields
  <2> QED BY <1>9, <2>1, <2>2, <2>3 DEF Elsewhere
<1>10. CASE r.kind \in TransferMove
  <2>1. Effect(p, r) = MoveTransfer(p, r)
    BY <1>10 DEF Effect, TransferMove
  <2> QED BY <1>10, <2>1, MovesElsewhere
<1>11. CASE r.kind = "ACCRUE"
  <2>1. Effect(p, r) = Accrue(p, r)
    BY <1>11 DEF Effect, TransferMove
  <2>2. \A f \in {"allowances", "reservations", "receivables"} : Accrue(p, r).portfolio[f] = p[f]
    BY DEF Accrue, Refuses, Moves, IsBook, BookFields
  <2> QED BY <1>11, <2>1, <2>2 DEF Elsewhere
<1>12. CASE r.kind = "CLOSE"
  <2>1. Effect(p, r) = Close(p, r)
    BY <1>12 DEF Effect, TransferMove
  <2>2. \A f \in {"positions", "allowances", "reservations", "receivables"} :
           Close(p, r).portfolio[f] = p[f]
    BY DEF Close, Moves, IsBook, BookFields
  <2> QED BY <2>1, <2>2, NothingElsewhere
<1> QED
  BY <1>1, <1>2, <1>3, <1>4, <1>5, <1>6, <1>7, <1>8, <1>9, <1>10, <1>11, <1>12
  DEF Fields, TransferMove

-----------------------------------------------------------------------------
(* What the receipts that move a row leave of it.                             *)
LEMMA AllowanceLeft ==
  ASSUME NEW p, IsBook(p), NEW r, r.kind = "APPROVE"
  PROVE  \A a \in Effect(p, r).portfolio.allowances : a \in p.allowances \/ a.id = r.id
<1>1. Effect(p, r) = Approve(p, r)
  BY DEF Effect, TransferMove
<1>2. Approve(p, r).portfolio.allowances
         = (p.allowances \ With(p.allowances, r.id)) \cup {[id |-> r.id, amount |-> r.amount]}
  BY DEF Approve, Moves, IsBook, BookFields
<1> QED BY <1>1, <1>2

LEMMA ReservationLeft ==
  ASSUME NEW p, IsBook(p), NEW r, r.kind = "RESERVE"
  PROVE  Effect(p, r).portfolio.reservations
           = p.reservations \cup
               {[id |-> r.id, op |-> r.op, family |-> r.family, amount |-> r.amount]}
<1>1. Effect(p, r) = Reserve(p, r)
  BY DEF Effect, TransferMove
<1>2. Reserve(p, r).portfolio.reservations
           = p.reservations \cup
               {[id |-> r.id, op |-> r.op, family |-> r.family, amount |-> r.amount]}
  BY DEF Reserve, Moves, IsBook, BookFields
<1> QED BY <1>1, <1>2

(* A fixed order of the index: what an accrual leaves of its position.        *)
LEMMA AccruedLeft ==
  ASSUME NEW p, NEW r, Ready(p, r), r.kind = "ACCRUE", Effect(p, r).faults = {}
  PROVE  \E x, y : /\ x \in p.positions /\ x.id = r.position
                   /\ Effect(p, r).portfolio.positions = (p.positions \ {x}) \cup {y}
                   /\ y.id = x.id /\ y.family = x.family /\ y.shares = x.shares
<1> DEFINE before == The(p.positions, r.position)
           next == [before EXCEPT !.num = r.num, !.den = r.den, !.at = r.at]
           after == Rebooked(next)
<1>1. Effect(p, r) = Accrue(p, r)
  BY DEF Effect, TransferMove
<1>2. With(p.positions, r.position) # {} /\ Fits(r.num) /\ Fits(r.den)
  BY <1>1 DEF Accrue, Refuses, Moves
<1>3. Accrue(p, r).portfolio.positions = (p.positions \ {before}) \cup {after}
  <2> HIDE DEF after
  <2>1. Accrue(p, r).portfolio = [p EXCEPT !.positions = (@ \ {before}) \cup {after},
                                           !.pnl = @ + (after.book - before.book)]
    BY <1>2 DEF Accrue, Moves, after
  <2> HIDE DEF before
  <2> QED BY <2>1, ReadyFacts DEF IsBook, BookFields
<1>4. before \in p.positions /\ before.id = r.position
  BY <1>2, TheOne
<1>5. IsPosition(before)
  BY <1>4, ReadyFacts DEF Parts, PositionsFit, PositionFits
<1>6. r.num \in Nat /\ r.den \in Nat \ {0} /\ r.at \in Nat
  BY FieldTypes DEF Ready, Fields
<1> HIDE DEF before
<1>7. IsPosition(next) /\ next.id = before.id /\ next.family = before.family
      /\ next.shares = before.shares
  BY <1>5, <1>6 DEF IsPosition, PositionFields
<1> HIDE DEF next
<1>8. after.id = before.id /\ after.family = before.family /\ after.shares = before.shares
  BY <1>7, RebookedIs
<1> QED BY <1>1, <1>3, <1>4, <1>8

LEMMA DepositLeft ==
  ASSUME NEW p, NEW r, Ready(p, r), r.kind = "DEPOSIT", Effect(p, r).faults = {}
  PROVE  \E y : /\ Effect(p, r).portfolio.positions
                     = (p.positions \ With(p.positions, r.position)) \cup {y}
                /\ y.id = r.position /\ y.family = r.family
                /\ With(p.positions, r.position) = {}
                     => y.shares = r.shares /\ y.book = Floor(r.shares, r.num, r.den)
<1> DEFINE held == With(p.positions, r.position)
           before == IF held # {} THEN The(held, r.position)
                     ELSE [id |-> r.position, family |-> r.family, shares |-> 0,
                           num |-> r.num, den |-> r.den, book |-> 0, rest |-> 0, at |-> r.at]
           more == [before EXCEPT !.shares = @ + r.shares, !.at = r.at]
           after == Rebooked(more)
<1>1. Effect(p, r) = Deposit(p, r)
  BY DEF Effect, TransferMove
<1>2. /\ r.family \in Family /\ r.amount \in Nat /\ r.shares \in Nat /\ r.num \in Nat
      /\ r.den \in Nat \ {0} /\ r.at \in Nat
  BY FieldTypes DEF Ready, Fields
<1>3. Deposit(p, r).portfolio.positions = (p.positions \ held) \cup {after}
  <2> HIDE DEF after
  <2>1. Deposit(p, r).portfolio = [p EXCEPT !.cash[r.family] = @ - r.amount,
                                            !.positions = (@ \ held) \cup {after}]
    BY DEF Deposit, Moves, after
  <2> HIDE DEF held
  <2> QED BY <2>1, ReadyFacts DEF IsBook, BookFields
<1>4. before.family = r.family
  <2> DEFINE bad == <<before.family, before.num, before.den>> # <<r.family, r.num, r.den>>
  <2>1. Fault(bad, "INDEX") = {}
    <3>1. \E S, T : Deposit(p, r).faults = (Fault(bad, "INDEX") \cup S) \cup T
      BY Zenon DEF Deposit, Moves
    <3> HIDE DEF bad
    <3> QED BY <1>1, <3>1
  <2> HIDE DEF before
  <2>2. ~ (<<before.family, before.num, before.den>> # <<r.family, r.num, r.den>>)
    BY <2>1, NoFault
  <2> QED BY <2>2
<1>5. IsPosition(before) /\ before.id = r.position /\ (held = {} => before.shares = 0)
      /\ (held = {} => before.num = r.num /\ before.den = r.den)
  <2>1. CASE held # {}
    <3> DEFINE x == The(held, r.position)
    <3>0. With(held, r.position) # {}
      BY <2>1 DEF With
    <3>1. x \in held /\ x.id = r.position
      BY <3>0, TheOne
    <3>2. before = x
      BY <2>1
    <3> HIDE DEF x, before
    <3>3. x \in p.positions
      BY <3>1 DEF With
    <3>4. IsPosition(x)
      BY <3>3, ReadyFacts DEF Parts, PositionsFit, PositionFits
    <3> QED BY <2>1, <3>1, <3>2, <3>4
  <2>2. CASE held = {}
    <3>1. before = [id |-> r.position, family |-> r.family, shares |-> 0,
                    num |-> r.num, den |-> r.den, book |-> 0, rest |-> 0, at |-> r.at]
      BY <2>2
    <3> HIDE DEF before
    <3>2. before = [f \in PositionFields |-> before[f]]
      BY <3>1 DEF PositionFields
    <3> QED BY <1>2, <3>1, <3>2 DEF IsPosition
  <2> QED BY <2>1, <2>2
<1> HIDE DEF before
<1>6. /\ IsPosition(more) /\ more.id = before.id /\ more.family = before.family
      /\ more.shares = before.shares + r.shares /\ more.num = before.num /\ more.den = before.den
  <2>1. /\ more = [f \in PositionFields |-> more[f]] /\ more.shares = before.shares + r.shares
        /\ more.id = before.id /\ more.num = before.num /\ more.den = before.den
        /\ more.family = before.family
        /\ more.at = r.at /\ more.book = before.book /\ more.rest = before.rest
    BY <1>5 DEF IsPosition, PositionFields
  <2> HIDE DEF more
  <2> QED BY <1>2, <1>5, <2>1 DEF IsPosition
<1> HIDE DEF more
<1>7. /\ after.id = more.id /\ after.family = more.family /\ after.shares = more.shares
      /\ after.book = Floor(more.shares, more.num, more.den)
  BY <1>6, RebookedIs
<1> HIDE DEF after
<1>8. held = {} => after.shares = r.shares /\ after.book = Floor(r.shares, r.num, r.den)
  BY <1>2, <1>5, <1>6, <1>7
<1> QED BY <1>1, <1>3, <1>4, <1>5, <1>6, <1>7, <1>8

LEMMA WithdrawalLeft ==
  ASSUME NEW p, NEW r, Ready(p, r), r.kind = "WITHDRAW", Effect(p, r).faults = {}
  PROVE  \A x \in Effect(p, r).portfolio.positions :
           \E y \in p.positions : y.id = x.id /\ y.family = x.family
<1> DEFINE before == The(p.positions, r.position)
           less == [before EXCEPT !.shares = @ - r.shares, !.at = r.at]
           after == Rebooked(less)
           put == IF after.shares = 0 THEN {} ELSE {after}
<1>1. Effect(p, r) = Withdraw(p, r)
  BY DEF Effect, TransferMove
<1>2. With(p.positions, r.position) # {}
  BY <1>1 DEF Withdraw, Refuses, Moves
<1>3. /\ Withdraw(p, r).portfolio = [p EXCEPT !.cash[r.family] = @ + r.amount,
                                              !.positions = (@ \ {before}) \cup put]
      /\ Fault(r.shares > before.shares, "SHARES") = {}
  BY <1>1, <1>2 DEF Withdraw, Moves
<1>4. before \in p.positions
  BY <1>2, TheOne
<1>5. IsPosition(before)
  BY <1>4, ReadyFacts DEF Parts, PositionsFit, PositionFits
<1>6. r.shares \in Nat /\ r.at \in Nat
  BY FieldTypes DEF Ready, Fields
<1> HIDE DEF before
<1>7. before.shares - r.shares \in Nat
  <2>1. ~ (r.shares > before.shares)
    BY <1>3, NoFault
  <2> QED BY <1>5, <1>6, <2>1 DEF IsPosition
<1>8. IsPosition(less) /\ less.id = before.id /\ less.family = before.family
  BY <1>5, <1>6, <1>7 DEF IsPosition, PositionFields
<1> HIDE DEF less
<1>9. after.id = before.id /\ after.family = before.family
  BY <1>8, RebookedIs
<1> HIDE DEF after
<1>10. \A x \in put : x = after
  OBVIOUS
<1> HIDE DEF put
<1>11. Withdraw(p, r).portfolio.positions = (p.positions \ {before}) \cup put
  BY <1>3, ReadyFacts DEF IsBook, BookFields
<1> QED BY <1>1, <1>4, <1>9, <1>10, <1>11

-----------------------------------------------------------------------------
(* What a portfolio is worth covers each of its parts.                        *)
LEMMA CashShare ==
  ASSUME NEW cash \in [Family -> Nat], NEW f \in Family
  PROVE  Total(cash) \in Nat /\ cash[f] <= Total(cash)
<1>1. SumFunction(cash) \in Nat /\ cash[f] <= SumFunction(cash)
  BY ReducerAssumption, SumNat
<1> QED BY <1>1 DEF Total

LEMMA GrossCovers ==
  ASSUME NEW p, Sound(p)
  PROVE  /\ Gross(p) \in Nat
         /\ \A f \in Family : p.cash[f] \in Nat /\ p.cash[f] <= Gross(p)
         /\ \A f \in Family : p.cash[f] < UintLimit
<1>1. Parts(p, p.last) /\ CashFits(p)
  BY SoundFacts
<1>2. p.cash \in [Family -> Nat] /\ p.cash \in [Family -> Int]
  BY <1>1 DEF CashFits
<1>3. /\ Amounts(p.reservations) \in Nat /\ BooksOf(p.positions) \in Nat
      /\ Amounts(p.receivables) \in Nat
  BY <1>1, <1>2, PartsWorth
<1>4. Gross(p) = Total(p.cash) + Amounts(p.reservations) + BooksOf(p.positions) + Amounts(p.receivables)
  <2>1. Books(p) = BooksOf(p.positions)
    BY Zenon DEF Books, BooksOf
  <2> QED BY <2>1 DEF Gross
<1>5. \A f \in Family : p.cash[f] \in Nat /\ p.cash[f] <= Total(p.cash) /\ Total(p.cash) \in Nat
  BY <1>2, CashShare
<1>6. Total(p.cash) \in Nat
  BY <1>2, ReducerAssumption, SumNat DEF Total
<1>7. \A f \in Family : p.cash[f] < UintLimit
  BY <1>1 DEF CashFits, Fits
<1> HIDE DEF CashFits
<1> QED BY <1>3, <1>4, <1>5, <1>6, <1>7

WithheldOf(r) == Amounts(Funded(r.costs, "WITHHELD"))

(* An index may outgrow uint256, an amount with what is held.                 *)
Outgrown(p, r) == r.kind = "ACCRUE" \/ ("amount" \in DOMAIN r /\ Gross(p) + r.amount >= UintLimit)

(* Before its costs, a receipt is refused for such a number or an early       *)
(* accrual only.                                                              *)
Admitted(p, r, m) ==
  /\ m.faults \subseteq Fault(r.kind = "ACCRUE", "TIME") \cup Fault(Outgrown(p, r), "OVERFLOW")
  /\ m.gap = WithheldOf(r)
  /\ \A f \in Family : m.portfolio.cash[f] >= UintLimit => Outgrown(p, r)

LEMMA WithheldIs ==
  ASSUME NEW r, IsReceipt(r)
  PROVE  WithheldOf(r) \in Nat /\ (r.costs = {} => WithheldOf(r) = 0)
<1>1. Priced(Funded(r.costs, "WITHHELD"))
  <2>1. IsFiniteSet(r.costs) /\ \A c \in r.costs : c.amount \in Nat
    BY DEF IsReceipt, IsCost
  <2>2. Funded(r.costs, "WITHHELD") \subseteq r.costs
    BY DEF Funded
  <2> QED BY <2>1, <2>2, FS_Subset DEF Priced
<1>2. r.costs = {} => Funded(r.costs, "WITHHELD") = {}
  BY DEF Funded
<1> QED BY <1>1, <1>2, AmountsType DEF WithheldOf

(* Cash that does not grow stays below the limit.                             *)
LEMMA CashStays ==
  ASSUME NEW p, Sound(p), NEW r, NEW m, m.portfolio.cash = p.cash
  PROVE  \A f \in Family : m.portfolio.cash[f] >= UintLimit => Outgrown(p, r)
<1>1. \A f \in Family : p.cash[f] \in Nat /\ p.cash[f] < UintLimit
  BY GrossCovers
<1> QED BY <1>1, ReducerAssumption

LEMMA CashSpent ==
  ASSUME NEW p, Sound(p), NEW r, NEW m, NEW g \in Family, NEW n \in Nat,
         m.portfolio.cash = [p.cash EXCEPT ![g] = @ - n]
  PROVE  \A f \in Family : m.portfolio.cash[f] >= UintLimit => Outgrown(p, r)
<1>1. \A f \in Family : p.cash[f] \in Nat /\ p.cash[f] < UintLimit
  BY GrossCovers
<1>2. p.cash \in [Family -> Nat]
  BY SoundFacts DEF CashFits
<1>3. ASSUME NEW f \in Family PROVE m.portfolio.cash[f] \in Int /\ m.portfolio.cash[f] < UintLimit
  BY <1>1, <1>2, ReducerAssumption
<1> QED BY <1>3, ReducerAssumption

LEMMA CashEarned ==
  ASSUME NEW p, Sound(p), NEW r, "amount" \in DOMAIN r, r.amount \in Nat, NEW m,
         NEW g \in Family, NEW n \in Nat, n <= r.amount, NEW cash \in [Family -> Int],
         \A f \in Family : cash[f] <= p.cash[f],
         m.portfolio.cash = [cash EXCEPT ![g] = @ + n]
  PROVE  \A f \in Family : m.portfolio.cash[f] >= UintLimit => Outgrown(p, r)
<1>1. /\ Gross(p) \in Nat
      /\ \A f \in Family : p.cash[f] \in Nat /\ p.cash[f] <= Gross(p) /\ p.cash[f] < UintLimit
  BY GrossCovers
<1>2. ASSUME NEW f \in Family, m.portfolio.cash[f] >= UintLimit PROVE Outgrown(p, r)
  <2>1. m.portfolio.cash[f] = cash[f] \/ m.portfolio.cash[f] = cash[f] + n
    OBVIOUS
  <2>2. cash[f] \in Int /\ cash[f] <= p.cash[f] /\ UintLimit \in Nat
    BY ReducerAssumption
  <2>3. cash[f] + n >= UintLimit
    BY <1>1, <1>2, <2>1, <2>2
  <2>4. Gross(p) + r.amount >= UintLimit
    BY <1>1, <2>2, <2>3
  <2> QED BY <2>4 DEF Outgrown
<1> QED BY <1>2

LEMMA PlainAdmitted ==
  ASSUME NEW p, Sound(p), NEW r, r.kind \in {"NO_EFFECT", "COST", "CLOSE"}, WithheldOf(r) = 0
  PROVE  Admitted(p, r, Effect(p, r))
<1> DEFINE m == Effect(p, r)
<1>1. IsBook(p)
  BY SoundFacts
<1>2. m.faults = {} /\ m.gap = 0 /\ m.portfolio.cash = p.cash
  <2>1. CASE r.kind # "CLOSE"
    <3>1. m = Moves(p, 0, {})
      BY <2>1 DEF Effect, TransferMove
    <3> HIDE DEF m
    <3> QED BY <3>1 DEF Moves
  <2>2. CASE r.kind = "CLOSE"
    <3>1. m = Close(p, r)
      BY <2>2 DEF Effect, TransferMove
    <3> HIDE DEF m
    <3> QED BY <1>1, <3>1 DEF Close, Moves, IsBook, BookFields
  <2> QED BY <2>1, <2>2
<1> HIDE DEF m
<1>3. Admitted(p, r, m)
  BY <1>2, CashStays DEF Admitted
<1> QED BY <1>3 DEF m

LEMMA ReserveAdmitted ==
  ASSUME NEW p, Sound(p), NEW r, IsReceipt(r), r.kind = "RESERVE", r.costs = {},
         With(p.reservations, r.id) = {}
  PROVE  Admitted(p, r, Effect(p, r))
<1> DEFINE m == Effect(p, r)
<1>1. IsBook(p) /\ r.family \in Family /\ r.amount \in Nat
  BY SoundFacts, FieldTypes DEF Fields
<1>2. m = Reserve(p, r)
  BY DEF Effect, TransferMove
<1> HIDE DEF m
<1>3. /\ m.faults = {} /\ m.gap = 0 /\ m.portfolio.cash = [p.cash EXCEPT ![r.family] = @ - r.amount]
  BY <1>1, <1>2 DEF Reserve, Moves, Fault, IsBook, BookFields
<1>4. Admitted(p, r, m)
  BY <1>1, <1>3, CashSpent, WithheldIs DEF Admitted
<1> QED BY <1>4 DEF m

LEMMA ApproveAdmitted ==
  ASSUME NEW p, Sound(p), NEW r, IsReceipt(r), r.kind = "APPROVE", WithheldOf(r) = 0,
         r.costs = {} \/ \A a \in With(p.allowances, r.id) : ~ (a.amount >= r.amount)
  PROVE  Admitted(p, r, Effect(p, r))
<1> DEFINE m == Effect(p, r)
<1>1. IsBook(p)
  BY SoundFacts
<1>2. m = Approve(p, r)
  BY DEF Effect, TransferMove
<1> HIDE DEF m
<1>3. /\ m.faults = {} /\ m.gap = 0 /\ m.portfolio.cash = p.cash
  BY <1>1, <1>2 DEF Approve, Moves, Fault, IsBook, BookFields
<1>4. Admitted(p, r, m)
  BY <1>3, CashStays DEF Admitted
<1> QED BY <1>4 DEF m

LEMMA DepositAdmitted ==
  ASSUME NEW p, Sound(p), NEW r, IsReceipt(r), r.kind = "DEPOSIT",
         With(p.positions, r.position) = {},
         Floor(r.shares, r.num, r.den) = r.amount - WithheldOf(r), WithheldOf(r) <= r.amount,
         Fits(r.shares) \/ r.shares = r.amount
  PROVE  Admitted(p, r, Effect(p, r))
<1> DEFINE m == Effect(p, r)
           before == [id |-> r.position, family |-> r.family, shares |-> 0,
                      num |-> r.num, den |-> r.den, book |-> 0, rest |-> 0, at |-> r.at]
           more == [before EXCEPT !.shares = @ + r.shares, !.at = r.at]
           after == Rebooked(more)
<1>1. /\ r.family \in Family /\ r.amount \in Nat /\ r.shares \in Nat /\ r.num \in Nat
      /\ r.den \in Nat \ {0} /\ r.at \in Nat /\ IsBook(p) /\ "amount" \in DOMAIN r
  BY SoundFacts, FieldTypes DEF Fields, IsReceipt
<1>2. m = Deposit(p, r)
  BY DEF Effect, TransferMove
<1>3. IsPosition(more) /\ more.shares = r.shares /\ more.num = r.num /\ more.den = r.den
  <2>1. before = [f \in PositionFields |-> before[f]]
    BY DEF PositionFields
  <2>2. /\ before.shares = 0 /\ before.num = r.num /\ before.den = r.den /\ before.book = 0
        /\ before.rest = 0 /\ before.at = r.at
    OBVIOUS
  <2> HIDE DEF before
  <2>3. /\ more = [f \in PositionFields |-> more[f]] /\ more.shares = before.shares + r.shares
        /\ more.num = before.num /\ more.den = before.den
        /\ more.at = r.at /\ more.book = before.book /\ more.rest = before.rest
    BY <2>1 DEF PositionFields
  <2> HIDE DEF more
  <2> QED BY <1>1, <2>2, <2>3 DEF IsPosition
<1>4. before.book = 0 /\ before.family = r.family /\ before.num = r.num /\ before.den = r.den
  OBVIOUS
<1> DEFINE drop == (p.positions \ With(p.positions, r.position)) \cup {after}
<1>5. m = Moves([p EXCEPT !.cash[r.family] = @ - r.amount, !.positions = drop],
                r.amount - (after.book - before.book),
                (Fault(<<before.family, before.num, before.den>> # <<r.family, r.num, r.den>>,
                      "INDEX")
                  \cup Fault(after.book - before.book > r.amount, "CREATES"))
                  \cup Fault(~Fits(after.shares) \/ ~Fits(after.book), "OVERFLOW"))
  BY <1>2, Zenon DEF Deposit
<1> HIDE DEF m, before, more
<1>6. after.shares = r.shares /\ after.book = Floor(r.shares, r.num, r.den)
  BY <1>3, RebookedIs
<1>7. WithheldOf(r) \in Nat
  BY WithheldIs
<1> HIDE DEF after, drop
<1>8. after.book \in Nat /\ after.book <= r.amount /\ r.amount - after.book = WithheldOf(r)
  BY <1>1, <1>6, <1>7
<1>9. m.gap = WithheldOf(r)
  BY <1>1, <1>4, <1>5, <1>8 DEF Moves
<1>10. m.faults = Fault(~Fits(after.shares) \/ ~Fits(after.book), "OVERFLOW")
  <2>1. Fault(<<before.family, before.num, before.den>> # <<r.family, r.num, r.den>>, "INDEX") = {}
    BY <1>4 DEF Fault
  <2>2. Fault(after.book - before.book > r.amount, "CREATES") = {}
    BY <1>1, <1>4, <1>8 DEF Fault
  <2> DEFINE F == Fault(~Fits(after.shares) \/ ~Fits(after.book), "OVERFLOW")
  <2>3. m.faults = ({} \cup {}) \cup F
    BY <1>5, <2>1, <2>2, Zenon DEF Moves
  <2> QED BY <2>3
<1>11. (~Fits(after.shares) \/ ~Fits(after.book)) => Outgrown(p, r)
  <2>1. SUFFICES ASSUME ~Fits(after.shares) \/ ~Fits(after.book)
                 PROVE  Gross(p) + r.amount >= UintLimit
    BY <1>1 DEF Outgrown
  <2>2. Gross(p) \in Nat /\ UintLimit \in Nat
    BY GrossCovers, ReducerAssumption
  <2>3. r.amount >= UintLimit
    BY <1>1, <1>6, <1>8, <2>1, <2>2 DEF Fits
  <2> QED BY <1>1, <2>2, <2>3
<1>12. m.portfolio.cash = [p.cash EXCEPT ![r.family] = @ - r.amount]
  BY <1>1, <1>5 DEF Moves, IsBook, BookFields
<1>13. \A f \in Family : m.portfolio.cash[f] >= UintLimit => Outgrown(p, r)
  BY <1>1, <1>12, CashSpent
<1>14. m.faults \subseteq Fault(Outgrown(p, r), "OVERFLOW")
  BY <1>10, <1>11 DEF Fault
<1>15. Admitted(p, r, m)
  BY <1>9, <1>13, <1>14 DEF Admitted
<1> QED BY <1>15 DEF m

LEMMA OneOf ==
  ASSUME NEW rows, Distinct(rows), NEW x \in rows
  PROVE  With(rows, x.id) # {} /\ The(rows, x.id) = x
<1>1. With(rows, x.id) # {}
  BY DEF With
<1>2. The(rows, x.id) \in rows /\ The(rows, x.id).id = x.id
  BY <1>1, TheOne
<1> QED BY <1>1, <1>2 DEF Distinct

LEMMA CashCredited ==
  ASSUME NEW p, Sound(p), NEW r, "amount" \in DOMAIN r, r.amount \in Nat, NEW m,
         NEW g \in Family, m.portfolio.cash = [p.cash EXCEPT ![g] = @ + r.amount]
  PROVE  \A f \in Family : m.portfolio.cash[f] >= UintLimit => Outgrown(p, r)
<1>1. p.cash \in [Family -> Int] /\ \A f \in Family : p.cash[f] <= p.cash[f]
  BY SoundFacts DEF CashFits
<1>2. r.amount <= r.amount
  OBVIOUS
<1> QED BY <1>1, <1>2, CashEarned

LEMMA WithdrawAdmitted ==
  ASSUME NEW p, Sound(p), NEW r, IsReceipt(r), r.kind = "WITHDRAW",
         NEW x \in p.positions, x.id = r.position, x.family = r.family, x.shares = r.shares,
         r.amount <= x.book, x.book - r.amount = WithheldOf(r)
  PROVE  Admitted(p, r, Effect(p, r))
<1> DEFINE m == Effect(p, r)
           less == [x EXCEPT !.shares = @ - r.shares, !.at = r.at]
           after == Rebooked(less)
           put == IF after.shares = 0 THEN {} ELSE {after}
           debit == BookDebit(x, after)
           left == (p.positions \ {x}) \cup put
<1>1. /\ r.family \in Family /\ r.amount \in Nat /\ r.shares \in Nat /\ r.at \in Nat /\ IsBook(p)
      /\ "amount" \in DOMAIN r
  BY SoundFacts, FieldTypes DEF Fields, IsReceipt
<1>2. Distinct(p.positions) /\ IsPosition(x)
  BY SoundFacts DEF Parts, PositionsFit, PositionFits
<1>3. With(p.positions, r.position) # {} /\ The(p.positions, r.position) = x
  BY <1>2, OneOf
<1>4. m = Withdraw(p, r)
  BY DEF Effect, TransferMove
<1>5. m = Moves([p EXCEPT !.cash[r.family] = @ + r.amount, !.positions = left],
                debit - r.amount,
                (Fault(x.family # r.family, "IDENTITY")
                  \cup Fault(r.shares > x.shares, "SHARES"))
                  \cup Fault(r.amount > debit, "CREATES"))
  BY <1>3, <1>4, Zenon DEF Withdraw
<1>6. IsPosition(less) /\ less.shares = 0
  <2>1. /\ less = [f \in PositionFields |-> less[f]] /\ less.shares = x.shares - r.shares
        /\ less.num = x.num /\ less.den = x.den
        /\ less.at = r.at /\ less.book = x.book /\ less.rest = x.rest
    BY <1>2 DEF IsPosition, PositionFields
  <2> HIDE DEF less
  <2> QED BY <1>1, <1>2, <2>1 DEF IsPosition
<1> HIDE DEF m, less, left
<1>7. after.book = 0
  <2>1. after.book = Floor(less.shares, less.num, less.den)
    BY <1>6, RebookedIs
  <2>2. \A n \in Nat : \A d \in Nat \ {0} : Floor(0, n, d) = 0
    BY DEF Floor
  <2> QED BY <1>6, <2>1, <2>2 DEF IsPosition
<1> HIDE DEF after
<1>8. debit = x.book /\ x.book \in Nat /\ x.shares \in Nat
  BY <1>2, <1>7 DEF BookDebit, IsPosition
<1> HIDE DEF debit
<1>9. m.gap = WithheldOf(r)
  BY <1>5, <1>8 DEF Moves
<1>10. m.faults = {}
  <2>1. ~(x.family # r.family) /\ ~(r.shares > x.shares) /\ ~(r.amount > debit)
    BY <1>1, <1>8
  <2> QED BY <1>5, <2>1 DEF Moves, Fault
<1>11. m.portfolio.cash = [p.cash EXCEPT ![r.family] = @ + r.amount]
  BY <1>1, <1>5 DEF Moves, IsBook, BookFields
<1>13. \A f \in Family : m.portfolio.cash[f] >= UintLimit => Outgrown(p, r)
  BY <1>1, <1>11, CashCredited
<1>14. Admitted(p, r, m)
  BY <1>9, <1>10, <1>13 DEF Admitted
<1> QED BY <1>14 DEF m

LEMMA SwapAdmitted ==
  ASSUME NEW p, Sound(p), NEW r, IsReceipt(r), r.kind = "SWAP",
         r.family # r.into, NetworkOf[r.family] = NetworkOf[r.into],
         r.credit <= r.amount, r.amount - r.credit = WithheldOf(r)
  PROVE  Admitted(p, r, Effect(p, r))
<1> DEFINE m == Effect(p, r)
           paid == [p EXCEPT !.cash[r.family] = @ - r.amount]
<1>1. /\ r.family \in Family /\ r.into \in Family /\ r.amount \in Nat /\ r.credit \in Nat
      /\ IsBook(p) /\ "amount" \in DOMAIN r /\ p.cash \in [Family -> Nat]
  BY SoundFacts, FieldTypes DEF Fields, IsReceipt, CashFits
<1>2. m = Swap(p, r)
  BY DEF Effect, TransferMove
<1>3. m = Moves([paid EXCEPT !.cash[r.into] = @ + r.credit], r.amount - r.credit,
                Fault(r.family = r.into \/ NetworkOf[r.family] # NetworkOf[r.into], "IDENTITY")
                  \cup Fault(r.credit > r.amount, "CREATES"))
  BY <1>2, Zenon DEF Swap
<1>4. IsBook(paid) /\ paid.cash = [p.cash EXCEPT ![r.family] = @ - r.amount]
  BY <1>1 DEF IsBook, BookFields
<1> HIDE DEF m, paid
<1>5. paid.cash \in [Family -> Int] /\ \A f \in Family : paid.cash[f] <= p.cash[f]
  BY <1>1, <1>4
<1>6. m.portfolio.cash = [paid.cash EXCEPT ![r.into] = @ + r.credit]
  BY <1>3, <1>4 DEF Moves, IsBook, BookFields
<1>7. m.gap = WithheldOf(r) /\ m.faults = {}
  BY <1>1, <1>3 DEF Moves, Fault
<1>8. \A f \in Family : m.portfolio.cash[f] >= UintLimit => Outgrown(p, r)
  BY <1>1, <1>5, <1>6, CashEarned
<1>9. Admitted(p, r, m)
  BY <1>7, <1>8 DEF Admitted
<1> QED BY <1>9 DEF m

LEMMA AccrueAdmitted ==
  ASSUME NEW p, Sound(p), NEW r, IsReceipt(r), r.kind = "ACCRUE", r.costs = {},
         With(p.positions, r.position) # {}
  PROVE  /\ Admitted(p, r, Effect(p, r)) /\ Effect(p, r).portfolio.cash = p.cash
         /\ Effect(p, r).gap = 0
<1> DEFINE m == Effect(p, r)
           before == The(p.positions, r.position)
           after == Rebooked([before EXCEPT !.num = r.num, !.den = r.den, !.at = r.at])
           book == [p EXCEPT !.positions = (@ \ {before}) \cup {after},
                             !.pnl = @ + (after.book - before.book)]
<1>1. IsBook(p) /\ WithheldOf(r) = 0
  BY SoundFacts, WithheldIs
<1>2. m = Accrue(p, r)
  BY DEF Effect, TransferMove
<1>3. Outgrown(p, r)
  BY DEF Outgrown
<1>4. m = Refuses(p, "OVERFLOW")
        \/ m = Moves(book, 0, (Fault(r.costs # {}, "COSTS") \cup Fault(r.at <= before.at, "TIME"))
                                 \cup Fault(~Fits(after.book), "OVERFLOW"))
  BY <1>2, Zenon DEF Accrue
<1> HIDE DEF m
<1>5. CASE m = Refuses(p, "OVERFLOW")
  <2>1. m.faults = {"OVERFLOW"} /\ m.gap = 0 /\ m.portfolio = p
    BY <1>5 DEF Refuses, Moves
  <2>2. Admitted(p, r, m)
    BY <1>1, <1>3, <2>1 DEF Admitted, Fault
  <2> QED BY <2>1, <2>2 DEF m
<1>6. CASE m = Moves(book, 0, (Fault(r.costs # {}, "COSTS") \cup Fault(r.at <= before.at, "TIME"))
                                 \cup Fault(~Fits(after.book), "OVERFLOW"))
  <2> HIDE DEF before, after
  <2>1. book.cash = p.cash
    BY <1>1 DEF IsBook, BookFields
  <2> HIDE DEF book
  <2>2. m.gap = 0 /\ m.portfolio.cash = p.cash
    BY <1>6, <2>1 DEF Moves
  <2>3. m.faults \subseteq {"TIME", "OVERFLOW"}
    BY <1>6 DEF Moves, Fault
  <2>4. Admitted(p, r, m)
    BY <1>1, <1>3, <2>2, <2>3 DEF Admitted, Fault
  <2> QED BY <2>2, <2>4 DEF m
<1> QED BY <1>4, <1>5, <1>6

LEMMA BurnAdmitted ==
  ASSUME NEW p, Sound(p), NEW r, IsReceipt(r), r.kind = "TRANSFER_BURNED", WithheldOf(r) = 0,
         p.receivables = {}, NEW x \in p.reservations, x.id = r.reservation,
         x.amount = r.amount, NetworkOf[x.family] # NetworkOf[r.family]
  PROVE  Admitted(p, r, Effect(p, r))
<1> DEFINE m == Effect(p, r)
           row == [id |-> r.id, message |-> r.message, family |-> r.family,
                   amount |-> r.amount, state |-> "IN_TRANSIT", tries |-> 0, at |-> r.at]
<1>1. IsBook(p) /\ r.amount \in Nat /\ Distinct(p.reservations)
  BY SoundFacts, FieldTypes DEF Fields, Parts, ReservationsFit
<1>2. With(p.reservations, r.reservation) # {} /\ The(p.reservations, r.reservation) = x
  BY <1>1, OneOf
<1>3. m = Burn(p, r)
  BY DEF Effect, TransferMove
<1>4. m = Moves([p EXCEPT !.reservations = @ \ {x}, !.receivables = @ \cup {row}],
                x.amount - r.amount,
                (Fault(\E y \in p.receivables : y.id = r.id \/ y.message = r.message, "EXISTS")
                   \cup Fault(NetworkOf[x.family] = NetworkOf[r.family], "IDENTITY"))
                   \cup Fault(r.amount > x.amount, "CREATES"))
  BY <1>2, <1>3, Zenon DEF Burn
<1> HIDE DEF m, row
<1>5. m.gap = WithheldOf(r) /\ m.faults = {}
  BY <1>1, <1>4 DEF Moves, Fault
<1>6. m.portfolio.cash = p.cash
  BY <1>1, <1>4 DEF Moves, IsBook, BookFields
<1>7. Admitted(p, r, m)
  BY <1>5, <1>6, CashStays DEF Admitted
<1> QED BY <1>7 DEF m

LEMMA MoveAdmitted ==
  ASSUME NEW p, Sound(p), NEW r, IsReceipt(r), r.kind \in TransferMove, WithheldOf(r) = 0,
         NEW x \in p.receivables, x.id = r.id, MayMove(r.kind, x),
         r.kind = "TRANSFER_SETTLED" => x.amount = r.amount
  PROVE  Admitted(p, r, Effect(p, r))
<1> DEFINE m == Effect(p, r)
           to(state, tries) == (p.receivables \ {x})
                                 \cup {[x EXCEPT !.state = state, !.tries = tries, !.at = r.at]}
           faults == Fault(~MayMove(r.kind, x), "TRANSITION")
<1>1. IsBook(p) /\ Distinct(p.receivables) /\ x.family \in Family
  BY SoundFacts DEF Parts, ReceivablesFit, ReceivableFits
<1>2. With(p.receivables, r.id) # {} /\ The(p.receivables, r.id) = x
  BY <1>1, OneOf
<1>3. m = MoveTransfer(p, r)
  BY DEF Effect, TransferMove
<1>4. faults = {}
  BY DEF Fault
<1>5. CASE r.kind \in {"TRANSFER_READY", "TRANSFER_DELAYED", "TRANSFER_DESTINATION_RETRY"}
  <2>1. \E rows : m = Moves([p EXCEPT !.receivables = rows], 0, faults)
    <3>1. CASE r.kind = "TRANSFER_READY"
      <4>1. m = Moves([p EXCEPT !.receivables = to("READY_TO_RECEIVE", x.tries)], 0, faults)
        BY <1>2, <1>3, <3>1 DEF MoveTransfer
      <4> HIDE DEF to, m, faults
      <4> QED BY <4>1
    <3>2. CASE r.kind = "TRANSFER_DELAYED"
      <4>1. m = Moves([p EXCEPT !.receivables = to("DELAYED", x.tries)], 0, faults)
        BY <1>2, <1>3, <3>2 DEF MoveTransfer
      <4> HIDE DEF to, m, faults
      <4> QED BY <4>1
    <3>3. CASE r.kind = "TRANSFER_DESTINATION_RETRY"
      <4>1. m = Moves([p EXCEPT !.receivables = to("DESTINATION_RETRY", x.tries + 1)], 0, faults)
        BY <1>2, <1>3, <3>3 DEF MoveTransfer
      <4> HIDE DEF to, m, faults
      <4> QED BY <4>1
    <3> QED BY <1>5, <3>1, <3>2, <3>3
  <2> HIDE DEF m, faults
  <2>2. m.gap = 0 /\ m.faults = {} /\ m.portfolio.cash = p.cash
    BY <1>1, <1>4, <2>1 DEF Moves, IsBook, BookFields
  <2>3. Admitted(p, r, m)
    BY <2>2, CashStays DEF Admitted
  <2> QED BY <2>3 DEF m
<1>6. CASE r.kind = "TRANSFER_SETTLED"
  <2> DEFINE left == p.receivables \ {x}
  <2>1. m = Moves([p EXCEPT !.receivables = left, !.cash[x.family] = @ + r.amount],
                  x.amount - r.amount, faults \cup Fault(r.amount > x.amount, "CREATES"))
    BY <1>2, <1>3, <1>6 DEF MoveTransfer
  <2>2. r.amount \in Nat /\ "amount" \in DOMAIN r /\ x.amount = r.amount
    BY <1>6, FieldTypes DEF Fields, IsReceipt
  <2> HIDE DEF m, faults, left
  <2>3. m.gap = 0 /\ m.faults = {}
    BY <1>4, <2>1, <2>2 DEF Moves, Fault
  <2>4. m.portfolio.cash = [p.cash EXCEPT ![x.family] = @ + r.amount]
    BY <1>1, <2>1 DEF Moves, IsBook, BookFields
  <2>7. \A f \in Family : m.portfolio.cash[f] >= UintLimit => Outgrown(p, r)
    BY <1>1, <2>2, <2>4, CashCredited
  <2>8. Admitted(p, r, m)
    BY <2>3, <2>7 DEF Admitted
  <2> QED BY <2>8 DEF m
<1> QED BY <1>5, <1>6 DEF TransferMove

(* A receipt that finds what it moves, in amounts that add up.                *)
Matches(p, r) ==
  /\ r.kind \notin {"PAYABLE_SETTLED", "TRANSFER_SOURCE_FAILED"}
  /\ r.kind \notin {"DEPOSIT", "WITHDRAW", "SWAP"} => WithheldOf(r) = 0
  /\ r.kind = "RESERVE" => r.costs = {} /\ With(p.reservations, r.id) = {}
  /\ r.kind = "APPROVE" =>
       r.costs = {} \/ \A a \in With(p.allowances, r.id) : ~ (a.amount >= r.amount)
  /\ r.kind = "DEPOSIT" =>
       /\ With(p.positions, r.position) = {}
       /\ Floor(r.shares, r.num, r.den) = r.amount - WithheldOf(r) /\ WithheldOf(r) <= r.amount
       /\ Fits(r.shares) \/ r.shares = r.amount
  /\ r.kind = "WITHDRAW" =>
       \E x \in p.positions :
         /\ x.id = r.position /\ x.family = r.family /\ x.shares = r.shares
         /\ r.amount <= x.book /\ x.book - r.amount = WithheldOf(r)
  /\ r.kind = "SWAP" =>
       /\ r.family # r.into /\ NetworkOf[r.family] = NetworkOf[r.into]
       /\ r.credit <= r.amount /\ r.amount - r.credit = WithheldOf(r)
  /\ r.kind = "ACCRUE" => r.costs = {} /\ With(p.positions, r.position) # {}
  /\ r.kind = "TRANSFER_BURNED" =>
       /\ p.receivables = {}
       /\ \E x \in p.reservations :
            x.id = r.reservation /\ x.amount = r.amount /\ NetworkOf[x.family] # NetworkOf[r.family]
  /\ r.kind \in TransferMove =>
       \E x \in p.receivables :
         /\ x.id = r.id /\ MayMove(r.kind, x)
         /\ r.kind = "TRANSFER_SETTLED" => x.amount = r.amount

(* Its costs are new, and paid where they arise.                              *)
CostsOpen(p, r) ==
  /\ Distinct(r.costs)
  /\ \A c \in r.costs :
       /\ With(p.costs, c.id) = {}
       /\ c.funding = "AVAILABLE_CASH" => c.network = NetworkOf[c.family]

LEMMA MatchAdmitted ==
  ASSUME NEW p, Sound(p), NEW r, IsReceipt(r), Matches(p, r)
  PROVE  Admitted(p, r, Effect(p, r))
<1>1. CASE r.kind \in {"NO_EFFECT", "COST", "CLOSE"}
  <2>1. WithheldOf(r) = 0
    BY <1>1 DEF Matches
  <2> QED BY <1>1, <2>1, PlainAdmitted
<1>2. CASE r.kind = "RESERVE"
  BY <1>2, ReserveAdmitted DEF Matches
<1>3. CASE r.kind = "APPROVE"
  <2>1. /\ WithheldOf(r) = 0
        /\ r.costs = {} \/ \A a \in With(p.allowances, r.id) : ~ (a.amount >= r.amount)
    BY <1>3 DEF Matches
  <2> QED BY <1>3, <2>1, ApproveAdmitted
<1>4. CASE r.kind = "DEPOSIT"
  <2>1. /\ With(p.positions, r.position) = {}
        /\ Floor(r.shares, r.num, r.den) = r.amount - WithheldOf(r) /\ WithheldOf(r) <= r.amount
        /\ Fits(r.shares) \/ r.shares = r.amount
    BY <1>4 DEF Matches
  <2> QED BY <1>4, <2>1, DepositAdmitted
<1>5. CASE r.kind = "WITHDRAW"
  <2>1. PICK x \in p.positions :
           /\ x.id = r.position /\ x.family = r.family /\ x.shares = r.shares
           /\ r.amount <= x.book /\ x.book - r.amount = WithheldOf(r)
    BY <1>5 DEF Matches
  <2> QED BY <1>5, <2>1, WithdrawAdmitted
<1>6. CASE r.kind = "SWAP"
  <2>1. /\ r.family # r.into /\ NetworkOf[r.family] = NetworkOf[r.into]
        /\ r.credit <= r.amount /\ r.amount - r.credit = WithheldOf(r)
    BY <1>6 DEF Matches
  <2> QED BY <1>6, <2>1, SwapAdmitted
<1>7. CASE r.kind = "ACCRUE"
  BY <1>7, AccrueAdmitted DEF Matches
<1>8. CASE r.kind = "TRANSFER_BURNED"
  <2>1. WithheldOf(r) = 0 /\ p.receivables = {}
    BY <1>8 DEF Matches
  <2>2. PICK x \in p.reservations :
           x.id = r.reservation /\ x.amount = r.amount /\ NetworkOf[x.family] # NetworkOf[r.family]
    BY <1>8 DEF Matches
  <2> QED BY <1>8, <2>1, <2>2, BurnAdmitted
<1>9. CASE r.kind \in TransferMove
  <2>1. WithheldOf(r) = 0
    BY <1>9 DEF Matches, TransferMove
  <2>2. PICK x \in p.receivables :
           /\ x.id = r.id /\ MayMove(r.kind, x)
           /\ r.kind = "TRANSFER_SETTLED" => x.amount = r.amount
    BY <1>9 DEF Matches
  <2> QED BY <1>9, <2>1, <2>2, MoveAdmitted
<1>10. r.kind \in DOMAIN Fields /\ r.kind \notin {"PAYABLE_SETTLED", "TRANSFER_SOURCE_FAILED"}
  BY DEF IsReceipt, Matches
<1> QED
  BY <1>1, <1>2, <1>3, <1>4, <1>5, <1>6, <1>7, <1>8, <1>9, <1>10 DEF Fields, TransferMove

(* What remains to refuse it: the portfolio has closed, is dated later,       *)
(* cannot pay or bear the costs, or a number outgrows uint256.                *)
LEMMA MatchFits ==
  ASSUME NEW p, Sound(p), NEW r, IsReceipt(r), r.version = p.version,
         r.op \notin Ops(p) => Matches(p, r) /\ CostsOpen(p, r)
  PROVE  ApplyReceipt(p, r).faults \subseteq
           {"CASH", "INSOLVENT", "CONFLICT", "CLOSED"}
             \cup Fault(Outgrown(p, r), "OVERFLOW")
             \cup Fault(r.kind = "ACCRUE" \/ r.at < p.last, "TIME")
<1> DEFINE allowed == {"CASH", "INSOLVENT", "CONFLICT", "CLOSED"}
                        \cup Fault(Outgrown(p, r), "OVERFLOW")
                        \cup Fault(r.kind = "ACCRUE" \/ r.at < p.last, "TIME")
           m == Effect(p, r)
           c == Charged(m.portfolio, r)
<1>1. CASE r.op \in Ops(p)
  <2>1. Prior(p, r) # {}
    BY <1>1, RepeatsIs
  <2>2. ApplyReceipt(p, r).faults \subseteq {"CONFLICT"}
    BY <2>1 DEF ApplyReceipt, Outcome, Fault
  <2> QED BY <2>2
<1>2. CASE r.op \notin Ops(p) /\ r.at < p.last
  <2>1. Prior(p, r) = {}
    BY <1>2, RepeatsIs
  <2>2. ApplyReceipt(p, r).faults = {"TIME"}
    BY <1>2, <2>1 DEF ApplyReceipt, Outcome
  <2>3. "TIME" \in Fault(r.kind = "ACCRUE" \/ r.at < p.last, "TIME")
    BY <1>2 DEF Fault
  <2> QED BY <2>2, <2>3
<1>3. CASE r.op \notin Ops(p) /\ ~(r.at < p.last)
  <2>1. Prior(p, r) = {}
    BY <1>3, RepeatsIs
  <2>2. ApplyReceipt(p, r) = Outcome(p, {"CLOSED"}) \/ ApplyReceipt(p, r) = Applied(p, r, m)
    BY <1>3, <2>1 DEF ApplyReceipt
  <2>3. CASE ApplyReceipt(p, r) = Outcome(p, {"CLOSED"})
    BY <2>3 DEF Outcome
  <2>4. CASE ApplyReceipt(p, r) = Applied(p, r, m)
    <3>1. Admitted(p, r, m) /\ CostsOpen(p, r)
      BY <1>3, MatchAdmitted
    <3> HIDE DEF m
    <3>2. Applied(p, r, m).faults = (m.faults \cup CostFaults(p, m, r)) \cup StateFaults(m, c)
      BY DEF Applied, Decided, Outcome
    <3> HIDE DEF c
    <3>3. m.faults \subseteq allowed
      BY <3>1 DEF Admitted, Fault
    <3>4. CostFaults(p, m, r) = {}
      <4>1. Amounts(Funded(r.costs, "WITHHELD")) = m.gap
        BY <3>1 DEF Admitted, WithheldOf
      <4>2. \A k \in Funded(r.costs, "AVAILABLE_CASH") : k.network = NetworkOf[k.family]
        BY <3>1 DEF CostsOpen, Funded
      <4> QED BY <3>1, <4>1, <4>2 DEF CostFaults, CostsOpen, Fault
    <3>5. StateFaults(m, c) \subseteq allowed
      <4>1. (\E f \in Family : m.portfolio.cash[f] >= UintLimit) => Outgrown(p, r)
        BY <3>1 DEF Admitted
      <4> QED BY <4>1 DEF StateFaults, Fault
    <3> HIDE DEF allowed
    <3>6. ApplyReceipt(p, r).faults \subseteq allowed
      BY <2>4, <3>2, <3>3, <3>4, <3>5
    <3> QED BY <3>6 DEF allowed
  <2> QED BY <2>2, <2>3, <2>4
<1> QED BY <1>1, <1>2, <1>3

(* A receipt without costs charges nothing.                                   *)
LEMMA ChargedNothing ==
  ASSUME NEW q, IsBook(q), q.cash \in [Family -> Int], NEW r, r.costs = {}
  PROVE  LET c == Charged(q, r)
         IN  c.cash = q.cash /\ c.payables = q.payables /\ Gross(c) = Gross(q)
<1> DEFINE c == Charged(q, r)
<1>1. IsCharged(c, q, r)
  BY ChargedIs
<1>2. Funded(r.costs, "AVAILABLE_CASH") = {} /\ Funded(r.costs, "PAYABLE") = {}
  BY DEF Funded
<1> HIDE DEF c
<1>3. Amounts({}) = 0
  <2>1. Priced({})
    BY FS_EmptySet DEF Priced
  <2> QED BY <2>1, AmountsType
<1>4. c.cash = q.cash
  <2>1. c.cash = [f \in Family |-> q.cash[f] - Amounts(InFamily({}, f))]
    BY <1>1, <1>2 DEF IsCharged, PaidFrom
  <2>2. \A f \in Family : InFamily({}, f) = {}
    BY DEF InFamily
  <2>3. \A f \in Family : q.cash[f] - Amounts(InFamily({}, f)) = q.cash[f]
    BY <1>3, <2>2
  <2> QED BY <2>1, <2>3
<1>5. c.payables = q.payables
  BY <1>1, <1>2 DEF IsCharged
<1>6. c.reservations = q.reservations /\ c.positions = q.positions /\ c.receivables = q.receivables
  BY <1>1 DEF IsCharged, BookFields
<1>7. Gross(c) = Gross(q)
  BY <1>4, <1>6 DEF Gross, Books
<1> QED BY <1>4, <1>5, <1>7 DEF c

(* What a portfolio owes is covered by what it holds.                         *)
LEMMA DebtsCovered ==
  ASSUME NEW p, Sound(p)
  PROVE  /\ Gross(p) \in Nat /\ Amounts(p.payables) \in Nat /\ Amounts(p.payables) <= Gross(p)
<1>1. Gross(p) \in Nat
  BY GrossCovers
<1>2. Parts(p, p.last) /\ p.cash \in [Family -> Int]
  BY SoundFacts DEF CashFits
<1>3. Amounts(p.payables) \in Nat
  BY <1>2, PartsWorth
<1>4. Gross(p) - Amounts(p.payables) >= 0
  BY DEF Sound, AssertPortfolio, GlobalBook
<1> QED BY <1>1, <1>3, <1>4

(* An accrual by an index that does not lower the book leaves a portfolio     *)
(* that can bear its debts.                                                   *)
LEMMA AccrualBorne ==
  ASSUME NEW p, Sound(p), NEW r, IsReceipt(r), r.kind = "ACCRUE", r.costs = {}, p.last <= r.at,
         NEW x \in p.positions, x.id = r.position, x.book <= Floor(x.shares, r.num, r.den)
  PROVE  LET m == Effect(p, r)
         IN  StateFaults(m, Charged(m.portfolio, r)) \subseteq {"OVERFLOW"}
<1> DEFINE m == Effect(p, r)
           next == [x EXCEPT !.num = r.num, !.den = r.den, !.at = r.at]
           after == Rebooked(next)
           book == [p EXCEPT !.positions = (@ \ {x}) \cup {after},
                             !.pnl = @ + (after.book - x.book)]
           c == Charged(m.portfolio, r)
<1>1. /\ IsBook(p) /\ p.last \in Nat /\ r.at \in Nat /\ Parts(p, p.last)
      /\ p.cash \in [Family -> Nat] /\ r.num \in Nat /\ r.den \in Nat \ {0}
  BY SoundFacts, FieldTypes DEF CashFits, Fields
<1>2. m = Accrue(p, r)
  BY DEF Effect, TransferMove
<1>3. With(p.positions, r.position) # {} /\ The(p.positions, r.position) = x
  BY <1>1, OneOf DEF Parts, PositionsFit
<1>4. m.portfolio = p \/ m.portfolio = book
  BY <1>2, <1>3 DEF Accrue, Refuses, Moves
<1> HIDE DEF m
<1>5. CASE m.portfolio = p
  <2>1. c.cash = p.cash /\ c.payables = p.payables /\ Gross(c) = Gross(p)
    BY <1>1, <1>5, ChargedNothing
  <2> HIDE DEF c
  <2>2. Fault(\E f \in Family : c.cash[f] < 0, "CASH") = {}
    BY <1>1, <2>1 DEF Fault
  <2>3. Fault(Amounts(c.payables) > Gross(c), "INSOLVENT") = {}
    BY <2>1, DebtsCovered DEF Fault
  <2> QED BY <2>2, <2>3 DEF StateFaults, Fault, c, m
<1>6. CASE m.portfolio = book
  <2>1. PositionsFit(p.positions, r.at)
    <3>1. Parts(p, r.at)
      BY <1>1, PartsLater
    <3> QED BY <3>1 DEF Parts
  <2>2. IsPosition(x)
    BY <2>1 DEF PositionsFit, PositionFits
  <2>3. /\ next = [f \in PositionFields |-> next[f]] /\ next.id = x.id /\ next.shares = x.shares
        /\ next.num = r.num /\ next.den = r.den /\ next.at = r.at
        /\ next.book = x.book /\ next.rest = x.rest
    BY <2>2 DEF IsPosition, PositionFields
  <2>4. IsPosition(next)
    BY <1>1, <2>2, <2>3 DEF IsPosition
  <2> HIDE DEF next
  <2>5. IsPosition(after) /\ Rebooked(after) = after /\ after.id = x.id /\ after.at = r.at
        /\ after.book = Floor(x.shares, r.num, r.den)
    BY <2>3, <2>4, RebookedIs
  <2> HIDE DEF after
  <2>6. PositionFits(after, r.at)
    BY <1>1, <2>5 DEF PositionFits
  <2> DEFINE rows == (p.positions \ {x}) \cup {after}
  <2>7. /\ PositionsFit(rows, r.at) /\ BooksOf(rows) = BooksOf(p.positions) - x.book + after.book
        /\ x.book \in Nat /\ after.book \in Nat
    <3>1. after.id = x.id
      BY <2>5
    <3>2. /\ PositionsFit((p.positions \ {x}) \cup {after}, r.at)
          /\ BooksOf((p.positions \ {x}) \cup {after}) = BooksOf(p.positions) - x.book + after.book
          /\ x.book \in Nat /\ after.book \in Nat
      BY <2>1, <2>6, <3>1, PositionReplaced, Zenon
    <3> QED BY <3>2
  <2> HIDE DEF rows
  <2>8. /\ IsBook(book) /\ book.positions = rows /\ book.cash = p.cash
        /\ book.payables = p.payables /\ book.reservations = p.reservations
        /\ book.receivables = p.receivables
    BY <1>1 DEF IsBook, BookFields, rows
  <2> HIDE DEF book
  <2>9. BooksOf(rows) >= BooksOf(p.positions)
    <3>1. BooksOf(p.positions) \in Nat
      BY <2>1, PositionsPriced
    <3> QED BY <2>5, <2>7, <3>1
  <2>10. Gross(book) >= Gross(p) /\ Gross(book) \in Int
    <3>1. /\ Gross(p) = Total(p.cash) + Amounts(p.reservations) + BooksOf(p.positions)
                          + Amounts(p.receivables)
          /\ Gross(book) = Total(p.cash) + Amounts(p.reservations) + BooksOf(rows)
                          + Amounts(p.receivables)
      BY <2>8, Zenon DEF Gross, Books, BooksOf
    <3>2. /\ Total(p.cash) \in Int /\ Amounts(p.reservations) \in Nat
          /\ Amounts(p.receivables) \in Nat
      <4>1. p.cash \in [Family -> Int]
        BY <1>1
      <4> QED BY <1>1, <4>1, PartsWorth
    <3>3. BooksOf(rows) \in Nat /\ BooksOf(p.positions) \in Nat
      BY <2>1, <2>7, PositionsPriced
    <3> QED BY <2>9, <3>1, <3>2, <3>3
  <2>11. c.cash = p.cash /\ c.payables = p.payables /\ Gross(c) = Gross(book)
    <3>1. book.cash \in [Family -> Int]
      BY <1>1, <2>8
    <3> QED BY <1>6, <2>8, <3>1, ChargedNothing
  <2> HIDE DEF c
  <2>12. Fault(\E f \in Family : c.cash[f] < 0, "CASH") = {}
    BY <1>1, <2>11 DEF Fault
  <2>13. Fault(Amounts(c.payables) > Gross(c), "INSOLVENT") = {}
    <3>1. Amounts(c.payables) <= Gross(c) /\ Amounts(c.payables) \in Int /\ Gross(c) \in Int
      BY <2>10, <2>11, DebtsCovered
    <3> QED BY <3>1 DEF Fault
  <2> QED BY <2>12, <2>13 DEF StateFaults, Fault, c, m
<1> QED BY <1>4, <1>5, <1>6

(* What can refuse such an accrual, when its operation is new.                *)
LEMMA AccrualRefused ==
  ASSUME NEW p, Sound(p), NEW r, IsReceipt(r), r.kind = "ACCRUE", r.costs = {},
         r.version = p.version, r.op \notin Ops(p),
         NEW x \in p.positions, x.id = r.position, x.book <= Floor(x.shares, r.num, r.den)
  PROVE  ApplyReceipt(p, r).faults \subseteq {"TIME", "OVERFLOW", "CLOSED"}
<1> DEFINE m == Effect(p, r)
           c == Charged(m.portfolio, r)
<1>1. Prior(p, r) = {}
  BY RepeatsIs
<1>2. p.last \in Nat /\ r.at \in Nat
  BY SoundFacts, FieldTypes
<1>3. CASE r.at < p.last
  BY <1>1, <1>3 DEF ApplyReceipt, Outcome
<1>4. CASE ~(r.at < p.last)
  <2>1. ApplyReceipt(p, r) = Outcome(p, {"CLOSED"}) \/ ApplyReceipt(p, r) = Applied(p, r, m)
    BY <1>1, <1>4 DEF ApplyReceipt
  <2>2. CASE ApplyReceipt(p, r) = Outcome(p, {"CLOSED"})
    BY <2>2 DEF Outcome
  <2>3. CASE ApplyReceipt(p, r) = Applied(p, r, m)
    <3>1. StateFaults(m, c) \subseteq {"OVERFLOW"}
      <4>1. p.last <= r.at
        BY <1>2, <1>4
      <4> QED BY <4>1, AccrualBorne
    <3>2. Admitted(p, r, m) /\ m.gap = 0
      <4>1. With(p.positions, r.position) # {}
        BY DEF With
      <4> QED BY <4>1, AccrueAdmitted
    <3>3. WithheldOf(r) = 0
      BY WithheldIs
    <3> HIDE DEF m
    <3>4. Applied(p, r, m).faults = (m.faults \cup CostFaults(p, m, r)) \cup StateFaults(m, c)
      BY DEF Applied, Decided, Outcome
    <3> HIDE DEF c
    <3>5. m.faults \subseteq {"TIME", "OVERFLOW"}
      BY <3>2 DEF Admitted, Fault
    <3>6. CostFaults(p, m, r) = {}
      BY <3>2, <3>3 DEF CostFaults, WithheldOf, Distinct, Funded, Fault
    <3> QED BY <2>3, <3>1, <3>4, <3>5, <3>6
  <2> QED BY <2>1, <2>2, <2>3
<1> QED BY <1>3, <1>4

(* An index that rises by a share of itself does not lower the book.          *)
LEMMA RisingIndex ==
  ASSUME NEW s \in Nat, NEW n \in Nat, NEW d \in Nat \ {0}, NEW k \in Nat \ {0}
  PROVE  Floor(s, n, d) <= Floor(s, n * (k + 1), d * k)
<1> DEFINE a == s * n
           q == a \div d
           b == s * (n * (k + 1))
           e == d * k
<1>1. a \in Nat
  BY Product
<1>2. q \in Nat /\ q * d <= a
  <2> HIDE DEF a
  <2>1. \A i \in Nat : \A j \in Nat : j > 0 => i \div j \in Nat /\ (i \div j) * j <= i
    OBVIOUS
  <2> QED BY <1>1, <2>1
<1> HIDE DEF q
<1>3. e \in Nat /\ e > 0
  <2>1. \A i, j \in Nat \ {0} : i * j \in Nat /\ i * j > 0
    OBVIOUS
  <2> QED BY <2>1
<1>4. q * e <= b
  <2>1. (q * d) * k <= a * k
    <3> DEFINE u == q * d
    <3>1. u \in Nat /\ u <= a
      BY <1>2, Product
    <3> HIDE DEF u, a
    <3>2. \A i, j, l \in Nat : i <= j => i * l <= j * l
      OBVIOUS
    <3>3. u * k <= a * k
      BY <1>1, <3>1, <3>2
    <3> QED BY <3>3 DEF u
  <2>2. q * e = (q * d) * k
    <3>1. \A i, j, l \in Nat : i * (j * l) = (i * j) * l
      OBVIOUS
    <3> QED BY <1>2, <3>1
  <2>3. b = a * k + a
    <3>1. \A i, j, l \in Nat : i * (j * (l + 1)) = (i * j) * l + (i * j)
      OBVIOUS
    <3> QED BY <3>1
  <2>4. a * k \in Nat
    <3> HIDE DEF a
    <3> QED BY <1>1, Product
  <2>5. (q * d) * k \in Nat
    BY <1>2, Product
  <2> HIDE DEF a, b, e
  <2> QED BY <1>1, <2>1, <2>2, <2>3, <2>4, <2>5
<1>5. b \in Nat
  BY Product
<1> HIDE DEF b, e
<1>6. q <= b \div e
  <2>1. \A i, j, l \in Nat : l > 0 /\ i * l <= j => i <= j \div l
    OBVIOUS
  <2> QED BY <1>2, <1>3, <1>4, <1>5, <2>1
<1> QED BY <1>6 DEF Floor, q, a, b, e
=============================================================================
