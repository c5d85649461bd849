---------------------- MODULE ScenarioAccountingProofs ----------------------
(***************************************************************************)
(* The price of a share of the vault never falls, the books of a scenario  *)
(* stay sound, and what is built for them fits them.                       *)
(*                                                                         *)
(* The price first.  The inductive invariant has the supply as the sum of  *)
(* the shares, at least one token for every share, and no more yield       *)
(* withheld than the vault has been given; the arithmetic of the rounded   *)
(* divisions comes first, on its own.  The books follow: adapters answer   *)
(* receipts of the schema, and every step leaves sound portfolios, planned *)
(* receipts of the schema and a numeric quote.  Then the figures that      *)
(* checkpoints and replays store are explained by those books.             *)
(*                                                                         *)
(* Last, receipts and checkpoints are refused only for known reasons.      *)
(* Whatever a portfolio holds goes back to one operation of its history    *)
(* (Tracked), so an operation not used before finds nothing of its own; a  *)
(* plan names the version it was built for (PlanHolds), a script the stage *)
(* that its portfolio has come to (ScriptHolds).                           *)
(***************************************************************************)
EXTENDS ScenarioAccounting, PortfolioProofs

(* Division rounds down. *)
LEMMA Divided ==
  ASSUME NEW a \in Nat, NEW d \in Nat, d > 0
  PROVE  a \div d \in Nat /\ (a \div d) * d <= a /\ a < (a \div d) * d + d
OBVIOUS

(* A share of a product. *)
LEMMA DividedUp ==
  ASSUME NEW a \in Nat, NEW d \in Nat, d > 0
  PROVE  (a + d - 1) \div d \in Nat /\ ((a + d - 1) \div d) * d >= a
<1>1. a + d - 1 \in Nat
  OBVIOUS
<1> DEFINE q == (a + d - 1) \div d
<1>2. q \in Nat /\ a + d - 1 < q * d + d /\ q * d \in Nat
  BY <1>1, Divided
<1> QED BY <1>2

(* What a factor keeps of an order. *)
LEMMA Shrinks ==
  ASSUME NEW m \in Nat, NEW n \in Nat, NEW k \in Nat, k > 0, m * k <= n * k
  PROVE  m <= n
OBVIOUS

LEMMA Grows ==
  ASSUME NEW m \in Nat, NEW n \in Nat, NEW k \in Nat, m <= n
  PROVE  m * k <= n * k /\ k * m <= k * n
OBVIOUS

(* A price of A tokens for S shares.  Whoever adds a tokens for n shares and  *)
(* is rounded against leaves it no lower,                                     *)
LEMMA AddedFairly ==
  ASSUME NEW A \in Nat, NEW S \in Nat, NEW a \in Nat, NEW n \in Nat,
         S <= A, IF S = 0 THEN n <= a ELSE n * A <= a * S
  PROVE  S + n <= A + a /\ (S > 0 => A * (S + n) <= (A + a) * S)
<1>1. CASE S = 0
  BY <1>1
<1>2. CASE S # 0
  <2>1. n * A <= a * S /\ n * S \in Nat /\ a * S \in Nat /\ n * A \in Nat /\ A * S \in Nat
    BY <1>2
  <2>2. n * S <= n * A
    BY Grows
  <2>3. n * S <= a * S
    BY <2>1, <2>2
  <2>4. n <= a
    BY <1>2, <2>3, Shrinks
  <2>5. A * (S + n) = A * S + n * A /\ (A + a) * S = A * S + a * S
    OBVIOUS
  <2> QED BY <2>1, <2>4, <2>5
<1> QED BY <1>1, <1>2

(* and so does who takes a tokens for n shares.                               *)
LEMMA TakenFairly ==
  ASSUME NEW A \in Nat, NEW S \in Nat, NEW a \in Nat, NEW n \in Nat,
         S <= A, n <= S, IF S = 0 THEN a <= n ELSE a * S <= n * A
  PROVE  /\ a <= A /\ S - n <= A - a
         /\ S > 0 => A * (S - n) <= (A - a) * S
<1>1. CASE S = 0
  BY <1>1
<1>2. CASE S # 0
  <2>1. a * S <= n * A /\ a * S \in Nat /\ n * A \in Nat /\ A * S \in Nat
    BY <1>2
  <2>2. n * A <= S * A /\ S * A = A * S
    BY Grows
  <2>3. a <= A
    <3>1. a * S <= A * S
      BY <2>1, <2>2
    <3> QED BY <1>2, <3>1, Shrinks
  <2>4. A * (S - n) = A * S - n * A /\ (A - a) * S = A * S - a * S
    OBVIOUS
  <2>5. A * (S - n) <= (A - a) * S
    BY <2>1, <2>4
  <2>6. S - n \in Nat /\ A - a \in Nat
    BY <2>3
  <2>7. (S - n) * S <= (S - n) * A /\ (S - n) * A = A * (S - n)
    BY <2>6, Grows
  <2>8. (S - n) * S <= (A - a) * S
    <3>1. (S - n) * S \in Nat /\ A * (S - n) \in Nat /\ (A - a) * S \in Nat
      BY <2>6
    <3> QED BY <2>5, <2>7, <3>1
  <2>9. S - n <= A - a
    BY <1>2, <2>6, <2>8, Shrinks
  <2> QED BY <2>3, <2>5, <2>9
<1> QED BY <1>1, <1>2

-----------------------------------------------------------------------------
(* The vault.  Tokens, shares and allowances are numbers of units; the supply *)
(* is the sum of the shares; the yield that is not released yet is there; and *)
(* a share is backed by a token at least.                                     *)
Schedules == [frozen : BOOLEAN, start : Nat, end : Nat, budget : Nat]
Accounts == Holder \cup {VaultAccount}

VaultTyped ==
  /\ tokens \in [Accounts -> Nat] /\ shares \in [Holder -> Nat]
  /\ allowance \in [Holder -> [Holder -> Nat]]
  /\ schedule \in Schedules
  /\ schedule.frozen => schedule.start < schedule.end

VaultInv ==
  /\ VaultTyped /\ clock \in Nat
  /\ supply \in Nat /\ supply = SumFunction(shares)
  /\ TotalAssets \in Nat /\ supply <= TotalAssets

(* What a schedule has released by a time, and what is still withheld.        *)
Released(s, t) ==
  IF ~s.frozen \/ t <= s.start THEN 0
  ELSE IF t >= s.end THEN s.budget
  ELSE (s.budget * (t - s.start)) \div (s.end - s.start)

Unvested == IF schedule.frozen THEN schedule.budget - Vested ELSE 0

LEMMA ReleasedBetween ==
  ASSUME NEW b \in Nat, NEW s \in Nat, NEW e \in Nat, NEW t \in Nat, s < t, t < e
  PROVE  LET r(u) == (b * (u - s)) \div (e - s)
         IN  /\ r(t) \in Nat /\ r(t) <= b
             /\ t + 1 < e => r(t) <= r(t + 1)
<1> DEFINE d == e - s
           k == t - s
           q == (b * k) \div d
           q1 == (b * (t + 1 - s)) \div d
<1>1. d \in Nat /\ k \in Nat /\ d > 0 /\ k <= d /\ t + 1 - s = k + 1
  OBVIOUS
<1> HIDE DEF d, k
<1>2. b * k \in Nat /\ b * d \in Nat /\ b * k <= b * d /\ b * (k + 1) \in Nat /\ b * k <= b * (k + 1)
  BY <1>1, Grows
<1>3. q \in Nat /\ q * d <= b * k /\ q * d \in Nat
  BY <1>1, <1>2, Divided
<1>4. q1 \in Nat /\ b * (k + 1) < q1 * d + d /\ q1 * d \in Nat
  BY <1>1, <1>2, Divided
<1> HIDE DEF q, q1
<1>5. q <= b
  <2>1. q * d <= b * d
    BY <1>2, <1>3
  <2> QED BY <1>1, <1>3, <2>1, Shrinks
<1>6. q <= q1
  <2>1. q * d < q1 * d + d
    <3> DEFINE B0 == b * k
               B1 == b * (k + 1)
               Q == q * d
               Q1 == q1 * d
    <3>1. /\ B0 \in Nat /\ B1 \in Nat /\ Q \in Nat /\ Q1 \in Nat
          /\ Q <= B0 /\ B0 <= B1 /\ B1 < Q1 + d
      BY <1>2, <1>3, <1>4
    <3> HIDE DEF B0, B1, Q, Q1
    <3>2. Q < Q1 + d
      BY <1>1, <3>1
    <3> QED BY <3>2 DEF Q, Q1
  <2>2. q * d < (q1 + 1) * d
    BY <1>1, <1>4, <2>1
  <2>3. ~((q1 + 1) * d <= q * d)
    BY <1>1, <1>3, <1>4, <2>2
  <2>4. ~(q1 + 1 <= q)
    BY <1>1, <1>3, <1>4, <2>3, Grows
  <2> QED BY <1>3, <1>4, <2>4
<1> QED BY <1>3, <1>5, <1>6 DEF q, q1, k, d

(* Time releases yield, never takes it back, and never more than the budget.  *)
LEMMA ReleasedGrows ==
  ASSUME NEW s \in Schedules, s.frozen => s.start < s.end, NEW t \in Nat
  PROVE  /\ Released(s, t) \in Nat /\ Released(s, t) <= s.budget
         /\ Released(s, t) <= Released(s, t + 1)
<1> DEFINE b == s.budget
           c == s.start
           e == s.end
           r(u) == (b * (u - c)) \div (e - c)
<1>1. b \in Nat /\ c \in Nat /\ e \in Nat /\ (s.frozen => c < e)
  BY DEF Schedules
<1>2. \A u : Released(s, u) = IF ~s.frozen \/ u <= c THEN 0 ELSE IF u >= e THEN b ELSE r(u)
  BY DEF Released
<1>3. \A u \in Nat : c < u /\ u < e =>
         /\ r(u) \in Nat /\ r(u) <= b
         /\ u + 1 < e => r(u) <= r(u + 1)
  BY <1>1, ReleasedBetween
<1> HIDE DEF b, c, e, r
<1>4. t + 1 \in Nat
  OBVIOUS
<1>5. Released(s, t) \in Nat /\ Released(s, t) <= b
  BY <1>1, <1>2, <1>3
<1>6. Released(s, t + 1) \in Nat /\ Released(s, t + 1) <= b
  BY <1>1, <1>2, <1>3, <1>4
<1>7. Released(s, t) <= Released(s, t + 1)
  BY <1>1, <1>2, <1>3, <1>4, <1>5, <1>6
<1> QED BY <1>5, <1>7 DEF b

LEMMA VestedIs == Vested = Released(schedule, clock)
BY DEF Vested, Released

(* Only the vault's tokens count, less what is withheld of them.              *)
LEMMA AssetsOf == TotalAssets = tokens[VaultAccount] - Unvested
BY DEF TotalAssets, Unvested

LEMMA AssetsNext == TotalAssets' = tokens'[VaultAccount] - Unvested'
BY DEF TotalAssets, Unvested

LEMMA UnvestedBounds ==
  ASSUME VaultTyped, clock \in Nat
  PROVE  Unvested \in Nat /\ (schedule.frozen => Unvested <= schedule.budget)
<1>1. schedule \in Schedules /\ schedule.budget \in Nat
  BY DEF VaultTyped, Schedules
<1>2. Vested \in Nat /\ Vested <= schedule.budget
  BY <1>1, VestedIs, ReleasedGrows DEF VaultTyped
<1> QED BY <1>1, <1>2 DEF Unvested

(* A call leaves the schedule and the time as they are, and thus what is      *)
(* withheld.                                                                  *)
LEMMA UnvestedSame ==
  ASSUME UNCHANGED <<schedule, clock>>
  PROVE  Unvested' = Unvested
BY DEF Unvested, Vested

(* A transfer moves tokens between accounts.                                  *)
LEMMA Transferred ==
  ASSUME VaultTyped, NEW from \in Accounts, NEW to \in Accounts, NEW amount \in Nat,
         from # to, Transfer(from, to, amount)
  PROVE  /\ tokens' \in [Accounts -> Nat]
         /\ tokens'[from] = tokens[from] - amount /\ tokens'[to] = tokens[to] + amount
         /\ amount <= tokens[from] /\ tokens[from] \in Nat /\ tokens[to] \in Nat
         /\ \A a \in Accounts : a # from /\ a # to => tokens'[a] = tokens[a]
<1>1. tokens \in [Accounts -> Nat] /\ tokens[from] >= amount
  BY DEF VaultTyped, Transfer
<1>2. tokens' = [tokens EXCEPT ![from] = @ - amount, ![to] = @ + amount]
  BY DEF Transfer
<1> QED BY <1>1, <1>2

LEMMA OneVault == VaultAccount \in Accounts /\ Holder \subseteq Accounts /\ VaultAccount \notin Holder
BY VaultAssumption DEF Accounts

(* Shares that are minted or burnt change their sum by as many.               *)
LEMMA SharesMinted ==
  ASSUME VaultTyped, supply = SumFunction(shares), NEW to \in Holder, NEW n \in Int,
         shares' \in [Holder -> Nat], shares'[to] = shares[to] + n,
         \A h \in Holder \ {to} : shares'[h] = shares[h]
  PROVE  /\ SumFunction(shares') = supply + n
         /\ shares[to] <= supply /\ supply \in Nat
<1>1. shares \in [Holder -> Nat] /\ IsFiniteSet(Holder)
  BY VaultAssumption DEF VaultTyped
<1>2. shares \in [Holder -> Int] /\ shares' \in [Holder -> Int] /\ shares[to] \in Int
  BY <1>1
<1>3. supply \in Nat /\ shares[to] <= supply
  BY <1>1, SumNat
<1>4. SumFunction(shares') = SumFunction(shares) - shares[to] + shares'[to]
  BY <1>1, <1>2, SumChange
<1> QED BY <1>2, <1>3, <1>4

(* What an addition and a taking do to the vault.                             *)
Added(from, to, a, n) ==
  /\ Transfer(from, VaultAccount, a)
  /\ shares' = [shares EXCEPT ![to] = @ + n]
  /\ supply' = supply + n
  /\ UNCHANGED <<schedule, clock>>

Taken(owner, to, a, n) ==
  /\ Transfer(VaultAccount, to, a)
  /\ shares[owner] >= n
  /\ shares' = [shares EXCEPT ![owner] = @ - n]
  /\ supply' = supply - n
  /\ UNCHANGED <<schedule, clock>>

(* The price of a share did not fall.                                         *)
PriceHolds == supply > 0 /\ supply' > 0 => TotalAssets' * supply >= TotalAssets * supply'

(* The vault is sound after a step, and the price of a share held.            *)
Fairly == VaultInv' /\ PriceHolds

LEMMA AddedIsFair ==
  ASSUME VaultInv, NEW from \in Holder, NEW to \in Holder, NEW a \in Nat, NEW n \in Nat,
         Added(from, to, a, n), allowance' \in [Holder -> [Holder -> Nat]],
         IF supply = 0 THEN n <= a ELSE n * TotalAssets <= a * supply
  PROVE  Fairly
<1>1. /\ VaultTyped /\ clock \in Nat /\ supply \in Nat /\ supply = SumFunction(shares)
      /\ TotalAssets \in Nat /\ supply <= TotalAssets
  BY DEF VaultInv
<1>2. /\ Transfer(from, VaultAccount, a) /\ shares' = [shares EXCEPT ![to] = @ + n]
      /\ supply' = supply + n /\ schedule' = schedule /\ clock' = clock
  BY DEF Added
<1>3. from \in Accounts /\ VaultAccount \in Accounts /\ from # VaultAccount
  BY OneVault
<1>4. /\ tokens' \in [Accounts -> Nat] /\ tokens[VaultAccount] \in Nat
      /\ tokens'[VaultAccount] = tokens[VaultAccount] + a
  BY <1>1, <1>2, <1>3, Transferred
<1>5. /\ shares' \in [Holder -> Nat] /\ shares'[to] = shares[to] + n
      /\ \A h \in Holder \ {to} : shares'[h] = shares[h]
  <2>1. shares \in [Holder -> Nat]
    BY <1>1 DEF VaultTyped
  <2> QED BY <1>2, <2>1
<1>6. SumFunction(shares') = supply'
  <2>1. SumFunction(shares') = supply + n
    BY <1>1, <1>5, SharesMinted
  <2>2. supply' = supply + n
    BY <1>2
  <2> QED BY <2>1, <2>2
<1>7. TotalAssets' = TotalAssets + a
  <2>1. Unvested' = Unvested /\ Unvested \in Nat
    BY <1>1, <1>2, UnvestedSame, UnvestedBounds
  <2>2. TotalAssets = tokens[VaultAccount] - Unvested /\ TotalAssets' = tokens'[VaultAccount] - Unvested'
    BY AssetsOf, AssetsNext
  <2> QED BY <1>4, <2>1, <2>2
<1>8. VaultTyped'
  BY <1>1, <1>2, <1>4, <1>5 DEF VaultTyped
<1>9. supply' <= TotalAssets' /\ (supply > 0 => TotalAssets * supply' <= TotalAssets' * supply)
  BY <1>1, <1>2, <1>7, AddedFairly
<1>10. supply' \in Nat /\ TotalAssets' \in Nat
  BY <1>1, <1>2, <1>7
<1>11. PriceHolds
  <2>1. TotalAssets * supply' \in Nat /\ TotalAssets' * supply \in Nat
    BY <1>1, <1>10, Product
  <2> QED BY <1>9, <2>1 DEF PriceHolds
<1> QED BY <1>1, <1>2, <1>6, <1>8, <1>9, <1>10, <1>11 DEF Fairly, VaultInv

LEMMA TakenIsFair ==
  ASSUME VaultInv, NEW owner \in Holder, NEW to \in Holder, NEW a \in Nat, NEW n \in Nat,
         Taken(owner, to, a, n), allowance' \in [Holder -> [Holder -> Nat]],
         IF supply = 0 THEN a <= n ELSE a * supply <= n * TotalAssets
  PROVE  Fairly
<1>1. /\ VaultTyped /\ clock \in Nat /\ supply \in Nat /\ supply = SumFunction(shares)
      /\ TotalAssets \in Nat /\ supply <= TotalAssets
  BY DEF VaultInv
<1>2. /\ Transfer(VaultAccount, to, a) /\ shares' = [shares EXCEPT ![owner] = @ - n]
      /\ shares[owner] >= n
      /\ supply' = supply - n /\ schedule' = schedule /\ clock' = clock
  BY DEF Taken
<1>3. to \in Accounts /\ VaultAccount \in Accounts /\ to # VaultAccount
  BY OneVault
<1>4. /\ tokens' \in [Accounts -> Nat] /\ tokens[VaultAccount] \in Nat
      /\ tokens'[VaultAccount] = tokens[VaultAccount] - a
  BY <1>1, <1>2, <1>3, Transferred
<1>5. /\ shares' \in [Holder -> Nat] /\ shares'[owner] = shares[owner] + (-n)
      /\ \A h \in Holder \ {owner} : shares'[h] = shares[h]
      /\ shares[owner] \in Nat
  <2>1. shares \in [Holder -> Nat]
    BY <1>1 DEF VaultTyped
  <2> QED BY <1>2, <2>1
<1>6. SumFunction(shares') = supply + (-n) /\ shares[owner] <= supply
  <2>1. -n \in Int
    OBVIOUS
  <2> QED BY <1>1, <1>5, <2>1, SharesMinted
<1>7. n <= supply
  BY <1>1, <1>2, <1>5, <1>6
<1>8. TotalAssets' = TotalAssets - a
  <2>1. Unvested' = Unvested /\ Unvested \in Nat
    BY <1>1, <1>2, UnvestedSame, UnvestedBounds
  <2>2. TotalAssets = tokens[VaultAccount] - Unvested /\ TotalAssets' = tokens'[VaultAccount] - Unvested'
    BY AssetsOf, AssetsNext
  <2> QED BY <1>4, <2>1, <2>2
<1>9. VaultTyped'
  BY <1>1, <1>2, <1>4, <1>5 DEF VaultTyped
<1>10. /\ a <= TotalAssets /\ supply' <= TotalAssets'
       /\ supply > 0 => TotalAssets * supply' <= TotalAssets' * supply
  BY <1>1, <1>2, <1>7, <1>8, TakenFairly
<1>11. supply' \in Nat /\ TotalAssets' \in Nat /\ SumFunction(shares') = supply'
  <2>1. supply' = supply - n
    BY <1>2
  <2>2. SumFunction(shares') = supply'
    BY <1>1, <1>6, <2>1
  <2> QED BY <1>1, <1>7, <1>8, <1>10, <2>1, <2>2
<1>12. PriceHolds
  <2>1. TotalAssets * supply' \in Nat /\ TotalAssets' * supply \in Nat
    BY <1>1, <1>11, Product
  <2> QED BY <1>10, <2>1 DEF PriceHolds
<1> QED BY <1>1, <1>2, <1>9, <1>10, <1>11, <1>12 DEF Fairly, VaultInv

-----------------------------------------------------------------------------
(* The calls of the vault.                                                    *)
LEMMA DepositIsFair ==
  ASSUME VaultInv, NEW h \in Holder, NEW to \in Holder, NEW a \in Nat,
         DepositAssets(h, a, to), UNCHANGED clock
  PROVE  Fairly
<1> DEFINE n == ConvertToShares(a)
<1>1. supply \in Nat /\ TotalAssets \in Nat /\ supply <= TotalAssets
  BY DEF VaultInv
<1>2. n \in Nat /\ IF supply = 0 THEN n <= a ELSE n * TotalAssets <= a * supply
  <2>1. CASE supply = 0
    BY <2>1 DEF ConvertToShares
  <2>2. CASE supply # 0
    <3>1. n = (a * supply) \div TotalAssets /\ TotalAssets > 0
      BY <1>1, <2>2 DEF ConvertToShares
    <3>2. a * supply \in Nat
      BY <1>1
    <3> QED BY <1>1, <2>2, <3>1, <3>2, Divided
  <2> QED BY <2>1, <2>2
<1>3. Added(h, to, a, n) /\ allowance' = allowance
  BY DEF DepositAssets, MintShares, Added
<1>4. allowance' \in [Holder -> [Holder -> Nat]]
  BY <1>3 DEF VaultInv, VaultTyped
<1> HIDE DEF n
<1> QED BY <1>2, <1>3, <1>4, AddedIsFair

LEMMA MintIsFair ==
  ASSUME VaultInv, NEW h \in Holder, NEW to \in Holder, NEW n \in Nat,
         Mint(h, n, to), UNCHANGED clock
  PROVE  Fairly
<1> DEFINE a == MintCost(n)
<1>1. supply \in Nat /\ TotalAssets \in Nat /\ supply <= TotalAssets
  BY DEF VaultInv
<1>2. a \in Nat /\ IF supply = 0 THEN n <= a ELSE n * TotalAssets <= a * supply
  <2>1. CASE supply = 0
    BY <2>1 DEF MintCost
  <2>2. CASE supply # 0
    <3>1. a = (n * TotalAssets + supply - 1) \div supply /\ supply > 0
      BY <1>1, <2>2 DEF MintCost
    <3>2. n * TotalAssets \in Nat
      BY <1>1
    <3> QED BY <1>1, <2>2, <3>1, <3>2, DividedUp
  <2> QED BY <2>1, <2>2
<1>3. Added(h, to, a, n) /\ allowance' = allowance
  BY DEF Mint, MintShares, Added
<1>4. allowance' \in [Holder -> [Holder -> Nat]]
  BY <1>3 DEF VaultInv, VaultTyped
<1> HIDE DEF a
<1> QED BY <1>2, <1>3, <1>4, AddedIsFair

LEMMA Spent ==
  ASSUME VaultInv, NEW h \in Holder, NEW owner \in Holder, NEW n \in Nat,
         SpendAndBurn(h, owner, n)
  PROVE  allowance' \in [Holder -> [Holder -> Nat]]
<1>1. allowance \in [Holder -> [Holder -> Nat]]
  BY DEF VaultInv, VaultTyped
<1> QED BY <1>1 DEF SpendAndBurn

LEMMA WithdrawalIsFair ==
  ASSUME VaultInv, NEW h \in Holder, NEW owner \in Holder, NEW a \in Nat,
         WithdrawAssets(h, a, h, owner), UNCHANGED clock
  PROVE  Fairly
<1> DEFINE n == WithdrawalShares(a)
<1>1. supply \in Nat /\ TotalAssets \in Nat /\ supply <= TotalAssets
  BY DEF VaultInv
<1>2. n \in Nat /\ IF supply = 0 THEN a <= n ELSE a * supply <= n * TotalAssets
  <2>1. CASE supply = 0
    BY <2>1 DEF WithdrawalShares
  <2>2. CASE supply # 0
    <3>1. n = (a * supply + TotalAssets - 1) \div TotalAssets /\ TotalAssets > 0
      BY <1>1, <2>2 DEF WithdrawalShares
    <3>2. a * supply \in Nat
      BY <1>1
    <3> QED BY <1>1, <2>2, <3>1, <3>2, DividedUp
  <2> QED BY <2>1, <2>2
<1>3. Taken(owner, h, a, n) /\ SpendAndBurn(h, owner, n)
  BY DEF WithdrawAssets, SpendAndBurn, Taken
<1> HIDE DEF n
<1> QED BY <1>2, <1>3, Spent, TakenIsFair

LEMMA RedemptionIsFair ==
  ASSUME VaultInv, NEW h \in Holder, NEW owner \in Holder, NEW n \in Nat,
         Redeem(h, n, h, owner), UNCHANGED clock
  PROVE  Fairly
<1> DEFINE a == ConvertToAssets(n)
<1>1. supply \in Nat /\ TotalAssets \in Nat /\ supply <= TotalAssets
  BY DEF VaultInv
<1>2. a \in Nat /\ IF supply = 0 THEN a <= n ELSE a * supply <= n * TotalAssets
  <2>1. CASE supply = 0
    BY <2>1 DEF ConvertToAssets
  <2>2. CASE supply # 0
    <3>1. a = (n * TotalAssets) \div supply /\ supply > 0
      BY <1>1, <2>2 DEF ConvertToAssets
    <3>2. n * TotalAssets \in Nat
      BY <1>1
    <3> QED BY <1>1, <2>2, <3>1, <3>2, Divided
  <2> QED BY <2>1, <2>2
<1>3. Taken(owner, h, a, n) /\ SpendAndBurn(h, owner, n)
  BY DEF Redeem, SpendAndBurn, Taken
<1> HIDE DEF a
<1> QED BY <1>2, <1>3, Spent, TakenIsFair

(* A gift is tokens added for no share.                                       *)
LEMMA GiftIsFair ==
  ASSUME VaultInv, NEW h \in Holder, NEW a \in Nat, Donate(h, a), UNCHANGED clock
  PROVE  Fairly
<1>1. supply \in Nat /\ TotalAssets \in Nat /\ shares \in [Holder -> Nat]
  BY DEF VaultInv, VaultTyped
<1>2. shares' = [shares EXCEPT ![h] = @ + 0] /\ supply' = supply + 0
  BY <1>1 DEF Donate
<1>3. Added(h, h, a, 0)
  BY <1>2 DEF Donate, Added
<1>4. IF supply = 0 THEN 0 <= a ELSE 0 * TotalAssets <= a * supply
  <2>1. a * supply \in Nat /\ 0 * TotalAssets = 0
    BY <1>1
  <2> QED BY <2>1
<1>5. allowance' \in [Holder -> [Holder -> Nat]]
  BY DEF Donate, VaultInv, VaultTyped
<1> QED BY <1>3, <1>4, <1>5, AddedIsFair

(* A price that is the same holds.                                            *)
LEMMA SamePrice ==
  ASSUME VaultInv, VaultTyped', clock' \in Nat, UNCHANGED <<shares, supply>>,
         TotalAssets' \in Nat, TotalAssets' >= TotalAssets
  PROVE  Fairly
<1>1. /\ supply \in Nat /\ TotalAssets \in Nat /\ supply <= TotalAssets
      /\ supply = SumFunction(shares)
  BY DEF VaultInv
<1>2. supply' \in Nat /\ supply' <= TotalAssets' /\ supply' = SumFunction(shares')
  BY <1>1
<1>3. TotalAssets * supply <= TotalAssets' * supply
  BY <1>1, Grows
<1>4. PriceHolds
  <2>1. TotalAssets * supply' \in Nat /\ TotalAssets' * supply \in Nat
    BY <1>1
  <2> QED BY <1>3, <2>1 DEF PriceHolds
<1> QED BY <1>2, <1>4 DEF Fairly, VaultInv

LEMMA ApprovalIsFair ==
  ASSUME VaultInv, NEW h \in Holder, NEW s \in Holder, NEW n \in Nat,
         ApproveSpender(h, s, n), UNCHANGED clock
  PROVE  Fairly
<1>1. VaultTyped /\ TotalAssets \in Nat /\ clock \in Nat
  BY DEF VaultInv
<1>2. VaultTyped'
  BY <1>1 DEF ApproveSpender, VaultTyped
<1>3. TotalAssets' = TotalAssets
  BY DEF ApproveSpender, TotalAssets, Vested
<1> QED BY <1>1, <1>2, <1>3, SamePrice DEF ApproveSpender

(* What is frozen is given and withheld at once.                              *)
LEMMA FreezingIsFair ==
  ASSUME VaultInv, NEW start \in Nat, NEW end \in Nat, NEW budget \in Nat,
         FreezeYieldSchedule(start, end, budget), UNCHANGED clock
  PROVE  Fairly
<1>1. /\ VaultTyped /\ TotalAssets \in Nat /\ clock \in Nat
      /\ shares \in [Holder -> Nat] /\ allowance \in [Holder -> [Holder -> Nat]]
  BY DEF VaultInv, VaultTyped
<1>2. /\ ~schedule.frozen /\ clock < start /\ start < end
      /\ Transfer(ScheduleOwner, VaultAccount, budget)
      /\ schedule' = [frozen |-> TRUE, start |-> start, end |-> end, budget |-> budget]
      /\ UNCHANGED <<shares, supply, allowance>>
  BY DEF FreezeYieldSchedule
<1>3. /\ tokens' \in [Accounts -> Nat] /\ tokens[VaultAccount] \in Nat
      /\ tokens'[VaultAccount] = tokens[VaultAccount] + budget
  <2>1. ScheduleOwner \in Accounts /\ VaultAccount \in Accounts /\ ScheduleOwner # VaultAccount
    BY VaultAssumption, OneVault
  <2> QED BY <1>1, <1>2, <2>1, Transferred
<1>4. VaultTyped'
  BY <1>1, <1>2, <1>3 DEF VaultTyped, Schedules
<1>5. TotalAssets = tokens[VaultAccount]
  BY <1>2, <1>3 DEF TotalAssets
<1>6. Vested' = 0
  <2>1. schedule'.start = start /\ clock' = clock /\ clock <= start
    BY <1>1, <1>2
  <2> QED BY <2>1 DEF Vested
<1>7. TotalAssets' = TotalAssets
  BY <1>2, <1>3, <1>5, <1>6 DEF TotalAssets
<1> QED BY <1>1, <1>2, <1>4, <1>7, SamePrice

(* The clock adds the yield it releases.                                      *)
LEMMA TimeIsFair ==
  ASSUME VaultInv, clock' = clock + 1, UNCHANGED vaultVars
  PROVE  Fairly
<1>1. VaultTyped /\ TotalAssets \in Nat /\ clock \in Nat
  BY DEF VaultInv
<1>2. VaultTyped' /\ clock' \in Nat
  BY <1>1 DEF vaultVars, VaultTyped
<1>3. /\ schedule' = schedule /\ tokens' = tokens
      /\ schedule \in Schedules /\ (schedule.frozen => schedule.start < schedule.end)
      /\ tokens[VaultAccount] \in Nat /\ schedule.budget \in Nat
  <2>1. VaultAccount \in Accounts
    BY OneVault
  <2> QED BY <1>1, <2>1 DEF vaultVars, VaultTyped, Schedules
<1>4. Vested' = Released(schedule, clock + 1)
  BY <1>3 DEF Vested, Released
<1>5. /\ Vested \in Nat /\ Vested' \in Nat /\ Vested <= Vested'
      /\ Vested <= schedule.budget /\ Vested' <= schedule.budget
  <2>1. clock + 1 \in Nat
    BY <1>1
  <2> QED BY <1>1, <1>3, <1>4, <2>1, VestedIs, ReleasedGrows
<1>6. TotalAssets' = tokens[VaultAccount] - Unvested' /\ TotalAssets = tokens[VaultAccount] - Unvested
  BY <1>3, AssetsOf, AssetsNext
<1>7. Unvested' <= Unvested /\ Unvested' \in Nat /\ Unvested \in Nat
  BY <1>3, <1>5 DEF Unvested
<1>8. TotalAssets' \in Nat /\ TotalAssets' >= TotalAssets
  BY <1>1, <1>3, <1>6, <1>7
<1> QED BY <1>1, <1>2, <1>8, SamePrice DEF vaultVars

-----------------------------------------------------------------------------
(* Every step of the scenario leaves the vault alone, is one of its calls, or *)
(* moves the clock.                                                           *)
MarketInv == work \in Workloads /\ VaultInv

LEMMA MarketInitially == Init => MarketInv
<1> SUFFICES ASSUME Init PROVE MarketInv
  OBVIOUS
<1>1. work \in Workloads /\ clock = 0 /\ VaultInit
  BY DEF Init
<1>2. /\ tokens = [a \in Accounts |-> IF a \in Holder THEN Funds[a] ELSE 0]
      /\ shares = [h \in Holder |-> 0] /\ supply = 0
      /\ allowance = [h \in Holder |-> [s \in Holder |-> 0]]
      /\ schedule = [frozen |-> FALSE, start |-> 0, end |-> 0, budget |-> 0]
  BY <1>1 DEF VaultInit, Accounts
<1>3. VaultTyped
  BY <1>2, VaultAssumption DEF VaultTyped, Accounts, Schedules
<1>4. TotalAssets = 0
  <2>1. tokens[VaultAccount] = 0
    BY <1>2, OneVault
  <2> QED BY <1>2, <2>1 DEF TotalAssets
<1>5. SumFunction(shares) = 0
  <2>1. shares \in [Holder -> Int] /\ \A h \in Holder : shares[h] = 0
    BY <1>2
  <2> QED BY <2>1, VaultAssumption, SumZero
<1> QED BY <1>1, <1>2, <1>3, <1>4, <1>5 DEF MarketInv, VaultInv

LEMMA AwayIsFair ==
  ASSUME VaultInv, UNCHANGED <<vaultVars, clock>>
  PROVE  Fairly
<1>1. VaultTyped /\ TotalAssets \in Nat /\ clock \in Nat
  BY DEF VaultInv
<1>2. VaultTyped' /\ clock' \in Nat
  BY <1>1 DEF vaultVars, VaultTyped
<1>3. TotalAssets' = TotalAssets
  BY DEF vaultVars, TotalAssets, Vested
<1> QED BY <1>1, <1>2, <1>3, SamePrice DEF vaultVars

LEMMA CallIsFair ==
  ASSUME MarketInv, MarketCall, UNCHANGED clock
  PROVE  Fairly
<1>1. VaultInv /\ Units \subseteq Nat /\ MaxTime[work] \in Nat
  BY ScenarioAssumption DEF MarketInv
<1>2. ASSUME NEW start \in 1 .. MaxTime[work], NEW end \in 1 .. MaxTime[work],
             NEW budget \in Units, FreezeYieldSchedule(start, end, budget)
      PROVE  Fairly
  <2>1. start \in Nat /\ end \in Nat /\ budget \in Nat
    BY <1>1
  <2> QED BY <1>1, <1>2, <2>1, FreezingIsFair
<1>3. ASSUME NEW h \in Holder, NEW to \in Holder, NEW n \in Units, DepositAssets(h, n, to)
      PROVE  Fairly
  BY <1>1, <1>3, DepositIsFair
<1>4. ASSUME NEW h \in Holder, NEW to \in Holder, NEW n \in Units, Mint(h, n, to)
      PROVE  Fairly
  BY <1>1, <1>4, MintIsFair
<1>5. ASSUME NEW h \in Holder, NEW owner \in Holder, NEW n \in Units,
             WithdrawAssets(h, n, h, owner)
      PROVE  Fairly
  BY <1>1, <1>5, WithdrawalIsFair
<1>6. ASSUME NEW h \in Holder, NEW owner \in Holder, NEW n \in Units, Redeem(h, n, h, owner)
      PROVE  Fairly
  BY <1>1, <1>6, RedemptionIsFair
<1>7. ASSUME NEW h \in Holder, NEW s \in Holder, NEW n \in Units, ApproveSpender(h, s, n)
      PROVE  Fairly
  BY <1>1, <1>7, ApprovalIsFair
<1>8. ASSUME NEW h \in Holder, NEW n \in Units, Donate(h, n)
      PROVE  Fairly
  BY <1>1, <1>8, GiftIsFair
<1> QED
  BY <1>2, <1>3, <1>4, <1>5, <1>6, <1>7, <1>8 DEF MarketCall

LEMMA FillIsFair ==
  ASSUME MarketInv, FillVault
  PROVE  Fairly
<1>1. VaultInv /\ Units \subseteq Nat /\ UNCHANGED clock
  BY ScenarioAssumption DEF MarketInv, FillVault
<1>2. ASSUME NEW h \in Holder, NEW n \in Units, DepositAssets(h, n, h)
      PROVE  Fairly
  BY <1>1, <1>2, DepositIsFair
<1>3. ASSUME NEW h \in Holder, NEW n \in Units, Donate(h, n)
      PROVE  Fairly
  BY <1>1, <1>3, GiftIsFair
<1> QED
  BY <1>2, <1>3 DEF FillVault

(* The steps that leave the vault and the time alone.                         *)
Away == UNCHANGED <<vaultVars, clock, work>>

LEMMA BuiltAway ==
  ASSUME NEW answer, NEW w, Operate(w), Build(answer)
  PROVE  Away
BY DEF Operate, Build, Away

LEMMA StepsAway ==
  ASSUME \/ PlanSupply \/ EnterReference \/ AccruePosition \/ WithdrawPosition
         \/ CaptureVault \/ EnterVault \/ ExitVault \/ ApproveSwap \/ SwapCash
         \/ ApplyNext \/ Deliver \/ TakeCheckpoint \/ Diagnose
  PROVE  Away
<1>1. CASE PlanSupply
  BY <1>1, BuiltAway DEF PlanSupply
<1>2. CASE EnterReference
  BY <1>2 DEF EnterReference, Operate, Away
<1>3. CASE AccruePosition
  BY <1>3, BuiltAway DEF AccruePosition
<1>4. CASE WithdrawPosition
  BY <1>4, BuiltAway DEF WithdrawPosition
<1>5. CASE CaptureVault
  BY <1>5 DEF CaptureVault, Operate, Away
<1>6. CASE EnterVault
  BY <1>6, BuiltAway DEF EnterVault
<1>7. CASE ExitVault
  BY <1>7, BuiltAway DEF ExitVault
<1>8. CASE ApproveSwap
  BY <1>8, BuiltAway DEF ApproveSwap
<1>9. CASE SwapCash
  BY <1>9, BuiltAway DEF SwapCash
<1>10. CASE ApplyNext
  BY <1>10 DEF ApplyNext, Operate, Away
<1>11. CASE Deliver
  BY <1>11 DEF Deliver, Operate, Away
<1>12. CASE TakeCheckpoint
  BY <1>12 DEF TakeCheckpoint, Operate, Away
<1>13. CASE Diagnose
  BY <1>13 DEF Diagnose, Operate, Away
<1> QED
  BY <1>1, <1>2, <1>3, <1>4, <1>5, <1>6, <1>7, <1>8, <1>9, <1>10, <1>11, <1>12, <1>13

LEMMA MarketStep ==
  ASSUME MarketInv, Next
  PROVE  MarketInv' /\ PriceHolds
<1>1. VaultInv /\ work \in Workloads
  BY DEF MarketInv
<1>2. CASE UseVault
  <2>1. MarketCall /\ clock' = clock /\ work' = work
    BY <1>2 DEF UseVault, Operate
  <2> QED BY <1>1, <2>1, CallIsFair DEF Fairly, MarketInv
<1>3. CASE FillVault
  <2>1. work' = work
    BY <1>3 DEF FillVault, Operate
  <2> QED BY <1>1, <1>3, <2>1, FillIsFair DEF Fairly, MarketInv
<1>4. CASE Tick
  <2>1. clock' = clock + 1 /\ UNCHANGED vaultVars /\ work' = work
    BY <1>4 DEF Tick
  <2> QED BY <1>1, <2>1, TimeIsFair DEF Fairly, MarketInv
<1>5. CASE ~UseVault /\ ~FillVault /\ ~Tick
  <2>1. UNCHANGED <<vaultVars, clock>> /\ work' = work
    BY <1>5, StepsAway DEF Next, Away
  <2> QED BY <1>1, <2>1, AwayIsFair DEF Fairly, MarketInv
<1> QED BY <1>2, <1>3, <1>4, <1>5

(* Whoever deposits, mints, withdraws, redeems, gives or waits, and however   *)
(* the divisions round: no share of the vault is worth less after the step,   *)
(* and a token backs each of them at least (FiniteYieldVault).                *)
THEOREM SharesKeepTheirPrice == Spec => SharePriceNeverFalls
<1> DEFINE Step == /\ supply' > 0 => TotalAssets' >= supply'
                   /\ supply > 0 /\ supply' > 0 => TotalAssets' * supply >= TotalAssets * supply'
<1>1. MarketInv /\ [Next]_vars => MarketInv'
  <2> SUFFICES ASSUME MarketInv, UNCHANGED vars PROVE MarketInv'
    BY MarketStep
  <2>1. VaultInv /\ UNCHANGED <<vaultVars, clock, work>>
    BY DEF MarketInv, vars
  <2> QED BY <2>1, AwayIsFair DEF Fairly, MarketInv
<1>2. MarketInv /\ [Next]_vars => [Step]_vars
  <2> SUFFICES ASSUME MarketInv, Next PROVE Step
    OBVIOUS
  <2>1. VaultInv' /\ PriceHolds
    BY MarketStep DEF MarketInv
  <2>2. supply' \in Nat /\ TotalAssets' \in Nat /\ supply' <= TotalAssets'
    BY <2>1 DEF VaultInv
  <2> QED BY <2>1, <2>2 DEF PriceHolds
<1> QED
  BY <1>1, <1>2, MarketInitially, PTL DEF Spec, SharePriceNeverFalls

-----------------------------------------------------------------------------
(* The books.  The inductive invariant adds to that of the vault that the agent *)
(* and both references are sound portfolios (PortfolioProofs), that what is     *)
(* planned are receipts of the schema, and that the archived quote is made of   *)
(* numbers.                                                                     *)

(* Plans and scripts: sequences of receipts.                                  *)
ReceiptsFit(s) == IsSequence(s) /\ \A i \in DOMAIN s : IsReceipt(s[i])

LEMMA OneAfterOther ==
  ASSUME NEW s, ReceiptsFit(s), NEW t, ReceiptsFit(t)
  PROVE  ReceiptsFit(s \o t)
<1>1. PICK S : s \in Seq(S)
  BY DEF ReceiptsFit, IsSequence
<1>2. PICK T : t \in Seq(T)
  BY DEF ReceiptsFit, IsSequence
<1> DEFINE U == S \cup T
           m == Len(s)
           n == Len(t)
<1>3. s \in Seq(U) /\ t \in Seq(U)
  BY <1>1, <1>2
<1>4. s \o t \in Seq(U) /\ m \in Nat /\ n \in Nat /\ DOMAIN s = 1 .. m /\ DOMAIN t = 1 .. n
  BY <1>3
<1>5. DOMAIN (s \o t) = 1 .. m + n
  BY <1>3
<1>6. ASSUME NEW i \in 1 .. m + n PROVE IsReceipt((s \o t)[i])
  <2>1. CASE i \in 1 .. m
    <3>1. (s \o t)[i] = s[i]
      BY <1>3, <2>1
    <3> QED BY <1>4, <2>1, <3>1 DEF ReceiptsFit
  <2>2. CASE i \notin 1 .. m
    <3>1. i - m \in 1 .. n
      BY <1>4, <2>2
    <3>2. (s \o t)[i] = t[i - m]
      BY <1>3, <2>2
    <3> QED BY <1>4, <3>1, <3>2 DEF ReceiptsFit
  <2> QED BY <2>1, <2>2
<1>7. IsSequence(s \o t)
  BY <1>4 DEF IsSequence
<1> QED BY <1>5, <1>6, <1>7 DEF ReceiptsFit

LEMMA RestFits ==
  ASSUME NEW s, ReceiptsFit(s), s # << >>
  PROVE  IsReceipt(Head(s)) /\ ReceiptsFit(Tail(s))
<1>1. PICK S : s \in Seq(S)
  BY DEF ReceiptsFit, IsSequence
<1>2. Len(s) \in Nat \ {0} /\ DOMAIN s = 1 .. Len(s) /\ Head(s) = s[1]
  BY <1>1
<1>3. Tail(s) \in Seq(S) /\ DOMAIN Tail(s) = 1 .. Len(s) - 1
  BY <1>1
<1>4. \A i \in 1 .. Len(s) - 1 : Tail(s)[i] = s[i + 1] /\ i + 1 \in DOMAIN s
  BY <1>1, <1>2
<1> QED BY <1>2, <1>3, <1>4 DEF ReceiptsFit, IsSequence

LEMMA NoReceipts == ReceiptsFit(<< >>)
<1>1. << >> \in Seq({})
  OBVIOUS
<1> QED BY <1>1 DEF ReceiptsFit, IsSequence

LEMMA OneFits ==
  ASSUME NEW r, IsReceipt(r)
  PROVE  ReceiptsFit(<<r>>)
<1>1. <<r>> \in Seq({r}) /\ Len(<<r>>) = 1 /\ <<r>>[1] = r
  OBVIOUS
<1> DEFINE s == <<r>>
<1>2. IsSequence(s) /\ Len(s) = 1 /\ s[1] = r
  BY <1>1 DEF IsSequence
<1> HIDE DEF s
<1>3. DOMAIN s = 1 .. 1
  BY <1>2, SequenceFacts
<1>4. ReceiptsFit(s)
  BY <1>2, <1>3 DEF ReceiptsFit
<1> QED BY <1>4 DEF s

(* The receipts of a diagnostic.                                              *)
LEMMA ScriptStepFits ==
  ASSUME NEW i \in Nat \ {0}, NEW at \in Nat, NEW kind \in DOMAIN Fields,
         NEW b, DOMAIN b = Fields[kind], \A f \in Fields[kind] : Valid(b, f),
         NEW costs, CostsFit(costs)
  PROVE  IsReceipt(ScriptStep(i, at, kind, b, costs))
<1> DEFINE op == <<"script", i>>
           version == i - 1
<1>1. ScriptStep(i, at, kind, b, costs) = Joined(Header(op, version, at, kind, costs), b)
  BY DEF ScriptStep, Header
<1>2. version \in Nat
  OBVIOUS
<1> HIDE DEF op, version
<1> QED BY <1>1, <1>2, ReceiptIs

LEMMA ScriptCostFits ==
  ASSUME NEW i, NEW amount \in Nat, NEW funding \in {"PAYABLE", "AVAILABLE_CASH"},
         NEW family \in Family
  PROVE  CostsFit(ScriptCost(i, amount, funding, family))
<1> DEFINE c == [id |-> <<"script", i, "gas">>, funding |-> funding, amount |-> amount,
                 network |-> NetworkOf[family],
                 family |-> IF funding = "PAYABLE" THEN None ELSE family]
<1>1. IsCost(c)
  BY DEF IsCost
<1>2. ScriptCost(i, amount, funding, family) = {c}
  BY DEF ScriptCost
<1> HIDE DEF c
<1> QED BY <1>1, <1>2, NoCostFits, OneCostFits

(* What a diagnostic is made of.                                              *)
LEMMA ScriptData ==
  /\ Script.invested \in Nat /\ Script.transfer \in Nat /\ Script.gas \in Nat
  /\ Script.failedGas \in Nat /\ Script.days \in Nat /\ Script.turn \in Nat
  /\ Home \in Family /\ Far \in Family
BY DataAssumption, ScenarioAssumption

LEMMA DaysFit ==
  ASSUME NEW first \in Nat, NEW position
  PROVE  ReceiptsFit(Accruals(first, position))
<1> DEFINE n == Script.days
           s == Accruals(first, position)
           body(day) == [position |-> position, num |-> DayIndex(day), den |-> IndexScale]
           step(day) == ScriptStep(first + day, 2 + day, "ACCRUE", body(day), {})
<1>1. n \in Nat /\ s = [day \in 1 .. n |-> step(day)]
  BY ScriptData DEF Accruals
<1>2. ASSUME NEW day \in 1 .. n PROVE IsReceipt(step(day))
  <2> DEFINE b == body(day)
             i == first + day
             at == 2 + day
  <2>1. DayIndex(day) \in Nat
    BY ScriptData, ScenarioAssumption DEF DayIndex
  <2>2. DOMAIN b = Fields["ACCRUE"] /\ "ACCRUE" \in DOMAIN Fields
    BY DEF Fields
  <2>3. \A f \in Fields["ACCRUE"] : Valid(b, f)
    BY <2>1, ScenarioAssumption DEF Fields, Valid
  <2>4. i \in Nat \ {0} /\ at \in Nat
    BY <1>1
  <2>5. step(day) = ScriptStep(i, at, "ACCRUE", b, {})
    OBVIOUS
  <2> HIDE DEF b, i, at, step
  <2> QED BY <2>2, <2>3, <2>4, <2>5, NoCostFits, ScriptStepFits
<1> HIDE DEF step, n, s
<1>3. DOMAIN s = 1 .. n /\ s = [day \in 1 .. n |-> s[day]] /\ \A day \in 1 .. n : s[day] = step(day)
  BY <1>1
<1>4. IsSequence(s) /\ Len(s) = n
  BY <1>1, <1>3, ListIsSequence
<1>5. ReceiptsFit(s)
  BY <1>2, <1>3, <1>4 DEF ReceiptsFit
<1> QED BY <1>5 DEF s

LEMMA GasOfStepFits ==
  ASSUME NEW i
  PROVE  CostsFit(Gas(i))
BY ScriptData, ScriptCostFits DEF Gas

LEMMA EntryFits == ReceiptsFit(Entry)
<1> DEFINE a == [id |-> "allowance", amount |-> Script.invested]
           d == [family |-> Home, position |-> "position", shares |-> Script.invested,
                 num |-> 1, den |-> 1, amount |-> Script.invested]
           first == ScriptStep(1, 1, "APPROVE", a, Gas(1))
           second == ScriptStep(2, 2, "DEPOSIT", d, Gas(2))
<1>1. IsReceipt(first)
  <2>1. DOMAIN a = Fields["APPROVE"] /\ "APPROVE" \in DOMAIN Fields
    BY DEF Fields
  <2>2. \A f \in Fields["APPROVE"] : Valid(a, f)
    BY ScriptData DEF Fields, Valid
  <2> HIDE DEF a
  <2> QED BY <2>1, <2>2, GasOfStepFits, ScriptStepFits
<1>2. IsReceipt(second)
  <2>1. DOMAIN d = Fields["DEPOSIT"] /\ "DEPOSIT" \in DOMAIN Fields
    BY DEF Fields
  <2>2. \A f \in Fields["DEPOSIT"] : Valid(d, f)
    BY ScriptData DEF Fields, Valid
  <2> HIDE DEF d
  <2> QED BY <2>1, <2>2, GasOfStepFits, ScriptStepFits
<1>3. Entry = <<first>> \o <<second>>
  BY DEF Entry
<1> HIDE DEF first, second
<1> QED BY <1>1, <1>2, <1>3, OneFits, OneAfterOther

LEMMA ReplayFits == ReceiptsFit(ReplayScript)
BY EntryFits, DaysFit, OneAfterOther DEF ReplayScript

LEMMA MoveFits ==
  ASSUME NEW i \in Nat \ {0}, NEW at \in Nat, NEW costs, CostsFit(costs),
         NEW kind \in {"TRANSFER_DELAYED", "TRANSFER_READY", "TRANSFER_DESTINATION_RETRY"}
  PROVE  IsReceipt(Move(i, at, kind, costs))
<1> DEFINE b == [id |-> "transfer"]
<1>1. DOMAIN b = Fields[kind] /\ kind \in DOMAIN Fields
  BY DEF Fields
<1>2. \A f \in Fields[kind] : Valid(b, f)
  <2>1. Fields[kind] = {"id"}
    BY <1>1
  <2> QED BY <2>1 DEF Valid
<1> HIDE DEF b
<1>3. Move(i, at, kind, costs) = ScriptStep(i, at, kind, b, costs)
  BY DEF Move, b
<1> QED BY <1>1, <1>2, <1>3, ScriptStepFits

LEMMA EmptyStepFits ==
  ASSUME NEW i \in Nat \ {0}, NEW at \in Nat, NEW costs, CostsFit(costs),
         NEW kind \in {"COST", "CLOSE"}
  PROVE  IsReceipt(ScriptStep(i, at, kind, << >>, costs))
<1>1. DOMAIN << >> = Fields[kind] /\ kind \in DOMAIN Fields
  BY DEF Fields
<1>2. \A f \in Fields[kind] : Valid(<< >>, f)
  BY DEF Fields
<1> QED BY <1>1, <1>2, ScriptStepFits

LEMMA StressFits == ReceiptsFit(StressScript)
<1> DEFINE w == [family |-> Home, position |-> "position", shares |-> Script.invested,
                 amount |-> Script.invested]
           e == [id |-> "reservation", family |-> Home, amount |-> Script.transfer]
           b == [reservation |-> "reservation", id |-> "transfer", message |-> "message",
                 family |-> Far, amount |-> Script.transfer]
           t == [id |-> "transfer", amount |-> Script.transfer]
           r3 == ScriptStep(3, 3, "WITHDRAW", w, Gas(3))
           r4 == ScriptStep(4, 4, "COST", << >>,
                            ScriptCost(4, Script.failedGas, "AVAILABLE_CASH", Home))
           r5 == ScriptStep(5, 5, "RESERVE", e, {})
           r6 == ScriptStep(6, 6, "TRANSFER_BURNED", b, Gas(6))
           r7 == Move(7, 70, "TRANSFER_DELAYED", {})
           r8 == ScriptStep(8, 71, "CLOSE", << >>, {})
           r9 == Move(9, 72, "TRANSFER_READY", {})
           r10 == Move(10, 73, "TRANSFER_DESTINATION_RETRY",
                       ScriptCost(10, Script.failedGas, "PAYABLE", Far))
           r11 == Move(11, 74, "TRANSFER_READY", {})
           r12 == ScriptStep(12, 75, "TRANSFER_SETTLED", t, {})
<1>1. IsReceipt(r3)
  <2>1. DOMAIN w = Fields["WITHDRAW"] /\ "WITHDRAW" \in DOMAIN Fields
    BY DEF Fields
  <2>2. \A f \in Fields["WITHDRAW"] : Valid(w, f)
    BY ScriptData DEF Fields, Valid
  <2> HIDE DEF w
  <2> QED BY <2>1, <2>2, GasOfStepFits, ScriptStepFits
<1>2. IsReceipt(r5)
  <2>1. DOMAIN e = Fields["RESERVE"] /\ "RESERVE" \in DOMAIN Fields
    BY DEF Fields
  <2>2. \A f \in Fields["RESERVE"] : Valid(e, f)
    BY ScriptData DEF Fields, Valid
  <2> HIDE DEF e
  <2> QED BY <2>1, <2>2, NoCostFits, ScriptStepFits
<1>3. IsReceipt(r6)
  <2>1. DOMAIN b = Fields["TRANSFER_BURNED"] /\ "TRANSFER_BURNED" \in DOMAIN Fields
    BY DEF Fields
  <2>2. \A f \in Fields["TRANSFER_BURNED"] : Valid(b, f)
    BY ScriptData DEF Fields, Valid
  <2> HIDE DEF b
  <2> QED BY <2>1, <2>2, GasOfStepFits, ScriptStepFits
<1>4. IsReceipt(r12)
  <2>1. DOMAIN t = Fields["TRANSFER_SETTLED"] /\ "TRANSFER_SETTLED" \in DOMAIN Fields
    BY DEF Fields
  <2>2. \A f \in Fields["TRANSFER_SETTLED"] : Valid(t, f)
    BY ScriptData DEF Fields, Valid
  <2> HIDE DEF t
  <2> QED BY <2>1, <2>2, NoCostFits, ScriptStepFits
<1>5. IsReceipt(r4)
  <2> DEFINE costs == ScriptCost(4, Script.failedGas, "AVAILABLE_CASH", Home)
  <2>1. CostsFit(costs)
    BY ScriptData, ScriptCostFits
  <2> HIDE DEF costs
  <2>2. IsReceipt(ScriptStep(4, 4, "COST", << >>, costs))
    BY <2>1, EmptyStepFits
  <2> QED BY <2>2 DEF costs
<1>6. IsReceipt(r8)
  BY NoCostFits, EmptyStepFits
<1>7. IsReceipt(r7) /\ IsReceipt(r9) /\ IsReceipt(r11)
  BY NoCostFits, MoveFits
<1>8. IsReceipt(r10)
  <2> DEFINE costs == ScriptCost(10, Script.failedGas, "PAYABLE", Far)
  <2>1. CostsFit(costs)
    BY ScriptData, ScriptCostFits
  <2> HIDE DEF costs
  <2>2. IsReceipt(Move(10, 73, "TRANSFER_DESTINATION_RETRY", costs))
    BY <2>1, MoveFits
  <2> QED BY <2>2 DEF costs
<1>9. StressScript = Entry \o <<r3, r4, r5, r6, r7, r8, r9, r10, r11, r12>>
  BY DEF StressScript
<1> HIDE DEF r3, r4, r5, r6, r7, r8, r9, r10, r11, r12
<1>10. ReceiptsFit(<<r3, r4, r5, r6, r7, r8, r9, r10, r11, r12>>)
  <2> DEFINE S == {r3, r4, r5, r6, r7, r8, r9, r10, r11, r12}
             s == <<r3, r4, r5, r6, r7, r8, r9, r10, r11, r12>>
  <2>1. s \in Seq(S)
    OBVIOUS
  <2>2. \A r \in S : IsReceipt(r)
    BY <1>1, <1>2, <1>3, <1>4, <1>5, <1>6, <1>7, <1>8
  <2> HIDE DEF s, S
  <2>3. \A i \in DOMAIN s : s[i] \in S
    BY <2>1
  <2>4. ReceiptsFit(s)
    BY <2>1, <2>2, <2>3 DEF ReceiptsFit, IsSequence
  <2> QED BY <2>4 DEF s
<1> QED BY <1>9, <1>10, EntryFits, OneAfterOther

(* A capital of cash alone.                                                   *)
LEMMA CapitalIs == Total(Opening) \in Nat \ {0}
<1>1. /\ Opening \in [Family -> Nat] /\ IsFiniteSet(Family)
      /\ Home \in Family /\ Opening[Home] > 0 /\ Opening[Home] \in Nat
  BY ScenarioAssumption, ReducerAssumption
<1>2. SumFunction(Opening) \in Nat /\ Opening[Home] <= SumFunction(Opening)
  BY <1>1, SumNat
<1> QED BY <1>1, <1>2 DEF Total

LEMMA ReferenceFits == ReceiptsFit(ReferenceScript)
<1> DEFINE capital == Total(Opening)
           b == [family |-> Home, position |-> "reference", shares |-> capital,
                 num |-> 1, den |-> 1, amount |-> capital]
           costs == ScriptCost(1, Script.gas, "PAYABLE", Home)
           r == ScriptStep(1, 2, "DEPOSIT", b, costs)
<1>1. IsReceipt(r)
  <2>1. DOMAIN b = Fields["DEPOSIT"] /\ "DEPOSIT" \in DOMAIN Fields
    BY DEF Fields
  <2>2. \A f \in Fields["DEPOSIT"] : Valid(b, f)
    BY ScriptData, CapitalIs DEF Fields, Valid
  <2>3. CostsFit(costs)
    BY ScriptData, ScriptCostFits
  <2> HIDE DEF b, costs
  <2> QED BY <2>1, <2>2, <2>3, ScriptStepFits
<1>2. ReferenceScript = <<r>> \o (IF work = "REPLAY" THEN Accruals(1, "reference") ELSE << >>)
  BY DEF ReferenceScript
<1> HIDE DEF r
<1>3. ReceiptsFit(IF work = "REPLAY" THEN Accruals(1, "reference") ELSE << >>)
  BY NoReceipts, DaysFit
<1> QED BY <1>1, <1>2, <1>3, OneFits, OneAfterOther

LEMMA EmptyBook ==
  ASSUME NEW opening \in [Family -> Nat], \A f \in Family : Fits(opening[f])
  PROVE  Sound(CreatePortfolio(opening))
<1> DEFINE p == CreatePortfolio(opening)
<1>1. /\ p.version = 0 /\ p.initial = Total(opening) /\ p.cash = opening /\ p.pnl = 0
      /\ p.reservations = {} /\ p.positions = {} /\ p.receivables = {} /\ p.payables = {}
      /\ p.allowances = {} /\ p.costs = {} /\ p.applied = << >> /\ p.last = 0
      /\ p.closed = None /\ p.deadline = None
  BY DEF CreatePortfolio
<1>2. IsBook(p)
  BY DEF CreatePortfolio, IsBook, BookFields
<1> HIDE DEF p
<1>3. Priced({}) /\ Distinct({}) /\ Amounts({}) = 0
  <2>1. Priced({})
    BY FS_EmptySet DEF Priced
  <2> QED BY <2>1, AmountsType DEF Distinct
<1>4. /\ ReservationsFit({}) /\ PositionsFit({}, 0) /\ ReceivablesFit({}, 0)
  BY <1>3, FS_EmptySet DEF ReservationsFit, PositionsFit, ReceivablesFit
<1>5. Parts(p, p.last)
  BY <1>1, <1>2, <1>3, <1>4 DEF Parts
<1>6. CashFits(p) /\ Total(opening) \in Nat
  <2>1. Total(opening) \in Nat
    BY ReducerAssumption, SumNat DEF Total
  <2> QED BY <1>1, <2>1 DEF CashFits
<1>7. Books(p) = 0
  <2> DEFINE f == [x \in p.positions |-> x.book]
  <2>1. f \in [{} -> Int]
    BY <1>1
  <2>2. Books(p) = SumFunction(f)
    BY DEF Books
  <2> HIDE DEF f
  <2> QED BY <2>1, <2>2, SumEmpty
<1>8. GlobalBook(p) = Total(opening)
  <2>1. Gross(p) = Total(opening) + 0 + 0 + 0
    BY <1>1, <1>3, <1>7 DEF Gross
  <2> QED BY <1>1, <1>3, <1>6, <2>1 DEF GlobalBook
<1>9. IsSequence(<< >>) /\ Len(<< >>) = 0 /\ DOMAIN << >> = {}
  BY NoReceipts DEF ReceiptsFit
<1>10. History(p.applied) /\ Owed(p.payables, p.costs) /\ Rooted(p.costs, p.applied)
       /\ Rooted(p.reservations, p.applied)
  BY <1>1, <1>9 DEF History, Owed, Rooted
<1>11. GlobalBook(p) >= 0 /\ GlobalBook(p) = p.initial + p.pnl - Amounts(p.costs)
  BY <1>1, <1>3, <1>6, <1>8
<1>12. /\ Priced(p.costs) /\ Distinct(p.costs) /\ IsSequence(p.applied)
       /\ p.version = Len(p.applied)
       /\ p.version \in Nat /\ p.initial \in Nat /\ p.last \in Nat
  BY <1>1, <1>3, <1>6, <1>9
<1>13. Sound(p)
  BY <1>5, <1>6, <1>10, <1>11, <1>12, SoundBy
<1> QED BY <1>13 DEF p

(* The portfolios, plan and observation of a scenario.                        *)
Capitalized(p) == Sound(p) /\ p.initial = Total(Opening)

(* The cash reference only ever holds the capital it started from.            *)
ReferencesFit(refs) ==
  \E c, y, a, b :
    /\ refs = [cash |-> [portfolio |-> c, available |-> a],
               yield |-> [portfolio |-> y, available |-> b]]
    /\ c = CreatePortfolio(Opening) /\ Capitalized(y)

PlanFits(p) ==
  /\ p = [receipts |-> p.receipts, base |-> p.base, since |-> p.since, done |-> p.done]
  /\ ReceiptsFit(p.receipts)

QuoteFits(q) ==
  q # None => /\ q.shares \in Nat /\ q.depositFee \in Nat
              /\ q.assets \in Nat /\ q.redeemFee \in Nat

Bounded == steps \in 0 .. MaxSteps[work] /\ clock \in 0 .. MaxTime[work]

BooksFit ==
  /\ Bounded
  /\ Capitalized(portfolio) /\ ReferencesFit(references) /\ PlanFits(plan) /\ QuoteFits(quote)

BooksInv == MarketInv /\ BooksFit

LEMMA OpeningIs == Capitalized(CreatePortfolio(Opening))
<1>1. Sound(CreatePortfolio(Opening))
  BY ScenarioAssumption, EmptyBook
<1>2. CreatePortfolio(Opening).initial = Total(Opening)
  BY DEF CreatePortfolio
<1> QED BY <1>1, <1>2 DEF Capitalized

LEMMA BooksInitially == Init => BooksInv
<1> SUFFICES ASSUME Init PROVE BooksInv
  OBVIOUS
<1>1. MarketInv /\ work \in Workloads /\ steps = 0 /\ clock = 0
  BY MarketInitially DEF Init
<1>2. Bounded
  BY <1>1, ScenarioAssumption DEF Bounded
<1>3. portfolio = CreatePortfolio(Opening) /\ references = MakeReferences(portfolio)
      /\ quote = None
      /\ plan = IF Scripted THEN [NoPlan EXCEPT !.receipts = ScriptOf(work)] ELSE NoPlan
  BY DEF Init
<1>4. Capitalized(portfolio)
  BY <1>3, OpeningIs
<1>5. ReferencesFit(references)
  BY <1>3, <1>4 DEF MakeReferences, ReferencesFit
<1>6. PlanFits(plan)
  <2>1. ReceiptsFit(ScriptOf(work))
    BY StressFits, ReplayFits DEF ScriptOf
  <2>2. \A s : ReceiptsFit(s) => PlanFits([receipts |-> s, base |-> 0, since |-> 0, done |-> 0])
    BY DEF PlanFits
  <2>3. \E s : ReceiptsFit(s) /\ plan = [receipts |-> s, base |-> 0, since |-> 0, done |-> 0]
    BY <1>3, <2>1, NoReceipts DEF NoPlan
  <2> QED BY <2>2, <2>3
<1> QED BY <1>1, <1>2, <1>3, <1>4, <1>5, <1>6 DEF BooksInv, BooksFit, QuoteFits

-----------------------------------------------------------------------------
(* What the state says about the arguments of an adapter.                     *)
LEMMA ObservedFacts ==
  ASSUME NEW body, NEW at, NEW until
  PROVE  \A f \in DOMAIN body : Observed(body, at, until)[f] = body[f]
BY JoinedFacts DEF Observed

LEMMA ArchivedFacts ==
  ASSUME NEW body
  PROVE  \A f \in DOMAIN body : Archived(body)[f] = body[f]
BY ObservedFacts DEF Archived

(* A gauge and a conversion, whenever and until when they were observed.      *)
LEMMA GasIsPriced ==
  ASSUME NEW amount, NEW updated, NEW at, NEW until, NEW since, NEW end
  PROVE  /\ GaugeFits(Observed(Gauge(amount), at, until), Observed(Conversion, since, end))
         /\ GaugeFits(Observed(Gauge(amount), at, until),
                      Observed([Conversion EXCEPT !.updated = updated], since, end))
<1> DEFINE gauge == Gauge(amount)
           set == [Conversion EXCEPT !.updated = updated]
           g == Observed(gauge, at, until)
           c == Observed(Conversion, since, end)
           d == Observed(set, since, end)
<1>1. DOMAIN gauge = {"amount", "wei"} /\ gauge.wei = GasWei /\ GasWei \in Nat
  BY DataAssumption DEF Gauge
<1>2. /\ DOMAIN Conversion = {"num", "den", "updated", "heartbeat"} /\ Conversion.num \in Nat
      /\ Conversion.den \in Nat \ {0}
  BY DataAssumption
<1>3. DOMAIN set = DOMAIN Conversion /\ set.num = Conversion.num /\ set.den = Conversion.den
  BY <1>2
<1> HIDE DEF gauge, set
<1>4. g.wei \in Nat
  BY <1>1, ObservedFacts
<1>5. c.num \in Nat /\ c.den \in Nat \ {0}
  BY <1>2, ObservedFacts
<1>6. d.num \in Nat /\ d.den \in Nat \ {0}
  BY <1>2, <1>3, ObservedFacts
<1> QED BY <1>4, <1>5, <1>6 DEF GaugeFits, gauge, set

LEMMA HereFits ==
  ASSUME BooksInv, NEW at \in Nat
  PROVE  ContextFits(Context(at)) /\ ContextFits([Context(at) EXCEPT !.version = 0])
BY SoundFacts, ScenarioAssumption DEF BooksInv, BooksFit, Capitalized, Context, ContextFits

(* A step that counts as an operation, at the same time.                      *)
LEMMA OperationBounded ==
  ASSUME BooksInv, NEW w, Operate(w), UNCHANGED clock
  PROVE  Bounded'
<1>1. /\ work = w /\ work \in AllWorkloads /\ work' = work /\ steps' = steps + 1
      /\ steps < MaxSteps[work] /\ steps \in Nat
  BY ScenarioAssumption DEF BooksInv, BooksFit, Bounded, MarketInv, Operate
<1>2. MaxSteps[work] \in Nat /\ clock \in 0 .. MaxTime[work]
  BY <1>1, ScenarioAssumption DEF BooksInv, BooksFit, Bounded
<1>3. steps + 1 \in 0 .. MaxSteps[work]
  BY <1>1, <1>2
<1> QED BY <1>1, <1>2, <1>3 DEF Bounded

LEMMA BuiltFits ==
  ASSUME BooksInv, NEW w, Operate(w), NEW answer, AnswerFits(answer), Build(answer)
  PROVE  BooksFit'
<1>1. /\ answer.faults = {} /\ UNCHANGED <<portfolio, references, quote, clock>>
      /\ plan' = [receipts |-> answer.receipts, base |-> portfolio.version,
                  since |-> portfolio.last, done |-> 0]
  BY DEF Build
<1>2. Bounded'
  BY <1>1, OperationBounded
<1>3. ReceiptsFit(answer.receipts)
  BY <1>1 DEF AnswerFits, ReceiptsFit
<1>4. PlanFits(plan')
  BY <1>1, <1>3 DEF PlanFits
<1>5. Capitalized(portfolio) /\ ReferencesFit(references) /\ QuoteFits(quote)
  BY DEF BooksInv, BooksFit
<1> QED BY <1>1, <1>2, <1>4, <1>5 DEF BooksFit

(* A position of a sound portfolio.                                           *)
LEMMA PositionIs ==
  ASSUME BooksInv, NEW x \in portfolio.positions
  PROVE  x.shares \in Nat /\ x.book \in Nat
<1>1. Parts(portfolio, portfolio.last)
  BY SoundFacts DEF BooksInv, BooksFit, Capitalized
<1> QED BY <1>1 DEF Parts, PositionsFit, PositionFits, IsPosition

LEMMA TimeIs == BooksInv => clock \in Nat /\ Home \in Family
BY ScenarioAssumption DEF BooksInv, MarketInv, VaultInv

LEMMA ReserveIs ==
  ASSUME NEW reserve \in Reserves
  PROVE  Archived(reserve).ray \in Nat /\ reserve.ray \in Nat \ {0}
<1>1. reserve \in [open : BOOLEAN, cap : Nat, supplied : Nat, liquidity : Nat, ray : Nat \ {0}]
  BY DataAssumption
<1>2. "ray" \in DOMAIN reserve /\ reserve.ray \in Nat \ {0}
  BY <1>1
<1> QED BY <1>2, ArchivedFacts

LEMMA AccrualFits ==
  ASSUME BooksInv, AccruePosition
  PROVE  BooksFit'
<1>1. PICK x \in portfolio.positions, reserve \in Reserves, before \in Reserves :
        Build(AaveAccrue(Context(clock), [position |-> x.id, opening |-> before.ray,
                                          reserve |-> Archived(reserve)]))
  BY DEF AccruePosition
<1> DEFINE in == [position |-> x.id, opening |-> before.ray, reserve |-> Archived(reserve)]
<1>2. in.reserve.ray \in Nat /\ in.opening \in Nat \ {0}
  BY ReserveIs
<1>3. ContextFits(Context(clock)) /\ Operate("AAVE")
  BY TimeIs, HereFits DEF AccruePosition
<1> HIDE DEF in
<1>4. AnswerFits(AaveAccrue(Context(clock), in))
  BY <1>2, <1>3, AccrualAnswers
<1>5. Build(AaveAccrue(Context(clock), in))
  BY <1>1 DEF in
<1> QED BY <1>3, <1>4, <1>5, BuiltFits

LEMMA WithdrawalFits ==
  ASSUME BooksInv, WithdrawPosition
  PROVE  BooksFit'
<1>1. PICK x \in portfolio.positions, reserve \in Reserves :
        Build(AaveWithdraw(Context(clock),
             [position |-> x.id, shares |-> x.shares, book |-> x.book,
              reserve |-> Archived(reserve), gas |-> Archived(Gauge(x.book)),
              conversion |-> Archived(Conversion)]))
  BY DEF WithdrawPosition
<1> DEFINE in == [position |-> x.id, shares |-> x.shares, book |-> x.book,
                  reserve |-> Archived(reserve), gas |-> Archived(Gauge(x.book)),
                  conversion |-> Archived(Conversion)]
<1>2. in.shares \in Nat /\ in.book \in Nat
  BY PositionIs
<1>3. GaugeFits(in.gas, in.conversion)
  BY GasIsPriced DEF Archived
<1>4. ContextFits(Context(clock)) /\ Operate("AAVE")
  BY TimeIs, HereFits DEF WithdrawPosition
<1> HIDE DEF in
<1>5. AnswerFits(AaveWithdraw(Context(clock), in))
  BY <1>2, <1>3, <1>4, WithdrawalAnswers
<1>6. Build(AaveWithdraw(Context(clock), in))
  BY <1>1 DEF in
<1> QED BY <1>4, <1>5, <1>6, BuiltFits

LEMMA VaultEntryFits ==
  ASSUME BooksInv, EnterVault
  PROVE  BooksFit'
<1>1. PICK amount \in Stakes :
        Build(VaultDeposit(Context(clock),
             [amount |-> amount, position |-> VaultPosition, vault |-> quote,
              gas |-> Archived(Gauge(amount)), conversion |-> Archived(Conversion)]))
  BY DEF EnterVault
<1> DEFINE in == [amount |-> amount, position |-> VaultPosition, vault |-> quote,
                  gas |-> Archived(Gauge(amount)), conversion |-> Archived(Conversion)]
<1>2. in.amount \in Nat /\ in.vault.shares \in Nat /\ in.vault.depositFee \in Nat
  BY ScenarioAssumption DEF EnterVault, BooksInv, BooksFit, QuoteFits
<1>3. GaugeFits(in.gas, in.conversion)
  BY GasIsPriced DEF Archived
<1>4. ContextFits(Context(clock)) /\ Operate("VAULT")
  BY TimeIs, HereFits DEF EnterVault
<1> HIDE DEF in
<1>5. AnswerFits(VaultDeposit(Context(clock), in))
  BY <1>2, <1>3, <1>4, VaultDepositAnswers
<1>6. Build(VaultDeposit(Context(clock), in))
  BY <1>1 DEF in
<1> QED BY <1>4, <1>5, <1>6, BuiltFits

LEMMA VaultExitFits ==
  ASSUME BooksInv, ExitVault
  PROVE  BooksFit'
<1>1. PICK x \in Position :
        Build(VaultRedeem(Context(clock),
             [position |-> x.id, shares |-> x.shares, book |-> x.book, vault |-> quote,
              gas |-> Archived(Gauge(x.book)), conversion |-> Archived(Conversion)]))
  BY DEF ExitVault
<1> DEFINE in == [position |-> x.id, shares |-> x.shares, book |-> x.book, vault |-> quote,
                  gas |-> Archived(Gauge(x.book)), conversion |-> Archived(Conversion)]
<1>2. in.shares \in Nat /\ in.book \in Nat
  BY PositionIs DEF Position
<1>3. in.vault.assets \in Nat /\ in.vault.redeemFee \in Nat
  BY DEF ExitVault, BooksInv, BooksFit, QuoteFits
<1>4. GaugeFits(in.gas, in.conversion)
  BY GasIsPriced DEF Archived
<1>5. ContextFits(Context(clock)) /\ Operate("VAULT")
  BY TimeIs, HereFits DEF ExitVault
<1> HIDE DEF in
<1>6. AnswerFits(VaultRedeem(Context(clock), in))
  BY <1>2, <1>3, <1>4, <1>5, VaultRedeemAnswers
<1>7. Build(VaultRedeem(Context(clock), in))
  BY <1>1 DEF in
<1> QED BY <1>5, <1>6, <1>7, BuiltFits

LEMMA SwapApprovalFits ==
  ASSUME BooksInv, ApproveSwap
  PROVE  BooksFit'
<1> DEFINE known == With(portfolio.allowances, Router)
           current == IF known = {} THEN 0 ELSE The(known, Router).amount
<1>1. PICK amount \in Units :
        Build(Erc20Approval(Context(clock),
                 [op |-> <<"swap", steps>>, allowance |-> Router, amount |-> amount,
                  current |-> current,
                  gas |-> Archived(Gauge(amount)), conversion |-> Archived(Conversion)]))
  BY DEF ApproveSwap
<1> DEFINE in == [op |-> <<"swap", steps>>, allowance |-> Router, amount |-> amount,
                  current |-> current,
                  gas |-> Archived(Gauge(amount)), conversion |-> Archived(Conversion)]
<1> HIDE DEF known, current
<1>2. in.amount \in Nat
  BY ScenarioAssumption
<1>3. GaugeFits(in.gas, in.conversion)
  BY GasIsPriced DEF Archived
<1>4. ContextFits(Context(clock)) /\ Operate("SWAP")
  BY TimeIs, HereFits DEF ApproveSwap
<1> HIDE DEF in
<1>5. AnswerFits(Erc20Approval(Context(clock), in))
  BY <1>2, <1>3, <1>4, ApprovalAnswers
<1>6. Build(Erc20Approval(Context(clock), in))
  BY <1>1 DEF in
<1> QED BY <1>4, <1>5, <1>6, BuiltFits

LEMMA QuotesAre == QuotesFit({Archived(q) : q \in Quotes})
<1> DEFINE S == {Archived(q) : q \in Quotes}
           b == [q \in Quotes |-> Archived(q)]
<1>1. IsFiniteSet(S)
  <2>1. b \in [Quotes -> S] /\ \A t \in S : \E q \in Quotes : b[q] = t
    OBVIOUS
  <2> HIDE DEF S, b
  <2>2. b \in Surjection(Quotes, S)
    BY <2>1 DEF Surjection
  <2> QED BY <2>2, DataAssumption, FS_Surjection
<1>2. ASSUME NEW q \in Quotes PROVE Archived(q).out \in Nat
  <2>1. q \in [amount : Nat, pair : Family \X Family, out : Nat]
    BY DataAssumption
  <2>2. "out" \in DOMAIN q /\ q.out \in Nat
    BY <2>1
  <2> QED BY <2>2, ArchivedFacts
<1> QED BY <1>1, <1>2 DEF QuotesFit

LEMMA SwapFits ==
  ASSUME BooksInv, SwapCash
  PROVE  BooksFit'
<1> DEFINE quotes == {Archived(q) : q \in Quotes}
<1>1. QuotesFit(quotes)
  BY QuotesAre
<1> HIDE DEF quotes
<1>2. PICK amount \in Units, pair \in {<<Home, Twin>>, <<Twin, Home>>}, minimum \in Units :
         Build(UniswapSwap(Context(clock),
             [amount |-> amount, pair |-> pair, minimum |-> minimum,
              quotes |-> quotes,
              gas |-> Archived(Gauge(amount)), conversion |-> Archived(Conversion)]))
  BY DEF SwapCash, quotes
<1> DEFINE in == [amount |-> amount, pair |-> pair, minimum |-> minimum,
                  quotes |-> quotes,
                  gas |-> Archived(Gauge(amount)), conversion |-> Archived(Conversion)]
<1>3. in.amount \in Nat /\ in.pair \in Family \X Family /\ QuotesFit(in.quotes)
  BY <1>1, ScenarioAssumption
<1>4. GaugeFits(in.gas, in.conversion)
  BY GasIsPriced DEF Archived
<1>5. ContextFits(Context(clock)) /\ Operate("SWAP")
  BY TimeIs, HereFits DEF SwapCash
<1> HIDE DEF in
<1>6. AnswerFits(UniswapSwap(Context(clock), in))
  BY <1>3, <1>4, <1>5, SwapAnswers
<1>7. Build(UniswapSwap(Context(clock), in))
  BY <1>2 DEF in
<1> QED BY <1>5, <1>6, <1>7, BuiltFits

(* What the vault converts are numbers.                                       *)
LEMMA Converted ==
  ASSUME VaultInv, NEW n \in Nat
  PROVE  ConvertToShares(n) \in Nat /\ ConvertToAssets(n) \in Nat
<1> DEFINE A == TotalAssets
<1>1. supply \in Nat /\ A \in Nat
  BY DEF VaultInv
<1>2. n * supply \in Nat /\ n * A \in Nat
  BY <1>1, Product
<1>3. ConvertToShares(n) = IF supply = 0 \/ A = 0 THEN n ELSE (n * supply) \div A
  BY DEF ConvertToShares
<1>4. ConvertToAssets(n) = IF supply = 0 THEN n ELSE (n * A) \div supply
  BY DEF ConvertToAssets
<1> HIDE DEF A
<1> DEFINE j == n * supply
           k == n * A
<1>5. A > 0 => j \div A \in Nat
  BY <1>1, <1>2, Divided
<1>6. supply > 0 => k \div supply \in Nat
  BY <1>1, <1>2, Divided
<1> QED BY <1>1, <1>3, <1>4, <1>5, <1>6

LEMMA CaptureFits ==
  ASSUME BooksInv, CaptureVault
  PROVE  BooksFit'
<1> DEFINE held == IF Position = {} THEN 0 ELSE The(Position, VaultPosition).shares
<1>1. PICK amount \in Stakes, entry \in FeeBps, exit \in FeeBps :
        quote' = Archived(
                 [amount |-> amount, shares |-> ConvertToShares(amount),
                  assets |-> ConvertToAssets(held), depositFee |-> entry, redeemFee |-> exit,
                  maxDeposit |-> UintLimit - 1, maxMint |-> UintLimit - 1,
                  maxRedeem |-> shares[Reader], maxWithdraw |-> ConvertToAssets(shares[Reader]),
                  exit |-> TotalAssets])
  BY DEF CaptureVault
<1>2. held \in Nat
  <2>1. CASE Position = {}
    BY <2>1
  <2>2. CASE Position # {}
    <3>1. \A x \in Position : x.id = VaultPosition
      BY DEF Position
    <3>2. The(Position, VaultPosition) \in Position
      BY <2>2, <3>1 DEF The
    <3> QED BY <2>2, <3>2, PositionIs DEF Position
  <2> QED BY <2>1, <2>2
<1> HIDE DEF held
<1>3. VaultInv /\ amount \in Nat /\ entry \in Nat /\ exit \in Nat
  BY ScenarioAssumption DEF BooksInv, MarketInv
<1>4. ConvertToShares(amount) \in Nat /\ ConvertToAssets(held) \in Nat
  BY <1>2, <1>3, Converted
<1> DEFINE body == [amount |-> amount, shares |-> ConvertToShares(amount),
                  assets |-> ConvertToAssets(held), depositFee |-> entry, redeemFee |-> exit,
                  maxDeposit |-> UintLimit - 1, maxMint |-> UintLimit - 1,
                  maxRedeem |-> shares[Reader], maxWithdraw |-> ConvertToAssets(shares[Reader]),
                  exit |-> TotalAssets]
<1>5. /\ quote' = Archived(body) /\ body.shares \in Nat /\ body.assets \in Nat
      /\ body.depositFee \in Nat /\ body.redeemFee \in Nat
      /\ {"shares", "assets", "depositFee", "redeemFee"} \subseteq DOMAIN body
  BY <1>1, <1>3, <1>4
<1> HIDE DEF body
<1>6. QuoteFits(quote')
  BY <1>5, ArchivedFacts DEF QuoteFits
<1>7. UNCHANGED <<portfolio, references, plan, clock>> /\ Operate("VAULT")
  BY DEF CaptureVault
<1>8. Bounded'
  BY <1>7, OperationBounded
<1> QED BY <1>6, <1>7, <1>8 DEF BooksInv, BooksFit

(* A dated plan is a plan.                                                    *)
LEMMA DatedFits ==
  ASSUME NEW s, ReceiptsFit(s)
  PROVE  ReceiptsFit(Dated(s))
<1> DEFINE n == Len(s)
           at(i) == s[i].at + (i - 1) * StepOffset
           t == Dated(s)
<1>1. n \in Nat /\ DOMAIN s = 1 .. n
  BY SequenceFacts DEF ReceiptsFit
<1>2. t = [i \in 1 .. n |-> [s[i] EXCEPT !.at = s[i].at + (i - 1) * StepOffset]]
  BY <1>1 DEF Dated
<1> HIDE DEF n, t
<1>3. ASSUME NEW i \in 1 .. n PROVE IsReceipt(t[i])
  <2>1. IsReceipt(s[i]) /\ s[i].at \in Nat
    BY <1>1, FieldTypes DEF ReceiptsFit
  <2>2. (i - 1) \in Nat /\ StepOffset \in Nat
    BY <1>1, AdapterAssumption
  <2>3. (i - 1) * StepOffset \in Nat
    BY <2>2, Product
  <2> DEFINE a == s[i].at + (i - 1) * StepOffset
  <2>4. a \in Nat
    BY <2>1, <2>3
  <2>5. t[i] = [s[i] EXCEPT !.at = a]
    BY <1>2
  <2> HIDE DEF a
  <2> QED BY <2>1, <2>4, <2>5, DatedReceipt
<1>4. DOMAIN t = 1 .. n /\ t = [i \in 1 .. n |-> t[i]]
  BY <1>2
<1>5. IsSequence(t)
  BY <1>1, <1>4, ListIsSequence
<1> QED BY <1>3, <1>4, <1>5 DEF ReceiptsFit, t

LEMMA PlannedFits ==
  ASSUME NEW supply1, AnswerFits(supply1), NEW faults, NEW intent
  PROVE  AnswerFits(Prepared(supply1, faults, intent))
<1> DEFINE more == Fault(PlannedCost(supply1.receipts) > intent.maxCost, "POLICY_VIOLATION")
           all == faults \cup supply1.faults \cup more
           a == Prepared(supply1, faults, intent)
<1>1. a = Answer(all, Dated(supply1.receipts))
  BY DEF Prepared
<1>2. all = {} => supply1.faults = {}
  OBVIOUS
<1> HIDE DEF a, all
<1>3. ASSUME a.faults = {} PROVE ReceiptsFit(a.receipts)
  <2>1. all = {} /\ a.receipts = Dated(supply1.receipts)
    BY <1>1, <1>3 DEF Answer
  <2>2. ReceiptsFit(supply1.receipts)
    BY <1>2, <2>1 DEF AnswerFits, ReceiptsFit
  <2> QED BY <2>1, <2>2, DatedFits
<1> QED BY <1>3 DEF AnswerFits, ReceiptsFit, a

LEMMA LaterOf ==
  ASSUME NEW m \in Nat, NEW n \in Nat
  PROVE  Max({m, n}) \in Nat
<1>1. \E x \in {m, n} : \A y \in {m, n} : x >= y
  OBVIOUS
<1> QED BY <1>1 DEF Max

LEMMA SupplyFits ==
  ASSUME BooksInv, PlanSupply
  PROVE  BooksFit'
<1> DEFINE input(at, until, amount, reserve) ==
             [op |-> <<"action", steps>>, position |-> <<"action", steps>>,
              allowance |-> <<"action", steps>>, amount |-> amount, current |-> 0,
              reserve |-> Observed(reserve, at, until),
              approvalGas |-> Observed(Gauge(amount), at, until),
              gas |-> Observed(Gauge(amount), at, until),
              conversion |-> Observed([Conversion EXCEPT !.updated = at], at, until)]
<1>1. PICK intent \in Intents, reserve \in Reserves, received \in 0 .. clock :
        Build(PreparedSupply(portfolio, Context(FirstStepAt(portfolio, received)), intent, Policy,
                input(FirstStepAt(portfolio, received), received + Validity,
                      PlannedAmount(portfolio, intent.weight), reserve)))
  BY DEF PlanSupply
<1> DEFINE at == FirstStepAt(portfolio, received)
           amount == PlannedAmount(portfolio, intent.weight)
           until == received + Validity
<1>2. at \in Nat
  <2>1. received \in Nat /\ portfolio.last \in Nat
    BY TimeIs, SoundFacts DEF BooksInv, BooksFit, Capitalized
  <2>2. Max({received, portfolio.last}) \in Nat
    BY <2>1, LaterOf
  <2> QED BY <2>2, AdapterAssumption DEF FirstStepAt
<1>3. amount \in Nat
  <2>1. portfolio.initial \in Nat /\ intent.weight \in Nat /\ Bps \in Nat \ {0}
    BY SoundFacts, DataAssumption, AdapterAssumption DEF BooksInv, BooksFit, Capitalized
  <2>2. portfolio.initial * intent.weight \in Nat
    BY <2>1, Product
  <2> DEFINE k == portfolio.initial * intent.weight
  <2>3. k \div Bps \in Nat
    <3>1. k \in Nat /\ Bps \in Nat /\ Bps > 0
      BY <2>1, <2>2
    <3> HIDE DEF k
    <3> QED BY <3>1, Divided
  <2> QED BY <2>3 DEF PlannedAmount, Floor
<1> HIDE DEF at, amount, until
<1> DEFINE in == input(at, until, amount, reserve)
<1>4. in.amount \in Nat
  BY <1>3
<1>5. GaugeFits(in.gas, in.conversion) /\ GaugeFits(in.approvalGas, in.conversion)
  BY GasIsPriced
<1>6. ContextFits(Context(at)) /\ Operate("AAVE")
  BY <1>2, HereFits DEF PlanSupply
<1>7. Build(PreparedSupply(portfolio, Context(at), intent, Policy, in))
  BY <1>1 DEF at, amount, until
<1> HIDE DEF in, input
<1>8. AnswerFits(AaveSupply(Context(at), in))
  BY <1>4, <1>5, <1>6, SupplyAnswers
<1>9. AnswerFits(PreparedSupply(portfolio, Context(at), intent, Policy, in))
  BY <1>8, PlannedFits DEF PreparedSupply
<1> QED BY <1>6, <1>7, <1>9, BuiltFits

(* The outcomes after each element of a list.  That the recursive functions of  *)
(* the model are defined everywhere is itself shown by induction.               *)
(* ApplyAll: the receipts of an entry. *)
Entered(p, receipts, n) ==
  LET after[i \in 0 .. n] == IF i = 0 THEN Outcome(p, {}) ELSE ApplyReceipt(after[i - 1].portfolio, receipts[i])
  IN  after

IsEntered(f, p, receipts, n) ==
  f = [i \in 0 .. n |-> IF i = 0 THEN Outcome(p, {}) ELSE ApplyReceipt(f[i - 1].portfolio, receipts[i])]

LEMMA EnteredExists ==
  ASSUME NEW p, NEW receipts, NEW n \in Nat
  PROVE  \E f : IsEntered(f, p, receipts, n)
<1> DEFINE N == {m \in Nat : \E f : IsEntered(f, p, receipts, m)}
<1>1. 0 \in N
  <2> DEFINE f == [i \in 0 .. 0 |-> Outcome(p, {})]
  <2>1. IsEntered(f, p, receipts, 0)
    BY DEF IsEntered
  <2> QED BY <2>1
<1>2. \A m \in N : m + 1 \in N
  <2> SUFFICES ASSUME NEW m \in N PROVE m + 1 \in N
    OBVIOUS
  <2>1. PICK f : IsEntered(f, p, receipts, m)
    OBVIOUS
  <2> DEFINE g == [i \in 0 .. m + 1 |-> IF i = m + 1 THEN ApplyReceipt(f[m].portfolio, receipts[m + 1]) ELSE f[i]]
             h == [i \in 0 .. m + 1 |-> IF i = 0 THEN Outcome(p, {}) ELSE ApplyReceipt(g[i - 1].portfolio, receipts[i])]
  <2>2. m \in Nat
    OBVIOUS
  <2>3. ASSUME NEW i \in 0 .. m + 1 PROVE g[i] = h[i]
    <3>1. CASE i = m + 1
      <4>1. i # 0 /\ i - 1 = m /\ m \in 0 .. m + 1 /\ m # m + 1
        BY <2>2, <3>1
      <4>2. g[i] = ApplyReceipt(f[m].portfolio, receipts[i]) /\ g[m] = f[m]
        BY <3>1, <4>1
      <4>3. h[i] = ApplyReceipt(g[m].portfolio, receipts[i])
        BY <4>1
      <4> QED BY <4>2, <4>3
    <3>2. CASE i # m + 1
      <4>1. i \in 0 .. m
        BY <2>2, <3>2
      <4>2. g[i] = f[i] /\ (i # 0 => g[i - 1] = f[i - 1])
        BY <2>2, <3>2, <4>1
      <4>3. f[i] = IF i = 0 THEN Outcome(p, {}) ELSE ApplyReceipt(f[i - 1].portfolio, receipts[i])
        BY <2>1, <4>1 DEF IsEntered
      <4>4. h[i] = IF i = 0 THEN Outcome(p, {}) ELSE ApplyReceipt(g[i - 1].portfolio, receipts[i])
        OBVIOUS
      <4> HIDE DEF g, h
      <4> QED BY <4>2, <4>3, <4>4
    <3> QED BY <3>1, <3>2
  <2>4. g = h
    <3>1. g = [i \in 0 .. m + 1 |-> g[i]] /\ h = [i \in 0 .. m + 1 |-> h[i]]
      OBVIOUS
    <3> HIDE DEF g, h
    <3> QED BY <2>3, <3>1
  <2>5. IsEntered(g, p, receipts, m + 1)
    BY <2>4 DEF IsEntered
  <2> HIDE DEF g, h
  <2> QED BY <2>2, <2>5
<1>3. N \in SUBSET Nat
  OBVIOUS
<1> HIDE DEF N
<1>4. N = Nat
  BY <1>1, <1>2, <1>3, Induction
<1> QED BY <1>4 DEF N

LEMMA EnteredFacts ==
  ASSUME NEW p, NEW receipts, NEW n \in Nat
  PROVE  /\ Entered(p, receipts, n)[0] = Outcome(p, {})
         /\ \A i \in 1 .. n : Entered(p, receipts, n)[i] = ApplyReceipt(Entered(p, receipts, n)[i - 1].portfolio, receipts[i])
<1> DEFINE F == Entered(p, receipts, n)
<1>1. \E f : IsEntered(f, p, receipts, n)
  BY EnteredExists
<1>2. F = CHOOSE f : IsEntered(f, p, receipts, n)
  BY DEF Entered, IsEntered
<1> HIDE DEF F
<1>3. IsEntered(F, p, receipts, n)
  BY <1>1, <1>2
<1>4. F[0] = Outcome(p, {}) /\ \A i \in 1 .. n : F[i] = ApplyReceipt(F[i - 1].portfolio, receipts[i])
  BY <1>3 DEF IsEntered
<1> QED BY <1>4 DEF F

(* Accrued: the positions of a portfolio. *)
Accruing(p, positions, n) ==
  LET after[i \in 0 .. n] == IF i = 0 THEN Outcome(p, {}) ELSE AccrueNext(after[i - 1], positions[i])
  IN  after

IsAccruing(f, p, positions, n) ==
  f = [i \in 0 .. n |-> IF i = 0 THEN Outcome(p, {}) ELSE AccrueNext(f[i - 1], positions[i])]

LEMMA AccruingExists ==
  ASSUME NEW p, NEW positions, NEW n \in Nat
  PROVE  \E f : IsAccruing(f, p, positions, n)
<1> DEFINE N == {m \in Nat : \E f : IsAccruing(f, p, positions, m)}
<1>1. 0 \in N
  <2> DEFINE f == [i \in 0 .. 0 |-> Outcome(p, {})]
  <2>1. IsAccruing(f, p, positions, 0)
    BY DEF IsAccruing
  <2> QED BY <2>1
<1>2. \A m \in N : m + 1 \in N
  <2> SUFFICES ASSUME NEW m \in N PROVE m + 1 \in N
    OBVIOUS
  <2>1. PICK f : IsAccruing(f, p, positions, m)
    OBVIOUS
  <2> DEFINE g == [i \in 0 .. m + 1 |-> IF i = m + 1 THEN AccrueNext(f[m], positions[m + 1]) ELSE f[i]]
             h == [i \in 0 .. m + 1 |-> IF i = 0 THEN Outcome(p, {}) ELSE AccrueNext(g[i - 1], positions[i])]
  <2>2. m \in Nat
    OBVIOUS
  <2>3. ASSUME NEW i \in 0 .. m + 1 PROVE g[i] = h[i]
    <3>1. CASE i = m + 1
      <4>1. i # 0 /\ i - 1 = m /\ m \in 0 .. m + 1 /\ m # m + 1
        BY <2>2, <3>1
      <4>2. g[i] = AccrueNext(f[m], positions[i]) /\ g[m] = f[m]
        BY <3>1, <4>1
      <4>3. h[i] = AccrueNext(g[m], positions[i])
        BY <4>1
      <4> QED BY <4>2, <4>3
    <3>2. CASE i # m + 1
      <4>1. i \in 0 .. m
        BY <2>2, <3>2
      <4>2. g[i] = f[i] /\ (i # 0 => g[i - 1] = f[i - 1])
        BY <2>2, <3>2, <4>1
      <4>3. f[i] = IF i = 0 THEN Outcome(p, {}) ELSE AccrueNext(f[i - 1], positions[i])
        BY <2>1, <4>1 DEF IsAccruing
      <4>4. h[i] = IF i = 0 THEN Outcome(p, {}) ELSE AccrueNext(g[i - 1], positions[i])
        OBVIOUS
      <4> HIDE DEF g, h
      <4> QED BY <4>2, <4>3, <4>4
    <3> QED BY <3>1, <3>2
  <2>4. g = h
    <3>1. g = [i \in 0 .. m + 1 |-> g[i]] /\ h = [i \in 0 .. m + 1 |-> h[i]]
      OBVIOUS
    <3> HIDE DEF g, h
    <3> QED BY <2>3, <3>1
  <2>5. IsAccruing(g, p, positions, m + 1)
    BY <2>4 DEF IsAccruing
  <2> HIDE DEF g, h
  <2> QED BY <2>2, <2>5
<1>3. N \in SUBSET Nat
  OBVIOUS
<1> HIDE DEF N
<1>4. N = Nat
  BY <1>1, <1>2, <1>3, Induction
<1> QED BY <1>4 DEF N

LEMMA AccruingFacts ==
  ASSUME NEW p, NEW positions, NEW n \in Nat
  PROVE  /\ Accruing(p, positions, n)[0] = Outcome(p, {})
         /\ \A i \in 1 .. n : Accruing(p, positions, n)[i] = AccrueNext(Accruing(p, positions, n)[i - 1], positions[i])
<1> DEFINE F == Accruing(p, positions, n)
<1>1. \E f : IsAccruing(f, p, positions, n)
  BY AccruingExists
<1>2. F = CHOOSE f : IsAccruing(f, p, positions, n)
  BY DEF Accruing, IsAccruing
<1> HIDE DEF F
<1>3. IsAccruing(F, p, positions, n)
  BY <1>1, <1>2
<1>4. F[0] = Outcome(p, {}) /\ \A i \in 1 .. n : F[i] = AccrueNext(F[i - 1], positions[i])
  BY <1>3 DEF IsAccruing
<1> QED BY <1>4 DEF F

(* Snapshots: the history of a diagnostic. *)
Replaying(opening, history, n) ==
  LET after[i \in 0 .. n] == IF i = 0 THEN <<opening>> ELSE ReplayNext(after[i - 1], history[i])
  IN  after

IsReplaying(f, opening, history, n) ==
  f = [i \in 0 .. n |-> IF i = 0 THEN <<opening>> ELSE ReplayNext(f[i - 1], history[i])]

LEMMA ReplayingExists ==
  ASSUME NEW opening, NEW history, NEW n \in Nat
  PROVE  \E f : IsReplaying(f, opening, history, n)
<1> DEFINE N == {m \in Nat : \E f : IsReplaying(f, opening, history, m)}
<1>1. 0 \in N
  <2> DEFINE f == [i \in 0 .. 0 |-> <<opening>>]
  <2>1. IsReplaying(f, opening, history, 0)
    BY DEF IsReplaying
  <2> QED BY <2>1
<1>2. \A m \in N : m + 1 \in N
  <2> SUFFICES ASSUME NEW m \in N PROVE m + 1 \in N
    OBVIOUS
  <2>1. PICK f : IsReplaying(f, opening, history, m)
    OBVIOUS
  <2> DEFINE g == [i \in 0 .. m + 1 |-> IF i = m + 1 THEN ReplayNext(f[m], history[m + 1]) ELSE f[i]]
             h == [i \in 0 .. m + 1 |-> IF i = 0 THEN <<opening>> ELSE ReplayNext(g[i - 1], history[i])]
  <2>2. m \in Nat
    OBVIOUS
  <2>3. ASSUME NEW i \in 0 .. m + 1 PROVE g[i] = h[i]
    <3>1. CASE i = m + 1
      <4>1. i # 0 /\ i - 1 = m /\ m \in 0 .. m + 1 /\ m # m + 1
        BY <2>2, <3>1
      <4>2. g[i] = ReplayNext(f[m], history[i]) /\ g[m] = f[m]
        BY <3>1, <4>1
      <4>3. h[i] = ReplayNext(g[m], history[i])
        BY <4>1
      <4> QED BY <4>2, <4>3
    <3>2. CASE i # m + 1
      <4>1. i \in 0 .. m
        BY <2>2, <3>2
      <4>2. g[i] = f[i] /\ (i # 0 => g[i - 1] = f[i - 1])
        BY <2>2, <3>2, <4>1
      <4>3. f[i] = IF i = 0 THEN <<opening>> ELSE ReplayNext(f[i - 1], history[i])
        BY <2>1, <4>1 DEF IsReplaying
      <4>4. h[i] = IF i = 0 THEN <<opening>> ELSE ReplayNext(g[i - 1], history[i])
        OBVIOUS
      <4> HIDE DEF g, h
      <4> QED BY <4>2, <4>3, <4>4
    <3> QED BY <3>1, <3>2
  <2>4. g = h
    <3>1. g = [i \in 0 .. m + 1 |-> g[i]] /\ h = [i \in 0 .. m + 1 |-> h[i]]
      OBVIOUS
    <3> HIDE DEF g, h
    <3> QED BY <2>3, <3>1
  <2>5. IsReplaying(g, opening, history, m + 1)
    BY <2>4 DEF IsReplaying
  <2> HIDE DEF g, h
  <2> QED BY <2>2, <2>5
<1>3. N \in SUBSET Nat
  OBVIOUS
<1> HIDE DEF N
<1>4. N = Nat
  BY <1>1, <1>2, <1>3, Induction
<1> QED BY <1>4 DEF N

LEMMA ReplayingFacts ==
  ASSUME NEW opening, NEW history, NEW n \in Nat
  PROVE  /\ Replaying(opening, history, n)[0] = <<opening>>
         /\ \A i \in 1 .. n : Replaying(opening, history, n)[i] = ReplayNext(Replaying(opening, history, n)[i - 1], history[i])
<1> DEFINE F == Replaying(opening, history, n)
<1>1. \E f : IsReplaying(f, opening, history, n)
  BY ReplayingExists
<1>2. F = CHOOSE f : IsReplaying(f, opening, history, n)
  BY DEF Replaying, IsReplaying
<1> HIDE DEF F
<1>3. IsReplaying(F, opening, history, n)
  BY <1>1, <1>2
<1>4. F[0] = <<opening>> /\ \A i \in 1 .. n : F[i] = ReplayNext(F[i - 1], history[i])
  BY <1>3 DEF IsReplaying
<1> QED BY <1>4 DEF F

(* Receipts one after the other.                                              *)
LEMMA AllApplied ==
  ASSUME NEW p, Sound(p), NEW s, ReceiptsFit(s)
  PROVE  LET q == ApplyAll(p, s).portfolio IN Sound(q) /\ q.initial = p.initial
<1> DEFINE n == Len(s)
           f == Entered(p, s, n)
           StaysSound(q) == Sound(q) /\ q.initial = p.initial
           N == {k \in Nat : k <= n => StaysSound(f[k].portfolio)}
<1>1. n \in Nat /\ DOMAIN s = 1 .. n
  BY SequenceFacts DEF ReceiptsFit
<1>2. /\ f[0] = Outcome(p, {})
      /\ \A i \in 1 .. n : f[i] = ApplyReceipt(f[i - 1].portfolio, s[i])
  BY <1>1, EnteredFacts
<1>3. ApplyAll(p, s) = f[n]
  BY DEF ApplyAll, Entered
<1> HIDE DEF f, n
<1>4. 0 \in N
  BY <1>2 DEF Outcome
<1>5. \A k \in N : k + 1 \in N
  <2> SUFFICES ASSUME NEW k \in N, k + 1 <= n PROVE StaysSound(f[k + 1].portfolio)
    OBVIOUS
  <2>1. StaysSound(f[k].portfolio) /\ k + 1 \in 1 .. n /\ (k + 1) - 1 = k
    BY <1>1
  <2>2. f[k + 1] = ApplyReceipt(f[k].portfolio, s[k + 1])
    BY <1>2, <2>1
  <2>3. IsReceipt(s[k + 1])
    BY <1>1, <2>1 DEF ReceiptsFit
  <2> QED BY <2>1, <2>2, <2>3, ReceiptsKeepBooksSound
<1>6. N \in SUBSET Nat
  OBVIOUS
<1>7. n \in N
  <2> HIDE DEF N
  <2> QED BY <1>1, <1>4, <1>5, <1>6, Induction
<1> QED BY <1>1, <1>3, <1>7

(* A set in some order.                                                       *)
LEMMA Ordered ==
  ASSUME NEW S, IsFiniteSet(S)
  PROVE  Len(SetToSeq(S)) \in Nat /\ \A i \in 1 .. Len(SetToSeq(S)) : SetToSeq(S)[i] \in S
<1> DEFINE n == Cardinality(S)
<1>1. n \in Nat /\ ExistsBijection(1 .. n, S)
  BY FS_CardinalityType
<1> HIDE DEF n
<1>2. \E f \in [1 .. n -> S] : IsInjective(f)
  BY <1>1 DEF ExistsBijection, Bijection, Injection
<1>3. SetToSeq(S) \in [1 .. n -> S]
  BY <1>2 DEF SetToSeq, n
<1>4. SetToSeq(S) \in Seq(S)
  BY <1>1, <1>3
<1> QED BY <1>4

LEMMA AccrualIsReceipt ==
  ASSUME BooksInv, NEW p, Sound(p), NEW q, Sound(q), NEW x \in p.positions
  PROVE  IsReceipt(CheckpointAccrual(q, x))
<1> DEFINE num == x.num * (IndexScale + 1)
           den == x.den * IndexScale
           r == CheckpointAccrual(q, x)
<1>1. Parts(p, p.last) /\ q.version \in Nat /\ clock \in Nat
  BY SoundFacts, TimeIs
<1>2. x.num \in Nat /\ x.den \in Nat \ {0}
  BY <1>1 DEF Parts, PositionsFit, PositionFits, IsPosition
<1>3. IndexScale \in Nat \ {0} /\ IndexScale + 1 \in Nat
  BY ScenarioAssumption
<1>4. num \in Nat /\ den \in Nat
  BY <1>2, <1>3, Product
<1>5. den # 0
  <2>1. \A m, n \in Nat \ {0} : m * n # 0
    OBVIOUS
  <2> QED BY <1>2, <1>3, <2>1
<1>6. r = [op |-> <<"accrual", Len(marks), x.id>>, version |-> q.version, at |-> clock,
           kind |-> "ACCRUE", costs |-> {}, position |-> x.id, num |-> num, den |-> den]
  BY DEF CheckpointAccrual
<1> HIDE DEF num, den, r
<1>7. /\ DOMAIN r = {"op", "version", "at", "kind", "costs", "position", "num", "den"}
      /\ r.kind = "ACCRUE" /\ r.version = q.version /\ r.at = clock /\ r.costs = {}
      /\ r.num = num /\ r.den = den
  BY <1>6
<1>8. Fields["ACCRUE"] = {"position", "num", "den"} /\ "ACCRUE" \in DOMAIN Fields
  BY DEF Fields
<1>9. \A f \in Fields["ACCRUE"] : Valid(r, f)
  BY <1>4, <1>5, <1>7, <1>8 DEF Valid
<1>10. DOMAIN r = {"op", "version", "at", "kind", "costs"} \cup Fields["ACCRUE"]
  BY <1>7, <1>8
<1>11. IsReceipt(r)
  BY <1>1, <1>7, <1>8, <1>9, <1>10, FS_EmptySet DEF IsReceipt
<1> QED BY <1>11 DEF r

(* A checkpoint's accruals.                                                   *)
LEMMA AllAccrued ==
  ASSUME BooksInv, NEW p, Sound(p)
  PROVE  LET q == Accrued(p).portfolio IN Sound(q) /\ q.initial = p.initial
<1> DEFINE s == SetToSeq(p.positions)
           n == Len(s)
           f == Accruing(p, s, n)
           StaysSound(q) == Sound(q) /\ q.initial = p.initial
           N == {k \in Nat : k <= n => StaysSound(f[k].portfolio)}
<1>1. n \in Nat /\ \A i \in 1 .. n : s[i] \in p.positions
  <2>1. Parts(p, p.last)
    BY SoundFacts
  <2>2. IsFiniteSet(p.positions)
    BY <2>1 DEF Parts, PositionsFit
  <2> QED BY <2>2, Ordered
<1>2. /\ f[0] = Outcome(p, {})
      /\ \A i \in 1 .. n : f[i] = AccrueNext(f[i - 1], s[i])
  BY <1>1, AccruingFacts
<1>3. Accrued(p) = f[n]
  BY DEF Accrued, Accruing
<1> HIDE DEF f, s, n
<1>4. 0 \in N
  BY <1>2 DEF Outcome
<1>5. \A k \in N : k + 1 \in N
  <2> SUFFICES ASSUME NEW k \in N, k + 1 <= n PROVE StaysSound(f[k + 1].portfolio)
    OBVIOUS
  <2>1. StaysSound(f[k].portfolio) /\ k + 1 \in 1 .. n /\ (k + 1) - 1 = k
    BY <1>1
  <2> DEFINE q == f[k].portfolio
             r == CheckpointAccrual(q, s[k + 1])
  <2>2. f[k + 1] = AccrueNext(f[k], s[k + 1]) /\ s[k + 1] \in p.positions
    BY <1>1, <1>2, <2>1
  <2>3. f[k + 1] = f[k] \/ f[k + 1] = ApplyReceipt(q, r)
    BY <2>2 DEF AccrueNext
  <2>4. IsReceipt(r)
    BY <2>1, <2>2, AccrualIsReceipt
  <2>5. StaysSound(ApplyReceipt(q, r).portfolio)
    <3> HIDE DEF r
    <3> QED BY <2>1, <2>4, ReceiptsKeepBooksSound
  <2> HIDE DEF r
  <2> QED BY <2>1, <2>3, <2>5
<1>6. N \in SUBSET Nat
  OBVIOUS
<1>7. n \in N
  <2> HIDE DEF N
  <2> QED BY <1>1, <1>4, <1>5, <1>6, Induction
<1> QED BY <1>1, <1>3, <1>7

(* A portfolio of cash alone has nothing to accrue.                           *)
LEMMA CashRests ==
  ASSUME NEW opening
  PROVE  Accrued(CreatePortfolio(opening)) = Outcome(CreatePortfolio(opening), {})
<1> DEFINE p == CreatePortfolio(opening)
           s == SetToSeq(p.positions)
<1>1. p.positions = {}
  BY DEF CreatePortfolio
<1>2. Len(SetToSeq({})) = 0
  <2>1. IsFiniteSet({}) /\ ~ \E i \in 1 .. Len(SetToSeq({})) : TRUE
    BY FS_EmptySet, Ordered
  <2>2. Len(SetToSeq({})) \in Nat
    BY <2>1, Ordered
  <2>3. \A n \in Nat : n # 0 => 1 \in 1 .. n
    OBVIOUS
  <2> QED BY <2>1, <2>2, <2>3
<1>3. Accrued(p) = Accruing(p, s, Len(s))[Len(s)]
  BY DEF Accrued, Accruing
<1>4. Len(s) = 0
  BY <1>1, <1>2
<1> HIDE DEF p, s
<1> QED BY <1>3, <1>4, AccruingFacts DEF p

(* The portfolios of a history, however much of it is refused.                *)
Portraits(ps, opening) ==
  /\ IsSequence(ps) /\ Len(ps) > 0
  /\ \A i \in DOMAIN ps : Sound(ps[i]) /\ ps[i].initial = opening.initial

LEMMA LastOne ==
  ASSUME NEW ps, NEW opening, Portraits(ps, opening)
  PROVE  Sound(Last(ps)) /\ Last(ps).initial = opening.initial
<1>1. Len(ps) \in Nat /\ DOMAIN ps = 1 .. Len(ps) /\ Len(ps) > 0
  BY SequenceFacts DEF Portraits
<1>2. Len(ps) \in DOMAIN ps
  BY <1>1
<1> QED BY <1>2 DEF Last, Portraits

LEMMA ReplayedFits ==
  ASSUME NEW ps, NEW opening, Portraits(ps, opening), NEW r, IsReceipt(r)
  PROVE  Portraits(ReplayNext(ps, r), opening)
<1> DEFINE q == ApplyReceipt(Last(ps), r).portfolio
<1>1. ReplayNext(ps, r) = ps \/ ReplayNext(ps, r) = Append(ps, q)
  BY DEF ReplayNext, Replayed
<1>2. Sound(q) /\ q.initial = opening.initial
  BY LastOne, ReceiptsKeepBooksSound
<1> HIDE DEF q
<1>3. Portraits(Append(ps, q), opening)
  <2> DEFINE n == Len(ps)
             t == Append(ps, q)
  <2>1. n \in Nat /\ DOMAIN ps = 1 .. n
    BY SequenceFacts DEF Portraits
  <2>2. /\ IsSequence(t) /\ Len(t) = n + 1 /\ DOMAIN t = 1 .. n + 1
        /\ t[n + 1] = q /\ \A i \in 1 .. n : t[i] = ps[i]
    BY AppendFacts DEF Portraits
  <2> HIDE DEF t, n
  <2>3. \A i \in 1 .. n + 1 : i \in 1 .. n \/ i = n + 1
    BY <2>1
  <2>4. Portraits(t, opening)
    BY <1>2, <2>1, <2>2, <2>3 DEF Portraits
  <2> QED BY <2>4 DEF t
<1> QED BY <1>1, <1>3

LEMMA AllReplayed ==
  ASSUME NEW p, Sound(p), NEW s, ReceiptsFit(s)
  PROVE  Portraits(Snapshots(p, s), p)
<1> DEFINE n == Len(s)
           f == Replaying(p, s, n)
           N == {k \in Nat : k <= n => Portraits(f[k], p)}
<1>1. n \in Nat /\ DOMAIN s = 1 .. n
  BY SequenceFacts DEF ReceiptsFit
<1>2. /\ f[0] = <<p>>
      /\ \A i \in 1 .. n : f[i] = ReplayNext(f[i - 1], s[i])
  BY <1>1, ReplayingFacts
<1>3. Snapshots(p, s) = f[n]
  BY DEF Snapshots, Replaying
<1>4. Portraits(<<p>>, p)
  <2> DEFINE t == <<p>>
  <2>1. t \in Seq({p}) /\ Len(t) = 1 /\ t[1] = p
    OBVIOUS
  <2>2. IsSequence(t)
    BY <2>1 DEF IsSequence
  <2> HIDE DEF t
  <2>3. DOMAIN t = {1}
    BY <2>1, <2>2, SequenceFacts
  <2>4. Portraits(t, p)
    BY <2>1, <2>2, <2>3 DEF Portraits
  <2> QED BY <2>4 DEF t
<1> HIDE DEF f, n
<1>5. 0 \in N
  BY <1>2, <1>4
<1>6. \A k \in N : k + 1 \in N
  <2> SUFFICES ASSUME NEW k \in N, k + 1 <= n PROVE Portraits(f[k + 1], p)
    OBVIOUS
  <2>1. Portraits(f[k], p) /\ k + 1 \in 1 .. n /\ (k + 1) - 1 = k
    BY <1>1
  <2>2. f[k + 1] = ReplayNext(f[k], s[k + 1])
    BY <1>2, <2>1
  <2>3. IsReceipt(s[k + 1])
    BY <1>1, <2>1 DEF ReceiptsFit
  <2> QED BY <2>1, <2>2, <2>3, ReplayedFits
<1>7. N \in SUBSET Nat
  OBVIOUS
<1>8. n \in N
  <2> HIDE DEF N
  <2> QED BY <1>1, <1>5, <1>6, <1>7, Induction
<1> QED BY <1>1, <1>3, <1>8

(* A body that makes a receipt makes one whatever it is delivered as.         *)
LEMMA DeliveredFits ==
  ASSUME NEW body \in Direct, NEW op, NEW version \in Nat, NEW at \in Nat
  PROVE  IsReceipt(Delivered(op, version, at, body))
<1> DEFINE h == [op |-> None, version |-> 0, at |-> 0]
           k == [op |-> op, version |-> version, at |-> at]
           r == Delivered(None, 0, 0, body)
           s == Delivered(op, version, at, body)
<1>1. IsReceipt(r)
  BY DataAssumption
<1>2. r = Joined(h, body) /\ s = Joined(k, body)
  BY DEF Delivered
<1>3. DOMAIN h = {"op", "version", "at"} /\ DOMAIN k = {"op", "version", "at"}
      /\ k.version = version /\ k.at = at
  OBVIOUS
<1> HIDE DEF h, k, r, s
<1>4. /\ DOMAIN r = DOMAIN h \cup DOMAIN body /\ DOMAIN s = DOMAIN k \cup DOMAIN body
      /\ \A f \in DOMAIN body : f \notin DOMAIN h => r[f] = body[f]
      /\ \A f \in DOMAIN body : f \notin DOMAIN k => s[f] = body[f]
      /\ \A f \in DOMAIN k : s[f] = k[f]
  <2>1. /\ DOMAIN Joined(h, body) = DOMAIN h \cup DOMAIN body
        /\ \A f \in DOMAIN body : f \notin DOMAIN h => Joined(h, body)[f] = body[f]
    BY JoinedFacts
  <2>2. /\ DOMAIN Joined(k, body) = DOMAIN k \cup DOMAIN body
        /\ \A f \in DOMAIN body : f \notin DOMAIN k => Joined(k, body)[f] = body[f]
        /\ \A f \in DOMAIN k : Joined(k, body)[f] = k[f]
    BY JoinedFacts
  <2> QED BY <1>2, <2>1, <2>2
<1>5. DOMAIN s = DOMAIN r /\ s.version = version /\ s.at = at
      /\ \A f \in DOMAIN r \ {"op", "version", "at"} : s[f] = r[f]
  BY <1>3, <1>4
<1>6. r.kind \in DOMAIN Fields /\ DOMAIN r = Fixed \cup Fields[r.kind]
  BY <1>1 DEF IsReceipt, Fixed
<1>7. s.kind = r.kind /\ s.costs = r.costs
  BY <1>5, <1>6 DEF Fixed
<1>8. \A f \in Fields[r.kind] : s[f] = r[f]
  <2>1. \A f \in Fields[r.kind] : f \notin Fixed
    BY <1>6, FieldsApart
  <2> QED BY <1>5, <1>6, <2>1 DEF Fixed
<1>9. \A f \in Fields[r.kind] : Valid(s, f)
  <2>1. \A f \in Fields[r.kind] : Valid(r, f)
    BY <1>1 DEF IsReceipt
  <2> QED BY <1>8, <2>1 DEF Valid
<1>10. IsReceipt(s)
  BY <1>1, <1>5, <1>6, <1>7, <1>9 DEF IsReceipt, Fixed
<1> QED BY <1>10 DEF s

LEMMA DeliveryFits ==
  ASSUME BooksInv, Deliver
  PROVE  BooksFit'
<1>1. PICK body \in Direct :
        portfolio' = ApplyReceipt(portfolio,
                       Delivered(<<"direct", steps>>, portfolio.version, clock, body)).portfolio
  BY DEF Deliver
<1> DEFINE op == <<"direct", steps>>
           r == Delivered(op, portfolio.version, clock, body)
<1>2. /\ Sound(portfolio) /\ portfolio.initial = Total(Opening)
      /\ portfolio.version \in Nat /\ clock \in Nat
  BY SoundFacts, TimeIs DEF BooksInv, BooksFit, Capitalized
<1>3. IsReceipt(r)
  <2> HIDE DEF op
  <2> QED BY <1>2, DeliveredFits
<1>4. Capitalized(portfolio')
  <2>1. portfolio' = ApplyReceipt(portfolio, r).portfolio
    BY <1>1
  <2> HIDE DEF r
  <2> QED BY <1>2, <1>3, <2>1, ReceiptsKeepBooksSound DEF Capitalized
<1>5. UNCHANGED <<references, plan, quote, clock>> /\ Operate("DIRECT")
  BY DEF Deliver
<1>6. Bounded'
  BY <1>5, OperationBounded
<1> QED BY <1>4, <1>5, <1>6 DEF BooksInv, BooksFit

LEMMA NextReceiptFits ==
  ASSUME BooksInv, ApplyNext
  PROVE  BooksFit'
<1> DEFINE r == Head(plan.receipts)
           outcome == ApplyReceipt(portfolio, r)
<1>1. /\ plan.receipts # << >> /\ portfolio' = outcome.portfolio
      /\ plan' = IF outcome.faults = {}
                 THEN [plan EXCEPT !.receipts = Tail(plan.receipts), !.done = plan.done + 1]
                 ELSE NoPlan
      /\ UNCHANGED <<work, steps, references, quote, clock>>
  BY DEF ApplyNext, Idle
<1>2. PlanFits(plan) /\ Capitalized(portfolio)
  BY DEF BooksInv, BooksFit
<1>3. IsReceipt(r) /\ ReceiptsFit(Tail(plan.receipts))
  BY <1>1, <1>2, RestFits DEF PlanFits
<1>4. Capitalized(portfolio')
  <2> HIDE DEF r
  <2> QED BY <1>1, <1>2, <1>3, ReceiptsKeepBooksSound DEF Capitalized
<1> HIDE DEF outcome, r
<1>5. PlanFits(plan')
  <2>1. CASE plan' = NoPlan
    BY <2>1, NoReceipts DEF PlanFits, NoPlan
  <2>2. CASE plan' = [plan EXCEPT !.receipts = Tail(plan.receipts), !.done = plan.done + 1]
    <3>1. plan = [receipts |-> plan.receipts, base |-> plan.base, since |-> plan.since,
                  done |-> plan.done]
      BY <1>2 DEF PlanFits
    <3> DEFINE s == Tail(plan.receipts)
               m == plan.done + 1
    <3>2. plan' = [receipts |-> s, base |-> plan.base, since |-> plan.since, done |-> m]
      BY <2>2, <3>1
    <3> HIDE DEF s, m
    <3>3. ReceiptsFit(s)
      BY <1>3 DEF s
    <3> QED BY <3>2, <3>3 DEF PlanFits
  <2> QED BY <1>1, <2>1, <2>2
<1>6. Bounded'
  BY <1>1 DEF BooksInv, BooksFit, Bounded
<1> QED BY <1>1, <1>4, <1>5, <1>6 DEF BooksInv, BooksFit

LEMMA CheckpointFits ==
  ASSUME BooksInv, TakeCheckpoint
  PROVE  BooksFit'
<1> DEFINE agent == Accrued(portfolio).portfolio
           cash == Accrued(references.cash.portfolio).portfolio
           yield == Accrued(references.yield.portfolio).portfolio
<1>1. PICK c, y, a, b :
        /\ references = [cash |-> [portfolio |-> c, available |-> a],
                         yield |-> [portfolio |-> y, available |-> b]]
        /\ c = CreatePortfolio(Opening) /\ Capitalized(y)
  BY DEF BooksInv, BooksFit, ReferencesFit
<1>2. references.cash.portfolio = c /\ references.yield.portfolio = y /\ Capitalized(portfolio)
  BY <1>1 DEF BooksInv, BooksFit
<1>3. Capitalized(agent) /\ cash = c /\ Capitalized(yield)
  <2>1. Sound(portfolio) /\ Sound(y)
    BY <1>1, <1>2 DEF Capitalized
  <2>2. Capitalized(agent)
    BY <1>2, <2>1, AllAccrued DEF Capitalized
  <2>3. Capitalized(yield)
    BY <1>1, <1>2, <2>1, AllAccrued DEF Capitalized
  <2>4. cash = c
    BY <1>1, <1>2, CashRests DEF Outcome
  <2> QED BY <2>2, <2>3, <2>4
<1>4. /\ portfolio' = agent
      /\ references' = [references EXCEPT !.cash.portfolio = cash, !.yield.portfolio = yield]
      /\ UNCHANGED <<plan, quote, clock>> /\ Operate(work)
  BY DEF TakeCheckpoint, Store
<1> HIDE DEF agent, cash, yield
<1>5. references' = [cash |-> [portfolio |-> cash, available |-> a],
                     yield |-> [portfolio |-> yield, available |-> b]]
  BY <1>1, <1>4
<1>6. ReferencesFit(references')
  BY <1>1, <1>3, <1>5 DEF ReferencesFit
<1>7. Bounded'
  BY <1>4, OperationBounded
<1> QED BY <1>3, <1>4, <1>6, <1>7 DEF BooksInv, BooksFit

LEMMA DiagnosisFits ==
  ASSUME BooksInv, Diagnose
  PROVE  BooksFit'
<1> DEFINE opening == CreatePortfolio(Opening)
           yield == Last(Snapshots(opening, ReferenceScript))
<1>1. PICK c, y, a, b :
        /\ references = [cash |-> [portfolio |-> c, available |-> a],
                         yield |-> [portfolio |-> y, available |-> b]]
        /\ c = CreatePortfolio(Opening) /\ Capitalized(y)
  BY DEF BooksInv, BooksFit, ReferencesFit
<1>2. Capitalized(opening)
  BY OpeningIs
<1> HIDE DEF opening
<1>3. Capitalized(yield)
  <2>1. Portraits(Snapshots(opening, ReferenceScript), opening)
    BY <1>2, ReferenceFits, AllReplayed DEF Capitalized
  <2> QED BY <1>2, <2>1, LastOne DEF Capitalized
<1>4. /\ references' = [references EXCEPT !.yield.portfolio = yield]
      /\ UNCHANGED <<work, steps, portfolio, plan, quote, clock>>
  BY DEF Diagnose, Findings, opening
<1> HIDE DEF yield
<1>5. references' = [cash |-> [portfolio |-> c, available |-> a],
                     yield |-> [portfolio |-> yield, available |-> b]]
  BY <1>1, <1>4
<1>6. ReferencesFit(references')
  BY <1>1, <1>3, <1>5 DEF ReferencesFit
<1>7. Bounded'
  BY <1>4 DEF BooksInv, BooksFit, Bounded
<1> QED BY <1>4, <1>6, <1>7 DEF BooksInv, BooksFit

(* A supply of more than the allowance is an approval and a deposit.          *)
LEMMA SupplyIsTwo ==
  ASSUME NEW context, ContextFits(context), NEW in, in.amount \in Nat, in.current \in Nat,
         in.current < in.amount, AaveSupply(context, in).faults = {},
         GaugeFits(in.gas, in.conversion), GaugeFits(in.approvalGas, in.conversion)
  PROVE  LET s == AaveSupply(context, in).receipts
         IN  ReceiptsFit(s) /\ IsReceipt(s[1]) /\ IsReceipt(s[2])
<1> DEFINE cost == GasCost(<<in.op, "approval-gas">>, in.approvalGas, in.conversion, context)
           approve == ApproveReceipt(context, <<in.op, "approve">>, in.allowance, in.amount, cost)
           s == AaveSupply(context, in).receipts
<1>1. ReceiptsFit(s)
  BY SupplyAnswers DEF AnswerFits, ReceiptsFit
<1>2. PICK d : s = Append(<<approve>>, d)
  <2>1. ~(in.current >= in.amount)
    OBVIOUS
  <2>2. \E given, d : AaveSupply(context, in) = Answer(given, Append(<<approve>>, d))
    <3> HIDE DEF cost
    <3> QED BY <2>1 DEF AaveSupply, cost
  <2> HIDE DEF approve
  <2> QED BY <2>2 DEF Answer
<1> HIDE DEF approve
<1>3. <<approve>> \in Seq({approve}) /\ Len(<<approve>>) = 1
  OBVIOUS
<1>4. IsSequence(<<approve>>)
  BY <1>3 DEF IsSequence
<1>5. DOMAIN s = 1 .. 2
  BY <1>2, <1>3, <1>4, AppendFacts
<1> HIDE DEF s
<1> QED BY <1>1, <1>5 DEF ReceiptsFit, s

LEMMA TwoFit ==
  ASSUME NEW r, IsReceipt(r), NEW t, IsReceipt(t)
  PROVE  ReceiptsFit(<<r, t>>)
<1>1. <<r, t>> = <<r>> \o <<t>>
  OBVIOUS
<1> QED BY <1>1, OneFits, OneAfterOther

LEMMA ReferenceEntryFits ==
  ASSUME BooksInv, EnterReference
  PROVE  BooksFit'
<1>1. PICK c, y, a, b :
        /\ references = [cash |-> [portfolio |-> c, available |-> a],
                         yield |-> [portfolio |-> y, available |-> b]]
        /\ c = CreatePortfolio(Opening) /\ Capitalized(y)
  BY DEF BooksInv, BooksFit, ReferencesFit
<1>2. references.yield.portfolio = y
  BY <1>1
<1>3. PICK failed \in BOOLEAN, reserve \in Reserves :
        LET entry == ReferenceEntry(references.yield.portfolio.initial, reserve)
            entered == ApplyAll(references.yield.portfolio, EntryReceipts(entry, failed))
        IN  /\ entry.faults = {}
            /\ references' = [references EXCEPT !.yield =
                                [portfolio |-> entered.portfolio, available |-> ~failed]]
  BY DEF EnterReference
<1> DEFINE capital == y.initial
           in == [op |-> Reference, position |-> Reference, allowance |-> Reference,
                  amount |-> capital, current |-> 0, reserve |-> Archived(reserve),
                  approvalGas |-> Archived(Gauge(capital)), gas |-> Archived(Gauge(capital)),
                  conversion |-> Archived([Conversion EXCEPT !.updated = clock])]
           entry == ReferenceEntry(capital, reserve)
           s == EntryReceipts(entry, failed)
           q == ApplyAll(y, s).portfolio
<1>4. ContextFits(EntryContext) /\ Operate("AAVE")
  BY TimeIs, HereFits DEF EnterReference, EntryContext
<1>5. in.amount \in Nat /\ in.current \in Nat /\ in.current < in.amount
  BY <1>1, CapitalIs DEF Capitalized
<1>6. GaugeFits(in.gas, in.conversion) /\ GaugeFits(in.approvalGas, in.conversion)
  BY GasIsPriced DEF Archived
<1>7. ReceiptsFit(s)
  <2>1. entry.faults = {}
    BY <1>2, <1>3
  <2>2. entry = AaveSupply(EntryContext, in)
    BY DEF ReferenceEntry
  <2> HIDE DEF in, entry
  <2>3. ReceiptsFit(entry.receipts) /\ IsReceipt(entry.receipts[1]) /\ IsReceipt(entry.receipts[2])
    BY <1>4, <1>5, <1>6, <2>1, <2>2, SupplyIsTwo
  <2> DEFINE costs == entry.receipts[2].costs
             op == <<Reference, "failed">>
             r == Pinned(EntryContext, 1, op, "COST", costs, << >>)
  <2>4. CostsFit(costs)
    BY <2>3 DEF IsReceipt, CostsFit
  <2>5. /\ DOMAIN << >> = Fields["COST"] /\ "COST" \in DOMAIN Fields
        /\ \A f \in Fields["COST"] : Valid(<< >>, f)
    BY DEF Fields
  <2>6. IsReceipt(r)
    <3> HIDE DEF costs, op
    <3> QED BY <1>4, <2>4, <2>5, PinnedFits
  <2>7. s = IF ~failed THEN entry.receipts ELSE <<entry.receipts[1], r>>
    BY DEF EntryReceipts
  <2> HIDE DEF r, s
  <2>8. ReceiptsFit(<<entry.receipts[1], r>>)
    BY <2>3, <2>6, TwoFit
  <2> QED BY <2>3, <2>7, <2>8
<1>8. references' = [references EXCEPT !.yield = [portfolio |-> q, available |-> ~failed]]
  BY <1>2, <1>3
<1> HIDE DEF s
<1>9. Capitalized(q)
  BY <1>1, <1>7, AllApplied DEF Capitalized
<1> HIDE DEF q
<1>10. ReferencesFit(references')
  <2>1. references' = [cash |-> [portfolio |-> c, available |-> a],
                       yield |-> [portfolio |-> q, available |-> ~failed]]
    BY <1>1, <1>8
  <2> QED BY <1>1, <1>9, <2>1 DEF ReferencesFit
<1>11. UNCHANGED <<portfolio, plan, quote, clock>>
  BY DEF EnterReference
<1>12. Bounded'
  BY <1>4, <1>11, OperationBounded
<1> QED BY <1>10, <1>11, <1>12 DEF BooksInv, BooksFit

-----------------------------------------------------------------------------
LEMMA BooksStep ==
  ASSUME BooksInv, Next
  PROVE  BooksInv'
<1>1. MarketInv'
  BY MarketStep DEF BooksInv
<1>2. CASE PlanSupply
  BY <1>1, <1>2, SupplyFits DEF BooksInv
<1>3. CASE EnterReference
  BY <1>1, <1>3, ReferenceEntryFits DEF BooksInv
<1>4. CASE AccruePosition
  BY <1>1, <1>4, AccrualFits DEF BooksInv
<1>5. CASE WithdrawPosition
  BY <1>1, <1>5, WithdrawalFits DEF BooksInv
<1>6. CASE CaptureVault
  BY <1>1, <1>6, CaptureFits DEF BooksInv
<1>7. CASE EnterVault
  BY <1>1, <1>7, VaultEntryFits DEF BooksInv
<1>8. CASE ExitVault
  BY <1>1, <1>8, VaultExitFits DEF BooksInv
<1>9. CASE ApproveSwap
  BY <1>1, <1>9, SwapApprovalFits DEF BooksInv
<1>10. CASE SwapCash
  BY <1>1, <1>10, SwapFits DEF BooksInv
<1>11. CASE ApplyNext
  BY <1>1, <1>11, NextReceiptFits DEF BooksInv
<1>12. CASE Deliver
  BY <1>1, <1>12, DeliveryFits DEF BooksInv
<1>13. CASE TakeCheckpoint
  BY <1>1, <1>13, CheckpointFits DEF BooksInv
<1>14. CASE Diagnose
  BY <1>1, <1>14, DiagnosisFits DEF BooksInv
<1>15. CASE UseVault \/ FillVault
  <2>1. UNCHANGED <<bookVars, clock>> /\ \E w \in {"MARKET", "VAULT"} : Operate(w)
    BY <1>15 DEF UseVault, FillVault
  <2>2. UNCHANGED <<portfolio, references, plan, quote, clock>>
    BY <2>1 DEF bookVars
  <2>3. Bounded'
    BY <2>1, <2>2, OperationBounded
  <2> QED BY <1>1, <2>2, <2>3 DEF BooksInv, BooksFit
<1>16. CASE Tick
  <2>1. /\ clock < MaxTime[work] /\ clock' = clock + 1
        /\ UNCHANGED <<work, steps, portfolio, references, plan, quote>>
    BY <1>16 DEF Tick, bookVars
  <2>2. work \in AllWorkloads /\ clock \in Nat
    BY TimeIs, ScenarioAssumption DEF BooksInv, MarketInv
  <2>3. MaxTime[work] \in Nat
    BY <2>2, ScenarioAssumption
  <2>4. Bounded'
    BY <2>1, <2>2, <2>3 DEF BooksInv, BooksFit, Bounded
  <2> QED BY <1>1, <2>1, <2>4 DEF BooksInv, BooksFit
<1> QED
  BY <1>2, <1>3, <1>4, <1>5, <1>6, <1>7, <1>8, <1>9, <1>10, <1>11, <1>12, <1>13, <1>14,
     <1>15, <1>16 DEF Next

LEMMA BooksHold ==
  ASSUME BooksInv, [Next]_vars
  PROVE  BooksInv'
<1>1. CASE Next
  BY <1>1, BooksStep
<1>2. CASE UNCHANGED vars
  <2>1. MarketInv'
    <3>1. VaultInv /\ UNCHANGED <<vaultVars, clock, work>>
      BY <1>2 DEF BooksInv, MarketInv, vars
    <3> QED BY <3>1, AwayIsFair DEF Fairly, BooksInv, MarketInv
  <2>2. UNCHANGED <<work, steps, clock, portfolio, references, plan, quote>>
    BY <1>2 DEF vars, bookVars
  <2> QED BY <2>1, <2>2 DEF BooksInv, BooksFit, Bounded
<1> QED BY <1>1, <1>2

LEMMA BooksAre ==
  ASSUME BooksInv
  PROVE  PortfolioSound
<1>1. PICK c, y, a, b :
        /\ references = [cash |-> [portfolio |-> c, available |-> a],
                         yield |-> [portfolio |-> y, available |-> b]]
        /\ Sound(c) /\ Sound(y)
  BY OpeningIs DEF BooksInv, BooksFit, ReferencesFit, Capitalized
<1>2. Portfolios = {portfolio, c, y} /\ Sound(portfolio)
  BY <1>1 DEF Portfolios, BooksInv, BooksFit, Capitalized
<1>3. \A p \in Portfolios : AssertPortfolio(p) /\ \A f \in Family : Fits(p.cash[f])
  BY <1>1, <1>2 DEF Sound, CashFits
<1>4. VaultInv /\ work \in Workloads /\ Bounded
  BY DEF BooksInv, BooksFit, MarketInv
<1>5. /\ \A a1 \in DOMAIN tokens : tokens[a1] \in Nat
      /\ supply = Total(shares) /\ TotalAssets \in Nat
  BY <1>4 DEF VaultInv, VaultTyped, Total
<1> QED BY <1>3, <1>4, <1>5 DEF PortfolioSound, TypeOK, Bounded

(* The agent's portfolio and both references account for every unit, whatever *)
(* is signed, observed, delivered or lost, in every order of plans, receipts, *)
(* checkpoints and diagnostics (applyReceipt, checkpointPortfolio, the entry  *)
(* of the reference, the demo diagnostic).                                    *)
THEOREM BooksAreSound == Spec => []PortfolioSound
<1>1. BooksInv /\ [Next]_vars => BooksInv'
  BY BooksHold
<1> QED
  BY <1>1, BooksInitially, BooksAre, PTL DEF Spec

-----------------------------------------------------------------------------
(* The largest of finitely many integers.                                     *)
LEMMA Greatest ==
  ASSUME NEW S, IsFiniteSet(S), S # {}, \A x \in S : x \in Int
  PROVE  Max(S) \in S /\ \A x \in S : x <= Max(S)
<1> DEFINE Topped(T) == T = {} \/ \E m \in T : \A x \in T : m >= x
           X == {T \in SUBSET S : Topped(T)}
<1>1. {} \in X
  OBVIOUS
<1>2. ASSUME NEW T \in SUBSET S, NEW x \in S \ T, T \in X
      PROVE  T \cup {x} \in X
  <2>1. x \in Int /\ \A y \in T : y \in Int
    OBVIOUS
  <2>2. Topped(T \cup {x})
    <3>1. CASE T = {}
      <4>1. \A y \in T \cup {x} : x >= y
        BY <2>1, <3>1
      <4> QED BY <4>1
    <3>2. CASE T # {}
      <4>1. PICK m \in T : \A y \in T : m >= y
        BY <1>2, <3>2
      <4>2. CASE m >= x
        BY <4>1, <4>2
      <4>3. CASE ~(m >= x)
        <5>1. m \in Int /\ x > m
          BY <2>1, <4>3
        <5>2. \A y \in T \cup {x} : x >= y
          BY <2>1, <4>1, <5>1
        <5> QED BY <5>2
      <4> QED BY <4>2, <4>3
    <3> QED BY <3>1, <3>2
  <2> HIDE DEF Topped
  <2> QED BY <2>2
<1>3. S \in X
  <2> HIDE DEF X
  <2> QED BY <1>1, <1>2, FiniteInduction
<1>4. \E m \in S : \A x \in S : m >= x
  BY <1>3
<1>5. Max(S) \in S /\ \A x \in S : Max(S) >= x
  BY <1>4 DEF Max
<1> QED BY <1>5

(* What a fall from a peak is of it.                                          *)
LEMMA FallIs ==
  ASSUME NEW peak \in Nat, peak > 0, NEW value \in Nat, value <= peak
  PROVE  ((peak - value) * Bps) \div peak \in 0 .. Bps
<1> DEFINE a == (peak - value) * Bps
           q == a \div peak
<1>1. Bps \in Nat /\ peak - value \in Nat /\ peak - value <= peak
  BY AdapterAssumption
<1>2. a \in Nat /\ a <= peak * Bps
  BY <1>1, Product, Grows
<1> HIDE DEF a
<1>3. q \in Nat /\ q * peak <= a
  BY <1>2, Divided
<1> HIDE DEF q
<1>4. q * peak \in Nat /\ peak * Bps = Bps * peak /\ Bps * peak \in Nat
  BY <1>1, <1>3
<1>5. q * peak <= Bps * peak
  BY <1>2, <1>3, <1>4
<1>6. q <= Bps
  BY <1>1, <1>3, <1>5, Shrinks
<1> QED BY <1>1, <1>3, <1>6 DEF q, a

(* A position is marked at its book and recovered for less.                   *)
LEMMA ValuationIs ==
  ASSUME NEW p, p.initial \in Nat, NEW x, IsPosition(x), x = Rebooked(x)
  PROVE  LET v == Valuation(p, x)
         IN  /\ v.id = x.id /\ v.mark = x.book /\ v.quality = "FRESH"
             /\ v.recoverable - v.exit \in Int /\ v.recoverable - v.exit <= x.book
             /\ ~ (v.exit > v.recoverable)
<1> DEFINE mark == Floor(x.shares, x.num, x.den)
           cut == mark \div ImpactScale + 1
           recoverable == Max({mark - cut, 0})
           fee == p.initial \div ImpactScale + 1
           exit == Min({fee, recoverable})
<1>1. mark = x.book /\ mark \in Nat
  BY RebookedIs DEF IsPosition
<1>2. ImpactScale \in Nat /\ ImpactScale > 0
  BY ScenarioAssumption
<1>3. \A k \in Nat : k \div ImpactScale \in Nat
  BY <1>2, Divided
<1>4. cut \in Nat /\ fee \in Nat
  BY <1>1, <1>3
<1>5. Valuation(p, x) = [id |-> x.id, mark |-> mark, recoverable |-> recoverable,
                         quality |-> "FRESH", exit |-> exit]
  BY DEF Valuation
<1> HIDE DEF mark, cut, fee
<1>6. recoverable \in Nat /\ recoverable <= mark
  <2>1. \E y \in {mark - cut, 0} : \A z \in {mark - cut, 0} : y >= z
    BY <1>1, <1>4
  <2>2. recoverable \in {mark - cut, 0} /\ recoverable >= 0
    BY <2>1 DEF Max
  <2> HIDE DEF recoverable
  <2> QED BY <1>1, <1>4, <2>2
<1> HIDE DEF recoverable
<1>7. exit \in Nat /\ exit <= recoverable
  <2>1. \E y \in {fee, recoverable} : \A z \in {fee, recoverable} : y =< z
    BY <1>4, <1>6
  <2>2. exit \in {fee, recoverable} /\ exit <= recoverable
    BY <2>1 DEF Min
  <2> HIDE DEF exit
  <2> QED BY <1>4, <1>6, <2>2
<1> HIDE DEF exit
<1>8. recoverable - exit \in Int /\ recoverable - exit <= mark /\ ~ (exit > recoverable)
  BY <1>1, <1>6, <1>7
<1> QED BY <1>1, <1>5, <1>8

LEMMA ValuedWorth ==
  ASSUME NEW p, Sound(p)
  PROVE  LET v == ValuePortfolio(p, Valued(p))
         IN  /\ v.mark = GlobalBook(p) /\ GlobalBook(p) \in Nat
             /\ v.liquidation <= v.mark
<1> DEFINE S == p.positions
           b == [x \in S |-> Valuation(p, x)]
           R == Valued(p)
           book == [x \in S |-> x.book]
           mark == [v \in R |-> v.mark]
           net == [v \in R |-> v.recoverable - v.exit]
<1>1. /\ Parts(p, p.last) /\ p.initial \in Nat /\ p.cash \in [Family -> Int]
      /\ GlobalBook(p) >= 0
  BY SoundFacts DEF CashFits, Sound, AssertPortfolio
<1>2. /\ IsFiniteSet(S) /\ Distinct(S)
      /\ \A x \in S : IsPosition(x) /\ x = Rebooked(x) /\ x.book \in Nat
  BY <1>1 DEF Parts, PositionsFit, PositionFits, IsPosition
<1>3. \A x \in S : /\ b[x].id = x.id /\ b[x].mark = x.book /\ b[x].quality = "FRESH"
                   /\ b[x].recoverable - b[x].exit \in Int
                   /\ b[x].recoverable - b[x].exit <= x.book
  <2> SUFFICES ASSUME NEW x \in S
               PROVE  LET v == Valuation(p, x)
                      IN  /\ v.id = x.id /\ v.mark = x.book /\ v.quality = "FRESH"
                          /\ v.recoverable - v.exit \in Int /\ v.recoverable - v.exit <= x.book
    BY Zenon
  <2> QED BY <1>1, <1>2, ValuationIs
<1>4. b \in [S -> R] /\ R = {b[x] : x \in S}
  BY DEF Valued
<1>5. \A x, y \in S : b[x] = b[y] => x = y
  BY <1>2, <1>3 DEF Distinct
<1> HIDE DEF b, R
<1>6. IsFiniteSet(R)
  <2>1. b \in Surjection(S, R)
    BY <1>4 DEF Surjection
  <2> QED BY <1>2, <2>1, FS_Surjection
<1>7. \A v \in R : /\ v.mark \in Nat /\ v.quality = "FRESH"
                   /\ v.recoverable - v.exit \in Int /\ v.recoverable - v.exit <= v.mark
  BY <1>2, <1>3, <1>4
<1>8. /\ book \in [S -> Int] /\ mark \in [R -> Int] /\ net \in [R -> Int]
      /\ (\A x \in S : mark[b[x]] = book[x]) /\ \A v \in R : net[v] <= mark[v]
  BY <1>2, <1>3, <1>4, <1>7
<1>9. BooksOf(S) = SumFunction(book)
  BY Zenon DEF BooksOf
<1>10. /\ MarkValue(p, R) = LiquidSum(p, Amounts(p.receivables) + SumFunction(mark)) - Amounts(p.payables)
       /\ LiquidationValue(p, R) = LiquidSum(p, SumFunction(net)) - Amounts(p.payables)
  BY Zenon DEF MarkValue, LiquidationValue
<1> HIDE DEF book, mark, net
<1>11. SumFunction(book) = SumFunction(mark)
  <2>1. IsFiniteSet(S) /\ IsFiniteSet(R) /\ book \in [S -> Int] /\ mark \in [R -> Int]
    BY <1>2, <1>6, <1>8
  <2>2. /\ b \in [S -> R] /\ R = {b[x] : x \in S}
        /\ \A x, y \in S : b[x] = b[y] => x = y
        /\ \A x \in S : mark[b[x]] = book[x]
    BY <1>4, <1>5, <1>8
  <2> HIDE DEF S
  <2> QED BY <2>1, <2>2, SumAlong
<1>12. SumFunction(net) <= SumFunction(mark) /\ SumFunction(net) \in Int
  BY <1>6, <1>8, SumMonotone, SumType
<1>13. /\ GlobalBook(p) = Worth(p)
       /\ Total(p.cash) \in Int /\ Amounts(p.reservations) \in Nat
       /\ BooksOf(S) \in Nat /\ Amounts(p.receivables) \in Nat /\ Amounts(p.payables) \in Nat
  BY <1>1, PartsWorth
<1>14. MarkValue(p, R) = GlobalBook(p) /\ LiquidationValue(p, R) <= GlobalBook(p)
       /\ GlobalBook(p) \in Nat
  BY <1>1, <1>9, <1>10, <1>11, <1>12, <1>13 DEF Worth, LiquidSum
<1>15. ~Unavailable(R)
  BY <1>7 DEF Unavailable
<1> QED BY <1>14, <1>15 DEF ValuePortfolio, R

(* The figures of a portfolio, against marks of earlier checkpoints.          *)
MarksFit(list) == IsSequence(list) /\ \A i \in DOMAIN list : list[i] \in Nat

FiguresFit(m) ==
  m.liquidation <= m.mark /\ (m.drawdown \in 0 .. Bps \/ (m.drawdown = None /\ m.mark = 0))

LEMMA MetricsAre ==
  ASSUME NEW p, Sound(p), NEW prior, MarksFit(prior)
  PROVE  LET m == Metrics(p, prior)
         IN  /\ m.mark = GlobalBook(p) /\ m.mark \in Nat /\ m.pnl = m.mark - p.initial
             /\ FiguresFit(m)
<1> DEFINE value == ValuePortfolio(p, Valued(p))
           S == {value.mark} \cup Range(prior)
           peak == Max(S)
           drawdown == IF peak = 0 THEN None ELSE ((peak - value.mark) * Bps) \div peak
           m == Metrics(p, prior)
<1>1. value.mark = GlobalBook(p) /\ value.mark \in Nat /\ value.liquidation <= value.mark
  BY ValuedWorth
<1>2. /\ m.mark = value.mark /\ m.liquidation = value.liquidation /\ m.drawdown = drawdown
      /\ m.pnl = value.mark - p.initial
  BY DEF Metrics, Metric
<1> HIDE DEF value, m
<1>3. IsFiniteSet(S) /\ S # {} /\ \A x \in S : x \in Nat
  <2> DEFINE n == Len(prior)
             R == Range(prior)
  <2>1. n \in Nat /\ DOMAIN prior = 1 .. n
    BY SequenceFacts DEF MarksFit
  <2>2. R = {prior[i] : i \in 1 .. n}
    BY <2>1 DEF Range
  <2> HIDE DEF n, R
  <2> DEFINE g == [i \in 1 .. n |-> prior[i]]
  <2>3. g \in Surjection(1 .. n, R)
    BY <2>2 DEF Surjection
  <2>4. IsFiniteSet(1 .. n)
    BY <2>1, FS_Interval
  <2> HIDE DEF g
  <2>5. IsFiniteSet(R)
    BY <2>3, <2>4, FS_Surjection
  <2>6. \A x \in R : x \in Nat
    BY <2>1, <2>2 DEF MarksFit
  <2>7. S = R \cup {value.mark}
    BY DEF R
  <2> HIDE DEF S
  <2> QED BY <1>1, <2>5, <2>6, <2>7, FS_AddElement
<1>4. peak \in Nat /\ value.mark <= peak
  <2>1. \A x \in S : x \in Int
    BY <1>3
  <2>2. peak \in S /\ \A x \in S : x <= peak
    <3> HIDE DEF S
    <3> QED BY <1>3, <2>1, Greatest
  <2>3. value.mark \in S
    OBVIOUS
  <2> HIDE DEF S, peak
  <2> QED BY <1>3, <2>2, <2>3
<1> HIDE DEF peak, S
<1>5. drawdown \in 0 .. Bps \/ (drawdown = None /\ value.mark = 0)
  <2>1. CASE peak = 0
    BY <1>1, <1>4, <2>1
  <2>2. CASE peak # 0
    <3>1. peak > 0
      BY <1>4, <2>2
    <3> DEFINE worth == value.mark
               fall == ((peak - worth) * Bps) \div peak
    <3>2. worth \in Nat /\ worth <= peak
      BY <1>1, <1>4
    <3>3. drawdown = fall
      BY <2>2
    <3> HIDE DEF worth
    <3>4. fall \in 0 .. Bps
      BY <1>4, <3>1, <3>2, FallIs
    <3> QED BY <3>3, <3>4
  <2> QED BY <2>1, <2>2
<1> HIDE DEF drawdown
<1> QED BY <1>1, <1>2, <1>5 DEF FiguresFit, m

(* What CheckpointsExplained says of the figures of a checkpoint, whether the *)
(* reference is compared or not, and of a report.                             *)
Explains(c) ==
  LET e == c.evaluation
      explained(p) == p.pnl - Amounts(p.costs)
  IN  /\ e.agent.pnl = explained(c.agent)
      /\ e.vsCash = explained(c.agent)
      /\ e.agent.mark - e.yield.mark = explained(c.agent) - explained(c.yield)
      /\ \A m \in {e.agent, e.cash, e.yield} : FiguresFit(m)

Reports(found, p) ==
  /\ found.mark = p.initial + p.pnl - found.costs
  /\ found.drawdown \in 0 .. Bps
  /\ found.unresolved # None <=> p.closed # None

LEMMA CheckpointIs ==
  ASSUME NEW agent, Capitalized(agent), NEW yield, Capitalized(yield), MarksFit(marks)
  PROVE  LET cash == CreatePortfolio(Opening)
             e == Evaluation(agent, cash, yield)
         IN  /\ Explains([agent |-> agent, cash |-> cash, yield |-> yield, evaluation |-> e])
             /\ MarksFit(Append(marks, e.agent.mark))
<1> DEFINE cash == CreatePortfolio(Opening)
           a == Metrics(agent, marks)
           c == Metrics(cash, << >>)
           y == Metrics(yield, << >>)
           e == Evaluation(agent, cash, yield)
           found == [agent |-> agent, cash |-> cash, yield |-> yield, evaluation |-> e]
<1>1. e = Compared(a, c, y)
  BY DEF Evaluation
<1>2. cash.pnl = 0 /\ cash.costs = {}
  BY DEF CreatePortfolio
<1>3. Capitalized(cash) /\ MarksFit(<< >>)
  BY OpeningIs, NoReceipts DEF MarksFit, ReceiptsFit
<1> HIDE DEF cash
<1>4. /\ Sound(agent) /\ Sound(cash) /\ Sound(yield)
      /\ agent.initial = Total(Opening) /\ cash.initial = Total(Opening)
      /\ yield.initial = Total(Opening) /\ Total(Opening) \in Nat
  BY <1>3, CapitalIs DEF Capitalized
<1>5. /\ a.mark = GlobalBook(agent) /\ a.mark \in Nat /\ a.pnl = a.mark - agent.initial
      /\ FiguresFit(a)
  BY <1>4, MetricsAre
<1>6. c.mark = GlobalBook(cash) /\ c.mark \in Nat /\ FiguresFit(c)
  BY <1>3, <1>4, MetricsAre
<1>7. y.mark = GlobalBook(yield) /\ y.mark \in Nat /\ FiguresFit(y)
  BY <1>3, <1>4, MetricsAre
<1> HIDE DEF a, c, y
<1>8. e.agent = a /\ e.cash = c /\ e.yield = y /\ e.vsCash = a.mark - c.mark
  BY <1>1 DEF Compared
<1> HIDE DEF e
<1>9. \A p : Sound(p) => /\ p.pnl \in Int /\ Amounts(p.costs) \in Nat
                         /\ GlobalBook(p) = p.initial + p.pnl - Amounts(p.costs)
  BY SoundFacts, AmountsType
<1>10. Amounts(cash.costs) = 0
  BY <1>2, <1>4, SoundFacts, AmountsType
<1>11. /\ a.pnl = agent.pnl - Amounts(agent.costs)
       /\ a.mark - c.mark = agent.pnl - Amounts(agent.costs)
       /\ a.mark - y.mark = (agent.pnl - Amounts(agent.costs)) - (yield.pnl - Amounts(yield.costs))
  <2> DEFINE spent == Amounts(agent.costs)
             lost == Amounts(yield.costs)
             capital == Total(Opening)
  <2>1. /\ agent.pnl \in Int /\ spent \in Nat /\ yield.pnl \in Int /\ lost \in Nat
        /\ capital \in Nat
    BY <1>4, <1>9
  <2>2. GlobalBook(agent) = capital + agent.pnl - spent
    BY <1>4, <1>9
  <2>3. GlobalBook(yield) = capital + yield.pnl - lost
    BY <1>4, <1>9
  <2>4. GlobalBook(cash) = capital + cash.pnl - Amounts(cash.costs)
    BY <1>4, <1>9
  <2>5. agent.initial = capital
    BY <1>4
  <2> HIDE DEF spent, lost, capital
  <2>6. GlobalBook(cash) = capital
    BY <1>2, <1>10, <2>1, <2>4
  <2>7. /\ a.mark = capital + agent.pnl - spent /\ y.mark = capital + yield.pnl - lost
        /\ c.mark = capital /\ a.pnl = a.mark - capital
    BY <1>5, <1>6, <1>7, <2>2, <2>3, <2>5, <2>6
  <2>8. /\ a.pnl = agent.pnl - spent /\ a.mark - c.mark = agent.pnl - spent
        /\ a.mark - y.mark = (agent.pnl - spent) - (yield.pnl - lost)
    BY <2>1, <2>7
  <2> QED BY <2>8 DEF spent, lost
<1>12. /\ found.evaluation = e /\ found.agent = agent /\ found.yield = yield
  OBVIOUS
<1> HIDE DEF found
<1>13. Explains(found)
  BY <1>5, <1>6, <1>7, <1>8, <1>11, <1>12 DEF Explains
<1>14. MarksFit(Append(marks, a.mark))
  <2> DEFINE n == Len(marks)
             t == Append(marks, a.mark)
  <2>1. n \in Nat /\ DOMAIN marks = 1 .. n
    BY SequenceFacts DEF MarksFit
  <2>2. /\ IsSequence(t) /\ DOMAIN t = 1 .. n + 1
        /\ t[n + 1] = a.mark /\ \A i \in 1 .. n : t[i] = marks[i]
    BY AppendFacts DEF MarksFit
  <2> HIDE DEF t, n
  <2>3. \A i \in 1 .. n + 1 : i \in 1 .. n \/ i = n + 1
    BY <2>1
  <2>4. MarksFit(t)
    BY <1>5, <2>1, <2>2, <2>3 DEF MarksFit
  <2> QED BY <2>4 DEF t
<1> QED BY <1>8, <1>13, <1>14 DEF found, e, cash

-----------------------------------------------------------------------------
(* What a receipt does to the closing of a portfolio and to what is in transit. *)
LEMMA MovesKeepClosing ==
  ASSUME NEW p, IsBook(p), NEW r, r.kind \in TransferMove
  PROVE  MoveTransfer(p, r).portfolio.closed = p.closed
<1>1. CASE With(p.receivables, r.id) = {}
  BY <1>1 DEF MoveTransfer, Refuses, Moves
<1>2. CASE With(p.receivables, r.id) # {}
  <2>1. CASE r.kind = "TRANSFER_READY"
    BY <1>2, <2>1 DEF MoveTransfer, Moves, IsBook, BookFields
  <2>2. CASE r.kind = "TRANSFER_DELAYED"
    BY <1>2, <2>2 DEF MoveTransfer, Moves, IsBook, BookFields
  <2>3. CASE r.kind = "TRANSFER_DESTINATION_RETRY"
    BY <1>2, <2>3 DEF MoveTransfer, Moves, IsBook, BookFields
  <2>4. CASE r.kind = "TRANSFER_SETTLED"
    BY <1>2, <2>4 DEF MoveTransfer, Moves, IsBook, BookFields
  <2> QED BY <2>1, <2>2, <2>3, <2>4 DEF TransferMove
<1> QED BY <1>1, <1>2

LEMMA OthersKeepClosing ==
  ASSUME NEW p, IsBook(p), NEW r, r.kind \in DOMAIN Fields, r.kind # "CLOSE"
  PROVE  Effect(p, r).portfolio.closed = p.closed
<1>1. CASE r.kind \in {"NO_EFFECT", "COST"}
  <2>1. Effect(p, r) = Moves(p, 0, {})
    BY <1>1 DEF Effect, TransferMove
  <2> QED BY <2>1 DEF Moves
<1>2. CASE r.kind = "RESERVE"
  <2>1. Effect(p, r) = Reserve(p, r)
    BY <1>2 DEF Effect, TransferMove
  <2>2. Reserve(p, r).portfolio.closed = p.closed
    BY DEF Reserve, Moves, IsBook, BookFields
  <2> QED BY <2>1, <2>2
<1>3. CASE r.kind = "APPROVE"
  <2>1. Effect(p, r) = Approve(p, r)
    BY <1>3 DEF Effect, TransferMove
  <2>2. Approve(p, r).portfolio.closed = p.closed
    BY DEF Approve, Moves, IsBook, BookFields
  <2> QED BY <2>1, <2>2
<1>4. CASE r.kind = "DEPOSIT"
  <2>1. Effect(p, r) = Deposit(p, r)
    BY <1>4 DEF Effect, TransferMove
  <2>2. Deposit(p, r).portfolio.closed = p.closed
    BY DEF Deposit, Moves, IsBook, BookFields
  <2> QED BY <2>1, <2>2
<1>5. CASE r.kind = "WITHDRAW"
  <2>1. Effect(p, r) = Withdraw(p, r)
    BY <1>5 DEF Effect, TransferMove
  <2>2. Withdraw(p, r).portfolio.closed = p.closed
    BY DEF Withdraw, Refuses, Moves, IsBook, BookFields
  <2> QED BY <2>1, <2>2
<1>6. CASE r.kind = "SWAP"
  <2>1. Effect(p, r) = Swap(p, r)
    BY <1>6 DEF Effect, TransferMove
  <2>2. Swap(p, r).portfolio.closed = p.closed
    BY DEF Swap, Moves, IsBook, BookFields
  <2> QED BY <2>1, <2>2
<1>7. CASE r.kind = "PAYABLE_SETTLED"
  <2>1. Effect(p, r) = SettlePayable(p, r)
    BY <1>7 DEF Effect, TransferMove
  <2>2. SettlePayable(p, r).portfolio.closed = p.closed
    BY DEF SettlePayable, Refuses, Moves, IsBook, BookFields
  <2> QED BY <2>1, <2>2
<1>8. CASE r.kind = "TRANSFER_SOURCE_FAILED"
  <2>1. Effect(p, r) = SourceFailed(p, r)
    BY <1>8 DEF Effect, TransferMove
  <2>2. SourceFailed(p, r).portfolio.closed = p.closed
    BY DEF SourceFailed, Refuses, Moves, IsBook, BookFields
  <2> QED BY <2>1, <2>2
<1>9. CASE r.kind = "TRANSFER_BURNED"
  <2>1. Effect(p, r) = Burn(p, r)
    BY <1>9 DEF Effect, TransferMove
  <2>2. Burn(p, r).portfolio.closed = p.closed
    BY DEF Burn, Refuses, Moves, IsBook, BookFields
  <2> QED BY <2>1, <2>2
<1>10. CASE r.kind \in TransferMove
  <2>1. Effect(p, r) = MoveTransfer(p, r)
    BY <1>10 DEF Effect, TransferMove
  <2> QED BY <1>10, <2>1, MovesKeepClosing
<1>11. CASE r.kind = "ACCRUE"
  <2>1. Effect(p, r) = Accrue(p, r)
    BY <1>11 DEF Effect, TransferMove
  <2>2. Accrue(p, r).portfolio.closed = p.closed
    BY DEF Accrue, Refuses, Moves, IsBook, BookFields
  <2> QED BY <2>1, <2>2
<1> QED
  BY <1>1, <1>2, <1>3, <1>4, <1>5, <1>6, <1>7, <1>8, <1>9, <1>10, <1>11
  DEF Fields, TransferMove

LEMMA ClosingIs ==
  ASSUME NEW p, IsBook(p), NEW r, r.kind = "CLOSE"
  PROVE  /\ Effect(p, r).portfolio.closed = r.at
         /\ Effect(p, r).portfolio.receivables = p.receivables
<1>1. Effect(p, r) = Close(p, r)
  BY DEF Effect, TransferMove
<1>2. /\ Close(p, r).portfolio.closed = r.at
      /\ Close(p, r).portfolio.receivables = p.receivables
  BY DEF Close, Moves, IsBook, BookFields
<1> QED BY <1>1, <1>2

LEMMA BurnLeaves ==
  ASSUME NEW p, IsBook(p), NEW r, r.kind = "TRANSFER_BURNED", Effect(p, r).faults = {}
  PROVE  Effect(p, r).portfolio.receivables # {}
<1>1. Effect(p, r) = Burn(p, r)
  BY DEF Effect, TransferMove
<1>2. With(p.reservations, r.reservation) # {}
  <2> SUFFICES ASSUME With(p.reservations, r.reservation) = {} PROVE Burn(p, r).faults # {}
    BY <1>1
  <2>1. Burn(p, r) = Refuses(p, "ABSENT")
    BY DEF Burn
  <2> QED BY <2>1 DEF Refuses, Moves
<1>3. \E x : Burn(p, r).portfolio.receivables = p.receivables \cup {x}
  BY <1>2 DEF Burn, Moves, IsBook, BookFields
<1> QED BY <1>1, <1>3

LEMMA MovesLeave ==
  ASSUME NEW p, IsBook(p), NEW r, r.kind \in TransferMove, r.kind # "TRANSFER_SETTLED",
         Effect(p, r).faults = {}
  PROVE  Effect(p, r).portfolio.receivables # {}
<1>1. Effect(p, r) = MoveTransfer(p, r)
  BY DEF Effect, TransferMove
<1>2. With(p.receivables, r.id) # {}
  BY <1>1 DEF MoveTransfer, Refuses, Moves
<1>3. \E S, x : MoveTransfer(p, r).portfolio.receivables = S \cup {x}
  <2>1. CASE r.kind = "TRANSFER_READY"
    BY <1>2, <2>1 DEF MoveTransfer, Moves, IsBook, BookFields
  <2>2. CASE r.kind = "TRANSFER_DELAYED"
    BY <1>2, <2>2 DEF MoveTransfer, Moves, IsBook, BookFields
  <2>3. CASE r.kind = "TRANSFER_DESTINATION_RETRY"
    BY <1>2, <2>3 DEF MoveTransfer, Moves, IsBook, BookFields
  <2> QED BY <2>1, <2>2, <2>3 DEF TransferMove
<1> QED BY <1>1, <1>3

(* An accepted receipt repeats one of before, or is the next of its version.  *)
LEMMA NextVersion ==
  ASSUME NEW p, Sound(p), NEW r, IsReceipt(r), ApplyReceipt(p, r).faults = {}
  PROVE  LET q == ApplyReceipt(p, r).portfolio
         IN  \/ q = p
             \/ /\ r.version = p.version /\ q.version = p.version + 1
                /\ Effect(p, r).faults = {}
                /\ q.closed = Effect(p, r).portfolio.closed
                /\ q.receivables = Effect(p, r).portfolio.receivables
<1> DEFINE m == Effect(p, r)
           c == Charged(m.portfolio, r)
           q == ApplyReceipt(p, r).portfolio
           faults == m.faults \cup CostFaults(p, m, r) \cup StateFaults(m, c)
<1>1. CASE Prior(p, r) # {}
  BY <1>1 DEF ApplyReceipt, Outcome
<1>2. CASE Prior(p, r) = {}
  <2>1. /\ r.version = p.version /\ ~(r.at < p.last)
        /\ ApplyReceipt(p, r) = Applied(p, r, m)
    BY <1>2 DEF ApplyReceipt, Outcome
  <2>2. r.at \in Nat /\ p.last \in Nat /\ p.version \in Nat
    BY SoundFacts, FieldTypes
  <2>3. Ready(p, r)
    <3>1. Parts(p, r.at)
      BY <2>1, <2>2, SoundFacts, PartsLater
    <3> QED BY <2>2, <3>1, SoundFacts DEF Ready, CashFits
  <2>4. faults = {} /\ q = Recorded(c, r)
    <3>1. Applied(p, r, m) = Outcome(IF faults = {} THEN Recorded(c, r) ELSE p, faults)
      <4> HIDE DEF m
      <4> QED BY DEF Applied, Decided
    <3> HIDE DEF faults, c, m
    <3>2. faults = {}
      BY <2>1, <3>1 DEF Outcome
    <3> QED BY <2>1, <3>1, <3>2 DEF Outcome
  <2>5. Effect(p, r).faults = {}
    BY <2>4
  <2>6. Explained(p, r, m)
    BY <2>3, <2>5, EffectExplained
  <2> HIDE DEF m
  <2>7. IsBook(m.portfolio) /\ m.portfolio.version = p.version
    BY <2>6 DEF Explained, Parts, Kept
  <2>8. IsCharged(c, m.portfolio, r)
    BY <2>7, ChargedIs
  <2> HIDE DEF c, q
  <2>9. /\ IsBook(c) /\ c.version = p.version /\ c.closed = m.portfolio.closed
        /\ c.receivables = m.portfolio.receivables
    BY <2>7, <2>8 DEF IsCharged, BookFields
  <2>10. q.version = c.version + 1 /\ q.closed = c.closed /\ q.receivables = c.receivables
    BY <2>4, <2>9 DEF Recorded, IsBook, BookFields
  <2> QED BY <2>1, <2>5, <2>9, <2>10 DEF m, q
<1> QED BY <1>1, <1>2

-----------------------------------------------------------------------------
(* The steps of the two histories.                                            *)
LEMMA Concatenated ==
  ASSUME NEW U, NEW x \in Seq(U), NEW y \in Seq(U)
  PROVE  /\ DOMAIN (x \o y) = 1 .. Len(x) + Len(y)
         /\ \A i \in 1 .. Len(x) : (x \o y)[i] = x[i]
         /\ \A i \in 1 .. Len(y) : (x \o y)[Len(x) + i] = y[i]
OBVIOUS

(* A step of a script pays what bears its number.                             *)
PaidBy(i, costs) ==
  /\ Distinct(costs) /\ Amounts(Funded(costs, "WITHHELD")) = 0
  /\ \A c \in costs : /\ <<c.id[1], c.id[2]>> = <<"script", i>>
                      /\ c.funding = "AVAILABLE_CASH" => c.network = NetworkOf[c.family]

LEMMA NothingPaid ==
  ASSUME NEW i
  PROVE  PaidBy(i, {})
<1>1. Amounts({}) = 0 /\ Funded({}, "WITHHELD") = {} /\ Distinct({})
  BY FS_EmptySet, AmountsType DEF Priced, Funded, Distinct
<1> QED BY <1>1 DEF PaidBy

LEMMA StepPaid ==
  ASSUME NEW i, NEW amount, NEW funding \in {"PAYABLE", "AVAILABLE_CASH"}, NEW family
  PROVE  PaidBy(i, ScriptCost(i, amount, funding, family))
<1> DEFINE c == [id |-> <<"script", i, "gas">>, funding |-> funding, amount |-> amount,
                 network |-> NetworkOf[family],
                 family |-> IF funding = "PAYABLE" THEN None ELSE family]
<1>1. /\ <<c.id[1], c.id[2]>> = <<"script", i>> /\ c.funding # "WITHHELD"
      /\ c.funding = "AVAILABLE_CASH" => c.network = NetworkOf[c.family]
  OBVIOUS
<1>2. ScriptCost(i, amount, funding, family) = {c}
  BY DEF ScriptCost
<1> HIDE DEF c
<1>3. Distinct({c}) /\ Funded({c}, "WITHHELD") = {} /\ Amounts({}) = 0
  BY <1>1, FS_EmptySet, AmountsType DEF Distinct, Funded, Priced
<1> QED BY <1>1, <1>2, <1>3 DEF PaidBy

LEMMA GasPaid ==
  ASSUME NEW i
  PROVE  PaidBy(i, Gas(i))
BY StepPaid DEF Gas

Numbered(r, i, at, kind) ==
  /\ r.op = <<"script", i>> /\ r.version = i - 1 /\ r.at = at /\ r.kind = kind
  /\ PaidBy(i, r.costs)

MoveKind(i) ==
  CASE i = 7 -> "TRANSFER_DELAYED"
    [] i = 10 -> "TRANSFER_DESTINATION_RETRY"
    [] OTHER -> "TRANSFER_READY"

(* The first two steps of both scripts, and the others of each.               *)
EntryStep(r, i) ==
  \/ i = 1 /\ Numbered(r, i, i, "APPROVE")
  \/ /\ i = 2 /\ Numbered(r, i, i, "DEPOSIT")
     /\ r.position = "position" /\ r.family = Home
     /\ r.shares = Script.invested /\ r.amount = Script.invested /\ r.num = 1 /\ r.den = 1

StressStep(r, i) ==
  \/ EntryStep(r, i)
  \/ /\ i = 3 /\ Numbered(r, i, i, "WITHDRAW")
     /\ r.position = "position" /\ r.family = Home
     /\ r.shares = Script.invested /\ r.amount = Script.invested
  \/ i = 4 /\ Numbered(r, i, i, "COST")
  \/ /\ i = 5 /\ Numbered(r, i, i, "RESERVE") /\ r.costs = {}
     /\ r.id = "reservation" /\ r.family = Home /\ r.amount = Script.transfer
  \/ /\ i = 6 /\ Numbered(r, i, i, "TRANSFER_BURNED")
     /\ r.reservation = "reservation" /\ r.id = "transfer" /\ r.family = Far
     /\ r.amount = Script.transfer
  \/ i \in {7, 9, 10, 11} /\ Numbered(r, i, i + 63, MoveKind(i)) /\ r.id = "transfer"
  \/ i = 8 /\ Numbered(r, i, i + 63, "CLOSE")
  \/ /\ i = 12 /\ Numbered(r, i, i + 63, "TRANSFER_SETTLED")
     /\ r.id = "transfer" /\ r.amount = Script.transfer

ReplayStep(r, i) ==
  \/ EntryStep(r, i)
  \/ /\ i \in Nat /\ i > 2 /\ Numbered(r, i, i, "ACCRUE")
     /\ r.costs = {} /\ r.position = "position"

LEMMA NumberedIs ==
  ASSUME NEW i, NEW at, NEW kind, kind \in DOMAIN Fields, NEW b, DOMAIN b = Fields[kind],
         NEW costs, PaidBy(i, costs), NEW r, r = ScriptStep(i, at, kind, b, costs)
  PROVE  Numbered(r, i, at, kind) /\ r.costs = costs /\ \A f \in Fields[kind] : r[f] = b[f]
<1> DEFINE op == <<"script", i>>
           version == i - 1
           s == Header(op, version, at, kind, costs)
           q == Joined(s, b)
<1>1. r = q
  BY DEF ScriptStep, Header
<1>2. DOMAIN s = Fixed /\ s.op = op /\ s.version = version /\ s.at = at /\ s.kind = kind
      /\ s.costs = costs
  BY DEF Fixed, Header
<1> HIDE DEF s
<1>3. /\ \A f \in DOMAIN s : q[f] = s[f]
      /\ \A f \in DOMAIN b : f \notin DOMAIN s => q[f] = b[f]
  BY JoinedFacts
<1>4. \A f \in Fields[kind] : f \notin Fixed
  BY FieldsApart
<1> HIDE DEF version, q
<1>5. q.op = op /\ q.version = version /\ q.at = at /\ q.kind = kind /\ q.costs = costs
  BY <1>2, <1>3 DEF Fixed
<1>6. \A f \in Fields[kind] : q[f] = b[f]
  BY <1>2, <1>3, <1>4
<1>7. Numbered(q, i, at, kind)
  BY <1>5 DEF Numbered, version
<1> QED BY <1>1, <1>5, <1>6, <1>7

LEMMA Enters ==
  ASSUME NEW a, NEW d, a = [id |-> "allowance", amount |-> Script.invested],
         d = [family |-> Home, position |-> "position", shares |-> Script.invested,
              num |-> 1, den |-> 1, amount |-> Script.invested]
  PROVE  /\ EntryStep(ScriptStep(1, 1, "APPROVE", a, Gas(1)), 1)
         /\ EntryStep(ScriptStep(2, 2, "DEPOSIT", d, Gas(2)), 2)
<1>1. /\ DOMAIN a = Fields["APPROVE"] /\ DOMAIN d = Fields["DEPOSIT"]
      /\ "APPROVE" \in DOMAIN Fields /\ "DEPOSIT" \in DOMAIN Fields
      /\ {"family", "position", "shares", "num", "den", "amount"} \subseteq Fields["DEPOSIT"]
  BY DEF Fields
<1>2. /\ d.family = Home /\ d.position = "position" /\ d.shares = Script.invested
      /\ d.num = 1 /\ d.den = 1 /\ d.amount = Script.invested
  OBVIOUS
<1>3. PaidBy(1, Gas(1)) /\ PaidBy(2, Gas(2))
  BY GasPaid
<1> DEFINE r == ScriptStep(1, 1, "APPROVE", a, Gas(1))
           q == ScriptStep(2, 2, "DEPOSIT", d, Gas(2))
<1>4. Numbered(r, 1, 1, "APPROVE")
  BY <1>1, <1>3, NumberedIs
<1>5. Numbered(q, 2, 2, "DEPOSIT") /\ \A f \in Fields["DEPOSIT"] : q[f] = d[f]
  BY <1>1, <1>3, NumberedIs
<1> HIDE DEF r, q
<1>6. EntryStep(r, 1)
  BY <1>3, <1>4 DEF EntryStep
<1>7. q.family = d.family /\ q.position = d.position /\ q.shares = d.shares /\ q.num = d.num
      /\ q.den = d.den /\ q.amount = d.amount
  BY <1>1, <1>5
<1>8. EntryStep(q, 2)
  BY <1>2, <1>3, <1>5, <1>7 DEF EntryStep
<1> QED BY <1>6, <1>8 DEF r, q

LEMMA Spends ==
  ASSUME NEW w, w = [family |-> Home, position |-> "position", shares |-> Script.invested,
                     amount |-> Script.invested],
         NEW e, e = [id |-> "reservation", family |-> Home, amount |-> Script.transfer]
  PROVE  /\ StressStep(ScriptStep(3, 3, "WITHDRAW", w, Gas(3)), 3)
         /\ StressStep(ScriptStep(5, 5, "RESERVE", e, {}), 5)
<1>1. /\ DOMAIN w = Fields["WITHDRAW"] /\ DOMAIN e = Fields["RESERVE"]
      /\ "WITHDRAW" \in DOMAIN Fields /\ "RESERVE" \in DOMAIN Fields
      /\ {"family", "position", "shares", "amount"} \subseteq Fields["WITHDRAW"]
      /\ {"id", "family", "amount"} \subseteq Fields["RESERVE"]
  BY DEF Fields
<1>2. /\ w.family = Home /\ w.position = "position" /\ w.shares = Script.invested
      /\ w.amount = Script.invested
      /\ e.id = "reservation" /\ e.family = Home /\ e.amount = Script.transfer
  OBVIOUS
<1>3. PaidBy(3, Gas(3)) /\ PaidBy(5, {})
  BY GasPaid, NothingPaid
<1> DEFINE r == ScriptStep(3, 3, "WITHDRAW", w, Gas(3))
           q == ScriptStep(5, 5, "RESERVE", e, {})
<1>4. Numbered(r, 3, 3, "WITHDRAW") /\ \A f \in Fields["WITHDRAW"] : r[f] = w[f]
  BY <1>1, <1>3, NumberedIs
<1>5. Numbered(q, 5, 5, "RESERVE") /\ q.costs = {} /\ \A f \in Fields["RESERVE"] : q[f] = e[f]
  BY <1>1, <1>3, NumberedIs
<1> HIDE DEF r, q
<1>6. r.family = w.family /\ r.position = w.position /\ r.shares = w.shares /\ r.amount = w.amount
      /\ q.id = e.id /\ q.family = e.family /\ q.amount = e.amount
  BY <1>1, <1>4, <1>5
<1>7. StressStep(r, 3)
  BY <1>2, <1>3, <1>4, <1>6 DEF StressStep
<1>8. StressStep(q, 5)
  BY <1>2, <1>3, <1>5, <1>6 DEF StressStep
<1> QED BY <1>7, <1>8 DEF r, q

LEMMA Transfers ==
  ASSUME NEW b, b = [reservation |-> "reservation", id |-> "transfer", message |-> "message",
                     family |-> Far, amount |-> Script.transfer],
         NEW t, t = [id |-> "transfer", amount |-> Script.transfer]
  PROVE  /\ StressStep(ScriptStep(6, 6, "TRANSFER_BURNED", b, Gas(6)), 6)
         /\ StressStep(ScriptStep(12, 75, "TRANSFER_SETTLED", t, {}), 12)
<1>1. /\ DOMAIN b = Fields["TRANSFER_BURNED"] /\ DOMAIN t = Fields["TRANSFER_SETTLED"]
      /\ "TRANSFER_BURNED" \in DOMAIN Fields /\ "TRANSFER_SETTLED" \in DOMAIN Fields
      /\ {"reservation", "id", "family", "amount"} \subseteq Fields["TRANSFER_BURNED"]
      /\ {"id", "amount"} \subseteq Fields["TRANSFER_SETTLED"]
  BY DEF Fields
<1>2. /\ b.reservation = "reservation" /\ b.id = "transfer" /\ b.family = Far
      /\ b.amount = Script.transfer /\ t.id = "transfer" /\ t.amount = Script.transfer
  OBVIOUS
<1>3. PaidBy(6, Gas(6)) /\ PaidBy(12, {})
  BY GasPaid, NothingPaid
<1> DEFINE r == ScriptStep(6, 6, "TRANSFER_BURNED", b, Gas(6))
           q == ScriptStep(12, 75, "TRANSFER_SETTLED", t, {})
<1>4. Numbered(r, 6, 6, "TRANSFER_BURNED") /\ \A f \in Fields["TRANSFER_BURNED"] : r[f] = b[f]
  BY <1>1, <1>3, NumberedIs
<1>5. Numbered(q, 12, 75, "TRANSFER_SETTLED") /\ \A f \in Fields["TRANSFER_SETTLED"] : q[f] = t[f]
  BY <1>1, <1>3, NumberedIs
<1> HIDE DEF r, q
<1>6. r.reservation = b.reservation /\ r.id = b.id /\ r.family = b.family /\ r.amount = b.amount
      /\ q.id = t.id /\ q.amount = t.amount
  BY <1>1, <1>4, <1>5
<1>7. StressStep(r, 6)
  BY <1>2, <1>3, <1>4, <1>6 DEF StressStep
<1>8. StressStep(q, 12)
  BY <1>2, <1>3, <1>5, <1>6 DEF StressStep
<1> QED BY <1>7, <1>8 DEF r, q

LEMMA Carries ==
  ASSUME NEW i \in {7, 9, 10, 11}, NEW at, at = i + 63, NEW costs, PaidBy(i, costs)
  PROVE  StressStep(Move(i, at, MoveKind(i), costs), i)
<1> DEFINE b == [id |-> "transfer"]
           kind == MoveKind(i)
           r == ScriptStep(i, at, kind, b, costs)
<1>1. DOMAIN b = Fields[kind] /\ kind \in DOMAIN Fields /\ "id" \in Fields[kind]
  BY DEF Fields, MoveKind
<1>2. b.id = "transfer" /\ Move(i, at, kind, costs) = r
  BY DEF Move
<1> HIDE DEF b, kind
<1>3. Numbered(r, i, at, kind) /\ \A f \in Fields[kind] : r[f] = b[f]
  BY <1>1, NumberedIs
<1> HIDE DEF r
<1>4. r.id = "transfer"
  BY <1>1, <1>2, <1>3
<1>5. StressStep(r, i)
  BY <1>3, <1>4 DEF StressStep, kind
<1> QED BY <1>2, <1>5 DEF kind

LEMMA Marks ==
  ASSUME NEW b, b = << >>, NEW costs, PaidBy(4, costs)
  PROVE  /\ StressStep(ScriptStep(4, 4, "COST", b, costs), 4)
         /\ StressStep(ScriptStep(8, 71, "CLOSE", b, {}), 8)
<1>1. /\ DOMAIN b = Fields["COST"] /\ DOMAIN b = Fields["CLOSE"]
      /\ "COST" \in DOMAIN Fields /\ "CLOSE" \in DOMAIN Fields
  BY DEF Fields
<1>2. PaidBy(8, {})
  BY NothingPaid
<1> DEFINE r == ScriptStep(4, 4, "COST", b, costs)
           q == ScriptStep(8, 71, "CLOSE", b, {})
<1>3. Numbered(r, 4, 4, "COST")
  BY <1>1, NumberedIs
<1>4. Numbered(q, 8, 71, "CLOSE")
  BY <1>1, <1>2, NumberedIs
<1> HIDE DEF r, q
<1>5. StressStep(r, 4)
  BY <1>3 DEF StressStep
<1>6. StressStep(q, 8)
  BY <1>2, <1>4 DEF StressStep
<1> QED BY <1>5, <1>6 DEF r, q

(* The stress script, step by step.                                           *)
LEMMA StressSteps ==
  DOMAIN StressScript = 1 .. 12 /\ \A i \in 1 .. 12 : StressStep(StressScript[i], i)
<1> SUFFICES \E s : /\ StressScript = s /\ DOMAIN s = 1 .. 12
                    /\ \A i \in 1 .. 12 : StressStep(s[i], i)
  BY Zenon
<1> DEFINE w == [family |-> Home, position |-> "position", shares |-> Script.invested,
                 amount |-> Script.invested]
           e == [id |-> "reservation", family |-> Home, amount |-> Script.transfer]
           b == [reservation |-> "reservation", id |-> "transfer", message |-> "message",
                 family |-> Far, amount |-> Script.transfer]
           t == [id |-> "transfer", amount |-> Script.transfer]
           a == [id |-> "allowance", amount |-> Script.invested]
           d == [family |-> Home, position |-> "position", shares |-> Script.invested,
                 num |-> 1, den |-> 1, amount |-> Script.invested]
           z == << >>
           lost == ScriptCost(4, Script.failedGas, "AVAILABLE_CASH", Home)
           retried == ScriptCost(10, Script.failedGas, "PAYABLE", Far)
           none == {}
           r1 == ScriptStep(1, 1, "APPROVE", a, Gas(1))
           r2 == ScriptStep(2, 2, "DEPOSIT", d, Gas(2))
           r3 == ScriptStep(3, 3, "WITHDRAW", w, Gas(3))
           r4 == ScriptStep(4, 4, "COST", z, lost)
           r5 == ScriptStep(5, 5, "RESERVE", e, none)
           r6 == ScriptStep(6, 6, "TRANSFER_BURNED", b, Gas(6))
           r7 == Move(7, 70, "TRANSFER_DELAYED", none)
           r8 == ScriptStep(8, 71, "CLOSE", z, none)
           r9 == Move(9, 72, "TRANSFER_READY", none)
           r10 == Move(10, 73, "TRANSFER_DESTINATION_RETRY", retried)
           r11 == Move(11, 74, "TRANSFER_READY", none)
           r12 == ScriptStep(12, 75, "TRANSFER_SETTLED", t, none)
           x == <<r1, r2>>
           y == <<r3, r4, r5, r6, r7, r8, r9, r10, r11, r12>>
           s == x \o y
<1>1. StressScript = s
  BY DEF StressScript, Entry
<1>2. EntryStep(r1, 1) /\ EntryStep(r2, 2)
  <2> HIDE DEF a, d
  <2> QED BY Enters DEF a, d
<1>3. StressStep(r3, 3) /\ StressStep(r5, 5)
  <2> HIDE DEF w, e
  <2> QED BY Spends DEF w, e
<1>4. StressStep(r6, 6) /\ StressStep(r12, 12)
  <2> HIDE DEF b, t
  <2> QED BY Transfers DEF b, t
<1>5. StressStep(r4, 4) /\ StressStep(r8, 8)
  <2>1. PaidBy(4, lost)
    BY StepPaid
  <2>2. z = << >>
    OBVIOUS
  <2> HIDE DEF z, lost
  <2> QED BY <2>1, <2>2, Marks
<1>6. StressStep(r7, 7) /\ StressStep(r9, 9) /\ StressStep(r10, 10) /\ StressStep(r11, 11)
  <2>1. PaidBy(7, none) /\ PaidBy(9, none) /\ PaidBy(10, retried) /\ PaidBy(11, none)
    BY StepPaid, NothingPaid
  <2>2. /\ MoveKind(7) = "TRANSFER_DELAYED" /\ MoveKind(9) = "TRANSFER_READY"
        /\ MoveKind(10) = "TRANSFER_DESTINATION_RETRY" /\ MoveKind(11) = "TRANSFER_READY"
        /\ 70 = 7 + 63 /\ 72 = 9 + 63 /\ 73 = 10 + 63 /\ 74 = 11 + 63
    BY DEF MoveKind
  <2> HIDE DEF none, retried
  <2>3. StressStep(Move(7, 70, MoveKind(7), none), 7)
    BY <2>1, <2>2, Carries
  <2>4. StressStep(Move(9, 72, MoveKind(9), none), 9)
    BY <2>1, <2>2, Carries
  <2>5. StressStep(Move(10, 73, MoveKind(10), retried), 10)
    BY <2>1, <2>2, Carries
  <2>6. StressStep(Move(11, 74, MoveKind(11), none), 11)
    BY <2>1, <2>2, Carries
  <2> QED BY <2>2, <2>3, <2>4, <2>5, <2>6
<1> HIDE DEF r1, r2, r3, r4, r5, r6, r7, r8, r9, r10, r11, r12
<1> DEFINE U == {r1, r2, r3, r4, r5, r6, r7, r8, r9, r10, r11, r12}
<1>7. /\ x \in Seq(U) /\ Len(x) = 2 /\ x[1] = r1 /\ x[2] = r2
      /\ y \in Seq(U) /\ Len(y) = 10 /\ y[1] = r3 /\ y[2] = r4 /\ y[3] = r5 /\ y[4] = r6
      /\ y[5] = r7 /\ y[6] = r8 /\ y[7] = r9 /\ y[8] = r10 /\ y[9] = r11 /\ y[10] = r12
  OBVIOUS
<1> HIDE DEF U, x, y
<1>8. /\ DOMAIN s = 1 .. 12
      /\ s[1] = r1 /\ s[2] = r2 /\ s[3] = r3 /\ s[4] = r4 /\ s[5] = r5 /\ s[6] = r6
      /\ s[7] = r7 /\ s[8] = r8 /\ s[9] = r9 /\ s[10] = r10 /\ s[11] = r11 /\ s[12] = r12
  <2>1. /\ DOMAIN s = 1 .. 2 + 10 /\ (\A i \in 1 .. 2 : s[i] = x[i])
        /\ \A i \in 1 .. 10 : s[2 + i] = y[i]
    <3>1. x \in Seq(U) /\ y \in Seq(U)
      BY <1>7
    <3>2. /\ DOMAIN s = 1 .. Len(x) + Len(y) /\ (\A i \in 1 .. Len(x) : s[i] = x[i])
          /\ \A i \in 1 .. Len(y) : s[Len(x) + i] = y[i]
      BY <3>1, Concatenated
    <3> HIDE DEF s
    <3>3. Len(x) = 2 /\ Len(y) = 10
      BY <1>7
    <3> QED BY <3>2, <3>3
  <2> HIDE DEF s
  <2>2. /\ DOMAIN s = 1 .. 12 /\ s[1] = x[1] /\ s[2] = x[2]
        /\ s[2 + 1] = y[1] /\ s[2 + 2] = y[2] /\ s[2 + 3] = y[3] /\ s[2 + 4] = y[4]
        /\ s[2 + 5] = y[5] /\ s[2 + 6] = y[6] /\ s[2 + 7] = y[7] /\ s[2 + 8] = y[8]
        /\ s[2 + 9] = y[9] /\ s[2 + 10] = y[10]
    BY <2>1
  <2> QED BY <1>7, <2>2
<1> HIDE DEF s
<1>9. StressStep(r1, 1) /\ StressStep(r2, 2)
  BY <1>2 DEF StressStep
<1>10. ASSUME NEW i \in 1 .. 12 PROVE StressStep(s[i], i)
  <2>1. i \in {1, 2, 3, 4, 5, 6, 7, 8, 9, 10, 11, 12}
    OBVIOUS
  <2> QED BY <1>3, <1>4, <1>5, <1>6, <1>8, <1>9, <2>1
<1> QED BY <1>1, <1>8, <1>10

(* The replay script accrues a day at a time after its entry.                 *)
LEMMA ReplaySteps ==
  /\ DOMAIN ReplayScript = 1 .. 2 + Script.days
  /\ \A i \in DOMAIN ReplayScript : ReplayStep(ReplayScript[i], i)
<1> DEFINE x == Entry
           y == Accruals(2, "position")
           n == Script.days
           s == x \o y
           a == [id |-> "allowance", amount |-> Script.invested]
           d == [family |-> Home, position |-> "position", shares |-> Script.invested,
                 num |-> 1, den |-> 1, amount |-> Script.invested]
           r1 == ScriptStep(1, 1, "APPROVE", a, Gas(1))
           r2 == ScriptStep(2, 2, "DEPOSIT", d, Gas(2))
<1>1. ReplayScript = s /\ ReceiptsFit(x) /\ ReceiptsFit(y) /\ n \in Nat
  BY EntryFits, DaysFit, ScriptData DEF ReplayScript
<1>2. EntryStep(r1, 1) /\ EntryStep(r2, 2)
  <2> HIDE DEF a, d
  <2> QED BY Enters DEF a, d
<1>3. x = <<r1, r2>>
  BY DEF Entry
<1>4. Len(x) = 2 /\ x[1] = r1 /\ x[2] = r2
  <2> HIDE DEF r1, r2
  <2> QED BY <1>3
<1> HIDE DEF r1, r2
<1>5. DOMAIN y = 1 .. n /\ \A i \in 1 .. n : ReplayStep(y[i], 2 + i)
  <2>1. DOMAIN y = 1 .. n
    BY DEF Accruals
  <2>2. ASSUME NEW i \in 1 .. n PROVE ReplayStep(y[i], 2 + i)
    <3> DEFINE b == [position |-> "position", num |-> DayIndex(i), den |-> IndexScale]
               k == 2 + i
               r == y[i]
               none == {}
    <3>1. r = ScriptStep(k, k, "ACCRUE", b, none)
      BY <2>2 DEF Accruals
    <3>2. DOMAIN b = Fields["ACCRUE"] /\ "ACCRUE" \in DOMAIN Fields /\ "position" \in Fields["ACCRUE"]
          /\ b.position = "position"
      BY DEF Fields
    <3>3. PaidBy(k, none)
      BY NothingPaid
    <3>4. k \in Nat /\ k > 2 /\ none = {}
      BY <1>1
    <3> HIDE DEF b, k, r, none
    <3>5. Numbered(r, k, k, "ACCRUE") /\ r.costs = none /\ \A f \in Fields["ACCRUE"] : r[f] = b[f]
      BY <3>1, <3>2, <3>3, NumberedIs
    <3>6. ReplayStep(r, k)
      BY <3>2, <3>4, <3>5 DEF ReplayStep
    <3> QED BY <3>6 DEF r, k
  <2> QED BY <2>1, <2>2
<1>6. PICK S : x \in Seq(S)
  BY <1>1 DEF ReceiptsFit, IsSequence
<1>7. PICK T : y \in Seq(T)
  BY <1>1 DEF ReceiptsFit, IsSequence
<1> HIDE DEF x, y, n
<1> DEFINE U == S \cup T
<1>8. x \in Seq(U) /\ y \in Seq(U)
  BY <1>6, <1>7
<1>9. Len(y) = n
  BY <1>1, <1>5, <1>7
<1> HIDE DEF U
<1>10. /\ DOMAIN s = 1 .. 2 + n /\ (\A i \in 1 .. 2 : s[i] = x[i])
       /\ \A i \in 1 .. n : s[2 + i] = y[i]
  <2>1. /\ DOMAIN s = 1 .. Len(x) + Len(y) /\ (\A i \in 1 .. Len(x) : s[i] = x[i])
        /\ \A i \in 1 .. Len(y) : s[Len(x) + i] = y[i]
    BY <1>8, Concatenated
  <2> HIDE DEF s
  <2>2. Len(x) = 2
    BY <1>4
  <2> QED BY <1>9, <2>1, <2>2
<1> HIDE DEF s
<1>11. ASSUME NEW i \in 1 .. 2 + n PROVE ReplayStep(s[i], i)
  <2>1. CASE i \in 1 .. 2
    <3>1. i \in {1, 2} /\ s[i] = x[i]
      BY <1>10, <2>1
    <3> QED BY <1>2, <1>4, <3>1 DEF ReplayStep
  <2>2. CASE i \notin 1 .. 2
    <3>1. PICK j \in 1 .. n : i = 2 + j
      <4>1. i - 2 \in 1 .. n /\ i = 2 + (i - 2)
        BY <1>1, <2>2
      <4> QED BY <4>1
    <3> QED BY <1>5, <1>10, <3>1
  <2> QED BY <2>1, <2>2
<1> QED BY <1>1, <1>10, <1>11 DEF n

Carried == {"TRANSFER_READY", "TRANSFER_DELAYED", "TRANSFER_DESTINATION_RETRY"}

(* A transfer that is burned at version 6 is in transit when the eighth receipt *)
(* closes the portfolio, and until the last.                                   *)
ClosesEighth(r, i) ==
  /\ r.version = i - 1
  /\ r.kind = "CLOSE" <=> i = 8
  /\ i = 6 => r.kind = "TRANSFER_BURNED"
  /\ i \in {7, 9, 10, 11} => r.kind \in Carried

LEMMA StressIs == \A i \in DOMAIN StressScript : i \in 1 .. 12 /\ ClosesEighth(StressScript[i], i)
<1> SUFFICES ASSUME NEW i \in 1 .. 12, NEW r, StressStep(r, i) PROVE ClosesEighth(r, i)
  BY StressSteps
<1> QED BY DEF ClosesEighth, StressStep, EntryStep, Numbered, MoveKind, Carried

LEMMA ReplayIs == \A i \in DOMAIN ReplayScript : ReplayScript[i].kind # "CLOSE"
BY ReplaySteps DEF ReplayStep, EntryStep, Numbered

StepSuits(r, i, w) ==
  IF w = "STRESS" THEN i \in 1 .. 12 /\ ClosesEighth(r, i) ELSE r.kind # "CLOSE"

LEMMA ScriptSuits ==
  ASSUME NEW w
  PROVE  \A i \in DOMAIN ScriptOf(w) : StepSuits(ScriptOf(w)[i], i, w)
<1>1. CASE w = "STRESS"
  BY <1>1, StressIs DEF ScriptOf, StepSuits
<1>2. CASE w # "STRESS"
  BY <1>2, ReplayIs DEF ScriptOf, StepSuits
<1> QED BY <1>1, <1>2

(* How far a portfolio of the histories has come.                             *)
Staged(p, w) ==
  /\ p.closed # None <=> (w = "STRESS" /\ p.version >= 8)
  /\ w = "STRESS" /\ p.version \in 6 .. 11 => p.receivables # {}

LEMMA StepStaged ==
  ASSUME NEW w, NEW p, Sound(p), Staged(p, w), NEW r, IsReceipt(r), NEW i, StepSuits(r, i, w),
         ApplyReceipt(p, r).faults = {}
  PROVE  LET q == ApplyReceipt(p, r).portfolio
         IN  Staged(q, w) /\ q.version \in {p.version, p.version + 1}
<1> DEFINE q == ApplyReceipt(p, r).portfolio
           m == Effect(p, r)
<1>1. /\ IsBook(p) /\ p.version \in Nat /\ r.at \in Nat /\ None \notin Nat
      /\ r.kind \in DOMAIN Fields
  BY SoundFacts, FieldTypes, ReducerAssumption DEF IsReceipt
<1>2. \/ q = p
      \/ /\ r.version = p.version /\ q.version = p.version + 1 /\ m.faults = {}
         /\ q.closed = m.portfolio.closed /\ q.receivables = m.portfolio.receivables
  BY NextVersion
<1>3. r.kind # "CLOSE" => m.portfolio.closed = p.closed
  BY <1>1, OthersKeepClosing
<1>4. r.kind = "CLOSE" => m.portfolio.closed = r.at /\ m.portfolio.receivables = p.receivables
  BY <1>1, ClosingIs
<1>5. m.faults = {} /\ (r.kind = "TRANSFER_BURNED" \/ r.kind \in Carried)
        => m.portfolio.receivables # {}
  BY <1>1, BurnLeaves, MovesLeave DEF Carried, TransferMove
<1> HIDE DEF q, m
<1>6. CASE q = p
  BY <1>6 DEF q
<1>7. CASE q # p
  <2>1. /\ r.version = p.version /\ q.version = p.version + 1 /\ m.faults = {}
        /\ q.closed = m.portfolio.closed /\ q.receivables = m.portfolio.receivables
    BY <1>2, <1>7
  <2>2. CASE w = "STRESS"
    <3>1. i \in 1 .. 12 /\ ClosesEighth(r, i)
      BY <2>2 DEF StepSuits
    <3>2. p.version = i - 1 /\ q.version = i
      BY <1>1, <2>1, <3>1 DEF ClosesEighth
    <3>3. q.closed # None <=> q.version >= 8
      <4>1. CASE i = 8
        BY <1>1, <1>4, <2>1, <3>1, <3>2, <4>1 DEF ClosesEighth
      <4>2. CASE i # 8
        <5>1. q.closed = p.closed
          BY <1>3, <2>1, <3>1, <4>2 DEF ClosesEighth
        <5>2. p.version >= 8 <=> q.version >= 8
          BY <3>1, <3>2, <4>2
        <5> QED BY <2>2, <5>1, <5>2 DEF Staged
      <4> QED BY <4>1, <4>2
    <3>4. q.version \in 6 .. 11 => q.receivables # {}
      <4>1. CASE i = 8
        <5>1. q.receivables = p.receivables /\ p.version \in 6 .. 11
          BY <1>4, <2>1, <3>1, <3>2, <4>1 DEF ClosesEighth
        <5> QED BY <2>2, <5>1 DEF Staged
      <4>2. CASE i \in {6, 7, 9, 10, 11}
        BY <1>5, <2>1, <3>1, <4>2 DEF ClosesEighth
      <4>3. CASE i \notin 6 .. 11
        BY <3>2, <4>3
      <4> QED BY <3>1, <4>1, <4>2, <4>3
    <3> QED BY <2>1, <2>2, <3>3, <3>4 DEF Staged, q
  <2>3. CASE w # "STRESS"
    <3>1. q.closed = p.closed
      BY <1>3, <2>1, <2>3 DEF StepSuits
    <3> QED BY <2>1, <2>3, <3>1 DEF Staged, q
  <2> QED BY <2>2, <2>3
<1> QED BY <1>6, <1>7

(* The portfolios of a history, version by version.                           *)
Told(ps, opening, w) ==
  /\ Portraits(ps, opening) /\ ps[1] = opening
  /\ \A i \in DOMAIN ps : Staged(ps[i], w) /\ ps[i].version <= Last(ps).version
  /\ \A i \in DOMAIN ps : i + 1 \in DOMAIN ps => ps[i + 1].version <= ps[i].version + 1

LEMMA ToldFurther ==
  ASSUME NEW ps, NEW opening, NEW w, Told(ps, opening, w),
         NEW r, IsReceipt(r), NEW i, StepSuits(r, i, w)
  PROVE  Told(ReplayNext(ps, r), opening, w)
<1> DEFINE n == Len(ps)
           once == ApplyReceipt(Last(ps), r)
           q == once.portfolio
           t == Append(ps, q)
<1>1. /\ ReplayNext(ps, r) = ps \/ (ReplayNext(ps, r) = t /\ once.faults = {})
      /\ Portraits(ReplayNext(ps, r), opening)
  BY ReplayedFits DEF ReplayNext, Replayed, Told
<1>2. CASE ReplayNext(ps, r) = ps
  BY <1>2
<1>3. CASE ReplayNext(ps, r) # ps
  <2>1. n \in Nat /\ DOMAIN ps = 1 .. n /\ n > 0 /\ IsSequence(ps) /\ Last(ps) = ps[n]
    BY SequenceFacts DEF Told, Portraits, Last
  <2>2. n \in DOMAIN ps
    BY <2>1
  <2>3. Sound(Last(ps)) /\ Staged(Last(ps), w) /\ once.faults = {} /\ Last(ps).version \in Nat
    <3>1. Sound(Last(ps))
      BY LastOne DEF Told
    <3> QED BY <1>1, <1>3, <2>1, <2>2, <3>1, SoundFacts DEF Told
  <2>4. Staged(q, w) /\ q.version \in {Last(ps).version, Last(ps).version + 1}
    BY <2>3, StepStaged
  <2>5. /\ DOMAIN t = 1 .. n + 1 /\ Len(t) = n + 1
        /\ t[n + 1] = q /\ \A j \in 1 .. n : t[j] = ps[j]
    BY <2>1, AppendFacts
  <2>6. Portraits(t, opening)
    BY <1>1, <1>3
  <2> HIDE DEF t, q, n, once
  <2>7. Last(t) = q /\ t[1] = opening
    BY <2>1, <2>5 DEF Last, Told
  <2>8. q.version \in Nat /\ Last(ps).version <= q.version /\ q.version <= Last(ps).version + 1
    BY <2>3, <2>4
  <2>9. ASSUME NEW j \in DOMAIN t
        PROVE  Staged(t[j], w) /\ t[j].version <= Last(t).version
    <3>1. CASE j \in 1 .. n
      <4>1. t[j] = ps[j] /\ Staged(ps[j], w) /\ ps[j].version <= Last(ps).version
        BY <2>1, <2>5, <3>1 DEF Told
      <4>2. ps[j].version \in Nat
        BY <2>1, <3>1, SoundFacts DEF Told, Portraits
      <4> QED BY <2>3, <2>7, <2>8, <4>1, <4>2
    <3>2. CASE j = n + 1
      BY <2>4, <2>5, <2>7, <2>8, <3>2
    <3> QED BY <2>1, <2>5, <2>9, <3>1, <3>2
  <2>10. ASSUME NEW j \in DOMAIN t, j + 1 \in DOMAIN t
         PROVE  t[j + 1].version <= t[j].version + 1
    <3>1. j \in 1 .. n
      BY <2>1, <2>5, <2>10
    <3>2. CASE j = n
      <4>1. t[j] = Last(ps) /\ t[j + 1] = q
        BY <2>1, <2>5, <3>1, <3>2
      <4> QED BY <2>8, <4>1
    <3>3. CASE j # n
      <4>1. j + 1 \in 1 .. n
        BY <2>1, <3>1, <3>3
      <4>2. t[j] = ps[j] /\ t[j + 1] = ps[j + 1]
        BY <2>5, <3>1, <4>1
      <4> QED BY <2>1, <3>1, <4>1, <4>2 DEF Told
    <3> QED BY <3>2, <3>3
  <2>11. Told(t, opening, w)
    BY <2>6, <2>7, <2>9, <2>10 DEF Told
  <2> QED BY <1>1, <1>3, <2>11
<1> QED BY <1>2, <1>3

LEMMA AllTold ==
  ASSUME NEW w, NEW p, Sound(p), Staged(p, w)
  PROVE  Told(Snapshots(p, ScriptOf(w)), p, w)
<1> DEFINE s == ScriptOf(w)
           n == Len(s)
           f == Replaying(p, s, n)
           N == {k \in Nat : k <= n => Told(f[k], p, w)}
<1>1. ReceiptsFit(s)
  BY StressFits, ReplayFits DEF ScriptOf
<1>2. \A i \in DOMAIN s : StepSuits(s[i], i, w)
  BY ScriptSuits
<1> HIDE DEF s
<1>3. n \in Nat /\ DOMAIN s = 1 .. n
  BY <1>1, SequenceFacts DEF ReceiptsFit
<1>4. /\ f[0] = <<p>>
      /\ \A i \in 1 .. n : f[i] = ReplayNext(f[i - 1], s[i])
  BY <1>3, ReplayingFacts
<1>5. Snapshots(p, s) = f[n]
  BY DEF Snapshots, Replaying
<1>6. Told(<<p>>, p, w)
  <2> DEFINE t == <<p>>
  <2>1. t \in Seq({p}) /\ Len(t) = 1 /\ t[1] = p
    OBVIOUS
  <2>2. IsSequence(t)
    BY <2>1 DEF IsSequence
  <2> HIDE DEF t
  <2>3. DOMAIN t = {1}
    BY <2>1, <2>2, SequenceFacts
  <2>4. Portraits(t, p) /\ Last(t) = p /\ p.version \in Nat
    BY <2>1, <2>2, <2>3, SoundFacts DEF Portraits, Last
  <2>5. Told(t, p, w)
    BY <2>1, <2>3, <2>4 DEF Told
  <2> QED BY <2>5 DEF t
<1> HIDE DEF f, n
<1>7. 0 \in N
  BY <1>4, <1>6
<1>8. \A k \in N : k + 1 \in N
  <2> SUFFICES ASSUME NEW k \in N, k + 1 <= n PROVE Told(f[k + 1], p, w)
    OBVIOUS
  <2>1. Told(f[k], p, w) /\ k + 1 \in 1 .. n /\ (k + 1) - 1 = k
    BY <1>3
  <2>2. f[k + 1] = ReplayNext(f[k], s[k + 1])
    BY <1>4, <2>1
  <2>3. IsReceipt(s[k + 1]) /\ StepSuits(s[k + 1], k + 1, w)
    BY <1>1, <1>2, <1>3, <2>1 DEF ReceiptsFit
  <2> QED BY <2>1, <2>2, <2>3, ToldFurther
<1>9. N \in SUBSET Nat
  OBVIOUS
<1>10. n \in N
  <2> HIDE DEF N
  <2> QED BY <1>3, <1>7, <1>8, <1>9, Induction
<1> QED BY <1>3, <1>5, <1>10 DEF s

(* The first portfolio of a history that is closed is at version 8, with the  *)
(* transfer in transit.                                                       *)
LEMMA UnresolvedIs ==
  ASSUME NEW ps, NEW opening, NEW w, Told(ps, opening, w), opening.version = 0
  PROVE  UnresolvedAtClosure(ps) # None <=> Last(ps).closed # None
<1> DEFINE C == {i \in DOMAIN ps : ps[i].closed # None}
           n == Len(ps)
<1>1. n \in Nat /\ DOMAIN ps = 1 .. n /\ n > 0 /\ Last(ps) = ps[n]
  BY SequenceFacts DEF Told, Portraits, Last
<1>2. \A i \in 1 .. n : /\ Sound(ps[i]) /\ Staged(ps[i], w) /\ ps[i].version \in Nat
                        /\ ps[i].version <= Last(ps).version
  BY <1>1, SoundFacts DEF Told, Portraits
<1>3. n \in 1 .. n
  BY <1>1
<1> HIDE DEF n
<1>4. CASE C = {}
  <2>1. UnresolvedAtClosure(ps) = None
    BY <1>4 DEF UnresolvedAtClosure
  <2>2. Last(ps).closed = None
    BY <1>1, <1>3, <1>4
  <2> QED BY <2>1, <2>2
<1>5. CASE C # {}
  <2>1. C \subseteq Nat
    BY <1>1
  <2>2. \E k \in C : \A m \in C : k <= m
    <3> HIDE DEF C
    <3> QED BY <1>5, <2>1, NatMinimum
  <2> DEFINE k == Min(C)
  <2>3. k \in C /\ \A m \in C : k <= m
    <3> HIDE DEF C
    <3>1. \E j \in C : \A m \in C : j =< m
      BY <2>2
    <3> QED BY <3>1 DEF Min
  <2> HIDE DEF k
  <2>4. k \in 1 .. n /\ ps[k].closed # None /\ w = "STRESS" /\ ps[k].version >= 8
    BY <1>1, <1>2, <2>3 DEF Staged
  <2>5. k # 1
    BY <2>4 DEF Told
  <2>6. k - 1 \in 1 .. n /\ (k - 1) + 1 = k /\ ~(k <= k - 1)
    BY <1>1, <2>4, <2>5
  <2>7. k - 1 \notin C
    BY <2>3, <2>6
  <2>8. ps[k - 1].closed = None
    BY <1>1, <2>6, <2>7
  <2>9. ~(ps[k - 1].version >= 8) /\ ps[k - 1].version \in Nat
    BY <1>2, <2>4, <2>6, <2>8 DEF Staged
  <2>10. ps[k].version <= ps[k - 1].version + 1
    BY <1>1, <2>4, <2>6 DEF Told
  <2>11. ps[k].version = 8
    BY <1>2, <2>4, <2>9, <2>10
  <2>12. ps[k].receivables # {}
    BY <1>2, <2>4, <2>11 DEF Staged
  <2> DEFINE x == CHOOSE y \in ps[k].receivables : TRUE
  <2>13. x \in ps[k].receivables
    BY <2>12
  <2>14. x.amount \in Nat
    <3>1. Parts(ps[k], ps[k].last)
      BY <1>2, <2>4, SoundFacts
    <3> HIDE DEF x
    <3> QED BY <2>13, <3>1 DEF Parts, ReceivablesFit, ReceivableFits
  <2>15. UnresolvedAtClosure(ps) = x.amount
    BY <1>5, <2>12 DEF UnresolvedAtClosure, k
  <2>16. None \notin Nat
    BY ReducerAssumption
  <2>17. Last(ps).closed # None
    <3>1. Last(ps).version \in Nat /\ ps[k].version <= Last(ps).version /\ Staged(Last(ps), w)
      BY <1>1, <1>2, <1>3, <2>4
    <3> QED BY <2>4, <2>11, <3>1 DEF Staged
  <2> HIDE DEF x, C
  <2> QED BY <2>14, <2>15, <2>16, <2>17
<1> QED BY <1>4, <1>5

(* A history that starts with some worth falls by a share of its peak.        *)
LEMMA DrawdownIs ==
  ASSUME NEW ps, NEW opening, Portraits(ps, opening), GlobalBook(ps[1]) > 0
  PROVE  Drawdown(ps) \in 0 .. Bps
<1> DEFINE n == Len(ps)
           worth == [i \in 1 .. n |-> GlobalBook(ps[i])]
           Heights(i) == {worth[j] : j \in 1 .. i}
           fall == [i \in 1 .. n |-> ((Max(Heights(i)) - worth[i]) * Bps) \div Max(Heights(i))]
           Falls == {fall[i] : i \in 1 .. n}
<1>1. n \in Nat /\ DOMAIN ps = 1 .. n /\ n > 0
  BY SequenceFacts DEF Portraits
<1>2. \A i \in 1 .. n : worth[i] \in Nat
  <2> SUFFICES ASSUME NEW i \in 1 .. n PROVE GlobalBook(ps[i]) \in Nat
    OBVIOUS
  <2> QED BY <1>1, ValuedWorth DEF Portraits
<1>3. worth[1] > 0 /\ 1 \in 1 .. n
  BY <1>1
<1>4. Drawdown(ps) = Max(Falls)
  <2> DEFINE level(j) == GlobalBook(ps[j])
             peak(i) == Max({level(j) : j \in 1 .. i})
             drop(i) == ((peak(i) - level(i)) * Bps) \div peak(i)
  <2>1. Drawdown(ps) = Max({drop(i) : i \in 1 .. n})
    BY <1>1 DEF Drawdown
  <2>2. ASSUME NEW i \in 1 .. n PROVE fall[i] = drop(i)
    <3>1. Heights(i) = {level(j) : j \in 1 .. i}
      <4>1. \A j \in 1 .. i : j \in 1 .. n
        BY <1>1
      <4>2. \A j \in 1 .. i : worth[j] = level(j)
        BY <4>1
      <4> HIDE DEF worth, level
      <4> QED BY <4>2
    <3>2. worth[i] = level(i)
      OBVIOUS
    <3>3. fall[i] = ((Max(Heights(i)) - worth[i]) * Bps) \div Max(Heights(i))
      OBVIOUS
    <3> HIDE DEF worth, level, Heights, fall
    <3> QED BY <3>1, <3>2, <3>3
  <2> HIDE DEF fall, drop
  <2>3. Falls = {drop(i) : i \in 1 .. n}
    BY <2>2
  <2> QED BY <2>1, <2>3
<1> HIDE DEF worth
<1>5. ASSUME NEW i \in 1 .. n PROVE fall[i] \in 0 .. Bps
  <2> DEFINE H == Heights(i)
             top == Max(H)
  <2>1. i \in Nat /\ 1 \in 1 .. i /\ i \in 1 .. i /\ \A j \in 1 .. i : j \in 1 .. n
    BY <1>1
  <2>2. IsFiniteSet(H)
    <3> DEFINE g == [j \in 1 .. i |-> worth[j]]
    <3>1. g \in Surjection(1 .. i, H)
      BY DEF Surjection
    <3>2. IsFiniteSet(1 .. i)
      BY <2>1, FS_Interval
    <3> HIDE DEF g, H
    <3> QED BY <3>1, <3>2, FS_Surjection
  <2>3. worth[1] \in H /\ worth[i] \in H /\ \A x \in H : x \in Nat
    BY <1>2, <2>1
  <2>4. fall[i] = ((top - worth[i]) * Bps) \div top
    OBVIOUS
  <2> HIDE DEF H, fall
  <2>5. \A x \in H : x \in Int
    BY <2>3
  <2>6. top \in H /\ \A x \in H : x <= top
    BY <2>2, <2>3, <2>5, Greatest
  <2> HIDE DEF top
  <2>7. top \in Nat /\ worth[1] \in Nat /\ worth[1] <= top /\ worth[i] \in Nat /\ worth[i] <= top
    BY <2>3, <2>6
  <2>8. top > 0
    BY <1>3, <2>7
  <2> DEFINE v == worth[i]
  <2>9. v \in Nat /\ v <= top /\ fall[i] = ((top - v) * Bps) \div top
    BY <2>4, <2>7
  <2> HIDE DEF v
  <2> QED BY <2>7, <2>8, <2>9, FallIs
<1> HIDE DEF fall
<1>6. IsFiniteSet(Falls)
  <2> DEFINE g == [i \in 1 .. n |-> fall[i]]
  <2>1. g \in Surjection(1 .. n, Falls)
    BY DEF Surjection
  <2>2. IsFiniteSet(1 .. n)
    BY <1>1, FS_Interval
  <2> HIDE DEF g, Falls, n
  <2> QED BY <2>1, <2>2, FS_Surjection
<1>7. Falls # {} /\ \A x \in Falls : x \in 0 .. Bps
  BY <1>3, <1>5
<1>8. \A x \in Falls : x \in Int
  <2> HIDE DEF Falls
  <2>1. Bps \in Nat
    BY AdapterAssumption
  <2> QED BY <1>7, <2>1
<1>9. Max(Falls) \in Falls
  <2> HIDE DEF Falls
  <2> QED BY <1>6, <1>7, <1>8, Greatest
<1> HIDE DEF Falls
<1> QED BY <1>4, <1>7, <1>9

-----------------------------------------------------------------------------
(* The stored figures stay explained: marks are numbers, and a report is only *)
(* made when the script has been applied.                                     *)
ExplainedInv ==
  /\ BooksInv
  /\ MarksFit(marks)
  /\ checkpoint # None => Explains(checkpoint)
  /\ report # None => Scripted /\ Idle /\ Reports(report, portfolio)

LEMMA ExplainedInitially == Init => ExplainedInv
<1> SUFFICES ASSUME Init PROVE ExplainedInv
  OBVIOUS
<1>1. BooksInv
  BY BooksInitially
<1>2. marks = << >> /\ checkpoint = None /\ report = None
  BY DEF Init
<1>3. MarksFit(<< >>)
  BY NoReceipts DEF MarksFit, ReceiptsFit
<1> QED BY <1>1, <1>2, <1>3 DEF ExplainedInv

(* No other step stores figures, or runs when a script has been applied.      *)
LEMMA OthersStoreNothing ==
  ASSUME Next, ~TakeCheckpoint, ~Diagnose
  PROVE  UNCHANGED <<checkpoint, marks, report>> /\ ~(Scripted /\ Idle)
<1>1. CASE PlanSupply
  BY <1>1 DEF PlanSupply, Operate, Build, Scripted
<1>2. CASE EnterReference
  BY <1>2 DEF EnterReference, Operate, Scripted
<1>3. CASE AccruePosition
  BY <1>3 DEF AccruePosition, Operate, Build, Scripted
<1>4. CASE WithdrawPosition
  BY <1>4 DEF WithdrawPosition, Operate, Build, Scripted
<1>5. CASE CaptureVault
  BY <1>5 DEF CaptureVault, Operate, Scripted
<1>6. CASE EnterVault
  BY <1>6 DEF EnterVault, Operate, Build, Scripted
<1>7. CASE ExitVault
  BY <1>7 DEF ExitVault, Operate, Build, Scripted
<1>8. CASE ApproveSwap
  BY <1>8 DEF ApproveSwap, Operate, Build, Scripted
<1>9. CASE SwapCash
  BY <1>9 DEF SwapCash, Operate, Build, Scripted
<1>10. CASE ApplyNext
  BY <1>10 DEF ApplyNext
<1>11. CASE Deliver
  BY <1>11 DEF Deliver, Operate, Scripted
<1>12. CASE UseVault \/ FillVault
  BY <1>12 DEF UseVault, FillVault, Operate, Scripted, bookVars
<1>13. CASE Tick
  BY <1>13 DEF Tick, bookVars
<1> QED
  BY <1>1, <1>2, <1>3, <1>4, <1>5, <1>6, <1>7, <1>8, <1>9, <1>10, <1>11, <1>12, <1>13 DEF Next

LEMMA CheckpointExplained ==
  ASSUME ExplainedInv, TakeCheckpoint
  PROVE  MarksFit(marks') /\ Explains(checkpoint') /\ report' = None
<1>1. PICK c, y, a, b :
        /\ references = [cash |-> [portfolio |-> c, available |-> a],
                         yield |-> [portfolio |-> y, available |-> b]]
        /\ c = CreatePortfolio(Opening) /\ Capitalized(y)
  BY DEF ExplainedInv, BooksInv, BooksFit, ReferencesFit
<1>2. references.cash.portfolio = c /\ references.yield.portfolio = y /\ Capitalized(portfolio)
  BY <1>1 DEF ExplainedInv, BooksInv, BooksFit
<1> DEFINE agent == Accrued(portfolio).portfolio
           cash == Accrued(references.cash.portfolio).portfolio
           yield == Accrued(references.yield.portfolio).portfolio
           e == Evaluation(agent, cash, yield)
<1>3. Capitalized(agent) /\ cash = CreatePortfolio(Opening) /\ Capitalized(yield)
  <2>1. Sound(portfolio) /\ Sound(y) /\ BooksInv
    BY <1>1, <1>2 DEF Capitalized, ExplainedInv
  <2>2. Capitalized(agent)
    BY <1>2, <2>1, AllAccrued DEF Capitalized
  <2>3. Capitalized(yield)
    BY <1>1, <1>2, <2>1, AllAccrued DEF Capitalized
  <2>4. cash = c
    BY <1>1, <1>2, CashRests DEF Outcome
  <2> QED BY <1>1, <2>2, <2>3, <2>4
<1>4. /\ checkpoint' = [agent |-> agent, cash |-> cash, yield |-> yield, evaluation |-> e]
      /\ marks' = Append(marks, checkpoint'.evaluation.agent.mark)
      /\ report' = report /\ ~Scripted
  BY DEF TakeCheckpoint, Store
<1> HIDE DEF agent, cash, yield
<1>5. /\ Explains([agent |-> agent, cash |-> cash, yield |-> yield, evaluation |-> e])
      /\ MarksFit(Append(marks, e.agent.mark))
  BY <1>3, CheckpointIs DEF ExplainedInv
<1> HIDE DEF e
<1>6. checkpoint'.evaluation = e
  BY <1>4
<1> QED BY <1>4, <1>5, <1>6 DEF ExplainedInv

LEMMA DiagnosisExplained ==
  ASSUME ExplainedInv, Diagnose
  PROVE  Reports(report', portfolio) /\ UNCHANGED <<work, portfolio, plan, checkpoint, marks>>
<1> DEFINE opening == CreatePortfolio(Opening)
           ps == Snapshots(opening, ScriptOf(work))
<1>1. /\ Last(ps) = portfolio /\ Scripted /\ Idle
      /\ UNCHANGED <<work, portfolio, plan, checkpoint, marks>>
      /\ \E yield : report' = [mark |-> GlobalBook(portfolio), costs |-> Amounts(portfolio.costs),
                               drawdown |-> Drawdown(ps),
                               vsYield |-> GlobalBook(portfolio) - GlobalBook(yield),
                               unresolved |-> UnresolvedAtClosure(ps)]
  BY DEF Diagnose, Findings
<1>2. /\ opening.version = 0 /\ opening.closed = None /\ opening.pnl = 0 /\ opening.costs = {}
  BY DEF CreatePortfolio
<1>3. Sound(opening) /\ opening.initial = Total(Opening)
  BY OpeningIs DEF Capitalized
<1>4. GlobalBook(opening) > 0
  BY <1>2, <1>3, SoundFacts, AmountsType, CapitalIs
<1> HIDE DEF opening
<1>5. Told(ps, opening, work)
  <2>1. Staged(opening, work)
    BY <1>2 DEF Staged
  <2> QED BY <1>3, <2>1, AllTold
<1> HIDE DEF ps
<1>6. UnresolvedAtClosure(ps) # None <=> portfolio.closed # None
  BY <1>1, <1>2, <1>5, UnresolvedIs
<1>7. Drawdown(ps) \in 0 .. Bps
  BY <1>4, <1>5, DrawdownIs DEF Told
<1>8. GlobalBook(portfolio) = portfolio.initial + portfolio.pnl - Amounts(portfolio.costs)
  BY SoundFacts DEF ExplainedInv, BooksInv, BooksFit, Capitalized
<1>9. /\ report'.mark = GlobalBook(portfolio) /\ report'.costs = Amounts(portfolio.costs)
      /\ report'.drawdown = Drawdown(ps) /\ report'.unresolved = UnresolvedAtClosure(ps)
  BY <1>1
<1> QED BY <1>1, <1>6, <1>7, <1>8, <1>9 DEF Reports

LEMMA ExplainedStep ==
  ASSUME ExplainedInv, [Next]_vars
  PROVE  ExplainedInv'
<1>1. BooksInv'
  BY BooksHold DEF ExplainedInv
<1>2. CASE TakeCheckpoint
  BY <1>1, <1>2, CheckpointExplained DEF ExplainedInv
<1>3. CASE Diagnose
  <2>1. Reports(report', portfolio) /\ UNCHANGED <<work, portfolio, plan, checkpoint, marks>>
    BY <1>3, DiagnosisExplained
  <2>2. Scripted /\ Idle
    BY <1>3 DEF Diagnose
  <2>3. Reports(report', portfolio') /\ Scripted' /\ Idle'
    BY <2>1, <2>2 DEF Scripted, Idle
  <2> QED BY <1>1, <2>1, <2>3 DEF ExplainedInv
<1>4. CASE Next /\ ~TakeCheckpoint /\ ~Diagnose
  <2>1. UNCHANGED <<checkpoint, marks, report>> /\ ~(Scripted /\ Idle)
    BY <1>4, OthersStoreNothing
  <2>2. report' = None
    BY <2>1 DEF ExplainedInv
  <2> QED BY <1>1, <2>1, <2>2 DEF ExplainedInv
<1>5. CASE UNCHANGED vars
  <2>1. UNCHANGED <<work, portfolio, plan, checkpoint, marks, report>>
    BY <1>5 DEF vars, bookVars
  <2>2. Scripted' = Scripted /\ Idle' = Idle
    BY <2>1 DEF Scripted, Idle
  <2> QED BY <1>1, <2>1, <2>2 DEF ExplainedInv
<1> QED BY <1>2, <1>3, <1>4, <1>5

(* Every cost, position, allowance and reservation of a portfolio goes back   *)
(* to the one operation of its history that is named for it: an adapter or a  *)
(* diagnostic that would charge or open it again repeats that operation.      *)
OpName(w, c) ==
  CASE c = "approval-gas" -> IF w = "SWAP" THEN "approval" ELSE "approve"
    [] c = "supply-gas" -> "deposit"
    [] c = "aave-withdraw-gas" -> "aave-withdraw"
    [] c \in {"vault-deposit-gas", "vault-entry-fee"} -> "vault-deposit"
    [] c \in {"vault-redeem-gas", "vault-exit-gap"} -> "vault-redeem"
    [] OTHER -> "uniswap-swap"

Bearer(w, id) ==
  IF w \in {"STRESS", "REPLAY"} THEN <<id[1], id[2]>> ELSE <<id[1], OpName(w, id[2])>>

Opener(w, id) ==
  CASE w = "AAVE" -> <<id, "deposit">>
    [] w = "VAULT" -> <<Scenario, "vault-deposit">>
    [] OTHER -> <<"script", 2>>

Approver(w, id) == IF w = "AAVE" THEN <<id, "approve">> ELSE <<"script", 1>>

Tracked(w, p) ==
  /\ \A c \in p.costs : c.op = Bearer(w, c.id)
  /\ \A x \in p.positions : x.family = Home /\ Opener(w, x.id) \in Ops(p)
  /\ w # "SWAP" => \A a \in p.allowances : Approver(w, a.id) \in Ops(p)
  /\ \A x \in p.reservations : x.op = <<"script", 5>>

(* The receipts adapters, diagnostics and checkpoints build.                  *)
Adapted(w, r) ==
  /\ r.kind \notin {"PAYABLE_SETTLED", "TRANSFER_SOURCE_FAILED"}
  /\ Distinct(r.costs)
  /\ \A c \in r.costs :
       /\ r.op = Bearer(w, c.id)
       /\ c.funding = "AVAILABLE_CASH" => c.network = NetworkOf[c.family]
  /\ r.kind \notin {"DEPOSIT", "WITHDRAW", "SWAP"} => WithheldOf(r) = 0
  /\ r.kind = "DEPOSIT" =>
       /\ r.op = Opener(w, r.position) /\ r.family = Home
       /\ Floor(r.shares, r.num, r.den) = r.amount - WithheldOf(r) /\ WithheldOf(r) <= r.amount
       /\ Fits(r.shares) \/ r.shares = r.amount
  /\ (r.kind = "APPROVE" /\ w # "SWAP") => r.op = Approver(w, r.id)
  /\ r.kind = "RESERVE" => r.op = <<"script", 5>> /\ r.costs = {}
  /\ r.kind = "ACCRUE" => r.costs = {}
  /\ r.kind = "SWAP" =>
       /\ r.family # r.into /\ NetworkOf[r.family] = NetworkOf[r.into]
       /\ r.credit <= r.amount /\ r.amount - r.credit = WithheldOf(r)

LEMMA ReadyWhen ==
  ASSUME NEW p, Sound(p), NEW r, IsReceipt(r), p.last <= r.at
  PROVE  Ready(p, r)
<1>1. r.at \in Nat /\ p.last \in Nat
  BY SoundFacts, FieldTypes
<1>2. Parts(p, r.at)
  BY <1>1, SoundFacts, PartsLater
<1> QED BY <1>2, SoundFacts DEF Ready, CashFits

LEMMA TrackedKept ==
  ASSUME NEW w, NEW p, Sound(p), Tracked(w, p), NEW r, IsReceipt(r), Adapted(w, r)
  PROVE  Tracked(w, ApplyReceipt(p, r).portfolio)
<1> DEFINE q == ApplyReceipt(p, r).portfolio
           m == Effect(p, r)
<1>1. q = p \/ Counted(p, r, q)
  BY CountsOrNot
<1> HIDE DEF q
<1>2. CASE q = p
  BY <1>2 DEF q
<1>3. CASE Counted(p, r, q)
  <2>1. /\ p.last <= r.at /\ m.faults = {} /\ Ops(q) = Ops(p) \cup {r.op}
        /\ q.costs = p.costs \cup {CostRow(r, c) : c \in r.costs}
        /\ q.positions = m.portfolio.positions /\ q.allowances = m.portfolio.allowances
        /\ q.reservations = m.portfolio.reservations
    BY <1>3 DEF Counted
  <2>2. Ready(p, r) /\ r.kind \in DOMAIN Fields /\ IsBook(p)
    BY <2>1, ReadyWhen, SoundFacts DEF IsReceipt
  <2>3. Elsewhere(p, r.kind, m.portfolio)
    BY <2>2, RowsElsewhere
  <2>4. ASSUME NEW c \in q.costs PROVE c.op = Bearer(w, c.id)
    <3>1. CASE c \in p.costs
      BY <3>1 DEF Tracked
    <3>2. CASE c \notin p.costs
      <4>1. PICK k \in r.costs : c = CostRow(r, k)
        BY <2>1, <3>2
      <4>2. c.op = r.op /\ c.id = k.id
        BY <4>1 DEF CostRow
      <4> QED BY <4>2 DEF Adapted
    <3> QED BY <3>1, <3>2
  <2>5. ASSUME NEW x \in q.positions PROVE x.family = Home /\ Opener(w, x.id) \in Ops(q)
    <3>1. (\E y \in p.positions : y.id = x.id /\ y.family = x.family)
            \/ (r.kind = "DEPOSIT" /\ x.id = r.position /\ x.family = r.family)
      <4>1. CASE r.kind = "DEPOSIT"
        BY <2>1, <2>2, <4>1, DepositLeft
      <4>2. CASE r.kind = "WITHDRAW"
        BY <2>1, <2>2, <4>2, WithdrawalLeft
      <4>3. CASE r.kind = "ACCRUE"
        <5>1. PICK z, y : /\ z \in p.positions /\ q.positions = (p.positions \ {z}) \cup {y}
                          /\ y.id = z.id /\ y.family = z.family
          BY <2>1, <2>2, <4>3, AccruedLeft
        <5> QED BY <5>1
      <4>4. CASE r.kind \notin {"DEPOSIT", "WITHDRAW", "ACCRUE"}
        BY <2>1, <2>3, <4>4 DEF Elsewhere
      <4> QED BY <4>1, <4>2, <4>3, <4>4
    <3>2. CASE \E y \in p.positions : y.id = x.id /\ y.family = x.family
      BY <2>1, <3>2 DEF Tracked
    <3>3. CASE r.kind = "DEPOSIT" /\ x.id = r.position /\ x.family = r.family
      BY <2>1, <3>3 DEF Adapted
    <3> QED BY <3>1, <3>2, <3>3
  <2>6. ASSUME w # "SWAP", NEW a \in q.allowances PROVE Approver(w, a.id) \in Ops(q)
    <3>1. a \in p.allowances \/ (r.kind = "APPROVE" /\ a.id = r.id)
      <4>1. CASE r.kind = "APPROVE"
        BY <2>1, <2>2, <2>6, <4>1, AllowanceLeft
      <4>2. CASE r.kind # "APPROVE"
        BY <2>1, <2>3, <2>6, <4>2 DEF Elsewhere
      <4> QED BY <4>1, <4>2
    <3> QED BY <2>1, <2>6, <3>1 DEF Tracked, Adapted
  <2>7. ASSUME NEW x \in q.reservations PROVE x.op = <<"script", 5>>
    <3>1. CASE r.kind = "RESERVE"
      BY <2>1, <2>2, <2>7, <3>1, ReservationLeft DEF Tracked, Adapted
    <3>2. CASE r.kind # "RESERVE"
      BY <2>1, <2>3, <2>7, <3>2 DEF Tracked, Elsewhere
    <3> QED BY <3>1, <3>2
  <2>8. Tracked(w, q)
    BY <2>4, <2>5, <2>6, <2>7 DEF Tracked
  <2> QED BY <2>8 DEF q
<1> QED BY <1>1, <1>2, <1>3

(* What a receipt moves must be there.                                        *)
Found(p, r) ==
  /\ r.kind = "WITHDRAW" =>
       \E x \in p.positions :
         /\ x.id = r.position /\ x.family = r.family /\ x.shares = r.shares
         /\ r.amount <= x.book /\ x.book - r.amount = WithheldOf(r)
  /\ r.kind = "ACCRUE" => With(p.positions, r.position) # {}
  /\ r.kind = "TRANSFER_BURNED" =>
       /\ p.receivables = {}
       /\ \E x \in p.reservations : /\ x.id = r.reservation /\ x.amount = r.amount
                                    /\ NetworkOf[x.family] # NetworkOf[r.family]
  /\ r.kind \in TransferMove =>
       \E x \in p.receivables : /\ x.id = r.id /\ MayMove(r.kind, x)
                                /\ r.kind = "TRANSFER_SETTLED" => x.amount = r.amount

(* A swap's approval is charged only when the allowance is lower.             *)
Allowed(w, p, r) ==
  (r.kind = "APPROVE" /\ w = "SWAP") => \A a \in With(p.allowances, r.id) : ~ (a.amount >= r.amount)

LEMMA AdaptedMatches ==
  ASSUME NEW w, NEW p, Sound(p), Tracked(w, p), NEW r, IsReceipt(r), Adapted(w, r),
         Found(p, r), Allowed(w, p, r), r.op \notin Ops(p)
  PROVE  Matches(p, r) /\ CostsOpen(p, r)
<1>1. /\ \A c \in p.costs : c.op \in Ops(p)
      /\ \A x \in p.reservations : x.op \in Ops(p)
  BY SoundFacts DEF Rooted, Ops
<1>2. CostsOpen(p, r)
  <2>1. ASSUME NEW c \in r.costs PROVE With(p.costs, c.id) = {}
    BY <1>1 DEF With, Tracked, Adapted
  <2> QED BY <2>1 DEF CostsOpen, Adapted
<1>3. r.kind = "RESERVE" => r.costs = {} /\ With(p.reservations, r.id) = {}
  BY <1>1 DEF Tracked, Adapted, With
<1>4. r.kind = "APPROVE" =>
        r.costs = {} \/ \A a \in With(p.allowances, r.id) : ~ (a.amount >= r.amount)
  <2>1. CASE w = "SWAP"
    BY <2>1 DEF Allowed
  <2>2. CASE w # "SWAP" /\ r.kind = "APPROVE"
    <3>1. With(p.allowances, r.id) = {}
      BY <2>2 DEF Tracked, Adapted, With
    <3> QED BY <3>1
  <2> QED BY <2>1, <2>2
<1>5. r.kind = "DEPOSIT" =>
       /\ With(p.positions, r.position) = {}
       /\ Floor(r.shares, r.num, r.den) = r.amount - WithheldOf(r) /\ WithheldOf(r) <= r.amount
       /\ Fits(r.shares) \/ r.shares = r.amount
  <2>1. r.kind = "DEPOSIT" => With(p.positions, r.position) = {}
    BY DEF Tracked, Adapted, With
  <2> QED BY <2>1 DEF Adapted
<1>6. Matches(p, r)
  BY <1>3, <1>4, <1>5 DEF Matches, Found, Adapted
<1> QED BY <1>2, <1>6

(* No checkpoint to come has accrued this portfolio.                          *)
Historic(p) == \A n \in Nat : \A id : n >= Len(marks) => <<"accrual", n, id>> \notin Ops(p)

LEMMA OrderedOnce ==
  ASSUME NEW S, IsFiniteSet(S)
  PROVE  LET s == SetToSeq(S)
         IN  /\ \A i, j \in 1 .. Len(s) : s[i] = s[j] => i = j
             /\ S # {} => Len(s) > 0
<1> DEFINE n == Cardinality(S)
           s == SetToSeq(S)
<1>1. n \in Nat /\ ExistsBijection(1 .. n, S)
  BY FS_CardinalityType
<1>2. S # {} => n > 0
  BY <1>1, FS_EmptySet
<1> HIDE DEF n
<1>3. \E f \in [1 .. n -> S] : IsInjective(f)
  BY <1>1 DEF ExistsBijection, Bijection, Injection, IsInjective
<1>4. s \in [1 .. n -> S] /\ IsInjective(s)
  BY <1>3 DEF SetToSeq, n
<1> HIDE DEF s
<1>5. s \in Seq(S) /\ Len(s) = n
  BY <1>1, <1>4
<1>6. DOMAIN s = 1 .. n
  BY <1>4
<1>7. \A i, j \in 1 .. n : s[i] = s[j] => i = j
  BY <1>4, <1>6 DEF IsInjective
<1> QED BY <1>2, <1>5, <1>7 DEF s

(* The accruals of a checkpoint after k of the positions.                     *)
AccrualOf(x) == <<"accrual", Len(marks), x.id>>

Halfway(p, s, k, out) ==
  /\ Sound(out.portfolio)
  /\ \A j \in k + 1 .. Len(s) : s[j] \in out.portfolio.positions
  /\ \A o \in Ops(out.portfolio) : o \in Ops(p) \/ \E j \in 1 .. k : o = AccrualOf(s[j])
  /\ Ops(p) \subseteq Ops(out.portfolio)
  /\ out.faults \subseteq {"TIME", "OVERFLOW", "CLOSED"}
  /\ out.faults = {} => out.portfolio.version = p.version + k
  /\ \A w : Tracked(w, p) => Tracked(w, out.portfolio)

LEMMA AccrualFields ==
  ASSUME NEW q, NEW x
  PROVE  LET r == CheckpointAccrual(q, x)
         IN  /\ r.op = AccrualOf(x) /\ r.kind = "ACCRUE" /\ r.costs = {} /\ r.version = q.version
             /\ r.position = x.id /\ r.at = clock
             /\ r.num = x.num * (IndexScale + 1) /\ r.den = x.den * IndexScale
BY DEF CheckpointAccrual, AccrualOf

(* A checkpoint's accrual is a receipt any portfolio may be built with.       *)
LEMMA AccrualAdapted ==
  ASSUME NEW w, NEW r, IsReceipt(r), r.kind = "ACCRUE", r.costs = {}
  PROVE  Adapted(w, r)
BY WithheldIs DEF Adapted, Distinct

LEMMA AccruedOne ==
  ASSUME NEW p, NEW r, Ready(p, r), r.kind = "ACCRUE", Effect(p, r).faults = {}
  PROVE  \E z \in p.positions :
            z.id = r.position /\ p.positions \ {z} \subseteq Effect(p, r).portfolio.positions
<1>1. PICK x, y : /\ x \in p.positions /\ x.id = r.position
                  /\ Effect(p, r).portfolio.positions = (p.positions \ {x}) \cup {y}
                  /\ y.id = x.id /\ y.family = x.family /\ y.shares = x.shares
  BY AccruedLeft
<1>2. p.positions \ {x} \subseteq Effect(p, r).portfolio.positions
  BY <1>1
<1> QED BY <1>1, <1>2

LEMMA AccruedFurther ==
  ASSUME BooksInv, NEW p, Sound(p), Historic(p), Len(marks) \in Nat,
         NEW s, Len(s) \in Nat, \A i \in 1 .. Len(s) : s[i] \in p.positions,
         \A i, j \in 1 .. Len(s) : s[i] = s[j] => i = j,
         NEW k \in Nat, k + 1 <= Len(s), NEW out, Halfway(p, s, k, out)
  PROVE  Halfway(p, s, k + 1, AccrueNext(out, s[k + 1]))
<1> DEFINE q == out.portfolio
           x == s[k + 1]
           r == CheckpointAccrual(q, x)
           a == ApplyReceipt(q, r)
           n == Len(s)
<1>1. k + 1 \in 1 .. n /\ k + 1 \in k + 1 .. n /\ 1 .. k \subseteq 1 .. k + 1
      /\ k + 2 .. n \subseteq k + 1 .. n
  OBVIOUS
<1>2. CASE out.faults # {}
  <2>1. AccrueNext(out, s[k + 1]) = out
    BY <1>2 DEF AccrueNext
  <2>2. (k + 1) + 1 .. n \subseteq k + 1 .. n
    OBVIOUS
  <2> QED BY <1>1, <1>2, <2>1, <2>2 DEF Halfway
<1>3. CASE out.faults = {}
  <2>1. AccrueNext(out, s[k + 1]) = a
    BY <1>3 DEF AccrueNext
  <2>2. x \in p.positions /\ x \in q.positions /\ Sound(q) /\ q.version = p.version + k
    BY <1>1, <1>3 DEF Halfway
  <2>3. IsReceipt(r)
    BY <2>2, AccrualIsReceipt
  <2>4. /\ r.op = AccrualOf(x) /\ r.kind = "ACCRUE" /\ r.costs = {} /\ r.version = q.version
        /\ r.position = x.id
        /\ r.num = x.num * (IndexScale + 1) /\ r.den = x.den * IndexScale
    BY AccrualFields
  <2> HIDE DEF r
  <2>5. Distinct(p.positions) /\ Distinct(q.positions) /\ x = Rebooked(x) /\ IsPosition(x)
    <3>1. PositionsFit(p.positions, p.last) /\ PositionsFit(q.positions, q.last)
      BY <2>2, SoundFacts DEF Parts
    <3> QED BY <2>2, <3>1 DEF PositionsFit, PositionFits
  <2>6. r.op \notin Ops(q)
    <3>1. r.op \notin Ops(p)
      BY <2>4 DEF Historic, AccrualOf
    <3>2. ASSUME NEW j \in 1 .. k PROVE r.op # AccrualOf(s[j])
      <4>1. j \in 1 .. n /\ j # k + 1
        BY <1>1
      <4>2. s[j] # x /\ s[j] \in p.positions
        BY <1>1, <4>1
      <4>3. s[j].id # x.id
        BY <2>2, <2>5, <4>2 DEF Distinct
      <4> QED BY <2>4, <4>3 DEF AccrualOf
    <3> QED BY <3>1, <3>2 DEF Halfway
  <2>7. x.book <= Floor(x.shares, r.num, r.den)
    <3>1. x.book = Floor(x.shares, x.num, x.den)
      BY <2>5, RebookedIs
    <3>2. x.shares \in Nat /\ x.num \in Nat /\ x.den \in Nat \ {0} /\ IndexScale \in Nat \ {0}
      BY <2>5, ScenarioAssumption DEF IsPosition
    <3>3. Floor(x.shares, x.num, x.den)
            <= Floor(x.shares, x.num * (IndexScale + 1), x.den * IndexScale)
      BY <3>2, RisingIndex
    <3> QED BY <2>4, <3>1, <3>3
  <2>8. a.faults \subseteq {"TIME", "OVERFLOW", "CLOSED"}
    BY <2>2, <2>3, <2>4, <2>6, <2>7, AccrualRefused
  <2>9. /\ a.portfolio = q \/ (a.faults = {} /\ Counted(q, r, a.portfolio))
        /\ a.faults = {} => Counted(q, r, a.portfolio)
    BY <2>2, <2>3, <2>6, CountsOrNot
  <2>10. Sound(a.portfolio)
    BY <2>2, <2>3, ReceiptsKeepBooksSound
  <2>11. \A w : Tracked(w, p) => Tracked(w, a.portfolio)
    <3> SUFFICES ASSUME NEW w, Tracked(w, p) PROVE Tracked(w, a.portfolio)
      OBVIOUS
    <3>1. Tracked(w, q)
      BY DEF Halfway
    <3>2. Adapted(w, r)
      BY <2>3, <2>4, AccrualAdapted
    <3> QED BY <2>2, <2>3, <3>1, <3>2, TrackedKept
  <2> HIDE DEF a
  <2>12. CASE a.portfolio = q /\ a.faults # {}
    <3>1. ASSUME NEW j \in (k + 1) + 1 .. n PROVE s[j] \in a.portfolio.positions
      <4>1. j \in k + 1 .. n
        OBVIOUS
      <4> QED BY <2>12, <4>1 DEF Halfway
    <3>2. ASSUME NEW o \in Ops(a.portfolio)
          PROVE  o \in Ops(p) \/ \E j \in 1 .. k + 1 : o = AccrualOf(s[j])
      BY <1>1, <2>12 DEF Halfway
    <3>3. Ops(p) \subseteq Ops(a.portfolio)
      BY <2>12 DEF Halfway
    <3>4. a.faults = {} => a.portfolio.version = p.version + (k + 1)
      BY <2>12
    <3>5. Halfway(p, s, k + 1, a)
      BY <2>8, <2>10, <2>11, <3>1, <3>2, <3>3, <3>4, Zenon DEF Halfway
    <3> QED BY <2>1, <3>5
  <2>13. CASE Counted(q, r, a.portfolio)
    <3>1. /\ q.last <= r.at /\ Effect(q, r).faults = {} /\ Ops(a.portfolio) = Ops(q) \cup {r.op}
          /\ a.portfolio.positions = Effect(q, r).portfolio.positions
          /\ a.portfolio.version = q.version + 1
      BY <2>13 DEF Counted
    <3>2. Ready(q, r)
      BY <2>2, <2>3, <3>1, ReadyWhen
    <3>11. r.kind = "ACCRUE" /\ Effect(q, r).faults = {}
      BY <2>4, <3>1
    <3>3. PICK z \in q.positions :
              z.id = r.position /\ q.positions \ {z} \subseteq Effect(q, r).portfolio.positions
      BY <3>2, <3>11, AccruedOne
    <3>10. z.id = r.position /\ q.positions \ {z} \subseteq a.portfolio.positions
      BY <3>1, <3>3
    <3>4. z = x
      BY <2>2, <2>4, <2>5, <3>10 DEF Distinct
    <3>5. ASSUME NEW j \in (k + 1) + 1 .. n PROVE s[j] \in a.portfolio.positions
      <4>1. j \in k + 1 .. n /\ j \in 1 .. n /\ j # k + 1
        OBVIOUS
      <4>2. s[j] \in q.positions /\ s[j] # x
        BY <1>1, <4>1 DEF Halfway
      <4> QED BY <3>4, <3>10, <4>2
    <3>6. ASSUME NEW o \in Ops(a.portfolio)
          PROVE  o \in Ops(p) \/ \E j \in 1 .. k + 1 : o = AccrualOf(s[j])
      <4>1. CASE o \in Ops(q)
        BY <1>1, <4>1 DEF Halfway
      <4>2. CASE o = r.op
        <5>1. k + 1 \in 1 .. k + 1
          OBVIOUS
        <5> QED BY <2>4, <4>2, <5>1
      <4> QED BY <3>1, <4>1, <4>2
    <3>7. a.portfolio.version = p.version + (k + 1)
      <4>1. p.version \in Nat
        BY SoundFacts
      <4>2. a.portfolio.version = q.version + 1 /\ q.version = p.version + k
        BY <2>2, <3>1
      <4> HIDE DEF q
      <4> QED BY <4>1, <4>2
    <3>8. Ops(p) \subseteq Ops(a.portfolio)
      BY <3>1 DEF Halfway
    <3>9. Halfway(p, s, k + 1, a)
      BY <2>8, <2>10, <2>11, <3>5, <3>6, <3>7, <3>8, Zenon DEF Halfway
    <3> QED BY <2>1, <3>9
  <2> QED BY <2>9, <2>12, <2>13
<1> QED BY <1>2, <1>3

(* All of them.                                                               *)
LEMMA AccruedAll ==
  ASSUME BooksInv, NEW p, Sound(p), Historic(p), Len(marks) \in Nat
  PROVE  LET s == SetToSeq(p.positions)
         IN  Len(s) \in Nat /\ Halfway(p, s, Len(s), Accrued(p)) /\ (p.positions # {} => Len(s) > 0)
<1> DEFINE s == SetToSeq(p.positions)
           n == Len(s)
           f == Accruing(p, s, n)
           N == {k \in Nat : k <= n => Halfway(p, s, k, f[k])}
<1>1. /\ n \in Nat /\ \A i \in 1 .. n : s[i] \in p.positions
      /\ \A i, j \in 1 .. n : s[i] = s[j] => i = j
      /\ p.positions # {} => n > 0
  <2>1. Parts(p, p.last)
    BY SoundFacts
  <2>2. IsFiniteSet(p.positions)
    BY <2>1 DEF Parts, PositionsFit
  <2> QED BY <2>2, Ordered, OrderedOnce
<1>2. /\ f[0] = Outcome(p, {})
      /\ \A i \in 1 .. n : f[i] = AccrueNext(f[i - 1], s[i])
  BY <1>1, AccruingFacts
<1>3. Accrued(p) = f[n]
  BY DEF Accrued, Accruing
<1> HIDE DEF f, s
<1>4. 0 \in N
  <2>1. f[0].portfolio = p /\ f[0].faults = {}
    BY <1>2 DEF Outcome
  <2>2. p.version \in Nat /\ \A j \in 0 + 1 .. n : j \in 1 .. n
    BY SoundFacts
  <2> QED BY <1>1, <2>1, <2>2 DEF Halfway
<1>5. \A k \in N : k + 1 \in N
  <2> SUFFICES ASSUME NEW k \in N, k + 1 <= n PROVE Halfway(p, s, k + 1, f[k + 1])
    OBVIOUS
  <2>1. Halfway(p, s, k, f[k]) /\ k + 1 \in 1 .. n /\ (k + 1) - 1 = k /\ k \in Nat
    BY <1>1
  <2>2. f[k + 1] = AccrueNext(f[k], s[k + 1])
    BY <1>2, <2>1
  <2> HIDE DEF N
  <2>3. Halfway(p, s, k + 1, AccrueNext(f[k], s[k + 1]))
    BY <1>1, <2>1, AccruedFurther
  <2> QED BY <2>2, <2>3
<1>6. N \in SUBSET Nat
  OBVIOUS
<1>7. n \in N
  <2> HIDE DEF N
  <2> QED BY <1>1, <1>4, <1>5, <1>6, Induction
<1> QED BY <1>1, <1>3, <1>7 DEF s

(* Its valuation has one row per position, each with an exit it can pay.      *)
LEMMA ValuationFits ==
  ASSUME NEW p, Sound(p)
  PROVE  ValuationFaults(p, Valued(p)) \subseteq {"LIABILITIES"}
<1> DEFINE S == p.positions
           R == Valued(p)
<1>1. Parts(p, p.last) /\ p.initial \in Nat
  BY SoundFacts DEF CashFits
<1>2. Distinct(S) /\ \A x \in S : IsPosition(x) /\ x = Rebooked(x)
  BY <1>1 DEF Parts, PositionsFit, PositionFits
<1>3. ASSUME NEW x \in S
      PROVE  LET v == Valuation(p, x) IN v.id = x.id /\ ~ (v.exit > v.recoverable)
  BY <1>1, <1>2, ValuationIs
<1>4. {v.id : v \in R} = {x.id : x \in S}
  BY <1>3 DEF Valued
<1>5. Distinct(R)
  <2> SUFFICES ASSUME NEW x \in S, NEW y \in S, Valuation(p, x).id = Valuation(p, y).id
               PROVE  Valuation(p, x) = Valuation(p, y)
    BY DEF Distinct, Valued
  <2>1. x.id = y.id
    BY <1>3
  <2> QED BY <1>2, <2>1 DEF Distinct
<1>6. ~ \E v \in R : v.exit > v.recoverable
  BY <1>3 DEF Valued
<1> QED BY <1>4, <1>5, <1>6 DEF ValuationFaults, Fault

(* A checkpoint fails only for reasons that are known.                        *)
CheckpointReasons == {"TIME", "OVERFLOW", "PRECEDES", "LIABILITIES", "CLOSED"}

LEMMA AccrualReasons ==
  ASSUME BooksInv, NEW p, Sound(p), Historic(p), Len(marks) \in Nat
  PROVE  AccrualFaults(Accrued(p)) \subseteq CheckpointReasons
<1> DEFINE out == Accrued(p)
<1>1. Sound(out.portfolio) /\ out.faults \subseteq {"TIME", "OVERFLOW", "CLOSED"}
  BY AccruedAll DEF Halfway
<1> HIDE DEF out
<1>2. ValuationFaults(out.portfolio, Valued(out.portfolio)) \subseteq {"LIABILITIES"}
  BY <1>1, ValuationFits
<1>3. Fault(out.portfolio.last > clock, "PRECEDES") \subseteq {"PRECEDES"}
  BY DEF Fault
<1>4. AccrualFaults(out) \subseteq CheckpointReasons
  BY <1>1, <1>2, <1>3 DEF AccrualFaults, CheckpointReasons
<1> QED BY <1>4 DEF out

LEMMA CheckpointFitsIts ==
  ASSUME BooksInv, \A p \in Portfolios : Historic(p), Len(marks) \in Nat
  PROVE  CheckpointFaults \subseteq CheckpointReasons
<1>1. \A p \in Portfolios : Sound(p)
  <2>1. PICK c, y, a, b :
        /\ references = [cash |-> [portfolio |-> c, available |-> a],
                         yield |-> [portfolio |-> y, available |-> b]]
        /\ c = CreatePortfolio(Opening) /\ Capitalized(y)
    BY DEF BooksInv, BooksFit, ReferencesFit
  <2>2. references.cash.portfolio = c /\ references.yield.portfolio = y /\ Capitalized(portfolio)
    BY <2>1 DEF BooksInv, BooksFit
  <2>3. Capitalized(c)
    BY <2>1, OpeningIs
  <2> QED BY <2>1, <2>2, <2>3 DEF Portfolios, Capitalized
<1>2. ASSUME NEW p \in Portfolios PROVE AccrualFaults(Accrued(p)) \subseteq CheckpointReasons
  BY <1>1, AccrualReasons
<1> QED BY <1>2 DEF CheckpointFaults, Portfolios

(* Operations of adapters, diagnostics and deliveries are pairs; only those of *)
(* checkpoints are triples, numbered by the checkpoints before them.          *)
IsPair(o) == \E a, b : o = <<a, b>>

Historical(p, n) == \A k \in Nat : \A id : k >= n => <<"accrual", k, id>> \notin Ops(p)

LEMMA HistoricIs ==
  ASSUME NEW p
  PROVE  Historic(p) <=> Historical(p, Len(marks))
BY DEF Historic, Historical

LEMMA PairApart ==
  ASSUME NEW o, IsPair(o), NEW a, NEW b, NEW c
  PROVE  o # <<a, b, c>>
BY DEF IsPair

LEMMA OperationOpen ==
  ASSUME NEW p, Sound(p), NEW r, IsReceipt(r), IsPair(r.op), NEW n, Historical(p, n)
  PROVE  Historical(ApplyReceipt(p, r).portfolio, n)
<1> DEFINE q == ApplyReceipt(p, r).portfolio
<1>1. q = p \/ Counted(p, r, q)
  BY CountsOrNot
<1> HIDE DEF q
<1>2. Ops(q) \subseteq Ops(p) \cup {r.op}
  BY <1>1 DEF Counted
<1>3. ASSUME NEW k \in Nat, NEW id, k >= n PROVE <<"accrual", k, id>> \notin Ops(q)
  <2>1. <<"accrual", k, id>> # r.op
    BY PairApart
  <2> QED BY <1>2, <1>3, <2>1 DEF Historical
<1>4. Historical(q, n)
  BY <1>3 DEF Historical
<1> QED BY <1>4 DEF q

(* No receipt of a plan, an entry or a script is a checkpoint's.              *)
Paired(s) == \A i \in DOMAIN s : IsPair(s[i].op)

LEMMA EntryHistory ==
  ASSUME NEW p, Sound(p), NEW s, ReceiptsFit(s), Paired(s), NEW h, Historical(p, h)
  PROVE  Historical(ApplyAll(p, s).portfolio, h)
<1> DEFINE n == Len(s)
           f == Entered(p, s, n)
           Stays(q) == Sound(q) /\ Historical(q, h)
           N == {k \in Nat : k <= n => Stays(f[k].portfolio)}
<1>1. n \in Nat /\ DOMAIN s = 1 .. n
  BY SequenceFacts DEF ReceiptsFit
<1>2. /\ f[0] = Outcome(p, {})
      /\ \A i \in 1 .. n : f[i] = ApplyReceipt(f[i - 1].portfolio, s[i])
  BY <1>1, EnteredFacts
<1>3. ApplyAll(p, s) = f[n]
  BY DEF ApplyAll, Entered
<1> HIDE DEF f, n
<1>4. 0 \in N
  BY <1>2 DEF Outcome
<1>5. \A k \in N : k + 1 \in N
  <2> SUFFICES ASSUME NEW k \in N, k + 1 <= n PROVE Stays(f[k + 1].portfolio)
    OBVIOUS
  <2>1. Stays(f[k].portfolio) /\ k + 1 \in 1 .. n /\ (k + 1) - 1 = k
    BY <1>1
  <2>2. f[k + 1] = ApplyReceipt(f[k].portfolio, s[k + 1])
    BY <1>2, <2>1
  <2>3. IsReceipt(s[k + 1]) /\ IsPair(s[k + 1].op)
    BY <1>1, <2>1 DEF ReceiptsFit, Paired
  <2> DEFINE g == f[k].portfolio
             r == s[k + 1]
  <2>4. Sound(g) /\ Historical(g, h) /\ IsReceipt(r) /\ IsPair(r.op)
    BY <2>1, <2>3
  <2>5. f[k + 1].portfolio = ApplyReceipt(g, r).portfolio
    BY <2>2
  <2> HIDE DEF g, r
  <2> QED BY <2>4, <2>5, ReceiptsKeepBooksSound, OperationOpen
<1>6. N \in SUBSET Nat
  OBVIOUS
<1>7. n \in N
  <2> HIDE DEF N
  <2> QED BY <1>1, <1>4, <1>5, <1>6, Induction
<1> QED BY <1>1, <1>3, <1>7

LEMMA ReplayHistory ==
  ASSUME NEW p, Sound(p), NEW s, ReceiptsFit(s), Paired(s), NEW h, Historical(p, h)
  PROVE  Historical(Last(Snapshots(p, s)), h)
<1> DEFINE n == Len(s)
           f == Replaying(p, s, n)
           Stays(ps) == Portraits(ps, p) /\ \A i \in DOMAIN ps : Historical(ps[i], h)
           N == {k \in Nat : k <= n => Stays(f[k])}
<1>1. n \in Nat /\ DOMAIN s = 1 .. n
  BY SequenceFacts DEF ReceiptsFit
<1>2. /\ f[0] = <<p>>
      /\ \A i \in 1 .. n : f[i] = ReplayNext(f[i - 1], s[i])
  BY <1>1, ReplayingFacts
<1>3. Snapshots(p, s) = f[n]
  BY DEF Snapshots, Replaying
<1>4. Stays(<<p>>)
  <2> DEFINE t == <<p>>
  <2>1. t \in Seq({p}) /\ Len(t) = 1 /\ t[1] = p
    OBVIOUS
  <2>2. IsSequence(t)
    BY <2>1 DEF IsSequence
  <2> HIDE DEF t
  <2>3. DOMAIN t = {1}
    BY <2>1, <2>2, SequenceFacts
  <2>4. Stays(t)
    BY <2>1, <2>2, <2>3 DEF Portraits
  <2> QED BY <2>4 DEF t
<1> HIDE DEF f, n
<1>5. 0 \in N
  BY <1>2, <1>4
<1>6. \A k \in N : k + 1 \in N
  <2> SUFFICES ASSUME NEW k \in N, k + 1 <= n PROVE Stays(f[k + 1])
    OBVIOUS
  <2> DEFINE ps == f[k]
             r == s[k + 1]
             q == ApplyReceipt(Last(ps), r).portfolio
             t == Append(ps, q)
  <2>1. Stays(f[k]) /\ k + 1 \in 1 .. n /\ (k + 1) - 1 = k
    BY <1>1
  <2>2. f[k + 1] = ReplayNext(ps, r)
    BY <1>2, <2>1
  <2>3. IsReceipt(r) /\ IsPair(r.op)
    BY <1>1, <2>1 DEF ReceiptsFit, Paired
  <2> HIDE DEF r, ps
  <2>4. Portraits(ReplayNext(ps, r), p)
    BY <2>1, <2>3, ReplayedFits DEF ps
  <2>5. ReplayNext(ps, r) = ps \/ ReplayNext(ps, r) = t
    BY DEF ReplayNext, Replayed
  <2>6. Len(ps) \in Nat /\ DOMAIN ps = 1 .. Len(ps) /\ Len(ps) > 0 /\ Last(ps) = ps[Len(ps)]
        /\ IsSequence(ps)
    BY <2>1, SequenceFacts DEF Portraits, ps, Last
  <2>7. Historical(Last(ps), h) /\ Sound(Last(ps))
    <3>1. Len(ps) \in DOMAIN ps
      BY <2>6
    <3> QED BY <2>1, <2>6, <3>1 DEF ps, Portraits
  <2> DEFINE g == Last(ps)
  <2>8. Historical(q, h)
    <3>1. Sound(g) /\ Historical(g, h)
      BY <2>7
    <3> HIDE DEF g
    <3>2. Historical(ApplyReceipt(g, r).portfolio, h)
      BY <2>3, <3>1, OperationOpen
    <3> QED BY <3>2 DEF g
  <2> HIDE DEF q
  <2> DEFINE m == Len(ps)
  <2>9. /\ DOMAIN t = 1 .. m + 1 /\ t[m + 1] = q /\ \A i \in 1 .. m : t[i] = ps[i]
    BY <2>6, AppendFacts
  <2>10. \A i \in DOMAIN t : Historical(t[i], h)
    <3> HIDE DEF t
    <3>1. \A i \in 1 .. m + 1 : i \in 1 .. m \/ i = m + 1
      BY <2>6
    <3>2. \A i \in 1 .. m : Historical(ps[i], h)
      BY <2>1, <2>6 DEF ps
    <3> HIDE DEF m
    <3> QED BY <2>8, <2>9, <3>1, <3>2
  <2> HIDE DEF t
  <2> QED BY <2>1, <2>2, <2>4, <2>5, <2>10 DEF ps
<1>7. N \in SUBSET Nat
  OBVIOUS
<1>8. n \in N
  <2> HIDE DEF N
  <2> QED BY <1>1, <1>5, <1>6, <1>7, Induction
<1>9. Stays(f[n])
  BY <1>1, <1>8
<1>10. Len(f[n]) \in DOMAIN f[n]
  <2>1. Len(f[n]) \in Nat /\ DOMAIN f[n] = 1 .. Len(f[n]) /\ Len(f[n]) > 0
    BY <1>9, SequenceFacts DEF Portraits
  <2> QED BY <2>1
<1> QED BY <1>3, <1>9, <1>10 DEF Last

(* A checkpoint's own operations bear its number.                             *)
LEMMA CheckpointHistory ==
  ASSUME BooksInv, NEW p, Sound(p), Historic(p), Len(marks) \in Nat
  PROVE  Historical(Accrued(p).portfolio, Len(marks) + 1)
<1> DEFINE q == Accrued(p).portfolio
           n == Len(marks)
<1>1. \E s, m : \A o \in Ops(q) : o \in Ops(p) \/ \E j \in 1 .. m : o = AccrualOf(s[j])
  BY AccruedAll DEF Halfway
<1> HIDE DEF q
<1>2. \A o \in Ops(q) : o \in Ops(p) \/ \E x : o = AccrualOf(x)
  BY <1>1
<1>3. ASSUME NEW k \in Nat, NEW id, k >= n + 1 PROVE <<"accrual", k, id>> \notin Ops(q)
  <2>1. <<"accrual", k, id>> \notin Ops(p)
    <3>1. k >= n
      BY <1>3
    <3> QED BY <3>1 DEF Historic
  <2>2. \A x : <<"accrual", k, id>> # AccrualOf(x)
    <3>1. k # n
      BY <1>3
    <3> QED BY <3>1 DEF AccrualOf
  <2> QED BY <1>2, <2>1, <2>2
<1>4. Historical(q, n + 1)
  BY <1>3 DEF Historical
<1> QED BY <1>4 DEF q

LEMMA PinnedIs ==
  ASSUME NEW context, NEW ahead, NEW op, NEW kind \in DOMAIN Fields, NEW costs,
         NEW b, DOMAIN b = Fields[kind]
  PROVE  LET r == Pinned(context, ahead, op, kind, costs, b)
         IN  /\ r.op = op /\ r.version = context.version + ahead /\ r.at = context.at
             /\ r.kind = kind /\ r.costs = costs /\ \A f \in Fields[kind] : r[f] = b[f]
<1> DEFINE version == context.version + ahead
           s == Header(op, version, context.at, kind, costs)
           r == Joined(s, b)
<1>1. Pinned(context, ahead, op, kind, costs, b) = r
  BY DEF Pinned, Header
<1>2. DOMAIN s = Fixed /\ s.op = op /\ s.version = version /\ s.at = context.at /\ s.kind = kind
      /\ s.costs = costs
  BY DEF Fixed, Header
<1> HIDE DEF s
<1>3. /\ \A f \in DOMAIN s : r[f] = s[f]
      /\ \A f \in DOMAIN b : f \notin DOMAIN s => r[f] = b[f]
  BY JoinedFacts
<1>4. \A f \in Fields[kind] : f \notin Fixed
  BY FieldsApart
<1> HIDE DEF r, version
<1>5. r.op = op /\ r.version = version /\ r.at = context.at /\ r.kind = kind /\ r.costs = costs
  BY <1>2, <1>3 DEF Fixed
<1>6. \A f \in Fields[kind] : r[f] = b[f]
  BY <1>2, <1>3, <1>4
<1> QED BY <1>1, <1>5, <1>6 DEF version

(* Gas is owed; what is withheld is what the receipt moved too little.        *)
LEMMA GasAlone ==
  ASSUME NEW id, NEW gas, NEW conversion, NEW context
  PROVE  LET C == {GasCost(id, gas, conversion, context)}
         IN  /\ Distinct(C) /\ Amounts(Funded(C, "WITHHELD")) = 0
             /\ \A c \in C : c.id = id /\ c.funding = "PAYABLE"
<1> DEFINE c == GasCost(id, gas, conversion, context)
<1>1. c.id = id /\ c.funding = "PAYABLE"
  BY DEF GasCost, Cost
<1> HIDE DEF c
<1>2. Distinct({c}) /\ Funded({c}, "WITHHELD") = {}
  BY <1>1 DEF Distinct, Funded
<1>3. Amounts({}) = 0
  BY FS_EmptySet, AmountsType DEF Priced
<1> QED BY <1>1, <1>2, <1>3 DEF c

LEMMA GasBoth ==
  ASSUME NEW id, NEW gas, NEW conversion, NEW context, NEW other, other # id, NEW amount \in Nat
  PROVE  LET C == {GasCost(id, gas, conversion, context)} \cup Withheld(other, context, amount)
         IN  /\ Distinct(C) /\ Amounts(Funded(C, "WITHHELD")) = amount
             /\ \A c \in C : c.id \in {id, other} /\ c.funding # "AVAILABLE_CASH"
<1> DEFINE c == GasCost(id, gas, conversion, context)
           d == Cost(other, "WITHHELD", context, amount)
           D == Withheld(other, context, amount)
<1>1. c.id = id /\ c.funding = "PAYABLE"
  BY DEF GasCost, Cost
<1>2. d.id = other /\ d.funding = "WITHHELD" /\ d.amount = amount
  BY DEF Cost
<1>3. D = IF amount = 0 THEN {} ELSE {d}
  BY DEF Withheld
<1> HIDE DEF c, d, D
<1>4. /\ Distinct({c} \cup D) /\ Funded({c} \cup D, "WITHHELD") = D
      /\ \A x \in {c} \cup D : x.id \in {id, other} /\ x.funding # "AVAILABLE_CASH"
  BY <1>1, <1>2, <1>3 DEF Distinct, Funded
<1>5. Priced({}) /\ Amounts({}) = 0
  BY FS_EmptySet, AmountsType DEF Priced
<1>6. Amounts(D) = amount
  <2>1. CASE amount = 0
    BY <1>3, <1>5, <2>1
  <2>2. CASE amount # 0
    <3>1. Amounts({} \cup {d}) = Amounts({}) + d.amount
      BY <1>2, <1>5, AmountsWith
    <3>2. D = {} \cup {d}
      BY <1>3, <2>2
    <3> QED BY <1>2, <1>5, <3>1, <3>2
  <2> QED BY <2>1, <2>2
<1> QED BY <1>4, <1>6 DEF c, D

(* What divides exactly.                                                      *)
LEMMA Exactly ==
  ASSUME NEW k \in Nat \ {0}, NEW m \in Nat
  PROVE  Floor(k, m, k) = m /\ Floor(m, 1, 1) = m
<1>1. (k * m) \div k = m
  OBVIOUS
<1>2. (m * 1) \div 1 = m
  OBVIOUS
<1> QED BY <1>1, <1>2 DEF Floor

-----------------------------------------------------------------------------
(* Plans.                                                                     *)
Adapting == {"AAVE", "VAULT", "SWAP"}

(* No action to come has approved anything.                                   *)
Unborn(o, k) == \A n \in Nat : n >= k => o # <<<<"action", n>>, "approve">>

Current(w, p, pl) ==
  /\ p.last <= Head(pl.receipts).at \/ Head(pl.receipts).at < pl.since
  /\ Found(p, Head(pl.receipts)) /\ Allowed(w, p, Head(pl.receipts))

(* A receipt of a plan is the next of the version it was built for, or the     *)
(* portfolio moved on; the second of a supply waits for its approval.         *)
PlanHolds(w, p, pl, k) ==
  LET s == pl.receipts
  IN  /\ Tracked(w, p)
      /\ w = "AAVE" => \A o \in Ops(p) : Unborn(o, k)
      /\ Paired(s)
      /\ \A i \in DOMAIN s : Adapted(w, s[i]) /\ (w = "AAVE" => Unborn(s[i].op, k))
      /\ s # << >> =>
           /\ Head(s).version = pl.base + pl.done /\ pl.base + pl.done <= p.version
           /\ p.version = pl.base + pl.done => Current(w, p, pl)
      /\ pl.base \in Nat /\ pl.done \in Nat /\ Len(s) <= 2
      /\ Len(s) = 2 =>
           /\ w = "AAVE" /\ s[1].op \notin Ops(p) /\ s[2].kind = "DEPOSIT"
           /\ s[1].at <= s[2].at /\ s[2].version = s[1].version + 1

LEMMA UnbornLater ==
  ASSUME NEW o, NEW k \in Nat, Unborn(o, k)
  PROVE  Unborn(o, k + 1)
<1> SUFFICES ASSUME NEW n \in Nat, n >= k + 1 PROVE o # <<<<"action", n>>, "approve">>
  BY DEF Unborn
<1>1. n >= k
  OBVIOUS
<1> QED BY <1>1 DEF Unborn

LEMMA PlanHoldsLater ==
  ASSUME NEW w, NEW p, NEW pl, NEW k \in Nat, PlanHolds(w, p, pl, k)
  PROVE  PlanHolds(w, p, pl, k + 1)
BY UnbornLater DEF PlanHolds

(* A plan of one receipt.                                                     *)
BuiltOne(w, p, s) ==
  \E r : /\ s = <<r>> /\ Adapted(w, r) /\ IsPair(r.op)
         /\ w = "AAVE" => \A n \in Nat : r.op # <<<<"action", n>>, "approve">>
         /\ r.version = p.version /\ Found(p, r) /\ Allowed(w, p, r)

LEMMA BuiltOneHolds ==
  ASSUME NEW w, NEW p, Sound(p), NEW k \in Nat, Tracked(w, p),
         w = "AAVE" => \A o \in Ops(p) : Unborn(o, k),
         NEW s, ReceiptsFit(s), BuiltOne(w, p, s)
  PROVE  PlanHolds(w, p, [receipts |-> s, base |-> p.version, since |-> p.last, done |-> 0], k)
<1> DEFINE pl == [receipts |-> s, base |-> p.version, since |-> p.last, done |-> 0]
<1>1. PICK r : /\ s = <<r>> /\ Adapted(w, r) /\ IsPair(r.op)
               /\ w = "AAVE" => \A n \in Nat : r.op # <<<<"action", n>>, "approve">>
               /\ r.version = p.version /\ Found(p, r) /\ Allowed(w, p, r)
  BY DEF BuiltOne
<1>2. p.version \in Nat /\ p.last \in Nat
  BY SoundFacts
<1>3. s # << >> /\ Len(s) = 1 /\ Head(s) = r /\ \A i \in DOMAIN s : s[i] = r
  BY <1>1
<1>4. /\ pl.receipts = s /\ pl.base = p.version /\ pl.since = p.last /\ pl.done = 0
      /\ pl.base + pl.done = p.version
  BY <1>2
<1> HIDE DEF pl
<1>5. Current(w, p, pl)
  <2>1. p.last <= r.at \/ r.at < pl.since
    <3>1. r.at \in Nat
      <4>1. 1 \in DOMAIN s /\ s[1] = r
        BY <1>1
      <4> QED BY <4>1, FieldTypes DEF ReceiptsFit
    <3> QED BY <1>2, <1>4, <3>1
  <2> QED BY <1>1, <1>3, <1>4, <2>1 DEF Current
<1>6. Paired(s)
  BY <1>1, <1>3 DEF Paired
<1>7. ~(Len(s) = 2) /\ Len(s) <= 2
  BY <1>3
<1>8. PlanHolds(w, p, pl, k)
  BY <1>1, <1>2, <1>3, <1>4, <1>5, <1>6, <1>7 DEF PlanHolds, Unborn
<1> QED BY <1>8 DEF pl

(* What the adapters build.                                                   *)
LEMMA PlanIs ==
  ASSUME NEW faults, NEW s, Build(Answer(faults, s))
  PROVE  faults = {} /\ plan'.receipts = s
BY DEF Build, Answer

LEMMA HereIs ==
  ASSUME NEW at
  PROVE  /\ Context(at).version = portfolio.version /\ Context(at).at = at
         /\ Context(at).family = Home /\ Context(at).scenario = Scenario
BY DEF Context

LEMMA AccrualBuilt ==
  ASSUME BooksInv, AccruePosition
  PROVE  BuiltOne("AAVE", portfolio, plan'.receipts)
<1>1. PICK x \in portfolio.positions, reserve \in Reserves, before \in Reserves :
        Build(AaveAccrue(Context(clock), [position |-> x.id, opening |-> before.ray,
                                          reserve |-> Archived(reserve)]))
  BY DEF AccruePosition
<1> DEFINE in == [position |-> x.id, opening |-> before.ray, reserve |-> Archived(reserve)]
           context == Context(clock)
           b == [position |-> in.position, num |-> in.reserve.ray, den |-> in.opening]
           op == <<context.scenario, "aave-accrue">>
           r == Pinned(context, 0, op, "ACCRUE", {}, b)
<1>2. Build(AaveAccrue(context, in)) /\ in.position = x.id
  BY <1>1
<1>3. context.version = portfolio.version /\ portfolio.version \in Nat /\ context.scenario = Scenario
  BY HereIs, SoundFacts DEF BooksInv, BooksFit, Capitalized
<1> HIDE DEF in, context
<1>4. PICK faults : AaveAccrue(context, in) = Answer(faults, <<r>>)
  BY DEF AaveAccrue
<1>5. DOMAIN b = Fields["ACCRUE"] /\ "ACCRUE" \in DOMAIN Fields /\ "position" \in Fields["ACCRUE"]
      /\ b.position = in.position
  BY DEF Fields
<1> HIDE DEF b
<1>6. r.op = op /\ r.version = context.version + 0 /\ r.kind = "ACCRUE" /\ r.costs = {}
      /\ \A f \in Fields["ACCRUE"] : r[f] = b[f]
  BY <1>5, PinnedIs
<1>7. IsReceipt(r)
  <2>1. BooksFit' /\ plan'.receipts = <<r>>
    BY <1>2, <1>4, AccrualFits, PlanIs
  <2> HIDE DEF r
  <2>2. ReceiptsFit(<<r>>)
    BY <2>1 DEF BooksFit, PlanFits
  <2> QED BY <2>2 DEF ReceiptsFit
<1> HIDE DEF r
<1>8. plan'.receipts = <<r>>
  BY <1>2, <1>4, PlanIs
<1>9. Adapted("AAVE", r)
  BY <1>6, <1>7, AccrualAdapted
<1>10. r.version = portfolio.version /\ IsPair(r.op) /\ r.position = x.id
  BY <1>2, <1>3, <1>5, <1>6 DEF IsPair
<1>11. Found(portfolio, r) /\ Allowed("AAVE", portfolio, r)
  BY <1>6, <1>10 DEF Found, Allowed, With, TransferMove
<1>12. \A n \in Nat : r.op # <<<<"action", n>>, "approve">>
  BY <1>6
<1> QED BY <1>8, <1>9, <1>10, <1>11, <1>12 DEF BuiltOne

LEMMA WithdrawalBuilt ==
  ASSUME BooksInv, Tracked("AAVE", portfolio), WithdrawPosition
  PROVE  BuiltOne("AAVE", portfolio, plan'.receipts)
<1>1. PICK x \in portfolio.positions, reserve \in Reserves :
        Build(AaveWithdraw(Context(clock),
             [position |-> x.id, shares |-> x.shares, book |-> x.book,
              reserve |-> Archived(reserve), gas |-> Archived(Gauge(x.book)),
              conversion |-> Archived(Conversion)]))
  BY DEF WithdrawPosition
<1> DEFINE in == [position |-> x.id, shares |-> x.shares, book |-> x.book,
                  reserve |-> Archived(reserve), gas |-> Archived(Gauge(x.book)),
                  conversion |-> Archived(Conversion)]
           context == Context(clock)
           b == [family |-> context.family, position |-> in.position,
                 shares |-> in.shares, amount |-> in.book]
           op == <<context.scenario, "aave-withdraw">>
           id == <<context.scenario, "aave-withdraw-gas">>
           costs == {GasCost(id, in.gas, in.conversion, context)}
           r == Pinned(context, 0, op, "WITHDRAW", costs, b)
<1>2. Build(AaveWithdraw(context, in)) /\ in.position = x.id /\ in.shares = x.shares
      /\ in.book = x.book
  BY <1>1
<1>3. context.version = portfolio.version /\ portfolio.version \in Nat
      /\ context.scenario = Scenario /\ context.family = Home
  BY HereIs, SoundFacts DEF BooksInv, BooksFit, Capitalized
<1> HIDE DEF in, context
<1>4. PICK faults : AaveWithdraw(context, in) = Answer(faults, <<r>>)
  BY DEF AaveWithdraw
<1>5. /\ DOMAIN b = Fields["WITHDRAW"] /\ "WITHDRAW" \in DOMAIN Fields
      /\ {"family", "position", "shares", "amount"} \subseteq Fields["WITHDRAW"]
      /\ b.family = context.family /\ b.position = in.position
      /\ b.shares = in.shares /\ b.amount = in.book
  BY DEF Fields
<1>6. Distinct(costs) /\ Amounts(Funded(costs, "WITHHELD")) = 0
      /\ \A c \in costs : c.id = id /\ c.funding = "PAYABLE"
  BY GasAlone
<1> HIDE DEF b, costs
<1>7. r.op = op /\ r.version = context.version + 0 /\ r.kind = "WITHDRAW" /\ r.costs = costs
      /\ \A f \in Fields["WITHDRAW"] : r[f] = b[f]
  BY <1>5, PinnedIs
<1> HIDE DEF r
<1>8. plan'.receipts = <<r>>
  BY <1>2, <1>4, PlanIs
<1>9. Adapted("AAVE", r)
  <2>1. op = Bearer("AAVE", id)
    BY DEF Bearer, OpName
  <2> QED BY <1>6, <1>7, <2>1 DEF Adapted
<1>10. r.version = portfolio.version /\ IsPair(r.op)
  BY <1>3, <1>7 DEF IsPair
<1>11. Found(portfolio, r)
  <2>1. x.book \in Nat
    BY PositionIs
  <2>2. x.family = Home
    BY DEF Tracked
  <2>3. WithheldOf(r) = 0
    BY <1>6, <1>7 DEF WithheldOf
  <2>4. r.position = x.id /\ r.family = x.family /\ r.shares = x.shares /\ r.amount = x.book
    BY <1>2, <1>3, <1>5, <1>7, <2>2
  <2>5. r.amount <= x.book /\ x.book - r.amount = WithheldOf(r)
    BY <2>1, <2>3, <2>4
  <2> QED BY <1>7, <2>4, <2>5 DEF Found, TransferMove
<1>12. \A n \in Nat : r.op # <<<<"action", n>>, "approve">>
  BY <1>7
<1>13. Allowed("AAVE", portfolio, r)
  BY DEF Allowed
<1> QED BY <1>8, <1>9, <1>10, <1>11, <1>12, <1>13 DEF BuiltOne

(* The archived quote of a vault stays below what it may mint.                *)
QuoteBound(q) == q # None => q.maxMint = UintLimit - 1

LEMMA VaultEntryBuilt ==
  ASSUME BooksInv, QuoteBound(quote), EnterVault
  PROVE  BuiltOne("VAULT", portfolio, plan'.receipts)
<1>1. PICK amount \in Stakes :
        Build(VaultDeposit(Context(clock),
             [amount |-> amount, position |-> VaultPosition, vault |-> quote,
              gas |-> Archived(Gauge(amount)), conversion |-> Archived(Conversion)]))
  BY DEF EnterVault
<1> DEFINE in == [amount |-> amount, position |-> VaultPosition, vault |-> quote,
                  gas |-> Archived(Gauge(amount)), conversion |-> Archived(Conversion)]
           context == Context(clock)
           fee == Ceil(in.amount, in.vault.depositFee, Bps)
           b == [family |-> context.family, position |-> in.position,
                 shares |-> in.vault.shares, num |-> in.amount - fee,
                 den |-> in.vault.shares, amount |-> in.amount]
           op == <<context.scenario, "vault-deposit">>
           id == <<context.scenario, "vault-deposit-gas">>
           other == <<context.scenario, "vault-entry-fee">>
           costs == {GasCost(id, in.gas, in.conversion, context)} \cup Withheld(other, context, fee)
           r == Pinned(context, 0, op, "DEPOSIT", costs, b)
<1>2. Build(VaultDeposit(context, in)) /\ in.vault.maxMint = UintLimit - 1
      /\ in.amount \in Nat /\ in.vault.shares \in Nat /\ in.vault.depositFee \in Nat
  BY <1>1, ScenarioAssumption DEF EnterVault, BooksInv, BooksFit, QuoteFits, QuoteBound
<1>3. context.version = portfolio.version /\ portfolio.version \in Nat
      /\ context.scenario = Scenario /\ context.family = Home
  BY HereIs, SoundFacts DEF BooksInv, BooksFit, Capitalized
<1> HIDE DEF in, context
<1>4. fee \in Nat
  BY <1>2, CeilIsNat, AdapterAssumption DEF CeilType
<1> HIDE DEF fee
<1>5. PICK faults : /\ VaultDeposit(context, in) = Answer(faults, <<r>>)
                    /\ faults = {} => /\ ~(in.vault.shares = 0) /\ ~(fee >= in.amount)
                                      /\ ~(in.vault.shares > in.vault.maxMint)
  <2> DEFINE all == Stale({in.vault, in.gas, in.conversion}, context)
                 \cup RoundExpired(in.conversion, context)
                 \cup Fault(in.vault.amount # in.amount \/ in.gas.amount # in.amount,
                            "DATA_UNAVAILABLE")
                 \cup Fault(in.amount > in.vault.maxDeposit \/ in.vault.shares > in.vault.maxMint,
                            "LIMIT_EXCEEDED")
                 \cup Fault(in.vault.shares = 0, "LIMIT_EXCEEDED")
                 \cup Fault(fee >= in.amount, "ZERO_INDEX")
                 \cup NoGas(in.gas, in.conversion)
  <2>1. VaultDeposit(context, in) = Answer(all, <<r>>)
    BY DEF VaultDeposit, fee
  <2>2. all = {} => /\ Fault(in.vault.shares = 0, "LIMIT_EXCEEDED") = {}
                    /\ Fault(fee >= in.amount, "ZERO_INDEX") = {}
                    /\ Fault(in.amount > in.vault.maxDeposit \/ in.vault.shares > in.vault.maxMint,
                             "LIMIT_EXCEEDED") = {}
    BY Zenon
  <2> HIDE DEF all, r
  <2> QED BY <2>1, <2>2, NoFault
<1> DEFINE shares1 == in.vault.shares
           left == in.amount - fee
<1>6. /\ DOMAIN b = Fields["DEPOSIT"] /\ "DEPOSIT" \in DOMAIN Fields
      /\ {"family", "position", "shares", "num", "den", "amount"} \subseteq Fields["DEPOSIT"]
      /\ b.family = context.family /\ b.position = in.position /\ b.shares = shares1
      /\ b.num = left /\ b.den = shares1 /\ b.amount = in.amount
  BY DEF Fields
<1>7. Distinct(costs) /\ Amounts(Funded(costs, "WITHHELD")) = fee
      /\ \A c \in costs : c.id \in {id, other} /\ c.funding # "AVAILABLE_CASH"
  <2>1. other # id
    OBVIOUS
  <2> DEFINE gas == in.gas
             conversion == in.conversion
  <2> HIDE DEF id, other, gas, conversion
  <2>2. LET C == {GasCost(id, gas, conversion, context)} \cup Withheld(other, context, fee)
        IN  /\ Distinct(C) /\ Amounts(Funded(C, "WITHHELD")) = fee
            /\ \A c \in C : c.id \in {id, other} /\ c.funding # "AVAILABLE_CASH"
    BY <1>4, <2>1, GasBoth
  <2> QED BY <2>2 DEF gas, conversion
<1> HIDE DEF b, costs
<1>8. r.op = op /\ r.version = context.version + 0 /\ r.kind = "DEPOSIT" /\ r.costs = costs
      /\ \A f \in Fields["DEPOSIT"] : r[f] = b[f]
  BY <1>6, PinnedIs
<1> HIDE DEF r
<1>9. faults = {} /\ plan'.receipts = <<r>>
  BY <1>2, <1>5, PlanIs
<1>10. shares1 \in Nat \ {0} /\ left \in Nat /\ fee <= in.amount /\ in.amount - fee = left
       /\ Fits(shares1)
  <2>1. UintLimit \in Nat
    BY ReducerAssumption
  <2> QED BY <1>2, <1>4, <1>5, <1>9, <2>1 DEF Fits
<1>11. Floor(shares1, left, shares1) = left
  <2> HIDE DEF shares1, left
  <2> QED BY <1>10, Exactly
<1> HIDE DEF shares1, left
<1>12. /\ r.family = Home /\ r.shares = shares1 /\ r.num = left /\ r.den = shares1
       /\ r.amount = in.amount /\ WithheldOf(r) = fee
  BY <1>3, <1>6, <1>7, <1>8 DEF WithheldOf
<1>13. Adapted("VAULT", r)
  <2>1. op = Bearer("VAULT", id) /\ op = Bearer("VAULT", other)
    BY DEF Bearer, OpName
  <2>2. op = Opener("VAULT", r.position)
    BY <1>3 DEF Opener
  <2>3. /\ Floor(r.shares, r.num, r.den) = r.amount - WithheldOf(r) /\ WithheldOf(r) <= r.amount
        /\ Fits(r.shares)
    BY <1>10, <1>11, <1>12
  <2>4. \A c \in r.costs : r.op = Bearer("VAULT", c.id) /\ c.funding # "AVAILABLE_CASH"
    BY <1>7, <1>8, <2>1
  <2> QED BY <1>7, <1>8, <1>12, <2>2, <2>3, <2>4 DEF Adapted
<1>14. r.version = portfolio.version /\ IsPair(r.op)
  BY <1>3, <1>8 DEF IsPair
<1>15. Found(portfolio, r) /\ Allowed("VAULT", portfolio, r)
  BY <1>8 DEF Found, Allowed, TransferMove
<1> QED BY <1>9, <1>13, <1>14, <1>15 DEF BuiltOne

LEMMA VaultExitBuilt ==
  ASSUME BooksInv, Tracked("VAULT", portfolio), ExitVault
  PROVE  BuiltOne("VAULT", portfolio, plan'.receipts)
<1>1. PICK x \in Position :
        Build(VaultRedeem(Context(clock),
             [position |-> x.id, shares |-> x.shares, book |-> x.book, vault |-> quote,
              gas |-> Archived(Gauge(x.book)), conversion |-> Archived(Conversion)]))
  BY DEF ExitVault
<1> DEFINE in == [position |-> x.id, shares |-> x.shares, book |-> x.book, vault |-> quote,
                  gas |-> Archived(Gauge(x.book)), conversion |-> Archived(Conversion)]
           context == Context(clock)
           credit == in.vault.assets - RedeemFee(in.vault)
           gap == ExitGap(in, credit)
           b == [family |-> context.family, position |-> in.position,
                 shares |-> in.shares, amount |-> credit]
           op == <<context.scenario, "vault-redeem">>
           id == <<context.scenario, "vault-redeem-gas">>
           other == <<context.scenario, "vault-exit-gap">>
           costs == {GasCost(id, in.gas, in.conversion, context)} \cup Withheld(other, context, gap)
           r == Pinned(context, 0, op, "WITHDRAW", costs, b)
<1>2. /\ Build(VaultRedeem(context, in)) /\ in.position = x.id /\ in.shares = x.shares
      /\ in.book = x.book /\ in.vault.assets \in Nat /\ in.vault.redeemFee \in Nat
  BY <1>1 DEF ExitVault, BooksInv, BooksFit, QuoteFits
<1>3. /\ context.version = portfolio.version /\ portfolio.version \in Nat
      /\ context.scenario = Scenario /\ context.family = Home
      /\ x \in portfolio.positions /\ x.book \in Nat /\ x.family = Home
  BY HereIs, SoundFacts, PositionIs DEF BooksInv, BooksFit, Capitalized, Position, Tracked
<1> HIDE DEF in, context
<1>4. credit \in Int
  <2>1. RedeemFee(in.vault) \in Nat
    BY <1>2, CeilIsNat, AdapterAssumption DEF CeilType, RedeemFee
  <2> QED BY <1>2, <2>1
<1>5. gap = in.book - credit
  BY DEF ExitGap
<1> HIDE DEF credit, gap
<1>6. PICK faults : /\ VaultRedeem(context, in) = Answer(faults, <<r>>)
                    /\ faults = {} => ~(credit < 0 \/ credit > in.book)
  <2> DEFINE all == Stale({in.vault, in.gas, in.conversion}, context)
                 \cup RoundExpired(in.conversion, context)
                 \cup Fault(in.gas.amount # in.book, "DATA_UNAVAILABLE")
                 \cup Fault(in.shares > in.vault.maxRedeem \/ in.vault.assets > in.vault.maxWithdraw,
                            "LIMIT_EXCEEDED")
                 \cup Fault(in.vault.assets > in.vault.exit, "LIQUIDITY_UNAVAILABLE")
                 \cup Fault(credit < 0 \/ credit > in.book, "CREATES")
                 \cup NoGas(in.gas, in.conversion)
  <2>1. VaultRedeem(context, in) = Answer(all, <<r>>)
    BY DEF VaultRedeem, credit, gap
  <2>2. all = {} => Fault(credit < 0 \/ credit > in.book, "CREATES") = {}
    BY Zenon
  <2> HIDE DEF all, r
  <2> QED BY <2>1, <2>2, NoFault
<1>7. /\ DOMAIN b = Fields["WITHDRAW"] /\ "WITHDRAW" \in DOMAIN Fields
      /\ {"family", "position", "shares", "amount"} \subseteq Fields["WITHDRAW"]
      /\ b.family = context.family /\ b.position = in.position
      /\ b.shares = in.shares /\ b.amount = credit
  BY DEF Fields
<1> HIDE DEF b, r
<1>8. faults = {} /\ plan'.receipts = <<r>>
  BY <1>2, <1>6, PlanIs
<1>9. credit \in Nat /\ gap \in Nat /\ credit <= x.book /\ x.book - credit = gap
  BY <1>2, <1>3, <1>4, <1>5, <1>6, <1>8
<1>10. Distinct(costs) /\ Amounts(Funded(costs, "WITHHELD")) = gap
      /\ \A c \in costs : c.id \in {id, other} /\ c.funding # "AVAILABLE_CASH"
  <2>1. other # id
    OBVIOUS
  <2> DEFINE gas == in.gas
             conversion == in.conversion
  <2> HIDE DEF id, other, gas, conversion
  <2>2. LET C == {GasCost(id, gas, conversion, context)} \cup Withheld(other, context, gap)
        IN  /\ Distinct(C) /\ Amounts(Funded(C, "WITHHELD")) = gap
            /\ \A c \in C : c.id \in {id, other} /\ c.funding # "AVAILABLE_CASH"
    BY <1>9, <2>1, GasBoth
  <2> QED BY <2>2 DEF gas, conversion
<1> HIDE DEF costs
<1>11. r.op = op /\ r.version = context.version + 0 /\ r.kind = "WITHDRAW" /\ r.costs = costs
      /\ \A f \in Fields["WITHDRAW"] : r[f] = b[f]
  BY <1>7, PinnedIs DEF r
<1>12. Adapted("VAULT", r)
  <2>1. op = Bearer("VAULT", id) /\ op = Bearer("VAULT", other)
    BY DEF Bearer, OpName
  <2>2. \A c \in r.costs : r.op = Bearer("VAULT", c.id) /\ c.funding # "AVAILABLE_CASH"
    BY <1>10, <1>11, <2>1
  <2> QED BY <1>10, <1>11, <2>2 DEF Adapted
<1>13. r.version = portfolio.version /\ IsPair(r.op)
  BY <1>3, <1>11 DEF IsPair
<1>14. Found(portfolio, r) /\ Allowed("VAULT", portfolio, r)
  <2>1. WithheldOf(r) = gap
    BY <1>10, <1>11 DEF WithheldOf
  <2>2. r.position = x.id /\ r.family = x.family /\ r.shares = x.shares /\ r.amount = credit
    BY <1>2, <1>3, <1>7, <1>11
  <2>3. r.amount <= x.book /\ x.book - r.amount = WithheldOf(r)
    BY <1>9, <2>1, <2>2
  <2> QED BY <1>3, <1>11, <2>2, <2>3 DEF Found, Allowed, TransferMove
<1> QED BY <1>8, <1>12, <1>13, <1>14 DEF BuiltOne

LEMMA NothingWithheld ==
  ASSUME NEW r, r.costs = {}
  PROVE  WithheldOf(r) = 0
<1>1. Priced({}) /\ Amounts({}) = 0
  BY FS_EmptySet, AmountsType DEF Priced
<1>2. Funded({}, "WITHHELD") = {}
  BY DEF Funded
<1> QED BY <1>1, <1>2 DEF WithheldOf

LEMMA SwapApprovalBuilt ==
  ASSUME BooksInv, ApproveSwap
  PROVE  BuiltOne("SWAP", portfolio, plan'.receipts)
<1> DEFINE known == With(portfolio.allowances, Router)
           current == IF known = {} THEN 0 ELSE The(known, Router).amount
<1>1. PICK amount \in Units :
        Build(Erc20Approval(Context(clock),
                 [op |-> <<"swap", steps>>, allowance |-> Router, amount |-> amount,
                  current |-> current,
                  gas |-> Archived(Gauge(amount)), conversion |-> Archived(Conversion)]))
  BY DEF ApproveSwap
<1> HIDE DEF current
<1> DEFINE in == [op |-> <<"swap", steps>>, allowance |-> Router, amount |-> amount,
                  current |-> current,
                  gas |-> Archived(Gauge(amount)), conversion |-> Archived(Conversion)]
           context == Context(clock)
           op == <<in.op, "approval">>
           id == <<in.op, "approval-gas">>
           nothing == Pinned(context, 0, op, "NO_EFFECT", {}, << >>)
           cost == GasCost(id, in.gas, in.conversion, context)
           b == [id |-> in.allowance, amount |-> in.amount]
           approve == Pinned(context, 0, op, "APPROVE", {cost}, b)
<1>2. Build(Erc20Approval(context, in)) /\ in.allowance = Router /\ in.current = current
  BY <1>1
<1>3. /\ context.version = portfolio.version /\ portfolio.version \in Nat
      /\ Distinct(portfolio.allowances)
  <2>1. Parts(portfolio, portfolio.last) /\ AssertPortfolio(portfolio)
    BY SoundFacts DEF BooksInv, BooksFit, Capitalized, Sound
  <2> QED BY <2>1, HereIs, SoundFacts DEF BooksInv, BooksFit, Capitalized, AssertPortfolio
<1> HIDE DEF in, context
<1>4. \E faults, r : /\ Erc20Approval(context, in) = Answer(faults, <<r>>)
                     /\ \/ r = nothing
                        \/ r = approve /\ ~(in.current >= in.amount)
  <2> DEFINE some == Stale({in.gas, in.conversion}, context)
                 \cup RoundExpired(in.conversion, context)
                 \cup Fault(in.gas.amount # in.amount, "DATA_UNAVAILABLE")
                 \cup (IF in.current >= in.amount THEN {} ELSE NoGas(in.gas, in.conversion))
  <2>1. Erc20Approval(context, in)
          = Answer(some, IF in.current >= in.amount THEN <<nothing>> ELSE <<approve>>)
    BY DEF Erc20Approval, ApproveReceipt
  <2> HIDE DEF some, nothing, approve
  <2> QED BY <2>1
<1>5. PICK r : /\ plan'.receipts = <<r>>
               /\ \/ r = nothing
                  \/ r = approve /\ ~(in.current >= in.amount)
  <2> HIDE DEF nothing, approve
  <2>1. PICK faults, r : /\ Erc20Approval(context, in) = Answer(faults, <<r>>)
                         /\ \/ r = nothing
                            \/ r = approve /\ ~(in.current >= in.amount)
    BY <1>4
  <2> QED BY <1>2, <2>1, PlanIs
<1>6. op = Bearer("SWAP", id) /\ IsPair(op)
  BY DEF Bearer, OpName, IsPair
<1>7. CASE r = nothing
  <2> DEFINE body == << >>
             costs == {}
  <2>1. DOMAIN body = Fields["NO_EFFECT"] /\ "NO_EFFECT" \in DOMAIN Fields
        /\ nothing = Pinned(context, 0, op, "NO_EFFECT", costs, body)
    BY DEF Fields
  <2> HIDE DEF op, id, body, nothing, costs
  <2>2. nothing.op = op /\ nothing.version = context.version + 0 /\ nothing.kind = "NO_EFFECT"
        /\ nothing.costs = costs
    BY <2>1, PinnedIs
  <2>3. r.op = op /\ r.version = portfolio.version /\ r.kind = "NO_EFFECT" /\ r.costs = {}
    BY <1>3, <1>7, <2>2 DEF costs
  <2>4. WithheldOf(r) = 0
    BY <2>3, NothingWithheld
  <2>5. Adapted("SWAP", r)
    BY <2>3, <2>4 DEF Adapted, Distinct
  <2>6. Found(portfolio, r) /\ Allowed("SWAP", portfolio, r)
    BY <2>3 DEF Found, Allowed, TransferMove
  <2> QED BY <1>5, <1>6, <2>3, <2>5, <2>6 DEF BuiltOne
<1>8. CASE r = approve /\ ~(in.current >= in.amount)
  <2>1. /\ DOMAIN b = Fields["APPROVE"] /\ "APPROVE" \in DOMAIN Fields
        /\ {"id", "amount"} \subseteq Fields["APPROVE"]
        /\ b.id = in.allowance /\ b.amount = in.amount
    BY DEF Fields
  <2> DEFINE costs == {cost}
  <2>2. Distinct(costs) /\ Amounts(Funded(costs, "WITHHELD")) = 0
        /\ \A c \in costs : c.id = id /\ c.funding = "PAYABLE"
    BY GasAlone
  <2> HIDE DEF b, cost, costs, op, id
  <2>3. approve = Pinned(context, 0, op, "APPROVE", costs, b)
    BY DEF costs
  <2> HIDE DEF approve
  <2>4. approve.op = op /\ approve.version = context.version + 0 /\ approve.kind = "APPROVE"
        /\ approve.costs = costs /\ \A f \in Fields["APPROVE"] : approve[f] = b[f]
    BY <2>1, <2>3, PinnedIs
  <2>5. /\ r.op = op /\ r.version = portfolio.version /\ r.kind = "APPROVE" /\ r.costs = costs
        /\ r.id = Router /\ r.amount = in.amount
    BY <1>2, <1>3, <1>8, <2>1, <2>4
  <2>6. Adapted("SWAP", r)
    BY <1>6, <2>2, <2>5 DEF Adapted, WithheldOf
  <2>7. \A a \in With(portfolio.allowances, r.id) : ~ (a.amount >= r.amount)
    <3> SUFFICES ASSUME NEW a \in known PROVE a.amount = in.current
      BY <1>8, <2>5
    <3>1. known # {} /\ a.id = Router /\ a \in portfolio.allowances
      BY DEF With
    <3>2. The(known, Router) \in known /\ The(known, Router).id = Router
      BY <3>1, TheOne DEF The, With
    <3>3. The(known, Router) = a
      BY <1>3, <3>1, <3>2 DEF Distinct, With
    <3> HIDE DEF known
    <3> QED BY <1>2, <3>1, <3>3 DEF current
  <2>8. Found(portfolio, r) /\ Allowed("SWAP", portfolio, r)
    BY <2>5, <2>7 DEF Found, Allowed, TransferMove
  <2> QED BY <1>5, <1>6, <2>5, <2>6, <2>8 DEF BuiltOne
<1> QED BY <1>5, <1>7, <1>8

(* The quote of a swap that is answered exists and gives no more than it takes. *)
LEMMA SelectedIs ==
  ASSUME NEW context, NEW in, QuotesFit(in.quotes), SelectFaults(context, in) = {}
  PROVE  Selected(in).out \in Nat /\ ~(Selected(in).out > in.amount)
<1>1. /\ Candidates(in) # {}
      /\ Fault(Selected(in).out > in.amount, "CREATES") = {}
  <2> DEFINE first == Stale(in.quotes \cup {in.gas, in.conversion}, context)
                \cup RoundExpired(in.conversion, context)
                \cup Fault(in.gas.amount # in.amount, "DATA_UNAVAILABLE")
                \cup NoGas(in.gas, in.conversion)
             last == IF Candidates(in) = {} THEN {"QUOTE_UNAVAILABLE"}
                     ELSE Fault(Selected(in).out < in.minimum, "SLIPPAGE_EXCEEDED")
                            \cup Fault(Selected(in).out > in.amount, "CREATES")
  <2>1. SelectFaults(context, in) = first \cup last
    BY DEF SelectFaults
  <2> HIDE DEF first
  <2> QED BY <2>1
<1>2. QuotesFit(Candidates(in))
  <2>1. Candidates(in) \subseteq in.quotes /\ IsFiniteSet(in.quotes)
    BY DEF Candidates, QuotesFit
  <2>2. IsFiniteSet(Candidates(in))
    BY <2>1, FS_Subset
  <2> QED BY <2>1, <2>2 DEF QuotesFit
<1>3. \E q \in Candidates(in) : \A o \in Candidates(in) : o.out <= q.out
  BY <1>1, <1>2, BestQuote
<1>4. Selected(in) \in Candidates(in)
  BY <1>3 DEF Selected
<1> QED BY <1>1, <1>2, <1>4, NoFault DEF QuotesFit

LEMMA SwapBuilt ==
  ASSUME BooksInv, SwapCash
  PROVE  BuiltOne("SWAP", portfolio, plan'.receipts)
<1> DEFINE quotes == {Archived(q) : q \in Quotes}
<1>1. QuotesFit(quotes)
  BY QuotesAre
<1> HIDE DEF quotes
<1>2. PICK amount \in Units, pair \in {<<Home, Twin>>, <<Twin, Home>>}, minimum \in Units :
         Build(UniswapSwap(Context(clock),
             [amount |-> amount, pair |-> pair, minimum |-> minimum,
              quotes |-> quotes,
              gas |-> Archived(Gauge(amount)), conversion |-> Archived(Conversion)]))
  BY DEF SwapCash, quotes
<1> DEFINE in == [amount |-> amount, pair |-> pair, minimum |-> minimum,
                  quotes |-> quotes,
                  gas |-> Archived(Gauge(amount)), conversion |-> Archived(Conversion)]
           context == Context(clock)
           out == Selected(in).out
           gap == in.amount - out
           b == [family |-> in.pair[1], into |-> in.pair[2], amount |-> in.amount,
                 credit |-> out]
           op == <<context.scenario, "uniswap-swap">>
           id == <<context.scenario, "swap-gas">>
           other == <<context.scenario, "swap-fee-impact">>
           costs == {GasCost(id, in.gas, in.conversion, context)} \cup Withheld(other, context, gap)
           r == Pinned(context, 0, op, "SWAP", costs, b)
           faults == SelectFaults(context, in)
<1>3. /\ Build(UniswapSwap(context, in)) /\ in.amount \in Nat /\ QuotesFit(in.quotes)
      /\ in.pair[1] # in.pair[2] /\ NetworkOf[in.pair[1]] = NetworkOf[in.pair[2]]
  BY <1>1, <1>2, ScenarioAssumption
<1>4. context.version = portfolio.version /\ portfolio.version \in Nat
  BY HereIs, SoundFacts DEF BooksInv, BooksFit, Capitalized
<1> HIDE DEF in, context
<1>5. UniswapSwap(context, in) = Answer(faults, <<r>>)
  BY DEF UniswapSwap
<1>6. /\ DOMAIN b = Fields["SWAP"] /\ "SWAP" \in DOMAIN Fields
      /\ {"family", "into", "amount", "credit"} \subseteq Fields["SWAP"]
      /\ b.family = in.pair[1] /\ b.into = in.pair[2] /\ b.amount = in.amount /\ b.credit = out
  BY DEF Fields
<1> HIDE DEF r, b
<1>7. faults = {} /\ plan'.receipts = <<r>>
  <2> HIDE DEF faults
  <2> QED BY <1>3, <1>5, PlanIs
<1>8. out \in Nat /\ ~(out > in.amount)
  BY <1>3, <1>7, SelectedIs
<1> HIDE DEF out, faults
<1>9. gap \in Nat /\ out <= in.amount
  BY <1>3, <1>8
<1> HIDE DEF gap
<1>10. Distinct(costs) /\ Amounts(Funded(costs, "WITHHELD")) = gap
      /\ \A c \in costs : c.id \in {id, other} /\ c.funding # "AVAILABLE_CASH"
  <2>1. other # id
    OBVIOUS
  <2> DEFINE gas == in.gas
             conversion == in.conversion
  <2> HIDE DEF id, other, gas, conversion
  <2>2. LET C == {GasCost(id, gas, conversion, context)} \cup Withheld(other, context, gap)
        IN  /\ Distinct(C) /\ Amounts(Funded(C, "WITHHELD")) = gap
            /\ \A c \in C : c.id \in {id, other} /\ c.funding # "AVAILABLE_CASH"
    BY <1>9, <2>1, GasBoth
  <2> QED BY <2>2 DEF gas, conversion
<1> HIDE DEF costs
<1>11. r.op = op /\ r.version = context.version + 0 /\ r.kind = "SWAP" /\ r.costs = costs
      /\ \A f \in Fields["SWAP"] : r[f] = b[f]
  BY <1>6, PinnedIs DEF r
<1>12. Adapted("SWAP", r)
  <2>1. op = Bearer("SWAP", id) /\ op = Bearer("SWAP", other)
    BY DEF Bearer, OpName
  <2>2. \A c \in r.costs : r.op = Bearer("SWAP", c.id) /\ c.funding # "AVAILABLE_CASH"
    BY <1>10, <1>11, <2>1
  <2>3. /\ r.family # r.into /\ NetworkOf[r.family] = NetworkOf[r.into]
        /\ r.amount = in.amount /\ r.credit = out /\ WithheldOf(r) = gap
    BY <1>3, <1>6, <1>10, <1>11 DEF WithheldOf
  <2>4. r.credit <= r.amount /\ r.amount - r.credit = WithheldOf(r)
    BY <1>9, <2>3 DEF gap
  <2> QED BY <1>10, <1>11, <2>2, <2>3, <2>4 DEF Adapted
<1>13. r.version = portfolio.version /\ IsPair(r.op)
  BY <1>4, <1>11 DEF IsPair
<1>14. Found(portfolio, r) /\ Allowed("SWAP", portfolio, r)
  BY <1>11 DEF Found, Allowed, TransferMove
<1> QED BY <1>7, <1>12, <1>13, <1>14 DEF BuiltOne

LEMMA TwoOf ==
  ASSUME NEW r, NEW t
  PROVE  LET l == Append(<<r>>, t) IN DOMAIN l = 1 .. 2 /\ l[1] = r /\ l[2] = t
<1> DEFINE s == <<r>>
<1>1. s \in Seq({r}) /\ Len(s) = 1 /\ s[1] = r
  OBVIOUS
<1>2. IsSequence(s)
  BY <1>1 DEF IsSequence
<1> HIDE DEF s
<1>3. /\ DOMAIN Append(s, t) = 1 .. Len(s) + 1
      /\ Append(s, t)[Len(s) + 1] = t
      /\ \A i \in 1 .. Len(s) : Append(s, t)[i] = s[i]
  BY <1>2, AppendFacts
<1>4. 1 \in 1 .. Len(s) /\ Len(s) + 1 = 2
  BY <1>1
<1>5. DOMAIN Append(s, t) = 1 .. 2 /\ Append(s, t)[1] = r /\ Append(s, t)[2] = t
  <2> DEFINE l == Append(s, t)
  <2> HIDE DEF l
  <2> QED BY <1>1, <1>3, <1>4 DEF l
<1> QED BY <1>5 DEF s

(* A supply above the allowance: an approval, then a deposit.                 *)
IsApproval(r, o, version, at) ==
  /\ r.op = <<o, "approve">> /\ r.version = version /\ r.at = at /\ r.kind = "APPROVE" /\ r.id = o
  /\ Distinct(r.costs) /\ WithheldOf(r) = 0
  /\ \A c \in r.costs : c.id = <<o, "approval-gas">> /\ c.funding = "PAYABLE"

IsDeposit(r, o, version, at) ==
  /\ r.op = <<o, "deposit">> /\ r.version = version /\ r.at = at /\ r.kind = "DEPOSIT"
  /\ r.position = o /\ r.family = Home /\ r.shares = r.amount /\ r.num = 1 /\ r.den = 1
  /\ Distinct(r.costs) /\ WithheldOf(r) = 0
  /\ \A c \in r.costs : c.id = <<o, "supply-gas">> /\ c.funding = "PAYABLE"

LEMMA SupplyIs ==
  ASSUME NEW context, context.version \in Nat, context.family = Home,
         NEW in, in.amount \in Nat, in.current = 0, in.amount # 0, in.position = in.op,
         in.allowance = in.op, AaveSupply(context, in).faults = {}
  PROVE  LET s == AaveSupply(context, in).receipts
         IN  /\ DOMAIN s = 1 .. 2
             /\ IsApproval(s[1], in.op, context.version, context.at)
             /\ IsDeposit(s[2], in.op, context.version + 1, context.at)
<1> DEFINE op == <<in.op, "approve">>
           id == <<in.op, "approval-gas">>
           first == {GasCost(id, in.approvalGas, in.conversion, context)}
           a == [id |-> in.allowance, amount |-> in.amount]
           r == Pinned(context, 0, op, "APPROVE", first, a)
           next == <<in.op, "deposit">>
           gas == <<in.op, "supply-gas">>
           second == {GasCost(gas, in.gas, in.conversion, context)}
           b == [family |-> context.family, position |-> in.position, shares |-> in.amount,
                 num |-> 1, den |-> 1, amount |-> in.amount]
           t == Pinned(context, 1, next, "DEPOSIT", second, b)
<1>1. LET s == AaveSupply(context, in).receipts
      IN  DOMAIN s = 1 .. 2 /\ s[1] = r /\ s[2] = t
  <2>1. ~(in.current >= in.amount)
    OBVIOUS
  <2> DEFINE u(n) == Pinned(context, n, next, "DEPOSIT", second, b)
             s == <<r>>
  <2>2. PICK given : AaveSupply(context, in) = Answer(given, Append(s, u(DepositStep(s))))
    <3> HIDE DEF first, second, b
    <3> QED BY <2>1 DEF AaveSupply, ApproveReceipt, first, second, b
  <2>3. DepositStep(s) = 1
    <3> HIDE DEF r
    <3> QED BY DEF DepositStep
  <2>4. AaveSupply(context, in).receipts = Append(s, u(1))
    <3> HIDE DEF s, u
    <3>1. u(DepositStep(s)) = u(1)
      BY <2>3
    <3> QED BY <2>2, <3>1 DEF Answer
  <2>5. u(1) = t
    OBVIOUS
  <2> HIDE DEF u
  <2>6. AaveSupply(context, in).receipts = Append(s, t)
    <3> HIDE DEF s, t
    <3> QED BY <2>4, <2>5
  <2> HIDE DEF r, t
  <2>7. LET l == Append(<<r>>, t) IN DOMAIN l = 1 .. 2 /\ l[1] = r /\ l[2] = t
    BY TwoOf
  <2> QED BY <2>6, <2>7 DEF s
<1>2. /\ DOMAIN a = Fields["APPROVE"] /\ "APPROVE" \in DOMAIN Fields
      /\ "id" \in Fields["APPROVE"] /\ a.id = in.op
  BY DEF Fields
<1>3. /\ DOMAIN b = Fields["DEPOSIT"] /\ "DEPOSIT" \in DOMAIN Fields
      /\ {"family", "position", "shares", "num", "den", "amount"} \subseteq Fields["DEPOSIT"]
      /\ b.family = Home /\ b.position = in.op /\ b.shares = in.amount
      /\ b.num = 1 /\ b.den = 1 /\ b.amount = in.amount
  BY DEF Fields
<1>4. Distinct(first) /\ Amounts(Funded(first, "WITHHELD")) = 0
      /\ \A c \in first : c.id = id /\ c.funding = "PAYABLE"
  BY GasAlone
<1>5. Distinct(second) /\ Amounts(Funded(second, "WITHHELD")) = 0
      /\ \A c \in second : c.id = gas /\ c.funding = "PAYABLE"
  BY GasAlone
<1> HIDE DEF a, b, first, second
<1>6. r.op = op /\ r.version = context.version + 0 /\ r.at = context.at /\ r.kind = "APPROVE"
      /\ r.costs = first /\ \A f \in Fields["APPROVE"] : r[f] = a[f]
  <2> HIDE DEF op, id
  <2> QED BY <1>2, PinnedIs
<1>7. t.op = next /\ t.version = context.version + 1 /\ t.at = context.at /\ t.kind = "DEPOSIT"
      /\ t.costs = second /\ \A f \in Fields["DEPOSIT"] : t[f] = b[f]
  <2> HIDE DEF next, gas
  <2> QED BY <1>3, PinnedIs
<1> HIDE DEF r, t
<1>8. IsApproval(r, in.op, context.version, context.at)
  BY <1>2, <1>4, <1>6 DEF IsApproval, WithheldOf
<1>9. IsDeposit(t, in.op, context.version + 1, context.at)
  BY <1>3, <1>5, <1>7 DEF IsDeposit, WithheldOf
<1> QED BY <1>1, <1>8, <1>9

(* The plan of a supply: its steps are dated one after the other.             *)
BuiltTwo(p, s, k) ==
  /\ DOMAIN s = 1 .. 2
  /\ \E at : IsApproval(s[1], <<"action", k>>, p.version, at)
  /\ \E at : IsDeposit(s[2], <<"action", k>>, p.version + 1, at)
  /\ s[1].at <= s[2].at

(* A receipt dated anew is the same otherwise.                                *)
LEMMA DatedAnew ==
  ASSUME NEW r, IsReceipt(r), NEW at
  PROVE  LET t == [r EXCEPT !.at = at]
         IN  t.at = at /\ \A f \in DOMAIN r : f # "at" => t[f] = r[f]
<1>1. "at" \in DOMAIN r
  BY DEF IsReceipt
<1> QED BY <1>1

LEMMA ApprovalDated ==
  ASSUME NEW r, IsReceipt(r), NEW o, NEW version, NEW at, IsApproval(r, o, version, at), NEW now
  PROVE  IsApproval([r EXCEPT !.at = now], o, version, now)
<1> DEFINE t == [r EXCEPT !.at = now]
<1>1. t.at = now /\ \A f \in DOMAIN r : f # "at" => t[f] = r[f]
  BY DatedAnew
<1> HIDE DEF t
<1>2. {"op", "version", "kind", "id", "costs"} \subseteq DOMAIN r
  BY DEF IsReceipt, IsApproval, Fields
<1>3. t.op = r.op /\ t.version = r.version /\ t.kind = r.kind /\ t.id = r.id /\ t.costs = r.costs
  BY <1>1, <1>2
<1>4. IsApproval(t, o, version, now)
  BY <1>1, <1>3 DEF IsApproval, WithheldOf
<1> QED BY <1>4 DEF t

LEMMA DepositDated ==
  ASSUME NEW r, IsReceipt(r), NEW o, NEW version, NEW at, IsDeposit(r, o, version, at), NEW now
  PROVE  IsDeposit([r EXCEPT !.at = now], o, version, now)
<1> DEFINE t == [r EXCEPT !.at = now]
<1>1. t.at = now /\ \A f \in DOMAIN r : f # "at" => t[f] = r[f]
  BY DatedAnew
<1> HIDE DEF t
<1>2. {"op", "version", "kind", "costs", "position", "family", "shares", "amount", "num", "den"}
        \subseteq DOMAIN r
  BY DEF IsReceipt, IsDeposit, Fields
<1>3. t.op = r.op /\ t.version = r.version /\ t.kind = r.kind /\ t.costs = r.costs
      /\ t.position = r.position /\ t.family = r.family /\ t.shares = r.shares
      /\ t.amount = r.amount /\ t.num = r.num /\ t.den = r.den
  BY <1>1, <1>2
<1>4. IsDeposit(t, o, version, now)
  BY <1>1, <1>3 DEF IsDeposit, WithheldOf
<1> QED BY <1>4 DEF t

LEMMA SupplyDated ==
  ASSUME NEW p, NEW k, NEW at \in Nat, NEW s, ReceiptsFit(s), DOMAIN s = 1 .. 2,
         IsApproval(s[1], <<"action", k>>, p.version, at),
         IsDeposit(s[2], <<"action", k>>, p.version + 1, at)
  PROVE  BuiltTwo(p, Dated(s), k)
<1> DEFINE t == Dated(s)
           now(i) == s[i].at + (i - 1) * StepOffset
<1>1. DOMAIN t = 1 .. 2 /\ \A i \in 1 .. 2 : t[i] = [s[i] EXCEPT !.at = now(i)]
  BY DEF Dated
<1> HIDE DEF t
<1>2. 1 \in 1 .. 2 /\ 2 \in 1 .. 2 /\ IsReceipt(s[1]) /\ IsReceipt(s[2])
  BY DEF ReceiptsFit
<1>3. s[1].at = at /\ s[2].at = at
  BY DEF IsApproval, IsDeposit
<1>4. now(1) = at /\ now(2) = at + StepOffset
  BY <1>3, AdapterAssumption
<1> HIDE DEF now
<1>5. t[1] = [s[1] EXCEPT !.at = at] /\ t[2] = [s[2] EXCEPT !.at = at + StepOffset]
  BY <1>1, <1>2, <1>4
<1>6. IsApproval(t[1], <<"action", k>>, p.version, at)
  BY <1>2, <1>5, ApprovalDated
<1>7. IsDeposit(t[2], <<"action", k>>, p.version + 1, at + StepOffset)
  BY <1>2, <1>5, DepositDated
<1>8. t[1].at <= t[2].at
  BY <1>6, <1>7, AdapterAssumption DEF IsApproval, IsDeposit
<1>9. BuiltTwo(p, t, k)
  BY <1>1, <1>6, <1>7, <1>8 DEF BuiltTwo
<1> QED BY <1>9 DEF t

LEMMA SupplyBuilt ==
  ASSUME BooksInv, PlanSupply
  PROVE  BuiltTwo(portfolio, plan'.receipts, steps)
<1> DEFINE input(at, until, amount, reserve) ==
             [op |-> <<"action", steps>>, position |-> <<"action", steps>>,
              allowance |-> <<"action", steps>>, amount |-> amount, current |-> 0,
              reserve |-> Observed(reserve, at, until),
              approvalGas |-> Observed(Gauge(amount), at, until),
              gas |-> Observed(Gauge(amount), at, until),
              conversion |-> Observed([Conversion EXCEPT !.updated = at], at, until)]
<1>1. PICK intent \in Intents, reserve \in Reserves, received \in 0 .. clock :
        Build(PreparedSupply(portfolio, Context(FirstStepAt(portfolio, received)), intent, Policy,
                input(FirstStepAt(portfolio, received), received + Validity,
                      PlannedAmount(portfolio, intent.weight), reserve)))
  BY DEF PlanSupply
<1> DEFINE at == FirstStepAt(portfolio, received)
           amount == PlannedAmount(portfolio, intent.weight)
           until == received + Validity
<1>2. at \in Nat
  <2>1. received \in Nat /\ portfolio.last \in Nat
    BY TimeIs, SoundFacts DEF BooksInv, BooksFit, Capitalized
  <2>2. Max({received, portfolio.last}) \in Nat
    BY <2>1, LaterOf
  <2> QED BY <2>2, AdapterAssumption DEF FirstStepAt
<1>3. amount \in Nat
  <2>1. portfolio.initial \in Nat /\ intent.weight \in Nat /\ Bps \in Nat \ {0}
    BY SoundFacts, DataAssumption, AdapterAssumption DEF BooksInv, BooksFit, Capitalized
  <2>2. portfolio.initial * intent.weight \in Nat
    BY <2>1, Product
  <2> DEFINE k == portfolio.initial * intent.weight
  <2>3. k \div Bps \in Nat
    <3>1. k \in Nat /\ Bps \in Nat /\ Bps > 0
      BY <2>1, <2>2
    <3> HIDE DEF k
    <3> QED BY <3>1, Divided
  <2> QED BY <2>3 DEF PlannedAmount, Floor
<1>4. amount = 0 => "POLICY_VIOLATION" \in PlanFaults(portfolio, intent, Policy)
  <2> DEFINE none == Fault(amount = 0, "POLICY_VIOLATION")
  <2>1. amount = 0 => "POLICY_VIOLATION" \in none
    BY DEF Fault
  <2> HIDE DEF none
  <2>2. none \subseteq PlanFaults(portfolio, intent, Policy)
    BY DEF PlanFaults, none
  <2> QED BY <2>1, <2>2
<1> HIDE DEF at, amount, until
<1> DEFINE in == input(at, until, amount, reserve)
           context == Context(at)
           answer == AaveSupply(context, in)
           faults == PlanFaults(portfolio, intent, Policy)
           more == Fault(PlannedCost(answer.receipts) > intent.maxCost, "POLICY_VIOLATION")
<1>5. /\ in.amount = amount /\ in.current = 0 /\ in.op = <<"action", steps>>
      /\ in.position = in.op /\ in.allowance = in.op
  OBVIOUS
<1>6. GaugeFits(in.gas, in.conversion) /\ GaugeFits(in.approvalGas, in.conversion)
  BY GasIsPriced
<1>7. ContextFits(context)
  BY <1>2, HereFits
<1>8. Build(PreparedSupply(portfolio, context, intent, Policy, in))
  BY <1>1 DEF at, amount, until
<1>9. context.version = portfolio.version /\ context.at = at /\ context.family = Home
      /\ portfolio.version \in Nat
  BY HereIs, SoundFacts DEF BooksInv, BooksFit, Capitalized
<1> HIDE DEF in, input, context
<1>10. PreparedSupply(portfolio, context, intent, Policy, in)
         = Answer((faults \cup answer.faults) \cup more, Dated(answer.receipts))
  BY DEF PreparedSupply, Prepared
<1> HIDE DEF faults, answer, more
<1>11. (faults \cup answer.faults) \cup more = {} /\ plan'.receipts = Dated(answer.receipts)
  BY <1>8, <1>10, PlanIs
<1>12. amount # 0 /\ answer.faults = {}
  BY <1>4, <1>11 DEF faults
<1>13. AnswerFits(answer)
  BY <1>3, <1>5, <1>6, <1>7, SupplyAnswers DEF answer
<1> DEFINE s == answer.receipts
<1>14. ReceiptsFit(s)
  BY <1>12, <1>13 DEF AnswerFits, ReceiptsFit
<1>15. /\ DOMAIN s = 1 .. 2
       /\ IsApproval(s[1], in.op, context.version, context.at)
       /\ IsDeposit(s[2], in.op, context.version + 1, context.at)
  BY <1>3, <1>5, <1>9, <1>12, SupplyIs DEF answer
<1> HIDE DEF s
<1>16. BuiltTwo(portfolio, Dated(s), steps)
  BY <1>2, <1>5, <1>9, <1>14, <1>15, SupplyDated
<1> QED BY <1>11, <1>16 DEF s

LEMMA BuiltTwoHolds ==
  ASSUME NEW p, Sound(p), NEW k \in Nat, Tracked("AAVE", p), \A o \in Ops(p) : Unborn(o, k),
         NEW s, ReceiptsFit(s), BuiltTwo(p, s, k)
  PROVE  PlanHolds("AAVE", p,
                   [receipts |-> s, base |-> p.version, since |-> p.last, done |-> 0], k + 1)
<1> DEFINE pl == [receipts |-> s, base |-> p.version, since |-> p.last, done |-> 0]
           o == <<"action", k>>
           r == s[1]
           t == s[2]
<1>1. PICK at : IsApproval(r, o, p.version, at)
  BY DEF BuiltTwo
<1>2. PICK now : IsDeposit(t, o, p.version + 1, now)
  BY DEF BuiltTwo
<1>3. p.version \in Nat /\ p.last \in Nat
  BY SoundFacts
<1>4. DOMAIN s = 1 .. 2 /\ Len(s) = 2 /\ s # << >> /\ Head(s) = r /\ r.at <= t.at
      /\ \A i \in DOMAIN s : s[i] = r \/ s[i] = t
  <2>1. DOMAIN s = 1 .. 2 /\ r.at <= t.at
    BY DEF BuiltTwo
  <2>2. Len(s) \in Nat /\ DOMAIN s = 1 .. Len(s)
    BY SequenceFacts DEF ReceiptsFit
  <2>3. Len(s) = 2
    BY <2>1, <2>2
  <2>4. Head(s) = s[1]
    OBVIOUS
  <2>5. s # << >>
    BY <2>3
  <2>6. \A i \in 1 .. 2 : i = 1 \/ i = 2
    OBVIOUS
  <2> QED BY <2>1, <2>3, <2>4, <2>5, <2>6, Zenon
<1>5. IsReceipt(r) /\ IsReceipt(t)
  BY <1>4 DEF ReceiptsFit
<1>6. r.at \in Nat /\ t.amount \in Nat
  <2>1. "amount" \in Fields[t.kind]
    BY <1>2 DEF IsDeposit, Fields
  <2> QED BY <1>5, <2>1, FieldTypes
<1>7. /\ pl.receipts = s /\ pl.base = p.version /\ pl.since = p.last /\ pl.done = 0
      /\ pl.base + pl.done = p.version
  BY <1>3
<1> HIDE DEF pl, r, t
<1>8. Adapted("AAVE", r)
  <2>1. \A c \in r.costs : r.op = Bearer("AAVE", c.id) /\ c.funding # "AVAILABLE_CASH"
    BY <1>1 DEF IsApproval, Bearer, OpName
  <2>2. r.kind = "APPROVE" /\ WithheldOf(r) = 0 /\ Distinct(r.costs) /\ r.op = Approver("AAVE", r.id)
    BY <1>1 DEF IsApproval, Approver
  <2> QED BY <2>1, <2>2 DEF Adapted
<1>9. Adapted("AAVE", t)
  <2>1. \A c \in t.costs : t.op = Bearer("AAVE", c.id) /\ c.funding # "AVAILABLE_CASH"
    BY <1>2 DEF IsDeposit, Bearer, OpName
  <2>2. t.kind = "DEPOSIT" /\ WithheldOf(t) = 0 /\ Distinct(t.costs) /\ t.family = Home
        /\ t.op = Opener("AAVE", t.position) /\ t.shares = t.amount /\ t.num = 1 /\ t.den = 1
    BY <1>2 DEF IsDeposit, Opener
  <2>3. 1 \in Nat \ {0}
    OBVIOUS
  <2>4. Floor(t.shares, t.num, t.den) = t.amount
    BY <1>6, <2>2, <2>3, Exactly
  <2>5. Floor(t.shares, t.num, t.den) = t.amount - WithheldOf(t) /\ WithheldOf(t) <= t.amount
    BY <1>6, <2>2, <2>4
  <2> QED BY <2>1, <2>2, <2>5 DEF Adapted
<1>10. IsPair(r.op) /\ IsPair(t.op)
  BY <1>1, <1>2 DEF IsApproval, IsDeposit, IsPair
<1>11. Unborn(r.op, k + 1) /\ Unborn(t.op, k + 1)
  <2>1. r.op = <<o, "approve">> /\ t.op = <<o, "deposit">>
    BY <1>1, <1>2 DEF IsApproval, IsDeposit
  <2>2. \A n \in Nat : n >= k + 1 => n # k
    OBVIOUS
  <2> QED BY <2>1, <2>2 DEF Unborn
<1>12. r.op \notin Ops(p)
  <2>1. Unborn(<<o, "approve">>, k) => FALSE
    BY DEF Unborn
  <2> QED BY <1>1, <2>1 DEF IsApproval
<1>13. Current("AAVE", p, pl)
  <2>1. r.kind = "APPROVE"
    BY <1>1 DEF IsApproval
  <2>2. Found(p, r) /\ Allowed("AAVE", p, r)
    BY <2>1 DEF Found, Allowed, TransferMove
  <2> QED BY <1>3, <1>4, <1>6, <1>7, <2>2 DEF Current
<1>14. r.version = p.version /\ t.version = r.version + 1 /\ t.kind = "DEPOSIT"
  BY <1>1, <1>2 DEF IsApproval, IsDeposit
<1>15. \A x \in Ops(p) : Unborn(x, k + 1)
  BY UnbornLater
<1>16. \A i \in DOMAIN s : IsPair(s[i].op) /\ Adapted("AAVE", s[i]) /\ Unborn(s[i].op, k + 1)
  BY <1>4, <1>8, <1>9, <1>10, <1>11
<1>17. /\ Len(s) <= 2 /\ Head(s).version = pl.base + pl.done /\ pl.base + pl.done <= p.version
       /\ s[1] = r /\ s[2] = t /\ 0 \in Nat
  BY <1>3, <1>4, <1>7, <1>14 DEF r, t
<1>18. PlanHolds("AAVE", p, pl, k + 1)
  BY <1>3, <1>4, <1>7, <1>12, <1>13, <1>14, <1>15, <1>16, <1>17 DEF PlanHolds, Paired
<1> QED BY <1>18 DEF pl

(* A portfolio without positions has nothing to accrue.                       *)
LEMMA NothingAccrues ==
  ASSUME NEW p, p.positions = {}
  PROVE  Accrued(p) = Outcome(p, {})
<1> DEFINE s == SetToSeq(p.positions)
<1>1. Len(SetToSeq({})) = 0
  <2>1. IsFiniteSet({}) /\ ~ \E i \in 1 .. Len(SetToSeq({})) : TRUE
    BY FS_EmptySet, Ordered
  <2>2. Len(SetToSeq({})) \in Nat
    BY <2>1, Ordered
  <2>3. \A n \in Nat : n # 0 => 1 \in 1 .. n
    OBVIOUS
  <2> QED BY <2>1, <2>2, <2>3
<1>2. Accrued(p) = Accruing(p, s, Len(s))[Len(s)]
  BY DEF Accrued, Accruing
<1>3. Len(s) = 0
  BY <1>1
<1> HIDE DEF s
<1> QED BY <1>2, <1>3, AccruingFacts

(* What is left of a plan of which the next receipt was applied.              *)
LEMMA RestOf ==
  ASSUME NEW s, ReceiptsFit(s), s # << >>
  PROVE  /\ Head(s) = s[1] /\ 1 \in DOMAIN s
         /\ Len(Tail(s)) = Len(s) - 1
         /\ DOMAIN Tail(s) = 1 .. Len(s) - 1
         /\ \A i \in DOMAIN Tail(s) : i + 1 \in DOMAIN s /\ Tail(s)[i] = s[i + 1]
         /\ Tail(s) # << >> => Len(Tail(s)) > 0 /\ Head(Tail(s)) = s[2] /\ Len(s) > 1
<1>1. PICK S : s \in Seq(S)
  BY DEF ReceiptsFit, IsSequence
<1>2. Len(s) \in Nat \ {0} /\ DOMAIN s = 1 .. Len(s) /\ Head(s) = s[1]
  BY <1>1
<1>3. Tail(s) \in Seq(S) /\ DOMAIN Tail(s) = 1 .. Len(s) - 1 /\ Len(Tail(s)) = Len(s) - 1
  BY <1>1
<1>4. \A i \in 1 .. Len(s) - 1 : Tail(s)[i] = s[i + 1] /\ i + 1 \in DOMAIN s
  BY <1>1, <1>2
<1>5. ASSUME Tail(s) # << >> PROVE Len(Tail(s)) > 0 /\ Head(Tail(s)) = s[2] /\ Len(s) > 1
  <2>1. Len(Tail(s)) > 0 /\ Head(Tail(s)) = Tail(s)[1]
    BY <1>3, <1>5
  <2>2. 1 \in 1 .. Len(s) - 1 /\ 1 + 1 = 2 /\ Len(s) > 1
    BY <1>2, <1>3, <2>1
  <2> QED BY <1>4, <2>1, <2>2
<1> QED BY <1>2, <1>3, <1>4, <1>5

LEMMA ApprovalThenDeposit ==
  ASSUME NEW p, Sound(p), NEW k, NEW pl, ReceiptsFit(pl.receipts), PlanHolds("AAVE", p, pl, k),
         Len(pl.receipts) = 2, ApplyReceipt(p, Head(pl.receipts)).faults = {}
  PROVE  LET q == ApplyReceipt(p, Head(pl.receipts)).portfolio
             t == pl.receipts[2]
         IN  /\ q.version = p.version + 1 /\ p.version = pl.base + pl.done
             /\ t.version = pl.base + (pl.done + 1)
             /\ q.last <= t.at /\ Found(q, t) /\ Allowed("AAVE", q, t)
<1> DEFINE s == pl.receipts
           r == Head(s)
           t == s[2]
           q == ApplyReceipt(p, r).portfolio
<1>1. s # << >> /\ r = s[1] /\ 1 \in DOMAIN s /\ IsReceipt(r)
  <2>1. Len(<< >>) = 0
    OBVIOUS
  <2>2. s # << >>
    BY <2>1
  <2> QED BY <2>2, RestOf, RestFits
<1>2. /\ r.op \notin Ops(p) /\ t.kind = "DEPOSIT" /\ r.at <= t.at /\ t.version = r.version + 1
      /\ r.version = pl.base + pl.done /\ pl.base \in Nat /\ pl.done \in Nat
  BY <1>1 DEF PlanHolds
<1> HIDE DEF r, t
<1>3. Counted(p, r, q)
  BY <1>1, <1>2, CountsOrNot DEF r
<1>4. q.version = p.version + 1 /\ r.version = p.version /\ q.last = r.at
  BY <1>3 DEF Counted
<1> HIDE DEF q
<1>5. Found(q, t) /\ Allowed("AAVE", q, t)
  BY <1>2 DEF Found, Allowed, TransferMove
<1>6. t.version = pl.base + (pl.done + 1)
  BY <1>2
<1> QED BY <1>2, <1>4, <1>5, <1>6 DEF q, t, r

LEMMA NoPlanHolds ==
  ASSUME NEW w, NEW p, Tracked(w, p), NEW k, w = "AAVE" => \A o \in Ops(p) : Unborn(o, k)
  PROVE  PlanHolds(w, p, NoPlan, k)
<1>1. NoPlan.receipts = << >> /\ NoPlan.base = 0 /\ NoPlan.done = 0
  BY DEF NoPlan
<1>2. DOMAIN << >> = {} /\ Len(<< >>) = 0
  OBVIOUS
<1>3. Len(<< >>) <= 2 /\ Len(<< >>) # 2 /\ 0 \in Nat
  BY <1>2
<1> HIDE DEF NoPlan
<1> QED BY <1>1, <1>2, <1>3 DEF PlanHolds, Paired

LEMMA NextHolds ==
  ASSUME NEW w, NEW p, Sound(p), NEW k, NEW pl, PlanFits(pl),
         PlanHolds(w, p, pl, k), pl.receipts # << >>
  PROVE  LET a == ApplyReceipt(p, Head(pl.receipts))
         IN  PlanHolds(w, a.portfolio,
                       IF a.faults = {}
                       THEN [pl EXCEPT !.receipts = Tail(pl.receipts), !.done = pl.done + 1]
                       ELSE NoPlan, k)
<1> DEFINE s == pl.receipts
           r == Head(s)
           t == Tail(s)
           a == ApplyReceipt(p, r)
           q == a.portfolio
           m == pl.done + 1
           rest == [pl EXCEPT !.receipts = t, !.done = m]
<1>1. ReceiptsFit(s) /\ IsReceipt(r) /\ r = s[1] /\ 1 \in DOMAIN s
  BY RestFits, RestOf DEF PlanFits
<1>2. Adapted(w, r) /\ (w = "AAVE" => Unborn(r.op, k)) /\ Tracked(w, p)
  BY <1>1 DEF PlanHolds
<1>3. Tracked(w, q)
  <2> HIDE DEF r
  <2> QED BY <1>1, <1>2, TrackedKept
<1>4. w = "AAVE" => \A o \in Ops(q) : Unborn(o, k)
  <2>1. Ops(q) \subseteq Ops(p) \cup {r.op}
    <3> HIDE DEF r
    <3>1. q = p \/ Counted(p, r, q)
      BY <1>1, CountsOrNot
    <3> HIDE DEF a
    <3> QED BY <3>1 DEF Counted
  <2> QED BY <1>2, <2>1 DEF PlanHolds
<1>5. CASE a.faults # {}
  <2> HIDE DEF a
  <2>1. PlanHolds(w, q, NoPlan, k)
    BY <1>3, <1>4, NoPlanHolds
  <2> QED BY <1>5, <2>1 DEF a
<1>6. CASE a.faults = {}
  <2>1. rest.receipts = t /\ rest.done = m /\ rest.base = pl.base /\ rest.since = pl.since
    <3>1. pl = [receipts |-> pl.receipts, base |-> pl.base, since |-> pl.since, done |-> pl.done]
      BY DEF PlanFits
    <3> HIDE DEF t, m
    <3> QED BY <3>1
  <2> HIDE DEF rest
  <2>2. /\ \A i \in DOMAIN t : i + 1 \in DOMAIN s /\ t[i] = s[i + 1]
        /\ Len(t) = Len(s) - 1 /\ Len(s) \in Nat
        /\ t # << >> => Head(t) = s[2] /\ Len(s) > 1
    BY <1>1, RestOf, SequenceFacts DEF ReceiptsFit
  <2>3. /\ pl.base \in Nat /\ pl.done \in Nat /\ Len(s) <= 2 /\ (Len(s) = 2 => w = "AAVE")
        /\ \A i \in DOMAIN s : /\ IsPair(s[i].op) /\ Adapted(w, s[i])
                               /\ (w = "AAVE" => Unborn(s[i].op, k))
    BY DEF PlanHolds, Paired
  <2>4. m \in Nat /\ Len(t) <= 2 /\ Len(t) # 2 /\ (Len(s) > 1 => Len(s) = 2)
    <3> HIDE DEF t, s
    <3> QED BY <2>2, <2>3
  <2>5. \A i \in DOMAIN t : IsPair(t[i].op) /\ Adapted(w, t[i]) /\ (w = "AAVE" => Unborn(t[i].op, k))
    BY <2>2, <2>3
  <2>6. ASSUME t # << >>
        PROVE  /\ Head(t).version = pl.base + m /\ pl.base + m <= q.version
               /\ q.version = pl.base + m => Current(w, q, rest)
    <3>1. Len(s) = 2 /\ w = "AAVE" /\ Head(t) = s[2]
      BY <2>2, <2>3, <2>4, <2>6
    <3>2. /\ q.version = p.version + 1 /\ p.version = pl.base + pl.done
          /\ s[2].version = pl.base + m /\ q.last <= s[2].at
          /\ Found(q, s[2]) /\ Allowed("AAVE", q, s[2])
      BY <1>1, <1>6, <3>1, ApprovalThenDeposit
    <3> HIDE DEF a, t, r, s
    <3>3. Current(w, q, rest)
      BY <2>1, <3>1, <3>2 DEF Current
    <3>4. pl.base + m <= q.version
      BY <2>3, <3>2
    <3> QED BY <3>1, <3>2, <3>3, <3>4
  <2> HIDE DEF a, t, r, m
  <2>7. PlanHolds(w, q, rest, k)
    BY <1>3, <1>4, <2>1, <2>3, <2>4, <2>5, <2>6 DEF PlanHolds, Paired
  <2> QED BY <1>6, <2>7 DEF rest, a, t, r, m
<1> QED BY <1>5, <1>6

(* A checkpoint between two receipts of a plan moves the version on, or nothing. *)
LEMMA CheckpointHolds ==
  ASSUME BooksInv, NEW w, NEW p, Sound(p), Historic(p), Len(marks) \in Nat, Accrued(p).faults = {},
         NEW k, NEW pl, ReceiptsFit(pl.receipts), PlanHolds(w, p, pl, k)
  PROVE  PlanHolds(w, Accrued(p).portfolio, pl, k)
<1> DEFINE q == Accrued(p).portfolio
           l == SetToSeq(p.positions)
           n == Len(l)
           s == pl.receipts
<1>1. p.positions = {} => q = p
  BY NothingAccrues DEF Outcome
<1>2. n \in Nat /\ Halfway(p, l, n, Accrued(p)) /\ (p.positions # {} => n > 0)
  BY AccruedAll
<1>3. /\ \A o \in Ops(q) : o \in Ops(p) \/ \E j \in 1 .. n : o = AccrualOf(l[j])
      /\ q.version = p.version + n /\ (Tracked(w, p) => Tracked(w, q)) /\ p.version \in Nat
  BY <1>2, SoundFacts DEF Halfway
<1>4. CASE p.positions = {}
  BY <1>1, <1>4
<1>5. CASE p.positions # {}
  <2>1. n > 0
    BY <1>2, <1>5
  <2> HIDE DEF q, n, l
  <2>2. ASSUME NEW o \in Ops(q), \A x \in Ops(p) : Unborn(x, k) PROVE Unborn(o, k)
    <3>1. CASE o \in Ops(p)
      BY <2>2, <3>1
    <3>2. CASE \E j \in 1 .. n : o = AccrualOf(l[j])
      <4>1. PICK x : o = AccrualOf(x)
        BY <3>2
      <4>2. o = <<"accrual", Len(marks), x.id>>
        BY <4>1 DEF AccrualOf
      <4>3. ASSUME NEW i \in Nat PROVE o # <<<<"action", i>>, "approve">>
        BY <4>2
      <4> QED BY <4>3 DEF Unborn
    <3> QED BY <1>3, <3>1, <3>2
  <2>3. ASSUME pl.base \in Nat, pl.done \in Nat, pl.base + pl.done <= p.version
        PROVE  pl.base + pl.done <= q.version /\ q.version # pl.base + pl.done
    BY <1>2, <1>3, <2>1, <2>3
  <2>4. Len(s) = 2 /\ PlanHolds(w, p, pl, k) => s[1].op \notin Ops(q)
    <3> SUFFICES ASSUME Len(s) = 2 PROVE s[1].op \notin Ops(q)
      OBVIOUS
    <3>1. 1 \in DOMAIN s
      BY SequenceFacts DEF ReceiptsFit
    <3>2. IsPair(s[1].op) /\ s[1].op \notin Ops(p)
      BY <3>1 DEF PlanHolds, Paired
    <3>3. \A x : s[1].op # AccrualOf(x)
      BY <3>2, PairApart DEF AccrualOf
    <3> QED BY <1>3, <3>2, <3>3
  <2>5. Tracked(w, q)
    BY <1>3 DEF PlanHolds
  <2>6. w = "AAVE" => \A o \in Ops(q) : Unborn(o, k)
    BY <2>2 DEF PlanHolds
  <2>7. PlanHolds(w, q, pl, k)
    BY <2>3, <2>4, <2>5, <2>6 DEF PlanHolds
  <2> QED BY <2>7 DEF q
<1> QED BY <1>4, <1>5

(* No checkpoint from the given one on has accrued any of the portfolios.     *)
Histories(h) ==
  /\ Historical(portfolio, h)
  /\ Historical(references.cash.portfolio, h)
  /\ Historical(references.yield.portfolio, h)

LEMMA OpeningHistory ==
  ASSUME NEW h
  PROVE  Historical(CreatePortfolio(Opening), h)
<1> DEFINE p == CreatePortfolio(Opening)
<1>1. p.applied = << >>
  BY DEF CreatePortfolio
<1> HIDE DEF p
<1>2. Ops(p) = {}
  BY <1>1 DEF Ops
<1> QED BY <1>2 DEF Historical, p

LEMMA DeliveryHistory ==
  ASSUME BooksInv, Deliver, NEW h, Histories(h)
  PROVE  Histories(h)'
<1>1. PICK body \in Direct :
        portfolio' = ApplyReceipt(portfolio,
                       Delivered(<<"direct", steps>>, portfolio.version, clock, body)).portfolio
  BY DEF Deliver
<1> DEFINE op == <<"direct", steps>>
           version == portfolio.version
           r == Delivered(op, version, clock, body)
<1>2. Sound(portfolio) /\ version \in Nat /\ clock \in Nat
  BY SoundFacts, TimeIs DEF BooksInv, BooksFit, Capitalized
<1> HIDE DEF version
<1>3. IsReceipt(r) /\ IsPair(op)
  <2>1. IsPair(op)
    BY DEF IsPair
  <2> HIDE DEF op
  <2> QED BY <1>2, <2>1, DeliveredFits
<1>4. r.op = op
  BY DEF Delivered, Joined
<1>5. portfolio' = ApplyReceipt(portfolio, r).portfolio
  BY <1>1 DEF version
<1> HIDE DEF r, op
<1>6. Historical(portfolio', h)
  BY <1>2, <1>3, <1>4, <1>5, OperationOpen DEF Histories
<1>7. UNCHANGED references
  BY DEF Deliver
<1> QED BY <1>6, <1>7 DEF Histories

LEMMA NextHistory ==
  ASSUME BooksInv, ApplyNext, IsPair(Head(plan.receipts).op), NEW h, Histories(h)
  PROVE  Histories(h)'
<1> DEFINE r == Head(plan.receipts)
<1>1. portfolio' = ApplyReceipt(portfolio, r).portfolio /\ UNCHANGED references
      /\ plan.receipts # << >>
  BY DEF ApplyNext, Idle
<1>2. IsReceipt(r) /\ Sound(portfolio)
  BY <1>1, RestFits DEF BooksInv, BooksFit, Capitalized, PlanFits
<1>3. IsPair(r.op)
  OBVIOUS
<1> HIDE DEF r
<1>4. Historical(portfolio', h)
  BY <1>1, <1>2, <1>3, OperationOpen DEF Histories
<1> QED BY <1>1, <1>4 DEF Histories

(* The last receipt of an entry that failed says so, and no other one does.   *)
TellsFailure(s, failed) ==
  IF failed THEN Len(s) > 0 /\ s[Len(s)].op = <<Reference, "failed">>
            ELSE \A i \in DOMAIN s : s[i].op # <<Reference, "failed">>

LEMMA EntryPaired ==
  ASSUME BooksInv, NEW capital \in Nat, capital # 0, NEW reserve, NEW failed \in BOOLEAN,
         ReferenceEntry(capital, reserve).faults = {}
  PROVE  LET s == EntryReceipts(ReferenceEntry(capital, reserve), failed)
         IN  ReceiptsFit(s) /\ Paired(s) /\ TellsFailure(s, failed)
<1> DEFINE in == [op |-> Reference, position |-> Reference, allowance |-> Reference,
                  amount |-> capital, current |-> 0, reserve |-> Archived(reserve),
                  approvalGas |-> Archived(Gauge(capital)), gas |-> Archived(Gauge(capital)),
                  conversion |-> Archived([Conversion EXCEPT !.updated = clock])]
           context == EntryContext
           entry == ReferenceEntry(capital, reserve)
           l == entry.receipts
           s == EntryReceipts(entry, failed)
<1>1. ContextFits(context) /\ context.version = 0 /\ context.family = Home
  BY TimeIs, HereFits DEF EntryContext, Context
<1>2. in.amount \in Nat /\ in.current = 0 /\ in.amount # 0 /\ in.position = in.op
      /\ in.op = Reference /\ in.allowance = in.op /\ in.current \in Nat /\ in.current < in.amount
  OBVIOUS
<1>3. GaugeFits(in.gas, in.conversion) /\ GaugeFits(in.approvalGas, in.conversion)
  BY GasIsPriced DEF Archived
<1>4. entry = AaveSupply(context, in)
  BY DEF ReferenceEntry
<1>5. entry.faults = {}
  OBVIOUS
<1> HIDE DEF in, entry, context
<1>6. ReceiptsFit(l) /\ IsReceipt(l[1]) /\ IsReceipt(l[2])
  BY <1>1, <1>2, <1>3, <1>4, <1>5, SupplyIsTwo
<1>7. /\ DOMAIN l = 1 .. 2 /\ IsApproval(l[1], in.op, context.version, context.at)
      /\ IsDeposit(l[2], in.op, context.version + 1, context.at)
  BY <1>1, <1>2, <1>4, <1>5, SupplyIs
<1>8. /\ IsPair(l[1].op) /\ IsPair(l[2].op)
      /\ l[1].op # <<Reference, "failed">> /\ l[2].op # <<Reference, "failed">>
  BY <1>2, <1>7 DEF IsApproval, IsDeposit, IsPair
<1> DEFINE costs == l[2].costs
           op == <<Reference, "failed">>
           r == Pinned(context, 1, op, "COST", costs, << >>)
<1>9. CostsFit(costs)
  BY <1>6 DEF IsReceipt, CostsFit
<1>10. /\ DOMAIN << >> = Fields["COST"] /\ "COST" \in DOMAIN Fields
       /\ \A f \in Fields["COST"] : Valid(<< >>, f)
  BY DEF Fields
<1>11. IsReceipt(r)
  <2> HIDE DEF costs, op
  <2> QED BY <1>1, <1>9, <1>10, PinnedFits
<1>12. r.op = op /\ IsPair(r.op)
  <2>1. r.op = op
    <3> DEFINE empty == << >>
    <3>1. DOMAIN empty = Fields["COST"] /\ "COST" \in DOMAIN Fields
      BY <1>10
    <3> HIDE DEF empty, op, costs
    <3>2. Pinned(context, 1, op, "COST", costs, empty).op = op
      BY <3>1, PinnedIs
    <3> QED BY <3>2 DEF empty
  <2>2. IsPair(op)
    BY DEF IsPair
  <2> HIDE DEF r, op
  <2> QED BY <2>1, <2>2
<1>13. s = IF ~failed THEN l ELSE <<l[1], r>>
  BY DEF EntryReceipts, context
<1> HIDE DEF r, s
<1>14. CASE ~failed
  <2>1. \A i \in 1 .. 2 : i = 1 \/ i = 2
    OBVIOUS
  <2>2. Paired(l) /\ TellsFailure(l, failed)
    <3> HIDE DEF l
    <3> QED BY <1>7, <1>8, <1>14, <2>1 DEF Paired, TellsFailure
  <2> QED BY <1>6, <1>13, <1>14, <2>2 DEF s, entry
<1>15. CASE failed
  <2> DEFINE x == l[1]
             t == <<x, r>>
  <2>1. t[1] = x /\ t[2] = r /\ DOMAIN t = 1 .. 2 /\ Len(t) = 2
    OBVIOUS
  <2>2. \A i \in 1 .. 2 : i = 1 \/ i = 2
    OBVIOUS
  <2>3. ReceiptsFit(t)
    BY <1>6, <1>11, TwoFit
  <2>4. s = t
    BY <1>13, <1>15
  <2>5. IsPair(x.op)
    BY <1>8
  <2> HIDE DEF t, x
  <2>6. Paired(t) /\ TellsFailure(t, failed)
    BY <1>12, <1>15, <2>1, <2>2, <2>5 DEF Paired, TellsFailure
  <2> QED BY <2>3, <2>4, <2>6 DEF s, entry
<1> QED BY <1>14, <1>15

LEMMA ReferenceEntryHistory ==
  ASSUME BooksInv, EnterReference, NEW h, Histories(h)
  PROVE  Histories(h)'
<1>1. PICK c, y, a, b :
        /\ references = [cash |-> [portfolio |-> c, available |-> a],
                         yield |-> [portfolio |-> y, available |-> b]]
        /\ Capitalized(y)
  BY DEF BooksInv, BooksFit, ReferencesFit
<1>2. references.yield.portfolio = y /\ Sound(y)
  BY <1>1 DEF Capitalized
<1>3. PICK failed \in BOOLEAN, reserve \in Reserves :
        LET entry == ReferenceEntry(references.yield.portfolio.initial, reserve)
            entered == ApplyAll(references.yield.portfolio, EntryReceipts(entry, failed))
        IN  /\ entry.faults = {}
            /\ references' = [references EXCEPT !.yield =
                                [portfolio |-> entered.portfolio, available |-> ~failed]]
  BY DEF EnterReference
<1> DEFINE capital == y.initial
           entry == ReferenceEntry(capital, reserve)
           s == EntryReceipts(entry, failed)
           q == ApplyAll(y, s).portfolio
<1>4. capital \in Nat /\ capital # 0
  BY <1>1, CapitalIs DEF Capitalized
<1>5. ReceiptsFit(s) /\ Paired(s)
  <2>1. ReferenceEntry(capital, reserve).faults = {}
    BY <1>2, <1>3
  <2> HIDE DEF capital
  <2> QED BY <1>4, <2>1, EntryPaired
<1>6. references' = [references EXCEPT !.yield = [portfolio |-> q, available |-> ~failed]]
  BY <1>2, <1>3
<1> HIDE DEF s
<1>7. Historical(q, h)
  BY <1>2, <1>5, EntryHistory DEF Histories
<1> HIDE DEF q
<1>8. references'.yield.portfolio = q /\ references'.cash.portfolio = references.cash.portfolio
  BY <1>1, <1>6
<1>9. UNCHANGED portfolio
  BY DEF EnterReference
<1> QED BY <1>7, <1>8, <1>9 DEF Histories

(* The steps of a script are named for their numbers.                         *)
LEMMA ScriptStepPaired ==
  ASSUME NEW i, NEW at, NEW kind, NEW b, NEW costs
  PROVE  LET r == ScriptStep(i, at, kind, b, costs)
         IN  r.op = <<"script", i>> /\ r.at = at /\ r.costs = costs /\ IsPair(r.op)
<1> DEFINE r == ScriptStep(i, at, kind, b, costs)
<1>1. r.op = <<"script", i>> /\ r.at = at /\ r.costs = costs
  BY DEF ScriptStep, Joined
<1> HIDE DEF r
<1> QED BY <1>1 DEF IsPair, r

LEMMA AccrualsPaired ==
  ASSUME NEW first, NEW position
  PROVE  Paired(Accruals(first, position))
<1> DEFINE s == Accruals(first, position)
           body(day) == [position |-> position, num |-> DayIndex(day), den |-> IndexScale]
<1>1. \A day \in DOMAIN s : s[day] = ScriptStep(first + day, 2 + day, "ACCRUE", body(day), {})
  BY DEF Accruals
<1> HIDE DEF s, body
<1>2. Paired(s)
  BY <1>1, ScriptStepPaired DEF Paired
<1> QED BY <1>2 DEF s

LEMMA PairedTogether ==
  ASSUME NEW s, ReceiptsFit(s), Paired(s), NEW t, ReceiptsFit(t), Paired(t)
  PROVE  Paired(s \o t)
<1>1. PICK S : s \in Seq(S)
  BY DEF ReceiptsFit, IsSequence
<1>2. PICK T : t \in Seq(T)
  BY DEF ReceiptsFit, IsSequence
<1> DEFINE U == S \cup T
           m == Len(s)
           n == Len(t)
<1>3. s \in Seq(U) /\ t \in Seq(U)
  BY <1>1, <1>2
<1> HIDE DEF U
<1>4. m \in Nat /\ n \in Nat /\ DOMAIN s = 1 .. m /\ DOMAIN t = 1 .. n /\ DOMAIN (s \o t) = 1 .. m + n
  BY <1>3
<1>5. ASSUME NEW i \in 1 .. m + n PROVE IsPair((s \o t)[i].op)
  <2>1. CASE i \in 1 .. m
    <3>1. (s \o t)[i] = s[i]
      BY <1>3, <2>1
    <3> QED BY <1>4, <2>1, <3>1 DEF Paired
  <2>2. CASE i \notin 1 .. m
    <3>1. i - m \in 1 .. n
      BY <1>4, <2>2
    <3>2. (s \o t)[i] = t[i - m]
      BY <1>3, <2>2
    <3> QED BY <1>4, <3>1, <3>2 DEF Paired
  <2> QED BY <2>1, <2>2
<1> QED BY <1>4, <1>5 DEF Paired

LEMMA ReferencePaired == Paired(ReferenceScript)
<1> DEFINE capital == Total(Opening)
           b == [family |-> Home, position |-> "reference", shares |-> capital,
                 num |-> 1, den |-> 1, amount |-> capital]
           costs == ScriptCost(1, Script.gas, "PAYABLE", Home)
           r == ScriptStep(1, 2, "DEPOSIT", b, costs)
           t == IF work = "REPLAY" THEN Accruals(1, "reference") ELSE << >>
<1>1. IsReceipt(r)
  <2>1. DOMAIN b = Fields["DEPOSIT"] /\ "DEPOSIT" \in DOMAIN Fields
    BY DEF Fields
  <2>2. \A f \in Fields["DEPOSIT"] : Valid(b, f)
    BY ScriptData, CapitalIs DEF Fields, Valid
  <2>3. CostsFit(costs)
    BY ScriptData, ScriptCostFits
  <2> HIDE DEF b, costs
  <2> QED BY <2>1, <2>2, <2>3, ScriptStepFits
<1>2. IsPair(r.op)
  <2> HIDE DEF b, costs
  <2> QED BY ScriptStepPaired
<1>3. ReferenceScript = <<r>> \o t
  BY DEF ReferenceScript
<1> HIDE DEF r
<1>4. ReceiptsFit(t) /\ Paired(t)
  <2>1. Paired(<< >>)
    BY DEF Paired
  <2> QED BY <2>1, NoReceipts, DaysFit, AccrualsPaired
<1> DEFINE s == <<r>>
<1>5. DOMAIN s = {1} /\ s[1] = r
  OBVIOUS
<1>6. ReceiptsFit(s)
  BY <1>1, OneFits
<1> HIDE DEF s, t
<1>7. Paired(s)
  BY <1>2, <1>5 DEF Paired
<1>8. Paired(s \o t)
  BY <1>4, <1>6, <1>7, PairedTogether
<1> QED BY <1>3, <1>8 DEF s

LEMMA DiagnosisHistory ==
  ASSUME BooksInv, Diagnose, NEW h, Histories(h)
  PROVE  Histories(h)'
<1> DEFINE opening == CreatePortfolio(Opening)
           yield == Last(Snapshots(opening, ReferenceScript))
<1>1. PICK c, y, a, b :
        references = [cash |-> [portfolio |-> c, available |-> a],
                      yield |-> [portfolio |-> y, available |-> b]]
  BY DEF BooksInv, BooksFit, ReferencesFit
<1>2. Sound(opening) /\ Historical(opening, h)
  BY OpeningIs, OpeningHistory DEF Capitalized
<1>3. references' = [references EXCEPT !.yield.portfolio = yield] /\ UNCHANGED portfolio
  BY DEF Diagnose, Findings
<1> HIDE DEF opening
<1>4. Historical(yield, h)
  BY <1>2, ReferenceFits, ReferencePaired, ReplayHistory
<1> HIDE DEF yield
<1>5. references'.yield.portfolio = yield /\ references'.cash.portfolio = references.cash.portfolio
  BY <1>1, <1>3
<1> QED BY <1>3, <1>4, <1>5 DEF Histories

LEMMA CheckpointHistories ==
  ASSUME BooksInv, MarksFit(marks), TakeCheckpoint, Histories(Len(marks))
  PROVE  Histories(Len(marks))'
<1> DEFINE agent == Accrued(portfolio).portfolio
           cash == Accrued(references.cash.portfolio).portfolio
           yield == Accrued(references.yield.portfolio).portfolio
           h == Len(marks) + 1
<1>1. PICK c, y, a, b :
        /\ references = [cash |-> [portfolio |-> c, available |-> a],
                         yield |-> [portfolio |-> y, available |-> b]]
        /\ c = CreatePortfolio(Opening) /\ Capitalized(y)
  BY DEF BooksInv, BooksFit, ReferencesFit
<1>2. references.cash.portfolio = c /\ references.yield.portfolio = y
  BY <1>1
<1>3. Sound(portfolio) /\ Sound(c) /\ Sound(y) /\ Len(marks) \in Nat
  BY <1>1, OpeningIs, SequenceFacts DEF BooksInv, BooksFit, Capitalized, MarksFit
<1>4. Historical(agent, h) /\ Historical(cash, h) /\ Historical(yield, h)
  BY <1>2, <1>3, HistoricIs, CheckpointHistory DEF Histories
<1>5. /\ portfolio' = agent
      /\ references' = [references EXCEPT !.cash.portfolio = cash, !.yield.portfolio = yield]
      /\ marks' = Append(marks, checkpoint'.evaluation.agent.mark)
  BY DEF TakeCheckpoint, Store
<1> HIDE DEF agent, cash, yield
<1>6. references'.cash.portfolio = cash /\ references'.yield.portfolio = yield
  BY <1>1, <1>5
<1>7. Len(marks') = h
  BY <1>5, AppendFacts DEF MarksFit
<1> QED BY <1>4, <1>5, <1>6, <1>7 DEF Histories

(* What a burn and the moves of a transfer leave in transit.                  *)
LEMMA BurnIs ==
  ASSUME NEW p, IsBook(p), NEW r, r.kind = "TRANSFER_BURNED", Effect(p, r).faults = {}
  PROVE  \E x \in Effect(p, r).portfolio.receivables :
            x.id = r.id /\ x.amount = r.amount /\ x.state = "IN_TRANSIT" /\ x.tries = 0
<1> DEFINE row == [id |-> r.id, message |-> r.message, family |-> r.family, amount |-> r.amount,
                   state |-> "IN_TRANSIT", tries |-> 0, at |-> r.at]
<1>1. Effect(p, r) = Burn(p, r)
  BY DEF Effect, TransferMove
<1>2. With(p.reservations, r.reservation) # {}
  <2> SUFFICES ASSUME With(p.reservations, r.reservation) = {} PROVE Burn(p, r).faults # {}
    BY <1>1
  <2>1. Burn(p, r) = Refuses(p, "ABSENT")
    BY DEF Burn
  <2> QED BY <2>1 DEF Refuses, Moves
<1>3. row.id = r.id /\ row.amount = r.amount /\ row.state = "IN_TRANSIT" /\ row.tries = 0
  OBVIOUS
<1>4. Burn(p, r).portfolio.receivables = p.receivables \cup {row}
  BY <1>2 DEF Burn, Moves, IsBook, BookFields
<1> HIDE DEF row
<1> QED BY <1>1, <1>3, <1>4

(* The state a move leaves a transfer in.                                     *)
MovedTo(kind) ==
  CASE kind = "TRANSFER_READY" -> "READY_TO_RECEIVE"
    [] kind = "TRANSFER_DELAYED" -> "DELAYED"
    [] OTHER -> "DESTINATION_RETRY"

LEMMA MoveIs ==
  ASSUME NEW p, IsBook(p), NEW at, ReceivablesFit(p.receivables, at), NEW r, r.kind \in Carried,
         Effect(p, r).faults = {}, NEW x \in p.receivables, x.id = r.id
  PROVE  \E y \in Effect(p, r).portfolio.receivables :
            /\ y.id = x.id /\ y.amount = x.amount /\ y.state = MovedTo(r.kind)
            /\ y.tries = IF r.kind = "TRANSFER_DESTINATION_RETRY" THEN x.tries + 1 ELSE x.tries
<1> DEFINE left == p.receivables \ {x}
           row(state, tries) == [x EXCEPT !.state = state, !.tries = tries, !.at = r.at]
           m == MoveTransfer(p, r)
<1>1. Effect(p, r) = m
  BY DEF Effect, TransferMove, Carried
<1>2. With(p.receivables, r.id) # {} /\ Distinct(p.receivables)
  BY DEF With, ReceivablesFit
<1>3. The(p.receivables, r.id) = x
  <2>1. With(p.receivables, r.id) = {The(p.receivables, r.id)} /\ x \in With(p.receivables, r.id)
    BY <1>2, TheOne DEF With
  <2> QED BY <2>1
<1>4. x = [f \in ReceivableFields |-> x[f]]
  BY DEF ReceivablesFit, ReceivableFits
<1>5. ASSUME NEW state, NEW tries
      PROVE  LET y == row(state, tries)
             IN  y.id = x.id /\ y.amount = x.amount /\ y.state = state /\ y.tries = tries
  <2>1. {"id", "amount", "state", "tries", "at"} \subseteq DOMAIN x
    BY <1>4 DEF ReceivableFields
  <2> QED BY <2>1
<1>6. CASE r.kind = "TRANSFER_READY"
  <2>1. m.portfolio.receivables = left \cup {row("READY_TO_RECEIVE", x.tries)}
    <3> HIDE DEF row
    <3> QED BY <1>2, <1>3, <1>6 DEF MoveTransfer, Moves, IsBook, BookFields, row
  <2> HIDE DEF row, m
  <2> QED BY <1>1, <1>5, <1>6, <2>1 DEF MovedTo
<1>7. CASE r.kind = "TRANSFER_DELAYED"
  <2>1. m.portfolio.receivables = left \cup {row("DELAYED", x.tries)}
    <3> HIDE DEF row
    <3> QED BY <1>2, <1>3, <1>7 DEF MoveTransfer, Moves, IsBook, BookFields, row
  <2> HIDE DEF row, m
  <2> QED BY <1>1, <1>5, <1>7, <2>1 DEF MovedTo
<1>8. CASE r.kind = "TRANSFER_DESTINATION_RETRY"
  <2>1. m.portfolio.receivables = left \cup {row("DESTINATION_RETRY", x.tries + 1)}
    <3> HIDE DEF row
    <3> QED BY <1>2, <1>3, <1>8 DEF MoveTransfer, Moves, IsBook, BookFields, row
  <2> DEFINE tries == x.tries + 1
             y == row("DESTINATION_RETRY", tries)
  <2>2. y.id = x.id /\ y.amount = x.amount /\ y.state = "DESTINATION_RETRY" /\ y.tries = tries
    BY <1>5
  <2> HIDE DEF row, m
  <2>3. y \in m.portfolio.receivables
    BY <2>1 DEF y
  <2> HIDE DEF y
  <2> QED BY <1>1, <1>8, <2>2, <2>3 DEF MovedTo
<1> QED BY <1>6, <1>7, <1>8 DEF Carried

LEMMA PaidIsBorne ==
  ASSUME NEW w \in {"STRESS", "REPLAY"}, NEW i, NEW r, r.op = <<"script", i>>, PaidBy(i, r.costs)
  PROVE  /\ Distinct(r.costs) /\ WithheldOf(r) = 0
         /\ \A c \in r.costs : /\ r.op = Bearer(w, c.id)
                               /\ c.funding = "AVAILABLE_CASH" => c.network = NetworkOf[c.family]
BY DEF PaidBy, WithheldOf, Bearer

(* The steps of a script move nothing twice and pay for themselves.           *)
ScriptedStep(w, r, i) == IF w = "STRESS" THEN StressStep(r, i) ELSE ReplayStep(r, i)

ScriptDate(w, i) == IF w = "STRESS" /\ i > 6 THEN i + 63 ELSE i

LEMMA ScriptSteps ==
  ASSUME NEW w \in {"STRESS", "REPLAY"}
  PROVE  /\ ReceiptsFit(ScriptOf(w))
         /\ \A i \in DOMAIN ScriptOf(w) : i \in Nat \ {0} /\ ScriptedStep(w, ScriptOf(w)[i], i)
<1>1. CASE w = "STRESS"
  <2>1. ScriptOf(w) = StressScript
    BY <1>1 DEF ScriptOf
  <2>2. \A i \in 1 .. 12 : i \in Nat \ {0}
    OBVIOUS
  <2> QED BY <1>1, <2>1, <2>2, StressSteps, StressFits DEF ScriptedStep
<1>2. CASE w = "REPLAY"
  <2>1. ScriptOf(w) = ReplayScript
    BY <1>2 DEF ScriptOf
  <2>2. \A i \in 1 .. 2 + Script.days : i \in Nat \ {0}
    BY ScriptData
  <2> QED BY <1>2, <2>1, <2>2, ReplaySteps, ReplayFits DEF ScriptedStep
<1> QED BY <1>1, <1>2

LEMMA StepNumbered ==
  ASSUME NEW w \in {"STRESS", "REPLAY"}, NEW i, NEW r, ScriptedStep(w, r, i)
  PROVE  /\ Numbered(r, i, ScriptDate(w, i), r.kind)
         /\ i \in Nat
         /\ r.kind \notin {"PAYABLE_SETTLED", "TRANSFER_SOURCE_FAILED", "SWAP"}
<1>1. CASE w = "STRESS"
  <2>1. StressStep(r, i)
    BY <1>1 DEF ScriptedStep
  <2>2. i \in 1 .. 6 => ScriptDate(w, i) = i
    BY DEF ScriptDate
  <2>3. i \in 7 .. 12 => ScriptDate(w, i) = i + 63
    BY <1>1 DEF ScriptDate
  <2>4. CASE EntryStep(r, i)
    BY <2>2, <2>4 DEF EntryStep, Numbered
  <2>5. CASE i \in {3, 4, 5, 6} /\ Numbered(r, i, i, r.kind)
               /\ r.kind \in {"WITHDRAW", "COST", "RESERVE", "TRANSFER_BURNED"}
    <3>1. i \in 1 .. 6 /\ i \in Nat
      BY <2>5
    <3> QED BY <2>2, <2>5, <3>1
  <2>6. CASE i \in 7 .. 12 /\ Numbered(r, i, i + 63, r.kind)
               /\ r.kind \in {"CLOSE", "TRANSFER_SETTLED"} \cup Carried
    <3>1. i \in 7 .. 12 /\ i \in Nat
      BY <2>6
    <3> QED BY <2>3, <2>6, <3>1 DEF Carried
  <2> QED BY <2>1, <2>4, <2>5, <2>6 DEF StressStep, Numbered, MoveKind, Carried
<1>2. CASE w = "REPLAY"
  <2>1. ReplayStep(r, i) /\ ScriptDate(w, i) = i
    BY <1>2 DEF ScriptedStep, ScriptDate
  <2> QED BY <2>1 DEF ReplayStep, EntryStep, Numbered
<1> QED BY <1>1, <1>2

LEMMA StepAdapted ==
  ASSUME NEW w \in {"STRESS", "REPLAY"}, NEW i, NEW r, ScriptedStep(w, r, i)
  PROVE  Adapted(w, r) /\ IsPair(r.op)
<1>1. /\ Numbered(r, i, ScriptDate(w, i), r.kind)
      /\ r.kind \notin {"PAYABLE_SETTLED", "TRANSFER_SOURCE_FAILED", "SWAP"}
  BY StepNumbered
<1>2. r.op = <<"script", i>> /\ PaidBy(i, r.costs)
  BY <1>1 DEF Numbered
<1>3. /\ Distinct(r.costs) /\ WithheldOf(r) = 0
      /\ \A c \in r.costs : /\ r.op = Bearer(w, c.id)
                            /\ c.funding = "AVAILABLE_CASH" => c.network = NetworkOf[c.family]
  BY <1>2, PaidIsBorne
<1>4. r.kind = "APPROVE" => i = 1
  BY DEF ScriptedStep, StressStep, ReplayStep, EntryStep, Numbered, MoveKind
<1>5. r.kind = "DEPOSIT" =>
        /\ i = 2 /\ r.position = "position" /\ r.family = Home
        /\ r.shares = Script.invested /\ r.amount = Script.invested /\ r.num = 1 /\ r.den = 1
  BY DEF ScriptedStep, StressStep, ReplayStep, EntryStep, Numbered, MoveKind
<1>6. (r.kind = "RESERVE" => i = 5 /\ r.costs = {}) /\ (r.kind = "ACCRUE" => r.costs = {})
  BY DEF ScriptedStep, StressStep, ReplayStep, EntryStep, Numbered, MoveKind
<1>7. r.kind = "DEPOSIT" =>
       /\ r.op = Opener(w, r.position) /\ r.family = Home
       /\ Floor(r.shares, r.num, r.den) = r.amount - WithheldOf(r) /\ WithheldOf(r) <= r.amount
       /\ Fits(r.shares) \/ r.shares = r.amount
  <2> SUFFICES ASSUME r.kind = "DEPOSIT"
               PROVE  /\ r.op = Opener(w, r.position) /\ r.family = Home
                      /\ Floor(r.shares, r.num, r.den) = r.amount - WithheldOf(r)
                      /\ WithheldOf(r) <= r.amount
                      /\ Fits(r.shares) \/ r.shares = r.amount
    OBVIOUS
  <2> DEFINE m == Script.invested
  <2>1. m \in Nat
    BY ScriptData
  <2> HIDE DEF m
  <2>2. Floor(m, 1, 1) = m /\ m - 0 = m /\ 0 <= m
    BY <2>1, Exactly
  <2>3. r.shares = m /\ r.amount = m /\ r.num = 1 /\ r.den = 1
    BY <1>5 DEF m
  <2>4. r.op = Opener(w, r.position)
    BY <1>2, <1>5 DEF Opener
  <2> QED BY <1>3, <1>5, <2>2, <2>3, <2>4
<1>8. r.kind = "APPROVE" => r.op = Approver(w, r.id)
  BY <1>2, <1>4 DEF Approver
<1>9. r.kind = "RESERVE" => r.op = <<"script", 5>> /\ r.costs = {}
  BY <1>2, <1>6
<1>10. Adapted(w, r)
  BY <1>1, <1>3, <1>6, <1>7, <1>8, <1>9 DEF Adapted
<1>11. IsPair(r.op)
  BY <1>2 DEF IsPair
<1> QED BY <1>10, <1>11

(* How far a script has come: what the steps to come move is there.           *)
StateAt(v) ==
  CASE v = 6 -> "IN_TRANSIT"
    [] v \in {7, 8} -> "DELAYED"
    [] v = 10 -> "DESTINATION_RETRY"
    [] OTHER -> "READY_TO_RECEIVE"

InTransit(x, v) ==
  /\ x.id = "transfer" /\ x.amount = Script.transfer /\ x.state = StateAt(v)
  /\ x.tries = IF v >= 10 THEN 1 ELSE 0

Invested(x) ==
  /\ x.id = "position" /\ x.family = Home
  /\ x.shares = Script.invested /\ x.book = Script.invested

SetAside(x) == x.id = "reservation" /\ x.family = Home /\ x.amount = Script.transfer

Stressed(p) ==
  /\ p.version = 2 => \E x \in p.positions : Invested(x)
  /\ p.version = 5 => \E x \in p.reservations : SetAside(x)
  /\ p.version < 6 => p.receivables = {}
  /\ p.version \in 6 .. 11 => \E x \in p.receivables : InTransit(x, p.version)

Accruable(p) == p.version >= 2 => With(p.positions, "position") # {}

Stage(w, p) ==
  /\ \A o \in Ops(p) : \E i \in 1 .. p.version : o = <<"script", i>>
  /\ p.last <= ScriptDate(w, p.version)
  /\ IF w = "STRESS" THEN Stressed(p) ELSE Accruable(p)

LEMMA StageFound ==
  ASSUME NEW w \in {"STRESS", "REPLAY"}, w \in Workloads, NEW p, Sound(p), Stage(w, p),
         NEW r, ScriptedStep(w, r, p.version + 1)
  PROVE  Found(p, r) /\ Allowed(w, p, r)
<1> DEFINE v == p.version
           i == v + 1
<1>1. v \in Nat
  BY SoundFacts
<1>2. Allowed(w, p, r)
  BY DEF Allowed
<1>3. WithheldOf(r) = 0
  <2>1. PaidBy(i, r.costs)
    BY StepNumbered DEF Numbered
  <2> QED BY <2>1 DEF PaidBy, WithheldOf
<1>4. CASE w = "REPLAY"
  <2>1. ReplayStep(r, i) /\ Accruable(p)
    BY <1>4 DEF ScriptedStep, Stage
  <2>2. CASE EntryStep(r, i)
    BY <1>2, <2>2 DEF EntryStep, Numbered, Found, TransferMove
  <2>3. CASE i > 2 /\ r.kind = "ACCRUE" /\ r.position = "position"
    <3>1. v >= 2
      BY <1>1, <2>3
    <3> QED BY <1>2, <2>1, <2>3, <3>1 DEF Found, TransferMove, Accruable
  <2> QED BY <2>1, <2>2, <2>3 DEF ReplayStep, Numbered
<1>5. CASE w = "STRESS"
  <2>1. StressStep(r, i) /\ Stressed(p)
    BY <1>5 DEF ScriptedStep, Stage
  <2>2. DestinationAttempts > 1 /\ NetworkOf[Home] # NetworkOf[Far] /\ DestinationAttempts \in Nat
    BY <1>5, ScenarioAssumption, ReducerAssumption
  <2>3. CASE r.kind \notin {"WITHDRAW", "ACCRUE", "TRANSFER_BURNED"} \cup TransferMove
    BY <1>2, <2>3 DEF Found
  <2>4. CASE i = 3
    <3>1. v = 2 /\ r.kind = "WITHDRAW" /\ r.position = "position" /\ r.family = Home
          /\ r.shares = Script.invested /\ r.amount = Script.invested
      BY <1>1, <2>1, <2>4 DEF StressStep, EntryStep, Numbered
    <3>2. PICK x \in p.positions : Invested(x)
      BY <2>1, <3>1 DEF Stressed
    <3> DEFINE m == Script.invested
    <3>3. m \in Nat
      BY ScriptData
    <3> HIDE DEF m
    <3>4. m <= m /\ m - m = 0
      BY <3>3
    <3> QED BY <1>2, <1>3, <3>1, <3>2, <3>4 DEF Found, Invested, TransferMove, m
  <2>5. CASE i = 6
    <3>1. v = 5 /\ r.kind = "TRANSFER_BURNED" /\ r.reservation = "reservation" /\ r.family = Far
          /\ r.amount = Script.transfer
      BY <1>1, <2>1, <2>5 DEF StressStep, EntryStep, Numbered
    <3>2. PICK x \in p.reservations : SetAside(x)
      BY <2>1, <3>1 DEF Stressed
    <3>3. p.receivables = {}
      BY <2>1, <3>1 DEF Stressed
    <3> QED BY <1>2, <2>2, <3>1, <3>2, <3>3 DEF Found, SetAside, TransferMove
  <2>6. CASE i \in {7, 9, 10, 11, 12}
    <3>1. v \in {6, 8, 9, 10, 11} /\ v \in 6 .. 11 /\ i = v + 1
      BY <1>1, <2>6
    <3>2. PICK x \in p.receivables : InTransit(x, v)
      BY <2>1, <3>1 DEF Stressed
    <3>3. r.id = "transfer" /\ r.kind = (IF v = 11 THEN "TRANSFER_SETTLED" ELSE MoveKind(i))
          /\ (v = 11 => r.amount = Script.transfer)
      BY <2>1, <3>1 DEF StressStep, EntryStep, Numbered
    <3>4. r.kind = CASE v = 6 -> "TRANSFER_DELAYED"
                     [] v = 9 -> "TRANSFER_DESTINATION_RETRY"
                     [] v = 11 -> "TRANSFER_SETTLED"
                     [] OTHER -> "TRANSFER_READY"
      BY <3>1, <3>3 DEF MoveKind
    <3> HIDE DEF v, i
    <3>5. MayMove(r.kind, x)
      <4>1. x.tries = IF v \in {10, 11} THEN 1 ELSE 0
        BY <3>1, <3>2 DEF InTransit
      <4>2. x.state = StateAt(v)
        BY <3>2 DEF InTransit
      <4>3. 0 < DestinationAttempts /\ 1 < DestinationAttempts
        BY <2>2
      <4> QED BY <3>1, <3>4, <4>1, <4>2, <4>3 DEF MayMove, StateAt
    <3>6. x.id = r.id /\ (r.kind = "TRANSFER_SETTLED" => x.amount = r.amount)
      BY <3>1, <3>2, <3>3, <3>4 DEF InTransit
    <3>7. r.kind \notin {"WITHDRAW", "ACCRUE", "TRANSFER_BURNED"}
      BY <3>4
    <3> QED BY <1>2, <3>5, <3>6, <3>7 DEF Found
  <2>7. r.kind \in {"WITHDRAW", "ACCRUE", "TRANSFER_BURNED"} \cup TransferMove
          => i \in {3, 6, 7, 9, 10, 11, 12}
    BY <2>1 DEF StressStep, EntryStep, Numbered, TransferMove
  <2> QED BY <2>3, <2>4, <2>5, <2>6, <2>7
<1> QED BY <1>4, <1>5

(* A step that counts brings its script one further.                          *)
LEMMA StressKept ==
  ASSUME NEW p, Sound(p), Tracked("STRESS", p), Stage("STRESS", p), NEW r, IsReceipt(r),
         StressStep(r, p.version + 1), NEW q, Counted(p, r, q)
  PROVE  Stressed(q)
<1> DEFINE v == p.version
           i == v + 1
           m == Effect(p, r)
<1>1. /\ v \in Nat /\ q.version = i /\ Stressed(p) /\ p.last <= r.at /\ m.faults = {}
      /\ q.positions = m.portfolio.positions /\ q.reservations = m.portfolio.reservations
      /\ q.receivables = m.portfolio.receivables
      /\ \A o \in Ops(p) : \E j \in 1 .. v : o = <<"script", j>>
  BY SoundFacts DEF Counted, Stage
<1>2. Ready(p, r) /\ IsBook(p) /\ r.kind \in DOMAIN Fields
  BY <1>1, ReadyWhen, SoundFacts DEF IsReceipt
<1>3. Elsewhere(p, r.kind, m.portfolio)
  BY <1>2, RowsElsewhere
<1>4. \E at : ReceivablesFit(p.receivables, at)
  BY SoundFacts DEF Parts
<1> HIDE DEF v, m
<1>5. /\ i = 2 => /\ r.kind = "DEPOSIT" /\ r.position = "position" /\ r.family = Home
                  /\ r.shares = Script.invested /\ r.num = 1 /\ r.den = 1
      /\ i = 5 => /\ r.kind = "RESERVE" /\ r.id = "reservation" /\ r.family = Home
                  /\ r.amount = Script.transfer
      /\ i = 6 => r.kind = "TRANSFER_BURNED" /\ r.id = "transfer" /\ r.amount = Script.transfer
      /\ i \in {7, 9, 10, 11} => r.kind = MoveKind(i) /\ r.id = "transfer"
      /\ i = 8 => r.kind = "CLOSE"
      /\ i \in 1 .. 5 => r.kind \notin {"TRANSFER_BURNED"} \cup TransferMove
  <2>1. StressStep(r, i)
    BY DEF v
  <2> HIDE DEF i
  <2> QED BY <2>1 DEF StressStep, EntryStep, Numbered, TransferMove
<1>6. ASSUME i = 2 PROVE \E x \in q.positions : Invested(x)
  <2>1. With(p.positions, "position") = {}
    <3>1. ASSUME NEW x \in p.positions PROVE FALSE
      <4>1. <<"script", 2>> \in Ops(p)
        BY <3>1 DEF Tracked, Opener
      <4>2. PICK j \in 1 .. v : <<"script", 2>> = <<"script", j>>
        BY <1>1, <4>1
      <4>3. j = 2 /\ v = 1
        BY <1>1, <1>6, <4>2
      <4> QED BY <4>3
    <3> QED BY <3>1 DEF With
  <2>2. PICK y : /\ q.positions = (p.positions \ With(p.positions, r.position)) \cup {y}
                 /\ y.id = r.position /\ y.family = r.family
                 /\ y.shares = r.shares /\ y.book = Floor(r.shares, r.num, r.den)
    BY <1>1, <1>2, <1>5, <1>6, <2>1, DepositLeft DEF m
  <2>3. Floor(Script.invested, 1, 1) = Script.invested
    BY ScriptData, Exactly
  <2> QED BY <1>5, <1>6, <2>2, <2>3 DEF Invested
<1>7. ASSUME i = 5 PROVE \E x \in q.reservations : SetAside(x)
  <2> DEFINE x == [id |-> r.id, op |-> r.op, family |-> r.family, amount |-> r.amount]
  <2>1. q.reservations = p.reservations \cup {x}
    BY <1>1, <1>2, <1>5, <1>7, ReservationLeft DEF m
  <2>2. SetAside(x)
    BY <1>5, <1>7 DEF SetAside
  <2> QED BY <2>1, <2>2
<1>8. ASSUME i < 6 PROVE q.receivables = {}
  <2>1. i \in 1 .. 5 /\ v < 6
    BY <1>1, <1>8
  <2>2. p.receivables = {}
    BY <1>1, <2>1 DEF Stressed, v
  <2> QED BY <1>1, <1>3, <1>5, <2>1, <2>2 DEF Elsewhere
<1>9. ASSUME i \in 6 .. 11 PROVE \E x \in q.receivables : InTransit(x, i)
  <2>1. CASE i = 6
    <3>1. PICK x \in q.receivables :
            x.id = r.id /\ x.amount = r.amount /\ x.state = "IN_TRANSIT" /\ x.tries = 0
      BY <1>1, <1>2, <1>5, <2>1, BurnIs DEF m
    <3> HIDE DEF i
    <3>2. InTransit(x, i)
      BY <1>5, <2>1, <3>1 DEF InTransit, StateAt
    <3> QED BY <3>2
  <2>2. CASE i # 6
    <3>1. v \in 6 .. 10 /\ v \in 6 .. 11 /\ i = v + 1 /\ i \in {7, 8, 9, 10, 11}
      BY <1>1, <1>9, <2>2
    <3>2. PICK x \in p.receivables : InTransit(x, v)
      BY <1>1, <3>1 DEF Stressed, v
    <3>3. CASE i = 8
      <4>1. q.receivables = p.receivables
        BY <1>1, <1>3, <1>5, <3>3 DEF Elsewhere, TransferMove
      <4>2. v = 7
        BY <1>1, <3>3
      <4>3. InTransit(x, 8)
        BY <3>2, <4>2 DEF InTransit, StateAt
      <4> QED BY <3>3, <4>1, <4>3
    <3>4. CASE i # 8
      <4> HIDE DEF i
      <4>1. i \in {7, 9, 10, 11} /\ r.kind = MoveKind(i) /\ r.id = "transfer" /\ x.id = r.id
        BY <1>5, <3>1, <3>2, <3>4 DEF InTransit
      <4>2. r.kind \in Carried
        BY <4>1 DEF MoveKind, Carried
      <4>3. PICK at : ReceivablesFit(p.receivables, at)
        BY <1>4
      <4>4. PICK y \in q.receivables :
              /\ y.id = x.id /\ y.amount = x.amount /\ y.state = MovedTo(r.kind)
              /\ y.tries = IF r.kind = "TRANSFER_DESTINATION_RETRY" THEN x.tries + 1 ELSE x.tries
        BY <1>1, <1>2, <4>1, <4>2, <4>3, MoveIs DEF m
      <4>5. y.state = StateAt(i)
        BY <4>1, <4>4 DEF MovedTo, MoveKind, StateAt
      <4>6. y.tries = IF i >= 10 THEN 1 ELSE 0
        <5>1. x.tries = IF v >= 10 THEN 1 ELSE 0
          BY <3>2 DEF InTransit
        <5>2. r.kind = "TRANSFER_DESTINATION_RETRY" <=> i = 10
          BY <4>1 DEF MoveKind
        <5> QED BY <3>1, <4>4, <5>1, <5>2
      <4>7. InTransit(y, i)
        BY <3>2, <4>4, <4>5, <4>6 DEF InTransit
      <4> QED BY <4>7
    <3> QED BY <3>3, <3>4
  <2> QED BY <2>1, <2>2
<1> HIDE DEF i
<1> QED BY <1>1, <1>6, <1>7, <1>8, <1>9 DEF Stressed

LEMMA ReplayKept ==
  ASSUME NEW p, Sound(p), Tracked("REPLAY", p), Stage("REPLAY", p), NEW r, IsReceipt(r),
         ReplayStep(r, p.version + 1), NEW q, Counted(p, r, q)
  PROVE  Accruable(q)
<1> DEFINE v == p.version
           i == v + 1
           m == Effect(p, r)
<1>1. /\ v \in Nat /\ q.version = i /\ Accruable(p) /\ p.last <= r.at /\ m.faults = {}
      /\ q.positions = m.portfolio.positions
  BY SoundFacts DEF Counted, Stage
<1>2. Ready(p, r)
  BY <1>1, ReadyWhen
<1> HIDE DEF m
<1>3. CASE i = 1
  <2>1. ~ (1 >= 2)
    OBVIOUS
  <2> QED BY <1>1, <1>3, <2>1 DEF Accruable
<1>4. CASE i = 2
  <2>1. r.kind = "DEPOSIT" /\ r.position = "position"
    BY <1>4 DEF ReplayStep, EntryStep, Numbered
  <2>2. PICK y : y \in q.positions /\ y.id = r.position
    BY <1>1, <1>2, <2>1, DepositLeft DEF m
  <2> QED BY <2>1, <2>2 DEF Accruable, With
<1>5. CASE i # 1 /\ i # 2
  <2>1. v >= 2
    BY <1>1, <1>5
  <2>2. r.kind = "ACCRUE" /\ r.position = "position"
    BY <1>5 DEF ReplayStep, EntryStep, Numbered
  <2>3. PICK x, y : /\ x \in p.positions /\ x.id = r.position
                    /\ q.positions = (p.positions \ {x}) \cup {y} /\ y.id = x.id
    BY <1>1, <1>2, <2>2, AccruedLeft DEF m
  <2> QED BY <2>2, <2>3 DEF Accruable, With
<1> QED BY <1>3, <1>4, <1>5

LEMMA StageKept ==
  ASSUME NEW w \in {"STRESS", "REPLAY"}, NEW p, Sound(p), Tracked(w, p), Stage(w, p),
         NEW r, IsReceipt(r), ScriptedStep(w, r, p.version + 1), NEW q, Counted(p, r, q)
  PROVE  Stage(w, q)
<1> DEFINE v == p.version
           i == v + 1
<1>1. v \in Nat /\ q.version = i /\ q.last = r.at /\ Ops(q) = Ops(p) \cup {r.op}
  BY SoundFacts DEF Counted
<1>2. r.op = <<"script", i>> /\ r.at = ScriptDate(w, i)
  BY StepNumbered DEF Numbered
<1>3. r.at <= ScriptDate(w, i)
  <2>1. r.at \in Nat
    BY FieldTypes
  <2> QED BY <1>2, <2>1
<1>4. ASSUME NEW o \in Ops(q) PROVE \E j \in 1 .. i : o = <<"script", j>>
  <2>1. CASE o \in Ops(p)
    <3>1. PICK j \in 1 .. v : o = <<"script", j>>
      BY <2>1 DEF Stage
    <3>2. j \in 1 .. i
      BY <1>1
    <3> QED BY <3>1, <3>2
  <2>2. CASE o = r.op
    <3>1. i \in 1 .. i
      BY <1>1
    <3> QED BY <1>2, <2>2, <3>1
  <2> QED BY <1>1, <2>1, <2>2
<1>5. IF w = "STRESS" THEN Stressed(q) ELSE Accruable(q)
  BY StressKept, ReplayKept DEF ScriptedStep
<1> HIDE DEF i
<1> QED BY <1>1, <1>2, <1>3, <1>4, <1>5 DEF Stage

(* What is left of a script continues where the portfolio stands.             *)
ScriptHolds(w, p, pl) ==
  /\ Tracked(w, p)
  /\ pl.receipts # << >> =>
       /\ pl.base = 0 /\ pl.done = p.version /\ Stage(w, p)
       /\ \A i \in DOMAIN pl.receipts : ScriptedStep(w, pl.receipts[i], p.version + i)

LEMMA ScriptBegins ==
  ASSUME NEW w \in {"STRESS", "REPLAY"}
  PROVE  ScriptHolds(w, CreatePortfolio(Opening), [NoPlan EXCEPT !.receipts = ScriptOf(w)])
<1> DEFINE p == CreatePortfolio(Opening)
           s == ScriptOf(w)
           pl == [NoPlan EXCEPT !.receipts = s]
<1>1. /\ p.version = 0 /\ p.last = 0 /\ p.costs = {} /\ p.positions = {} /\ p.allowances = {}
      /\ p.reservations = {} /\ p.receivables = {} /\ p.applied = << >>
  BY DEF CreatePortfolio
<1> HIDE DEF p
<1>2. Ops(p) = {}
  <2>1. DOMAIN << >> = {}
    OBVIOUS
  <2> QED BY <1>1, <2>1 DEF Ops
<1>3. Tracked(w, p)
  BY <1>1 DEF Tracked
<1>4. pl.receipts = s /\ pl.base = 0 /\ pl.done = 0
  <2> HIDE DEF s
  <2> QED BY DEF NoPlan
<1>5. \A i \in DOMAIN s : i \in Nat \ {0} /\ ScriptedStep(w, s[i], i)
  BY ScriptSteps
<1> HIDE DEF pl, s
<1>6. \A i \in DOMAIN s : ScriptedStep(w, s[i], 0 + i)
  <2> TAKE i \in DOMAIN s
  <2>1. 0 + i = i
    BY <1>5
  <2> QED BY <1>5, <2>1
<1>7. Stage(w, p)
  <2>1. p.last <= ScriptDate(w, p.version)
    BY <1>1 DEF ScriptDate
  <2>2. Stressed(p) /\ Accruable(p)
    BY <1>1 DEF Stressed, Accruable
  <2> QED BY <1>2, <2>1, <2>2 DEF Stage
<1>8. ScriptHolds(w, p, pl)
  BY <1>1, <1>3, <1>4, <1>6, <1>7 DEF ScriptHolds
<1> QED BY <1>8 DEF p, pl, s

(* The next step of a script.                                                 *)
LEMMA ScriptReady ==
  ASSUME NEW w \in {"STRESS", "REPLAY"}, NEW p, Sound(p), NEW pl, PlanFits(pl),
         ScriptHolds(w, p, pl), pl.receipts # << >>
  PROVE  LET r == Head(pl.receipts)
         IN  /\ IsReceipt(r) /\ ScriptedStep(w, r, p.version + 1) /\ Tracked(w, p) /\ Stage(w, p)
             /\ r.op \notin Ops(p) /\ r.version = p.version /\ p.last <= r.at
             /\ Adapted(w, r) /\ IsPair(r.op) /\ pl.base + pl.done = p.version
<1> DEFINE r == Head(pl.receipts)
           s == pl.receipts
           v == p.version
           i == v + 1
<1>1. IsReceipt(r) /\ r = s[1] /\ 1 \in DOMAIN s
  BY RestFits, RestOf DEF PlanFits
<1> HIDE DEF r
<1>2. ScriptedStep(w, r, i) /\ Tracked(w, p) /\ Stage(w, p) /\ pl.base = 0 /\ pl.done = v
  BY <1>1 DEF ScriptHolds
<1>3. v \in Nat /\ p.last \in Nat
  BY SoundFacts
<1>4. r.op = <<"script", i>> /\ r.version = i - 1 /\ r.at = ScriptDate(w, i)
  BY <1>2, StepNumbered DEF Numbered
<1>5. r.op \notin Ops(p)
  <2> SUFFICES ASSUME NEW j \in 1 .. v PROVE r.op # <<"script", j>>
    BY <1>2 DEF Stage
  <2>1. i # j
    BY <1>3
  <2> QED BY <1>4, <2>1
<1>6. i - 1 = v /\ 0 + v = v
  BY <1>3
<1>7. p.last <= r.at
  <2>1. p.last <= ScriptDate(w, v)
    BY <1>2 DEF Stage
  <2>2. ScriptDate(w, v) <= ScriptDate(w, i) /\ ScriptDate(w, v) \in Nat /\ ScriptDate(w, i) \in Nat
    BY <1>3 DEF ScriptDate
  <2> QED BY <1>3, <1>4, <2>1, <2>2
<1>8. Adapted(w, r) /\ IsPair(r.op)
  BY <1>2, StepAdapted
<1> QED BY <1>1, <1>2, <1>4, <1>5, <1>6, <1>7, <1>8 DEF r

LEMMA NoScriptHolds ==
  ASSUME NEW w, NEW p, Tracked(w, p)
  PROVE  ScriptHolds(w, p, NoPlan)
<1>1. NoPlan.receipts = << >>
  BY DEF NoPlan
<1> HIDE DEF NoPlan
<1> QED BY <1>1 DEF ScriptHolds

LEMMA ScriptNext ==
  ASSUME NEW w \in {"STRESS", "REPLAY"}, NEW p, Sound(p), NEW pl, PlanFits(pl),
         ScriptHolds(w, p, pl), pl.receipts # << >>
  PROVE  LET a == ApplyReceipt(p, Head(pl.receipts))
         IN  ScriptHolds(w, a.portfolio,
                       IF a.faults = {}
                       THEN [pl EXCEPT !.receipts = Tail(pl.receipts), !.done = pl.done + 1]
                       ELSE NoPlan)
<1> DEFINE s == pl.receipts
           r == Head(s)
           t == Tail(s)
           a == ApplyReceipt(p, r)
           q == a.portfolio
           m == pl.done + 1
           v == p.version
           rest == [pl EXCEPT !.receipts = t, !.done = m]
<1>1. /\ IsReceipt(r) /\ ScriptedStep(w, r, v + 1) /\ Tracked(w, p) /\ Stage(w, p)
      /\ r.op \notin Ops(p) /\ Adapted(w, r) /\ pl.base + pl.done = v
  BY ScriptReady
<1>2. Tracked(w, q)
  <2> HIDE DEF r
  <2> QED BY <1>1, TrackedKept
<1>3. CASE a.faults # {}
  <2> HIDE DEF a
  <2>1. ScriptHolds(w, q, NoPlan)
    BY <1>2, NoScriptHolds
  <2> QED BY <1>3, <2>1 DEF a
<1>4. CASE a.faults = {}
  <2>1. rest.receipts = t /\ rest.done = m /\ rest.base = pl.base
    <3>1. pl = [receipts |-> pl.receipts, base |-> pl.base, since |-> pl.since, done |-> pl.done]
      BY DEF PlanFits
    <3> HIDE DEF t, m
    <3> QED BY <3>1
  <2> HIDE DEF rest
  <2>2. Counted(p, r, q)
    <3> HIDE DEF r
    <3> QED BY <1>1, <1>4, CountsOrNot
  <2>3. Stage(w, q)
    <3> HIDE DEF a, r
    <3> QED BY <1>1, <2>2, StageKept
  <2>4. q.version = v + 1 /\ v \in Nat /\ pl.base = 0 /\ pl.done = v
    BY <2>2, SoundFacts DEF Counted, ScriptHolds
  <2>5. \A i \in DOMAIN t : i \in Nat /\ i + 1 \in DOMAIN s /\ t[i] = s[i + 1]
    <3>1. ReceiptsFit(s)
      BY DEF PlanFits
    <3>2. /\ DOMAIN t = 1 .. Len(s) - 1
          /\ \A i \in DOMAIN t : i + 1 \in DOMAIN s /\ t[i] = s[i + 1]
      BY <3>1, RestOf
    <3>3. \A i \in 1 .. Len(s) - 1 : i \in Nat
      OBVIOUS
    <3> QED BY <3>2, <3>3
  <2> HIDE DEF a, t, r
  <2>6. ASSUME NEW i \in DOMAIN t PROVE ScriptedStep(w, t[i], q.version + i)
    <3>1. ScriptedStep(w, s[i + 1], v + (i + 1))
      BY <2>5 DEF ScriptHolds
    <3>2. v + (i + 1) = q.version + i
      BY <2>4, <2>5
    <3> QED BY <2>5, <3>1, <3>2
  <2>7. m = q.version
    BY <2>4
  <2> HIDE DEF m
  <2>8. ScriptHolds(w, q, rest)
    BY <1>2, <2>1, <2>3, <2>4, <2>6, <2>7 DEF ScriptHolds
  <2> QED BY <1>4, <2>8 DEF rest, a, t, r, m
<1> QED BY <1>3, <1>4

-----------------------------------------------------------------------------
(* Why the next receipt of a plan that was not overtaken is refused.          *)
ReceiptReasons(p, pl, r) ==
  {"CASH", "INSOLVENT", "CONFLICT", "CLOSED"}
    \cup Fault(Outgrown(p, r), "OVERFLOW")
    \cup Fault(r.kind = "ACCRUE" \/ r.at < pl.since, "TIME")

LEMMA CurrentFits ==
  ASSUME NEW w, NEW p, Sound(p), Tracked(w, p), NEW r, IsReceipt(r), Adapted(w, r),
         Found(p, r), Allowed(w, p, r), r.version = p.version,
         NEW pl, p.last <= r.at \/ r.at < pl.since
  PROVE  ApplyReceipt(p, r).faults \subseteq ReceiptReasons(p, pl, r)
<1>1. ApplyReceipt(p, r).faults \subseteq
           {"CASH", "INSOLVENT", "CONFLICT", "CLOSED"}
             \cup Fault(Outgrown(p, r), "OVERFLOW")
             \cup Fault(r.kind = "ACCRUE" \/ r.at < p.last, "TIME")
  BY AdaptedMatches, MatchFits
<1>2. r.at < p.last => r.at < pl.since
  <2>1. r.at \in Nat /\ p.last \in Nat
    BY SoundFacts, FieldTypes
  <2> QED BY <2>1
<1>3. Fault(r.kind = "ACCRUE" \/ r.at < p.last, "TIME")
        \subseteq Fault(r.kind = "ACCRUE" \/ r.at < pl.since, "TIME")
  BY <1>2 DEF Fault
<1> QED BY <1>1, <1>3 DEF ReceiptReasons

LEMMA PlanReceiptFits ==
  ASSUME NEW w, NEW p, Sound(p), NEW k, NEW pl, PlanFits(pl), PlanHolds(w, p, pl, k),
         pl.receipts # << >>, p.version = pl.base + pl.done
  PROVE  LET r == Head(pl.receipts)
         IN  ApplyReceipt(p, r).faults \subseteq ReceiptReasons(p, pl, r)
<1> DEFINE r == Head(pl.receipts)
<1>1. IsReceipt(r) /\ r = pl.receipts[1] /\ 1 \in DOMAIN pl.receipts
  BY RestFits, RestOf DEF PlanFits
<1>2. /\ Tracked(w, p) /\ Adapted(w, r) /\ Found(p, r) /\ Allowed(w, p, r)
      /\ r.version = p.version /\ (p.last <= r.at \/ r.at < pl.since)
  BY <1>1 DEF PlanHolds, Current
<1> HIDE DEF r
<1>3. ApplyReceipt(p, r).faults \subseteq ReceiptReasons(p, pl, r)
  BY <1>1, <1>2, CurrentFits
<1> QED BY <1>3 DEF r

LEMMA ScriptReceiptFits ==
  ASSUME NEW w \in {"STRESS", "REPLAY"}, w \in Workloads, NEW p, Sound(p), NEW pl, PlanFits(pl),
         ScriptHolds(w, p, pl), pl.receipts # << >>
  PROVE  LET r == Head(pl.receipts)
         IN  ApplyReceipt(p, r).faults \subseteq ReceiptReasons(p, pl, r)
<1> DEFINE r == Head(pl.receipts)
<1>1. /\ IsReceipt(r) /\ ScriptedStep(w, r, p.version + 1) /\ Tracked(w, p) /\ Stage(w, p)
      /\ r.version = p.version /\ p.last <= r.at /\ Adapted(w, r)
  BY ScriptReady
<1> HIDE DEF r
<1>2. Found(p, r) /\ Allowed(w, p, r)
  BY <1>1, StageFound
<1>3. ApplyReceipt(p, r).faults \subseteq ReceiptReasons(p, pl, r)
  BY <1>1, <1>2, CurrentFits
<1> QED BY <1>3 DEF r

(* What the plan of a behaviour keeps to, by what built it.                   *)
Plans ==
  /\ work \in Adapting => PlanHolds(work, portfolio, plan, steps)
  /\ Scripted => ScriptHolds(work, portfolio, plan)
  /\ work \in {"DIRECT", "MARKET"} => Idle

LEMMA StandsAt == BooksInv => /\ work \in Workloads /\ work \in AllWorkloads /\ steps \in Nat
                              /\ Sound(portfolio) /\ PlanFits(plan)
BY ScenarioAssumption DEF BooksInv, BooksFit, Bounded, MarketInv, Capitalized

LEMMA PlansInitially == Init => Plans
<1> SUFFICES ASSUME Init PROVE Plans
  OBVIOUS
<1> DEFINE p == CreatePortfolio(Opening)
<1>1. /\ portfolio = p /\ steps = 0
      /\ plan = IF Scripted THEN [NoPlan EXCEPT !.receipts = ScriptOf(work)] ELSE NoPlan
  BY DEF Init
<1>2. CASE Scripted
  <2>1. plan = [NoPlan EXCEPT !.receipts = ScriptOf(work)] /\ work \in {"STRESS", "REPLAY"}
    BY <1>1, <1>2 DEF Scripted
  <2>2. ScriptHolds(work, portfolio, plan)
    BY <1>1, <2>1, ScriptBegins
  <2> QED BY <2>1, <2>2 DEF Plans, Adapting
<1>3. CASE ~Scripted
  <2>1. plan = NoPlan
    BY <1>1, <1>3
  <2>2. p.costs = {} /\ p.positions = {} /\ p.allowances = {} /\ p.reservations = {}
        /\ p.applied = << >>
    BY DEF CreatePortfolio
  <2> HIDE DEF p
  <2>3. Ops(p) = {}
    <3>1. DOMAIN << >> = {}
      OBVIOUS
    <3> QED BY <2>2, <3>1 DEF Ops
  <2>4. Tracked(work, p)
    BY <2>2 DEF Tracked
  <2>5. PlanHolds(work, p, NoPlan, steps)
    BY <2>3, <2>4, NoPlanHolds
  <2>6. NoPlan.receipts = << >>
    BY DEF NoPlan
  <2> HIDE DEF NoPlan
  <2> QED BY <1>1, <1>3, <2>1, <2>5, <2>6 DEF Plans, Idle
<1> QED BY <1>2, <1>3

(* The plan and the portfolio stay as they are.                               *)
LEMMA PlansKept ==
  ASSUME BooksInv, Plans, UNCHANGED <<work, portfolio, plan>>, steps' \in {steps, steps + 1}
  PROVE  Plans'
<1>1. steps \in Nat
  BY StandsAt
<1>2. work \in Adapting => PlanHolds(work, portfolio, plan, steps')
  <2>1. work \in Adapting => PlanHolds(work, portfolio, plan, steps + 1)
    BY <1>1, PlanHoldsLater DEF Plans
  <2> QED BY <2>1 DEF Plans
<1> QED BY <1>2 DEF Plans, Scripted, Idle

(* An adapter built one receipt, or a supply its two.                         *)
LEMMA PlansBuilt ==
  ASSUME BooksInv, Plans, NEW w \in Adapting, Operate(w), NEW answer, Build(answer), BooksFit',
         BuiltOne(w, portfolio, plan'.receipts)
  PROVE  Plans'
<1> DEFINE s == plan'.receipts
<1>1. work = w /\ work' = w /\ steps' = steps + 1 /\ UNCHANGED portfolio /\ steps \in Nat
      /\ Sound(portfolio)
  BY StandsAt DEF Operate, Build
<1>2. plan' = [receipts |-> s, base |-> portfolio.version, since |-> portfolio.last, done |-> 0]
  BY DEF Build
<1>3. ReceiptsFit(s)
  BY DEF BooksFit, PlanFits
<1> HIDE DEF s
<1>4. Tracked(w, portfolio) /\ (w = "AAVE" => \A o \in Ops(portfolio) : Unborn(o, steps))
  BY <1>1 DEF Plans, PlanHolds
<1>5. PlanHolds(w, portfolio, plan', steps)
  BY <1>1, <1>2, <1>3, <1>4, BuiltOneHolds DEF s
<1>6. PlanHolds(w, portfolio, plan', steps + 1)
  BY <1>1, <1>5, PlanHoldsLater
<1> QED BY <1>1, <1>6 DEF Plans, Scripted, Adapting

LEMMA PlansSupplied ==
  ASSUME BooksInv, Plans, PlanSupply, BooksFit'
  PROVE  Plans'
<1> DEFINE s == plan'.receipts
<1>1. /\ work = "AAVE" /\ work' = "AAVE" /\ steps' = steps + 1
      /\ \E answer : Build(answer)
  BY DEF PlanSupply, Operate
<1>2. /\ plan' = [receipts |-> s, base |-> portfolio.version, since |-> portfolio.last, done |-> 0]
      /\ UNCHANGED portfolio
  BY <1>1 DEF Build
<1>3. ReceiptsFit(s) /\ BuiltTwo(portfolio, s, steps)
  BY SupplyBuilt DEF BooksFit, PlanFits
<1> HIDE DEF s
<1>4. Tracked("AAVE", portfolio) /\ \A o \in Ops(portfolio) : Unborn(o, steps)
  BY <1>1 DEF Plans, PlanHolds, Adapting
<1>5. PlanHolds("AAVE", portfolio, plan', steps + 1)
  BY <1>2, <1>3, <1>4, BuiltTwoHolds, StandsAt
<1> QED BY <1>1, <1>2, <1>5 DEF Plans, Scripted, Adapting

(* The next receipt reaches the reducer.                                      *)
LEMMA PlansNext ==
  ASSUME BooksInv, Plans, ApplyNext
  PROVE  Plans' /\ IsPair(Head(plan.receipts).op)
<1> DEFINE r == Head(plan.receipts)
           a == ApplyReceipt(portfolio, r)
           rest == IF a.faults = {}
                   THEN [plan EXCEPT !.receipts = Tail(plan.receipts), !.done = plan.done + 1]
                   ELSE NoPlan
<1>1. /\ plan.receipts # << >> /\ portfolio' = a.portfolio /\ plan' = rest
      /\ UNCHANGED <<work, steps>>
  BY DEF ApplyNext, Idle
<1>2. work \in AllWorkloads /\ work \in Workloads /\ Sound(portfolio) /\ PlanFits(plan)
  BY StandsAt
<1>3. CASE work \in Adapting
  <2>1. PlanHolds(work, portfolio, plan, steps)
    BY <1>3 DEF Plans
  <2>2. PlanHolds(work, a.portfolio, rest, steps)
    BY <1>1, <1>2, <2>1, NextHolds
  <2>3. IsPair(r.op)
    <3>1. r = plan.receipts[1] /\ 1 \in DOMAIN plan.receipts
      BY <1>1, <1>2, RestOf DEF PlanFits
    <3> QED BY <2>1, <3>1 DEF PlanHolds, Paired
  <2> HIDE DEF a, rest, r
  <2>4. Plans'
    BY <1>1, <1>3, <2>2 DEF Plans, Scripted, Adapting
  <2> QED BY <2>3, <2>4 DEF r
<1>4. CASE Scripted
  <2>1. ScriptHolds(work, portfolio, plan) /\ work \in {"STRESS", "REPLAY"}
    BY <1>4 DEF Plans, Scripted
  <2>2. ScriptHolds(work, a.portfolio, rest)
    BY <1>1, <1>2, <2>1, ScriptNext
  <2>3. IsPair(r.op)
    BY <1>1, <1>2, <2>1, ScriptReady
  <2> HIDE DEF a, rest, r
  <2>4. Plans'
    BY <1>1, <2>1, <2>2 DEF Plans, Scripted, Adapting
  <2> QED BY <2>3, <2>4 DEF r
<1>5. CASE work \in {"DIRECT", "MARKET"}
  BY <1>1, <1>5 DEF Plans, Idle
<1> QED BY <1>2, <1>3, <1>4, <1>5 DEF AllWorkloads, Adapting, Scripted

(* A checkpoint accrues between the receipts of a plan.                       *)
LEMMA PlansCheckpoint ==
  ASSUME BooksInv, MarksFit(marks), Histories(Len(marks)), Plans, TakeCheckpoint
  PROVE  Plans'
<1>1. /\ UNCHANGED <<work, plan>> /\ steps' = steps + 1 /\ ~Scripted
      /\ portfolio' = Accrued(portfolio).portfolio /\ CheckpointFaults = {}
  BY DEF TakeCheckpoint, Operate, Store
<1>2. Accrued(portfolio).faults = {}
  <2>1. AccrualFaults(Accrued(portfolio)) \subseteq CheckpointFaults
    BY DEF CheckpointFaults
  <2> QED BY <1>1, <2>1 DEF AccrualFaults
<1>3. Historic(portfolio) /\ Len(marks) \in Nat
  BY HistoricIs, SequenceFacts DEF Histories, MarksFit
<1>4. steps \in Nat /\ Sound(portfolio) /\ ReceiptsFit(plan.receipts)
  BY StandsAt DEF PlanFits
<1>5. ASSUME work \in Adapting
      PROVE  PlanHolds(work, Accrued(portfolio).portfolio, plan, steps + 1)
  <2>1. PlanHolds(work, portfolio, plan, steps)
    BY <1>5 DEF Plans
  <2>2. PlanHolds(work, Accrued(portfolio).portfolio, plan, steps)
    BY <1>2, <1>3, <1>4, <2>1, CheckpointHolds
  <2> QED BY <1>4, <2>2, PlanHoldsLater
<1> QED BY <1>1, <1>5 DEF Plans, Scripted, Idle

(* The inductive invariant.                                                   *)
FitsInv ==
  /\ ExplainedInv
  /\ Histories(Len(marks)) /\ QuoteBound(quote) /\ Plans

LEMMA FitsInitially == Init => FitsInv
<1> SUFFICES ASSUME Init PROVE FitsInv
  OBVIOUS
<1>1. ExplainedInv /\ Plans
  BY ExplainedInitially, PlansInitially
<1>2. /\ portfolio = CreatePortfolio(Opening) /\ references = MakeReferences(portfolio)
      /\ quote = None
  BY DEF Init
<1>3. Histories(Len(marks))
  BY <1>2, OpeningHistory DEF Histories, MakeReferences
<1> QED BY <1>1, <1>2, <1>3 DEF FitsInv, QuoteBound

(* What an operation leaves that neither touches a portfolio nor a mark.      *)
LEMMA HistoriesKept ==
  ASSUME Histories(Len(marks)), UNCHANGED <<portfolio, references, marks>>
  PROVE  Histories(Len(marks))'
BY DEF Histories

LEMMA PlansStep ==
  ASSUME FitsInv, Next, BooksFit'
  PROVE  Plans'
<1>1. BooksInv /\ Plans /\ QuoteBound(quote) /\ MarksFit(marks) /\ Histories(Len(marks))
  BY DEF FitsInv, ExplainedInv
<1>2. ASSUME NEW w \in Adapting, Operate(w) PROVE Tracked(w, portfolio)
  BY <1>1, <1>2 DEF Plans, PlanHolds, Operate
<1>3. CASE PlanSupply
  BY <1>1, <1>3, PlansSupplied
<1>4. CASE AccruePosition
  <2>1. BuiltOne("AAVE", portfolio, plan'.receipts) /\ Operate("AAVE") /\ "AAVE" \in Adapting
    BY <1>1, <1>4, AccrualBuilt DEF AccruePosition, Adapting
  <2>2. \E answer : Build(answer)
    BY <1>4 DEF AccruePosition
  <2> QED BY <1>1, <2>1, <2>2, PlansBuilt
<1>5. CASE WithdrawPosition
  <2>1. Operate("AAVE") /\ "AAVE" \in Adapting
    BY <1>5 DEF WithdrawPosition, Adapting
  <2>2. BuiltOne("AAVE", portfolio, plan'.receipts)
    BY <1>1, <1>2, <1>5, <2>1, WithdrawalBuilt
  <2>3. \E answer : Build(answer)
    BY <1>5 DEF WithdrawPosition
  <2> QED BY <1>1, <2>1, <2>2, <2>3, PlansBuilt
<1>6. CASE EnterVault
  <2>1. BuiltOne("VAULT", portfolio, plan'.receipts) /\ Operate("VAULT") /\ "VAULT" \in Adapting
    BY <1>1, <1>6, VaultEntryBuilt DEF EnterVault, Adapting
  <2>2. \E answer : Build(answer)
    BY <1>6 DEF EnterVault
  <2> QED BY <1>1, <2>1, <2>2, PlansBuilt
<1>7. CASE ExitVault
  <2>1. Operate("VAULT") /\ "VAULT" \in Adapting
    BY <1>7 DEF ExitVault, Adapting
  <2>2. BuiltOne("VAULT", portfolio, plan'.receipts)
    BY <1>1, <1>2, <1>7, <2>1, VaultExitBuilt
  <2>3. \E answer : Build(answer)
    BY <1>7 DEF ExitVault
  <2> QED BY <1>1, <2>1, <2>2, <2>3, PlansBuilt
<1>8. CASE ApproveSwap
  <2>1. BuiltOne("SWAP", portfolio, plan'.receipts) /\ Operate("SWAP") /\ "SWAP" \in Adapting
    BY <1>1, <1>8, SwapApprovalBuilt DEF ApproveSwap, Adapting
  <2>2. \E answer : Build(answer)
    BY <1>8 DEF ApproveSwap
  <2> QED BY <1>1, <2>1, <2>2, PlansBuilt
<1>9. CASE SwapCash
  <2>1. BuiltOne("SWAP", portfolio, plan'.receipts) /\ Operate("SWAP") /\ "SWAP" \in Adapting
    BY <1>1, <1>9, SwapBuilt DEF SwapCash, Adapting
  <2>2. \E answer : Build(answer)
    BY <1>9 DEF SwapCash
  <2> QED BY <1>1, <2>1, <2>2, PlansBuilt
<1>10. CASE ApplyNext
  BY <1>1, <1>10, PlansNext
<1>11. CASE TakeCheckpoint
  BY <1>1, <1>11, PlansCheckpoint
<1>12. CASE Deliver
  <2>1. work = "DIRECT" /\ work' = work /\ UNCHANGED plan
    BY <1>12 DEF Deliver, Operate
  <2> QED BY <1>1, <2>1 DEF Plans, Idle, Scripted, Adapting
<1>13. CASE EnterReference
  <2>1. UNCHANGED <<work, portfolio, plan>> /\ steps' = steps + 1
    BY <1>13 DEF EnterReference, Operate
  <2> QED BY <1>1, <2>1, PlansKept
<1>14. CASE CaptureVault
  <2>1. UNCHANGED <<work, portfolio, plan>> /\ steps' = steps + 1
    BY <1>14 DEF CaptureVault, Operate
  <2> QED BY <1>1, <2>1, PlansKept
<1>15. CASE UseVault \/ FillVault
  <2>1. UNCHANGED <<work, portfolio, plan>> /\ steps' = steps + 1
    BY <1>15 DEF UseVault, FillVault, Operate, bookVars
  <2> QED BY <1>1, <2>1, PlansKept
<1>16. CASE Diagnose \/ Tick
  <2>1. UNCHANGED <<work, portfolio, plan, steps>>
    BY <1>16 DEF Diagnose, Tick, bookVars
  <2> QED BY <1>1, <2>1, PlansKept
<1> QED
  BY <1>3, <1>4, <1>5, <1>6, <1>7, <1>8, <1>9, <1>10, <1>11, <1>12, <1>13, <1>14,
     <1>15, <1>16 DEF Next

LEMMA HistoriesStep ==
  ASSUME FitsInv, Next
  PROVE  Histories(Len(marks))'
<1>1. BooksInv /\ Plans /\ MarksFit(marks) /\ Histories(Len(marks))
  BY DEF FitsInv, ExplainedInv
<1>2. PICK h : h = Len(marks)
  OBVIOUS
<1>3. Histories(h)
  BY <1>1, <1>2 DEF Histories
<1>4. Histories(h)' /\ UNCHANGED marks => Histories(Len(marks))'
  BY <1>2 DEF Histories
<1>5. CASE TakeCheckpoint
  BY <1>1, <1>5, CheckpointHistories
<1>6. CASE ApplyNext
  <2>1. UNCHANGED marks
    BY <1>6 DEF ApplyNext
  <2> QED BY <1>1, <1>3, <1>4, <1>6, <2>1, PlansNext, NextHistory
<1>7. CASE Deliver
  <2>1. UNCHANGED marks
    BY <1>7 DEF Deliver
  <2> QED BY <1>1, <1>3, <1>4, <1>7, <2>1, DeliveryHistory
<1>8. CASE EnterReference
  <2>1. UNCHANGED marks
    BY <1>8 DEF EnterReference
  <2> QED BY <1>1, <1>3, <1>4, <1>8, <2>1, ReferenceEntryHistory
<1>9. CASE Diagnose
  <2>1. UNCHANGED marks
    BY <1>9 DEF Diagnose
  <2> QED BY <1>1, <1>3, <1>4, <1>9, <2>1, DiagnosisHistory
<1>10. CASE \/ PlanSupply \/ AccruePosition \/ WithdrawPosition \/ EnterVault \/ ExitVault
            \/ ApproveSwap \/ SwapCash
  <2>1. \E answer : Build(answer)
    BY <1>10 DEF PlanSupply, AccruePosition, WithdrawPosition, EnterVault, ExitVault,
                 ApproveSwap, SwapCash
  <2>2. UNCHANGED <<portfolio, references, marks>>
    BY <2>1 DEF Build
  <2> QED BY <1>1, <2>2, HistoriesKept
<1>11. CASE CaptureVault \/ UseVault \/ FillVault \/ Tick
  <2>1. UNCHANGED <<portfolio, references, marks>>
    BY <1>11 DEF CaptureVault, UseVault, FillVault, Tick, bookVars
  <2> QED BY <1>1, <2>1, HistoriesKept
<1> QED BY <1>5, <1>6, <1>7, <1>8, <1>9, <1>10, <1>11 DEF Next

LEMMA QuoteStep ==
  ASSUME QuoteBound(quote), Next
  PROVE  QuoteBound(quote)'
<1>1. CASE CaptureVault
  <2> DEFINE held == IF Position = {} THEN 0 ELSE The(Position, VaultPosition).shares
  <2>1. PICK amount \in Stakes, entry \in FeeBps, exit \in FeeBps :
        quote' = Archived(
                 [amount |-> amount, shares |-> ConvertToShares(amount),
                  assets |-> ConvertToAssets(held), depositFee |-> entry, redeemFee |-> exit,
                  maxDeposit |-> UintLimit - 1, maxMint |-> UintLimit - 1,
                  maxRedeem |-> shares[Reader], maxWithdraw |-> ConvertToAssets(shares[Reader]),
                  exit |-> TotalAssets])
    BY <1>1 DEF CaptureVault
  <2> DEFINE bound == UintLimit - 1
             body == [amount |-> amount, shares |-> ConvertToShares(amount),
                  assets |-> ConvertToAssets(held), depositFee |-> entry, redeemFee |-> exit,
                  maxDeposit |-> bound, maxMint |-> bound,
                  maxRedeem |-> shares[Reader], maxWithdraw |-> ConvertToAssets(shares[Reader]),
                  exit |-> TotalAssets]
  <2>2. "maxMint" \in DOMAIN body /\ body.maxMint = bound
    OBVIOUS
  <2> HIDE DEF body, bound
  <2>3. Archived(body).maxMint = bound
    BY <2>2, ArchivedFacts
  <2>4. quote' = Archived(body)
    BY <2>1 DEF body, bound
  <2> QED BY <2>3, <2>4 DEF QuoteBound, bound
<1>2. CASE ~CaptureVault
  <2>1. UNCHANGED quote
    <3>1. CASE \/ PlanSupply \/ AccruePosition \/ WithdrawPosition \/ EnterVault \/ ExitVault
               \/ ApproveSwap \/ SwapCash
      <4>1. \E answer : Build(answer)
        BY <3>1 DEF PlanSupply, AccruePosition, WithdrawPosition, EnterVault, ExitVault,
                    ApproveSwap, SwapCash
      <4> QED BY <4>1 DEF Build
    <3>2. CASE EnterReference \/ ApplyNext \/ Deliver \/ TakeCheckpoint \/ Diagnose
      BY <3>2 DEF EnterReference, ApplyNext, Deliver, TakeCheckpoint, Diagnose
    <3>3. CASE UseVault \/ FillVault \/ Tick
      BY <3>3 DEF UseVault, FillVault, Tick, bookVars
    <3> QED BY <1>2, <3>1, <3>2, <3>3 DEF Next
  <2> QED BY <2>1 DEF QuoteBound
<1> QED BY <1>1, <1>2

LEMMA FitsStep ==
  ASSUME FitsInv, [Next]_vars
  PROVE  FitsInv'
<1>1. ExplainedInv' /\ BooksFit'
  BY ExplainedStep DEF FitsInv, ExplainedInv, BooksInv
<1>2. CASE Next
  <2>1. Plans' /\ Histories(Len(marks))'
    BY <1>1, <1>2, PlansStep, HistoriesStep
  <2>2. QuoteBound(quote)'
    BY <1>2, QuoteStep DEF FitsInv
  <2> QED BY <1>1, <2>1, <2>2 DEF FitsInv
<1>3. CASE UNCHANGED vars
  <2>1. UNCHANGED <<work, steps, portfolio, references, plan, quote, marks>>
    BY <1>3 DEF vars, bookVars
  <2>2. Histories(Len(marks))'
    BY <2>1, HistoriesKept DEF FitsInv
  <2>3. Plans'
    BY <2>1, PlansKept DEF FitsInv, ExplainedInv
  <2> QED BY <1>1, <2>1, <2>2, <2>3 DEF FitsInv, QuoteBound
<1> QED BY <1>2, <1>3

LEMMA NextReceiptIsFit ==
  ASSUME FitsInv, ~Idle, ~Overtaken
  PROVE  LET r == Head(plan.receipts)
         IN  ApplyReceipt(portfolio, r).faults \subseteq ReceiptReasons(portfolio, plan, r)
<1>1. BooksInv /\ Plans
  BY DEF FitsInv, ExplainedInv
<1>2. /\ work \in AllWorkloads /\ work \in Workloads /\ Sound(portfolio) /\ PlanFits(plan)
      /\ plan.receipts # << >> /\ portfolio.version = plan.base + plan.done
  BY <1>1, StandsAt DEF Idle, Overtaken
<1>3. CASE work \in Adapting
  <2>1. PlanHolds(work, portfolio, plan, steps)
    BY <1>1, <1>3 DEF Plans
  <2> QED BY <1>2, <2>1, PlanReceiptFits
<1>4. CASE Scripted
  <2>1. ScriptHolds(work, portfolio, plan) /\ work \in {"STRESS", "REPLAY"}
    BY <1>1, <1>4 DEF Plans, Scripted
  <2> QED BY <1>2, <2>1, ScriptReceiptFits
<1>5. CASE work \in {"DIRECT", "MARKET"}
  BY <1>1, <1>5 DEF Plans
<1> QED BY <1>2, <1>3, <1>4, <1>5 DEF AllWorkloads, Adapting, Scripted

LEMMA ReceiptsAreFit == FitsInv => BuiltReceiptsFit
<1> SUFFICES ASSUME FitsInv PROVE BuiltReceiptsFit
  OBVIOUS
<1>1. CheckpointFaults \subseteq {"TIME", "OVERFLOW", "PRECEDES", "LIABILITIES", "CLOSED"}
  <2>1. BooksInv /\ Len(marks) \in Nat
    BY SequenceFacts DEF FitsInv, ExplainedInv, MarksFit
  <2>2. \A p \in Portfolios : Historic(p)
    BY HistoricIs DEF FitsInv, Histories, Portfolios
  <2> QED BY <2>1, <2>2, CheckpointFitsIts DEF CheckpointReasons
<1>2. ASSUME ~Idle, ~Overtaken
      PROVE  LET r == Head(plan.receipts)
             IN  ApplyReceipt(portfolio, r).faults \subseteq
                     {"CASH", "INSOLVENT", "CONFLICT", "CLOSED"}
                       \cup Fault(Outgrows(r), "OVERFLOW")
                       \cup Fault(r.kind = "ACCRUE" \/ r.at < plan.since, "TIME")
  <2> DEFINE r == Head(plan.receipts)
  <2>1. ApplyReceipt(portfolio, r).faults \subseteq ReceiptReasons(portfolio, plan, r)
    BY <1>2, NextReceiptIsFit
  <2> HIDE DEF r
  <2>2. Outgrown(portfolio, r) = Outgrows(r)
    BY DEF Outgrown, Outgrows
  <2>3. ApplyReceipt(portfolio, r).faults \subseteq
                     {"CASH", "INSOLVENT", "CONFLICT", "CLOSED"}
                       \cup Fault(Outgrows(r), "OVERFLOW")
                       \cup Fault(r.kind = "ACCRUE" \/ r.at < plan.since, "TIME")
    BY <2>1, <2>2, Zenon DEF ReceiptReasons
  <2> QED BY <2>3 DEF r
<1> QED BY <1>1, <1>2 DEF BuiltReceiptsFit

(* For any figures, quotes and costs and any order of operations: a receipt   *)
(* that an adapter (aaveSupply, aaveWithdraw, aaveAccrue, vaultDeposit,       *)
(* vaultRedeem, uniswapSwap) or a demo diagnostic (buildDemoDiagnostic)       *)
(* built, and that no other receipt overtook, is refused by applyReceipt only *)
(* because the portfolio cannot pay or bear the costs, is closed or dated     *)
(* later, has the operation already, or a number outgrows uint256; and        *)
(* checkpointPortfolio never fails because an accrual repeats an operation or *)
(* its valuation misses a position.                                           *)
THEOREM BuiltReceiptsAreFit == Spec => []BuiltReceiptsFit
<1>1. FitsInv /\ [Next]_vars => FitsInv'
  BY FitsStep
<1> QED BY <1>1, FitsInitially, ReceiptsAreFit, PTL DEF Spec
-----------------------------------------------------------------------------
(* Which reference is compared: the flag of the scenario agrees with what the *)
(* reference paid for, from its entry through every later checkpoint.         *)
LEMMA FailureIs ==
  ASSUME NEW p
  PROVE  FailedEntry(p) <=> <<Reference, "failed">> \in Ops(p)
BY DEF FailedEntry, Ops, Range

(* An entry adds operations of its receipts only, and its last one if it went *)
(* through.                                                                   *)
LEMMA EntryNames ==
  ASSUME NEW p, Sound(p), NEW s, ReceiptsFit(s)
  PROVE  LET q == ApplyAll(p, s).portfolio
         IN  /\ \A o \in Ops(q) : o \in Ops(p) \/ \E i \in DOMAIN s : o = s[i].op
             /\ ApplyAll(p, s).faults = {} /\ Len(s) > 0 => s[Len(s)].op \in Ops(q)
<1> DEFINE n == Len(s)
           f == Entered(p, s, n)
           Named(q) == \A o \in Ops(q) : o \in Ops(p) \/ \E i \in DOMAIN s : o = s[i].op
           Stays(q) == Sound(q) /\ Named(q)
           N == {k \in Nat : k <= n => Stays(f[k].portfolio)}
<1>1. n \in Nat /\ DOMAIN s = 1 .. n
  BY SequenceFacts DEF ReceiptsFit
<1>2. /\ f[0] = Outcome(p, {})
      /\ \A i \in 1 .. n : f[i] = ApplyReceipt(f[i - 1].portfolio, s[i])
  BY <1>1, EnteredFacts
<1>3. ApplyAll(p, s) = f[n]
  BY DEF ApplyAll, Entered
<1> HIDE DEF f, n
<1>4. 0 \in N
  BY <1>2 DEF Outcome
<1>5. ASSUME NEW i \in 1 .. n, Sound(f[i - 1].portfolio)
      PROVE  LET g == f[i - 1].portfolio
             IN  /\ Sound(f[i].portfolio) /\ Ops(f[i].portfolio) \subseteq Ops(g) \cup {s[i].op}
                 /\ f[i].faults = {} => s[i].op \in Ops(f[i].portfolio)
  <2> DEFINE g == f[i - 1].portfolio
             r == s[i]
             a == ApplyReceipt(g, r)
  <2>1. f[i] = a
    BY <1>2
  <2>2. Sound(g) /\ IsReceipt(r)
    BY <1>1, <1>5 DEF ReceiptsFit
  <2> HIDE DEF g, r
  <2>3. Sound(a.portfolio)
    BY <2>2, ReceiptsKeepBooksSound
  <2>4. /\ a.portfolio = g \/ (a.faults = {} /\ Counted(g, r, a.portfolio))
        /\ a.faults = {} /\ r.op \notin Ops(g) => Counted(g, r, a.portfolio)
    BY <2>2, CountsOrNot
  <2> HIDE DEF a
  <2>5. Counted(g, r, a.portfolio) => Ops(a.portfolio) = Ops(g) \cup {r.op}
    BY DEF Counted
  <2>6. Ops(a.portfolio) \subseteq Ops(g) \cup {r.op}
    BY <2>4, <2>5
  <2>7. a.faults = {} => r.op \in Ops(a.portfolio)
    BY <2>4, <2>5
  <2> QED BY <2>1, <2>3, <2>6, <2>7 DEF g, r
<1>6. \A k \in N : k + 1 \in N
  <2> SUFFICES ASSUME NEW k \in N, k + 1 <= n PROVE Stays(f[k + 1].portfolio)
    OBVIOUS
  <2>1. Stays(f[k].portfolio) /\ k + 1 \in 1 .. n /\ (k + 1) - 1 = k
    BY <1>1
  <2>2. /\ Sound(f[k + 1].portfolio)
        /\ Ops(f[k + 1].portfolio) \subseteq Ops(f[k].portfolio) \cup {s[k + 1].op}
    BY <1>5, <2>1
  <2>3. k + 1 \in DOMAIN s
    BY <1>1, <2>1
  <2>4. Named(f[k + 1].portfolio)
    BY <2>1, <2>2, <2>3
  <2> QED BY <2>2, <2>4
<1>7. N \in SUBSET Nat
  OBVIOUS
<1>8. \A k \in 0 .. n : Stays(f[k].portfolio)
  <2>1. N = Nat
    <3> HIDE DEF N
    <3> QED BY <1>4, <1>6, <1>7, Induction
  <2> QED BY <1>1, <2>1
<1>9. n > 0 /\ f[n].faults = {} => s[n].op \in Ops(f[n].portfolio)
  <2> SUFFICES ASSUME n > 0, f[n].faults = {} PROVE s[n].op \in Ops(f[n].portfolio)
    OBVIOUS
  <2>1. n \in 1 .. n /\ n - 1 \in 0 .. n
    BY <1>1
  <2> QED BY <1>5, <1>8, <2>1
<1>10. Named(f[n].portfolio)
  BY <1>1, <1>8
<1> QED BY <1>3, <1>9, <1>10 DEF n

(* Accruals are not named for an entry.                                       *)
LEMMA AccrualsTellNothing ==
  ASSUME BooksInv, NEW p, Sound(p), Historic(p), Len(marks) \in Nat
  PROVE  FailedEntry(Accrued(p).portfolio) <=> FailedEntry(p)
<1> DEFINE q == Accrued(p).portfolio
           o == <<Reference, "failed">>
<1>1. /\ \E s, m : \A x \in Ops(q) : x \in Ops(p) \/ \E j \in 1 .. m : x = AccrualOf(s[j])
      /\ Ops(p) \subseteq Ops(q)
  BY AccruedAll DEF Halfway
<1>2. IsPair(o)
  BY DEF IsPair
<1> HIDE DEF q, o
<1>3. \A x : o # AccrualOf(x)
  BY <1>2, PairApart DEF AccrualOf
<1>4. o \in Ops(q) <=> o \in Ops(p)
  BY <1>1, <1>3
<1> QED BY <1>4, FailureIs DEF q, o

(* What CheckpointsExplained says of the comparison.                          *)
ComparedAs(c) ==
  LET e == c.evaluation
  IN  IF FailedEntry(c.yield) THEN e.vsYield = None /\ e.excessVsYield = None
                              ELSE e.vsYield = e.agent.mark - e.yield.mark

(* Diagnostics replace the portfolio of the reference and compare nothing.    *)
EntryKnown ==
  ~Scripted => (FailedEntry(references.yield.portfolio) <=> ~YieldAvailable)

(* The inductive invariant.                                                   *)
ComparedInv ==
  /\ FitsInv
  /\ EntryKnown
  /\ checkpoint # None => ComparedAs(checkpoint)

LEMMA ComparedInitially == Init => ComparedInv
<1> SUFFICES ASSUME Init PROVE ComparedInv
  OBVIOUS
<1>1. FitsInv /\ checkpoint = None
  BY FitsInitially DEF Init
<1>2. /\ references.yield.portfolio = CreatePortfolio(Opening)
      /\ references.yield.available = TRUE
  BY DEF Init, MakeReferences
<1>3. CreatePortfolio(Opening).applied = << >>
  BY DEF CreatePortfolio
<1>4. ~FailedEntry(references.yield.portfolio)
  BY <1>2, <1>3 DEF FailedEntry, Range
<1> QED BY <1>1, <1>2, <1>4 DEF ComparedInv, EntryKnown, YieldAvailable

LEMMA EntryTells ==
  ASSUME BooksInv, EnterReference
  PROVE  FailedEntry(references'.yield.portfolio) <=> ~YieldAvailable'
<1>1. PICK c, y, a, b :
        /\ references = [cash |-> [portfolio |-> c, available |-> a],
                         yield |-> [portfolio |-> y, available |-> b]]
        /\ Capitalized(y)
  BY DEF BooksInv, BooksFit, ReferencesFit
<1>2. references.yield.portfolio = y /\ Sound(y) /\ y.version = 0
  BY <1>1 DEF Capitalized, EnterReference
<1>3. PICK failed \in BOOLEAN, reserve \in Reserves :
        LET entry == ReferenceEntry(references.yield.portfolio.initial, reserve)
            entered == ApplyAll(references.yield.portfolio, EntryReceipts(entry, failed))
        IN  /\ entry.faults = {} /\ entered.faults = {}
            /\ references' = [references EXCEPT !.yield =
                                [portfolio |-> entered.portfolio, available |-> ~failed]]
  BY DEF EnterReference
<1> DEFINE capital == y.initial
           entry == ReferenceEntry(capital, reserve)
           s == EntryReceipts(entry, failed)
           q == ApplyAll(y, s).portfolio
           o == <<Reference, "failed">>
<1>4. capital \in Nat /\ capital # 0
  BY <1>1, CapitalIs DEF Capitalized
<1>5. ReceiptsFit(s) /\ TellsFailure(s, failed)
  <2>1. ReferenceEntry(capital, reserve).faults = {}
    BY <1>2, <1>3
  <2> HIDE DEF capital
  <2> QED BY <1>4, <2>1, EntryPaired
<1>6. /\ references' = [references EXCEPT !.yield = [portfolio |-> q, available |-> ~failed]]
      /\ ApplyAll(y, s).faults = {}
  BY <1>2, <1>3
<1> HIDE DEF s
<1>7. /\ \A x \in Ops(q) : x \in Ops(y) \/ \E i \in DOMAIN s : x = s[i].op
      /\ Len(s) > 0 => s[Len(s)].op \in Ops(q)
  BY <1>2, <1>5, <1>6, EntryNames
<1>8. Ops(y) = {}
  <2>1. DOMAIN y.applied = 1 .. 0
    BY <1>2, SoundFacts, SequenceFacts
  <2> QED BY <2>1 DEF Ops
<1> HIDE DEF q, o
<1>9. o \in Ops(q) <=> failed
  BY <1>5, <1>7, <1>8 DEF TellsFailure, o
<1>10. references'.yield.portfolio = q /\ references'.yield.available = ~failed
  BY <1>1, <1>6
<1> QED BY <1>9, <1>10, FailureIs DEF YieldAvailable, o

LEMMA CheckpointCompares ==
  ASSUME FitsInv, EntryKnown, TakeCheckpoint
  PROVE  EntryKnown' /\ ComparedAs(checkpoint')
<1> DEFINE agent == Accrued(portfolio).portfolio
           cash == Accrued(references.cash.portfolio).portfolio
           yield == Accrued(references.yield.portfolio).portfolio
           e == Evaluation(agent, cash, yield)
<1>1. PICK c, y, a, b :
        /\ references = [cash |-> [portfolio |-> c, available |-> a],
                         yield |-> [portfolio |-> y, available |-> b]]
        /\ Capitalized(y)
  BY DEF FitsInv, ExplainedInv, BooksInv, BooksFit, ReferencesFit
<1>2. references.yield.portfolio = y /\ Sound(y)
  BY <1>1 DEF Capitalized
<1>3. BooksInv /\ Len(marks) \in Nat /\ Historic(y)
  BY <1>2, HistoricIs, SequenceFacts DEF FitsInv, ExplainedInv, MarksFit, Histories
<1>4. FailedEntry(yield) <=> FailedEntry(y)
  BY <1>2, <1>3, AccrualsTellNothing
<1>5. /\ references' = [references EXCEPT !.cash.portfolio = cash, !.yield.portfolio = yield]
      /\ checkpoint' = [agent |-> agent, cash |-> cash, yield |-> yield, evaluation |-> e]
      /\ ~Scripted
  BY DEF TakeCheckpoint, Store
<1> HIDE DEF agent, cash, yield
<1>6. /\ references'.yield.portfolio = yield
      /\ references'.yield.available = references.yield.available
  BY <1>1, <1>5
<1>7. FailedEntry(yield) <=> ~YieldAvailable
  BY <1>2, <1>4, <1>5 DEF EntryKnown
<1>8. /\ YieldAvailable => e.vsYield = e.agent.mark - e.yield.mark
      /\ ~YieldAvailable => e.vsYield = None /\ e.excessVsYield = None
  BY DEF Evaluation, Compared
<1> HIDE DEF e
<1>9. checkpoint'.yield = yield /\ checkpoint'.evaluation = e
  BY <1>5
<1>10. ComparedAs(checkpoint')
  BY <1>7, <1>8, <1>9 DEF ComparedAs
<1>11. EntryKnown'
  BY <1>6, <1>7 DEF EntryKnown, YieldAvailable
<1> QED BY <1>10, <1>11

(* Every other step leaves the references as they are, or is of a diagnostic. *)
LEMMA OthersKeepReferences ==
  ASSUME Next, ~TakeCheckpoint, ~EnterReference
  PROVE  work' = work /\ (UNCHANGED references \/ Scripted)
<1>1. CASE \/ PlanSupply \/ AccruePosition \/ WithdrawPosition \/ EnterVault \/ ExitVault
           \/ ApproveSwap \/ SwapCash
  <2>1. /\ \E answer : Build(answer)
        /\ \E w : Operate(w)
    BY <1>1 DEF PlanSupply, AccruePosition, WithdrawPosition, EnterVault, ExitVault,
                ApproveSwap, SwapCash
  <2> QED BY <2>1 DEF Build, Operate
<1>2. CASE CaptureVault \/ UseVault \/ FillVault \/ Deliver
  BY <1>2 DEF CaptureVault, UseVault, FillVault, Deliver, Operate, bookVars
<1>3. CASE ApplyNext \/ Tick
  BY <1>3 DEF ApplyNext, Tick, bookVars
<1>4. CASE Diagnose
  BY <1>4 DEF Diagnose
<1> QED BY <1>1, <1>2, <1>3, <1>4 DEF Next

LEMMA ComparedStep ==
  ASSUME ComparedInv, [Next]_vars
  PROVE  ComparedInv'
<1>1. FitsInv /\ FitsInv' /\ EntryKnown
  BY FitsStep DEF ComparedInv
<1>2. CASE TakeCheckpoint
  BY <1>1, <1>2, CheckpointCompares DEF ComparedInv
<1>3. CASE EnterReference
  <2>1. UNCHANGED checkpoint
    BY <1>3 DEF EnterReference
  <2>2. EntryKnown'
    BY <1>1, <1>3, EntryTells DEF EntryKnown, FitsInv, ExplainedInv
  <2> QED BY <1>1, <2>1, <2>2 DEF ComparedInv
<1>4. CASE Next /\ ~TakeCheckpoint /\ ~EnterReference
  <2>1. work' = work /\ (UNCHANGED references \/ Scripted)
    BY <1>4, OthersKeepReferences
  <2>2. EntryKnown'
    BY <1>1, <2>1 DEF EntryKnown, YieldAvailable, Scripted
  <2>3. UNCHANGED checkpoint
    BY <1>4, OthersStoreNothing DEF Diagnose
  <2> QED BY <1>1, <2>2, <2>3 DEF ComparedInv
<1>5. CASE UNCHANGED vars
  <2>1. UNCHANGED <<work, references, checkpoint>>
    BY <1>5 DEF vars, bookVars
  <2>2. EntryKnown'
    BY <1>1, <2>1 DEF EntryKnown, YieldAvailable, Scripted
  <2> QED BY <1>1, <2>1, <2>2 DEF ComparedInv
<1> QED BY <1>2, <1>3, <1>4, <1>5

LEMMA FiguresAre == ComparedInv => CheckpointsExplained
<1> SUFFICES ASSUME ComparedInv PROVE CheckpointsExplained
  OBVIOUS
<1>1. checkpoint # None => Explains(checkpoint) /\ ComparedAs(checkpoint)
  BY DEF ComparedInv, FitsInv, ExplainedInv
<1>2. report # None => Reports(report, portfolio)
  BY DEF ComparedInv, FitsInv, ExplainedInv
<1> QED
  BY <1>1, <1>2 DEF CheckpointsExplained, Explains, ComparedAs, FiguresFit, Reports

(* Whatever the history, the figures of a checkpoint are the profit and cost  *)
(* of the portfolios it stored, against the agent and both references, it     *)
(* never counts on more when liquidating, and a drawdown is a share of the    *)
(* peak or null at a peak of nothing (checkpointPortfolio, metrics,           *)
(* evaluateScenario).  A yield reference is compared at a checkpoint exactly  *)
(* when its entry did not fail, however many checkpoints came between         *)
(* (applySyntheticReferenceEntry, comparisonAvailable).  The replay of a demo *)
(* reports the same of its last portfolio, and a transfer in transit just     *)
(* when it closed (replayDemoDiagnostic).                                     *)
THEOREM CheckpointsAreExplained == Spec => []CheckpointsExplained
<1>1. ComparedInv /\ [Next]_vars => ComparedInv'
  BY ComparedStep
<1> QED BY <1>1, ComparedInitially, FiguresAre, PTL DEF Spec
=============================================================================
