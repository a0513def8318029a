------------------------- MODULE HookrRecaptureProofs -------------------------
(* Proofs about HookrRecapture, for every choice of currencies, accounts,    *)
(* rates, periods, release windows and clocks.                               *)
EXTENDS HookrRecapture, AccountingLaws

-----------------------------------------------------------------------------
(* The constants.                                                            *)

\* Rates are parts of Bps, and windows and clocks are positive.
LEMMA ConstantTypes ==
  /\ ProtocolBps \in Nat /\ TraderBps \in Nat /\ PotBps \in Nat /\ RoyaltyBps \in Nat /\ IntegratorBps \in Nat
  /\ PotReleaseBps \in Nat /\ MaxPrizeBps \in Nat /\ Bps \in Nat \ {0} /\ PartnerBps \in Nat /\ PartnerBps < Bps
  /\ TraderBps + PotBps <= Bps /\ PotReleaseBps <= Bps /\ IntegratorBps <= Bps
  /\ ReleaseBlocks \in Nat \ {0} /\ PerSecond \in Nat \ {0} /\ Period \in Nat \ {0}
  /\ FullRelease \in Nat /\ MinBuy \in Nat /\ MaxPart \in Nat
  /\ \A n \in Amounts \cup Spends \cup Fees : n \in Nat \ {0}
  BY RateAssumption, PeriodAssumption, BoundAssumption

\* Who may be owed, and in what.
LEMMA ConstantSets ==
  /\ Quote \in PoolCurrencies /\ Quote \in Currencies /\ \A c \in PoolCurrencies : c \in Currencies
  /\ \A a \in Buyers : a \in Accounts
  /\ \A a \in Accounts : a \in Beneficiaries
  /\ ProtocolRecipient \in Beneficiaries /\ Integrator \in Beneficiaries /\ RoyaltyTo \in Beneficiaries
  /\ NoOne \notin Beneficiaries
  BY CurrencyAssumption, AccountAssumption DEF Beneficiaries

\* The accounts that can be owed are finitely many, so their claims have a sum.
LEMMA BeneficiariesFinite == IsFiniteSet(Beneficiaries)
  <1> DEFINE Others == {ProtocolRecipient, Integrator, RoyaltyTo, LiquidityOwner}
  <1>1. IsFiniteSet({}) /\ IsFiniteSet({} \cup {ProtocolRecipient})
    BY FS_EmptySet, FS_AddElement
  <1>2. IsFiniteSet({} \cup {ProtocolRecipient} \cup {Integrator})
    BY <1>1, FS_AddElement
  <1>3. IsFiniteSet({} \cup {ProtocolRecipient} \cup {Integrator} \cup {RoyaltyTo})
    BY <1>2, FS_AddElement
  <1>4. IsFiniteSet({} \cup {ProtocolRecipient} \cup {Integrator} \cup {RoyaltyTo} \cup {LiquidityOwner})
    BY <1>3, FS_AddElement
  <1>5. Others = {} \cup {ProtocolRecipient} \cup {Integrator} \cup {RoyaltyTo} \cup {LiquidityOwner}
    OBVIOUS
  <1>6. IsFiniteSet(Others)
    BY <1>4, <1>5
  <1> HIDE DEF Others
  <1> QED
    BY <1>6, FS_Union, AccountAssumption DEF Beneficiaries, Others

\* The smaller of two numbers.
LEMMA SmallerOfTwo ==
  ASSUME NEW a \in Int, NEW b \in Int
  PROVE  Min({a, b}) = IF a <= b THEN a ELSE b
  BY DEF Min

\* The larger of two numbers.
LEMMA LargerOfTwo ==
  ASSUME NEW a \in Int, NEW b \in Int
  PROVE  Max({a, b}) = IF a >= b THEN a ELSE b
  BY DEF Max

\* The largest of three numbers is one of them and below none.
LEMMA LargestOfThree ==
  ASSUME NEW a \in Int, NEW b \in Int, NEW c \in Int
  PROVE  /\ Max({a, b, c}) \in {a, b, c}
         /\ Max({a, b, c}) >= a /\ Max({a, b, c}) >= b /\ Max({a, b, c}) >= c
  <1>1. \E m \in {a, b, c} : \A x \in {a, b, c} : m >= x
    OBVIOUS
  <1> QED
    BY <1>1 DEF Max

\* A set of natural numbers that is not empty has a least one.
LEMMA LeastNumber ==
  ASSUME NEW S, \A x \in S : x \in Nat, S # {}
  PROVE  \E m \in S : \A x \in S : m <= x
  <1>1. PICK n \in S : TRUE
    OBVIOUS
  <1> DEFINE T == {d \in 0..n : n - d \in S}
  <1>2. IsFiniteSet(T)
    <2>1. IsFiniteSet(0..n)
      BY FS_Interval
    <2> QED
      BY <2>1, FS_Subset
  <1>3. T # {}
    <2>1. 0 \in T
      OBVIOUS
    <2> QED
      BY <2>1
  <1>4. \A x \in T : x \in Int
    OBVIOUS
  <1>5. \A x \in T : x \in 0..n /\ n - x \in S
    OBVIOUS
  <1>6. \A x \in S : x <= n => n - x \in T
    <2> SUFFICES ASSUME NEW x \in S, x <= n
                 PROVE  n - x \in T
      OBVIOUS
    <2>1. x \in Nat /\ n \in Nat
      BY <1>1
    <2>2. n - (n - x) = x /\ n - x \in 0..n
      BY <2>1
    <2> QED
      BY <2>2
  <1> HIDE DEF T
  <1>7. PICK m \in T : \A x \in T : m >= x
    BY <1>2, <1>3, <1>4, FiniteMaximum
  <1>8. \A x \in S : n - m <= x
    <2> SUFFICES ASSUME NEW x \in S, ~(n - m <= x)
                 PROVE  FALSE
      OBVIOUS
    <2>1. x \in Nat /\ n \in Nat /\ m \in 0..n
      BY <1>1, <1>5, <1>7
    <2>2. x <= n
      BY <2>1
    <2>3. m >= n - x
      BY <1>6, <1>7, <2>2
    <2> QED
      BY <2>1, <2>3
  <1> QED
    BY <1>5, <1>7, <1>8

-----------------------------------------------------------------------------
(* Powers.                                                                   *)

PowerEquation(base, n, g) == g = [m \in 0..n |-> IF m = 0 THEN 1 ELSE base * g[m - 1]]

\* The recursion of Power has a solution, by the smallest exponent that had none.
LEMMA PowerExists ==
  ASSUME NEW base \in Nat
  PROVE  \A n \in Nat : \E g : PowerEquation(base, n, g)
  <1> DEFINE Bad == {n \in Nat : ~\E g : PowerEquation(base, n, g)}
  <1>0. \A x \in Bad : x \in Nat /\ ~\E g : PowerEquation(base, x, g)
    OBVIOUS
  <1>00. \A x \in Nat : x \notin Bad => \E g : PowerEquation(base, x, g)
    OBVIOUS
  <1> SUFFICES ASSUME Bad # {}
               PROVE  FALSE
    OBVIOUS
  <1> HIDE DEF Bad
  <1>1. PICK n \in Bad : \A x \in Bad : n <= x
    BY <1>0, LeastNumber
  <1>2. CASE n = 0
    <2>1. PowerEquation(base, 0, [m \in 0..0 |-> 1])
      BY DEF PowerEquation
    <2> QED
      BY <1>0, <1>2, <2>1
  <1>3. CASE n # 0
    <2>1. n \in Nat /\ n - 1 \in Nat /\ ~(n <= n - 1)
      BY <1>0, <1>3
    <2>2. n - 1 \notin Bad
      BY <1>1, <2>1
    <2>3. PICK g : PowerEquation(base, n - 1, g)
      BY <1>00, <2>1, <2>2
    <2> DEFINE h == [m \in 0..n |-> IF m = 0 THEN 1 ELSE base * g[m - 1]]
    <2>4. \A m \in 0..n - 1 : h[m] = g[m]
      BY <2>1, <2>3 DEF PowerEquation
    <2>5. \A m \in 0..n : m # 0 => m - 1 \in 0..n - 1
      BY <2>1
    <2>6. \A m \in 0..n : m # 0 => base * h[m - 1] = base * g[m - 1]
      BY <2>4, <2>5
    <2>7. \A m \in 0..n : (IF m = 0 THEN 1 ELSE base * g[m - 1]) = (IF m = 0 THEN 1 ELSE base * h[m - 1])
      BY <2>6
    <2>8. h = [m \in 0..n |-> IF m = 0 THEN 1 ELSE base * g[m - 1]]
      OBVIOUS
    <2> HIDE DEF h
    <2>9. h = [m \in 0..n |-> IF m = 0 THEN 1 ELSE base * h[m - 1]]
      BY <2>7, <2>8, Zenon
    <2>10. PowerEquation(base, n, h)
      BY <2>9 DEF PowerEquation
    <2> QED
      BY <1>0, <2>10
  <1> QED
    BY <1>2, <1>3

\* Hence Power is what its recursion says, at every exponent.
LEMMA PowerSolved ==
  ASSUME NEW base \in Nat, NEW n \in Nat
  PROVE  \E g : /\ Power(base, n) = g[n]
                /\ g[0] = 1
                /\ \A m \in 0..n : m # 0 => g[m] = base * g[m - 1]
  <1> DEFINE g == CHOOSE h : PowerEquation(base, n, h)
  <1>1. PowerEquation(base, n, g)
    BY PowerExists
  <1>2. Power(base, n) = g[n]
    BY Zenon DEF Power, PowerEquation
  <1> HIDE DEF g
  <1>3. g[0] = 1 /\ \A m \in 0..n : m # 0 => g[m] = base * g[m - 1]
    BY <1>1 DEF PowerEquation
  <1> QED
    BY <1>2, <1>3

\* A larger base has a larger power; a base above zero has one above zero.
LEMMA PowerMonotone ==
  ASSUME NEW a \in Nat, NEW b \in Nat, a <= b, NEW n \in Nat
  PROVE  /\ Power(a, n) \in Nat /\ Power(b, n) \in Nat /\ Power(a, n) <= Power(b, n)
         /\ b # 0 => Power(b, n) # 0
  <1>1. PICK f : Power(a, n) = f[n] /\ f[0] = 1 /\ \A m \in 0..n : m # 0 => f[m] = a * f[m - 1]
    BY PowerSolved
  <1>2. PICK g : Power(b, n) = g[n] /\ g[0] = 1 /\ \A m \in 0..n : m # 0 => g[m] = b * g[m - 1]
    BY PowerSolved
  <1> DEFINE Good(m) == f[m] \in Nat /\ g[m] \in Nat /\ f[m] <= g[m] /\ (b # 0 => g[m] # 0)
             Bad == {m \in 0..n : ~Good(m)}
  <1>3. \A x \in Bad : x \in Nat /\ x \in 0..n /\ ~Good(x)
    OBVIOUS
  <1>4. \A x \in 0..n : x \notin Bad => Good(x)
    OBVIOUS
  <1>5. Bad = {}
    <2> SUFFICES ASSUME Bad # {}
                 PROVE  FALSE
      OBVIOUS
    <2> HIDE DEF Bad
    <2>1. PICK m \in Bad : \A x \in Bad : m <= x
      BY <1>3, LeastNumber
    <2>2. CASE m = 0
      BY <1>1, <1>2, <1>3, <2>2
    <2>3. CASE m # 0
      <3>1. m - 1 \in 0..n /\ ~(m <= m - 1)
        BY <1>3, <2>3
      <3>2. Good(m - 1)
        BY <1>4, <2>1, <3>1
      <3>3. f[m] = a * f[m - 1] /\ g[m] = b * g[m - 1]
        BY <1>1, <1>2, <1>3, <2>3
      <3> DEFINE x == f[m - 1]
                 y == g[m - 1]
      <3>4. x \in Nat /\ y \in Nat /\ x <= y /\ (b # 0 => y # 0)
        BY <3>2
      <3>5. f[m] = a * x /\ g[m] = b * y
        BY <3>3
      <3> HIDE DEF x, y
      <3>6. a * x \in Nat /\ b * y \in Nat /\ a * x <= b * x /\ (b # 0 => b * y # 0)
        BY <3>4
      <3>7. x * b <= y * b
        BY <3>4, ProductMonotone
      <3>8. Good(m)
        BY <3>4, <3>5, <3>6, <3>7
      <3> QED
        BY <1>3, <3>8
    <2> QED
      BY <2>2, <2>3
  <1>6. Good(n)
    BY <1>4, <1>5
  <1> QED
    BY <1>1, <1>2, <1>6

-----------------------------------------------------------------------------
(* Rounding.                                                                 *)

\* A rollover never carries more than the pot.
LEMMA CarriedTypes ==
  ASSUME NEW pot \in Nat, NEW closed \in Nat
  PROVE  Carried(pot, closed) \in Nat /\ Carried(pot, closed) <= pot
  <1> DEFINE low == Power(Bps - PotReleaseBps, closed)
             high == Power(Bps, closed)
  <1>1. low \in Nat /\ high \in Nat \ {0} /\ low <= high
    <2>1. Bps \in Nat /\ Bps # 0 /\ Bps - PotReleaseBps \in Nat /\ Bps - PotReleaseBps <= Bps
      BY ConstantTypes
    <2> QED
      BY <2>1, PowerMonotone
  <1>2. Carried(pot, closed) = IF closed >= FullRelease THEN 0 ELSE (pot * low) \div high
    BY DEF Carried
  <1> HIDE DEF low, high
  <1>3. low * pot <= high * pot /\ pot * low \in Nat /\ pot * high \in Nat /\ pot * low <= pot * high
    <2>1. low * pot <= high * pot
      BY <1>1, ProductMonotone
    <2> QED
      BY <1>1, <2>1
  <1>4. (pot * low) \div high \in Nat
    BY <1>1, <1>3, DivisionBounds
  <1>5. (pot * low) \div high <= (pot * high) \div high
    BY <1>1, <1>3, DivisionMonotone
  <1>6. (pot * high) \div high = pot
    BY <1>1, DivisionExact
  <1> QED
    BY <1>2, <1>4, <1>5, <1>6

\* A share of an amount at a rate is no more than the amount at a rate of at most one.
LEMMA ShareTypes ==
  ASSUME NEW amount \in Nat, NEW bps \in Nat
  PROVE  /\ amount * bps \in Nat /\ (amount * bps) \div Bps \in Nat
         /\ bps <= Bps => (amount * bps) \div Bps <= amount
  <1>1. amount * bps \in Nat /\ amount * Bps \in Nat /\ Bps \in Nat \ {0}
    BY ConstantTypes
  <1>2. bps <= Bps => amount * bps <= amount * Bps
    <2>1. bps <= Bps => bps * amount <= Bps * amount
      BY ConstantTypes, ProductMonotone
    <2> QED
      BY <2>1, ConstantTypes
  <1>3. (amount * bps) \div Bps \in Nat
    BY <1>1, DivisionBounds
  <1>4. bps <= Bps => (amount * bps) \div Bps <= (amount * Bps) \div Bps
    BY <1>1, <1>2, DivisionMonotone
  <1>5. (amount * Bps) \div Bps = amount
    BY <1>1, DivisionExact
  <1> QED
    BY <1>1, <1>3, <1>4, <1>5

\* The trader's part is at most its rate of what the protocol left.
LEMMA TraderPartTypes ==
  ASSUME NEW amount \in Nat \ {0}, NEW rest \in Nat, NEW basis \in Nat
  PROVE  /\ TraderPart(amount, rest, basis) \in Nat
         /\ TraderPart(amount, rest, basis) <= (rest * TraderBps) \div Bps
  <1> DEFINE own == Min({basis, amount})
             part == (own * rest) \div amount
  <1>1. own \in Nat /\ own <= amount
    BY SmallerOfTwo
  <1>2. TraderPart(amount, rest, basis) = (part * TraderBps) \div Bps
    BY DEF TraderPart
  <1> HIDE DEF own
  <1>3. own * rest \in Nat /\ amount * rest \in Nat /\ own * rest <= amount * rest /\ amount * rest = rest * amount
    <2>1. own * rest <= amount * rest
      BY <1>1, ProductMonotone
    <2> QED
      BY <1>1, <2>1
  <1>4. part \in Nat /\ part <= (rest * amount) \div amount
    BY <1>3, DivisionBounds, DivisionMonotone
  <1>5. part \in Nat /\ part <= rest
    BY <1>4, DivisionExact
  <1> HIDE DEF part
  <1>6. part * TraderBps \in Nat /\ rest * TraderBps \in Nat /\ part * TraderBps <= rest * TraderBps
    BY <1>5, ConstantTypes, ProductMonotone
  <1>7. (part * TraderBps) \div Bps \in Nat /\ (part * TraderBps) \div Bps <= (rest * TraderBps) \div Bps
    BY <1>6, DivisionBounds, DivisionMonotone, ConstantTypes
  <1> QED
    BY <1>2, <1>7

\* The trader and the pot take no more than is there.
LEMMA SharesFit ==
  ASSUME NEW rest \in Nat
  PROVE  /\ (rest * TraderBps) \div Bps \in Nat /\ (rest * PotBps) \div Bps \in Nat
         /\ (rest * TraderBps) \div Bps + (rest * PotBps) \div Bps <= rest
  <1>1. /\ rest * TraderBps \in Nat /\ rest * PotBps \in Nat /\ TraderBps + PotBps \in Nat
        /\ rest * TraderBps + rest * PotBps = rest * (TraderBps + PotBps)
    BY ConstantTypes
  <1>2. (rest * TraderBps) \div Bps + (rest * PotBps) \div Bps <= (rest * (TraderBps + PotBps)) \div Bps
    <2>1. (rest * TraderBps) \div Bps + (rest * PotBps) \div Bps <= (rest * TraderBps + rest * PotBps) \div Bps
      BY <1>1, DivisionSplits, ConstantTypes
    <2> QED
      BY <1>1, <2>1
  <1>3. (rest * (TraderBps + PotBps)) \div Bps <= rest
    BY <1>1, ShareTypes, ConstantTypes
  <1>4. (rest * TraderBps) \div Bps \in Nat /\ (rest * PotBps) \div Bps \in Nat
    BY ShareTypes, ConstantTypes
  <1>5. (rest * (TraderBps + PotBps)) \div Bps \in Nat
    BY <1>1, ShareTypes
  <1> QED
    BY <1>2, <1>3, <1>4, <1>5

\* What is released of an amount is no more than the amount, and no more than its
\* age's share, rounded up; it is nothing only at age zero.
LEMMA ReleasedTypes ==
  ASSUME NEW amount \in Nat, NEW age \in Nat
  PROVE  /\ Released(amount, age) \in Nat /\ Released(amount, age) <= amount
         /\ age = 0 => Released(amount, age) = 0
         /\ Released(amount, age) * ReleaseBlocks <= amount * age + (ReleaseBlocks - 1)
         /\ age # 0 /\ amount # 0 => Released(amount, age) # 0
  <1> DEFINE R == ReleaseBlocks
  <1>1. R \in Nat \ {0}
    BY ConstantTypes
  <1>2. CASE age = 0
    BY <1>1, <1>2 DEF Released
  <1>3. CASE age # 0 /\ age >= R
    <2>1. Released(amount, age) = amount
      BY <1>3 DEF Released
    <2>2. R * amount <= age * amount
      BY <1>1, <1>3, ProductMonotone
    <2> QED
      BY <1>1, <1>3, <2>1, <2>2
  <1>4. CASE age # 0 /\ ~(age >= R)
    <2> DEFINE n == amount * age + R - 1
               v == n \div R
    <2>1. Released(amount, age) = v
      BY <1>4 DEF Released
    <2>2. amount * age \in Nat /\ n \in Nat
      BY <1>1
    <2>3. v \in Nat /\ v * R <= n /\ n < v * R + R
      BY <1>1, <2>2, DivisionBounds
    <2>4. age * amount <= (R - 1) * amount
      BY <1>1, <1>4, ProductMonotone
    <2>5. CASE amount = 0
      <3>1. n = R - 1 /\ v * R <= R - 1
        BY <1>1, <2>3, <2>5
      <3> HIDE DEF v, n
      <3>2. v * R < 1 * R
        BY <1>1, <2>3, <3>1
      <3>3. v < 1
        BY <1>1, <2>3, <3>2, ProductLess
      <3>4. v = 0
        BY <2>3, <3>3
      <3> QED
        BY <1>1, <2>1, <2>5, <3>4 DEF n
    <2>6. CASE amount # 0
      <3>1. R - 1 <= (R - 1) * amount + amount - 1 + (R - 1) - (R - 1) * amount
        BY <1>1, <2>6
      <3>2. (R - 1) * amount = R * amount - amount /\ amount * age = age * amount /\ R * amount = amount * R
        BY <1>1
      <3>3. n < (amount + 1) * R
        <4>1. n <= (R * amount - amount) + R - 1
          BY <1>1, <2>2, <2>4, <3>2
        <4>2. (amount + 1) * R = R * amount + R
          BY <1>1
        <4> QED
          BY <1>1, <2>2, <2>6, <4>1, <4>2
      <3> HIDE DEF n
      <3>4. v * R < (amount + 1) * R
        BY <1>1, <2>2, <2>3, <3>3
      <3> HIDE DEF v
      <3>5. v < amount + 1
        BY <1>1, <2>3, <3>4, ProductLess
      <3>6. amount * age >= 1
        BY <1>4, <2>6
      <3>7. n >= R
        BY <1>1, <2>2, <3>6 DEF n
      <3>8. v # 0
        BY <1>1, <2>2, <2>3, <3>7
      <3>9. n = amount * age + (R - 1)
        BY <1>1, <2>2 DEF n
      <3> QED
        BY <1>4, <2>1, <2>3, <3>5, <3>8, <3>9
    <2> QED
      BY <2>5, <2>6
  <1> QED
    BY <1>2, <1>3, <1>4

-----------------------------------------------------------------------------
(* The ledger's operators.                                                   *)

\* What someone can get in one currency: the claims, the accrual, the pending
\* donation and the pot.
Worth(r, c) ==
  SumFunctionOnSet(r.claims[c], Beneficiaries) + r.accrued[c]
  + (IF c \in PoolCurrencies THEN r.due[c] + r.fresh[c] ELSE 0) + (IF c = Quote THEN r.pot ELSE 0)

\* From r to t what can be got grows by n in c, and the liabilities are the same.
Moves(r, t, c, n) ==
  /\ t.liabilities = r.liabilities
  /\ \A d \in Currencies : Worth(t, d) = Worth(r, d) + (IF d = c THEN n ELSE 0)

SamePending(r, t) ==
  /\ t.due = r.due /\ t.fresh = r.fresh /\ t.freshBlock = r.freshBlock /\ t.freshTime = r.freshTime
  /\ t.releasedAt = r.releasedAt /\ t.dueMark = r.dueMark

SameHill(r, t) ==
  /\ t.epochStart = r.epochStart /\ t.leader = r.leader /\ t.leaderAmount = r.leaderAmount

\* The fields of a pool's rules.
LEMMA StateFields ==
  ASSUME NEW r \in RulesState
  PROVE  /\ r.claims \in [Currencies -> [Beneficiaries -> Nat]]
         /\ r.liabilities \in [Currencies -> Nat] /\ r.accrued \in [Currencies -> Nat]
         /\ r.due \in [PoolCurrencies -> Nat] /\ r.fresh \in [PoolCurrencies -> Nat]
         /\ r.freshBlock \in Nat /\ r.freshTime \in Nat /\ r.releasedAt \in Nat /\ r.dueMark \in Nat
         /\ r.epochStart \in Nat /\ r.leader \in Leaders /\ r.leaderAmount \in Nat /\ r.pot \in Nat
  BY DEF RulesState

\* The claims in one currency have a natural sum.
LEMMA ClaimsSum ==
  ASSUME NEW f \in [Beneficiaries -> Nat]
  PROVE  SumFunctionOnSet(f, Beneficiaries) \in Nat
  <1>1. \A a \in Beneficiaries : f[a] \in Nat
    OBVIOUS
  <1> QED
    BY <1>1, SumNatural, BeneficiariesFinite

\* What the rules owe in a currency, of which the pending donation is a part.
LEMMA WorthType ==
  ASSUME NEW r \in RulesState, NEW c \in Currencies
  PROVE  /\ Worth(r, c) \in Nat
         /\ c \in PoolCurrencies => r.due[c] + r.fresh[c] <= Worth(r, c)
         /\ SumFunctionOnSet(r.claims[c], Beneficiaries) \in Nat
  <1>1. r.claims[c] \in [Beneficiaries -> Nat]
    BY StateFields
  <1>2. SumFunctionOnSet(r.claims[c], Beneficiaries) \in Nat
    BY <1>1, ClaimsSum
  <1>3. r.accrued[c] \in Nat /\ r.pot \in Nat /\ (c \in PoolCurrencies => r.due[c] \in Nat /\ r.fresh[c] \in Nat)
    BY StateFields
  <1> QED
    BY <1>2, <1>3 DEF Worth

\* What is owed adds up over two steps of a transaction.
LEMMA MovesTwice ==
  ASSUME NEW r \in RulesState, NEW t \in RulesState, NEW u \in RulesState, NEW c \in Currencies,
         NEW m \in Int, NEW n \in Int, Moves(r, t, c, m), Moves(t, u, c, n)
  PROVE  Moves(r, u, c, m + n)
  <1> SUFFICES ASSUME NEW d \in Currencies
               PROVE  Worth(u, d) = Worth(r, d) + (IF d = c THEN m + n ELSE 0)
    BY DEF Moves
  <1>1. Worth(r, d) \in Nat
    BY WorthType
  <1> QED
    BY <1>1 DEF Moves

\* Every other part of two states that agree on all but their claims is the same.
LEMMA CreditsEffect ==
  ASSUME NEW r \in RulesState, NEW c \in Currencies, NEW who \in Beneficiaries, NEW n \in Nat
  PROVE  LET t == Credits(r, c, who, n)
         IN  t \in RulesState /\ Moves(r, t, c, n) /\ SamePending(r, t) /\ SameHill(r, t) /\ t.pot = r.pot
  <1> DEFINE t == Credits(r, c, who, n)
             f == r.claims[c]
             g == [f EXCEPT ![who] = @ + n]
  <1>1. f \in [Beneficiaries -> Nat] /\ f[who] \in Nat
    BY StateFields
  <1>2. g \in [Beneficiaries -> Nat] /\ g[who] = f[who] + n /\ \A a \in Beneficiaries \ {who} : g[a] = f[a]
    BY <1>1
  <1>3. t = [r EXCEPT !.claims = [r.claims EXCEPT ![c] = g]]
    BY StateFields DEF Credits, RulesState
  <1> HIDE DEF g, t
  <1>4. /\ t \in RulesState /\ t.claims = [r.claims EXCEPT ![c] = g] /\ t.liabilities = r.liabilities
        /\ t.accrued = r.accrued /\ t.pot = r.pot /\ SamePending(r, t) /\ SameHill(r, t)
    BY <1>2, <1>3 DEF RulesState, SamePending, SameHill
  <1>5. SumFunctionOnSet(g, Beneficiaries) = SumFunctionOnSet(f, Beneficiaries) + n
    <2>1. \A a \in Beneficiaries : f[a] \in Int /\ g[a] \in Int
      BY <1>1, <1>2
    <2>2. \A a \in Beneficiaries \ {who} : f[a] = g[a]
      BY <1>2
    <2> HIDE DEF f
    <2>3. SumFunctionOnSet(g, Beneficiaries) = SumFunctionOnSet(f, Beneficiaries) + (g[who] - f[who])
      BY <2>1, <2>2, SumChange, BeneficiariesFinite
    <2> QED
      BY <1>1, <1>2, <2>3
  <1>6. Moves(r, t, c, n)
    <2> SUFFICES ASSUME NEW d \in Currencies
                 PROVE  Worth(t, d) = Worth(r, d) + (IF d = c THEN n ELSE 0)
      BY <1>4 DEF Moves
    <2>1. /\ SumFunctionOnSet(r.claims[d], Beneficiaries) \in Nat /\ r.accrued[d] \in Nat /\ r.pot \in Nat
          /\ d \in PoolCurrencies => r.due[d] \in Nat /\ r.fresh[d] \in Nat
      BY WorthType, StateFields
    <2>2. SumFunctionOnSet(t.claims[d], Beneficiaries)
            = SumFunctionOnSet(r.claims[d], Beneficiaries) + (IF d = c THEN n ELSE 0)
      <3>1. CASE d = c
        <4>1. t.claims[d] = g /\ r.claims[d] = f
          BY <1>4, <3>1, StateFields
        <4> HIDE DEF f
        <4> QED
          BY <1>5, <3>1, <4>1
      <3>2. CASE d # c
        <4>1. t.claims[d] = r.claims[d]
          BY <1>4, <3>2, StateFields
        <4> QED
          BY <2>1, <3>2, <4>1
      <3> QED
        BY <3>1, <3>2
    <2> QED
      BY <1>4, <2>1, <2>2 DEF Worth, SamePending
  <1> QED
    BY <1>4, <1>6 DEF t

\* An accrual owes its amount to whoever the split finds later.
LEMMA AccruesEffect ==
  ASSUME NEW r \in RulesState, NEW c \in Currencies, NEW n \in Nat
  PROVE  LET t == Accrues(r, c, n)
         IN  t \in RulesState /\ Moves(r, t, c, n) /\ SamePending(r, t) /\ SameHill(r, t) /\ t.pot = r.pot
  <1> DEFINE g == [r.accrued EXCEPT ![c] = @ + n]
             t == Accrues(r, c, n)
  <1>0. /\ g \in [Currencies -> Nat] /\ t = [r EXCEPT !.accrued = g]
        /\ \A d \in Currencies : g[d] = r.accrued[d] + (IF d = c THEN n ELSE 0)
    BY StateFields DEF Accrues
  <1> HIDE DEF g, t
  <1>1. /\ t \in RulesState /\ t.claims = r.claims /\ t.liabilities = r.liabilities /\ t.pot = r.pot
        /\ \A d \in Currencies : t.accrued[d] = r.accrued[d] + (IF d = c THEN n ELSE 0)
        /\ SamePending(r, t) /\ SameHill(r, t)
    BY <1>0 DEF RulesState, SamePending, SameHill
  <1>2. Moves(r, t, c, n)
    <2> SUFFICES ASSUME NEW d \in Currencies
                 PROVE  Worth(t, d) = Worth(r, d) + (IF d = c THEN n ELSE 0)
      BY <1>1 DEF Moves
    <2>1. /\ SumFunctionOnSet(r.claims[d], Beneficiaries) \in Nat /\ r.accrued[d] \in Nat /\ r.pot \in Nat
          /\ d \in PoolCurrencies => r.due[d] \in Nat /\ r.fresh[d] \in Nat
      BY WorthType, StateFields
    <2> QED
      BY <1>1, <2>1 DEF Worth, SamePending
  <1> QED
    BY <1>1, <1>2 DEF t

\* What the Rules owe grows, and nothing else changes.
LEMMA OwesEffect ==
  ASSUME NEW r \in RulesState, NEW c \in Currencies, NEW n \in Nat
  PROVE  LET t == Owes(r, c, n)
         IN  /\ t \in RulesState /\ SamePending(r, t) /\ SameHill(r, t) /\ t.pot = r.pot
             /\ \A d \in Currencies : /\ t.liabilities[d] = r.liabilities[d] + (IF d = c THEN n ELSE 0)
                                      /\ Worth(t, d) = Worth(r, d)
  <1> DEFINE g == [r.liabilities EXCEPT ![c] = @ + n]
             t == Owes(r, c, n)
  <1>0. /\ g \in [Currencies -> Nat] /\ t = [r EXCEPT !.liabilities = g]
        /\ \A d \in Currencies : g[d] = r.liabilities[d] + (IF d = c THEN n ELSE 0)
    BY StateFields DEF Owes
  <1> HIDE DEF g, t
  <1>1. /\ t \in RulesState /\ t.claims = r.claims /\ t.accrued = r.accrued /\ t.pot = r.pot
        /\ \A d \in Currencies : t.liabilities[d] = r.liabilities[d] + (IF d = c THEN n ELSE 0)
        /\ SamePending(r, t) /\ SameHill(r, t)
    BY <1>0 DEF RulesState, SamePending, SameHill
  <1> QED
    BY <1>1 DEF Worth, SamePending, t

-----------------------------------------------------------------------------
(* The pending donation.                                                     *)

\* Nothing pending has aged yet in this block.
Quiet(r) == (AnyDue(r) => r.releasedAt = block) /\ (AnyFresh(r) => r.freshBlock = block)

\* The two clocks of a pending donation, against each other, this block and the last
\* flush: neither runs ahead, a due part that was released in this block is as old as
\* its wall time allows, and no mark outruns the last flush and the last share.
PendingOK(r) ==
  /\ r.freshBlock <= block /\ r.releasedAt <= block /\ r.freshTime <= second
  /\ r.freshBlock = block => r.freshTime = second
  /\ AnyFresh(r) => r.releasedAt <= r.freshBlock
  /\ r.dueMark <= Pace
  /\ AnyDue(r) /\ r.releasedAt = block => seen.flushBlock = block /\ PerSecond * second <= r.dueMark
  /\ r.dueMark <= PerSecond * (seen.flushSecond + 1) \/ r.dueMark <= PerSecond * (r.freshTime + 1)
  /\ seen.flushBlock = block => Quiet(r)

Dust(p) == 2 * (ReleaseBlocks - 1) * p.releases

\* How far past a stay's start the later of a time and the start is.
Past(time, start) == Max({time, start}) - start

\* What a stay received and what still waits is what it was offered, and what it
\* received is within the share of the blocks, and of the marks, that have passed
\* since it began, of all but the fresh part.
StayOK(r, p) ==
  /\ p.block <= block /\ p.second <= second
  /\ \A c \in PoolCurrencies : p.received[c] + r.due[c] + r.fresh[c] = p.offered[c]
  /\ ~p.byLeg /\ ~FlushMayFail =>
       /\ AnyDue(r) => p.block <= r.releasedAt /\ PerSecond * p.second <= r.dueMark
       /\ AnyFresh(r) => p.block <= r.freshBlock /\ p.second <= r.freshTime
       /\ \A c \in PoolCurrencies :
            /\ p.received[c] * ReleaseBlocks <= (p.offered[c] - r.fresh[c]) * Past(r.releasedAt, p.block) + Dust(p)
            /\ p.received[c] * ReleaseBlocks
                 <= (p.offered[c] - r.fresh[c]) * Past(r.dueMark, PerSecond * p.second) + Dust(p)

\* The position when what is pending goes from r's to t's.
Offered(p, r, t) == [p EXCEPT !.offered = [c \in PoolCurrencies |-> @[c] + Pending(t)[c] - Pending(r)[c]]]

\* A step from r to t that only adds shares to the pending donation, by whatever
\* path, keeps what holds of it.
Shares(r, t) ==
  /\ PendingOK(r) => PendingOK(t)
  /\ Quiet(r) => Quiet(t)
  /\ \A c \in PoolCurrencies : r.due[c] + r.fresh[c] <= t.due[c] + t.fresh[c]
  /\ \A p \in Positions : PendingOK(r) /\ StayOK(r, p) =>
       Offered(p, r, t) \in Positions /\ StayOK(t, Offered(p, r, t))

\* The fields of the watched position.
LEMMA PositionFields ==
  ASSUME NEW p \in Positions
  PROVE  /\ p.at \in {"none", "in", "out"} /\ p.byLeg \in BOOLEAN /\ p.added \in Nat /\ p.block \in Nat
         /\ p.second \in Nat /\ p.releases \in Nat
         /\ p.offered \in [PoolCurrencies -> Nat] /\ p.received \in [PoolCurrencies -> Nat]
  BY DEF Positions

\* Something is due, or fresh, when some currency has some.
LEMMA AnyPending ==
  ASSUME NEW r \in RulesState
  PROVE  /\ AnyDue(r) <=> \E c \in PoolCurrencies : r.due[c] # 0
         /\ AnyFresh(r) <=> \E c \in PoolCurrencies : r.fresh[c] # 0
  <1>1. r.due \in [PoolCurrencies -> Nat] /\ r.fresh \in [PoolCurrencies -> Nat]
    BY StateFields
  <1> QED
    BY <1>1 DEF AnyDue, AnyFresh, None

\* The time since a mark is never negative.
LEMMA PastTypes ==
  ASSUME NEW time \in Int, NEW start \in Int
  PROVE  /\ Past(time, start) \in Nat
         /\ Past(time, start) = IF time >= start THEN time - start ELSE 0
         /\ \A later \in Int : time <= later => Past(time, start) <= Past(later, start)
  <1>1. \A x \in Int : Past(x, start) = IF x >= start THEN x - start ELSE 0
    BY LargerOfTwo DEF Past
  <1> QED
    BY <1>1

\* The time since a mark, within an interval that began no later.
LEMMA PastUpTo ==
  ASSUME NEW time \in Nat, NEW start \in Nat, NEW end \in Nat, time <= end, start <= end
  PROVE  Past(time, start) \in Nat /\ Past(time, start) <= end - start /\ end - start \in Nat
  <1>1. Past(time, start) \in Nat /\ Past(time, start) = IF time >= start THEN time - start ELSE 0
    BY PastTypes
  <1> QED
    BY <1>1

\* The time since a mark grows with the clock.
LEMMA PastGrows ==
  ASSUME NEW time \in Int, NEW later \in Int, NEW start \in Int, time <= later
  PROVE  Past(time, start) \in Nat /\ Past(later, start) \in Nat /\ Past(time, start) <= Past(later, start)
  BY PastTypes

\* Larger factors have a larger product.
LEMMA ProductBoth ==
  ASSUME NEW a \in Nat, NEW b \in Nat, NEW x \in Nat, NEW y \in Nat, a <= b, x <= y
  PROVE  a * x <= b * y
  <1>1. a * x <= b * x
    BY ProductMonotone
  <1>2. x * b <= y * b
    BY ProductMonotone
  <1>3. x * b = b * x /\ y * b = b * y /\ a * x \in Int /\ b * x \in Int /\ b * y \in Int
    OBVIOUS
  <1> QED
    BY <1>1, <1>2, <1>3

\* A position is offered what was added to the pending donation.
LEMMA OfferedType ==
  ASSUME NEW r \in RulesState, NEW t \in RulesState, NEW p \in Positions,
         \A c \in PoolCurrencies : r.due[c] + r.fresh[c] <= t.due[c] + t.fresh[c]
  PROVE  /\ Offered(p, r, t) \in Positions
         /\ \A c \in PoolCurrencies :
              Offered(p, r, t).offered[c] = p.offered[c] + (t.due[c] + t.fresh[c]) - (r.due[c] + r.fresh[c])
         /\ Offered(p, r, t).received = p.received /\ Offered(p, r, t).block = p.block
         /\ Offered(p, r, t).second = p.second /\ Offered(p, r, t).byLeg = p.byLeg
         /\ Offered(p, r, t).releases = p.releases
  <1> DEFINE g == [c \in PoolCurrencies |-> p.offered[c] + Pending(t)[c] - Pending(r)[c]]
  <1>1. Offered(p, r, t) = [p EXCEPT !.offered = g]
    BY DEF Offered
  <1>2. \A c \in PoolCurrencies : g[c] \in Nat /\ g[c] = p.offered[c] + (t.due[c] + t.fresh[c]) - (r.due[c] + r.fresh[c])
    <2> SUFFICES ASSUME NEW c \in PoolCurrencies
                 PROVE  g[c] \in Nat /\ g[c] = p.offered[c] + (t.due[c] + t.fresh[c]) - (r.due[c] + r.fresh[c])
      OBVIOUS
    <2>1. g[c] = p.offered[c] + (t.due[c] + t.fresh[c]) - (r.due[c] + r.fresh[c])
      BY DEF Pending
    <2>2. /\ r.due[c] \in Nat /\ r.fresh[c] \in Nat /\ t.due[c] \in Nat /\ t.fresh[c] \in Nat /\ p.offered[c] \in Nat
          /\ r.due[c] + r.fresh[c] <= t.due[c] + t.fresh[c]
      BY StateFields, PositionFields
    <2> QED
      BY <2>1, <2>2
  <1>3. g = [c \in PoolCurrencies |-> g[c]]
    OBVIOUS
  <1> HIDE DEF g
  <1>4. g \in [PoolCurrencies -> Nat]
    BY <1>2, <1>3
  <1> QED
    BY <1>1, <1>2, <1>4 DEF Positions

\* A step that leaves the pending donation alone moves no share.
LEMMA SamePendingShares ==
  ASSUME NEW r \in RulesState, NEW t \in RulesState, SamePending(r, t)
  PROVE  Shares(r, t)
  <1>1. (AnyDue(r) <=> AnyDue(t)) /\ (AnyFresh(r) <=> AnyFresh(t))
    BY DEF AnyDue, AnyFresh, SamePending
  <1>2. (PendingOK(r) => PendingOK(t)) /\ (Quiet(r) => Quiet(t))
    BY <1>1 DEF PendingOK, Quiet, SamePending
  <1>3. \A c \in PoolCurrencies : /\ r.due[c] + r.fresh[c] = t.due[c] + t.fresh[c]
                                  /\ r.due[c] \in Nat /\ r.fresh[c] \in Nat
    BY StateFields DEF SamePending
  <1>4. \A c \in PoolCurrencies : r.due[c] + r.fresh[c] <= t.due[c] + t.fresh[c]
    BY <1>3
  <1>5. ASSUME NEW p \in Positions, StayOK(r, p)
        PROVE  Offered(p, r, t) \in Positions /\ StayOK(t, Offered(p, r, t))
    <2> DEFINE o == Offered(p, r, t)
    <2>1. /\ o \in Positions /\ o.received = p.received /\ o.block = p.block
          /\ o.second = p.second /\ o.byLeg = p.byLeg /\ o.releases = p.releases
          /\ \A c \in PoolCurrencies :
               o.offered[c] = p.offered[c] + (t.due[c] + t.fresh[c]) - (r.due[c] + r.fresh[c])
      BY <1>4, OfferedType
    <2>2. \A c \in PoolCurrencies : o.offered[c] = p.offered[c]
      BY <1>3, <2>1, PositionFields
    <2> HIDE DEF o
    <2>3. StayOK(t, o)
      BY <1>1, <1>5, <2>1, <2>2, Zenon DEF StayOK, SamePending, Dust
    <2> QED
      BY <2>1, <2>3 DEF o
  <1> QED
    BY <1>2, <1>4, <1>5 DEF Shares

\* What two steps share out is what they share out together.
LEMMA SharesTwice ==
  ASSUME NEW r \in RulesState, NEW t \in RulesState, NEW u \in RulesState, Shares(r, t), Shares(t, u)
  PROVE  Shares(r, u)
  <1>1. (PendingOK(r) => PendingOK(u)) /\ (Quiet(r) => Quiet(u))
    BY DEF Shares
  <1>2. \A c \in PoolCurrencies : /\ r.due[c] \in Nat /\ r.fresh[c] \in Nat /\ t.due[c] \in Nat /\ t.fresh[c] \in Nat
                                  /\ u.due[c] \in Nat /\ u.fresh[c] \in Nat
                                  /\ r.due[c] + r.fresh[c] <= t.due[c] + t.fresh[c]
                                  /\ t.due[c] + t.fresh[c] <= u.due[c] + u.fresh[c]
    BY StateFields DEF Shares
  <1>3. \A c \in PoolCurrencies : r.due[c] + r.fresh[c] <= u.due[c] + u.fresh[c]
    BY <1>2
  <1>4. ASSUME NEW p \in Positions, PendingOK(r), StayOK(r, p)
        PROVE  Offered(p, r, u) \in Positions /\ StayOK(u, Offered(p, r, u))
    <2> DEFINE o == Offered(p, r, t)
    <2>1. o \in Positions /\ StayOK(t, o)
      BY <1>4 DEF Shares
    <2>2. PendingOK(t)
      BY <1>4 DEF Shares
    <2>3. Offered(o, t, u) \in Positions /\ StayOK(u, Offered(o, t, u))
      <3> HIDE DEF o
      <3> QED
        BY <2>1, <2>2 DEF Shares
    <2>4. Offered(o, t, u) = Offered(p, r, u)
      <3>1. /\ o.received = p.received /\ o.block = p.block /\ o.second = p.second
            /\ o.byLeg = p.byLeg /\ o.releases = p.releases
            /\ \A c \in PoolCurrencies :
                 o.offered[c] = p.offered[c] + (t.due[c] + t.fresh[c]) - (r.due[c] + r.fresh[c])
        BY <1>2, OfferedType
      <3> DEFINE g == [c \in PoolCurrencies |-> o.offered[c] + Pending(u)[c] - Pending(t)[c]]
                 h == [c \in PoolCurrencies |-> p.offered[c] + Pending(u)[c] - Pending(r)[c]]
                 k == [c \in PoolCurrencies |-> p.offered[c] + Pending(t)[c] - Pending(r)[c]]
      <3>2. \A c \in PoolCurrencies : g[c] = h[c]
        <4> SUFFICES ASSUME NEW c \in PoolCurrencies
                     PROVE  g[c] = h[c]
          OBVIOUS
        <4>1. /\ g[c] = o.offered[c] + (u.due[c] + u.fresh[c]) - (t.due[c] + t.fresh[c])
              /\ h[c] = p.offered[c] + (u.due[c] + u.fresh[c]) - (r.due[c] + r.fresh[c])
          BY DEF Pending
        <4>2. p.offered[c] \in Nat
          BY PositionFields
        <4> HIDE DEF g, h, o
        <4> QED
          BY <1>2, <3>1, <4>1, <4>2
      <3>3. g = h
        BY <3>2
      <3>4. Offered(o, t, u) = [o EXCEPT !.offered = g] /\ Offered(p, r, u) = [p EXCEPT !.offered = h]
            /\ o = [p EXCEPT !.offered = k]
        BY DEF Offered
      <3> HIDE DEF g, h, k, o
      <3>5. [[p EXCEPT !.offered = k] EXCEPT !.offered = h] = [p EXCEPT !.offered = h]
        BY DEF Positions
      <3> QED
        BY <3>3, <3>4, <3>5
    <2> QED
      BY <2>3, <2>4
  <1> QED
    BY <1>1, <1>3, <1>4 DEF Shares

\* The pending parts of an older share, made due.
LEMMA AgedFields ==
  ASSUME NEW r \in RulesState, block \in Nat, second \in Nat
  PROVE  LET t == Aged(r)
         IN  /\ t \in RulesState /\ t.claims = r.claims /\ t.liabilities = r.liabilities /\ t.accrued = r.accrued
             /\ t.pot = r.pot /\ SameHill(r, t)
             /\ \A c \in PoolCurrencies : t.due[c] = r.due[c] + r.fresh[c] /\ t.fresh[c] = 0
             /\ t.freshBlock = block /\ t.freshTime = second
             /\ t.releasedAt = IF AnyFresh(r) THEN r.freshBlock ELSE r.releasedAt
             /\ t.dueMark = IF AnyFresh(r) /\ FreshMark(r) > r.dueMark THEN FreshMark(r) ELSE r.dueMark
             /\ FreshMark(r) = r.freshTime * PerSecond /\ FreshMark(r) \in Nat
  <1> DEFINE g == [c \in PoolCurrencies |-> r.due[c] + r.fresh[c]]
             at == IF AnyFresh(r) THEN r.freshBlock ELSE r.releasedAt
             mark == IF AnyFresh(r) THEN Max({r.dueMark, FreshMark(r)}) ELSE r.dueMark
             t == Aged(r)
  <1>1. \A c \in PoolCurrencies : r.due[c] \in Nat /\ r.fresh[c] \in Nat
    BY StateFields
  <1>2. g \in [PoolCurrencies -> Nat] /\ \A c \in PoolCurrencies : g[c] = r.due[c] + r.fresh[c]
    BY <1>1
  <1>3. FreshMark(r) = r.freshTime * PerSecond /\ FreshMark(r) \in Nat
    BY ConstantTypes, StateFields DEF FreshMark
  <1>4. mark \in Nat /\ mark = IF AnyFresh(r) /\ FreshMark(r) > r.dueMark THEN FreshMark(r) ELSE r.dueMark
    <2>1. r.dueMark \in Int /\ FreshMark(r) \in Int /\ r.dueMark \in Nat
      BY <1>3, StateFields
    <2>2. Max({r.dueMark, FreshMark(r)}) = IF r.dueMark >= FreshMark(r) THEN r.dueMark ELSE FreshMark(r)
      BY <2>1, LargerOfTwo, Zenon
    <2>3. CASE AnyFresh(r)
      BY <1>3, <2>1, <2>2, <2>3
    <2>4. CASE ~AnyFresh(r)
      BY <2>1, <2>4
    <2> QED
      BY <2>3, <2>4
  <1>5. at \in Nat
    BY StateFields
  <1>6. None \in [PoolCurrencies -> Nat] /\ \A c \in PoolCurrencies : None[c] = 0
    BY DEF None
  <1>7. t = [r EXCEPT !.due = g, !.fresh = None, !.freshBlock = block, !.freshTime = second,
                      !.releasedAt = at, !.dueMark = mark]
    BY Zenon DEF Aged
  <1> HIDE DEF g, at, mark, t
  <1>8. /\ t \in RulesState /\ t.claims = r.claims /\ t.liabilities = r.liabilities /\ t.accrued = r.accrued
        /\ t.pot = r.pot /\ SameHill(r, t)
        /\ t.due = g /\ t.fresh = None /\ t.freshBlock = block /\ t.freshTime = second
        /\ t.releasedAt = at /\ t.dueMark = mark
    BY <1>2, <1>4, <1>5, <1>6, <1>7 DEF RulesState, SameHill
  <1> QED
    BY <1>2, <1>3, <1>4, <1>6, <1>8 DEF t, at

\* Ageing a pending part owes nobody more.
LEMMA AgedMoves ==
  ASSUME NEW r \in RulesState, block \in Nat, second \in Nat, NEW c \in Currencies
  PROVE  Moves(r, Aged(r), c, 0)
  <1> DEFINE t == Aged(r)
  <1>1. /\ t \in RulesState /\ t.claims = r.claims /\ t.liabilities = r.liabilities /\ t.accrued = r.accrued
        /\ t.pot = r.pot
        /\ \A d \in PoolCurrencies : t.due[d] = r.due[d] + r.fresh[d] /\ t.fresh[d] = 0
    BY AgedFields
  <1> HIDE DEF t
  <1>2. ASSUME NEW d \in Currencies
        PROVE  Worth(t, d) = Worth(r, d) + (IF d = c THEN 0 ELSE 0)
    <2>1. /\ SumFunctionOnSet(r.claims[d], Beneficiaries) \in Nat /\ r.accrued[d] \in Nat /\ r.pot \in Nat
          /\ d \in PoolCurrencies => r.due[d] \in Nat /\ r.fresh[d] \in Nat
      BY WorthType, StateFields
    <2> QED
      BY <1>1, <2>1 DEF Worth
  <1>3. \A d \in Currencies : Worth(t, d) = Worth(r, d) + (IF d = c THEN 0 ELSE 0)
    BY <1>2
  <1> QED
    BY <1>1, <1>3 DEF Moves, t

\* An older share keeps its own clocks when it becomes due.
LEMMA AgedShares ==
  ASSUME NEW r \in RulesState, block \in Nat, second \in Nat, r.freshBlock # block, seen.flushSecond \in Nat
  PROVE  Shares(r, Aged(r))
  <1> DEFINE t == Aged(r)
             mark == FreshMark(r)
  <1>1. /\ t \in RulesState
        /\ \A c \in PoolCurrencies : t.due[c] = r.due[c] + r.fresh[c] /\ t.fresh[c] = 0
        /\ t.freshBlock = block /\ t.freshTime = second
        /\ t.releasedAt = IF AnyFresh(r) THEN r.freshBlock ELSE r.releasedAt
        /\ t.dueMark = IF AnyFresh(r) /\ mark > r.dueMark THEN mark ELSE r.dueMark
        /\ mark = r.freshTime * PerSecond /\ mark \in Nat
    BY AgedFields
  <1> HIDE DEF t, mark
  <1>2. /\ r.freshBlock \in Nat /\ r.freshTime \in Nat /\ r.releasedAt \in Nat /\ r.dueMark \in Nat
        /\ \A c \in PoolCurrencies : r.due[c] \in Nat /\ r.fresh[c] \in Nat
    BY StateFields
  <1>3. ~AnyFresh(t)
    BY <1>1, AnyPending
  <1>4. ~AnyFresh(r) => (AnyDue(t) <=> AnyDue(r))
    <2>1. ~AnyFresh(r) => \A c \in PoolCurrencies : r.fresh[c] = 0
      BY AnyPending
    <2>2. ~AnyFresh(r) => \A c \in PoolCurrencies : t.due[c] = r.due[c]
      BY <1>1, <1>2, <2>1
    <2> QED
      BY <1>1, <2>2, AnyPending
  <1>5. Quiet(r) => Quiet(t)
    BY <1>1, <1>3, <1>4 DEF Quiet
  <1>6. PendingOK(r) => mark <= PerSecond * second /\ PerSecond * second \in Nat
                        /\ Pace = PerSecond * second + PerSecond
    <2>1. PendingOK(r) => r.freshTime <= second
      BY DEF PendingOK
    <2>2. PerSecond \in Nat
      BY ConstantTypes
    <2>3. PendingOK(r) => r.freshTime * PerSecond <= second * PerSecond
      BY <1>2, <2>1, <2>2, ProductMonotone
    <2>4. Pace = PerSecond * second + PerSecond /\ PerSecond * second \in Nat /\ second * PerSecond = PerSecond * second
      BY <2>2 DEF Pace
    <2> QED
      BY <1>1, <2>3, <2>4
  <1>7. PendingOK(r) => PendingOK(t)
    <2> SUFFICES ASSUME PendingOK(r)
                 PROVE  PendingOK(t)
      OBVIOUS
    <2>1. t.freshBlock <= block /\ t.releasedAt <= block /\ t.freshTime <= second
      BY <1>1, <1>2 DEF PendingOK
    <2>2. t.dueMark <= Pace
      BY <1>1, <1>2, <1>6, ConstantTypes DEF PendingOK
    <2>3. AnyDue(t) /\ t.releasedAt = block => seen.flushBlock = block /\ PerSecond * second <= t.dueMark
      BY <1>1, <1>4 DEF PendingOK
    <2>4. t.dueMark <= PerSecond * (t.freshTime + 1)
      BY <1>1, <2>2 DEF Pace
    <2>5. seen.flushBlock = block => Quiet(t)
      BY <1>5 DEF PendingOK
    <2> QED
      BY <1>1, <1>3, <2>1, <2>2, <2>3, <2>4, <2>5 DEF PendingOK
  <1>8. \A c \in PoolCurrencies : r.due[c] + r.fresh[c] <= t.due[c] + t.fresh[c]
    BY <1>1, <1>2
  <1>9. ASSUME NEW p \in Positions, PendingOK(r), StayOK(r, p)
        PROVE  Offered(p, r, t) \in Positions /\ StayOK(t, Offered(p, r, t))
    <2> DEFINE o == Offered(p, r, t)
    <2>1. /\ o \in Positions /\ o.received = p.received /\ o.block = p.block
          /\ o.second = p.second /\ o.byLeg = p.byLeg /\ o.releases = p.releases
          /\ \A c \in PoolCurrencies :
               o.offered[c] = p.offered[c] + (t.due[c] + t.fresh[c]) - (r.due[c] + r.fresh[c])
      BY <1>1, <1>8, OfferedType
    <2> HIDE DEF o
    <2>2. \A c \in PoolCurrencies : o.offered[c] = p.offered[c] /\ p.offered[c] \in Nat /\ p.received[c] \in Nat
      BY <1>1, <1>2, <2>1, PositionFields
    <2>3. p.block \in Nat /\ p.second \in Nat /\ p.releases \in Nat /\ ReleaseBlocks \in Nat
      BY PositionFields, ConstantTypes
    <2>4. \A c \in PoolCurrencies : o.received[c] + t.due[c] + t.fresh[c] = o.offered[c]
      BY <1>1, <1>2, <1>9, <2>1, <2>2 DEF StayOK
    <2>5. ASSUME ~p.byLeg, ~FlushMayFail
          PROVE  /\ AnyDue(t) => p.block <= t.releasedAt /\ PerSecond * p.second <= t.dueMark
                 /\ \A c \in PoolCurrencies :
                      /\ p.received[c] * ReleaseBlocks
                           <= (o.offered[c] - t.fresh[c]) * Past(t.releasedAt, p.block) + Dust(p)
                      /\ p.received[c] * ReleaseBlocks
                           <= (o.offered[c] - t.fresh[c]) * Past(t.dueMark, PerSecond * p.second) + Dust(p)
      <3>1. AnyFresh(r) => p.block <= r.freshBlock /\ PerSecond * p.second <= mark
        <4>1. AnyFresh(r) => p.block <= r.freshBlock /\ p.second <= r.freshTime
          BY <1>9, <2>5 DEF StayOK
        <4>2. AnyFresh(r) => p.second * PerSecond <= r.freshTime * PerSecond
          BY <1>2, <2>3, <4>1, ConstantTypes, ProductMonotone
        <4>3. p.second * PerSecond = PerSecond * p.second
          BY <2>3, ConstantTypes
        <4> QED
          BY <1>1, <4>1, <4>2, <4>3
      <3>2. AnyDue(r) => p.block <= r.releasedAt /\ PerSecond * p.second <= r.dueMark
        BY <1>9, <2>5 DEF StayOK
      <3>3. PerSecond * p.second \in Nat
        BY <2>3, ConstantTypes
      <3> DEFINE m == PerSecond * p.second
      <3>4. AnyDue(t) => p.block <= t.releasedAt /\ PerSecond * p.second <= t.dueMark
        <4>1. m \in Nat /\ (AnyFresh(r) => m <= mark) /\ (AnyDue(r) => m <= r.dueMark)
          BY <3>1, <3>2, <3>3
        <4> HIDE DEF m
        <4>2. CASE AnyFresh(r)
          <5>1. t.releasedAt = r.freshBlock /\ t.dueMark = IF mark > r.dueMark THEN mark ELSE r.dueMark
            BY <1>1, <4>2
          <5>2. m <= t.dueMark
            BY <1>1, <1>2, <4>1, <4>2, <5>1
          <5> QED
            BY <3>1, <4>2, <5>1, <5>2 DEF m
        <4>3. CASE ~AnyFresh(r)
          BY <1>1, <1>4, <3>2, <4>3
        <4> QED
          BY <4>2, <4>3
      <3>5. /\ r.releasedAt <= t.releasedAt /\ r.dueMark <= t.dueMark
            /\ r.releasedAt \in Int /\ t.releasedAt \in Int /\ r.dueMark \in Int /\ t.dueMark \in Int
        BY <1>1, <1>2, <1>9 DEF PendingOK
      <3>6. /\ Past(r.releasedAt, p.block) \in Nat /\ Past(t.releasedAt, p.block) \in Nat
            /\ Past(r.releasedAt, p.block) <= Past(t.releasedAt, p.block)
            /\ Past(r.dueMark, PerSecond * p.second) \in Nat /\ Past(t.dueMark, PerSecond * p.second) \in Nat
            /\ Past(r.dueMark, PerSecond * p.second) <= Past(t.dueMark, PerSecond * p.second)
        <4>1. /\ Past(r.releasedAt, p.block) \in Nat /\ Past(t.releasedAt, p.block) \in Nat
              /\ Past(r.releasedAt, p.block) <= Past(t.releasedAt, p.block)
          <5>1. p.block \in Int
            BY <2>3
          <5> QED
            BY <3>5, <5>1, PastGrows, Zenon
        <4>2. m \in Int
          BY <3>3
        <4> HIDE DEF m
        <4>3. /\ Past(r.dueMark, m) \in Nat /\ Past(t.dueMark, m) \in Nat
              /\ Past(r.dueMark, m) <= Past(t.dueMark, m)
          BY <3>5, <4>2, PastGrows, Zenon
        <4> QED
          BY <4>1, <4>3 DEF m
      <3>7. ASSUME NEW c \in PoolCurrencies
            PROVE  /\ p.received[c] * ReleaseBlocks
                        <= (o.offered[c] - t.fresh[c]) * Past(t.releasedAt, p.block) + Dust(p)
                   /\ p.received[c] * ReleaseBlocks
                        <= (o.offered[c] - t.fresh[c]) * Past(t.dueMark, PerSecond * p.second) + Dust(p)
        <4> DEFINE a == p.offered[c] - r.fresh[c]
                   b == o.offered[c] - t.fresh[c]
                   x == Past(r.releasedAt, p.block)
                   y == Past(t.releasedAt, p.block)
                   v == Past(r.dueMark, PerSecond * p.second)
                   w == Past(t.dueMark, PerSecond * p.second)
                   n == p.received[c] * ReleaseBlocks
        <4>1. p.received[c] + r.due[c] + r.fresh[c] = p.offered[c]
          BY <1>9 DEF StayOK
        <4>2. a \in Nat /\ b \in Nat /\ a <= b
          BY <1>1, <1>2, <2>2, <4>1
        <4>3. n <= a * x + Dust(p) /\ n <= a * v + Dust(p)
          BY <1>9, <2>5 DEF StayOK
        <4>4. n \in Int /\ Dust(p) \in Int
          BY <2>2, <2>3 DEF Dust
        <4>5. x \in Nat /\ y \in Nat /\ v \in Nat /\ w \in Nat /\ x <= y /\ v <= w
          BY <3>6
        <4> HIDE DEF a, b, x, y, v, w, n
        <4>6. a * x <= b * y /\ a * v <= b * w
          BY <4>2, <4>5, ProductBoth
        <4>7. a * x \in Int /\ b * y \in Int /\ a * v \in Int /\ b * w \in Int
          BY <4>2, <4>5
        <4>8. n <= b * y + Dust(p) /\ n <= b * w + Dust(p)
          BY <4>3, <4>4, <4>6, <4>7
        <4> QED
          BY <4>8 DEF b, y, w, n
      <3> QED
        BY <3>4, <3>7
    <2>6. p.block <= block /\ p.second <= second
      BY <1>9 DEF StayOK
    <2>7. StayOK(t, o)
      BY <1>3, <2>1, <2>4, <2>5, <2>6 DEF StayOK, Dust
    <2> QED
      BY <2>1, <2>7 DEF o
  <1>10. Shares(r, t)
    BY <1>5, <1>7, <1>8, <1>9 DEF Shares
  <1> QED
    BY <1>10 DEF t

\* A share that waits in this block.
Waits(r, c, n) == [r EXCEPT !.fresh[c] = @ + n]

\* What liquidity will get waits as fresh, from this block on.
LEMMA WaitsEffect ==
  ASSUME NEW r \in RulesState, NEW c \in PoolCurrencies, NEW n \in Nat, block \in Nat, second \in Nat,
         r.freshBlock = block
  PROVE  LET t == Waits(r, c, n)
         IN  t \in RulesState /\ Moves(r, t, c, n) /\ Shares(r, t) /\ SameHill(r, t) /\ t.pot = r.pot
  <1> DEFINE g == [r.fresh EXCEPT ![c] = @ + n]
             t == Waits(r, c, n)
  <1>1. /\ \A d \in PoolCurrencies : r.due[d] \in Nat /\ r.fresh[d] \in Nat
        /\ r.freshBlock \in Nat /\ r.freshTime \in Nat /\ r.releasedAt \in Nat /\ r.dueMark \in Nat
    BY StateFields
  <1>2. /\ g \in [PoolCurrencies -> Nat] /\ \A d \in PoolCurrencies : g[d] = r.fresh[d] + (IF d = c THEN n ELSE 0)
        /\ t = [r EXCEPT !.fresh = g]
    BY StateFields DEF Waits
  <1> HIDE DEF g, t
  <1>3. /\ t \in RulesState /\ t.claims = r.claims /\ t.liabilities = r.liabilities /\ t.accrued = r.accrued
        /\ t.pot = r.pot /\ SameHill(r, t) /\ t.due = r.due /\ t.fresh = g /\ t.freshBlock = r.freshBlock
        /\ t.freshTime = r.freshTime /\ t.releasedAt = r.releasedAt /\ t.dueMark = r.dueMark
    BY <1>2 DEF RulesState, SameHill
  <1>4. \A d \in PoolCurrencies : t.fresh[d] = r.fresh[d] + (IF d = c THEN n ELSE 0)
    BY <1>2, <1>3
  <1>5. Moves(r, t, c, n)
    <2> SUFFICES ASSUME NEW d \in Currencies
                 PROVE  Worth(t, d) = Worth(r, d) + (IF d = c THEN n ELSE 0)
      BY <1>3 DEF Moves
    <2>1. SumFunctionOnSet(r.claims[d], Beneficiaries) \in Nat /\ r.accrued[d] \in Nat /\ r.pot \in Nat
      BY WorthType, StateFields
    <2> QED
      BY <1>1, <1>3, <1>4, <2>1 DEF Worth
  <1>6. AnyDue(t) <=> AnyDue(r)
    BY <1>3 DEF AnyDue
  <1>7. (PendingOK(r) => PendingOK(t)) /\ (Quiet(r) => Quiet(t))
    BY <1>3, <1>6 DEF PendingOK, Quiet
  <1>8. \A d \in PoolCurrencies : r.due[d] + r.fresh[d] <= t.due[d] + t.fresh[d]
    BY <1>1, <1>3, <1>4
  <1>9. ASSUME NEW p \in Positions, PendingOK(r), StayOK(r, p)
        PROVE  Offered(p, r, t) \in Positions /\ StayOK(t, Offered(p, r, t))
    <2> DEFINE o == Offered(p, r, t)
    <2>1. /\ o \in Positions /\ o.received = p.received /\ o.block = p.block
          /\ o.second = p.second /\ o.byLeg = p.byLeg /\ o.releases = p.releases
          /\ \A d \in PoolCurrencies :
               o.offered[d] = p.offered[d] + (t.due[d] + t.fresh[d]) - (r.due[d] + r.fresh[d])
      BY <1>3, <1>8, OfferedType
    <2> HIDE DEF o
    <2>2. \A d \in PoolCurrencies : p.offered[d] \in Nat /\ p.received[d] \in Nat
      BY PositionFields
    <2>3. \A d \in PoolCurrencies : o.offered[d] = p.offered[d] + (IF d = c THEN n ELSE 0)
      BY <1>1, <1>3, <1>4, <2>1, <2>2
    <2>4. \A d \in PoolCurrencies : p.offered[d] - r.fresh[d] = o.offered[d] - t.fresh[d]
      BY <1>1, <1>4, <2>2, <2>3
    <2>5. \A d \in PoolCurrencies : p.received[d] + r.due[d] + r.fresh[d] = p.offered[d]
      BY <1>9 DEF StayOK
    <2>6. \A d \in PoolCurrencies : o.received[d] + t.due[d] + t.fresh[d] = o.offered[d]
      BY <1>1, <1>3, <1>4, <2>1, <2>2, <2>3, <2>5
    <2>7. p.block <= block /\ p.second <= second /\ r.freshTime = second
      BY <1>9 DEF StayOK, PendingOK
    <2>8. ~p.byLeg /\ ~FlushMayFail =>
            /\ AnyDue(t) => p.block <= t.releasedAt /\ PerSecond * p.second <= t.dueMark
            /\ \A d \in PoolCurrencies :
                 /\ p.received[d] * ReleaseBlocks <= (o.offered[d] - t.fresh[d]) * Past(t.releasedAt, p.block) + Dust(p)
                 /\ p.received[d] * ReleaseBlocks
                      <= (o.offered[d] - t.fresh[d]) * Past(t.dueMark, PerSecond * p.second) + Dust(p)
      BY <1>3, <1>6, <1>9, <2>4, Zenon DEF StayOK
    <2>9. StayOK(t, o)
      BY <1>3, <2>1, <2>6, <2>7, <2>8 DEF StayOK, Dust
    <2> QED
      BY <2>1, <2>9 DEF o
  <1> QED
    BY <1>3, <1>5, <1>7, <1>8, <1>9 DEF Shares, t

\* An LP share becomes pending or accrues: nothing of it is lost, and it disturbs
\* neither an older share nor the pot.
LEMMA LpShareEffect ==
  ASSUME NEW r \in RulesState, NEW c \in Currencies, NEW n \in Nat, block \in Nat, second \in Nat,
         seen.flushSecond \in Nat
  PROVE  LET t == LpShare(r, c, n)
         IN  t \in RulesState /\ Moves(r, t, c, n) /\ Shares(r, t) /\ SameHill(r, t) /\ t.pot = r.pot
  <1> DEFINE turns == r.freshBlock # block /\ \A x \in PoolCurrencies : r.due[x] + r.fresh[x] <= MaxPart
             v == IF turns THEN Aged(r) ELSE r
             t == LpShare(r, c, n)
  <1>1. v \in RulesState /\ Moves(r, v, c, 0) /\ Shares(r, v) /\ SameHill(r, v) /\ v.pot = r.pot
    <2>1. CASE turns
      BY <2>1, AgedFields, AgedMoves, AgedShares
    <2>2. CASE ~turns
      <3>1. \A d \in Currencies : Worth(r, d) \in Nat
        BY WorthType
      <3>2. Moves(r, r, c, 0)
        BY <3>1 DEF Moves
      <3> QED
        BY <2>2, <3>2, SamePendingShares DEF SamePending, SameHill
    <2> QED
      BY <2>1, <2>2
  <1>2. \/ t = Accrues(r, c, n)
        \/ t = Accrues(v, c, n)
        \/ c \in PoolCurrencies /\ v.freshBlock = block /\ t = Waits(v, c, n)
    BY DEF LpShare, Waits
  <1> HIDE DEF turns, v, t
  <1>3. CASE t = Accrues(r, c, n)
    BY <1>3, AccruesEffect, SamePendingShares DEF t
  <1>4. ASSUME NEW u \in RulesState, Moves(v, u, c, n), Shares(v, u), SameHill(v, u), u.pot = v.pot
        PROVE  Moves(r, u, c, n) /\ Shares(r, u) /\ SameHill(r, u) /\ u.pot = r.pot
    <2>1. Moves(r, u, c, 0 + n)
      BY <1>1, <1>4, MovesTwice
    <2>2. Shares(r, u)
      BY <1>1, <1>4, SharesTwice
    <2> QED
      BY <1>1, <1>4, <2>1, <2>2 DEF SameHill
  <1>5. CASE t = Accrues(v, c, n)
    <2>1. t \in RulesState /\ Moves(v, t, c, n) /\ SamePending(v, t) /\ SameHill(v, t) /\ t.pot = v.pot
      BY <1>1, <1>5, AccruesEffect
    <2>2. Shares(v, t)
      BY <1>1, <2>1, SamePendingShares
    <2> QED
      BY <1>4, <2>1, <2>2 DEF t
  <1>6. CASE c \in PoolCurrencies /\ v.freshBlock = block /\ t = Waits(v, c, n)
    <2>1. t \in RulesState /\ Moves(v, t, c, n) /\ Shares(v, t) /\ SameHill(v, t) /\ t.pot = v.pot
      BY <1>1, <1>6, WaitsEffect
    <2> QED
      BY <1>4, <2>1 DEF t
  <1> QED
    BY <1>2, <1>3, <1>5, <1>6

-----------------------------------------------------------------------------
(* King of the Pool.                                                         *)

\* A step that owes nobody more in one currency does so in none.
LEMMA MovesNothing ==
  ASSUME NEW r, NEW t, NEW c \in Currencies, NEW d \in Currencies, Moves(r, t, c, 0)
  PROVE  Moves(r, t, d, 0)
  BY DEF Moves

\* Filling the pot owes what it gains.
LEMMA PotEffect ==
  ASSUME NEW r \in RulesState, NEW n \in Nat
  PROVE  LET t == [r EXCEPT !.pot = n]
         IN  t \in RulesState /\ Moves(r, t, Quote, n - r.pot) /\ SamePending(r, t) /\ SameHill(r, t) /\ t.pot = n
  <1> DEFINE t == [r EXCEPT !.pot = n]
  <1>1. /\ t \in RulesState /\ t.claims = r.claims /\ t.liabilities = r.liabilities /\ t.accrued = r.accrued
        /\ t.pot = n /\ SamePending(r, t) /\ SameHill(r, t)
    BY DEF RulesState, SamePending, SameHill
  <1> HIDE DEF t
  <1>2. Moves(r, t, Quote, n - r.pot)
    <2> SUFFICES ASSUME NEW d \in Currencies
                 PROVE  Worth(t, d) = Worth(r, d) + (IF d = Quote THEN n - r.pot ELSE 0)
      BY <1>1 DEF Moves
    <2>1. /\ SumFunctionOnSet(r.claims[d], Beneficiaries) \in Nat /\ r.accrued[d] \in Nat /\ r.pot \in Nat
          /\ d \in PoolCurrencies => r.due[d] \in Nat /\ r.fresh[d] \in Nat
      BY WorthType, StateFields
    <2> QED
      BY <1>1, <2>1 DEF Worth, SamePending
  <1> QED
    BY <1>1, <1>2 DEF t

\* Everything but the epoch and the lead.
SameLedger(r, t) ==
  /\ t.claims = r.claims /\ t.liabilities = r.liabilities /\ t.accrued = r.accrued /\ t.pot = r.pot
  /\ SamePending(r, t)

\* A step that leaves the ledger alone owes nobody more.
LEMMA SameLedgerMoves ==
  ASSUME NEW r \in RulesState, NEW t \in RulesState, SameLedger(r, t), NEW c \in Currencies
  PROVE  Moves(r, t, c, 0)
  <1> SUFFICES ASSUME NEW d \in Currencies
               PROVE  Worth(t, d) = Worth(r, d) + (IF d = c THEN 0 ELSE 0)
    BY DEF Moves, SameLedger
  <1>1. Worth(r, d) \in Nat
    BY WorthType
  <1>2. Worth(t, d) = Worth(r, d)
    BY Zenon DEF Worth, SameLedger, SamePending
  <1> QED
    BY <1>1, <1>2

\* Paying the prize moves it from the pot to the leader's claim, and nobody leads.
LEMMA CrownedEffect ==
  ASSUME NEW r \in RulesState
  PROVE  LET t == Crowned(r)
         IN  /\ t \in RulesState /\ Moves(r, t, Quote, 0) /\ SamePending(r, t)
             /\ t.epochStart = r.epochStart /\ t.leader = NoOne
             /\ IF r.leader = NoOne THEN t.leaderAmount = r.leaderAmount ELSE t.leaderAmount = 0
  <1>1. CASE r.leader = NoOne
    <2>1. Crowned(r) = r /\ SameLedger(r, r)
      BY <1>1 DEF Crowned, SameLedger, SamePending
    <2> QED
      BY <1>1, <2>1, SameLedgerMoves, ConstantSets DEF SamePending
  <1>2. CASE r.leader # NoOne
    <2> DEFINE bound == (r.leaderAmount * MaxPrizeBps) \div Bps
               prize == Min({bound, r.pot})
               v == Credits(r, Quote, r.leader, prize)
               w == [v EXCEPT !.pot = v.pot - prize]
               t == [w EXCEPT !.leader = NoOne, !.leaderAmount = 0]
    <2>1. r.leader \in Beneficiaries /\ r.leaderAmount \in Nat /\ r.pot \in Nat
      BY <1>2, StateFields, ConstantSets DEF Leaders
    <2>2. bound \in Nat
      BY <2>1, ShareTypes, ConstantTypes
    <2>3. Crowned(r) = t
      <3>1. Crowned(r) = [v EXCEPT !.pot = @ - prize, !.leader = NoOne, !.leaderAmount = 0]
        BY <1>2 DEF Crowned
      <3> HIDE DEF v, prize
      <3> QED
        BY <3>1
    <2> HIDE DEF bound
    <2>4. prize \in Nat /\ prize <= r.pot
      BY <2>1, <2>2, SmallerOfTwo
    <2> HIDE DEF prize
    <2>5. v \in RulesState /\ Moves(r, v, Quote, prize) /\ SamePending(r, v) /\ SameHill(r, v) /\ v.pot = r.pot
      BY <2>1, <2>4, CreditsEffect, ConstantSets
    <2> HIDE DEF v
    <2>6. v.pot - prize \in Nat
      BY <2>1, <2>4, <2>5
    <2>7. w \in RulesState /\ Moves(v, w, Quote, (v.pot - prize) - v.pot) /\ SamePending(v, w) /\ SameHill(v, w)
      BY <2>5, <2>6, PotEffect
    <2>8. (v.pot - prize) - v.pot = 0 - prize /\ prize + (0 - prize) = 0 /\ 0 - prize \in Int /\ prize \in Int
      BY <2>1, <2>4, <2>5
    <2> HIDE DEF w
    <2>9. Moves(v, w, Quote, 0 - prize)
      BY <2>7, <2>8
    <2>10. Moves(r, w, Quote, prize + (0 - prize))
      BY <2>5, <2>7, <2>8, <2>9, MovesTwice, ConstantSets
    <2>11. Moves(r, w, Quote, 0)
      BY <2>8, <2>10
    <2>12. t \in RulesState /\ SameLedger(w, t) /\ t.leader = NoOne /\ t.leaderAmount = 0 /\ t.epochStart = w.epochStart
      BY <2>7 DEF RulesState, SameLedger, SamePending, Leaders
    <2> HIDE DEF t
    <2>13. Moves(w, t, Quote, 0)
      BY <2>7, <2>12, SameLedgerMoves, ConstantSets
    <2>14. Moves(r, t, Quote, 0 + 0)
      BY <2>7, <2>11, <2>12, <2>13, MovesTwice, ConstantSets
    <2> QED
      BY <1>2, <2>3, <2>5, <2>7, <2>12, <2>14 DEF SamePending, SameHill, SameLedger
  <1> QED
    BY <1>1, <1>2

\* A rollover closes every elapsed epoch at once: no lead survives it, and the pot's
\* prize and release stay in the ledger.
LEMMA RolledEffect ==
  ASSUME NEW r \in RulesState, block \in Nat, second \in Nat, seen.flushSecond \in Nat, r.epochStart <= second
  PROVE  LET t == Rolled(r)
         IN  /\ t \in RulesState /\ Moves(r, t, Quote, 0) /\ Shares(r, t)
             /\ t.epochStart <= second /\ second < t.epochStart + Period
             /\ IF second < r.epochStart + Period THEN t = r
                ELSE /\ t.leader = NoOne
                     /\ IF r.leader = NoOne THEN t.leaderAmount = r.leaderAmount ELSE t.leaderAmount = 0
  <1>0. r.epochStart \in Nat /\ Period \in Nat \ {0}
    BY StateFields, ConstantTypes
  <1>1. CASE second < r.epochStart + Period
    <2>1. Rolled(r) = r /\ SameLedger(r, r)
      BY <1>1 DEF Rolled, SameLedger, SamePending
    <2>2. Moves(r, r, Quote, 0) /\ Shares(r, r)
      BY <2>1, SameLedgerMoves, SamePendingShares, ConstantSets DEF SameLedger
    <2> QED
      BY <1>1, <2>1, <2>2
  <1>2. CASE ~(second < r.epochStart + Period)
    <2> DEFINE closed == (second - r.epochStart) \div Period
               u == Crowned(r)
               carried == Carried(u.pot, closed)
               shared == IF carried # u.pot THEN LpShare(u, Quote, u.pot - carried) ELSE u
               w == [shared EXCEPT !.pot = carried]
               t == [w EXCEPT !.epochStart = shared.epochStart + closed * Period]
    <2>1. second - r.epochStart \in Nat
      BY <1>0
    <2>2. closed \in Nat /\ closed * Period <= second - r.epochStart /\ second - r.epochStart < closed * Period + Period
      BY <1>0, <2>1, DivisionBounds
    <2>3. Rolled(r) = t
      <3>1. Rolled(r) = [shared EXCEPT !.pot = carried, !.epochStart = @ + closed * Period]
        BY <1>2 DEF Rolled
      <3> HIDE DEF shared, carried, closed
      <3> QED
        BY <3>1
    <2> HIDE DEF closed
    <2>4. /\ u \in RulesState /\ Moves(r, u, Quote, 0) /\ SamePending(r, u)
          /\ u.epochStart = r.epochStart /\ u.leader = NoOne
          /\ IF r.leader = NoOne THEN u.leaderAmount = r.leaderAmount ELSE u.leaderAmount = 0
      BY CrownedEffect
    <2>5. Shares(r, u)
      BY <2>4, SamePendingShares
    <2> HIDE DEF u
    <2>6. u.pot \in Nat /\ carried \in Nat /\ carried <= u.pot
      BY <2>2, <2>4, StateFields, CarriedTypes
    <2> HIDE DEF carried
    <2>7. u.pot - carried \in Nat
      BY <2>6
    <2>8. /\ shared \in RulesState /\ Moves(u, shared, Quote, u.pot - carried) /\ Shares(u, shared)
          /\ SameHill(u, shared) /\ shared.pot = u.pot
      <3>1. CASE carried # u.pot
        <4>1. shared = LpShare(u, Quote, u.pot - carried)
          BY <3>1
        <4> QED
          BY <2>4, <2>7, <4>1, LpShareEffect, ConstantSets
      <3>2. CASE carried = u.pot
        <4>1. shared = u /\ u.pot - carried = 0 /\ SameLedger(u, u) /\ SameHill(u, u)
          BY <2>6, <3>2 DEF SameLedger, SamePending, SameHill
        <4>2. Moves(u, u, Quote, 0) /\ Shares(u, u)
          BY <2>4, <4>1, SameLedgerMoves, SamePendingShares, ConstantSets DEF SameLedger
        <4> HIDE DEF shared
        <4> QED
          BY <2>4, <4>1, <4>2
      <3> QED
        BY <3>1, <3>2
    <2> HIDE DEF shared
    <2>9. w \in RulesState /\ Moves(shared, w, Quote, carried - shared.pot) /\ SamePending(shared, w) /\ SameHill(shared, w)
      BY <2>6, <2>8, PotEffect
    <2> HIDE DEF w
    <2>10. Moves(shared, w, Quote, carried - u.pot)
      BY <2>8, <2>9
    <2>11. /\ carried - u.pot \in Int /\ u.pot - carried \in Int /\ 0 \in Int
           /\ 0 + (u.pot - carried) = u.pot - carried /\ (u.pot - carried) + (carried - u.pot) = 0
      BY <2>6
    <2>12. Moves(r, shared, Quote, 0 + (u.pot - carried))
      BY <2>4, <2>8, <2>11, MovesTwice, ConstantSets
    <2>13. Moves(r, shared, Quote, u.pot - carried)
      BY <2>11, <2>12
    <2>14. Moves(r, w, Quote, (u.pot - carried) + (carried - u.pot))
      BY <2>8, <2>9, <2>10, <2>11, <2>13, MovesTwice, ConstantSets
    <2>15. Moves(r, w, Quote, 0)
      BY <2>11, <2>14
    <2>16. shared.epochStart = r.epochStart /\ closed * Period \in Nat
      BY <1>0, <2>2, <2>4, <2>8 DEF SameHill
    <2>17. t \in RulesState /\ SameLedger(w, t) /\ t.epochStart = r.epochStart + closed * Period
           /\ t.leader = w.leader /\ t.leaderAmount = w.leaderAmount
      <3>1. r.epochStart + closed * Period \in Nat
        BY <1>0, <2>16
      <3> DEFINE at == r.epochStart + closed * Period
      <3>2. t = [w EXCEPT !.epochStart = at]
        BY <2>16
      <3> HIDE DEF at, t
      <3>3. at \in Nat
        BY <3>1 DEF at
      <3> QED
        BY <2>9, <3>2, <3>3 DEF RulesState, SameLedger, SamePending, at
    <2> HIDE DEF t
    <2>18. Moves(w, t, Quote, 0)
      BY <2>9, <2>17, SameLedgerMoves, ConstantSets
    <2>19. Moves(r, t, Quote, 0 + 0)
      BY <2>9, <2>15, <2>17, <2>18, MovesTwice, ConstantSets
    <2>20. Moves(r, t, Quote, 0)
      BY <2>19
    <2>21. Shares(r, shared)
      BY <2>4, <2>5, <2>8, SharesTwice
    <2>22. Shares(shared, t)
      BY <2>8, <2>9, <2>17, SamePendingShares DEF SamePending, SameLedger
    <2>23. Shares(r, t)
      BY <2>8, <2>17, <2>21, <2>22, SharesTwice
    <2>24. t.epochStart <= second /\ second < t.epochStart + Period
      <3> DEFINE e == closed * Period
      <3>1. e \in Nat /\ e <= second - r.epochStart /\ second - r.epochStart < e + Period /\ t.epochStart = r.epochStart + e
        BY <2>2, <2>16, <2>17
      <3> HIDE DEF e
      <3> QED
        BY <1>0, <3>1
    <2>25. /\ t.leader = NoOne
           /\ IF r.leader = NoOne THEN t.leaderAmount = r.leaderAmount ELSE t.leaderAmount = 0
      BY <2>4, <2>8, <2>9, <2>17 DEF SameHill
    <2> QED
      BY <1>2, <2>3, <2>17, <2>20, <2>23, <2>24, <2>25
  <1> QED
    BY <1>1, <1>2

-----------------------------------------------------------------------------
(* The splits.                                                               *)

\* From r to t both what is owed and what can be got grow by n in c.
Earns(r, t, c, n) ==
  \A d \in Currencies : /\ t.liabilities[d] = r.liabilities[d] + (IF d = c THEN n ELSE 0)
                        /\ Worth(t, d) = Worth(r, d) + (IF d = c THEN n ELSE 0)

\* A step, and then a credit to somebody by name.
LEMMA MovesThenOwes ==
  ASSUME NEW r \in RulesState, NEW t \in RulesState, NEW c \in Currencies, NEW n \in Nat, Moves(r, t, c, n)
  PROVE  LET u == Owes(t, c, n)
         IN  u \in RulesState /\ Earns(r, u, c, n) /\ SamePending(t, u) /\ SameHill(t, u)
  <1> DEFINE u == Owes(t, c, n)
  <1>1. /\ u \in RulesState /\ SamePending(t, u) /\ SameHill(t, u) /\ u.pot = t.pot
        /\ \A d \in Currencies : /\ u.liabilities[d] = t.liabilities[d] + (IF d = c THEN n ELSE 0)
                                 /\ Worth(u, d) = Worth(t, d)
    BY OwesEffect
  <1> HIDE DEF u
  <1>2. Earns(r, u, c, n)
    BY <1>1 DEF Earns, Moves
  <1> QED
    BY <1>1, <1>2 DEF u

\* A push credits all of itself, and owes it.
LEMMA SplitEffect ==
  ASSUME NEW r \in RulesState, NEW c \in Currencies, NEW trader \in Leaders, NEW amount \in Nat \ {0},
         NEW basis \in Nat, block \in Nat, second \in Nat, seen.flushSecond \in Nat,
         IsKing => r.epochStart <= second
  PROVE  LET t == Split(r, c, trader, amount, basis)
         IN  /\ t \in RulesState /\ Earns(r, t, c, amount) /\ Shares(r, t)
             /\ SameHill(IF IsKing THEN Rolled(r) ELSE r, t)
  <1> DEFINE profit == (amount * Bps) \div (Bps - PartnerBps)
             cut == (profit * ProtocolBps) \div Bps
             protocol == Min({cut, amount})
             rest == amount - protocol
             toTrader == IF c = Quote /\ trader # NoOne THEN TraderPart(amount, rest, basis) ELSE 0
             toPot == IF c = Quote THEN (rest * PotBps) \div Bps ELSE 0
             toLp == rest - toTrader - toPot
             q == IF IsKing THEN Rolled(r) ELSE r
             t == IF toTrader # 0 THEN Credits(q, c, trader, toTrader) ELSE q
             v == Credits(t, c, ProtocolRecipient, protocol)
             w == [v EXCEPT !.pot = v.pot + toPot]
             u == Owes(w, c, amount)
             z == IF toLp # 0 THEN LpShare(u, c, toLp) ELSE u
  <1>1. protocol \in Nat /\ rest \in Nat /\ toTrader \in Nat /\ toPot \in Nat /\ toLp \in Nat
    <2>1. amount * Bps \in Nat /\ Bps - PartnerBps \in Nat \ {0}
      BY ConstantTypes
    <2>2. profit \in Nat
      BY <2>1, DivisionBounds
    <2> HIDE DEF profit
    <2>3. cut \in Nat
      BY <2>2, ShareTypes, ConstantTypes
    <2> HIDE DEF cut
    <2>4. protocol \in Nat /\ protocol <= amount
      BY <2>3, SmallerOfTwo
    <2> HIDE DEF protocol
    <2>5. rest \in Nat
      BY <2>4
    <2> HIDE DEF rest
    <2>6. /\ TraderPart(amount, rest, basis) \in Nat
          /\ TraderPart(amount, rest, basis) <= (rest * TraderBps) \div Bps
      BY <2>5, TraderPartTypes
    <2>7. /\ (rest * TraderBps) \div Bps \in Nat /\ (rest * PotBps) \div Bps \in Nat
          /\ (rest * TraderBps) \div Bps + (rest * PotBps) \div Bps <= rest
      BY <2>5, SharesFit
    <2>8. toTrader \in Nat /\ toPot \in Nat /\ rest - toTrader - toPot \in Nat
      <3> DEFINE x == TraderPart(amount, rest, basis)
                 y == (rest * TraderBps) \div Bps
                 k == (rest * PotBps) \div Bps
      <3>1. x \in Nat /\ y \in Nat /\ k \in Nat /\ x <= y /\ y + k <= rest
        BY <2>6, <2>7
      <3>2. (toTrader = 0 \/ toTrader = x) /\ (toPot = 0 \/ toPot = k)
        OBVIOUS
      <3> HIDE DEF x, y, k, toTrader, toPot
      <3> QED
        BY <2>5, <3>1, <3>2
    <2> QED
      BY <2>4, <2>5, <2>8
  <1>2. Split(r, c, trader, amount, basis) = z
    <2>1. [v EXCEPT !.pot = @ + toPot] = w
      <3> HIDE DEF v, toPot
      <3> QED
        OBVIOUS
    <2>2. Split(r, c, trader, amount, basis)
            = IF toLp # 0 THEN LpShare(Owes([v EXCEPT !.pot = @ + toPot], c, amount), c, toLp)
              ELSE Owes([v EXCEPT !.pot = @ + toPot], c, amount)
      BY Zenon DEF Split
    <2> QED
      BY <2>1, <2>2
  <1>3. toTrader # 0 => c = Quote /\ trader # NoOne
    OBVIOUS
  <1>4. c # Quote => toPot = 0
    OBVIOUS
  <1>5. protocol + toTrader + toPot + toLp = amount
    <2>1. rest = amount - protocol
      OBVIOUS
    <2>2. toLp = rest - toTrader - toPot
      OBVIOUS
    <2> HIDE DEF protocol, rest, toTrader, toPot, toLp
    <2> QED
      BY <1>1, <2>1, <2>2
  <1> HIDE DEF profit, cut, protocol, rest, toTrader, toPot, toLp
  <1>6. q \in RulesState /\ Moves(r, q, c, 0) /\ Shares(r, q)
    <2>1. CASE IsKing
      BY <2>1, RolledEffect, MovesNothing, ConstantSets
    <2>2. CASE ~IsKing
      <3>1. SameLedger(r, r)
        BY DEF SameLedger, SamePending
      <3> QED
        BY <2>2, <3>1, SameLedgerMoves, SamePendingShares DEF SameLedger
    <2> QED
      BY <2>1, <2>2
  <1> HIDE DEF q
  <1>7. t \in RulesState /\ Moves(q, t, c, toTrader) /\ SamePending(q, t) /\ SameHill(q, t)
    <2>1. CASE toTrader # 0
      <3>1. trader \in Beneficiaries
        BY <1>3, <2>1, ConstantSets DEF Leaders
      <3> QED
        BY <1>1, <1>6, <2>1, <3>1, CreditsEffect
    <2>2. CASE toTrader = 0
      <3>1. SameLedger(q, q) /\ SameHill(q, q)
        BY DEF SameLedger, SamePending, SameHill
      <3>2. t = q
        BY <2>2
      <3> HIDE DEF t
      <3> QED
        BY <1>6, <2>2, <3>1, <3>2, SameLedgerMoves DEF SameLedger
    <2> QED
      BY <2>1, <2>2
  <1> HIDE DEF t
  <1>8. v \in RulesState /\ Moves(t, v, c, protocol) /\ SamePending(t, v) /\ SameHill(t, v)
    BY <1>1, <1>7, CreditsEffect, ConstantSets
  <1> HIDE DEF v
  <1>9. w \in RulesState /\ Moves(v, w, c, toPot) /\ SamePending(v, w) /\ SameHill(v, w)
    <2>1. v.pot \in Nat /\ v.pot + toPot \in Nat /\ (v.pot + toPot) - v.pot = toPot
      BY <1>1, <1>8, StateFields
    <2>2. w \in RulesState /\ Moves(v, w, Quote, (v.pot + toPot) - v.pot) /\ SamePending(v, w) /\ SameHill(v, w)
      BY <1>8, <2>1, PotEffect
    <2> HIDE DEF w
    <2>3. Moves(v, w, Quote, toPot)
      BY <2>1, <2>2
    <2>4. c # Quote => Moves(v, w, c, toPot)
      <3>1. c # Quote => Moves(v, w, Quote, 0)
        BY <1>4, <2>3
      <3>2. c # Quote => Moves(v, w, c, 0)
        BY <3>1, MovesNothing, ConstantSets
      <3> QED
        BY <1>4, <3>2
    <2> QED
      BY <2>2, <2>3, <2>4
  <1> HIDE DEF w
  <1> DEFINE paid == toTrader + protocol + toPot
  <1>10. Moves(r, w, c, paid)
    <2>1. Moves(r, t, c, 0 + toTrader)
      BY <1>1, <1>6, <1>7, MovesTwice
    <2>2. 0 + toTrader \in Int /\ 0 + toTrader = toTrader
      BY <1>1
    <2>3. Moves(r, v, c, toTrader + protocol)
      BY <1>1, <1>7, <1>8, <2>1, <2>2, MovesTwice
    <2>4. Moves(r, w, c, (toTrader + protocol) + toPot)
      BY <1>1, <1>8, <1>9, <2>3, MovesTwice
    <2> QED
      BY <2>4
  <1>11. paid \in Nat /\ paid + toLp = amount
    BY <1>1, <1>5
  <1> HIDE DEF paid
  <1>12. /\ u \in RulesState /\ SamePending(w, u) /\ SameHill(w, u)
         /\ \A d \in Currencies : /\ u.liabilities[d] = w.liabilities[d] + (IF d = c THEN amount ELSE 0)
                                  /\ Worth(u, d) = Worth(w, d)
    BY <1>9, OwesEffect
  <1> HIDE DEF u
  <1>13. z \in RulesState /\ Moves(u, z, c, toLp) /\ Shares(u, z) /\ SameHill(u, z)
    <2>1. CASE toLp # 0
      BY <1>1, <1>12, <2>1, LpShareEffect
    <2>2. CASE toLp = 0
      <3>1. SameLedger(u, u) /\ SameHill(u, u)
        BY DEF SameLedger, SamePending, SameHill
      <3>2. z = u
        BY <2>2
      <3> HIDE DEF z
      <3> QED
        BY <1>12, <2>2, <3>1, <3>2, SameLedgerMoves, SamePendingShares DEF SameLedger
    <2> QED
      BY <2>1, <2>2
  <1> HIDE DEF z
  <1>14. Earns(r, z, c, amount)
    <2> SUFFICES ASSUME NEW d \in Currencies
                 PROVE  /\ z.liabilities[d] = r.liabilities[d] + (IF d = c THEN amount ELSE 0)
                        /\ Worth(z, d) = Worth(r, d) + (IF d = c THEN amount ELSE 0)
      BY DEF Earns
    <2>1. Worth(r, d) \in Nat /\ r.liabilities[d] \in Nat
      BY WorthType, StateFields
    <2>2. Worth(z, d) = Worth(u, d) + (IF d = c THEN toLp ELSE 0) /\ z.liabilities = u.liabilities
      BY <1>13 DEF Moves
    <2>3. Worth(w, d) = Worth(r, d) + (IF d = c THEN paid ELSE 0) /\ w.liabilities = r.liabilities
      BY <1>10 DEF Moves
    <2> QED
      BY <1>1, <1>11, <1>12, <2>1, <2>2, <2>3
  <1>15. Shares(r, z)
    <2>1. SamePending(q, u)
      BY <1>7, <1>8, <1>9, <1>12 DEF SamePending
    <2>2. Shares(q, u)
      BY <1>6, <1>12, <2>1, SamePendingShares
    <2>3. Shares(r, u)
      BY <1>6, <1>12, <2>2, SharesTwice
    <2> QED
      BY <1>12, <1>13, <2>3, SharesTwice
  <1>16. SameHill(q, z)
    BY <1>7, <1>8, <1>9, <1>12, <1>13 DEF SameHill
  <1> QED
    BY <1>2, <1>13, <1>14, <1>15, <1>16 DEF q

\* settleSwap credits the whole fee, and owes it.
LEMMA AllocatedEffect ==
  ASSUME NEW r \in RulesState, NEW x \in Swaps, NEW z \in Settlements
  PROVE  LET t == Allocated(r, x, z)
         IN  /\ t \in RulesState /\ Earns(r, t, Quote, z.rulesFee + z.advisoryFee + z.refund)
             /\ z.rulesFee + z.advisoryFee + z.refund \in Nat
             /\ SamePending(r, t) /\ SameHill(r, t)
  <1> DEFINE share == (x.spend * RoyaltyBps) \div Bps
             royalty == IF x.isBuy THEN Min({share, z.rulesFee}) ELSE 0
             cut == ((z.rulesFee - royalty) * IntegratorBps) \div Bps
             left == z.rulesFee - royalty - cut
             s == Credits(r, Quote, RoyaltyTo, royalty)
             t == Credits(s, Quote, Integrator, cut)
             u == Credits(t, Quote, ProtocolRecipient, left)
             v == IF z.advisoryFee # 0 THEN Credits(u, Quote, z.advisoryRecipient, z.advisoryFee) ELSE u
             w == IF z.refund # 0 THEN Credits(v, Quote, x.payer, z.refund) ELSE v
  <1>1. /\ z.rulesFee \in Nat /\ z.advisoryFee \in Nat /\ z.refund \in Nat /\ z.advisoryRecipient \in Beneficiaries
        /\ x.spend \in Nat /\ x.payer \in Beneficiaries
    <2>1. z \in [rulesFee : Nat, advisoryFee : Nat, refund : Nat, advisoryRecipient : Accounts]
      BY BoundAssumption
    <2>2. x.spend \in Spends /\ x.payer \in Buyers
      BY DEF Swaps
    <2>3. x.spend \in Nat /\ x.payer \in Beneficiaries
      BY <2>2, ConstantTypes, ConstantSets
    <2> QED
      BY <2>1, <2>3, ConstantSets
  <1>2. share \in Nat
    BY <1>1, ShareTypes, ConstantTypes
  <1>3. Allocated(r, x, z) = Owes(w, Quote, z.rulesFee + z.advisoryFee + z.refund)
    BY Zenon DEF Allocated
  <1> HIDE DEF share
  <1>4. royalty \in Nat /\ royalty <= z.rulesFee
    BY <1>1, <1>2, SmallerOfTwo
  <1> HIDE DEF royalty
  <1>5. z.rulesFee - royalty \in Nat
    BY <1>1, <1>4
  <1>6. cut \in Nat /\ cut <= z.rulesFee - royalty
    BY <1>5, ShareTypes, ConstantTypes
  <1> HIDE DEF cut
  <1>7. left \in Nat /\ royalty + cut + left = z.rulesFee
    BY <1>1, <1>4, <1>5, <1>6
  <1> HIDE DEF left
  <1>8. s \in RulesState /\ Moves(r, s, Quote, royalty) /\ SamePending(r, s) /\ SameHill(r, s)
    BY <1>4, CreditsEffect, ConstantSets
  <1> HIDE DEF s
  <1>9. t \in RulesState /\ Moves(s, t, Quote, cut) /\ SamePending(s, t) /\ SameHill(s, t)
    BY <1>6, <1>8, CreditsEffect, ConstantSets
  <1> HIDE DEF t
  <1>10. u \in RulesState /\ Moves(t, u, Quote, left) /\ SamePending(t, u) /\ SameHill(t, u)
    BY <1>7, <1>9, CreditsEffect, ConstantSets
  <1> HIDE DEF u
  <1>11. v \in RulesState /\ Moves(u, v, Quote, z.advisoryFee) /\ SamePending(u, v) /\ SameHill(u, v)
    <2>1. CASE z.advisoryFee # 0
      BY <1>1, <1>10, <2>1, CreditsEffect, ConstantSets
    <2>2. CASE z.advisoryFee = 0
      <3>1. SameLedger(u, u) /\ SameHill(u, u) /\ v = u
        BY <2>2 DEF SameLedger, SamePending, SameHill
      <3> HIDE DEF v
      <3> QED
        BY <1>10, <2>2, <3>1, SameLedgerMoves, ConstantSets DEF SameLedger
    <2> QED
      BY <2>1, <2>2
  <1> HIDE DEF v
  <1>12. w \in RulesState /\ Moves(v, w, Quote, z.refund) /\ SamePending(v, w) /\ SameHill(v, w)
    <2>1. CASE z.refund # 0
      BY <1>1, <1>11, <2>1, CreditsEffect, ConstantSets
    <2>2. CASE z.refund = 0
      <3>1. SameLedger(v, v) /\ SameHill(v, v) /\ w = v
        BY <2>2 DEF SameLedger, SamePending, SameHill
      <3> HIDE DEF w
      <3> QED
        BY <1>11, <2>2, <3>1, SameLedgerMoves, ConstantSets DEF SameLedger
    <2> QED
      BY <2>1, <2>2
  <1> HIDE DEF w
  <1> DEFINE total == z.rulesFee + z.advisoryFee + z.refund
  <1>13. Moves(r, w, Quote, total)
    <2>1. Moves(r, t, Quote, royalty + cut)
      BY <1>4, <1>6, <1>8, <1>9, MovesTwice, ConstantSets
    <2>2. royalty + cut \in Int /\ royalty + cut + left \in Int /\ royalty + cut + left + z.advisoryFee \in Int
      BY <1>1, <1>4, <1>6, <1>7
    <2>3. Moves(r, u, Quote, royalty + cut + left)
      BY <1>7, <1>9, <1>10, <2>1, <2>2, MovesTwice, ConstantSets
    <2>4. Moves(r, v, Quote, royalty + cut + left + z.advisoryFee)
      BY <1>1, <1>10, <1>11, <2>2, <2>3, MovesTwice, ConstantSets
    <2>5. Moves(r, w, Quote, royalty + cut + left + z.advisoryFee + z.refund)
      BY <1>1, <1>11, <1>12, <2>2, <2>4, MovesTwice, ConstantSets
    <2> QED
      BY <1>7, <2>5
  <1>14. total \in Nat
    BY <1>1
  <1> HIDE DEF total
  <1> DEFINE a == Owes(w, Quote, total)
  <1>15. a \in RulesState /\ Earns(r, a, Quote, total) /\ SamePending(w, a) /\ SameHill(w, a)
    BY <1>12, <1>13, <1>14, MovesThenOwes, ConstantSets
  <1> HIDE DEF a
  <1>16. SamePending(r, a) /\ SameHill(r, a)
    BY <1>8, <1>9, <1>10, <1>11, <1>12, <1>15 DEF SamePending, SameHill
  <1>17. Allocated(r, x, z) = a
    BY <1>3 DEF a, total
  <1> QED
    BY <1>14, <1>15, <1>16, <1>17 DEF total

\* Tracking a lead leaves the ledger and the epoch alone.
LEMMA TrackedEffect ==
  ASSUME NEW r \in RulesState, NEW x \in Swaps, tx.previous.leader \in Leaders, tx.previous.amount \in Nat
  PROVE  LET t == Tracked(r, x)
         IN  t \in RulesState /\ SameLedger(r, t) /\ t.epochStart = r.epochStart
  <1>1. x.spend \in Nat /\ x.payer \in Leaders
    <2>1. x.spend \in Spends /\ x.payer \in Buyers
      BY DEF Swaps
    <2> QED
      BY <2>1, ConstantTypes DEF Leaders
  <1>2. \A who \in Leaders, n \in Nat :
          LET t == [r EXCEPT !.leader = who, !.leaderAmount = n]
          IN  t \in RulesState /\ SameLedger(r, t) /\ t.epochStart = r.epochStart
    BY DEF RulesState, SameLedger, SamePending
  <1>3. SameLedger(r, r)
    BY DEF SameLedger, SamePending
  <1> QED
    BY <1>1, <1>2, <1>3 DEF Tracked

-----------------------------------------------------------------------------
(* A flush.                                                                  *)

\* What blocks earn is capped by the clock's pace past the last mark.
LEMMA AgeTypes ==
  ASSUME NEW blocks \in Nat, NEW mark \in Nat, second \in Nat
  PROVE  /\ Age(blocks, mark) \in Nat /\ Age(blocks, mark) <= blocks
         /\ mark <= Pace => mark + Age(blocks, mark) <= Pace
         /\ Age(blocks, mark) = 0 <=> blocks = 0 \/ Pace <= mark
         /\ Pace \in Nat /\ Pace = PerSecond * second + PerSecond /\ PerSecond * second \in Nat
  <1>1. Pace \in Nat /\ Pace = PerSecond * second + PerSecond /\ PerSecond * second \in Nat
    BY ConstantTypes DEF Pace
  <1> DEFINE left == IF Pace > mark THEN Pace - mark ELSE 0
  <1>2. left \in Nat /\ (left = 0 <=> Pace <= mark) /\ (mark <= Pace => mark + left = Pace)
    BY <1>1
  <1>3. Age(blocks, mark) = Min({blocks, left})
    BY DEF Age
  <1> HIDE DEF left
  <1>4. Min({blocks, left}) = IF blocks <= left THEN blocks ELSE left
    BY <1>2, SmallerOfTwo
  <1> QED
    BY <1>1, <1>2, <1>3, <1>4

\* The ages of what is due and of what is fresh.
LEMMA AgesTypes ==
  ASSUME NEW r \in RulesState, block \in Nat, second \in Nat, r.releasedAt <= block
  PROVE  /\ DueAge(r) \in Nat /\ DueAge(r) <= block - r.releasedAt
         /\ r.dueMark <= Pace => r.dueMark + DueAge(r) <= Pace
         /\ DueAge(r) = 0 <=> r.releasedAt = block \/ Pace <= r.dueMark
         /\ FreshAge(r) \in Nat
         /\ FreshAge(r) # 0 => /\ AnyFresh(r) /\ r.freshBlock < block
                               /\ FreshAge(r) <= block - r.freshBlock
                               /\ FreshMark(r) <= Pace => FreshMark(r) + FreshAge(r) <= Pace
         /\ FreshAge(r) = 0 => ~AnyFresh(r) \/ r.freshBlock >= block \/ Pace <= FreshMark(r)
         /\ FreshMark(r) \in Nat /\ FreshMark(r) = r.freshTime * PerSecond
  <1>1. /\ r.freshBlock \in Nat /\ r.freshTime \in Nat /\ r.releasedAt \in Nat /\ r.dueMark \in Nat
        /\ block - r.releasedAt \in Nat
    BY StateFields
  <1>2. FreshMark(r) \in Nat /\ FreshMark(r) = r.freshTime * PerSecond
    BY <1>1, ConstantTypes DEF FreshMark
  <1>3. /\ DueAge(r) \in Nat /\ DueAge(r) <= block - r.releasedAt
        /\ r.dueMark <= Pace => r.dueMark + DueAge(r) <= Pace
        /\ DueAge(r) = 0 <=> block - r.releasedAt = 0 \/ Pace <= r.dueMark
    BY <1>1, AgeTypes DEF DueAge
  <1>4. CASE AnyFresh(r) /\ r.freshBlock < block
    <2>1. block - r.freshBlock \in Nat /\ block - r.freshBlock # 0
      BY <1>1, <1>4
    <2>2. FreshAge(r) = Age(block - r.freshBlock, FreshMark(r))
      BY <1>4 DEF FreshAge
    <2>3. /\ FreshAge(r) \in Nat /\ FreshAge(r) <= block - r.freshBlock
          /\ FreshMark(r) <= Pace => FreshMark(r) + FreshAge(r) <= Pace
          /\ FreshAge(r) = 0 <=> block - r.freshBlock = 0 \/ Pace <= FreshMark(r)
      <3> DEFINE n == block - r.freshBlock
                 m == FreshMark(r)
      <3>1. n \in Nat /\ m \in Nat
        BY <1>2, <2>1
      <3> HIDE DEF n, m
      <3>2. /\ Age(n, m) \in Nat /\ Age(n, m) <= n
            /\ m <= Pace => m + Age(n, m) <= Pace
            /\ Age(n, m) = 0 <=> n = 0 \/ Pace <= m
        BY <3>1, AgeTypes
      <3> QED
        BY <2>2, <3>2, Zenon DEF n, m
    <2> QED
      BY <1>1, <1>2, <1>3, <1>4, <2>1, <2>3
  <1>5. CASE ~(AnyFresh(r) /\ r.freshBlock < block)
    <2>1. FreshAge(r) = 0
      BY <1>5 DEF FreshAge
    <2> QED
      BY <1>1, <1>2, <1>3, <1>5, <2>1
  <1> QED
    BY <1>4, <1>5

\* What a flush releases: of each part no more than there is, and no more than its
\* age's share, each rounded up; and something whenever a part that is not empty aged.
LEMMA OutTypes ==
  ASSUME NEW r \in RulesState, block \in Nat, second \in Nat, r.releasedAt <= block
  PROVE  /\ Out(r) \in [PoolCurrencies -> Nat]
         /\ \A c \in PoolCurrencies :
              /\ Out(r)[c] <= r.due[c] + (IF FreshAge(r) # 0 THEN r.fresh[c] ELSE 0)
              /\ Out(r)[c] * ReleaseBlocks <= r.due[c] * DueAge(r) + r.fresh[c] * FreshAge(r) + 2 * (ReleaseBlocks - 1)
         /\ Out(r) = None => /\ \A c \in PoolCurrencies : Out(r)[c] = 0
                             /\ FreshAge(r) = 0 /\ (AnyDue(r) => DueAge(r) = 0)
  <1>1. DueAge(r) \in Nat /\ FreshAge(r) \in Nat /\ (FreshAge(r) # 0 => AnyFresh(r))
    BY AgesTypes
  <1>2. ASSUME NEW c \in PoolCurrencies
        PROVE  /\ Out(r)[c] \in Nat
               /\ Out(r)[c] <= r.due[c] + (IF FreshAge(r) # 0 THEN r.fresh[c] ELSE 0)
               /\ Out(r)[c] * ReleaseBlocks <= r.due[c] * DueAge(r) + r.fresh[c] * FreshAge(r) + 2 * (ReleaseBlocks - 1)
               /\ Out(r)[c] = 0 => (FreshAge(r) # 0 => r.fresh[c] = 0) /\ (DueAge(r) # 0 => r.due[c] = 0)
    <2> DEFINE d == r.due[c]
               f == r.fresh[c]
               a == DueAge(r)
               b == FreshAge(r)
               x == Released(d, a)
               y == Released(f, b)
    <2>1. d \in Nat /\ f \in Nat /\ a \in Nat /\ b \in Nat
      BY <1>1, StateFields
    <2>2. Out(r)[c] = x + y
      BY DEF Out
    <2> HIDE DEF d, f, a, b
    <2>3. /\ x \in Nat /\ x <= d /\ (a = 0 => x = 0) /\ x * ReleaseBlocks <= d * a + (ReleaseBlocks - 1)
          /\ a # 0 /\ d # 0 => x # 0
      BY <2>1, ReleasedTypes
    <2>4. /\ y \in Nat /\ y <= f /\ (b = 0 => y = 0) /\ y * ReleaseBlocks <= f * b + (ReleaseBlocks - 1)
          /\ b # 0 /\ f # 0 => y # 0
      BY <2>1, ReleasedTypes
    <2> HIDE DEF x, y
    <2>5. /\ (x + y) * ReleaseBlocks = x * ReleaseBlocks + y * ReleaseBlocks
          /\ x * ReleaseBlocks \in Int /\ y * ReleaseBlocks \in Int /\ d * a \in Int /\ f * b \in Int
          /\ 2 * (ReleaseBlocks - 1) = (ReleaseBlocks - 1) + (ReleaseBlocks - 1) /\ ReleaseBlocks - 1 \in Int
      BY <2>1, <2>3, <2>4, ConstantTypes
    <2>6. (x + y) * ReleaseBlocks <= d * a + f * b + 2 * (ReleaseBlocks - 1)
      BY <2>3, <2>4, <2>5
    <2>7. x + y \in Nat /\ x + y <= d + (IF b # 0 THEN f ELSE 0)
      BY <2>1, <2>3, <2>4
    <2>8. x + y = 0 => x = 0 /\ y = 0
      BY <2>3, <2>4
    <2> QED
      BY <2>2, <2>3, <2>4, <2>6, <2>7, <2>8 DEF d, f, a, b
  <1>3. Out(r) = [c \in PoolCurrencies |-> Out(r)[c]]
    BY DEF Out
  <1>4. Out(r) \in [PoolCurrencies -> Nat]
    BY <1>2, <1>3
  <1>5. ASSUME Out(r) = None
        PROVE  /\ \A c \in PoolCurrencies : Out(r)[c] = 0
               /\ FreshAge(r) = 0 /\ (AnyDue(r) => DueAge(r) = 0)
    <2>1. \A c \in PoolCurrencies : Out(r)[c] = 0
      BY <1>5 DEF None
    <2>2. FreshAge(r) # 0 => ~AnyFresh(r)
      BY <1>2, <2>1, AnyPending
    <2>3. DueAge(r) # 0 => ~AnyDue(r)
      BY <1>2, <2>1, AnyPending
    <2> QED
      BY <1>1, <2>1, <2>2, <2>3
  <1> QED
    BY <1>2, <1>4, <1>5

\* A mark moves forward, past what it pays for and never past the clock's pace.
LEMMA MarkTypes ==
  ASSUME NEW r \in RulesState, block \in Nat, second \in Nat, r.releasedAt <= block
  PROVE  /\ Mark(r) \in Nat /\ r.dueMark <= Mark(r)
         /\ AnyDue(r) => r.dueMark + DueAge(r) <= Mark(r)
         /\ FreshAge(r) # 0 => FreshMark(r) + FreshAge(r) <= Mark(r)
         /\ PerSecond * second <= Mark(r)
         /\ r.dueMark <= Pace /\ (FreshAge(r) # 0 => FreshMark(r) <= Pace) => Mark(r) <= Pace
  <1> DEFINE x == IF AnyDue(r) THEN r.dueMark + DueAge(r) ELSE r.dueMark
             y == IF FreshAge(r) # 0 THEN FreshMark(r) + FreshAge(r) ELSE 0
             z == Pace - PerSecond
  <1>1. /\ DueAge(r) \in Nat /\ FreshAge(r) \in Nat /\ FreshMark(r) \in Nat /\ r.dueMark \in Nat
        /\ r.dueMark <= Pace => r.dueMark + DueAge(r) <= Pace
        /\ FreshAge(r) # 0 => (FreshMark(r) <= Pace => FreshMark(r) + FreshAge(r) <= Pace)
    BY AgesTypes, StateFields
  <1>2. Pace \in Nat /\ z = PerSecond * second /\ PerSecond * second \in Nat /\ z <= Pace
    <2>1. Pace \in Nat /\ Pace = PerSecond * second + PerSecond /\ PerSecond * second \in Nat
      BY <1>1, AgeTypes
    <2> QED
      BY <2>1, ConstantTypes
  <1>3. /\ x \in Nat /\ r.dueMark <= x /\ (AnyDue(r) => x = r.dueMark + DueAge(r))
        /\ r.dueMark <= Pace => x <= Pace
    BY <1>1, <1>2
  <1>4. /\ y \in Nat /\ (FreshAge(r) # 0 => y = FreshMark(r) + FreshAge(r))
        /\ (FreshAge(r) # 0 => FreshMark(r) <= Pace) => y <= Pace
    BY <1>1, <1>2
  <1>5. Mark(r) = Max({x, y, z})
    BY DEF Mark
  <1> HIDE DEF x, y, z
  <1>6. x \in Int /\ y \in Int /\ z \in Int
    BY <1>2, <1>3, <1>4
  <1>7. Mark(r) \in {x, y, z} /\ Mark(r) >= x /\ Mark(r) >= y /\ Mark(r) >= z
    <2>1. Max({x, y, z}) \in {x, y, z} /\ Max({x, y, z}) >= x /\ Max({x, y, z}) >= y /\ Max({x, y, z}) >= z
      BY <1>6, LargestOfThree, Zenon
    <2> QED
      BY <1>5, <2>1, Zenon
  <1> QED
    BY <1>1, <1>2, <1>3, <1>4, <1>7

\* The rules after a flush's bookkeeping.
LEMMA FlushedFields ==
  ASSUME NEW r \in RulesState, block \in Nat, second \in Nat, r.releasedAt <= block
  PROVE  LET t == Flushed(r)
         IN  /\ t \in RulesState /\ t.claims = r.claims /\ t.liabilities = r.liabilities /\ t.accrued = r.accrued
             /\ t.pot = r.pot /\ SameHill(r, t) /\ t.freshBlock = r.freshBlock /\ t.freshTime = r.freshTime
             /\ \A c \in PoolCurrencies :
                  /\ t.fresh[c] = (IF FreshAge(r) # 0 THEN 0 ELSE r.fresh[c])
                  /\ t.due[c] + t.fresh[c] + Out(r)[c] = r.due[c] + r.fresh[c]
             /\ IF Out(r) # None THEN t.releasedAt = block /\ t.dueMark = Mark(r)
                ELSE /\ t.due = r.due /\ t.fresh = r.fresh /\ t.dueMark = r.dueMark
                     /\ t.releasedAt = IF AnyDue(r) THEN block ELSE r.releasedAt
  <1> DEFINE merges == FreshAge(r) # 0
             due == [c \in PoolCurrencies |-> r.due[c] + (IF merges THEN r.fresh[c] ELSE 0)]
             fresh == IF merges THEN None ELSE r.fresh
             left == [c \in PoolCurrencies |-> due[c] - Out(r)[c]]
             at == IF due # None /\ block > r.releasedAt THEN block ELSE r.releasedAt
             t == Flushed(r)
  <1>1. /\ \A c \in PoolCurrencies : r.due[c] \in Nat /\ r.fresh[c] \in Nat
        /\ r.due \in [PoolCurrencies -> Nat] /\ r.fresh \in [PoolCurrencies -> Nat] /\ r.releasedAt \in Nat
    BY StateFields
  <1>2. /\ Out(r) \in [PoolCurrencies -> Nat]
        /\ \A c \in PoolCurrencies : Out(r)[c] <= r.due[c] + (IF merges THEN r.fresh[c] ELSE 0)
        /\ Out(r) = None => ~merges /\ \A c \in PoolCurrencies : Out(r)[c] = 0
    BY OutTypes
  <1>3. fresh \in [PoolCurrencies -> Nat] /\ \A c \in PoolCurrencies : fresh[c] = IF merges THEN 0 ELSE r.fresh[c]
    BY <1>1 DEF None
  <1>4. \A c \in PoolCurrencies : /\ left[c] \in Nat
                                  /\ left[c] + fresh[c] + Out(r)[c] = r.due[c] + r.fresh[c]
    <2>1. \A c \in PoolCurrencies : left[c] = (r.due[c] + (IF merges THEN r.fresh[c] ELSE 0)) - Out(r)[c]
      <3>1. \A c \in PoolCurrencies : due[c] = r.due[c] + (IF merges THEN r.fresh[c] ELSE 0)
        BY Zenon
      <3> HIDE DEF due
      <3>2. \A c \in PoolCurrencies : left[c] = due[c] - Out(r)[c]
        OBVIOUS
      <3> HIDE DEF left, merges
      <3> QED
        BY <3>1, <3>2, Zenon
    <2>2. \A c \in PoolCurrencies : Out(r)[c] \in Nat
      BY <1>2
    <2> HIDE DEF left, merges, fresh
    <2> QED
      BY <1>1, <1>2, <1>3, <2>1, <2>2
  <1>5. left \in [PoolCurrencies -> Nat]
    BY <1>4
  <1>6. t = IF Out(r) # None THEN [[r EXCEPT !.fresh = fresh] EXCEPT !.due = left, !.releasedAt = block, !.dueMark = Mark(r)]
            ELSE [[r EXCEPT !.fresh = fresh] EXCEPT !.releasedAt = at]
    <2> DEFINE v == [r EXCEPT !.fresh = IF merges THEN None ELSE @]
    <2>1. v = [r EXCEPT !.fresh = fresh] /\ v.releasedAt = r.releasedAt
      BY DEF RulesState
    <2>2. t = IF Out(r) # None
              THEN [v EXCEPT !.due = left, !.releasedAt = block, !.dueMark = Mark(r)]
              ELSE [v EXCEPT !.releasedAt = IF due # None /\ block > @ THEN block ELSE @]
      BY Zenon DEF Flushed
    <2>3. [v EXCEPT !.releasedAt = IF due # None /\ block > @ THEN block ELSE @] = [v EXCEPT !.releasedAt = at]
      <3> HIDE DEF v, due, merges
      <3> QED
        BY <2>1
    <2> HIDE DEF v, due, left, at, fresh, merges, t
    <2> QED
      BY <2>1, <2>2, <2>3
  <1>7. Mark(r) \in Nat
    BY MarkTypes
  <1>8. at \in Nat
    BY <1>1
  <1>9. CASE Out(r) # None
    <2> HIDE DEF due, left, fresh, merges, at, t
    <2>1. /\ t \in RulesState /\ t.claims = r.claims /\ t.liabilities = r.liabilities /\ t.accrued = r.accrued
          /\ t.pot = r.pot /\ SameHill(r, t) /\ t.freshBlock = r.freshBlock /\ t.freshTime = r.freshTime
          /\ t.fresh = fresh /\ t.due = left /\ t.releasedAt = block /\ t.dueMark = Mark(r)
      BY <1>3, <1>5, <1>6, <1>7, <1>9 DEF RulesState, SameHill
    <2> QED
      BY <1>3, <1>4, <1>9, <2>1 DEF t, merges
  <1>10. CASE Out(r) = None
    <2>1. ~merges /\ fresh = r.fresh
      BY <1>2, <1>10
    <2>2. due # None <=> AnyDue(r)
      <3>1. \A c \in PoolCurrencies : due[c] = r.due[c]
        BY <1>1, <2>1
      <3>2. due = r.due
        BY <1>1, <3>1
      <3> QED
        BY <3>2 DEF AnyDue
    <2>3. at = IF AnyDue(r) THEN block ELSE r.releasedAt
      BY <1>1, <2>2
    <2> HIDE DEF due, left, fresh, merges, at, t
    <2>4. /\ t \in RulesState /\ t.claims = r.claims /\ t.liabilities = r.liabilities /\ t.accrued = r.accrued
          /\ t.pot = r.pot /\ SameHill(r, t) /\ t.freshBlock = r.freshBlock /\ t.freshTime = r.freshTime
          /\ t.fresh = fresh /\ t.due = r.due /\ t.releasedAt = at /\ t.dueMark = r.dueMark
      BY <1>3, <1>6, <1>8, <1>10 DEF RulesState, SameHill
    <2> QED
      BY <1>1, <1>2, <1>10, <2>1, <2>3, <2>4 DEF t, merges
  <1> QED
    BY <1>9, <1>10

\* A flush takes what it releases out of what is pending, and out of what is owed when
\* it is donated: the rest of the ledger is as it was.
LEMMA FlushedRulesEffect ==
  ASSUME NEW r \in RulesState, block \in Nat, second \in Nat, r.releasedAt <= block, liquidity \in BOOLEAN,
         \A c \in Currencies : r.liabilities[c] = Worth(r, c)
  PROVE  LET t == FlushedRules(r)
         IN  /\ t \in RulesState /\ SameHill(r, t) /\ t.pot = r.pot /\ SamePending(Flushed(r), t)
             /\ \A d \in Currencies :
                  /\ Worth(t, d) = Worth(r, d) - (IF liquidity /\ d \in PoolCurrencies THEN Out(r)[d] ELSE 0)
                  /\ t.liabilities[d] = r.liabilities[d] - (IF liquidity /\ d \in PoolCurrencies THEN Out(r)[d] ELSE 0)
  <1> DEFINE f == Flushed(r)
             o == Out(r)
             owed == [c \in Currencies |-> IF c \in PoolCurrencies THEN f.liabilities[c] - o[c] ELSE f.liabilities[c]]
             more == [c \in Currencies |-> IF c \in PoolCurrencies THEN f.accrued[c] + o[c] ELSE f.accrued[c]]
             t == FlushedRules(r)
  <1>1. /\ f \in RulesState /\ f.claims = r.claims /\ f.liabilities = r.liabilities /\ f.accrued = r.accrued
        /\ f.pot = r.pot /\ SameHill(r, f)
        /\ \A c \in PoolCurrencies : f.due[c] + f.fresh[c] + o[c] = r.due[c] + r.fresh[c]
    BY FlushedFields
  <1>2. /\ o \in [PoolCurrencies -> Nat] /\ \A c \in PoolCurrencies : o[c] \in Nat
    BY OutTypes
  <1>3. t = IF liquidity THEN [f EXCEPT !.liabilities = owed] ELSE [f EXCEPT !.accrued = more]
    <2>1. t = IF liquidity THEN Donated(f, o) ELSE AccruedOut(f, o)
      BY Zenon DEF FlushedRules
    <2> HIDE DEF f, o
    <2>2. Donated(f, o) = [f EXCEPT !.liabilities = owed] /\ AccruedOut(f, o) = [f EXCEPT !.accrued = more]
      BY <1>1 DEF Donated, AccruedOut
    <2> QED
      BY <2>1, <2>2
  <1> HIDE DEF f, o
  <1>4. \A c \in Currencies : /\ SumFunctionOnSet(r.claims[c], Beneficiaries) \in Nat
                              /\ r.accrued[c] \in Nat /\ r.pot \in Nat /\ r.liabilities[c] \in Nat
                              /\ Worth(r, c) \in Nat
                              /\ c \in PoolCurrencies => r.due[c] + r.fresh[c] <= Worth(r, c)
    BY WorthType, StateFields
  <1>5. \A c \in PoolCurrencies : /\ r.due[c] \in Nat /\ r.fresh[c] \in Nat /\ f.due[c] \in Nat /\ f.fresh[c] \in Nat
                                  /\ c \in Currencies
    BY <1>1, StateFields, ConstantSets
  <1>6. \A c \in PoolCurrencies : o[c] <= r.liabilities[c]
    BY <1>1, <1>2, <1>4, <1>5
  <1>7. /\ owed \in [Currencies -> Nat]
        /\ \A c \in Currencies : owed[c] = IF c \in PoolCurrencies THEN r.liabilities[c] - o[c] ELSE r.liabilities[c]
    <2>1. \A c \in Currencies : owed[c] = IF c \in PoolCurrencies THEN r.liabilities[c] - o[c] ELSE r.liabilities[c]
      BY <1>1
    <2>2. owed = [c \in Currencies |-> owed[c]]
      OBVIOUS
    <2> HIDE DEF owed
    <2>3. \A c \in Currencies : owed[c] \in Nat
      BY <1>2, <1>4, <1>6, <2>1
    <2> QED
      BY <2>1, <2>2, <2>3
  <1>8. /\ more \in [Currencies -> Nat]
        /\ \A c \in Currencies : more[c] = IF c \in PoolCurrencies THEN r.accrued[c] + o[c] ELSE r.accrued[c]
    <2>1. \A c \in Currencies : more[c] = IF c \in PoolCurrencies THEN r.accrued[c] + o[c] ELSE r.accrued[c]
      BY <1>1
    <2>2. more = [c \in Currencies |-> more[c]]
      OBVIOUS
    <2> HIDE DEF more
    <2>3. \A c \in Currencies : more[c] \in Nat
      BY <1>2, <1>4, <2>1
    <2> QED
      BY <2>1, <2>2, <2>3
  <1> HIDE DEF owed, more, t
  <1>9. /\ t \in RulesState /\ SameHill(f, t) /\ t.pot = f.pot /\ SamePending(f, t) /\ t.claims = f.claims
        /\ t.liabilities = (IF liquidity THEN owed ELSE f.liabilities)
        /\ t.accrued = (IF liquidity THEN f.accrued ELSE more)
    BY <1>1, <1>3, <1>7, <1>8 DEF RulesState, SameHill, SamePending
  <1>10. ASSUME NEW d \in Currencies
         PROVE  /\ Worth(t, d) = Worth(r, d) - (IF liquidity /\ d \in PoolCurrencies THEN o[d] ELSE 0)
                /\ t.liabilities[d] = r.liabilities[d] - (IF liquidity /\ d \in PoolCurrencies THEN o[d] ELSE 0)
    <2> DEFINE claims == SumFunctionOnSet(r.claims[d], Beneficiaries)
               pot == IF d = Quote THEN r.pot ELSE 0
    <2>1. claims \in Nat /\ pot \in Nat
      BY <1>4
    <2>2. /\ Worth(r, d) = claims + r.accrued[d] + (IF d \in PoolCurrencies THEN r.due[d] + r.fresh[d] ELSE 0) + pot
          /\ Worth(t, d) = claims + t.accrued[d] + (IF d \in PoolCurrencies THEN f.due[d] + f.fresh[d] ELSE 0) + pot
      BY <1>1, <1>9, Zenon DEF Worth, SamePending
    <2> HIDE DEF claims, pot
    <2>3. t.accrued[d] = r.accrued[d] + (IF ~liquidity /\ d \in PoolCurrencies THEN o[d] ELSE 0)
      BY <1>1, <1>4, <1>8, <1>9
    <2>4. Worth(t, d) = Worth(r, d) - (IF liquidity /\ d \in PoolCurrencies THEN o[d] ELSE 0)
      <3>1. CASE d \in PoolCurrencies
        <4> DEFINE x == f.due[d] + f.fresh[d]
                   y == r.due[d] + r.fresh[d]
        <4>1. x \in Nat /\ y \in Nat /\ o[d] \in Nat /\ x + o[d] = y
          BY <1>1, <1>2, <1>5, <3>1
        <4>2. /\ Worth(r, d) = claims + r.accrued[d] + y + pot
              /\ Worth(t, d) = claims + t.accrued[d] + x + pot
          BY <2>2, <3>1
        <4> HIDE DEF x, y
        <4> QED
          BY <1>4, <2>1, <2>3, <3>1, <4>1, <4>2
      <3>2. CASE d \notin PoolCurrencies
        BY <1>4, <2>1, <2>2, <2>3, <3>2
      <3> QED
        BY <3>1, <3>2
    <2>5. t.liabilities[d] = r.liabilities[d] - (IF liquidity /\ d \in PoolCurrencies THEN o[d] ELSE 0)
      BY <1>1, <1>4, <1>7, <1>9
    <2> QED
      BY <2>4, <2>5
  <1>11. SameHill(r, t) /\ t.pot = r.pot
    BY <1>1, <1>9 DEF SameHill
  <1>12. \A d \in Currencies :
           /\ Worth(t, d) = Worth(r, d) - (IF liquidity /\ d \in PoolCurrencies THEN o[d] ELSE 0)
           /\ t.liabilities[d] = r.liabilities[d] - (IF liquidity /\ d \in PoolCurrencies THEN o[d] ELSE 0)
    BY <1>10
  <1> QED
    BY <1>9, <1>11, <1>12 DEF t, f, o

\* After a flush nothing pending has aged yet, and the marks are of this second.
LEMMA FlushedClocks ==
  ASSUME NEW r \in RulesState, block \in Nat, second \in Nat, PendingOK(r)
  PROVE  LET t == Flushed(r)
         IN  /\ t.freshBlock <= block /\ t.releasedAt <= block /\ t.freshTime <= second
             /\ t.freshBlock = block => t.freshTime = second
             /\ AnyFresh(t) => t.releasedAt <= t.freshBlock
             /\ t.dueMark <= Pace
             /\ AnyDue(t) => PerSecond * second <= t.dueMark
             /\ Quiet(t)
             /\ r.releasedAt <= t.releasedAt /\ r.dueMark <= t.dueMark
  <1> DEFINE t == Flushed(r)
  <1>1. /\ r.freshBlock \in Nat /\ r.freshTime \in Nat /\ r.releasedAt \in Nat /\ r.dueMark \in Nat
        /\ r.releasedAt <= block /\ r.freshBlock <= block /\ r.freshTime <= second /\ r.dueMark <= Pace
    BY StateFields DEF PendingOK
  <1>2. /\ t \in RulesState /\ t.freshBlock = r.freshBlock /\ t.freshTime = r.freshTime
        /\ \A c \in PoolCurrencies : t.fresh[c] = (IF FreshAge(r) # 0 THEN 0 ELSE r.fresh[c])
        /\ IF Out(r) # None THEN t.releasedAt = block /\ t.dueMark = Mark(r)
           ELSE /\ t.due = r.due /\ t.fresh = r.fresh /\ t.dueMark = r.dueMark
                /\ t.releasedAt = IF AnyDue(r) THEN block ELSE r.releasedAt
    BY <1>1, FlushedFields
  <1> HIDE DEF t
  <1>3. Pace \in Nat /\ Pace = PerSecond * second + PerSecond /\ PerSecond * second \in Nat
    BY AgeTypes
  <1>4. FreshMark(r) < Pace /\ FreshMark(r) \in Nat
    <2>1. FreshMark(r) = r.freshTime * PerSecond /\ FreshMark(r) \in Nat
      BY <1>1, AgesTypes
    <2>2. r.freshTime * PerSecond <= second * PerSecond /\ second * PerSecond = PerSecond * second
      BY <1>1, ConstantTypes, ProductMonotone
    <2> QED
      BY <1>3, <2>1, <2>2, ConstantTypes
  <1>5. FreshAge(r) = 0 => ~AnyFresh(r) \/ r.freshBlock = block
    BY <1>1, <1>3, <1>4, AgesTypes
  <1>6. AnyFresh(t) => t.freshBlock = block
    <2>1. AnyFresh(t) => FreshAge(r) = 0 /\ AnyFresh(r)
      BY <1>2, AnyPending
    <2> QED
      BY <1>2, <1>5, <2>1
  <1>7. CASE Out(r) # None
    <2>1. /\ Mark(r) \in Nat /\ PerSecond * second <= Mark(r) /\ Mark(r) <= Pace /\ r.dueMark <= Mark(r)
      BY <1>1, <1>3, <1>4, MarkTypes
    <2> QED
      BY <1>1, <1>2, <1>6, <1>7, <2>1 DEF Quiet, PendingOK, t
  <1>8. CASE Out(r) = None
    <2>1. AnyDue(t) <=> AnyDue(r)
      BY <1>2, <1>8 DEF AnyDue
    <2>2. AnyDue(r) => DueAge(r) = 0
      BY <1>1, <1>8, OutTypes
    <2>3. AnyDue(r) => r.releasedAt = block \/ Pace <= r.dueMark
      BY <1>1, <2>2, AgesTypes
    <2>4. AnyDue(r) => PerSecond * second <= r.dueMark
      BY <1>1, <1>3, <2>3, ConstantTypes DEF PendingOK
    <2>5. t.releasedAt <= block /\ r.releasedAt <= t.releasedAt
      BY <1>1, <1>2, <1>8
    <2>6. Quiet(t)
      BY <1>2, <1>6, <1>8, <2>1 DEF Quiet
    <2>7. AnyFresh(t) => t.releasedAt <= t.freshBlock
      BY <1>1, <1>2, <1>6, <2>5
    <2>8. r.freshBlock = block => r.freshTime = second
      BY DEF PendingOK
    <2> QED
      BY <1>1, <1>2, <1>8, <2>1, <2>4, <2>5, <2>6, <2>7, <2>8 DEF t
  <1> QED
    BY <1>7, <1>8

\* One window's growth: what a part d of A, and a fresh part f, may take while the
\* window grows from x to y.
LEMMA WindowGrows ==
  ASSUME NEW A \in Nat, NEW d \in Nat, NEW f \in Nat, NEW x \in Nat, NEW y \in Nat, NEW a \in Nat, NEW b \in Nat,
         d <= A, x <= y, d # 0 => x + a <= y, f # 0 => b <= y
  PROVE  A * x + d * a + f * b <= (A + f) * y
  <1>1. d * a <= A * a
    BY ProductBoth
  <1>2. A * x + d * a <= A * y
    <2>1. CASE d = 0
      <3>1. A * x <= A * y /\ d * a = 0
        BY <2>1, ProductBoth
      <3> QED
        BY <3>1
    <2>2. CASE d # 0
      <3>1. x + a \in Nat /\ A * (x + a) <= A * y
        BY <2>2, ProductBoth
      <3>2. A * (x + a) = A * x + A * a
        OBVIOUS
      <3>3. A * x \in Int /\ d * a \in Int /\ A * a \in Int /\ A * y \in Int
        OBVIOUS
      <3> QED
        BY <1>1, <3>1, <3>2, <3>3
    <2> QED
      BY <2>1, <2>2
  <1>3. f * b <= f * y
    <2>1. CASE f = 0
      <3>1. f * b = 0 /\ f * y = 0
        BY <2>1
      <3> QED
        BY <3>1
    <2>2. CASE f # 0
      BY <2>2, ProductBoth
    <2> QED
      BY <2>1, <2>2
  <1>4. /\ (A + f) * y = A * y + f * y /\ A * y \in Int /\ f * y \in Int /\ A * x \in Int /\ d * a \in Int
        /\ f * b \in Int
    OBVIOUS
  <1> QED
    BY <1>2, <1>3, <1>4

\* The position after a flush of r, when it is in range.
PaidOut(p, r) ==
  IF Out(r) = None THEN p
  ELSE [p EXCEPT !.received = [c \in PoolCurrencies |-> @[c] + Out(r)[c]], !.releases = @ + 1]

\* A release pays a position in range what leaves the pending donation.
LEMMA PaidOutFields ==
  ASSUME NEW r \in RulesState, NEW p \in Positions, block \in Nat, second \in Nat, r.releasedAt <= block
  PROVE  LET q == PaidOut(p, r)
         IN  /\ q \in Positions /\ q.at = p.at /\ q.byLeg = p.byLeg /\ q.added = p.added /\ q.block = p.block
             /\ q.second = p.second /\ q.offered = p.offered
             /\ \A c \in PoolCurrencies : q.received[c] = p.received[c] + Out(r)[c]
             /\ q.releases = p.releases + (IF Out(r) = None THEN 0 ELSE 1)
  <1> DEFINE o == Out(r)
             g == [c \in PoolCurrencies |-> p.received[c] + o[c]]
             q == PaidOut(p, r)
  <1>1. o \in [PoolCurrencies -> Nat] /\ (o = None => \A c \in PoolCurrencies : o[c] = 0)
    BY OutTypes
  <1>2. p.received \in [PoolCurrencies -> Nat] /\ p.releases \in Nat
    BY PositionFields
  <1>3. q = IF o = None THEN p ELSE [p EXCEPT !.received = g, !.releases = p.releases + 1]
    BY DEF PaidOut
  <1> HIDE DEF o, q
  <1>4. g \in [PoolCurrencies -> Nat] /\ \A c \in PoolCurrencies : g[c] = p.received[c] + o[c]
    BY <1>1, <1>2
  <1> HIDE DEF g
  <1>5. CASE o = None
    <2>1. q = p
      BY <1>3, <1>5
    <2>2. \A c \in PoolCurrencies : p.received[c] = p.received[c] + o[c]
      BY <1>1, <1>2, <1>5
    <2>3. p.releases = p.releases + 0
      BY <1>2
    <2> QED
      BY <1>5, <2>1, <2>2, <2>3 DEF q, o
  <1>6. CASE o # None
    <2>1. /\ q \in Positions /\ q.at = p.at /\ q.byLeg = p.byLeg /\ q.added = p.added /\ q.block = p.block
          /\ q.second = p.second /\ q.offered = p.offered /\ q.received = g /\ q.releases = p.releases + 1
      <3> DEFINE k == p.releases + 1
      <3>1. k \in Nat /\ q = [p EXCEPT !.received = g, !.releases = k]
        BY <1>2, <1>3, <1>6
      <3> HIDE DEF k
      <3>2. /\ q \in Positions /\ q.at = p.at /\ q.byLeg = p.byLeg /\ q.added = p.added /\ q.block = p.block
            /\ q.second = p.second /\ q.offered = p.offered /\ q.received = g /\ q.releases = k
        BY <1>4, <3>1 DEF Positions
      <3> QED
        BY <3>2 DEF k
    <2> QED
      BY <1>4, <1>6, <2>1 DEF q, o
  <1> QED
    BY <1>5, <1>6

\* A flush pays a stay that began with a flush no more than its blocks' share.
LEMMA FlushedStay ==
  ASSUME NEW r \in RulesState, NEW p \in Positions, block \in Nat, second \in Nat, PendingOK(r), StayOK(r, p)
  PROVE  StayOK(Flushed(r), PaidOut(p, r))
  <1> DEFINE t == Flushed(r)
             q == PaidOut(p, r)
             o == Out(r)
             R == ReleaseBlocks
             a == DueAge(r)
             b == FreshAge(r)
             start == PerSecond * p.second
  <1>1. /\ r.freshBlock \in Nat /\ r.freshTime \in Nat /\ r.releasedAt \in Nat /\ r.dueMark \in Nat
        /\ r.releasedAt <= block /\ r.freshBlock <= block /\ r.freshTime <= second
        /\ \A c \in PoolCurrencies : r.due[c] \in Nat /\ r.fresh[c] \in Nat
    BY StateFields DEF PendingOK
  <1>2. /\ t \in RulesState /\ t.freshBlock = r.freshBlock /\ t.freshTime = r.freshTime
        /\ \A c \in PoolCurrencies : /\ t.fresh[c] = (IF b # 0 THEN 0 ELSE r.fresh[c])
                                     /\ t.due[c] + t.fresh[c] + o[c] = r.due[c] + r.fresh[c]
        /\ IF o # None THEN t.releasedAt = block /\ t.dueMark = Mark(r)
           ELSE /\ t.due = r.due /\ t.fresh = r.fresh /\ t.dueMark = r.dueMark
                /\ t.releasedAt = IF AnyDue(r) THEN block ELSE r.releasedAt
    BY <1>1, FlushedFields
  <1>3. /\ q \in Positions /\ q.byLeg = p.byLeg /\ q.block = p.block
        /\ q.second = p.second /\ q.offered = p.offered
        /\ \A c \in PoolCurrencies : q.received[c] = p.received[c] + o[c]
        /\ q.releases = p.releases + (IF o = None THEN 0 ELSE 1)
    BY <1>1, PaidOutFields
  <1>4. /\ p.block \in Nat /\ p.second \in Nat /\ p.releases \in Nat /\ R \in Nat \ {0}
        /\ \A c \in PoolCurrencies : p.offered[c] \in Nat /\ p.received[c] \in Nat
    BY PositionFields, ConstantTypes
  <1>5. /\ a \in Nat /\ b \in Nat /\ a <= block - r.releasedAt
        /\ b # 0 => AnyFresh(r) /\ b <= block - r.freshBlock
        /\ FreshMark(r) = r.freshTime * PerSecond /\ FreshMark(r) \in Nat
    BY <1>1, AgesTypes
  <1>6. /\ \A c \in PoolCurrencies :
             o[c] \in Nat /\ o[c] * R <= r.due[c] * a + r.fresh[c] * b + 2 * (R - 1)
        /\ o = None => b = 0 /\ \A c \in PoolCurrencies : o[c] = 0
    BY <1>1, OutTypes
  <1>7. /\ t.releasedAt <= block /\ r.releasedAt <= t.releasedAt /\ r.dueMark <= t.dueMark
        /\ AnyDue(t) => PerSecond * second <= t.dueMark
        /\ AnyDue(t) => t.releasedAt = block
    BY FlushedClocks DEF Quiet
  <1>8. /\ t.releasedAt \in Nat /\ t.dueMark \in Nat /\ start \in Nat /\ PerSecond * second \in Nat
        /\ \A c \in PoolCurrencies : t.due[c] \in Nat /\ t.fresh[c] \in Nat
    BY <1>2, <1>4, StateFields, AgeTypes, ConstantTypes
  <1>9. p.block <= block /\ p.second <= second
    BY DEF StayOK
  <1>10. start <= PerSecond * second
    <2>1. p.second * PerSecond <= second * PerSecond
      BY <1>4, <1>9, ConstantTypes, ProductMonotone
    <2>2. p.second * PerSecond = PerSecond * p.second /\ second * PerSecond = PerSecond * second
      BY <1>4, ConstantTypes
    <2> QED
      BY <2>1, <2>2
  <1>11. \A c \in PoolCurrencies : p.received[c] + r.due[c] + r.fresh[c] = p.offered[c]
    BY DEF StayOK
  <1> HIDE DEF t, q, o, a, b, start
  <1>12. \A c \in PoolCurrencies : q.received[c] + t.due[c] + t.fresh[c] = q.offered[c]
    BY <1>1, <1>2, <1>3, <1>4, <1>6, <1>8, <1>11
  <1>13. ASSUME ~p.byLeg, ~FlushMayFail
         PROVE  /\ AnyDue(t) => q.block <= t.releasedAt /\ start <= t.dueMark
                /\ AnyFresh(t) => q.block <= t.freshBlock /\ q.second <= t.freshTime
                /\ \A c \in PoolCurrencies :
                     /\ q.received[c] * R <= (q.offered[c] - t.fresh[c]) * Past(t.releasedAt, q.block) + Dust(q)
                     /\ q.received[c] * R <= (q.offered[c] - t.fresh[c]) * Past(t.dueMark, start) + Dust(q)
    <2>1. /\ AnyDue(r) => p.block <= r.releasedAt /\ start <= r.dueMark
          /\ AnyFresh(r) => p.block <= r.freshBlock /\ p.second <= r.freshTime
          /\ \A c \in PoolCurrencies :
               /\ p.received[c] * R <= (p.offered[c] - r.fresh[c]) * Past(r.releasedAt, p.block) + Dust(p)
               /\ p.received[c] * R <= (p.offered[c] - r.fresh[c]) * Past(r.dueMark, start) + Dust(p)
      BY <1>13 DEF StayOK, start
    <2>2. AnyDue(t) => q.block <= t.releasedAt /\ start <= t.dueMark
      BY <1>3, <1>4, <1>7, <1>8, <1>9, <1>10
    <2>3. AnyFresh(t) => AnyFresh(r)
      BY <1>2, AnyPending
    <2>4. AnyFresh(t) => q.block <= t.freshBlock /\ q.second <= t.freshTime
      BY <1>2, <1>3, <2>1, <2>3
    <2> DEFINE x == Past(r.releasedAt, p.block)
               y == Past(t.releasedAt, p.block)
               v == Past(r.dueMark, start)
               w == Past(t.dueMark, start)
    <2>5. /\ x \in Nat /\ y \in Nat /\ x <= y /\ v \in Nat /\ w \in Nat /\ v <= w
          /\ x = (IF r.releasedAt >= p.block THEN r.releasedAt - p.block ELSE 0)
          /\ y = (IF t.releasedAt >= p.block THEN t.releasedAt - p.block ELSE 0)
          /\ v = (IF r.dueMark >= start THEN r.dueMark - start ELSE 0)
          /\ w = (IF t.dueMark >= start THEN t.dueMark - start ELSE 0)
      <3>1. /\ p.block \in Int /\ r.releasedAt \in Int /\ t.releasedAt \in Int
            /\ start \in Int /\ r.dueMark \in Int /\ t.dueMark \in Int
        BY <1>1, <1>4, <1>8
      <3>2. x \in Nat /\ y \in Nat /\ x <= y /\ v \in Nat /\ w \in Nat /\ v <= w
        BY <1>7, <3>1, PastGrows, Zenon
      <3>3. /\ x = (IF r.releasedAt >= p.block THEN r.releasedAt - p.block ELSE 0)
            /\ y = (IF t.releasedAt >= p.block THEN t.releasedAt - p.block ELSE 0)
            /\ v = (IF r.dueMark >= start THEN r.dueMark - start ELSE 0)
            /\ w = (IF t.dueMark >= start THEN t.dueMark - start ELSE 0)
        BY <3>1, PastTypes, Zenon
      <3> QED
        BY <3>2, <3>3
    <2> HIDE DEF x, y, v, w
    <2>6. ASSUME NEW c \in PoolCurrencies
          PROVE  /\ q.received[c] * R <= (q.offered[c] - t.fresh[c]) * y + Dust(q)
                 /\ q.received[c] * R <= (q.offered[c] - t.fresh[c]) * w + Dust(q)
      <3> DEFINE A == p.offered[c] - r.fresh[c]
                 B == q.offered[c] - t.fresh[c]
                 d == r.due[c]
                 f == IF b # 0 THEN r.fresh[c] ELSE 0
                 n == p.received[c]
                 e == o[c]
      <3>1. A \in Nat /\ d \in Nat /\ f \in Nat /\ d <= A /\ B = A + f /\ n \in Nat /\ e \in Nat
        BY <1>1, <1>2, <1>3, <1>4, <1>6, <1>11
      <3>2. n * R <= A * x + Dust(p) /\ n * R <= A * v + Dust(p)
        BY <2>1 DEF x, v
      <3>3. q.received[c] = n + e
        BY <1>3
      <3>4. (d # 0 => AnyDue(r)) /\ (f # 0 => AnyFresh(r) /\ b # 0 /\ o # None)
        BY <1>6, AnyPending
      <3>5. CASE o = None
        <4>1. f = 0 /\ e = 0 /\ Dust(q) = Dust(p) /\ B = A
          <5>1. b = 0 /\ e = 0
            BY <1>6, <3>5
          <5>2. f = 0
            BY <5>1
          <5>3. q.releases = p.releases
            BY <1>3, <1>4, <3>5
          <5>4. Dust(q) = Dust(p)
            BY <5>3 DEF Dust
          <5> HIDE DEF A, B, d, f, n, e
          <5>5. B = A
            BY <3>1, <5>2
          <5> QED
            BY <5>1, <5>2, <5>4, <5>5
        <4> HIDE DEF A, B, d, f, n, e
        <4>2. A * x <= A * y /\ A * v <= A * w
          BY <2>5, <3>1, ProductBoth
        <4>3. n + e = n /\ n * R \in Int /\ A * x \in Int /\ A * y \in Int /\ A * v \in Int /\ A * w \in Int
              /\ Dust(p) \in Int
          BY <1>4, <2>5, <3>1, <4>1 DEF Dust
        <4>4. n * R <= A * y + Dust(p) /\ n * R <= A * w + Dust(p)
          BY <3>2, <4>2, <4>3
        <4>5. q.received[c] = n
          BY <3>3, <4>3
        <4> QED
          BY <4>1, <4>4, <4>5 DEF B
      <3>6. CASE o # None
        <4>1. t.releasedAt = block /\ t.dueMark = Mark(r)
          BY <1>2, <3>6
        <4>2. y = block - p.block
          BY <1>4, <1>9, <2>5, <4>1
        <4>3. d # 0 => x + a <= y
          BY <1>1, <1>4, <1>5, <1>9, <2>1, <2>5, <3>4, <4>2
        <4>4. f # 0 => b <= y
          BY <1>1, <1>4, <1>5, <2>1, <3>4, <4>2
        <4>5. /\ AnyDue(r) => r.dueMark + a <= t.dueMark
              /\ b # 0 => FreshMark(r) + b <= t.dueMark
          BY <1>1, <4>1, MarkTypes DEF a, b
        <4>6. d # 0 => v + a <= w
          BY <1>1, <1>5, <1>8, <2>1, <2>5, <3>4, <4>5
        <4>7. f # 0 => b <= w
          <5>1. AnyFresh(r) => start <= FreshMark(r)
            <6>1. AnyFresh(r) => p.second * PerSecond <= r.freshTime * PerSecond
              BY <1>1, <1>4, <2>1, ConstantTypes, ProductMonotone
            <6>2. p.second * PerSecond = start
              BY <1>4, ConstantTypes DEF start
            <6> QED
              BY <1>5, <6>1, <6>2
          <5> QED
            BY <1>5, <1>8, <2>5, <3>4, <4>5, <5>1
        <4>8. e * R <= d * a + f * b + 2 * (R - 1)
          <5>1. e * R <= d * a + r.fresh[c] * b + 2 * (R - 1)
            BY <1>6
          <5>2. r.fresh[c] * b = f * b
            BY <1>1, <1>5
          <5> QED
            BY <5>1, <5>2
        <4>9. Dust(q) = Dust(p) + 2 * (R - 1) /\ Dust(p) \in Int
          <5>1. q.releases = p.releases + 1
            BY <1>3, <3>6
          <5> HIDE DEF n, e
          <5>2. \A m \in Nat : 2 * (R - 1) * (m + 1) = 2 * (R - 1) * m + 2 * (R - 1) /\ 2 * (R - 1) * m \in Int
            BY <1>4
          <5> QED
            BY <1>4, <5>1, <5>2 DEF Dust
        <4> HIDE DEF A, B, d, f, n, e
        <4>10. A * x + d * a + f * b <= (A + f) * y
          BY <1>5, <2>5, <3>1, <4>3, <4>4, WindowGrows
        <4>11. A * v + d * a + f * b <= (A + f) * w
          BY <1>5, <2>5, <3>1, <4>6, <4>7, WindowGrows
        <4>12. /\ n * R \in Int /\ e * R \in Int /\ A * x \in Int /\ A * v \in Int /\ d * a \in Int /\ f * b \in Int
               /\ (A + f) * y \in Int /\ (A + f) * w \in Int /\ (n + e) * R = n * R + e * R /\ R - 1 \in Int
          BY <1>4, <1>5, <2>5, <3>1
        <4>13. (n + e) * R <= (A + f) * y + Dust(q)
          BY <3>2, <4>8, <4>9, <4>10, <4>12
        <4>14. (n + e) * R <= (A + f) * w + Dust(q)
          BY <3>2, <4>8, <4>9, <4>11, <4>12
        <4>15. B = A + f
          BY <3>1
        <4> QED
          BY <3>3, <4>13, <4>14, <4>15 DEF B
      <3> QED
        BY <3>5, <3>6
    <2> QED
      BY <1>3, <2>2, <2>4, <2>6 DEF y, w
  <1>14. StayOK(t, q)
    BY <1>3, <1>9, <1>12, <1>13 DEF StayOK, start
  <1> QED
    BY <1>14 DEF t, q

-----------------------------------------------------------------------------
(* The inductive invariant.                                                  *)

LedgerOK == \A c \in Currencies : rules.liabilities[c] = Worth(rules, c) /\ rules.liabilities[c] <= held[c]

\* A pool that may hold a pending share is flushed, and inside a swap, or in a block
\* in which the position was added, a flush has been there first.
FlushOK ==
  /\ PendingOK(rules)
  /\ seen.flushBlock <= block /\ seen.flushSecond <= second
  /\ seen.flushBlock = block => seen.flushSecond = second
  /\ AnyDue(rules) \/ AnyFresh(rules) => FlushCalled
  /\ ~FlushMayFail /\ (phase # "idle" \/ (lp.at # "none" /\ lp.added = block)) => Quiet(rules)
  /\ lp.added <= block

StaysOK == lp.at = "in" => StayOK(rules, lp)

InEpoch(t) == rules.epochStart <= t /\ t < rules.epochStart + Period

Begun == {<<seen.leader, seen.amount>>, <<NoOne, 0>>}

\* While a transaction remembers a lead it began with, it has not sold and its epoch is
\* open; once it remembers none, who leads is who led when it began, or no one.
KingOK ==
  /\ ~IsKing => rules.leader = NoOne
  /\ IsKing =>
       /\ rules.epochStart <= second
       /\ tx.previous.set =>
            /\ ~tx.sold /\ tx.previous.epoch = rules.epochStart /\ InEpoch(second)
            /\ <<tx.previous.leader, tx.previous.amount>> \in Begun
            /\ tx.previous.leader # NoOne => InEpoch(seen.began)
       /\ ~tx.previous.set =>
            /\ <<rules.leader, rules.leaderAmount>> \in Begun
            /\ rules.leader # NoOne => seen.ledAt = seen.began
  /\ rules.leader # NoOne => InEpoch(seen.ledAt)

RecaptureInvariant == TypeOK /\ LedgerOK /\ FlushOK /\ StaysOK /\ KingOK

\* The parts of the type invariant.
LEMMA TypeFields ==
  ASSUME TypeOK
  PROVE  /\ rules \in RulesState /\ held \in [Currencies -> Nat] /\ lp \in Positions
         /\ liquidity \in BOOLEAN /\ laneDue \in BOOLEAN /\ block \in Nat /\ second \in Nat
         /\ tx.sold \in BOOLEAN /\ tx.previous.set \in BOOLEAN /\ tx.previous.epoch \in Nat
         /\ tx.previous.leader \in Leaders /\ tx.previous.amount \in Nat
         /\ seen.flushBlock \in Nat /\ seen.flushSecond \in Nat /\ seen.ledAt \in Nat
         /\ seen.leader \in Leaders /\ seen.amount \in Nat /\ seen.began \in Nat
  BY DEF TypeOK

SeenTypes ==
  [flushBlock : Nat, flushSecond : Nat, ledAt : Nat, leader : Leaders, amount : Nat, began : Nat]

TransactionTypes == [sold : BOOLEAN, previous : [set : BOOLEAN, epoch : Nat, leader : Leaders, amount : Nat]]

\* The invariant at the start.
LEMMA InvariantInit == Init => RecaptureInvariant
  <1> SUFFICES ASSUME Init
               PROVE  RecaptureInvariant
    OBVIOUS
  <1>1. /\ rules.claims = [c \in Currencies |-> [a \in Beneficiaries |-> 0]]
        /\ rules.liabilities = [c \in Currencies |-> 0] /\ rules.accrued = [c \in Currencies |-> 0]
        /\ rules.due = None /\ rules.fresh = None /\ rules.freshBlock = 0 /\ rules.freshTime = 0
        /\ rules.releasedAt = 0 /\ rules.dueMark = 0 /\ rules.epochStart = (IF IsKing THEN second ELSE 0)
        /\ rules.leader = NoOne /\ rules.leaderAmount = 0 /\ rules.pot = 0
        /\ rules = [claims |-> rules.claims, liabilities |-> rules.liabilities, accrued |-> rules.accrued,
                    due |-> rules.due, fresh |-> rules.fresh, freshBlock |-> rules.freshBlock,
                    freshTime |-> rules.freshTime, releasedAt |-> rules.releasedAt, dueMark |-> rules.dueMark,
                    epochStart |-> rules.epochStart, leader |-> rules.leader,
                    leaderAmount |-> rules.leaderAmount, pot |-> rules.pot]
    BY DEF Init
  <1>2. /\ block = 1 /\ second = 1 /\ held = [c \in Currencies |-> 0] /\ claiming = FALSE /\ laneDue = FALSE
        /\ phase = "idle" /\ tx = NewTransaction /\ liquidity \in BOOLEAN /\ lp = NoPosition
        /\ seen = [flushBlock |-> 0, flushSecond |-> 0, ledAt |-> 0, leader |-> NoOne, amount |-> 0, began |-> 0]
    BY DEF Init
  <1>3. None \in [PoolCurrencies -> Nat]
    BY DEF None
  <1>4. rules.claims \in [Currencies -> [Beneficiaries -> Nat]] /\ rules.epochStart \in Nat
    BY <1>1, <1>2
  <1>5. rules \in RulesState
    BY <1>1, <1>3, <1>4 DEF RulesState, Leaders
  <1>6. lp \in Positions /\ lp.at = "none" /\ lp.added = 0
    BY <1>2, <1>3 DEF NoPosition, Positions
  <1>7. tx \in TransactionTypes /\ ~tx.previous.set
    BY <1>2 DEF NewTransaction, NotPrevious, TransactionTypes, Leaders
  <1>8. seen \in SeenTypes /\ seen.flushBlock = 0 /\ seen.flushSecond = 0
        /\ <<NoOne, 0>> \in Begun
    BY <1>2 DEF SeenTypes, Leaders, Begun
  <1>9. TypeOK
    BY <1>2, <1>5, <1>6, <1>7, <1>8 DEF TypeOK, SeenTypes, TransactionTypes
  <1>10. LedgerOK
    <2> SUFFICES ASSUME NEW c \in Currencies
                 PROVE  rules.liabilities[c] = Worth(rules, c) /\ rules.liabilities[c] <= held[c]
      BY DEF LedgerOK
    <2>1. \A a \in Beneficiaries : rules.claims[c][a] = 0
      BY <1>1
    <2>2. SumFunctionOnSet(rules.claims[c], Beneficiaries) = 0
      BY <2>1, SumZero, BeneficiariesFinite
    <2>3. c \in PoolCurrencies => rules.due[c] = 0 /\ rules.fresh[c] = 0
      BY <1>1 DEF None
    <2>4. rules.liabilities[c] = 0 /\ rules.accrued[c] = 0 /\ held[c] = 0
      BY <1>1, <1>2
    <2> QED
      BY <1>1, <2>2, <2>3, <2>4 DEF Worth
  <1>11. FlushOK
    <2>1. ~AnyDue(rules) /\ ~AnyFresh(rules)
      BY <1>1 DEF AnyDue, AnyFresh
    <2>2. Pace \in Nat /\ PerSecond * (seen.flushSecond + 1) \in Nat
      BY <1>2, <1>8, AgeTypes, ConstantTypes
    <2>3. PendingOK(rules)
      BY <1>1, <1>2, <1>8, <2>1, <2>2 DEF PendingOK
    <2> QED
      BY <1>2, <1>6, <1>8, <2>1, <2>3 DEF FlushOK
  <1>12. StaysOK /\ KingOK
    BY <1>1, <1>2, <1>6, <1>7, <1>8 DEF StaysOK, KingOK
  <1> QED
    BY <1>9, <1>10, <1>11, <1>12 DEF RecaptureInvariant

-----------------------------------------------------------------------------
(* What the steps have in common.                                            *)

SameClocks == block' = block /\ second' = second

SameFlush == seen'.flushBlock = seen.flushBlock /\ seen'.flushSecond = seen.flushSecond

\* The watched stay is within its bounds after a step that leaves the clocks alone.
LEMMA StayNext ==
  ASSUME SameClocks, StayOK(rules', lp')
  PROVE  StaysOK'
  BY DEF SameClocks, StaysOK, StayOK

\* The pending donation's bounds do not depend on anything but the rules, the clocks and
\* the last flush.
LEMMA PendingNext ==
  ASSUME SameClocks, SameFlush
  PROVE  /\ PendingOK(rules') => PendingOK(rules)'
         /\ Quiet(rules') => Quiet(rules)'
         /\ Quiet(rules)' => Quiet(rules')
  BY DEF SameClocks, SameFlush, PendingOK, Quiet, Pace

\* A step that only adds to the pending donation, or leaves it as it is.
LEMMA SharesStep ==
  ASSUME TypeOK, FlushOK, StaysOK, rules' \in RulesState, Shares(rules, rules'), Offers, SameClocks, SameFlush,
         phase' # "idle" => phase # "idle",
         laneDue => laneDue', SamePending(rules, rules') \/ laneDue' \/ IsKing
  PROVE  lp' \in Positions /\ StaysOK' /\ FlushOK'
  <1>1. rules \in RulesState /\ lp \in Positions /\ PendingOK(rules) /\ block \in Nat
    BY TypeFields DEF FlushOK
  <1>2. PendingOK(rules)'
    BY <1>1, PendingNext DEF Shares
  <1>3. Quiet(rules) => Quiet(rules)'
    BY PendingNext DEF Shares
  <1>4. lp' \in Positions /\ lp'.at = lp.at /\ lp'.added = lp.added /\ (lp.at = "in" => StayOK(rules', lp'))
    <2>1. CASE lp.at # "in"
      <3>1. lp' = lp
        BY <2>1 DEF Offers
      <3> QED
        BY <1>1, <2>1, <3>1
    <2>2. CASE lp.at = "in"
      <3>1. lp' = Offered(lp, rules, rules')
        BY <2>2 DEF Offers, Offered
      <3>2. Offered(lp, rules, rules') \in Positions /\ StayOK(rules', Offered(lp, rules, rules'))
        BY <1>1, <2>2 DEF Shares, StaysOK
      <3>3. lp'.at = lp.at /\ lp'.added = lp.added
        BY <1>1, <3>1 DEF Offered, Positions
      <3> QED
        BY <3>1, <3>2, <3>3
    <2> QED
      BY <2>1, <2>2
  <1>5. StaysOK'
    <2>1. CASE lp.at = "in"
      BY <1>4, <2>1, StayNext
    <2>2. CASE lp.at # "in"
      BY <1>4, <2>2 DEF StaysOK
    <2> QED
      BY <2>1, <2>2
  <1>6. (AnyDue(rules) \/ AnyFresh(rules) => FlushCalled)'
    <2>1. CASE SamePending(rules, rules')
      <3>1. (AnyDue(rules') <=> AnyDue(rules)) /\ (AnyFresh(rules') <=> AnyFresh(rules))
        BY <2>1 DEF SamePending, AnyDue, AnyFresh
      <3>2. AnyDue(rules) \/ AnyFresh(rules) => FlushCalled
        BY DEF FlushOK
      <3>3. FlushCalled => FlushCalled'
        BY DEF FlushCalled
      <3>4. (AnyDue(rules)' <=> AnyDue(rules')) /\ (AnyFresh(rules)' <=> AnyFresh(rules'))
        BY DEF AnyDue, AnyFresh
      <3> QED
        BY <3>1, <3>2, <3>3, <3>4
    <2>2. CASE laneDue' \/ IsKing
      <3>1. FlushCalled'
        BY <2>2 DEF FlushCalled
      <3> QED
        BY <3>1
    <2> QED
      BY <2>1, <2>2
  <1>7. /\ seen'.flushBlock <= block' /\ seen'.flushSecond <= second'
        /\ seen'.flushBlock = block' => seen'.flushSecond = second'
        /\ lp'.added <= block'
    BY <1>4 DEF FlushOK, SameClocks, SameFlush
  <1>8. ~FlushMayFail /\ (phase' # "idle" \/ (lp'.at # "none" /\ lp'.added = block')) => Quiet(rules)'
    BY <1>3, <1>4 DEF FlushOK, SameClocks
  <1> QED
    BY <1>2, <1>4, <1>5, <1>6, <1>7, <1>8 DEF FlushOK

\* A step that leaves the pending donation and the position as they are.
LEMMA PendingSameStep ==
  ASSUME TypeOK, FlushOK, StaysOK, rules' \in RulesState, SamePending(rules, rules'), SameClocks, SameFlush,
         lp' = lp, phase' # "idle" => phase # "idle", laneDue' = laneDue
  PROVE  lp' \in Positions /\ StaysOK' /\ FlushOK'
  <1>1. rules \in RulesState /\ lp \in Positions /\ Shares(rules, rules')
    BY TypeFields, SamePendingShares
  <1>2. Offers
    <2>1. \A c \in PoolCurrencies : /\ rules.due[c] \in Nat /\ rules.fresh[c] \in Nat
                                    /\ rules'.due[c] = rules.due[c] /\ rules'.fresh[c] = rules.fresh[c]
      BY <1>1, StateFields DEF SamePending
    <2> DEFINE g == [c \in PoolCurrencies |-> lp.offered[c] + Pending(rules')[c] - Pending(rules)[c]]
    <2>2. \A c \in PoolCurrencies : g[c] = lp.offered[c]
      <3> SUFFICES ASSUME NEW c \in PoolCurrencies
                   PROVE  g[c] = lp.offered[c]
        OBVIOUS
      <3>1. g[c] = lp.offered[c] + (rules'.due[c] + rules'.fresh[c]) - (rules.due[c] + rules.fresh[c])
        BY DEF Pending
      <3>2. lp.offered[c] \in Nat
        BY <1>1, PositionFields
      <3> HIDE DEF g
      <3> QED
        BY <2>1, <3>1, <3>2
    <2>3. lp.offered = [c \in PoolCurrencies |-> lp.offered[c]]
      BY <1>1, PositionFields
    <2>4. g = [c \in PoolCurrencies |-> g[c]]
      OBVIOUS
    <2>5. [lp EXCEPT !.offered = [c \in PoolCurrencies |-> @[c] + Pending(rules')[c] - Pending(rules)[c]]]
            = [lp EXCEPT !.offered = g]
      OBVIOUS
    <2> HIDE DEF g
    <2>6. g = lp.offered
      BY <2>2, <2>3, <2>4, Zenon
    <2>7. [lp EXCEPT !.offered = lp.offered] = lp
      BY <1>1 DEF Positions
    <2> QED
      BY <2>5, <2>6, <2>7 DEF Offers
  <1> QED
    BY <1>1, <1>2, SharesStep

-----------------------------------------------------------------------------
(* The flush of a step.                                                      *)

\* What a stay's bound says depends on the pending donation alone.
LEMMA StaySame ==
  ASSUME NEW r, NEW t, NEW p, SamePending(r, t), StayOK(r, p)
  PROVE  StayOK(t, p)
  BY DEF SamePending, StayOK, AnyDue, AnyFresh

\* A flush pays no more than is held for it, and what it pays is owed no longer.
LEMMA FlushLedger ==
  ASSUME TypeOK, LedgerOK, FlushOK, NEW flushes \in BOOLEAN, Flush(flushes)
  PROVE  /\ rules' \in RulesState /\ held' \in [Currencies -> Nat] /\ LedgerOK'
         /\ SameHill(rules, rules') /\ rules'.pot = rules.pot
  <1>1. /\ rules \in RulesState /\ held \in [Currencies -> Nat] /\ block \in Nat /\ second \in Nat
        /\ liquidity \in BOOLEAN /\ rules.releasedAt <= block
        /\ \A c \in Currencies : rules.liabilities[c] = Worth(rules, c) /\ rules.liabilities[c] <= held[c]
    BY TypeFields DEF LedgerOK, FlushOK, PendingOK
  <1>2. CASE flushes
    <2> DEFINE o == Out(rules)
               paid(d) == IF liquidity /\ d \in PoolCurrencies THEN o[d] ELSE 0
    <2>1. /\ rules' \in RulesState /\ SameHill(rules, rules') /\ rules'.pot = rules.pot
          /\ \A d \in Currencies : /\ Worth(rules', d) = Worth(rules, d) - paid(d)
                                   /\ rules'.liabilities[d] = rules.liabilities[d] - paid(d)
      <3>1. rules' = FlushedRules(rules)
        BY <1>2 DEF Flush
      <3> QED
        BY <1>1, <3>1, FlushedRulesEffect
    <2>2. held' = [c \in Currencies |-> held[c] - paid(c)]
      <3>1. CASE liquidity
        <4>1. held' = [c \in Currencies |-> IF c \in PoolCurrencies THEN held[c] - o[c] ELSE held[c]]
          BY <1>2, <3>1 DEF Flush
        <4>2. \A c \in Currencies : (IF c \in PoolCurrencies THEN held[c] - o[c] ELSE held[c]) = held[c] - paid(c)
          <5>1. \A c \in Currencies : held[c] \in Nat
            BY <1>1
          <5> QED
            BY <3>1, <5>1
        <4> QED
          BY <4>1, <4>2
      <3>2. CASE ~liquidity
        <4>1. held' = held
          BY <3>2 DEF Flush
        <4>2. \A c \in Currencies : held[c] \in Nat /\ held[c] = held[c] - paid(c)
          BY <1>1, <3>2
        <4>3. held = [c \in Currencies |-> held[c]]
          BY <1>1
        <4> QED
          BY <4>1, <4>2, <4>3
      <3> QED
        BY <3>1, <3>2
    <2>3. ASSUME NEW d \in Currencies
          PROVE  /\ held'[d] = held[d] - paid(d) /\ paid(d) \in Nat /\ paid(d) <= held[d]
                 /\ held[d] \in Nat /\ rules.liabilities[d] \in Nat
      <3>1. held[d] \in Nat /\ rules.liabilities[d] \in Nat
        BY <1>1, StateFields
      <3>2. paid(d) \in Nat /\ paid(d) <= held[d]
        <4>1. CASE liquidity /\ d \in PoolCurrencies
          <5>1. o[d] \in Nat
            BY <1>1, <4>1, OutTypes
          <5>2. \E a, b \in Nat : a + b + o[d] = rules.due[d] + rules.fresh[d]
            <6>1. /\ Flushed(rules) \in RulesState
                  /\ Flushed(rules).due[d] + Flushed(rules).fresh[d] + o[d] = rules.due[d] + rules.fresh[d]
              BY <1>1, <4>1, FlushedFields
            <6> QED
              BY <4>1, <6>1, StateFields
          <5>3. rules.due[d] + rules.fresh[d] <= Worth(rules, d) /\ rules.due[d] + rules.fresh[d] \in Nat
            BY <1>1, <4>1, WorthType, StateFields
          <5>4. Worth(rules, d) <= held[d] /\ Worth(rules, d) \in Nat
            BY <1>1, WorthType
          <5> HIDE DEF o
          <5>5. paid(d) = o[d]
            BY <4>1
          <5> HIDE DEF paid
          <5> QED
            BY <3>1, <5>1, <5>2, <5>3, <5>4, <5>5
        <4>2. CASE ~(liquidity /\ d \in PoolCurrencies)
          BY <3>1, <4>2
        <4> QED
          BY <4>1, <4>2
      <3> QED
        BY <2>2, <3>1, <3>2
    <2> HIDE DEF paid, o
    <2>4. held' \in [Currencies -> Nat]
      <3>1. \A c \in Currencies : held[c] - paid(c) \in Nat
        BY <2>3
      <3> QED
        BY <2>2, <3>1
    <2>5. LedgerOK'
      <3> SUFFICES ASSUME NEW d \in Currencies
                   PROVE  rules'.liabilities[d] = Worth(rules', d) /\ rules'.liabilities[d] <= held'[d]
        BY DEF LedgerOK, Worth
      <3>1. rules.liabilities[d] = Worth(rules, d) /\ rules.liabilities[d] <= held[d]
        BY <1>1
      <3> QED
        BY <2>1, <2>3, <3>1
    <2> QED
      BY <2>1, <2>4, <2>5
  <1>3. CASE ~flushes
    <2>1. rules' = rules /\ held' = held
      BY <1>3 DEF Flush
    <2>2. LedgerOK'
      BY <2>1 DEF LedgerOK, Worth
    <2>3. SameHill(rules, rules') /\ rules'.pot = rules.pot
      BY <2>1 DEF SameHill
    <2> QED
      BY <1>1, <2>1, <2>2, <2>3
  <1> QED
    BY <1>2, <1>3

\* After the flush that starts a swap or a liquidity change, nothing pending is of an
\* earlier block, unless the flush failed.
LEMMA FlushStep ==
  ASSUME TypeOK, FlushOK, NEW flushes \in BOOLEAN, Flush(flushes), SameClocks
  PROVE  /\ laneDue' \in BOOLEAN
         /\ seen' \in SeenTypes /\ seen'.ledAt = seen.ledAt /\ seen'.leader = seen.leader
         /\ seen'.amount = seen.amount /\ seen'.began = seen.began
         /\ seen'.flushBlock <= block /\ seen'.flushSecond <= second
         /\ seen'.flushBlock = block => seen'.flushSecond = second
         /\ PendingOK(rules)'
         /\ (AnyDue(rules) \/ AnyFresh(rules) => FlushCalled)'
         /\ ~FlushMayFail => Quiet(rules')
  <1>1. /\ rules \in RulesState /\ block \in Nat /\ second \in Nat /\ laneDue \in BOOLEAN /\ PendingOK(rules)
        /\ seen \in SeenTypes
        /\ seen.flushBlock <= block /\ seen.flushSecond <= second
        /\ seen.flushBlock = block => seen.flushSecond = second
        /\ AnyDue(rules) \/ AnyFresh(rules) => FlushCalled
    BY DEF TypeOK, FlushOK, SeenTypes
  <1>2. CASE flushes
    <2> DEFINE t == Flushed(rules)
    <2>1. /\ t.freshBlock <= block /\ t.releasedAt <= block /\ t.freshTime <= second
          /\ t.freshBlock = block => t.freshTime = second
          /\ AnyFresh(t) => t.releasedAt <= t.freshBlock
          /\ t.dueMark <= Pace
          /\ AnyDue(t) => PerSecond * second <= t.dueMark
          /\ Quiet(t)
      BY <1>1, FlushedClocks
    <2>2. SamePending(t, rules')
      <3>1. rules' = FlushedRules(rules)
        BY <1>2 DEF Flush
      <3> QED
        BY <3>1 DEF FlushedRules, Donated, AccruedOut, SamePending
    <2>3. (AnyDue(t) <=> AnyDue(rules')) /\ (AnyFresh(t) <=> AnyFresh(rules'))
      BY <2>2 DEF SamePending, AnyDue, AnyFresh
    <2>4. laneDue' = IF laneDue THEN StillPending(rules) ELSE laneDue
      BY <1>2 DEF Flush
    <2>5. StillPending(rules) <=> AnyDue(t) \/ AnyFresh(t)
      BY DEF StillPending
    <2> HIDE DEF t
    <2>6. seen' = [seen EXCEPT !.flushBlock = block, !.flushSecond = second]
      BY <1>2 DEF Flush
    <2>7. /\ seen' \in SeenTypes /\ seen'.ledAt = seen.ledAt /\ seen'.leader = seen.leader
          /\ seen'.amount = seen.amount /\ seen'.began = seen.began
          /\ seen'.flushBlock = block /\ seen'.flushSecond = second
      BY <1>1, <2>6 DEF SeenTypes
    <2>8. Quiet(rules')
      BY <2>1, <2>2, <2>3 DEF Quiet, SamePending
    <2>9. Pace = PerSecond * (second + 1)
      BY DEF Pace
    <2>10. PendingOK(rules)'
      <3>1. /\ rules'.freshBlock <= block /\ rules'.releasedAt <= block /\ rules'.freshTime <= second
            /\ rules'.freshBlock = block => rules'.freshTime = second
            /\ AnyFresh(rules') => rules'.releasedAt <= rules'.freshBlock
            /\ rules'.dueMark <= Pace
            /\ AnyDue(rules') => PerSecond * second <= rules'.dueMark
        BY <2>1, <2>2, <2>3 DEF SamePending
      <3>2. Pace' = Pace /\ block' = block /\ second' = second
        BY DEF Pace, SameClocks
      <3>3. (AnyDue(rules)' <=> AnyDue(rules')) /\ (AnyFresh(rules)' <=> AnyFresh(rules'))
            /\ (Quiet(rules') => Quiet(rules)')
        BY <3>2 DEF AnyDue, AnyFresh, Quiet
      <3>4. rules'.dueMark <= PerSecond * (seen'.flushSecond + 1)
        BY <2>7, <2>9, <3>1
      <3> QED
        BY <2>7, <2>8, <3>1, <3>2, <3>3, <3>4 DEF PendingOK
    <2>11. laneDue' \in BOOLEAN /\ (AnyDue(rules') \/ AnyFresh(rules') => laneDue' \/ IsKing)
      <3>1. StillPending(rules) \in BOOLEAN
        BY DEF StillPending, AnyDue, AnyFresh
      <3>2. laneDue \/ IsKing
        BY <1>2 DEF Flush, FlushCalled
      <3> QED
        BY <1>1, <2>3, <2>4, <2>5, <3>1, <3>2, Zenon
    <2>12. (AnyDue(rules) \/ AnyFresh(rules) => FlushCalled)'
      BY <2>11 DEF FlushCalled, AnyDue, AnyFresh
    <2> QED
      BY <1>1, <2>7, <2>8, <2>10, <2>11, <2>12
  <1>3. CASE ~flushes
    <2>1. rules' = rules /\ laneDue' = laneDue /\ seen' = seen
      BY <1>3 DEF Flush
    <2>2. PendingOK(rules)' /\ (AnyDue(rules) \/ AnyFresh(rules) => FlushCalled)'
      BY <1>1, <2>1 DEF PendingOK, Quiet, Pace, SameClocks, FlushCalled, AnyDue, AnyFresh
    <2>3. ~FlushMayFail => Quiet(rules')
      <3>1. ~FlushMayFail => ~FlushCalled
        BY <1>3 DEF Flush
      <3> QED
        BY <1>1, <2>1, <3>1 DEF Quiet
    <2> QED
      BY <1>1, <2>1, <2>2, <2>3
  <1> QED
    BY <1>2, <1>3

\* And the position keeps its bound, paid or not.
LEMMA FlushPays ==
  ASSUME TypeOK, FlushOK, StaysOK, NEW flushes \in BOOLEAN, Flush(flushes)
  PROVE  LET q == Paid(flushes)
         IN  q \in Positions /\ q.at = lp.at /\ q.added = lp.added /\ (q.at = "in" => StayOK(rules', q))
  <1>1. /\ rules \in RulesState /\ lp \in Positions /\ block \in Nat /\ second \in Nat /\ PendingOK(rules)
        /\ rules.releasedAt <= block
    BY TypeFields DEF FlushOK, PendingOK
  <1>2. CASE flushes /\ lp.at = "in"
    <2>1. Paid(flushes) = PaidOut(lp, rules)
      BY <1>2 DEF Paid, PaidOut
    <2>2. /\ PaidOut(lp, rules) \in Positions /\ PaidOut(lp, rules).at = lp.at
          /\ PaidOut(lp, rules).added = lp.added
      BY <1>1, PaidOutFields
    <2>3. StayOK(Flushed(rules), PaidOut(lp, rules))
      BY <1>1, <1>2, FlushedStay DEF StaysOK
    <2>4. SamePending(Flushed(rules), rules')
      <3>1. rules' = FlushedRules(rules)
        BY <1>2 DEF Flush
      <3> QED
        BY <3>1 DEF FlushedRules, Donated, AccruedOut, SamePending
    <2>5. StayOK(rules', PaidOut(lp, rules))
      BY <2>3, <2>4, StaySame
    <2> QED
      BY <2>1, <2>2, <2>5
  <1>3. CASE ~flushes
    <2>1. rules' = rules /\ Paid(flushes) = lp
      BY <1>3 DEF Flush, Paid
    <2> QED
      BY <1>1, <2>1 DEF StaysOK
  <1>4. CASE lp.at # "in"
    <2>1. Paid(flushes) = lp
      BY <1>4 DEF Paid
    <2> QED
      BY <1>1, <1>4, <2>1
  <1> QED
    BY <1>2, <1>3, <1>4

\* A stay that begins in a block in which a flush has been there may take nothing yet.
Fresh(r) ==
  /\ AnyDue(r) => r.releasedAt = block /\ PerSecond * second <= r.dueMark
  /\ AnyFresh(r) => r.freshBlock = block /\ r.freshTime = second

\* Where nothing was pending or all of it is due later, a stay begins with nothing to
\* inherit.
LEMMA QuietIsFresh ==
  /\ PendingOK(rules) /\ Quiet(rules) => Fresh(rules)
  /\ PendingOK(rules)' /\ Quiet(rules') /\ SameClocks => Fresh(rules')
  BY DEF PendingOK, Quiet, Fresh, SameClocks, AnyDue, AnyFresh

\* A stay that begins is within its bounds.
LEMMA StayBegins ==
  ASSUME NEW r \in RulesState, NEW p \in Positions, block \in Nat, second \in Nat,
         (phase = "idle" /\ p.at = "out") \/ FlushMayFail \/ Fresh(r)
  PROVE  LET q == InRange(p, Pending(r))
         IN  q \in Positions /\ q.at = "in" /\ q.added = p.added /\ StayOK(r, q)
  <1> DEFINE g == Pending(r)
             byLeg == phase = "idle" /\ p.at = "out"
             q == InRange(p, Pending(r))
  <1>1. \A c \in PoolCurrencies : r.due[c] \in Nat /\ r.fresh[c] \in Nat /\ g[c] = r.due[c] + r.fresh[c]
    BY StateFields DEF Pending
  <1>2. g \in [PoolCurrencies -> Nat]
    <2>1. \A c \in PoolCurrencies : r.due[c] + r.fresh[c] \in Nat
      BY <1>1
    <2> QED
      BY <2>1 DEF Pending
  <1>3. None \in [PoolCurrencies -> Nat] /\ \A c \in PoolCurrencies : None[c] = 0
    BY DEF None
  <1>4. q = [p EXCEPT !.at = "in", !.byLeg = byLeg, !.block = block, !.second = second, !.offered = g,
                      !.received = None, !.releases = 0]
    BY DEF InRange
  <1>5. byLeg \in BOOLEAN
    OBVIOUS
  <1> HIDE DEF g, q, byLeg
  <1>6. /\ q \in Positions /\ q.at = "in" /\ (q.byLeg <=> byLeg) /\ q.added = p.added /\ q.block = block
        /\ q.second = second /\ q.offered = g /\ q.received = None /\ q.releases = 0
    BY <1>2, <1>3, <1>4, <1>5 DEF Positions
  <1>7. \A c \in PoolCurrencies : q.received[c] + r.due[c] + r.fresh[c] = q.offered[c]
    BY <1>1, <1>3, <1>6
  <1>8. ASSUME ~q.byLeg, ~FlushMayFail
        PROVE  /\ AnyDue(r) => q.block <= r.releasedAt /\ PerSecond * q.second <= r.dueMark
               /\ AnyFresh(r) => q.block <= r.freshBlock /\ q.second <= r.freshTime
    <2>1. Fresh(r)
      BY <1>6, <1>8 DEF byLeg
    <2> QED
      BY <1>6, <2>1 DEF Fresh
  <1>9. ASSUME NEW c \in PoolCurrencies, NEW n \in Nat
        PROVE  q.received[c] * ReleaseBlocks <= (q.offered[c] - r.fresh[c]) * n + Dust(q)
    <2>1. q.received[c] * ReleaseBlocks = 0 /\ Dust(q) = 0
      BY <1>3, <1>6, ConstantTypes DEF Dust
    <2>2. q.offered[c] - r.fresh[c] = r.due[c]
      BY <1>1, <1>6
    <2>3. r.due[c] * n \in Nat
      BY <1>1
    <2> QED
      BY <2>1, <2>2, <2>3
  <1>10. /\ Past(r.releasedAt, q.block) \in Nat
         /\ Past(r.dueMark, PerSecond * q.second) \in Nat
    <2>1. r.releasedAt \in Int /\ q.block \in Int /\ r.dueMark \in Int /\ PerSecond * q.second \in Int
      BY <1>6, StateFields, ConstantTypes
    <2> QED
      BY <2>1, PastTypes
  <1>11. \A c \in PoolCurrencies :
           /\ q.received[c] * ReleaseBlocks <= (q.offered[c] - r.fresh[c]) * Past(r.releasedAt, q.block) + Dust(q)
           /\ q.received[c] * ReleaseBlocks
                <= (q.offered[c] - r.fresh[c]) * Past(r.dueMark, PerSecond * q.second) + Dust(q)
    BY <1>9, <1>10
  <1>12. q.block <= block /\ q.second <= second
    BY <1>6
  <1>13. StayOK(r, q)
    BY <1>7, <1>8, <1>11, <1>12 DEF StayOK
  <1> QED
    BY <1>6, <1>13 DEF q

\* A position that leaves the range keeps its type.
LEMMA StayEnds ==
  ASSUME NEW p \in Positions
  PROVE  OutOfRange(p) \in Positions /\ OutOfRange(p).at = "out" /\ OutOfRange(p).added = p.added
  <1>1. NoPosition \in Positions
    BY DEF NoPosition, Positions, None
  <1> QED
    BY <1>1 DEF OutOfRange, Positions

-----------------------------------------------------------------------------
(* What the Rules owe and hold, step by step.                                *)

\* What the Rules are paid in is held, and owed.
LEMMA EarnsStep ==
  ASSUME TypeOK, LedgerOK, rules' \in RulesState, NEW c \in Currencies, NEW n \in Nat, Earns(rules, rules', c, n),
         held' = [held EXCEPT ![c] = @ + n]
  PROVE  held' \in [Currencies -> Nat] /\ LedgerOK'
  <1>1. rules \in RulesState /\ held \in [Currencies -> Nat]
    BY TypeFields
  <1>2. held' \in [Currencies -> Nat] /\ \A d \in Currencies : held'[d] = held[d] + (IF d = c THEN n ELSE 0)
    BY <1>1
  <1>3. LedgerOK'
    <2> SUFFICES ASSUME NEW d \in Currencies
                 PROVE  rules'.liabilities[d] = Worth(rules', d) /\ rules'.liabilities[d] <= held'[d]
      BY DEF LedgerOK, Worth
    <2>1. /\ rules.liabilities[d] = Worth(rules, d) /\ rules.liabilities[d] <= held[d]
          /\ rules.liabilities[d] \in Nat /\ held[d] \in Nat
      BY <1>1, StateFields DEF LedgerOK
    <2>2. /\ rules'.liabilities[d] = rules.liabilities[d] + (IF d = c THEN n ELSE 0)
          /\ Worth(rules', d) = Worth(rules, d) + (IF d = c THEN n ELSE 0)
      BY DEF Earns
    <2> QED
      BY <1>2, <2>1, <2>2
  <1> QED
    BY <1>2, <1>3

\* What moves from one beneficiary to another stays owed.
LEMMA MovesStep ==
  ASSUME TypeOK, LedgerOK, rules' \in RulesState, Moves(rules, rules', Quote, 0), held' = held
  PROVE  held' \in [Currencies -> Nat] /\ LedgerOK'
  <1>1. rules \in RulesState /\ held \in [Currencies -> Nat]
    BY TypeFields
  <1>2. LedgerOK'
    <2> SUFFICES ASSUME NEW d \in Currencies
                 PROVE  rules'.liabilities[d] = Worth(rules', d) /\ rules'.liabilities[d] <= held'[d]
      BY DEF LedgerOK, Worth
    <2>1. rules.liabilities[d] = Worth(rules, d) /\ rules.liabilities[d] <= held[d]
      BY DEF LedgerOK
    <2>2. Worth(rules, d) \in Nat
      BY <1>1, WorthType
    <2>3. rules'.liabilities = rules.liabilities /\ Worth(rules', d) = Worth(rules, d) + 0
      BY Zenon DEF Moves
    <2> QED
      BY <2>1, <2>2, <2>3
  <1> QED
    BY <1>1, <1>2

\* A payment is of claims, and lowers what is owed and what is held alike.
LEMMA DebitStep ==
  ASSUME TypeOK, LedgerOK, NEW c \in Currencies, NEW who \in Beneficiaries, NEW n \in Nat,
         n <= rules.claims[c][who], Debit(c, who, n)
  PROVE  /\ rules' \in RulesState /\ SamePending(rules, rules') /\ SameHill(rules, rules')
         /\ held' \in [Currencies -> Nat] /\ LedgerOK'
  <1> DEFINE f == rules.claims[c]
             g == [f EXCEPT ![who] = @ - n]
             claims == [rules.claims EXCEPT ![c] = g]
             owed == [rules.liabilities EXCEPT ![c] = @ - n]
  <1>1. /\ rules \in RulesState /\ held \in [Currencies -> Nat] /\ f \in [Beneficiaries -> Nat] /\ f[who] \in Nat
        /\ rules.claims \in [Currencies -> [Beneficiaries -> Nat]] /\ rules.liabilities \in [Currencies -> Nat]
    BY TypeFields, StateFields
  <1>2. n <= rules.liabilities[c] /\ n <= held[c] /\ held' = [held EXCEPT ![c] = @ - n]
    BY DEF Debit
  <1>3. rules' = [rules EXCEPT !.claims = claims, !.liabilities = owed]
    BY <1>1 DEF Debit, RulesState
  <1>4. g \in [Beneficiaries -> Nat] /\ g[who] = f[who] - n /\ \A a \in Beneficiaries \ {who} : g[a] = f[a]
    <2>1. f[who] - n \in Nat
      BY <1>1
    <2> QED
      BY <1>1, <2>1
  <1>5. owed \in [Currencies -> Nat] /\ \A d \in Currencies : owed[d] = rules.liabilities[d] - (IF d = c THEN n ELSE 0)
    <2>1. rules.liabilities[c] - n \in Nat
      BY <1>1, <1>2
    <2>2. \A d \in Currencies : rules.liabilities[d] \in Nat
      BY <1>1
    <2> QED
      BY <1>1, <2>1, <2>2
  <1>6. /\ held' \in [Currencies -> Nat]
        /\ \A d \in Currencies : held'[d] = held[d] - (IF d = c THEN n ELSE 0)
    <2>1. held[c] - n \in Nat
      BY <1>1, <1>2
    <2>2. \A d \in Currencies : held[d] \in Nat
      BY <1>1
    <2> QED
      BY <1>1, <1>2, <2>1, <2>2
  <1>7. claims \in [Currencies -> [Beneficiaries -> Nat]] /\ claims[c] = g
        /\ \A d \in Currencies \ {c} : claims[d] = rules.claims[d]
    BY <1>1, <1>4
  <1> HIDE DEF claims, owed, g
  <1>8. /\ rules' \in RulesState /\ rules'.claims = claims /\ rules'.liabilities = owed
        /\ rules'.accrued = rules.accrued /\ rules'.pot = rules.pot
        /\ SamePending(rules, rules') /\ SameHill(rules, rules')
    BY <1>1, <1>3, <1>5, <1>7 DEF RulesState, SamePending, SameHill
  <1>9. SumFunctionOnSet(g, Beneficiaries) = SumFunctionOnSet(f, Beneficiaries) - n
    <2>1. \A a \in Beneficiaries : f[a] \in Int /\ g[a] \in Int
      BY <1>1, <1>4
    <2>2. \A a \in Beneficiaries \ {who} : f[a] = g[a]
      BY <1>4
    <2>3. SumFunctionOnSet(f, Beneficiaries) \in Nat
      BY <1>1, ClaimsSum
    <2>4. f[who] \in Nat /\ g[who] = f[who] - n
      BY <1>1, <1>4
    <2> HIDE DEF f
    <2>5. SumFunctionOnSet(g, Beneficiaries) = SumFunctionOnSet(f, Beneficiaries) + (g[who] - f[who])
      BY <2>1, <2>2, SumChange, BeneficiariesFinite
    <2> QED
      BY <2>3, <2>4, <2>5
  <1>10. LedgerOK'
    <2> SUFFICES ASSUME NEW d \in Currencies
                 PROVE  rules'.liabilities[d] = Worth(rules', d) /\ rules'.liabilities[d] <= held'[d]
      BY DEF LedgerOK, Worth
    <2>1. /\ SumFunctionOnSet(rules.claims[d], Beneficiaries) \in Nat /\ rules.accrued[d] \in Nat /\ rules.pot \in Nat
          /\ d \in PoolCurrencies => rules.due[d] \in Nat /\ rules.fresh[d] \in Nat
      BY <1>1, WorthType, StateFields
    <2>2. SumFunctionOnSet(rules'.claims[d], Beneficiaries)
            = SumFunctionOnSet(rules.claims[d], Beneficiaries) - (IF d = c THEN n ELSE 0)
      <3>1. CASE d = c
        <4>1. rules'.claims[d] = g /\ rules.claims[d] = f
          BY <1>7, <1>8, <3>1
        <4> HIDE DEF f
        <4> QED
          BY <1>9, <3>1, <4>1
      <3>2. CASE d # c
        <4>1. rules'.claims[d] = rules.claims[d]
          BY <1>7, <1>8, <3>2
        <4> QED
          BY <2>1, <3>2, <4>1
      <3> QED
        BY <3>1, <3>2
    <2>3. Worth(rules', d) = Worth(rules, d) - (IF d = c THEN n ELSE 0)
      BY <1>8, <2>1, <2>2 DEF Worth, SamePending
    <2>4. /\ rules.liabilities[d] = Worth(rules, d) /\ rules.liabilities[d] <= held[d]
          /\ rules.liabilities[d] \in Nat /\ held[d] \in Nat
      BY <1>1 DEF LedgerOK
    <2> QED
      BY <1>5, <1>6, <1>8, <2>3, <2>4
  <1> QED
    BY <1>6, <1>8, <1>10

-----------------------------------------------------------------------------
(* King of the Pool, step by step.                                           *)

SameLeads ==
  /\ seen'.ledAt = seen.ledAt /\ seen'.leader = seen.leader /\ seen'.amount = seen.amount
  /\ seen'.began = seen.began

\* A step outside the King of the Pool keeps his invariant.
LEMMA KingSame ==
  ASSUME KingOK, SameHill(rules, rules'), tx' = tx, second' = second, SameLeads
  PROVE  KingOK'
  BY DEF KingOK, SameHill, SameLeads, Begun, InEpoch, IsKing

\* What KingOK says of a state r of the rules.
KingAt(r) ==
  /\ r.epochStart <= second /\ second < r.epochStart + Period
  /\ tx.previous.set =>
       /\ ~tx.sold /\ tx.previous.epoch = r.epochStart
       /\ <<tx.previous.leader, tx.previous.amount>> \in Begun
       /\ tx.previous.leader # NoOne => r.epochStart <= seen.began /\ seen.began < r.epochStart + Period
  /\ ~tx.previous.set =>
       /\ <<r.leader, r.leaderAmount>> \in Begun
       /\ r.leader # NoOne => seen.ledAt = seen.began
  /\ r.leader # NoOne => r.epochStart <= seen.ledAt /\ seen.ledAt < r.epochStart + Period

\* A rollover leaves no lead of an epoch that it closes.
LEMMA KingRolls ==
  ASSUME TypeOK, KingOK, IsKing
  PROVE  KingAt(Rolled(rules))
  <1> DEFINE r == Rolled(rules)
  <1>1. rules \in RulesState /\ block \in Nat /\ second \in Nat /\ seen.flushSecond \in Nat /\ rules.epochStart \in Nat
    BY TypeFields, StateFields
  <1>2. rules.epochStart <= second
    BY DEF KingOK
  <1>3. /\ r \in RulesState /\ r.epochStart <= second /\ second < r.epochStart + Period
        /\ IF second < rules.epochStart + Period THEN r = rules
           ELSE /\ r.leader = NoOne
                /\ IF rules.leader = NoOne THEN r.leaderAmount = rules.leaderAmount ELSE r.leaderAmount = 0
    BY <1>1, <1>2, RolledEffect
  <1> HIDE DEF r
  <1>4. CASE second < rules.epochStart + Period
    <2>1. r = rules
      BY <1>3, <1>4
    <2> QED
      BY <1>2, <1>4, <2>1 DEF KingOK, KingAt, InEpoch, r
  <1>5. CASE ~(second < rules.epochStart + Period)
    <2>1. ~tx.previous.set
      BY <1>5 DEF KingOK, InEpoch
    <2>2. <<rules.leader, rules.leaderAmount>> \in Begun
      BY <2>1 DEF KingOK
    <2>3. <<r.leader, r.leaderAmount>> \in Begun
      BY <1>3, <1>5, <2>2 DEF Begun
    <2>4. r.leader = NoOne
      BY <1>3, <1>5
    <2>5. KingAt(r)
      BY <1>3, <2>1, <2>3, <2>4 DEF KingAt
    <2> QED
      BY <2>5 DEF r
  <1> QED
    BY <1>4, <1>5

\* What the history of a lead remembers.
LEMMA LedAtFields ==
  ASSUME TypeOK, NEW since \in Nat, LedAt(since)
  PROVE  /\ seen' \in SeenTypes /\ seen'.ledAt = (IF rules'.leader = NoOne THEN 0 ELSE since)
         /\ seen'.leader = seen.leader /\ seen'.amount = seen.amount /\ seen'.began = seen.began /\ SameFlush
  <1>1. seen \in SeenTypes
    BY DEF TypeOK, SeenTypes
  <1>2. seen' = [seen EXCEPT !.ledAt = IF rules'.leader = NoOne THEN 0 ELSE since]
    BY DEF LedAt
  <1>3. (IF rules'.leader = NoOne THEN 0 ELSE since) \in Nat
    OBVIOUS
  <1> QED
    BY <1>1, <1>2, <1>3 DEF SeenTypes, SameFlush

\* So does a rollover of the epoch.
LEMMA KingRolled ==
  ASSUME TypeOK, KingOK, SameHill(IF IsKing THEN Rolled(rules) ELSE rules, rules'), tx' = tx, second' = second,
         LedAt(seen.ledAt)
  PROVE  KingOK' /\ seen' \in SeenTypes /\ SameFlush
  <1>1. /\ seen' \in SeenTypes /\ seen'.ledAt = (IF rules'.leader = NoOne THEN 0 ELSE seen.ledAt)
        /\ seen'.leader = seen.leader /\ seen'.amount = seen.amount /\ seen'.began = seen.began /\ SameFlush
    BY LedAtFields, TypeFields
  <1>2. CASE IsKing
    <2>1. KingAt(Rolled(rules)) /\ SameHill(Rolled(rules), rules')
      BY <1>2, KingRolls
    <2>2. IsKing'
      BY <1>2 DEF IsKing
    <2> QED
      BY <1>1, <2>1, <2>2 DEF KingOK, KingAt, SameHill, Begun, InEpoch
  <1>3. CASE ~IsKing
    <2>1. rules'.leader = NoOne /\ ~IsKing'
      BY <1>3 DEF KingOK, SameHill, IsKing
    <2> QED
      BY <1>1, <2>1 DEF KingOK
  <1> QED
    BY <1>2, <1>3

\* A buy that leads remembers the lead its transaction began with, and a sell restores it.
LEMMA KingSettled ==
  ASSUME TypeOK, KingOK, IsKing, NEW x \in Swaps,
         SameHill(Tracked(Rolled(rules), x), rules'), tx' = TrackedTransaction(Rolled(rules), x), second' = second,
         LedAt(LeadsSince(Rolled(rules), x))
  PROVE  KingOK' /\ tx' \in TransactionTypes /\ seen' \in SeenTypes /\ SameFlush
  <1> DEFINE r == Rolled(rules)
             u == Tracked(r, x)
             since == LeadsSince(r, x)
  <1>1. /\ rules \in RulesState /\ block \in Nat /\ second \in Nat /\ seen.flushSecond \in Nat
        /\ rules.epochStart <= second /\ seen.began \in Nat /\ seen.ledAt \in Nat /\ tx \in TransactionTypes
    BY TypeFields DEF KingOK, TypeOK, TransactionTypes
  <1>2. r \in RulesState /\ r.epochStart \in Nat /\ r.leader \in Leaders /\ r.leaderAmount \in Nat
    <2>1. r \in RulesState
      BY <1>1, RolledEffect
    <2> HIDE DEF r
    <2> QED
      BY <2>1, StateFields
  <1>3. KingAt(r)
    BY KingRolls
  <1>4. u = CASE Leads(r, x) -> [r EXCEPT !.leader = x.payer, !.leaderAmount = x.spend]
              [] Voids(r, x) -> [r EXCEPT !.leader = tx.previous.leader, !.leaderAmount = tx.previous.amount]
              [] OTHER -> r
    BY DEF Tracked
  <1>5. tx' = CASE Leads(r, x) /\ ~tx.previous.set ->
                     [tx EXCEPT !.previous = [set |-> TRUE, epoch |-> r.epochStart, leader |-> r.leader,
                                              amount |-> r.leaderAmount]]
                [] ~x.isBuy -> [sold |-> TRUE, previous |-> NotPrevious]
                [] OTHER -> tx
    BY DEF TrackedTransaction
  <1>6. since = IF Leads(r, x) THEN second ELSE IF Voids(r, x) THEN seen.began ELSE seen.ledAt
    BY DEF LeadsSince
  <1>7. since \in Nat
    BY <1>1, <1>6
  <1>8. /\ seen' \in SeenTypes /\ seen'.ledAt = (IF rules'.leader = NoOne THEN 0 ELSE since)
        /\ seen'.leader = seen.leader /\ seen'.amount = seen.amount /\ seen'.began = seen.began /\ SameFlush
    BY <1>7, LedAtFields
  <1>9. x.isBuy \in BOOLEAN /\ x.payer \in Buyers /\ x.spend \in Spends
    BY DEF Swaps
  <1>10. x.payer # NoOne
    BY <1>9, ConstantSets
  <1>11. Leads(r, x) => x.isBuy /\ ~tx.sold
    BY DEF Leads
  <1>12. Voids(r, x) <=> ~x.isBuy /\ tx.previous.set /\ tx.previous.epoch = r.epochStart
    BY DEF Voids
  <1>13. Begun' = Begun /\ IsKing'
    BY <1>8 DEF Begun, IsKing
  <1>14. NotPrevious.set = FALSE /\ NotPrevious \in [set : BOOLEAN, epoch : Nat, leader : Leaders, amount : Nat]
    BY DEF NotPrevious, Leaders
  <1>15. SameHill(u, rules')
    OBVIOUS
  <1> HIDE DEF r, u, since
  <1>16. CASE Leads(r, x)
    <2>1. u.leader = x.payer /\ u.leaderAmount = x.spend /\ u.epochStart = r.epochStart /\ since = second
      BY <1>2, <1>4, <1>6, <1>11, <1>12, <1>16 DEF RulesState
    <2>2. rules'.leader = x.payer /\ rules'.epochStart = r.epochStart /\ seen'.ledAt = second
      BY <1>8, <1>10, <1>15, <2>1 DEF SameHill
    <2>3. CASE ~tx.previous.set
      <3> DEFINE p == [set |-> TRUE, epoch |-> r.epochStart, leader |-> r.leader, amount |-> r.leaderAmount]
      <3>1. tx' = [tx EXCEPT !.previous = p]
        BY <1>5, <1>9, <1>11, <1>16, <2>3
      <3>2. p \in [set : BOOLEAN, epoch : Nat, leader : Leaders, amount : Nat]
        BY <1>2
      <3>3. p.set /\ p.epoch = r.epochStart /\ p.leader = r.leader /\ p.amount = r.leaderAmount
        OBVIOUS
      <3> HIDE DEF p
      <3>4. tx' \in TransactionTypes /\ tx'.previous = p /\ (tx'.sold <=> tx.sold)
        BY <1>1, <3>1, <3>2 DEF TransactionTypes
      <3>5. KingOK'
        BY <1>3, <1>8, <1>11, <1>13, <1>16, <2>2, <2>3, <3>3, <3>4 DEF KingOK, KingAt, InEpoch
      <3> QED
        BY <1>8, <3>4, <3>5
    <2>4. CASE tx.previous.set
      <3>1. tx' = tx
        BY <1>5, <1>11, <1>16, <2>4
      <3>2. KingOK'
        BY <1>3, <1>8, <1>13, <1>16, <2>2, <2>4, <3>1 DEF KingOK, KingAt, InEpoch
      <3> QED
        BY <1>1, <1>8, <3>1, <3>2
    <2> QED
      BY <2>3, <2>4
  <1>17. CASE ~Leads(r, x) /\ ~x.isBuy
    <2>1. tx' = [sold |-> TRUE, previous |-> NotPrevious]
      BY <1>5, <1>17
    <2>2. tx' \in TransactionTypes /\ ~tx'.previous.set
      BY <1>14, <2>1 DEF TransactionTypes
    <2>3. CASE tx.previous.set
      <3>1. Voids(r, x)
        BY <1>3, <1>12, <1>17, <2>3 DEF KingAt
      <3>2. /\ u.leader = tx.previous.leader /\ u.leaderAmount = tx.previous.amount /\ u.epochStart = r.epochStart
            /\ since = seen.began
        BY <1>2, <1>4, <1>6, <1>17, <3>1 DEF RulesState
      <3>3. /\ rules'.leader = tx.previous.leader /\ rules'.leaderAmount = tx.previous.amount
            /\ rules'.epochStart = r.epochStart
            /\ seen'.ledAt = (IF rules'.leader = NoOne THEN 0 ELSE seen.began)
        BY <1>8, <1>15, <3>2 DEF SameHill
      <3>4. KingOK'
        BY <1>3, <1>8, <1>13, <2>2, <2>3, <3>3 DEF KingOK, KingAt, InEpoch
      <3> QED
        BY <1>8, <2>2, <3>4
    <2>4. CASE ~tx.previous.set
      <3>1. ~Voids(r, x)
        BY <1>12, <2>4
      <3>2. u = r /\ since = seen.ledAt
        BY <1>4, <1>6, <1>17, <3>1
      <3>3. KingOK'
        BY <1>3, <1>8, <1>13, <1>15, <2>2, <2>4, <3>2 DEF KingOK, KingAt, InEpoch, SameHill
      <3> QED
        BY <1>8, <2>2, <3>3
    <2> QED
      BY <2>3, <2>4
  <1>18. CASE ~Leads(r, x) /\ x.isBuy
    <2>1. tx' = tx
      BY <1>5, <1>18
    <2>2. u = r /\ since = seen.ledAt
      BY <1>4, <1>6, <1>12, <1>18
    <2>3. KingOK'
      BY <1>3, <1>8, <1>13, <1>15, <2>1, <2>2 DEF KingOK, KingAt, InEpoch, SameHill
    <2> QED
      BY <1>1, <1>8, <2>1, <2>3
  <1> QED
    BY <1>9, <1>16, <1>17, <1>18

-----------------------------------------------------------------------------
(* The actions.                                                              *)

\* The invariant after a step, part by part.
LEMMA InvariantNext ==
  ASSUME /\ rules' \in RulesState /\ held' \in [Currencies -> Nat] /\ claiming' \in BOOLEAN /\ laneDue' \in BOOLEAN
         /\ liquidity' \in BOOLEAN /\ phase' \in {"idle", "before", "after"} /\ tx' \in TransactionTypes
         /\ block' \in Nat /\ second' \in Nat /\ lp' \in Positions /\ seen' \in SeenTypes,
         LedgerOK', FlushOK', StaysOK', KingOK'
  PROVE  RecaptureInvariant'
  BY DEF RecaptureInvariant, TypeOK, TransactionTypes, SeenTypes

\* The parts of the invariant, with the types the steps need.
LEMMA InvariantTypes ==
  ASSUME RecaptureInvariant
  PROVE  /\ TypeOK /\ LedgerOK /\ FlushOK /\ StaysOK /\ KingOK
         /\ rules \in RulesState /\ held \in [Currencies -> Nat] /\ claiming \in BOOLEAN /\ laneDue \in BOOLEAN
         /\ liquidity \in BOOLEAN /\ phase \in {"idle", "before", "after"} /\ tx \in TransactionTypes
         /\ block \in Nat /\ second \in Nat /\ lp \in Positions /\ seen \in SeenTypes /\ seen.flushSecond \in Nat
  BY DEF RecaptureInvariant, TypeOK, TransactionTypes, SeenTypes

\* A step of the ledger alone.
LEMMA LedgerStep ==
  ASSUME RecaptureInvariant, rules' \in RulesState, SamePending(rules, rules'), SameHill(rules, rules'),
         held' \in [Currencies -> Nat], LedgerOK', claiming' \in BOOLEAN,
         UNCHANGED <<laneDue, phase, tx, liquidity, block, second, lp, seen>>
  PROVE  RecaptureInvariant'
  <1>1. SameClocks /\ SameFlush /\ SameLeads
    BY DEF SameClocks, SameFlush, SameLeads
  <1>2. lp' \in Positions /\ StaysOK' /\ FlushOK'
    BY <1>1, PendingSameStep, InvariantTypes
  <1>3. KingOK'
    BY <1>1, KingSame, InvariantTypes
  <1> QED
    BY <1>2, <1>3, InvariantTypes, InvariantNext

\* A step that flushes, whatever becomes of the position.
LEMMA FlushingStep ==
  ASSUME RecaptureInvariant, NEW flushes \in BOOLEAN, Flush(flushes),
         UNCHANGED <<claiming, tx, block, second>>, liquidity' \in BOOLEAN, phase' \in {"idle", "before", "after"},
         lp' \in Positions, lp'.added <= block, lp'.at = "in" => StayOK(rules', lp')
  PROVE  RecaptureInvariant'
  <1>1. SameClocks
    BY DEF SameClocks
  <1>2. /\ rules' \in RulesState /\ held' \in [Currencies -> Nat] /\ LedgerOK' /\ SameHill(rules, rules')
    BY InvariantTypes, FlushLedger
  <1>3. /\ laneDue' \in BOOLEAN
        /\ seen' \in SeenTypes /\ seen'.ledAt = seen.ledAt /\ seen'.leader = seen.leader
        /\ seen'.amount = seen.amount /\ seen'.began = seen.began
        /\ seen'.flushBlock <= block /\ seen'.flushSecond <= second
        /\ seen'.flushBlock = block => seen'.flushSecond = second
        /\ PendingOK(rules)'
        /\ (AnyDue(rules) \/ AnyFresh(rules) => FlushCalled)'
        /\ ~FlushMayFail => Quiet(rules')
    BY <1>1, InvariantTypes, FlushStep
  <1>4. StaysOK'
    BY <1>1, StayNext DEF StaysOK
  <1>5. Quiet(rules') => Quiet(rules)'
    BY DEF Quiet, AnyDue, AnyFresh
  <1>6. FlushOK'
    BY <1>3, <1>5 DEF FlushOK
  <1>7. KingOK'
    BY <1>2, <1>3, KingSame, InvariantTypes DEF SameLeads
  <1> QED
    BY <1>2, <1>3, <1>4, <1>6, <1>7, InvariantTypes, InvariantNext

\* A swap begins: flush, then the push of what it pays.
LEMMA BeginSwapStep == RecaptureInvariant /\ BeginSwap => RecaptureInvariant'
  <1> SUFFICES ASSUME RecaptureInvariant, BeginSwap
               PROVE  RecaptureInvariant'
    OBVIOUS
  <1>1. PICK flushes \in BOOLEAN : Flush(flushes) /\ lp' = Paid(flushes)
    BY DEF BeginSwap
  <1>2. lp' \in Positions /\ lp'.at = lp.at /\ lp'.added = lp.added /\ (lp'.at = "in" => StayOK(rules', lp'))
    BY <1>1, InvariantTypes, FlushPays
  <1>3. lp'.added <= block
    BY <1>2, InvariantTypes DEF FlushOK
  <1>4. phase' = "before" /\ UNCHANGED <<claiming, tx, liquidity, block, second>>
    BY DEF BeginSwap
  <1> QED
    BY <1>1, <1>2, <1>3, <1>4, InvariantTypes, FlushingStep

\* Adding liquidity flushes first and may begin a stay.
LEMMA AddLiquidityStep == RecaptureInvariant /\ AddLiquidity => RecaptureInvariant'
  <1> SUFFICES ASSUME RecaptureInvariant, AddLiquidity
               PROVE  RecaptureInvariant'
    OBVIOUS
  <1> DEFINE added == [NoPosition EXCEPT !.added = block]
  <1>1. PICK flushes \in BOOLEAN, at \in {"in", "out"} :
          /\ Flush(flushes)
          /\ liquidity' = (liquidity \/ at = "in")
          /\ \/ lp' = Paid(flushes)
             \/ lp' = IF at = "in" THEN InRange(added, Pending(rules')) ELSE OutOfRange(added)
    BY DEF AddLiquidity
  <1>2. UNCHANGED <<claiming, phase, tx, block, second>>
    BY DEF AddLiquidity
  <1>3. added \in Positions /\ added.added = block
    BY InvariantTypes DEF NoPosition, Positions, None
  <1> HIDE DEF added
  <1>4. rules' \in RulesState
    BY <1>1, InvariantTypes, FlushLedger
  <1>5. FlushMayFail \/ Fresh(rules')
    <2>1. SameClocks
      BY <1>2 DEF SameClocks
    <2>2. PendingOK(rules)' /\ (~FlushMayFail => Quiet(rules'))
      BY <1>1, <2>1, InvariantTypes, FlushStep
    <2> QED
      BY <2>1, <2>2, QuietIsFresh
  <1>6. lp' \in Positions /\ lp'.added <= block /\ (lp'.at = "in" => StayOK(rules', lp'))
    <2>1. CASE lp' = Paid(flushes)
      <3>1. lp' \in Positions /\ lp'.added = lp.added /\ (lp'.at = "in" => StayOK(rules', lp'))
        BY <1>1, <2>1, InvariantTypes, FlushPays
      <3> QED
        BY <3>1, InvariantTypes DEF FlushOK
    <2>2. CASE lp' = InRange(added, Pending(rules'))
      <3>1. InRange(added, Pending(rules')) \in Positions /\ InRange(added, Pending(rules')).added = added.added
            /\ StayOK(rules', InRange(added, Pending(rules')))
        BY <1>3, <1>4, <1>5, InvariantTypes, StayBegins
      <3> QED
        BY <1>3, <2>2, <3>1, InvariantTypes
    <2>3. CASE lp' = OutOfRange(added)
      <3>1. lp' \in Positions /\ lp'.at = "out" /\ lp'.added = added.added
        BY <1>3, <2>3, StayEnds
      <3> QED
        BY <1>3, <3>1, InvariantTypes
    <2> QED
      BY <1>1, <2>1, <2>2, <2>3
  <1>7. liquidity' \in BOOLEAN /\ phase' \in {"idle", "before", "after"}
    BY <1>1, <1>2, InvariantTypes
  <1> QED
    BY <1>1, <1>2, <1>6, <1>7, FlushingStep

\* Removing liquidity flushes first and may end a stay.
LEMMA RemoveLiquidityStep == RecaptureInvariant /\ RemoveLiquidity => RecaptureInvariant'
  <1> SUFFICES ASSUME RecaptureInvariant, RemoveLiquidity
               PROVE  RecaptureInvariant'
    OBVIOUS
  <1>1. PICK flushes \in BOOLEAN : Flush(flushes) /\ (lp' = Paid(flushes) \/ lp' = NoPosition)
    BY DEF RemoveLiquidity
  <1>2. UNCHANGED <<claiming, phase, tx, block, second>> /\ liquidity' \in BOOLEAN
    BY DEF RemoveLiquidity
  <1>3. lp' \in Positions /\ lp'.added <= block /\ (lp'.at = "in" => StayOK(rules', lp'))
    <2>1. CASE lp' = Paid(flushes)
      <3>1. lp' \in Positions /\ lp'.added = lp.added /\ (lp'.at = "in" => StayOK(rules', lp'))
        BY <1>1, <2>1, InvariantTypes, FlushPays
      <3> QED
        BY <3>1, InvariantTypes DEF FlushOK
    <2>2. CASE lp' = NoPosition
      <3>1. NoPosition \in Positions /\ NoPosition.at = "none" /\ NoPosition.added = 0
        BY DEF NoPosition, Positions, None
      <3> QED
        BY <2>2, <3>1, InvariantTypes
    <2> QED
      BY <1>1, <2>1, <2>2
  <1> QED
    BY <1>1, <1>2, <1>3, InvariantTypes, FlushingStep

\* A move of the price begins or ends a stay.
LEMMA PriceMovesStep == RecaptureInvariant /\ PriceMoves => RecaptureInvariant'
  <1> SUFFICES ASSUME RecaptureInvariant, PriceMoves
               PROVE  RecaptureInvariant'
    OBVIOUS
  <1>1. /\ UNCHANGED <<rules, held, claiming, laneDue, phase, tx, block, second, seen>> /\ liquidity' \in BOOLEAN
        /\ \/ lp' = lp
           \/ lp.at = "out" /\ lp' = InRange(lp, Pending(rules))
           \/ lp.at = "in" /\ lp' = OutOfRange(lp)
    BY DEF PriceMoves
  <1>2. /\ lp' \in Positions /\ lp'.added = lp.added /\ (lp'.at # "none" => lp.at # "none")
        /\ lp'.at = "in" => StayOK(rules, lp')
    <2>1. CASE lp' = lp
      BY <2>1, InvariantTypes DEF StaysOK
    <2>2. CASE lp.at = "out" /\ lp' = InRange(lp, Pending(rules))
      <3>1. phase = "idle" \/ FlushMayFail \/ Fresh(rules)
        BY QuietIsFresh, InvariantTypes DEF FlushOK
      <3>2. /\ InRange(lp, Pending(rules)) \in Positions /\ InRange(lp, Pending(rules)).added = lp.added
            /\ StayOK(rules, InRange(lp, Pending(rules)))
        BY <2>2, <3>1, InvariantTypes, StayBegins
      <3> QED
        BY <2>2, <3>2
    <2>3. CASE lp.at = "in" /\ lp' = OutOfRange(lp)
      BY <2>3, StayEnds, InvariantTypes
    <2> QED
      BY <1>1, <2>1, <2>2, <2>3
  <1>3. SameClocks /\ SameFlush /\ SameLeads
    BY <1>1 DEF SameClocks, SameFlush, SameLeads
  <1>4. StaysOK'
    BY <1>1, <1>2, <1>3, StayNext DEF StaysOK
  <1>5. FlushOK'
    <2>1. FlushOK
      BY InvariantTypes
    <2>2. PendingOK(rules)' /\ (Quiet(rules) => Quiet(rules)')
      BY <1>1, <2>1 DEF FlushOK, PendingOK, Quiet, Pace, AnyDue, AnyFresh
    <2>3. (AnyDue(rules) \/ AnyFresh(rules) => FlushCalled)'
      BY <1>1, <2>1 DEF FlushOK, AnyDue, AnyFresh, FlushCalled
    <2> QED
      BY <1>1, <1>2, <2>1, <2>2, <2>3 DEF FlushOK
  <1>6. LedgerOK'
    BY <1>1, InvariantTypes DEF LedgerOK, Worth
  <1>7. SameHill(rules, rules')
    BY <1>1 DEF SameHill
  <1>8. KingOK'
    BY <1>1, <1>3, <1>7, KingSame, InvariantTypes
  <1> QED
    BY <1>1, <1>2, <1>4, <1>5, <1>6, <1>8, InvariantTypes, InvariantNext

\* A new transaction, perhaps of a later block: the clocks go on, nothing else moves.
LEMMA NextTransactionStep == RecaptureInvariant /\ NextTransaction => RecaptureInvariant'
  <1> SUFFICES ASSUME RecaptureInvariant, NextTransaction
               PROVE  RecaptureInvariant'
    OBVIOUS
  <1>1. /\ UNCHANGED <<rules, held, claiming, laneDue, phase, liquidity, lp>> /\ phase = "idle" /\ tx' = NewTransaction
        /\ seen' = [seen EXCEPT !.leader = rules.leader, !.amount = rules.leaderAmount, !.began = seen.ledAt]
    BY DEF NextTransaction
  <1>2. /\ rules \in RulesState /\ lp \in Positions /\ block \in Nat /\ second \in Nat /\ seen \in SeenTypes
        /\ FlushOK /\ StaysOK /\ KingOK /\ LedgerOK
    BY InvariantTypes
  <1>3. \/ block' = block /\ second' = second
        \/ block' = block + 1 /\ second' \in Nat /\ second <= second'
    <2>1. CASE UNCHANGED <<block, second>>
      BY <2>1
    <2>2. CASE block' = block + 1 /\ second' \in second .. Min({second + 2, MaxSecond})
      <3>1. Min({second + 2, MaxSecond}) \in Int
        BY <1>2, SmallerOfTwo, BoundAssumption
      <3> QED
        BY <1>2, <2>2, <3>1
    <2> QED
      BY <2>1, <2>2 DEF NextTransaction
  <1>4. block' \in Nat /\ second' \in Nat /\ block <= block' /\ second <= second' /\ (block' = block => second' = second)
    BY <1>2, <1>3
  <1>5. /\ seen' \in SeenTypes /\ SameFlush /\ seen'.ledAt = seen.ledAt /\ seen'.leader = rules.leader
        /\ seen'.amount = rules.leaderAmount /\ seen'.began = seen.ledAt
        /\ seen.flushBlock \in Nat /\ seen.flushSecond \in Nat
    BY <1>1, <1>2, StateFields DEF SeenTypes, SameFlush
  <1>6. tx' \in TransactionTypes /\ ~tx'.previous.set
    BY <1>1 DEF NewTransaction, NotPrevious, TransactionTypes, Leaders
  <1>7. /\ rules.freshBlock \in Nat /\ rules.releasedAt \in Nat /\ rules.freshTime \in Nat /\ rules.dueMark \in Nat
        /\ lp.block \in Nat /\ lp.second \in Nat /\ lp.added \in Nat
    BY <1>2, StateFields, PositionFields
  <1>8. ASSUME block' = block
        PROVE  FlushOK' /\ StaysOK'
    <2>1. SameClocks
      BY <1>3, <1>4, <1>8 DEF SameClocks
    <2>2. FlushOK' /\ StaysOK'
      <3>1. PendingOK(rules)' /\ (Quiet(rules) => Quiet(rules)')
        BY <1>1, <1>2, <1>5, <2>1 DEF FlushOK, PendingOK, Quiet, Pace, AnyDue, AnyFresh, SameClocks, SameFlush
      <3>2. (AnyDue(rules) \/ AnyFresh(rules) => FlushCalled)'
        BY <1>1, <1>2 DEF FlushOK, AnyDue, AnyFresh, FlushCalled
      <3>3. FlushOK'
        BY <1>1, <1>2, <1>5, <2>1, <3>1, <3>2 DEF FlushOK, SameClocks, SameFlush
      <3>4. StaysOK'
        BY <1>1, <1>2, <2>1, StayNext DEF StaysOK
      <3> QED
        BY <3>3, <3>4
    <2> QED
      BY <2>2
  <1>9. ASSUME block' # block
        PROVE  FlushOK' /\ StaysOK'
    <2>1. block' = block + 1
      BY <1>3, <1>9
    <2>2. rules.freshBlock < block' /\ rules.releasedAt < block' /\ seen.flushBlock < block' /\ lp.added < block'
      BY <1>2, <1>5, <1>7, <2>1 DEF FlushOK, PendingOK
    <2>3. Pace \in Nat /\ Pace' \in Nat /\ Pace <= Pace'
      <3>1. \A a, b \in Nat : a <= b => /\ PerSecond * (a + 1) \in Nat /\ PerSecond * (b + 1) \in Nat
                                        /\ PerSecond * (a + 1) <= PerSecond * (b + 1)
        <4> SUFFICES ASSUME NEW a \in Nat, NEW b \in Nat, a <= b
                     PROVE  /\ PerSecond * (a + 1) \in Nat /\ PerSecond * (b + 1) \in Nat
                            /\ PerSecond * (a + 1) <= PerSecond * (b + 1)
          OBVIOUS
        <4>1. a + 1 \in Nat /\ b + 1 \in Nat /\ a + 1 <= b + 1 /\ PerSecond \in Nat
          BY ConstantTypes
        <4> QED
          BY <4>1, ProductBoth
      <3> QED
        BY <1>2, <1>4, <3>1 DEF Pace
    <2>4. PendingOK(rules)'
      <3>1. PendingOK(rules)
        BY <1>2 DEF FlushOK
      <3>2. rules.freshTime <= second'
        BY <1>2, <1>4, <1>7, <3>1 DEF PendingOK
      <3>3. rules.dueMark <= Pace'
        BY <1>7, <2>3, <3>1 DEF PendingOK
      <3>4. (AnyDue(rules) <=> AnyDue(rules)') /\ (AnyFresh(rules) <=> AnyFresh(rules)')
        BY <1>1 DEF AnyDue, AnyFresh
      <3>5. /\ rules'.freshBlock = rules.freshBlock /\ rules'.releasedAt = rules.releasedAt
            /\ rules'.freshTime = rules.freshTime /\ rules'.dueMark = rules.dueMark
            /\ seen'.flushBlock = seen.flushBlock /\ seen'.flushSecond = seen.flushSecond
        BY <1>1, <1>5 DEF SameFlush
      <3>6. rules.freshBlock # block' /\ rules.releasedAt # block' /\ seen.flushBlock # block'
            /\ rules.freshBlock <= block' /\ rules.releasedAt <= block'
        BY <1>2, <1>5, <1>7, <1>4, <2>2
      <3> QED
        BY <3>1, <3>2, <3>3, <3>4, <3>5, <3>6 DEF PendingOK
    <2>5. (AnyDue(rules) \/ AnyFresh(rules) => FlushCalled)'
      BY <1>1, <1>2 DEF FlushOK, AnyDue, AnyFresh, FlushCalled
    <2>6. FlushOK'
      <3>1. seen'.flushBlock = seen.flushBlock /\ seen'.flushSecond = seen.flushSecond
        BY <1>5 DEF SameFlush
      <3>2. seen'.flushBlock <= block' /\ seen'.flushSecond <= second' /\ seen'.flushBlock # block'
            /\ lp'.added <= block' /\ lp'.added # block'
        BY <1>1, <1>2, <1>4, <1>5, <1>7, <2>2, <3>1 DEF FlushOK
      <3>3. phase' = "idle"
        BY <1>1
      <3> QED
        BY <2>4, <2>5, <3>2, <3>3 DEF FlushOK
    <2>7. StaysOK'
      <3> SUFFICES ASSUME lp.at = "in"
                   PROVE  StayOK(rules, lp)'
        BY <1>1 DEF StaysOK
      <3>1. StayOK(rules, lp)
        BY <1>2 DEF StaysOK
      <3>2. lp.block <= block' /\ lp.second <= second'
        BY <1>2, <1>4, <1>7, <3>1 DEF StayOK
      <3> QED
        BY <1>1, <3>1, <3>2 DEF StayOK, AnyDue, AnyFresh, Dust, Past
    <2> QED
      BY <2>6, <2>7
  <1>10. LedgerOK'
    BY <1>1, <1>2 DEF LedgerOK, Worth
  <1>11. KingOK'
    <2>1. rules.epochStart \in Nat
      BY <1>2, StateFields
    <2>2. IsKing => rules.epochStart <= second'
      BY <1>2, <1>4, <2>1 DEF KingOK
    <2>3. <<rules.leader, rules.leaderAmount>> \in Begun'
      BY <1>5 DEF Begun
    <2>4. rules.leader # NoOne => rules.epochStart <= seen.ledAt /\ seen.ledAt < rules.epochStart + Period
      BY <1>2 DEF KingOK, InEpoch
    <2>5. (~IsKing => rules.leader = NoOne) /\ (IsKing' <=> IsKing)
      BY <1>2 DEF KingOK, IsKing
    <2> QED
      BY <1>1, <1>5, <1>6, <2>2, <2>3, <2>4, <2>5 DEF KingOK, InEpoch
  <1>12. FlushOK' /\ StaysOK'
    BY <1>8, <1>9
  <1> QED
    BY <1>1, <1>4, <1>5, <1>6, <1>10, <1>11, <1>12, InvariantTypes, InvariantNext

\* A push: what it adds is held and owed, what becomes pending marks the lane.
LEMMA SettleRecaptureStep == RecaptureInvariant /\ SettleRecapture => RecaptureInvariant'
  <1> SUFFICES ASSUME RecaptureInvariant, SettleRecapture
               PROVE  RecaptureInvariant'
    OBVIOUS
  <1>1. PICK c \in Pushed, amount \in Amounts, trader \in Buyers \cup {NoOne}, basis \in Amounts \cup {0} :
          rules' = Split(rules, c, trader, amount, basis) /\ held' = [held EXCEPT ![c] = @ + amount]
    BY DEF SettleRecapture
  <1>2. /\ laneDue' = TRUE /\ Offers /\ LedAt(seen.ledAt)
        /\ UNCHANGED <<claiming, phase, tx, liquidity, block, second>>
    BY DEF SettleRecapture
  <1>3. c \in Currencies /\ amount \in Nat \ {0} /\ amount \in Nat /\ trader \in Leaders /\ basis \in Nat
    BY <1>1, BoundAssumption, ConstantTypes DEF Leaders
  <1>4. /\ rules' \in RulesState /\ Earns(rules, rules', c, amount) /\ Shares(rules, rules')
        /\ SameHill(IF IsKing THEN Rolled(rules) ELSE rules, rules')
    <2>1. IsKing => rules.epochStart <= second
      BY InvariantTypes DEF KingOK
    <2>2. LET t == Split(rules, c, trader, amount, basis)
          IN  /\ t \in RulesState /\ Earns(rules, t, c, amount) /\ Shares(rules, t)
              /\ SameHill(IF IsKing THEN Rolled(rules) ELSE rules, t)
      BY <1>3, <2>1, InvariantTypes, SplitEffect
    <2> QED
      BY <1>1, <2>2
  <1>5. held' \in [Currencies -> Nat] /\ LedgerOK'
    BY <1>1, <1>3, <1>4, InvariantTypes, EarnsStep
  <1>6. KingOK' /\ seen' \in SeenTypes /\ SameFlush
    BY <1>2, <1>4, InvariantTypes, KingRolled
  <1>7. SameClocks
    BY <1>2 DEF SameClocks
  <1>8. lp' \in Positions /\ StaysOK' /\ FlushOK'
    BY <1>2, <1>4, <1>6, <1>7, InvariantTypes, SharesStep
  <1> QED
    BY <1>2, <1>4, <1>5, <1>6, <1>8, InvariantTypes, InvariantNext

\* settleSwap: King of the Pool first, then the split of the fees.
LEMMA SettleStep ==
  ASSUME RecaptureInvariant, NEW x \in Swaps, Settle(x), phase' \in {"idle", "before", "after"},
         phase' # "idle" => phase # "idle"
  PROVE  RecaptureInvariant'
  <1> DEFINE r == Rolled(rules)
             q == IF IsKing THEN Tracked(r, x) ELSE rules
  <1>1. PICK z \in Settlements : rules' = Allocated(q, x, z)
    BY DEF Settle
  <1>2. /\ held' = [held EXCEPT ![Quote] = @ + rules'.liabilities[Quote] - rules.liabilities[Quote]]
        /\ tx' = (IF IsKing THEN TrackedTransaction(r, x) ELSE tx)
        /\ Offers /\ LedAt(IF IsKing THEN LeadsSince(r, x) ELSE seen.ledAt)
        /\ UNCHANGED <<claiming, laneDue, liquidity, block, second>>
    BY DEF Settle
  <1>3. /\ rules \in RulesState /\ block \in Nat /\ second \in Nat /\ seen.flushSecond \in Nat
        /\ TypeOK /\ KingOK /\ Quote \in Currencies
    BY InvariantTypes, ConstantSets
  <1>4. q \in RulesState /\ Moves(rules, q, Quote, 0) /\ Shares(rules, q) /\ (~IsKing => q = rules)
    <2>1. CASE IsKing
      <3>1. rules.epochStart <= second
        BY <1>3, <2>1 DEF KingOK
      <3>2. r \in RulesState /\ Moves(rules, r, Quote, 0) /\ Shares(rules, r)
        BY <1>3, <3>1, RolledEffect
      <3>3. tx.previous.leader \in Leaders /\ tx.previous.amount \in Nat
        BY <1>3, TypeFields
      <3> HIDE DEF r
      <3>4. Tracked(r, x) \in RulesState /\ SameLedger(r, Tracked(r, x))
        BY <3>2, <3>3, TrackedEffect
      <3>5. Moves(r, Tracked(r, x), Quote, 0) /\ Shares(r, Tracked(r, x))
        BY <1>3, <3>2, <3>4, SameLedgerMoves, SamePendingShares DEF SameLedger
      <3>6. Moves(rules, Tracked(r, x), Quote, 0 + 0)
        BY <1>3, <3>2, <3>4, <3>5, MovesTwice
      <3>7. Shares(rules, Tracked(r, x))
        BY <1>3, <3>2, <3>4, <3>5, SharesTwice
      <3> QED
        BY <2>1, <3>4, <3>6, <3>7
    <2>2. CASE ~IsKing
      <3>1. SameLedger(rules, rules)
        BY DEF SameLedger, SamePending
      <3>2. Moves(rules, rules, Quote, 0) /\ Shares(rules, rules)
        BY <1>3, <3>1, SameLedgerMoves, SamePendingShares DEF SameLedger
      <3> QED
        BY <1>3, <2>2, <3>2
    <2> QED
      BY <2>1, <2>2
  <1> DEFINE n == z.rulesFee + z.advisoryFee + z.refund
  <1> HIDE DEF r, q
  <1>5. /\ rules' \in RulesState /\ Earns(q, rules', Quote, n) /\ n \in Nat
        /\ SamePending(q, rules') /\ SameHill(q, rules')
    <2>1. LET t == Allocated(q, x, z)
          IN  /\ t \in RulesState /\ Earns(q, t, Quote, z.rulesFee + z.advisoryFee + z.refund)
              /\ z.rulesFee + z.advisoryFee + z.refund \in Nat
              /\ SamePending(q, t) /\ SameHill(q, t)
      BY <1>4, AllocatedEffect
    <2> QED
      BY <1>1, <2>1
  <1> HIDE DEF n
  <1>6. Earns(rules, rules', Quote, n)
    <2> SUFFICES ASSUME NEW d \in Currencies
                 PROVE  /\ rules'.liabilities[d] = rules.liabilities[d] + (IF d = Quote THEN n ELSE 0)
                        /\ Worth(rules', d) = Worth(rules, d) + (IF d = Quote THEN n ELSE 0)
      BY DEF Earns
    <2>1. q.liabilities = rules.liabilities /\ Worth(q, d) = Worth(rules, d) + 0
      BY <1>4, Zenon DEF Moves
    <2>2. Worth(rules, d) \in Nat
      BY <1>3, WorthType
    <2> QED
      BY <1>5, <2>1, <2>2 DEF Earns
  <1>7. held' = [held EXCEPT ![Quote] = @ + n]
    <2>1. /\ rules.liabilities[Quote] \in Nat /\ held[Quote] \in Nat
          /\ rules'.liabilities[Quote] = rules.liabilities[Quote] + n
      BY <1>3, <1>6, StateFields, InvariantTypes DEF Earns
    <2>2. held[Quote] + rules'.liabilities[Quote] - rules.liabilities[Quote] = held[Quote] + n
      BY <1>5, <2>1
    <2> QED
      BY <1>2, <2>2
  <1>8. held' \in [Currencies -> Nat] /\ LedgerOK'
    BY <1>3, <1>5, <1>6, <1>7, InvariantTypes, EarnsStep
  <1>9. Shares(rules, rules') /\ (SamePending(rules, rules') \/ IsKing)
    <2>1. Shares(q, rules')
      BY <1>4, <1>5, SamePendingShares
    <2> QED
      BY <1>3, <1>4, <1>5, <2>1, SharesTwice
  <1>10. KingOK' /\ tx' \in TransactionTypes /\ seen' \in SeenTypes /\ SameFlush
    <2>1. CASE IsKing
      <3>1. /\ SameHill(Tracked(Rolled(rules), x), rules') /\ tx' = TrackedTransaction(Rolled(rules), x)
            /\ LedAt(LeadsSince(Rolled(rules), x))
        BY <1>2, <1>5, <2>1 DEF q, r
      <3> QED
        BY <1>2, <1>3, <2>1, <3>1, KingSettled
    <2>2. CASE ~IsKing
      <3>1. SameHill(IF IsKing THEN Rolled(rules) ELSE rules, rules') /\ tx' = tx /\ LedAt(seen.ledAt)
        BY <1>2, <1>4, <1>5, <2>2
      <3> QED
        BY <1>2, <1>3, <3>1, KingRolled, InvariantTypes
    <2> QED
      BY <2>1, <2>2
  <1>11. SameClocks
    BY <1>2 DEF SameClocks
  <1>12. lp' \in Positions /\ StaysOK' /\ FlushOK'
    BY <1>2, <1>5, <1>9, <1>10, <1>11, InvariantTypes, SharesStep
  <1> QED
    BY <1>2, <1>5, <1>8, <1>10, <1>12, InvariantTypes, InvariantNext

\* A credit that is held and owed: an advisory's take, or a sweep.
LEMMA CreditStep ==
  ASSUME RecaptureInvariant, NEW c \in Currencies, NEW who \in Beneficiaries, NEW n \in Nat,
         rules' = Owes(Credits(rules, c, who, n), c, n), held' = [held EXCEPT ![c] = @ + n],
         UNCHANGED <<claiming, laneDue, phase, tx, liquidity, block, second, lp, seen>>
  PROVE  RecaptureInvariant'
  <1> DEFINE t == Credits(rules, c, who, n)
  <1>1. rules \in RulesState
    BY InvariantTypes
  <1>2. t \in RulesState /\ Moves(rules, t, c, n) /\ SamePending(rules, t) /\ SameHill(rules, t)
    BY <1>1, CreditsEffect
  <1>3. rules' = Owes(t, c, n)
    OBVIOUS
  <1> HIDE DEF t
  <1>4. /\ rules' \in RulesState /\ Earns(rules, rules', c, n) /\ SamePending(t, rules') /\ SameHill(t, rules')
    BY <1>1, <1>2, <1>3, MovesThenOwes
  <1>5. SamePending(rules, rules') /\ SameHill(rules, rules')
    BY <1>2, <1>4 DEF SamePending, SameHill
  <1>6. held' \in [Currencies -> Nat] /\ LedgerOK'
    BY <1>4, InvariantTypes, EarnsStep
  <1> QED
    BY <1>4, <1>5, <1>6, InvariantTypes, LedgerStep

\* An executor's leg on this pool is split like a swap of its own.
LEMMA SettleLegStep == RecaptureInvariant /\ SettleLeg => RecaptureInvariant'
  <1> SUFFICES ASSUME RecaptureInvariant, SettleLeg
               PROVE  RecaptureInvariant'
    OBVIOUS
  <1>1. PICK amount \in Fees, recipient \in Accounts :
          /\ rules' = Owes(Credits(rules, Quote, recipient, amount), Quote, amount)
          /\ held' = [held EXCEPT ![Quote] = @ + amount]
    BY DEF SettleLeg
  <1>2. amount \in Nat /\ recipient \in Beneficiaries /\ Quote \in Currencies
    BY <1>1, ConstantTypes, ConstantSets
  <1>3. UNCHANGED <<claiming, laneDue, phase, tx, liquidity, block, second, lp, seen>>
    BY DEF SettleLeg
  <1> QED
    BY <1>1, <1>2, <1>3, CreditStep

\* A sweep credits what the lane has left over.
LEMMA CreditSweepStep == RecaptureInvariant /\ CreditSweep => RecaptureInvariant'
  <1> SUFFICES ASSUME RecaptureInvariant, CreditSweep
               PROVE  RecaptureInvariant'
    OBVIOUS
  <1>1. PICK c \in Pushed, amount \in Amounts :
          /\ rules' = Owes(Credits(rules, c, ProtocolRecipient, amount), c, amount)
          /\ held' = [held EXCEPT ![c] = @ + amount]
    BY DEF CreditSweep
  <1>2. c \in Currencies /\ amount \in Nat /\ ProtocolRecipient \in Beneficiaries
    BY <1>1, BoundAssumption, ConstantTypes, ConstantSets
  <1>3. UNCHANGED <<claiming, laneDue, phase, tx, liquidity, block, second, lp, seen>>
    BY DEF CreditSweep
  <1> QED
    BY <1>1, <1>2, <1>3, CreditStep

\* Anybody may settle an epoch that is over.
LEMMA SettleEpochStep == RecaptureInvariant /\ SettleEpoch => RecaptureInvariant'
  <1> SUFFICES ASSUME RecaptureInvariant, SettleEpoch
               PROVE  RecaptureInvariant'
    OBVIOUS
  <1>1. /\ IsKing /\ rules' = Rolled(rules) /\ Offers /\ LedAt(seen.ledAt)
        /\ UNCHANGED <<held, claiming, laneDue, phase, tx, liquidity, block, second>>
    BY DEF SettleEpoch
  <1>2. rules.epochStart <= second
    BY <1>1, InvariantTypes DEF KingOK
  <1>3. rules' \in RulesState /\ Moves(rules, rules', Quote, 0) /\ Shares(rules, rules')
    BY <1>1, <1>2, InvariantTypes, RolledEffect
  <1>4. held' \in [Currencies -> Nat] /\ LedgerOK'
    BY <1>1, <1>3, InvariantTypes, MovesStep
  <1>5. SameHill(IF IsKing THEN Rolled(rules) ELSE rules, rules')
    BY <1>1 DEF SameHill
  <1>6. KingOK' /\ seen' \in SeenTypes /\ SameFlush
    BY <1>1, <1>5, InvariantTypes, KingRolled
  <1>7. SameClocks
    BY <1>1 DEF SameClocks
  <1>8. lp' \in Positions /\ StaysOK' /\ FlushOK'
    BY <1>1, <1>3, <1>6, <1>7, InvariantTypes, SharesStep
  <1> QED
    BY <1>1, <1>3, <1>4, <1>6, <1>8, InvariantTypes, InvariantNext

\* The accrual becomes claims, currency by currency.
LEMMA ClaimPoolStep == RecaptureInvariant /\ ClaimPool => RecaptureInvariant'
  <1> SUFFICES ASSUME RecaptureInvariant, ClaimPool
               PROVE  RecaptureInvariant'
    OBVIOUS
  <1>1. PICK to \in Beneficiaries :
          rules' = [rules EXCEPT
            !.accrued = [c \in Currencies |-> 0],
            !.claims = [c \in Currencies |-> [rules.claims[c] EXCEPT ![to] = rules.claims[c][to] + rules.accrued[c]]]]
    BY DEF ClaimPool
  <1> DEFINE g(c) == [rules.claims[c] EXCEPT ![to] = rules.claims[c][to] + rules.accrued[c]]
             claims == [c \in Currencies |-> g(c)]
             none == [c \in Currencies |-> 0]
  <1>2. rules \in RulesState /\ UNCHANGED <<held, claiming, laneDue, phase, tx, liquidity, block, second, lp, seen>>
    BY InvariantTypes DEF ClaimPool
  <1>3. rules' = [rules EXCEPT !.accrued = none, !.claims = claims]
    BY <1>1
  <1>4. none \in [Currencies -> Nat] /\ \A c \in Currencies : none[c] = 0
    OBVIOUS
  <1>5. ASSUME NEW c \in Currencies
        PROVE  /\ g(c) \in [Beneficiaries -> Nat]
               /\ SumFunctionOnSet(g(c), Beneficiaries)
                    = SumFunctionOnSet(rules.claims[c], Beneficiaries) + rules.accrued[c]
    <2> DEFINE f == rules.claims[c]
               h == g(c)
    <2>1. f \in [Beneficiaries -> Nat] /\ rules.accrued[c] \in Nat /\ h = [f EXCEPT ![to] = f[to] + rules.accrued[c]]
      BY <1>2, StateFields
    <2> HIDE DEF f, h
    <2>2. h \in [Beneficiaries -> Nat] /\ h[to] = f[to] + rules.accrued[c] /\ \A a \in Beneficiaries \ {to} : f[a] = h[a]
      BY <2>1
    <2>3. \A a \in Beneficiaries : f[a] \in Int /\ h[a] \in Int
      BY <2>1, <2>2
    <2>4. SumFunctionOnSet(h, Beneficiaries) = SumFunctionOnSet(f, Beneficiaries) + (h[to] - f[to])
      BY <2>2, <2>3, SumChange, BeneficiariesFinite
    <2>5. SumFunctionOnSet(f, Beneficiaries) \in Nat
      BY <2>1, ClaimsSum
    <2>6. SumFunctionOnSet(h, Beneficiaries) = SumFunctionOnSet(f, Beneficiaries) + rules.accrued[c]
      BY <2>1, <2>2, <2>3, <2>4, <2>5
    <2> QED
      BY <2>2, <2>6 DEF f, h
  <1>6. claims \in [Currencies -> [Beneficiaries -> Nat]] /\ \A c \in Currencies : claims[c] = g(c)
    BY <1>5
  <1> HIDE DEF g, claims, none
  <1>7. /\ rules' \in RulesState /\ rules'.claims = claims /\ rules'.accrued = none
        /\ rules'.liabilities = rules.liabilities /\ rules'.pot = rules.pot
        /\ SamePending(rules, rules') /\ SameHill(rules, rules')
    BY <1>2, <1>3, <1>4, <1>6 DEF RulesState, SamePending, SameHill
  <1>8. Moves(rules, rules', Quote, 0)
    <2> SUFFICES ASSUME NEW d \in Currencies
                 PROVE  Worth(rules', d) = Worth(rules, d) + (IF d = Quote THEN 0 ELSE 0)
      BY <1>7 DEF Moves
    <2>1. /\ SumFunctionOnSet(rules.claims[d], Beneficiaries) \in Nat /\ rules.accrued[d] \in Nat /\ rules.pot \in Nat
          /\ d \in PoolCurrencies => rules.due[d] \in Nat /\ rules.fresh[d] \in Nat
      BY <1>2, WorthType, StateFields
    <2>2. SumFunctionOnSet(rules'.claims[d], Beneficiaries)
            = SumFunctionOnSet(rules.claims[d], Beneficiaries) + rules.accrued[d]
      BY <1>5, <1>6, <1>7
    <2>3. rules'.accrued[d] = 0
      BY <1>4, <1>7
    <2> QED
      BY <1>7, <2>1, <2>2, <2>3 DEF Worth, SamePending
  <1>9. held' \in [Currencies -> Nat] /\ LedgerOK'
    BY <1>2, <1>7, <1>8, InvariantTypes, MovesStep
  <1> QED
    BY <1>2, <1>7, <1>9, InvariantTypes, LedgerStep

\* A payment takes as much from the ledger as from the claims held.
LEMMA ClaimStep == RecaptureInvariant /\ (Claim \/ ClaimAsClaims) => RecaptureInvariant'
  <1> SUFFICES ASSUME RecaptureInvariant, Claim \/ ClaimAsClaims
               PROVE  RecaptureInvariant'
    OBVIOUS
  <1>1. /\ \E c \in Currencies, who \in Beneficiaries, n \in Nat : n <= rules.claims[c][who] /\ Debit(c, who, n)
        /\ claiming' \in BOOLEAN
        /\ UNCHANGED <<laneDue, phase, tx, liquidity, block, second, lp, seen>>
    <2>1. \A c \in Currencies, who \in Beneficiaries : rules.claims[c][who] \in Nat
      <3>1. rules.claims \in [Currencies -> [Beneficiaries -> Nat]]
        BY InvariantTypes, StateFields
      <3> QED
        BY <3>1
    <2>2. CASE Claim
      <3>1. PICK c \in Currencies, who \in Beneficiaries : Debit(c, who, Min({rules.claims[c][who], MaxPart}))
        BY <2>2 DEF Claim
      <3> DEFINE owed == rules.claims[c][who]
                 n == Min({rules.claims[c][who], MaxPart})
      <3>2. owed \in Nat /\ MaxPart \in Nat
        BY <2>1, ConstantTypes
      <3>3. n = Min({owed, MaxPart})
        OBVIOUS
      <3> HIDE DEF owed, n
      <3>4. n \in Nat /\ n <= owed
        BY <3>2, <3>3, SmallerOfTwo
      <3>5. Debit(c, who, n)
        BY <3>1 DEF n
      <3>6. n \in Nat /\ n <= rules.claims[c][who]
        BY <3>4 DEF owed
      <3> QED
        BY <2>2, <3>5, <3>6 DEF Claim
    <2>3. CASE ClaimAsClaims
      <3>1. PICK c \in Currencies, who \in Beneficiaries : Debit(c, who, rules.claims[c][who])
        BY <2>3 DEF ClaimAsClaims
      <3>2. rules.claims[c][who] \in Nat /\ rules.claims[c][who] <= rules.claims[c][who]
        BY <2>1
      <3>3. \E n \in Nat : n <= rules.claims[c][who] /\ Debit(c, who, n)
        BY <3>1, <3>2
      <3>4. UNCHANGED <<claiming, laneDue, phase, tx, liquidity, block, second, lp, seen>>
        BY <2>3 DEF ClaimAsClaims
      <3> QED
        BY <3>3, <3>4, InvariantTypes
    <2> QED
      BY <2>2, <2>3
  <1>2. PICK c \in Currencies, who \in Beneficiaries, n \in Nat : n <= rules.claims[c][who] /\ Debit(c, who, n)
    BY <1>1
  <1>3. /\ rules' \in RulesState /\ SamePending(rules, rules') /\ SameHill(rules, rules')
        /\ held' \in [Currencies -> Nat] /\ LedgerOK'
    BY <1>2, InvariantTypes, DebitStep
  <1> QED
    BY <1>1, <1>3, LedgerStep

\* The steps that change neither the rules nor what they hold.
LEMMA OtherSteps == RecaptureInvariant /\ (EndSwap \/ EndClaim \/ UNCHANGED vars) => RecaptureInvariant'
  <1> SUFFICES ASSUME RecaptureInvariant, EndSwap \/ EndClaim \/ UNCHANGED vars
               PROVE  RecaptureInvariant'
    OBVIOUS
  <1>1. /\ UNCHANGED <<rules, held, laneDue, tx, liquidity, block, second, lp, seen>>
        /\ claiming' \in BOOLEAN /\ phase' \in {"idle", "before", "after"} /\ (phase' # "idle" => phase # "idle")
    BY InvariantTypes DEF EndSwap, EndClaim, vars
  <1>2. SameClocks /\ SameFlush /\ SameLeads
    BY <1>1 DEF SameClocks, SameFlush, SameLeads
  <1>3. rules' \in RulesState /\ SamePending(rules, rules') /\ SameHill(rules, rules')
    BY <1>1, InvariantTypes DEF SamePending, SameHill
  <1>4. lp' \in Positions /\ StaysOK' /\ FlushOK'
    BY <1>1, <1>2, <1>3, InvariantTypes, PendingSameStep
  <1>5. LedgerOK'
    BY <1>1, InvariantTypes DEF LedgerOK, Worth
  <1>6. KingOK'
    BY <1>1, <1>2, <1>3, InvariantTypes, KingSame
  <1> QED
    BY <1>1, <1>3, <1>4, <1>5, <1>6, InvariantTypes, InvariantNext

\* Every step keeps the invariant.
LEMMA InvariantStep == RecaptureInvariant /\ [Next]_vars => RecaptureInvariant'
  <1> SUFFICES ASSUME RecaptureInvariant, [Next]_vars
               PROVE  RecaptureInvariant'
    OBVIOUS
  <1>1. CASE SettleSwap
    <2>1. PICK x \in Swaps : Settle(x)
      BY <1>1 DEF SettleSwap
    <2>2. phase' = "after" /\ phase = "before"
      BY <1>1 DEF SettleSwap
    <2> QED
      BY <2>1, <2>2, SettleStep
  <1>2. CASE SettleGuardedLeg
    <2>1. PICK x \in Swaps : Settle(x)
      BY <1>2 DEF SettleGuardedLeg
    <2>2. phase' = phase
      BY <1>2 DEF SettleGuardedLeg
    <2> QED
      BY <2>1, <2>2, SettleStep, InvariantTypes
  <1>3. CASE BeginSwap \/ AddLiquidity \/ RemoveLiquidity \/ PriceMoves \/ NextTransaction
    BY <1>3, BeginSwapStep, AddLiquidityStep, RemoveLiquidityStep, PriceMovesStep, NextTransactionStep
  <1>4. CASE SettleRecapture \/ SettleLeg \/ CreditSweep \/ SettleEpoch \/ ClaimPool
    BY <1>4, SettleRecaptureStep, SettleLegStep, CreditSweepStep, SettleEpochStep, ClaimPoolStep
  <1>5. CASE Claim \/ ClaimAsClaims
    BY <1>5, ClaimStep
  <1>6. CASE EndSwap \/ EndClaim \/ UNCHANGED vars
    BY <1>6, OtherSteps
  <1> QED
    BY <1>1, <1>2, <1>3, <1>4, <1>5, <1>6 DEF Next

\* The inductive invariant: types, a covered ledger, flushes in order, stays within
\* their bounds and leads within their epoch hold in every reachable state of a pool.
THEOREM RecaptureHoldsInvariant == Spec => []RecaptureInvariant
  <1> QED
    BY InvariantInit, InvariantStep, PTL DEF Spec

-----------------------------------------------------------------------------
(* What the invariant gives.                                                 *)

\* Nothing of a quiet pool is released.
LEMMA QuietReleasesNothing ==
  ASSUME NEW r \in RulesState, block \in Nat, second \in Nat, r.releasedAt <= block, Quiet(r)
  PROVE  Out(r) = None
  <1>1. /\ r.due \in [PoolCurrencies -> Nat] /\ r.fresh \in [PoolCurrencies -> Nat] /\ r.dueMark \in Nat
        /\ r.releasedAt \in Nat /\ r.freshBlock \in Nat
    BY StateFields
  <1>2. FreshAge(r) = 0
    BY <1>1 DEF Quiet, FreshAge
  <1>3. ASSUME NEW c \in PoolCurrencies
        PROVE  Out(r)[c] = 0
    <2>1. r.due[c] \in Nat /\ r.fresh[c] \in Nat /\ Out(r)[c] \in Nat
      BY <1>1, OutTypes
    <2>2. Released(r.fresh[c], FreshAge(r)) = 0
      BY <1>2 DEF Released
    <2>3. Out(r)[c] = Released(r.due[c], DueAge(r)) + Released(r.fresh[c], FreshAge(r))
      BY DEF Out
    <2>4. CASE AnyDue(r)
      <3>1. block - r.releasedAt = 0
        BY <1>1, <2>4 DEF Quiet
      <3>2. DueAge(r) = Age(0, r.dueMark)
        BY <3>1 DEF DueAge
      <3>3. DueAge(r) = 0
        BY <1>1, <3>2, AgeTypes
      <3>4. Released(r.due[c], DueAge(r)) = 0
        BY <3>3 DEF Released
      <3> QED
        BY <2>2, <2>3, <3>4
    <2>5. CASE ~AnyDue(r)
      <3>1. r.due[c] = 0
        BY <2>5, AnyPending
      <3>2. Out(r)[c] <= r.due[c] + (IF FreshAge(r) # 0 THEN r.fresh[c] ELSE 0)
        BY OutTypes
      <3> QED
        BY <1>2, <2>1, <3>1, <3>2
    <2> QED
      BY <2>4, <2>5
  <1>4. Out(r) \in [PoolCurrencies -> Nat]
    BY OutTypes
  <1>5. Out(r) = [c \in PoolCurrencies |-> Out(r)[c]]
    BY <1>4
  <1> QED
    BY <1>3, <1>5 DEF None

\* The type invariant: every field of the pool's rules, of the position and of the
\* history stays of its type, so no claim, accrual, pending part or pot goes below zero.
THEOREM RecaptureTypeCorrect == Spec => []TypeOK
  <1>1. RecaptureInvariant => TypeOK
    BY DEF RecaptureInvariant
  <1> QED
    BY <1>1, RecaptureHoldsInvariant, PTL

\* The Rules owe exactly the claims, the accrual, the pending donation and the pot, in
\* every currency, and hold claims for all of it: no split, prize, rollover, release or
\* payment loses or invents a unit.
THEOREM OwedIsAccounted == Spec => []Accounted
  <1>1. RecaptureInvariant => Accounted
    <2> SUFFICES ASSUME RecaptureInvariant, NEW c \in Currencies
                 PROVE  LET claims == SumFunctionOnSet(rules.claims[c], Beneficiaries)
                            pending == IF c \in PoolCurrencies THEN Pending(rules)[c] ELSE 0
                            pot == IF c = Quote THEN rules.pot ELSE 0
                        IN  /\ rules.liabilities[c] = claims + rules.accrued[c] + pending + pot
                            /\ \A part \in {rules.accrued[c], pending, pot} : part >= 0
                            /\ rules.liabilities[c] <= held[c]
      BY DEF Accounted
    <2> DEFINE pending == IF c \in PoolCurrencies THEN Pending(rules)[c] ELSE 0
               pot == IF c = Quote THEN rules.pot ELSE 0
               claims == SumFunctionOnSet(rules.claims[c], Beneficiaries)
    <2>1. /\ claims \in Nat /\ rules.accrued[c] \in Nat /\ rules.pot \in Nat
          /\ c \in PoolCurrencies => rules.due[c] \in Nat /\ rules.fresh[c] \in Nat
      BY InvariantTypes, WorthType, StateFields
    <2>2. pending = IF c \in PoolCurrencies THEN rules.due[c] + rules.fresh[c] ELSE 0
      BY DEF Pending
    <2>3. rules.liabilities[c] = Worth(rules, c)
      BY InvariantTypes DEF LedgerOK
    <2>4. Worth(rules, c) = claims + rules.accrued[c] + (IF c \in PoolCurrencies THEN rules.due[c] + rules.fresh[c] ELSE 0)
                              + (IF c = Quote THEN rules.pot ELSE 0)
      BY DEF Worth
    <2> HIDE DEF pending, claims
    <2>5. rules.liabilities[c] = claims + rules.accrued[c] + pending + pot
      BY <2>2, <2>3, <2>4
    <2>6. pending >= 0 /\ pot >= 0 /\ rules.accrued[c] >= 0
      BY <2>1, <2>2
    <2>7. rules.liabilities[c] <= held[c]
      BY DEF RecaptureInvariant, LedgerOK
    <2> QED
      BY <2>5, <2>6, <2>7 DEF pending, claims
  <1> QED
    BY <1>1, RecaptureHoldsInvariant, PTL

\* A lead was bought in the epoch it leads in, and not by a transaction that sold.
THEOREM LeadersEarnTheirLead == Spec => []LeadsAreEarned
  <1>1. RecaptureInvariant => LeadsAreEarned
    BY DEF RecaptureInvariant, KingOK, LeadsAreEarned, InEpoch, Begun
  <1> QED
    BY <1>1, RecaptureHoldsInvariant, PTL

\* A stay that began with a liquidity change or in a swap of the pool has received no
\* more than the share of its blocks, of its seconds and of one window, unless a flush
\* failed: what a failed flush leaves pending is offered whole to the next stay.
THEOREM StaysKeepTheirWindow ==
  ASSUME ~FlushMayFail
  PROVE  Spec => []WindowBound
  <1>1. RecaptureInvariant => WindowBound
    <2> SUFFICES ASSUME RecaptureInvariant, lp.at = "in", ~lp.byLeg
                 PROVE  WithinItsBlocks
      BY DEF WindowBound
    <2> DEFINE byBlocks == block - lp.block
               bySeconds == PerSecond * (second - lp.second + 1)
               blocks == Min({byBlocks, ReleaseBlocks, bySeconds})
    <2>1. StayOK(rules, lp) /\ PendingOK(rules)
      BY InvariantTypes DEF StaysOK, FlushOK
    <2>2. /\ rules.releasedAt \in Nat /\ rules.dueMark \in Nat /\ lp.block \in Nat /\ lp.second \in Nat
          /\ block \in Nat /\ second \in Nat /\ lp.releases \in Nat /\ ReleaseBlocks \in Nat \ {0} /\ PerSecond \in Nat
          /\ lp.block <= block /\ lp.second <= second /\ rules.releasedAt <= block /\ rules.dueMark <= Pace
      BY <2>1, InvariantTypes, StateFields, PositionFields, ConstantTypes DEF StayOK, PendingOK
    <2>3. Past(rules.releasedAt, lp.block) \in Nat /\ Past(rules.releasedAt, lp.block) <= byBlocks /\ byBlocks \in Nat
      <3> DEFINE time == rules.releasedAt
                 begin == lp.block
      <3>1. time \in Nat /\ begin \in Nat /\ time <= block /\ begin <= block /\ block \in Nat
        BY <2>2
      <3>2. byBlocks = block - begin
        OBVIOUS
      <3> HIDE DEF time, begin, byBlocks
      <3>3. Past(time, begin) \in Nat /\ Past(time, begin) <= byBlocks /\ byBlocks \in Nat
        BY <3>1, <3>2, PastUpTo
      <3> QED
        BY <3>3 DEF time, begin
    <2> DEFINE start == PerSecond * lp.second
    <2>4. Past(rules.dueMark, start) \in Nat /\ Past(rules.dueMark, start) <= bySeconds /\ bySeconds \in Nat
      <3>1. start \in Nat /\ Pace \in Nat /\ bySeconds \in Nat /\ Pace - start = bySeconds
        <4>1. second + 1 \in Nat /\ second - lp.second + 1 \in Nat
          BY <2>2
        <4>2. PerSecond * (second + 1) = PerSecond * lp.second + PerSecond * (second - lp.second + 1)
          BY <2>2
        <4>3. PerSecond * lp.second \in Nat /\ PerSecond * (second - lp.second + 1) \in Nat
          BY <2>2, <4>1
        <4> QED
          BY <4>2, <4>3 DEF Pace
      <3> HIDE DEF start, bySeconds
      <3> DEFINE time == rules.dueMark
      <3>2. time \in Nat /\ time <= Pace /\ start <= Pace
        BY <2>2, <3>1
      <3> HIDE DEF time
      <3>3. Past(time, start) \in Nat /\ Past(time, start) <= bySeconds
        BY <3>1, <3>2, PastUpTo
      <3> QED
        BY <3>1, <3>3 DEF time
    <2>5. blocks \in {byBlocks, ReleaseBlocks, bySeconds}
      <3> HIDE DEF byBlocks, bySeconds
      <3>1. \E m \in {byBlocks, ReleaseBlocks, bySeconds} : \A n \in {byBlocks, ReleaseBlocks, bySeconds} : m <= n
        BY <2>2, <2>3, <2>4
      <3> QED
        BY <3>1 DEF Min
    <2> SUFFICES ASSUME NEW c \in PoolCurrencies
                 PROVE  lp.received[c] * ReleaseBlocks <= lp.offered[c] * blocks + 2 * (ReleaseBlocks - 1) * lp.releases
      BY DEF WithinItsBlocks
    <2> DEFINE got == lp.received[c]
               dust == 2 * (ReleaseBlocks - 1) * lp.releases
               part == lp.offered[c] - rules.fresh[c]
    <2>6. /\ rules.due[c] \in Nat /\ rules.fresh[c] \in Nat /\ got \in Nat /\ lp.offered[c] \in Nat
          /\ got + rules.due[c] + rules.fresh[c] = lp.offered[c]
      BY <2>1, InvariantTypes, StateFields, PositionFields DEF StayOK
    <2>7. part \in Nat /\ part <= lp.offered[c] /\ got <= lp.offered[c]
      BY <2>6
    <2>8. dust \in Nat /\ dust = Dust(lp)
      BY <2>2 DEF Dust
    <2>9. /\ got * ReleaseBlocks <= part * Past(rules.releasedAt, lp.block) + dust
          /\ got * ReleaseBlocks <= part * Past(rules.dueMark, start) + dust
      BY <2>1, <2>8 DEF StayOK
    <2> HIDE DEF got, dust, part, byBlocks, bySeconds, blocks, start
    <2>10. got * ReleaseBlocks <= lp.offered[c] * byBlocks + dust
      <3>1. part * Past(rules.releasedAt, lp.block) <= lp.offered[c] * byBlocks
        BY <2>3, <2>6, <2>7, ProductBoth
      <3>2. part * Past(rules.releasedAt, lp.block) \in Int /\ lp.offered[c] * byBlocks \in Int /\ got * ReleaseBlocks \in Int
        BY <2>2, <2>3, <2>6, <2>7
      <3> QED
        BY <2>8, <2>9, <3>1, <3>2
    <2>11. got * ReleaseBlocks <= lp.offered[c] * bySeconds + dust
      <3>1. part * Past(rules.dueMark, start) <= lp.offered[c] * bySeconds
        BY <2>4, <2>6, <2>7, ProductBoth
      <3>2. part * Past(rules.dueMark, start) \in Int /\ lp.offered[c] * bySeconds \in Int /\ got * ReleaseBlocks \in Int
        BY <2>2, <2>4, <2>6, <2>7
      <3> QED
        BY <2>8, <2>9, <3>1, <3>2
    <2>12. got * ReleaseBlocks <= lp.offered[c] * ReleaseBlocks + dust
      <3>1. got * ReleaseBlocks <= lp.offered[c] * ReleaseBlocks
        BY <2>2, <2>6, <2>7, ProductBoth
      <3>2. lp.offered[c] * ReleaseBlocks \in Int /\ got * ReleaseBlocks \in Int
        BY <2>2, <2>6
      <3> QED
        BY <2>8, <3>1, <3>2
    <2>13. got * ReleaseBlocks <= lp.offered[c] * blocks + dust
      BY <2>5, <2>10, <2>11, <2>12
    <2> QED
      BY <2>13 DEF got, dust
  <1> QED
    BY <1>1, RecaptureHoldsInvariant, PTL

\* What changes what the position received is a flush of a share that has aged.
LEMMA OnlyFlushesPay ==
  ASSUME RecaptureInvariant, [Next]_vars, lp'.received # lp.received, lp'.releases # 0
  PROVE  lp.at = "in" /\ Out(rules) # None
  <1>1. /\ NoPosition.releases = 0
        /\ \A p \in Positions : \A g : InRange(p, g).releases = 0
        /\ \A p \in Positions : OutOfRange(p).releases = 0
    <2>1. NoPosition.releases = 0
      BY DEF NoPosition
    <2>2. ASSUME NEW p \in Positions, NEW g
          PROVE  InRange(p, g).releases = 0
      BY DEF InRange, Positions
    <2>3. ASSUME NEW p \in Positions
          PROVE  OutOfRange(p).releases = 0
      BY DEF OutOfRange, NoPosition
    <2> QED
      BY <2>1, <2>2, <2>3
  <1>2. lp \in Positions /\ [NoPosition EXCEPT !.added = block] \in Positions
    BY InvariantTypes DEF NoPosition, Positions, None
  <1>3. Offers => lp'.received = lp.received
    BY <1>2 DEF Offers, Positions
  <1>4. \A flushes \in BOOLEAN : lp' = Paid(flushes) => lp.at = "in" /\ Out(rules) # None
    BY DEF Paid
  <1>5. CASE BeginSwap
    BY <1>4, <1>5 DEF BeginSwap
  <1>6. CASE AddLiquidity
    BY <1>1, <1>2, <1>4, <1>6 DEF AddLiquidity
  <1>7. CASE RemoveLiquidity
    BY <1>1, <1>4, <1>7 DEF RemoveLiquidity
  <1>8. CASE PriceMoves
    BY <1>1, <1>2, <1>8 DEF PriceMoves
  <1>9. CASE SettleRecapture \/ SettleSwap \/ SettleGuardedLeg \/ SettleEpoch
    BY <1>3, <1>9 DEF SettleRecapture, SettleSwap, SettleGuardedLeg, SettleEpoch, Settle
  <1>10. CASE SettleLeg \/ EndSwap \/ CreditSweep \/ ClaimPool \/ Claim \/ EndClaim \/ ClaimAsClaims \/ NextTransaction
              \/ UNCHANGED vars
    <2>1. lp' = lp
      BY <1>10, Zenon DEF SettleLeg, EndSwap, CreditSweep, ClaimPool, Claim, EndClaim, ClaimAsClaims, NextTransaction, vars
    <2> QED
      BY <2>1
  <1> QED
    BY <1>5, <1>6, <1>7, <1>8, <1>9, <1>10 DEF Next

\* Liquidity gets nothing in the block it was added in, unless a flush failed in it.
THEOREM NothingJustInTime ==
  ASSUME ~FlushMayFail
  PROVE  Spec => JustInTimeGetsNothing
  <1>1. RecaptureInvariant /\ [Next]_vars => [lp'.received # lp.received /\ lp'.releases # 0 => lp.added < block]_vars
    <2> SUFFICES ASSUME RecaptureInvariant, [Next]_vars, lp'.received # lp.received, lp'.releases # 0
                 PROVE  lp.added < block
      OBVIOUS
    <2>1. lp.at = "in" /\ Out(rules) # None
      BY OnlyFlushesPay
    <2>2. lp.added \in Nat /\ block \in Nat /\ lp.added <= block
      BY InvariantTypes, PositionFields DEF FlushOK
    <2>3. lp.added = block => Quiet(rules)
      BY <2>1, InvariantTypes DEF FlushOK
    <2>4. Quiet(rules) => Out(rules) = None
      BY InvariantTypes, QuietReleasesNothing DEF FlushOK, PendingOK
    <2> QED
      BY <2>1, <2>2, <2>3, <2>4
  <1> QED
    BY <1>1, RecaptureHoldsInvariant, PTL DEF Spec, JustInTimeGetsNothing

\* What a swap's flush leaves pending is what was pending, less what it released.
LEMMA SwapFlushes ==
  ASSUME RecaptureInvariant, [Next]_vars, Flushing
  PROVE  /\ rules' \in RulesState
         /\ \/ rules' = rules /\ (~FlushMayFail => ~FlushCalled)
            \/ \A c \in PoolCurrencies :
                 rules'.due[c] + rules'.fresh[c] + Out(rules)[c] = rules.due[c] + rules.fresh[c]
  <1>1. BeginSwap
    BY DEF Flushing, Next, vars, BeginSwap, SettleRecapture, SettleSwap, SettleGuardedLeg, SettleLeg, EndSwap,
           PriceMoves, AddLiquidity, RemoveLiquidity, CreditSweep, SettleEpoch, ClaimPool, Claim, EndClaim,
           ClaimAsClaims, NextTransaction
  <1>2. PICK flushes \in BOOLEAN : Flush(flushes)
    BY <1>1 DEF BeginSwap
  <1>3. rules' \in RulesState
    BY <1>2, InvariantTypes, FlushLedger
  <1>4. CASE flushes
    <2>1. rules' = FlushedRules(rules)
      BY <1>2, <1>4 DEF Flush
    <2>2. SamePending(Flushed(rules), rules')
      BY <2>1 DEF FlushedRules, Donated, AccruedOut, SamePending
    <2>3. /\ block \in Nat /\ second \in Nat /\ rules \in RulesState /\ rules.releasedAt <= block
      BY InvariantTypes DEF FlushOK, PendingOK
    <2>4. \A c \in PoolCurrencies :
            Flushed(rules).due[c] + Flushed(rules).fresh[c] + Out(rules)[c] = rules.due[c] + rules.fresh[c]
      BY <2>3, FlushedFields
    <2> QED
      BY <1>3, <2>2, <2>4 DEF SamePending
  <1>5. CASE ~flushes
    BY <1>2, <1>3, <1>5 DEF Flush
  <1> QED
    BY <1>4, <1>5

\* A block releases once, and a release never stalls: what is due is released of in every
\* later second, unless a flush failed.
THEOREM ReleaseNeverStalls ==
  ASSUME ~FlushMayFail
  PROVE  Spec => ReleasesKeepPace
  <1> DEFINE Keeps == Flushing =>
               /\ seen.flushBlock = block => Pending(rules') = Pending(rules)
               /\ seen.flushSecond < second /\ AnyDue(rules) /\ rules.freshTime < second
                    => Pending(rules') # Pending(rules)
  <1>1. RecaptureInvariant /\ [Next]_vars => Keeps
    <2> SUFFICES ASSUME RecaptureInvariant, [Next]_vars, Flushing
                 PROVE  /\ seen.flushBlock = block => Pending(rules') = Pending(rules)
                        /\ seen.flushSecond < second /\ AnyDue(rules) /\ rules.freshTime < second
                             => Pending(rules') # Pending(rules)
      OBVIOUS
    <2>1. /\ rules' \in RulesState
          /\ \/ rules' = rules /\ ~FlushCalled
             \/ \A c \in PoolCurrencies :
                  rules'.due[c] + rules'.fresh[c] + Out(rules)[c] = rules.due[c] + rules.fresh[c]
      BY SwapFlushes
    <2>2. /\ block \in Nat /\ second \in Nat /\ rules \in RulesState /\ rules.releasedAt <= block
          /\ PendingOK(rules) /\ seen.flushSecond \in Nat
      BY InvariantTypes DEF FlushOK, PendingOK
    <2>3. Out(rules) \in [PoolCurrencies -> Nat]
      BY <2>2, OutTypes
    <2>4. \A c \in PoolCurrencies : /\ rules'.due[c] \in Nat /\ rules'.fresh[c] \in Nat
                                    /\ rules.due[c] \in Nat /\ rules.fresh[c] \in Nat /\ Out(rules)[c] \in Nat
                                    /\ Pending(rules)[c] = rules.due[c] + rules.fresh[c]
                                    /\ Pending(rules')[c] = rules'.due[c] + rules'.fresh[c]
      BY <2>1, <2>2, <2>3, StateFields DEF Pending
    <2>5. ASSUME seen.flushBlock = block
          PROVE  Pending(rules') = Pending(rules)
      <3>1. Out(rules) = None
        BY <2>2, <2>5, QuietReleasesNothing DEF PendingOK
      <3>2. \A c \in PoolCurrencies : Out(rules)[c] = 0
        BY <3>1 DEF None
      <3>3. CASE rules' = rules
        BY <3>3
      <3>4. CASE \A c \in PoolCurrencies :
                   rules'.due[c] + rules'.fresh[c] + Out(rules)[c] = rules.due[c] + rules.fresh[c]
        <4>1. \A c \in PoolCurrencies : rules'.due[c] + rules'.fresh[c] = rules.due[c] + rules.fresh[c]
          BY <2>4, <3>2, <3>4
        <4> QED
          BY <4>1 DEF Pending
      <3> QED
        BY <2>1, <3>3, <3>4
    <2>6. ASSUME seen.flushSecond < second, AnyDue(rules), rules.freshTime < second
          PROVE  Pending(rules') # Pending(rules)
      <3>1. /\ rules.releasedAt \in Nat /\ rules.dueMark \in Nat /\ rules.freshTime \in Nat /\ PerSecond \in Nat \ {0}
            /\ Pace = PerSecond * second + PerSecond /\ PerSecond * second \in Nat
        BY <2>2, StateFields, ConstantTypes, AgeTypes
      <3>2. rules.dueMark <= PerSecond * second
        <4>1. ASSUME NEW n \in Nat, n < second
              PROVE  PerSecond * (n + 1) <= PerSecond * second /\ PerSecond * (n + 1) \in Nat
          <5>1. n + 1 \in Nat /\ n + 1 <= second
            BY <2>2, <4>1
          <5> QED
            BY <2>2, <3>1, <5>1, ProductBoth
        <4>2. /\ PerSecond * (seen.flushSecond + 1) <= PerSecond * second
              /\ PerSecond * (rules.freshTime + 1) <= PerSecond * second
              /\ PerSecond * (seen.flushSecond + 1) \in Nat /\ PerSecond * (rules.freshTime + 1) \in Nat
          BY <2>2, <2>6, <3>1, <4>1
        <4>3. \/ rules.dueMark <= PerSecond * (seen.flushSecond + 1)
              \/ rules.dueMark <= PerSecond * (rules.freshTime + 1)
          BY <2>2 DEF PendingOK
        <4> QED
          BY <3>1, <4>2, <4>3
      <3>3. rules.releasedAt # block
        <4>1. seen.flushBlock = block => seen.flushSecond = second
          BY InvariantTypes DEF FlushOK
        <4>2. seen.flushBlock # block
          BY <2>2, <2>6, <4>1
        <4> QED
          BY <2>2, <2>6, <4>2 DEF PendingOK
      <3>4. block - rules.releasedAt \in Nat /\ block - rules.releasedAt # 0
        BY <2>2, <3>1, <3>3
      <3>5. ~(Pace <= rules.dueMark)
        BY <3>1, <3>2
      <3>6. DueAge(rules) # 0
        <4> DEFINE n == block - rules.releasedAt
                   m == rules.dueMark
        <4>1. n \in Nat /\ n # 0 /\ m \in Nat /\ ~(Pace <= m)
          BY <3>1, <3>4, <3>5
        <4> HIDE DEF n, m
        <4>2. Age(n, m) # 0
          BY <2>2, <4>1, AgeTypes
        <4> QED
          BY <4>2 DEF DueAge, n, m
      <3>7. Out(rules) # None
        BY <2>2, <2>6, <3>6, OutTypes
      <3>8. \E c \in PoolCurrencies : Out(rules)[c] # 0
        BY <2>3, <3>7 DEF None
      <3>9. FlushCalled
        BY <2>6, InvariantTypes DEF FlushOK
      <3>10. \A c \in PoolCurrencies :
               rules'.due[c] + rules'.fresh[c] + Out(rules)[c] = rules.due[c] + rules.fresh[c]
        BY <2>1, <3>9
      <3>11. PICK c \in PoolCurrencies : Out(rules)[c] # 0
        BY <3>8
      <3>12. Pending(rules')[c] # Pending(rules)[c]
        BY <2>4, <3>10, <3>11
      <3> QED
        BY <3>12
    <2> QED
      BY <2>5, <2>6
  <1>2. RecaptureInvariant /\ [Next]_vars => [Keeps]_vars
    BY <1>1
  <1> QED
    BY <1>2, RecaptureHoldsInvariant, PTL DEF Spec, ReleasesKeepPace

=============================================================================
