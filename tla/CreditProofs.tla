---------------------------- MODULE CreditProofs ----------------------------
(***************************************************************************)
(* Theorems about the credits themselves: what the pools and the balances  *)
(* hold and the unpaid epoch still owes is never more than the fees        *)
(* collected and, when no two payments of a block are for one identity,    *)
(* less by at most a credit for every block that paid.                     *)
(***************************************************************************)
EXTENDS PaymentProofs

(* The credits of a sequence of payments. *)
TotalOf(paid) == Sum([k \in 1 .. Len(paid) |-> paid[k].amount], 1 .. Len(paid))

(* A segment of a sum grows by one element. *)
LEMMA SumSegment ==
  ASSUME NEW n \in Nat, NEW f, \A k \in 1 .. n + 1 : f[k] \in Int
  PROVE  Sum(f, 1 .. n + 1) = Sum(f, 1 .. n) + f[n + 1]
  <1>1. /\ 1 .. n + 1 = (1 .. n) \cup {n + 1} /\ n + 1 \notin 1 .. n
        /\ IsFiniteSet(1 .. n)
    <2>1. IsFiniteSet(1 .. n)
      BY FS_Interval
    <2> QED
      BY <2>1
  <1>2. Sum(f, (1 .. n) \cup {n + 1}) = f[n + 1] + Sum(f, 1 .. n)
    <2>1. \A k \in (1 .. n) \cup {n + 1} : f[k] \in Int
      OBVIOUS
    <2> QED
      BY <1>1, <2>1, SumAddElement
  <1>3. Sum(f, 1 .. n) \in Int /\ f[n + 1] \in Int
    <2>1. (\A k \in 1 .. n : f[k] \in Int) /\ f[n + 1] \in Int
      OBVIOUS
    <2> QED
      BY <1>1, <2>1, SumInt
  <1>4. Sum(f, 1 .. n + 1) = f[n + 1] + Sum(f, 1 .. n)
    BY <1>1, <1>2, Zenon
  <1> QED
    BY <1>3, <1>4

LEMMA TotalType ==
  ASSUME NEW paid \in Seq(Payment)
  PROVE  TotalOf(paid) \in Nat
  <1> DEFINE f == [k \in 1 .. Len(paid) |-> paid[k].amount]
  <1>1. Len(paid) \in Nat /\ IsFiniteSet(1 .. Len(paid))
    BY FS_Interval
  <1>2. \A k \in 1 .. Len(paid) : f[k] \in Nat
    <2> TAKE k \in 1 .. Len(paid)
    <2>1. paid[k] \in Payment
      BY ElementOfSeq
    <2> QED
      BY <2>1 DEF Payment, Credits
  <1> HIDE DEF f
  <1>3. Sum(f, 1 .. Len(paid)) \in Nat
    BY <1>1, <1>2, SumNat
  <1> QED
    BY <1>3 DEF TotalOf, f

(* Payments one after the other add up. *)
LEMMA TotalConcat ==
  ASSUME NEW s \in Seq(Payment), NEW t \in Seq(Payment)
  PROVE  TotalOf(s \o t) = TotalOf(s) + TotalOf(t)
  <1> DEFINE m == Len(s)
             n == Len(t)
             F == [k \in 1 .. m + n |-> (s \o t)[k].amount]
             A == [k \in 1 .. m |-> s[k].amount]
             B == [k \in 1 .. n |-> t[k].amount]
             Good == {j \in 0 .. n : Sum(F, 1 .. m + j) = Sum(A, 1 .. m) + Sum(B, 1 .. j)}
  <1>1. m \in Nat /\ n \in Nat /\ Len(s \o t) = m + n
    OBVIOUS
  <1>2. \A k \in 1 .. m : F[k] = A[k] /\ A[k] \in Nat
    <2> TAKE k \in 1 .. m
    <2>1. (s \o t)[k] = s[k] /\ s[k] \in Payment /\ k \in 1 .. m + n
      BY <1>1, ElementOfSeq
    <2> QED
      BY <2>1 DEF Payment, Credits
  <1>3. \A k \in 1 .. n : F[m + k] = B[k] /\ B[k] \in Nat
    <2> TAKE k \in 1 .. n
    <2>1. (s \o t)[m + k] = t[k] /\ t[k] \in Payment /\ m + k \in 1 .. m + n
      BY <1>1, ElementOfSeq
    <2> QED
      BY <2>1 DEF Payment, Credits
  <1>4. TotalOf(s \o t) = Sum(F, 1 .. m + n) /\ TotalOf(s) = Sum(A, 1 .. m)
        /\ TotalOf(t) = Sum(B, 1 .. n)
    BY <1>1 DEF TotalOf
  <1> HIDE DEF F, A, B, m, n
  <1>5. \A k \in 1 .. m + n : F[k] \in Nat
    <2> TAKE k \in 1 .. m + n
    <2>1. CASE k <= m
      BY <1>1, <1>2, <2>1
    <2>2. CASE k > m
      <3>1. k - m \in 1 .. n /\ m + (k - m) = k
        BY <1>1, <2>2
      <3> QED
        BY <1>3, <3>1
    <2> QED
      BY <1>1, <2>1, <2>2
  <1>6. 0 \in Good
    <2>1. Sum(F, 1 .. m) = Sum(A, 1 .. m) /\ Sum(A, 1 .. m) \in Nat
      <3>1. IsFiniteSet(1 .. m)
        BY <1>1, FS_Interval
      <3> QED
        BY <1>2, <3>1, SumOfSame, SumNat
    <2>2. Sum(B, 1 .. 0) = 0
      <3>1. 1 .. 0 = {}
        OBVIOUS
      <3> QED
        BY <3>1, SumEmpty
    <2>3. m + 0 = m /\ 0 \in 0 .. n
      BY <1>1
    <2> QED
      BY <2>1, <2>2, <2>3
  <1>7. ASSUME NEW j \in 0 .. n - 1, j \in Good
        PROVE  j + 1 \in Good
    <2>1. /\ j \in Nat /\ m + j \in Nat /\ (m + j) + 1 = m + (j + 1) /\ j + 1 \in 0 .. n
          /\ j + 1 \in 1 .. n
      BY <1>1
    <2>2. Sum(F, 1 .. m + (j + 1)) = Sum(F, 1 .. m + j) + F[m + (j + 1)]
      <3>1. \A k \in 1 .. (m + j) + 1 : F[k] \in Int
        <4> TAKE k \in 1 .. (m + j) + 1
        <4>1. k \in 1 .. m + n
          BY <1>1, <2>1
        <4> QED
          BY <1>5, <4>1
      <3>2. Sum(F, 1 .. (m + j) + 1) = Sum(F, 1 .. m + j) + F[(m + j) + 1]
        BY <2>1, <3>1, SumSegment
      <3> QED
        BY <2>1, <3>2
    <2>3. Sum(B, 1 .. j + 1) = Sum(B, 1 .. j) + B[j + 1]
      <3>1. \A k \in 1 .. j + 1 : B[k] \in Int
        BY <1>1, <1>3, <2>1
      <3> QED
        BY <2>1, <3>1, SumSegment
    <2>4. Sum(A, 1 .. m) \in Int /\ Sum(B, 1 .. j) \in Int
      <3>1. IsFiniteSet(1 .. m)
        BY <1>1, FS_Interval
      <3>2. IsFiniteSet(1 .. j)
        BY <2>1, FS_Interval
      <3>3. \A k \in 1 .. m : A[k] \in Int
        BY <1>2
      <3>4. \A k \in 1 .. j : B[k] \in Int
        BY <1>1, <1>3, <2>1
      <3>5. Sum(A, 1 .. m) \in Int
        BY <3>1, <3>3, SumInt
      <3> QED
        BY <3>2, <3>4, <3>5, SumInt
    <2>5. Sum(F, 1 .. m + j) = Sum(A, 1 .. m) + Sum(B, 1 .. j)
      BY <1>7
    <2>6. F[m + (j + 1)] = B[j + 1] /\ B[j + 1] \in Nat
      BY <1>3, <2>1
    <2>7. Sum(F, 1 .. m + (j + 1)) = Sum(A, 1 .. m) + Sum(B, 1 .. j + 1)
      BY <2>2, <2>3, <2>4, <2>5, <2>6
    <2> QED
      BY <2>1, <2>7
  <1> HIDE DEF Good
  <1>8. n \in Good
    <2>1. \A j \in 0 .. n - 1 : j \in Good => j + 1 \in Good
      BY <1>7
    <2>2. \A j \in 0 .. n : j \in Good
      BY <1>1, <1>6, <2>1, SegmentInduction, Zenon
    <2> QED
      BY <1>1, <2>2
  <1> QED
    BY <1>4, <1>8 DEF Good

(* One payment more. *)
LEMMA TotalOfOne ==
  ASSUME NEW id \in Identities, NEW amount \in Nat
  PROVE  /\ <<[id |-> id, amount |-> amount]>> \in Seq(Payment)
         /\ TotalOf(<<[id |-> id, amount |-> amount]>>) = amount
         /\ TotalOf(<<>>) = 0
  <1> DEFINE s == <<[id |-> id, amount |-> amount]>>
             f == [k \in 1 .. Len(s) |-> s[k].amount]
  <1>1. s \in Seq(Payment)
    BY DEF Payment, Credits
  <1>2. 1 .. Len(s) = {1} /\ f[1] = amount
    OBVIOUS
  <1> HIDE DEF f
  <1>3. Sum(f, {1}) = amount
    BY <1>2, SumSingle
  <1>4. TotalOf(s) = amount
    BY <1>2, <1>3 DEF TotalOf, f
  <1>5. TotalOf(<<>>) = 0
    <2>1. 1 .. Len(<<>>) = {}
      OBVIOUS
    <2> QED
      BY <2>1, SumEmpty DEF TotalOf
  <1> QED
    BY <1>1, <1>4, <1>5
-----------------------------------------------------------------------------
(* The shares of a reward and what they leave are the reward. *)
LEMMA SharesTotal ==
  ASSUME NEW p \in Proposers, NEW reward \in Nat
  PROVE  TotalOf(AfterShares(p, reward).paid) * DecimalUnit + AfterShares(p, reward).left
           = reward
  <1> DEFINE n == Len(Shares[p])
             Documents == [payTo : Identities, percentage : 0 .. PercentUnit]
             Kept(acc) == TotalOf(acc.paid) * DecimalUnit + acc.left = reward
  <1>1. Shares[p] \in Seq(Documents) /\ n \in Nat
    <2>1. Shares \in [Proposers -> Seq(Documents)]
      BY SharesAssumption
    <2> HIDE DEF Documents
    <2> QED
      BY <2>1, LenProperties
  <1>2. PICK run \in [0 .. n -> ShareAcc] :
          /\ run[0] = [left |-> reward, paid |-> <<>>]
          /\ run[n] = AfterShares(p, reward)
          /\ \A k \in 1 .. n : run[k] = ShareOf(run[k - 1], Shares[p][k])
    BY SharesRun, Zenon
  <1>3. \A k \in 1 .. n : Shares[p][k] \in Documents
    <2> HIDE DEF Documents
    <2> QED
      BY <1>1, ElementOfSeq
  <1> HIDE DEF n
  <1>4. ASSUME NEW acc \in ShareAcc, Kept(acc), NEW share \in Documents
        PROVE  Kept(ShareOf(acc, share))
    <2> DEFINE part == (acc.left * share.percentage) \div (PercentUnit * DecimalUnit)
               one == <<[id |-> share.payTo, amount |-> part]>>
               after == ShareOf(acc, share)
    <2>1. acc.left \in Nat /\ acc.paid \in Seq(Payment) /\ DecimalUnit \in Nat \ {0}
          /\ share.payTo \in Identities /\ share.percentage \in 0 .. PercentUnit
      BY PayoutAssumption DEF ShareAcc
    <2>2. part \in Nat /\ acc.left - part * DecimalUnit \in Nat
      BY <2>1, ShareWithinReward
    <2>3. after.paid = Append(acc.paid, [id |-> share.payTo, amount |-> part])
          /\ after.left = acc.left - part * DecimalUnit
      BY DEF ShareOf
    <2> HIDE DEF part, after
    <2>4. one \in Seq(Payment) /\ TotalOf(one) = part
      BY <2>1, <2>2, TotalOfOne
    <2>5. after.paid = acc.paid \o one
      BY <2>1, <2>3
    <2>6. TotalOf(after.paid) = TotalOf(acc.paid) + part /\ TotalOf(acc.paid) \in Nat
      <3> HIDE DEF one
      <3> QED
        BY <2>1, <2>4, <2>5, TotalConcat, TotalType
    <2>7. (TotalOf(acc.paid) + part) * DecimalUnit
            = TotalOf(acc.paid) * DecimalUnit + part * DecimalUnit
      BY <2>1, <2>2, <2>6, Z3
    <2>8. TotalOf(acc.paid) * DecimalUnit \in Nat /\ part * DecimalUnit \in Nat
      BY <2>1, <2>2, <2>6, Z3
    <2>9. TotalOf(after.paid) * DecimalUnit + after.left
            = TotalOf(acc.paid) * DecimalUnit + acc.left
      BY <2>1, <2>3, <2>6, <2>7, <2>8
    <2> QED
      BY <1>4, <2>9 DEF after
  <1> HIDE DEF Documents
  <1> DEFINE Good == {k \in 0 .. n : Kept(run[k])}
  <1>5. 0 \in Good
    <2>1. TotalOf(<<>>) = 0
      <3>1. p \in Identities
        BY ProposersAssumption
      <3> QED
        BY <3>1, TotalOfOne
    <2>2. 0 * DecimalUnit + reward = reward /\ 0 \in 0 .. n
      BY <1>1, PayoutAssumption
    <2> QED
      BY <1>2, <2>1, <2>2
  <1>6. ASSUME NEW k \in 0 .. n - 1, k \in Good
        PROVE  k + 1 \in Good
    <2>1. k + 1 \in 1 .. n /\ k + 1 \in 0 .. n /\ (k + 1) - 1 = k /\ k \in 0 .. n
      BY <1>1
    <2>2. run[k] \in ShareAcc /\ Kept(run[k]) /\ Shares[p][k + 1] \in Documents
          /\ run[k + 1] = ShareOf(run[k], Shares[p][k + 1])
      BY <1>2, <1>3, <1>6, <2>1
    <2> HIDE DEF Kept
    <2>3. Kept(run[k + 1])
      BY <1>4, <2>2
    <2> QED
      BY <2>1, <2>3
  <1> HIDE DEF Good
  <1>7. \A k \in 0 .. n : k \in Good
    <2>1. \A k \in 0 .. n - 1 : k \in Good => k + 1 \in Good
      BY <1>6
    <2> QED
      BY <1>1, <1>5, <2>1, SegmentInduction, Zenon
  <1>8. Kept(run[n])
    BY <1>1, <1>7 DEF Good
  <1> QED
    BY <1>2, <1>8

(* A number is its quotient and its remainder. *)
LEMMA DivSplit ==
  ASSUME NEW a \in Nat, NEW k \in Nat \ {0}
  PROVE  a \div k \in Nat /\ a % k \in 0 .. k - 1 /\ (a \div k) * k + (a % k) = a
  BY Z3

(* What the payout adds for a proposer is its reward: what is not paid is   *)
(* in the fraction carried on.                                              *)
LEMMA PayOfTotal ==
  ASSUME NEW d \in Databases, Payable(d), NEW blocks \in Nat \ {0}, NEW p \in Proposers,
         NEW isLast \in BOOLEAN, NEW acc \in PayAcc
  PROVE  LET next == PayOf(d, blocks, isLast, acc, p)
         IN  /\ next \in PayAcc
             /\ TotalOf(next.paid) * DecimalUnit
                  + (IF isLast THEN next.fraction % DecimalUnit ELSE next.fraction)
                = TotalOf(acc.paid) * DecimalUnit + acc.fraction + RewardOf(d, blocks, p)
  <1> DEFINE next == PayOf(d, blocks, isLast, acc, p)
             reward == RewardOf(d, blocks, p)
             shared == AfterShares(p, reward)
             whole == shared.left \div DecimalUnit
             fraction == acc.fraction + (shared.left % DecimalUnit)
             given == IF isLast THEN whole + fraction \div DecimalUnit ELSE whole
             one == <<[id |-> p, amount |-> given]>>
  <1>1. reward \in Nat /\ next \in PayAcc
    BY RewardOfType, PayOfType
  <1>2. shared \in ShareAcc /\ TotalOf(shared.paid) * DecimalUnit + shared.left = reward
    BY <1>1, AfterSharesType, SharesTotal
  <1>3. next.fraction = fraction /\ next.paid = acc.paid \o shared.paid \o one
    BY DEF PayOf
  <1> HIDE DEF shared, reward, next
  <1>4. shared.left \in Nat /\ shared.paid \in Seq(Payment)
        /\ acc.fraction \in Nat /\ acc.paid \in Seq(Payment) /\ DecimalUnit \in Nat \ {0}
        /\ p \in Identities
    BY <1>2, PayoutAssumption, ProposersAssumption DEF ShareAcc, PayAcc
  <1>5. /\ whole \in Nat /\ fraction \in Nat
        /\ whole * DecimalUnit + fraction = shared.left + acc.fraction
    <2> DEFINE part == shared.left % DecimalUnit
    <2>1. whole \in Nat /\ part \in 0 .. DecimalUnit - 1
          /\ whole * DecimalUnit + part = shared.left
      BY <1>4, DivSplit, Zenon
    <2>2. fraction = acc.fraction + part
      OBVIOUS
    <2> HIDE DEF whole, part, fraction
    <2>3. whole * DecimalUnit \in Nat /\ part \in Nat
      BY <1>4, <2>1, Z3
    <2> DEFINE product == whole * DecimalUnit
    <2>4. product \in Nat /\ product + part = shared.left
      BY <2>1, <2>3
    <2> HIDE DEF product
    <2>5. fraction \in Nat /\ product + fraction = shared.left + acc.fraction
      BY <1>4, <2>2, <2>3, <2>4
    <2> QED
      BY <2>1, <2>5 DEF product
  <1> HIDE DEF whole, fraction
  <1>6. /\ given \in Nat
        /\ given * DecimalUnit + (IF isLast THEN fraction % DecimalUnit ELSE fraction)
             = whole * DecimalUnit + fraction
    <2> DEFINE carry == fraction \div DecimalUnit
    <2>1. /\ carry \in Nat /\ fraction % DecimalUnit \in Nat
          /\ carry * DecimalUnit + (fraction % DecimalUnit) = fraction
      BY <1>4, <1>5, Z3
    <2> HIDE DEF carry
    <2>2. CASE isLast
      <3>1. given = whole + carry
        BY <2>2 DEF carry
      <3> HIDE DEF given
      <3>2. given * DecimalUnit = whole * DecimalUnit + carry * DecimalUnit
        BY <1>4, <1>5, <2>1, <3>1, Z3
      <3>3. whole * DecimalUnit \in Nat /\ carry * DecimalUnit \in Nat
        BY <1>4, <1>5, <2>1, Z3
      <3> QED
        BY <1>5, <2>1, <2>2, <3>1, <3>2, <3>3
    <2>3. CASE ~isLast
      BY <1>5, <2>3
    <2> QED
      BY <2>2, <2>3
  <1> HIDE DEF given
  <1>7. one \in Seq(Payment) /\ TotalOf(one) = given
    BY <1>4, <1>6, TotalOfOne
  <1> HIDE DEF one
  <1>8. TotalOf(next.paid) = TotalOf(acc.paid) + TotalOf(shared.paid) + given
    <2>1. acc.paid \o shared.paid \in Seq(Payment)
      BY <1>4
    <2>2. TotalOf(acc.paid \o shared.paid) = TotalOf(acc.paid) + TotalOf(shared.paid)
      BY <1>4, TotalConcat
    <2> QED
      BY <1>3, <1>7, <2>1, <2>2, TotalConcat
  <1>9. TotalOf(acc.paid) \in Nat /\ TotalOf(shared.paid) \in Nat
    BY <1>4, TotalType
  <1>10. TotalOf(next.paid) * DecimalUnit
           = TotalOf(acc.paid) * DecimalUnit + TotalOf(shared.paid) * DecimalUnit
               + given * DecimalUnit
    BY <1>4, <1>6, <1>8, <1>9, Z3
  <1>11. /\ TotalOf(acc.paid) * DecimalUnit \in Nat
         /\ TotalOf(shared.paid) * DecimalUnit \in Nat
         /\ given * DecimalUnit \in Nat /\ whole * DecimalUnit \in Nat
    BY <1>4, <1>5, <1>6, <1>9, Z3
  <1> DEFINE rest == IF isLast THEN fraction % DecimalUnit ELSE fraction
  <1>12. rest \in Nat /\ (IF isLast THEN next.fraction % DecimalUnit ELSE next.fraction) = rest
    <2>1. fraction % DecimalUnit \in Nat
      BY <1>4, <1>5, DivSplit
    <2> QED
      BY <1>3, <1>5, <2>1
  <1>13. given * DecimalUnit + rest = whole * DecimalUnit + fraction
    BY <1>6
  <1> HIDE DEF rest
  <1>14. TotalOf(next.paid) * DecimalUnit + rest
           = TotalOf(acc.paid) * DecimalUnit + acc.fraction + reward
    <2> DEFINE N == TotalOf(next.paid) * DecimalUnit
               A == TotalOf(acc.paid) * DecimalUnit
               S == TotalOf(shared.paid) * DecimalUnit
               G == given * DecimalUnit
               W == whole * DecimalUnit
    <2>1. /\ N = A + S + G /\ G + rest = W + fraction /\ S + shared.left = reward
          /\ W + fraction = shared.left + acc.fraction
          /\ A \in Nat /\ S \in Nat /\ G \in Nat /\ W \in Nat
      BY <1>2, <1>5, <1>10, <1>11, <1>13
    <2>2. /\ rest \in Nat /\ reward \in Nat /\ fraction \in Nat
          /\ shared.left \in Nat /\ acc.fraction \in Nat
      BY <1>1, <1>4, <1>5, <1>12
    <2> HIDE DEF N, A, S, G, W
    <2>3. N + rest = A + acc.fraction + reward
      BY <2>1, <2>2
    <2> QED
      BY <2>3 DEF N, A
  <1> QED
    BY <1>1, <1>12, <1>14 DEF next, reward

(* The credits a block pays are the rewards of its chunk, less a fraction.  *)
LEMMA PaymentsTotal ==
  ASSUME NEW d \in Databases, NEW info, NEW height, Payable(d),
         NEW blocks \in Nat \ {0}, blocks = BlocksToPay(d, info, height),
         NEW rewards, rewards = [p \in Proposers |-> RewardOf(d, blocks, p)]
  PROVE  /\ Payments(d, info, height) \in Seq(Payment)
         /\ \E rest \in 0 .. DecimalUnit - 1 :
              TotalOf(Payments(d, info, height)) * DecimalUnit + rest
                = Sum(rewards, PaidChunk(d, info))
  <1> DEFINE Chunk == PaidChunk(d, info)
             order == KeyOrder(Chunk)
             n == Cardinality(Chunk)
             base == [fraction |-> 0, paid |-> <<>>]
             Covered(k) == {order[i] : i \in 1 .. k}
  <1>1. Chunk \in SUBSET Proposers /\ Chunk \in SUBSET Nat /\ IsFiniteSet(Chunk)
    <2>1. Chunk \in SUBSET Proposers
      BY DEF PaidChunk, UnpaidProposers
    <2> QED
      BY <2>1, ProposersAssumption, FS_Subset
  <1>2. /\ n \in Nat /\ order \in [1 .. n -> Chunk]
        /\ \A p \in Chunk : \E k \in 1 .. n : order[k] = p
        /\ \A j, k \in 1 .. n : order[j] = order[k] => j = k
    BY <1>1, KeyOrderListsAll, Zenon
  <1>3. PICK run \in [0 .. n -> PayAcc] :
          /\ run[0] = base
          /\ run[n].paid = Payments(d, info, height)
          /\ \A k \in 1 .. n :
               run[k] = PayOf(d, blocks, order[k] = order[n], run[k - 1], order[k])
    BY PaymentsRun
  <1> HIDE DEF Chunk, order, n
  <1>4. Payments(d, info, height) \in Seq(Payment)
    BY PaymentsType
  <1>5. \A p \in Proposers : rewards[p] = RewardOf(d, blocks, p) /\ rewards[p] \in Nat
    BY RewardOfType
  <1>6. \A k \in 0 .. n : /\ Covered(k) \in SUBSET Proposers /\ IsFiniteSet(Covered(k))
                          /\ Sum(rewards, Covered(k)) \in Nat
    <2> TAKE k \in 0 .. n
    <2>0. \A i \in 1 .. k : i \in 1 .. n
      BY <1>2
    <2>1. \A i \in 1 .. k : order[i] \in Proposers
      <3>1. \A i \in 1 .. n : order[i] \in Chunk
        BY <1>2
      <3> QED
        BY <1>1, <2>0, <3>1
    <2>2. Covered(k) \in SUBSET Proposers
      BY <2>1
    <2> HIDE DEF Covered
    <2>3. IsFiniteSet(Covered(k))
      BY <2>2, ProposersAssumption, FS_Subset
    <2>4. \A p \in Covered(k) : rewards[p] \in Nat
      BY <1>5, <2>2
    <2> QED
      BY <2>2, <2>3, <2>4, SumNat
  <1>7. Covered(n) = Chunk
    <2>1. \A i \in 1 .. n : order[i] \in Chunk
      BY <1>2
    <2> QED
      BY <1>2, <2>1
  <1> DEFINE rest(k) == IF k = n THEN run[k].fraction % DecimalUnit ELSE run[k].fraction
             Good == {k \in 0 .. n : TotalOf(run[k].paid) * DecimalUnit + rest(k)
                                       = Sum(rewards, Covered(k))}
  <1>8. 0 \in Good
    <2>1. 0 \in 0 .. n /\ run[0].fraction = 0 /\ run[0].paid = <<>>
      BY <1>2, <1>3
    <2>2. TotalOf(<<>>) = 0
      <3>1. 1 .. Len(<<>>) = {}
        OBVIOUS
      <3> QED
        BY <3>1, SumEmpty DEF TotalOf
    <2>3. DecimalUnit \in Nat \ {0}
      BY PayoutAssumption
    <2>4. rest(0) = 0
      <3>1. 0 % DecimalUnit = 0
        BY <2>3, Z3
      <3> QED
        BY <2>1, <3>1, Zenon
    <2>5. Sum(rewards, Covered(0)) = 0
      <3>1. Covered(0) = {}
        OBVIOUS
      <3> QED
        BY <3>1, SumEmpty
    <2>6. TotalOf(run[0].paid) * DecimalUnit + rest(0) = 0
      <3> HIDE DEF rest
      <3>1. 0 * DecimalUnit + 0 = 0
        BY <2>3
      <3> QED
        BY <2>1, <2>2, <2>4, <3>1
    <2> HIDE DEF rest
    <2> QED
      BY <2>1, <2>5, <2>6
  <1>9. ASSUME NEW k \in 0 .. n - 1, k \in Good
        PROVE  k + 1 \in Good
    <2> DEFINE p == order[k + 1]
               last == order[k + 1] = order[n]
    <2>1. k \in Nat /\ k + 1 \in 1 .. n /\ k + 1 \in 0 .. n /\ (k + 1) - 1 = k /\ k \in 0 .. n
          /\ k # n /\ n \in 1 .. n
      BY <1>2
    <2>2. p \in Proposers /\ run[k] \in PayAcc /\ last \in BOOLEAN
          /\ run[k + 1] = PayOf(d, blocks, last, run[k], p)
          /\ (last <=> k + 1 = n)
      <3>1. p \in Proposers /\ run[k] \in PayAcc
        BY <1>1, <1>2, <1>3, <2>1
      <3>2. run[k + 1] = PayOf(d, blocks, last, run[k], p)
        BY <1>3, <2>1
      <3>3. last <=> k + 1 = n
        BY <1>2, <2>1
      <3> QED
        BY <3>1, <3>2, <3>3
    <2> HIDE DEF last
    <2>3. rest(k) = run[k].fraction
      BY <2>1
    <2>4. rest(k + 1) = IF last THEN run[k + 1].fraction % DecimalUnit ELSE run[k + 1].fraction
      BY <2>2, Zenon
    <2>5. TotalOf(run[k + 1].paid) * DecimalUnit + rest(k + 1)
            = TotalOf(run[k].paid) * DecimalUnit + run[k].fraction + RewardOf(d, blocks, p)
      <3> HIDE DEF rest, p
      <3> QED
        BY <2>2, <2>4, PayOfTotal
    <2>6. Sum(rewards, Covered(k + 1)) = RewardOf(d, blocks, p) + Sum(rewards, Covered(k))
      <3>1. Covered(k + 1) = Covered(k) \cup {p}
        <4>1. \A i \in 1 .. k + 1 : i \in 1 .. k \/ i = k + 1
          BY <2>1
        <4>2. \A i \in 1 .. k : i \in 1 .. k + 1
          BY <2>1
        <4>3. k + 1 \in 1 .. k + 1
          BY <2>1
        <4> QED
          BY <4>1, <4>2, <4>3, Zenon
      <3>2. p \notin Covered(k)
        <4>1. \A i \in 1 .. k : i \in 1 .. n /\ i # k + 1
          BY <2>1
        <4> QED
          BY <1>2, <2>1, <4>1
      <3>3. \A q \in Covered(k) \cup {p} : rewards[q] \in Int
        <4>1. \A q \in Covered(k) : q \in Proposers
          BY <1>6, <2>1, Zenon
        <4> HIDE DEF Covered, p
        <4>2. \A q \in Covered(k) \cup {p} : q \in Proposers
          BY <2>2, <4>1
        <4> QED
          BY <1>5, <4>2
      <3>4. IsFiniteSet(Covered(k)) /\ rewards[p] = RewardOf(d, blocks, p)
        BY <1>5, <1>6, <2>1, <2>2
      <3> HIDE DEF Covered, p
      <3> QED
        BY <3>1, <3>2, <3>3, <3>4, SumAddElement
    <2>7. TotalOf(run[k].paid) * DecimalUnit + run[k].fraction = Sum(rewards, Covered(k))
      BY <1>9, <2>3
    <2>8. TotalOf(run[k + 1].paid) * DecimalUnit + rest(k + 1) = Sum(rewards, Covered(k + 1))
      <3>1. RewardOf(d, blocks, p) \in Nat /\ Sum(rewards, Covered(k)) \in Nat
        BY <1>5, <1>6, <2>1, <2>2
      <3> DEFINE R == RewardOf(d, blocks, p)
                 T == Sum(rewards, Covered(k))
      <3>2. T + R = R + T
        <4> HIDE DEF R, T
        <4>1. R \in Nat /\ T \in Nat
          BY <3>1 DEF R, T
        <4> QED
          BY <4>1
      <3> HIDE DEF rest
      <3> QED
        BY <2>5, <2>6, <2>7, <3>2, Zenon
    <2> HIDE DEF rest, Covered
    <2> QED
      BY <2>1, <2>8
  <1> HIDE DEF Good
  <1>10. \A k \in 0 .. n : k \in Good
    <2>1. \A k \in 0 .. n - 1 : k \in Good => k + 1 \in Good
      BY <1>9
    <2> QED
      BY <1>2, <1>8, <2>1, SegmentInduction, Zenon
  <1>11. TotalOf(run[n].paid) * DecimalUnit + (run[n].fraction % DecimalUnit)
           = Sum(rewards, Covered(n))
    <2>1. n \in 0 .. n
      BY <1>2
    <2> QED
      BY <1>10, <2>1, Zenon DEF Good
  <1>12. run[n].fraction % DecimalUnit \in 0 .. DecimalUnit - 1
    <2>1. run[n].fraction \in Nat /\ DecimalUnit \in Nat \ {0}
      BY <1>2, <1>3, PayoutAssumption DEF PayAcc
    <2> QED
      BY <2>1, DivSplit, Zenon
  <1> QED
    BY <1>3, <1>4, <1>7, <1>11, <1>12, Zenon DEF Chunk
-----------------------------------------------------------------------------
(* The nearest decimal is less than a unit of the decimals off. *)
LEMMA RoundBounds ==
  ASSUME NEW a \in Nat, NEW b \in Nat \ {0}
  PROVE  /\ (2 * b) * DecimalDiv(a, b) <= (2 * DecimalUnit) * a + b
         /\ (2 * b) * DecimalDiv(a, b) >= (2 * DecimalUnit) * a - b
  <1> DEFINE N == 2 * a * DecimalUnit + b
             q == DecimalDiv(a, b)
             rest == N % (2 * b)
  <1>1. N \in Nat /\ 2 * b \in Nat \ {0} /\ (2 * DecimalUnit) * a \in Nat
        /\ N = (2 * DecimalUnit) * a + b
    BY PayoutAssumption, Z3
  <1>2. q \in Nat /\ rest \in 0 .. (2 * b) - 1 /\ q * (2 * b) + rest = N
    BY <1>1, DivSplit, Zenon DEF DecimalDiv
  <1> HIDE DEF N, q, rest
  <1>3. q * (2 * b) = (2 * b) * q /\ (2 * b) * q \in Nat
    BY <1>1, <1>2, Z3
  <1> DEFINE A == (2 * DecimalUnit) * a
             Q == (2 * b) * q
  <1>4. Q \in Nat /\ A \in Nat /\ Q + rest = A + b /\ rest \in 0 .. (2 * b) - 1
    BY <1>1, <1>2, <1>3
  <1> HIDE DEF A, Q
  <1>5. Q <= A + b /\ Q >= A - b
    BY <1>4
  <1> QED
    BY <1>5 DEF A, Q, q

LEMMA CancelFactor ==
  ASSUME NEW x \in Int, NEW y \in Int, NEW k \in Nat \ {0}, k * x < k * y + k
  PROVE  x <= y
  BY Z3

(* The rewards of a set of proposers are the set's part of the credits, but *)
(* for half a unit of the decimals each.                                    *)
LEMMA RewardsBounds ==
  ASSUME NEW d \in Databases, Payable(d), NEW blocks \in Nat \ {0},
         NEW S \in SUBSET Proposers,
         NEW rewards, rewards = [p \in Proposers |-> RewardOf(d, blocks, p)]
  PROVE  LET counted == Sum(d.blockCount[d.unpaidEpoch], S)
             total   == Sum(rewards, S)
         IN  /\ counted \in Nat /\ total \in Nat
             /\ (2 * blocks) * total
                  <= (2 * DecimalUnit) * (TotalCredits(d) * counted) + blocks * Cardinality(S)
             /\ (2 * blocks) * total
                  >= (2 * DecimalUnit) * (TotalCredits(d) * counted) - blocks * Cardinality(S)
  <1> DEFINE counts == d.blockCount[d.unpaidEpoch]
             C == TotalCredits(d)
             counted == Sum(counts, S)
             total == Sum(rewards, S)
             unit == 2 * DecimalUnit
             twice == 2 * blocks
             credits == [p \in S |-> C * counts[p]]
             half == [p \in S |-> blocks]
             down == [p \in S |-> -blocks]
             scaled == [p \in S |-> twice * rewards[p]]
             above == [p \in S |-> unit * credits[p] + half[p]]
             below == [p \in S |-> unit * credits[p] + down[p]]
  <1>1. IsFiniteSet(S) /\ Cardinality(S) \in Nat
    BY ProposersAssumption, FS_Subset, FS_CardinalityType
  <1>2. C \in Nat /\ counts \in [Proposers -> Nat] /\ unit \in Nat \ {0} /\ twice \in Nat \ {0}
    BY PayableTypes, PayoutAssumption
  <1>3. \A p \in S : rewards[p] \in Nat /\ counts[p] \in Nat
    <2> TAKE p \in S
    <2>1. p \in Proposers
      OBVIOUS
    <2> QED
      BY <1>2, <2>1, RewardOfType
  <1>4. counted \in Nat /\ total \in Nat
    <2> HIDE DEF counts
    <2> QED
      BY <1>1, <1>3, SumNat
  <1>5. \A p \in S : /\ C * counts[p] \in Nat
                     /\ twice * rewards[p] <= unit * (C * counts[p]) + blocks
                     /\ twice * rewards[p] >= unit * (C * counts[p]) - blocks
    <2> TAKE p \in S
    <2>1. C * counts[p] \in Nat
      BY <1>2, <1>3, Z3
    <2>2. rewards[p] = DecimalDiv(C * counts[p], blocks)
      BY DEF RewardOf
    <2> HIDE DEF C, counts
    <2> QED
      BY <2>1, <2>2, RoundBounds
  <1> HIDE DEF C, counts, unit, twice
  <1>6. \A p \in S : /\ credits[p] = C * counts[p] /\ credits[p] \in Int
                     /\ half[p] = blocks /\ down[p] = -blocks
                     /\ scaled[p] = twice * rewards[p] /\ scaled[p] \in Int
                     /\ above[p] = unit * credits[p] + half[p] /\ above[p] \in Int
                     /\ below[p] = unit * credits[p] + down[p] /\ below[p] \in Int
    <2> TAKE p \in S
    <2>1. C * counts[p] \in Nat
      BY <1>5
    <2>2. twice * rewards[p] \in Int
      BY <1>2, <1>3, Z3
    <2>3. unit * (C * counts[p]) \in Int
      BY <1>2, <2>1, Z3
    <2> QED
      BY <2>1, <2>2, <2>3
  <1> HIDE DEF credits, half, down, scaled, above, below
  <1>7. Sum(credits, S) = C * counted
    <2>1. \A p \in S : counts[p] \in Int /\ credits[p] = C * counts[p]
      BY <1>3, <1>6
    <2>2. C \in Int
      BY <1>2
    <2> QED
      BY <1>1, <2>1, <2>2, SumScaled, Zenon
  <1>8. Sum(scaled, S) = twice * total
    <2>1. \A p \in S : rewards[p] \in Int /\ scaled[p] = twice * rewards[p]
      BY <1>3, <1>6
    <2>2. twice \in Int
      BY <1>2
    <2> QED
      BY <1>1, <2>1, <2>2, SumScaled, Zenon
  <1>9. Sum(above, S) = unit * (C * counted) + blocks * Cardinality(S)
    <2>1. Sum(half, S) = blocks * Cardinality(S)
      <3>1. blocks \in Int /\ \A p \in S : half[p] = blocks
        BY <1>6
      <3> QED
        BY <1>1, <3>1, SumConstant, Zenon
    <2>2. Linear(above, unit, credits, half, S)
      BY <1>6 DEF Linear
    <2>3. Sum(above, S) = unit * Sum(credits, S) + Sum(half, S)
      <3>1. unit \in Int
        BY <1>2
      <3> QED
        BY <1>1, <2>2, <3>1, SumLinear
    <2> QED
      BY <1>7, <2>1, <2>3
  <1>10. Sum(below, S) = unit * (C * counted) + (-blocks) * Cardinality(S)
    <2>1. Sum(down, S) = (-blocks) * Cardinality(S)
      <3>1. -blocks \in Int
        OBVIOUS
      <3>2. \A p \in S : down[p] = -blocks
        BY <1>6, Zenon
      <3> QED
        BY <1>1, <3>1, <3>2, SumConstant, Zenon
    <2>2. Linear(below, unit, credits, down, S)
      BY <1>6 DEF Linear
    <2>3. Sum(below, S) = unit * Sum(credits, S) + Sum(down, S)
      <3>1. unit \in Int
        BY <1>2
      <3> QED
        BY <1>1, <2>2, <3>1, SumLinear
    <2> QED
      BY <1>7, <2>1, <2>3
  <1>11. Sum(below, S) <= Sum(scaled, S) /\ Sum(scaled, S) <= Sum(above, S)
    <2>1. \A p \in S : /\ scaled[p] \in Int /\ above[p] \in Int /\ below[p] \in Int
                       /\ below[p] <= scaled[p] /\ scaled[p] <= above[p]
      <3> TAKE p \in S
      <3> DEFINE credit == unit * (C * counts[p])
      <3>1. credit \in Int
        <4>1. C * counts[p] \in Nat
          BY <1>5
        <4> QED
          BY <1>2, <4>1, Z3
      <3>2. /\ twice * rewards[p] <= credit + blocks /\ twice * rewards[p] >= credit - blocks
            /\ scaled[p] = twice * rewards[p] /\ scaled[p] \in Int
            /\ above[p] \in Int /\ below[p] \in Int
            /\ above[p] = credit + blocks /\ below[p] = credit + (-blocks)
        BY <1>5, <1>6
      <3> HIDE DEF credit
      <3> QED
        BY <3>1, <3>2
    <2>2. Sum(below, S) <= Sum(scaled, S)
      BY <1>1, <2>1, SumMonotone
    <2> QED
      BY <1>1, <2>1, <2>2, SumMonotone
  <1> DEFINE credit == unit * (C * counted)
             product == blocks * Cardinality(S)
  <1>12. credit \in Int /\ product \in Int /\ (-blocks) * Cardinality(S) = -product
    <2>1. C * counted \in Nat
      BY <1>2, <1>4, Z3
    <2> QED
      BY <1>1, <1>2, <2>1, Z3
  <1>13. /\ twice * total <= credit + product /\ twice * total >= credit - product
    <2>1. credit + product >= twice * total /\ credit + (-product) <= twice * total
      BY <1>8, <1>9, <1>10, <1>11, <1>12
    <2>2. twice * total \in Int
      BY <1>2, <1>4, Z3
    <2> HIDE DEF credit, product
    <2> DEFINE x == twice * total
    <2>3. x \in Int /\ credit + product >= x /\ credit + (-product) <= x
      BY <2>1, <2>2
    <2> HIDE DEF x
    <2>4. x <= credit + product /\ x >= credit - product
      BY <1>12, <2>3
    <2> QED
      BY <2>4 DEF x
  <1> QED
    BY <1>4, <1>13 DEF counts, C, unit, twice

(* A block pays no more than the credits its chunk has earned, and less by  *)
(* less than a credit, in units of one credit over the epoch's blocks.      *)
LEMMA PayoutBounds ==
  ASSUME NEW d \in Databases, NEW info, NEW height, Payable(d),
         NEW blocks \in Nat \ {0}, blocks = BlocksToPay(d, info, height), blocks <= MaxHeight
  PROVE  LET counted == Sum(d.blockCount[d.unpaidEpoch], PaidChunk(d, info))
             total   == TotalOf(Payments(d, info, height))
         IN  /\ counted \in Nat /\ total \in Nat
             /\ blocks * total <= TotalCredits(d) * counted
             /\ TotalCredits(d) * counted <= blocks * total + blocks
  <1> DEFINE Chunk == PaidChunk(d, info)
             counted == Sum(d.blockCount[d.unpaidEpoch], Chunk)
             total == TotalOf(Payments(d, info, height))
             C == TotalCredits(d)
             rewards == [p \in Proposers |-> RewardOf(d, blocks, p)]
             n == Cardinality(Chunk)
             all == Cardinality(Proposers)
             R == Sum(rewards, Chunk)
             unit == 2 * DecimalUnit
  <1>1. /\ Chunk \in SUBSET Proposers /\ IsFiniteSet(Chunk) /\ IsFiniteSet(Proposers)
        /\ n \in Nat /\ all \in Nat /\ n <= all
    <2>1. Chunk \in SUBSET Proposers
      BY DEF PaidChunk, UnpaidProposers
    <2> HIDE DEF Chunk
    <2> QED
      BY <2>1, ProposersAssumption, FS_Subset, FS_CardinalityType
  <1>2. C \in Nat /\ DecimalUnit \in Nat \ {0} /\ unit \in Nat \ {0} /\ MaxHeight \in Nat
    BY PayableTypes, PayoutAssumption, BoundsAssumption
  <1>3. PICK rest \in 0 .. DecimalUnit - 1 : total * DecimalUnit + rest = R
    BY PaymentsTotal
  <1>4. total \in Nat
    <2>1. Payments(d, info, height) \in Seq(Payment)
      BY PaymentsTotal
    <2> QED
      BY <2>1, TotalType
  <1>5. /\ counted \in Nat /\ R \in Nat
        /\ (2 * blocks) * R <= unit * (C * counted) + blocks * n
        /\ (2 * blocks) * R >= unit * (C * counted) - blocks * n
    <2> HIDE DEF Chunk
    <2> QED
      BY <1>1, RewardsBounds
  <1> HIDE DEF Chunk, counted, total, C, R, n, rewards, unit, all
  <1>6. blocks * n \in Nat /\ blocks * n < unit
    <2>1. blocks * n <= all * MaxHeight
      BY <1>1, <1>2, Z3
    <2>2. all * MaxHeight < unit
      BY PrecisionAssumption DEF all, unit
    <2>3. blocks * n \in Nat /\ all * MaxHeight \in Nat
      BY <1>1, <1>2, Z3
    <2> QED
      BY <1>2, <2>1, <2>2, <2>3
  <1> DEFINE earned == C * counted
             given == blocks * total
             small == (2 * blocks) * rest
  <1>7. earned \in Nat /\ given \in Nat /\ rest \in Nat /\ small \in Nat
    BY <1>2, <1>3, <1>4, <1>5, Z3
  <1>8. (2 * blocks) * R = unit * given + small
    <2>1. R = total * DecimalUnit + rest
      BY <1>3
    <2>2. (2 * blocks) * (total * DecimalUnit + rest)
            = (2 * DecimalUnit) * (blocks * total) + (2 * blocks) * rest
      BY <1>2, <1>4, <1>7, Z3
    <2> QED
      BY <2>1, <2>2 DEF unit
  <1>9. small <= unit * blocks
    <2>1. (2 * blocks) * rest <= (2 * DecimalUnit) * blocks
      BY <1>2, <1>3, Z3
    <2> QED
      BY <2>1 DEF unit
  <1> HIDE DEF earned, given, small
  <1> DEFINE error == blocks * n
             E == unit * earned
             G == unit * given
             L == unit * blocks
  <1>10. /\ E \in Nat /\ G \in Nat /\ L \in Nat /\ error \in Nat /\ error < unit
         /\ G + small <= E + error /\ G + small >= E - error
         /\ small \in Nat /\ small <= L
    <2>1. E \in Nat /\ G \in Nat /\ L \in Nat
      BY <1>2, <1>7, Z3
    <2>2. (2 * blocks) * R <= E + error /\ (2 * blocks) * R >= E - error
      BY <1>5 DEF earned
    <2> QED
      BY <1>6, <1>7, <1>8, <1>9, <2>1, <2>2
  <1>11. given <= earned
    <2>1. G < E + unit
      <3> HIDE DEF G, E, L, error
      <3> QED
        BY <1>2, <1>10
    <2> QED
      BY <1>2, <1>7, <2>1, CancelFactor
  <1>12. earned <= given + blocks
    <2>1. E < (G + L) + unit
      <3> HIDE DEF G, E, L, error
      <3> QED
        BY <1>2, <1>10
    <2>2. G + L = unit * (given + blocks)
      BY <1>2, <1>7, Z3
    <2>3. E < unit * (given + blocks) + unit /\ given + blocks \in Int /\ earned \in Int
      BY <1>7, <2>1, <2>2
    <2> QED
      BY <1>2, <2>3, CancelFactor
  <1> QED
    BY <1>4, <1>5, <1>11, <1>12 DEF earned, given, counted, total, C, Chunk
-----------------------------------------------------------------------------
(* The payments to identity i among the first k. *)
Writes(payments, k, i) == {j \in 1 .. k : payments[j].id = i}

(* What they add to the balances: the last one to an identity counts. *)
GainUpTo(payments, k) ==
  [i \in Identities |-> IF Writes(payments, k, i) = {} THEN 0
                        ELSE payments[Max(Writes(payments, k, i))].amount]

DistinctIds(payments) ==
  \A j, k \in 1 .. Len(payments) : payments[j].id = payments[k].id => j = k

(* One payment more replaces what its identity gained before. *)
LEMMA GainOfOneMore ==
  ASSUME NEW payments \in Seq(Payment), NEW k \in 0 .. Len(payments) - 1, NEW i \in Identities
  PROVE  GainUpTo(payments, k + 1)[i] = IF payments[k + 1].id = i THEN payments[k + 1].amount
                                        ELSE GainUpTo(payments, k)[i]
  <1> DEFINE T == Writes(payments, k + 1, i)
  <1>1. k \in Nat /\ k + 1 \in 1 .. k + 1
    OBVIOUS
  <1>2. CASE payments[k + 1].id = i
    <2>1. k + 1 \in T /\ T \in SUBSET (1 .. k + 1)
      BY <1>1, <1>2 DEF Writes
    <2>2. \A x, y \in T : (\A z \in T : x >= z) /\ (\A z \in T : y >= z) => x = y
      <3>1. \A x \in T : x \in Int
        BY <2>1
      <3> HIDE DEF T
      <3> QED
        BY <3>1
    <2>3. \A z \in T : k + 1 >= z
      BY <2>1
    <2>4. Max(T) \in T /\ \A z \in T : Max(T) >= z
      <3> HIDE DEF T
      <3>1. \E x \in T : \A z \in T : x >= z
        BY <2>1, <2>3
      <3> QED
        BY <3>1, Zenon DEF Max
    <2>5. Max(T) = k + 1
      <3> HIDE DEF T
      <3> QED
        BY <2>1, <2>2, <2>3, <2>4
    <2>6. T # {}
      BY <2>1
    <2> HIDE DEF T
    <2> QED
      BY <1>2, <2>5, <2>6 DEF GainUpTo, T
  <1>3. CASE payments[k + 1].id # i
    <2>1. T = Writes(payments, k, i)
      <3>1. \A j \in 1 .. k + 1 : j \in 1 .. k \/ j = k + 1
        BY <1>1
      <3>2. \A j \in 1 .. k : j \in 1 .. k + 1
        BY <1>1
      <3> QED
        BY <1>3, <3>1, <3>2 DEF Writes
    <2> QED
      BY <1>3, <2>1 DEF GainUpTo
  <1> QED
    BY <1>2, <1>3

(* The balances gain no more than the payments, and all of them when every  *)
(* payment is to another identity.                                          *)
LEMMA GainWithinTotal ==
  ASSUME NEW payments \in Seq(Payment)
  PROVE  LET gain == GainUpTo(payments, Len(payments))
         IN  /\ gain \in [Identities -> Nat] /\ Sum(gain, Identities) \in Nat
             /\ Sum(gain, Identities) <= TotalOf(payments)
             /\ DistinctIds(payments) => Sum(gain, Identities) = TotalOf(payments)
  <1> DEFINE n == Len(payments)
             amounts == [k \in 1 .. n |-> payments[k].amount]
             gained(k) == Sum(GainUpTo(payments, k), Identities)
             paid(k) == Sum(amounts, 1 .. k)
             Good == {k \in 0 .. n :
                        /\ GainUpTo(payments, k) \in [Identities -> Nat]
                        /\ gained(k) <= paid(k)
                        /\ DistinctIds(payments) => gained(k) = paid(k)}
  <1>1. n \in Nat /\ IsFiniteSet(Identities) /\ Cardinality(Identities) \in Nat
    BY ProposersAssumption, FS_CardinalityType
  <1>2. \A k \in 1 .. n : payments[k].id \in Identities /\ payments[k].amount \in Nat
                          /\ amounts[k] = payments[k].amount
    <2> TAKE k \in 1 .. n
    <2>1. payments[k] \in Payment
      BY ElementOfSeq
    <2> QED
      BY <2>1 DEF Payment, Credits
  <1>3. TotalOf(payments) = paid(n)
    BY DEF TotalOf
  <1> HIDE DEF n, amounts
  <1>4. 0 \in Good
    <2>1. 1 .. 0 = {} /\ 0 \in 0 .. n
      BY <1>1
    <2>2. \A i \in Identities : GainUpTo(payments, 0)[i] = 0
      BY <2>1 DEF GainUpTo, Writes
    <2>3. GainUpTo(payments, 0) \in [Identities -> Nat]
      BY <2>2 DEF GainUpTo
    <2>4. gained(0) = 0
      <3>1. 0 \in Int
        OBVIOUS
      <3>2. gained(0) = 0 * Cardinality(Identities)
        BY <1>1, <2>2, <3>1, SumConstant, Zenon
      <3> QED
        BY <1>1, <3>2
    <2>5. paid(0) = 0
      BY <2>1, SumEmpty
    <2> QED
      BY <2>1, <2>3, <2>4, <2>5
  <1>5. ASSUME NEW k \in 0 .. n - 1, k \in Good
        PROVE  k + 1 \in Good
    <2> DEFINE i == payments[k + 1].id
               amount == payments[k + 1].amount
               f == GainUpTo(payments, k)
               g == GainUpTo(payments, k + 1)
    <2>1. k \in Nat /\ k + 1 \in 1 .. n /\ k + 1 \in 0 .. n /\ k \in 0 .. Len(payments) - 1
      BY <1>1 DEF n
    <2>2. i \in Identities /\ amount \in Nat /\ amounts[k + 1] = amount
      BY <1>2, <2>1
    <2>3. f \in [Identities -> Nat] /\ gained(k) <= paid(k)
          /\ (DistinctIds(payments) => gained(k) = paid(k))
      BY <1>5
    <2>4. \A x \in Identities : g[x] = IF i = x THEN amount ELSE f[x]
      <3> TAKE x \in Identities
      <3> QED
        BY <2>1, GainOfOneMore, Zenon
    <2>5. DistinctIds(payments) => f[i] = 0
      <3> SUFFICES ASSUME DistinctIds(payments) PROVE f[i] = 0
        OBVIOUS
      <3>1. Writes(payments, k, i) = {}
        <4>1. ASSUME NEW j \in 1 .. k, payments[j].id = i PROVE FALSE
          <5>1. j \in 1 .. Len(payments) /\ k + 1 \in 1 .. Len(payments) /\ j # k + 1
            BY <2>1, <1>1 DEF n
          <5> QED
            BY <4>1, <5>1 DEF DistinctIds
        <4> QED
          BY <4>1 DEF Writes
      <3> QED
        BY <2>2, <3>1 DEF GainUpTo
    <2>6. DOMAIN g = Identities /\ g = [x \in Identities |-> g[x]]
      BY DEF GainUpTo
    <2> HIDE DEF i, amount, f, g
    <2>7. g \in [Identities -> Nat]
      BY <2>2, <2>3, <2>4, <2>6
    <2>8. Sum(g, Identities) = Sum(f, Identities) - f[i] + g[i]
      <3>1. \A x \in Identities : f[x] \in Int /\ g[x] \in Int
        BY <2>3, <2>7
      <3>2. \A x \in Identities \ {i} : f[x] = g[x]
        BY <2>4
      <3> QED
        BY <1>1, <2>2, <3>1, <3>2, SumChange
    <2>9. paid(k + 1) = paid(k) + amount
      <3>1. \A j \in 1 .. k + 1 : amounts[j] \in Int
        <4> TAKE j \in 1 .. k + 1
        <4>1. j \in 1 .. n
          BY <1>1, <2>1
        <4> QED
          BY <1>2, <4>1
      <3> QED
        BY <2>1, <2>2, <3>1, SumSegment
    <2>10. gained(k) \in Int /\ paid(k) \in Int /\ f[i] \in Nat /\ g[i] = amount
      <3>1. gained(k) \in Int
        <4>1. \A x \in Identities : f[x] \in Int
          BY <2>3
        <4> QED
          BY <1>1, <4>1, SumInt DEF f
      <3>2. paid(k) \in Int
        <4>1. IsFiniteSet(1 .. k)
          BY <2>1, FS_Interval
        <4>2. \A j \in 1 .. k : amounts[j] \in Int
          <5> TAKE j \in 1 .. k
          <5>1. j \in 1 .. n
            BY <1>1, <2>1
          <5> QED
            BY <1>2, <5>1
        <4> QED
          BY <4>1, <4>2, SumInt
      <3> QED
        BY <2>2, <2>3, <2>4, <3>1, <3>2
    <2>11. gained(k + 1) = gained(k) - f[i] + amount
      BY <2>8, <2>10 DEF f, g
    <2> DEFINE x1 == gained(k + 1)
               x0 == gained(k)
               y1 == paid(k + 1)
               y0 == paid(k)
    <2> HIDE DEF x1, x0, y1, y0
    <2>12. /\ x1 <= y1
           /\ DistinctIds(payments) => x1 = y1
      BY <2>2, <2>3, <2>5, <2>9, <2>10, <2>11 DEF x1, x0, y1, y0
    <2> QED
      BY <2>1, <2>7, <2>12 DEF g, x1, y1
  <1> HIDE DEF Good
  <1>6. n \in Good
    <2>1. \A k \in 0 .. n - 1 : k \in Good => k + 1 \in Good
      BY <1>5
    <2>2. \A k \in 0 .. n : k \in Good
      BY <1>1, <1>4, <2>1, SegmentInduction, Zenon
    <2> QED
      BY <1>1, <2>2
  <1>7. GainUpTo(payments, n) \in [Identities -> Nat] /\ gained(n) <= paid(n)
        /\ (DistinctIds(payments) => gained(n) = paid(n))
    BY <1>6 DEF Good
  <1>8. gained(n) \in Nat
    <2>1. \A x \in Identities : GainUpTo(payments, n)[x] \in Nat
      BY <1>7
    <2> QED
      BY <1>1, <2>1, SumNat
  <1> QED
    BY <1>3, <1>7, <1>8 DEF n

Balances(d) == Sum(d.balance, Identities)

(* What a block adds to the balances is at most the payments, and all of    *)
(* them when every payment is to another identity.                          *)
LEMMA PaidBalances ==
  ASSUME NEW d \in Databases, NEW payments \in Seq(Payment),
         NEW after, after = PaidBalance(d, payments)
  PROVE  /\ Balances(d) \in Nat /\ Sum(after, Identities) \in Nat
         /\ Sum(after, Identities) <= Balances(d) + TotalOf(payments)
         /\ DistinctIds(payments) => Sum(after, Identities) = Balances(d) + TotalOf(payments)
  <1> DEFINE gain == GainUpTo(payments, Len(payments))
  <1>1. IsFiniteSet(Identities) /\ d.balance \in [Identities -> Nat]
    BY ProposersAssumption DEF Databases, Credits
  <1>2. /\ gain \in [Identities -> Nat] /\ Sum(gain, Identities) \in Nat
        /\ Sum(gain, Identities) <= TotalOf(payments)
        /\ DistinctIds(payments) => Sum(gain, Identities) = TotalOf(payments)
    BY GainWithinTotal
  <1>3. \A i \in Identities : after[i] = d.balance[i] + gain[i]
    <2> TAKE i \in Identities
    <2>1. DOMAIN payments = 1 .. Len(payments)
      OBVIOUS
    <2>2. after[i] = IF Writes(payments, Len(payments), i) = {} THEN d.balance[i]
                     ELSE d.balance[i] + payments[Max(Writes(payments, Len(payments), i))].amount
      BY <2>1 DEF PaidBalance, Writes
    <2>3. gain[i] = IF Writes(payments, Len(payments), i) = {} THEN 0
                    ELSE payments[Max(Writes(payments, Len(payments), i))].amount
      BY DEF GainUpTo
    <2>4. d.balance[i] \in Nat
      BY <1>1
    <2> QED
      BY <2>2, <2>3, <2>4
  <1> HIDE DEF gain
  <1>4. Sum(after, Identities) = Balances(d) + Sum(gain, Identities)
    <2>1. \A i \in Identities : /\ d.balance[i] \in Int /\ gain[i] \in Int
                                /\ after[i] = d.balance[i] + gain[i]
      BY <1>1, <1>2, <1>3
    <2> DEFINE f == d.balance
    <2> HIDE DEF f
    <2>2. AddsUp(after, f, gain, Identities)
      BY <2>1 DEF f, AddsUp
    <2>3. Sum(after, Identities) = Sum(f, Identities) + Sum(gain, Identities)
      BY <1>1, <2>2, SumAdded, Zenon
    <2> QED
      BY <2>3 DEF Balances, f
  <1>5. Balances(d) \in Nat
    <2>1. \A i \in Identities : d.balance[i] \in Nat
      BY <1>1
    <2> QED
      BY <1>1, <2>1, SumNat DEF Balances
  <1>6. TotalOf(payments) \in Nat
    BY TotalType
  <1> QED
    BY <1>2, <1>4, <1>5, <1>6
-----------------------------------------------------------------------------
LEMMA QuotientOf ==
  ASSUME NEW m \in Nat \ {0}, NEW y \in Nat, NEW r \in 0 .. m - 1, NEW a \in Nat, a = m * y + r
  PROVE  a \div m = y
  <1> DEFINE q == a \div m
             rest == a % m
  <1>1. q \in Nat /\ rest \in 0 .. m - 1 /\ q * m + rest = a
    BY DivSplit, Zenon
  <1> HIDE DEF q, rest
  <1>2. ~(q > y)
    <2> SUFFICES ASSUME q >= y + 1 PROVE FALSE
      BY <1>1
    <2>1. q * m >= m * y + m
      BY <1>1, Z3
    <2> QED
      BY <1>1, <2>1
  <1>3. ~(q < y)
    <2> SUFFICES ASSUME q + 1 <= y PROVE FALSE
      BY <1>1
    <2>1. q * m + m <= m * y
      BY <1>1, Z3
    <2> QED
      BY <1>1, <2>1
  <1>4. q = y
    BY <1>1, <1>2, <1>3
  <1> QED
    BY <1>4 DEF q

(* What a distribution adds to the storage pool of each epoch. *)
SpreadOver(pool, cur) ==
  [e \in EpochIndex |-> IF e \in DistributionWindow(cur)
                        THEN EpochFeeShare(pool, (e - cur) \div EpochsPerYear) ELSE 0]

(* All that leaves the storage fee pool arrives in the epochs' pools. *)
LEMMA SpreadSum ==
  ASSUME NEW pool \in Nat, NEW cur \in Nat, DistributionWindow(cur) \in SUBSET EpochIndex
  PROVE  /\ SpreadOver(pool, cur) \in [EpochIndex -> Nat]
         /\ Sum(SpreadOver(pool, cur), EpochIndex) = pool - Leftover(pool)
  <1> DEFINE m == EpochsPerYear
             Y == StorageYears
             share == [y \in Years |-> EpochFeeShare(pool, y)]
             add == SpreadOver(pool, cur)
             window == DistributionWindow(cur)
             part(y) == cur .. cur + m * y - 1
             year(y) == cur + m * y .. cur + m * y + m - 1
             Good == {y \in 0 .. Y : Sum(add, part(y)) = m * Sum(share, 0 .. y - 1)}
  <1>1. m \in Nat \ {0} /\ Y \in Nat \ {0} /\ IsFiniteSet(EpochIndex)
    BY EpochsAssumption, FS_Interval DEF EpochIndex
  <1>2. \A y \in Years : share[y] \in Nat
    BY EpochFeeShareType DEF Years, Credits
  <1>3. window = part(Y)
    BY DEF DistributionWindow, PerpetualEpochs
  <1>4. \A y \in 0 .. Y : m * y \in Nat /\ part(y) \in SUBSET window
    <2> TAKE y \in 0 .. Y
    <2>1. m * y \in Nat /\ m * Y \in Nat /\ m * y <= m * Y
      BY <1>1, Z3
    <2> QED
      BY <1>3, <2>1
  <1>5. \A y \in 0 .. Y - 1 : m * (y + 1) = m * y + m
    BY <1>1, Z3
  <1>6. \A y \in 0 .. Y - 1 : \A e \in year(y) :
          e \in window /\ add[e] = share[y]
    <2> TAKE y \in 0 .. Y - 1
    <2> TAKE e \in year(y)
    <2>1. y \in Years /\ y \in 0 .. Y /\ y + 1 \in 0 .. Y /\ y \in Nat
      BY <1>1 DEF Years
    <2>2. m * y \in Nat /\ m * (y + 1) = m * y + m
      BY <1>4, <1>5, <2>1
    <2> DEFINE base == m * y
    <2>3. e \in part(y + 1) /\ e - cur \in Nat /\ e - cur - base \in 0 .. m - 1
          /\ e - cur = base + (e - cur - base)
      <3>1. base \in Nat /\ m * (y + 1) = base + m /\ e \in cur + base .. cur + base + m - 1
        BY <2>2
      <3> HIDE DEF base
      <3> QED
        BY <1>1, <3>1
    <2>4. e \in window
      BY <1>4, <2>1, <2>3
    <2>5. (e - cur) \div m = y
      <3> DEFINE a == e - cur
                 r == e - cur - m * y
      <3>1. a \in Nat /\ r \in 0 .. m - 1 /\ a = m * y + r
        BY <2>3
      <3> HIDE DEF a, r, m
      <3>2. a \div m = y
        BY <1>1, <2>1, <3>1, QuotientOf
      <3> QED
        BY <3>2 DEF a
    <2>6. e \in EpochIndex
      BY <2>4
    <2>7. add[e] = EpochFeeShare(pool, (e - cur) \div m)
      BY <2>4, <2>6 DEF SpreadOver
    <2>8. share[y] = EpochFeeShare(pool, y)
      BY <2>1
    <2> HIDE DEF share, add, window, m
    <2> QED
      BY <2>4, <2>5, <2>7, <2>8
  <1>7. add \in [EpochIndex -> Nat]
    <2> SUFFICES ASSUME NEW e \in EpochIndex PROVE add[e] \in Nat
      BY DEF SpreadOver
    <2>1. CASE e \in window
      <3>1. e - cur \in Nat /\ e - cur < m * Y
        BY <2>1, <1>1 DEF DistributionWindow, PerpetualEpochs, EpochIndex
      <3>2. (e - cur) \div m \in 0 .. Y - 1
        BY <1>1, <3>1, DivBound
      <3> QED
        BY <2>1, <3>2, EpochFeeShareType DEF SpreadOver, Credits
    <2>2. CASE e \notin window
      BY <2>2 DEF SpreadOver
    <2> QED
      BY <2>1, <2>2
  <1>8. \A e \in EpochIndex \ window : add[e] = 0
    BY DEF SpreadOver
  <1>9. Leftover(pool) = pool - m * Sum(share, Years)
    BY ShareSum DEF Leftover, Years
  <1> HIDE DEF share, add, window, m, Y
  <1>10. 0 \in Good
    <2>1. part(0) = {} /\ 0 .. 0 - 1 = {} /\ 0 \in 0 .. Y
      BY <1>1
    <2>2. Sum(add, part(0)) = 0 /\ Sum(share, 0 .. 0 - 1) = 0
      BY <2>1, SumEmpty
    <2>3. m * 0 = 0
      BY <1>1
    <2> QED
      BY <2>1, <2>2, <2>3
  <1>11. ASSUME NEW y \in 0 .. Y - 1, y \in Good
         PROVE  y + 1 \in Good
    <2>1. y \in Years /\ y \in 0 .. Y /\ y + 1 \in 0 .. Y /\ y \in Nat
          /\ m * y \in Nat /\ m * (y + 1) = m * y + m
      BY <1>1, <1>4, <1>5 DEF Years, Y
    <2> DEFINE base == m * y
    <2>2. /\ part(y + 1) = part(y) \cup year(y) /\ part(y) \cap year(y) = {}
          /\ IsFiniteSet(part(y)) /\ IsFiniteSet(year(y)) /\ Cardinality(year(y)) = m
      <3>1. base \in Nat /\ m * (y + 1) = base + m
        BY <2>1
      <3> HIDE DEF base
      <3>2. /\ cur .. cur + (base + m) - 1 = (cur .. cur + base - 1) \cup (cur + base .. cur + base + m - 1)
            /\ (cur .. cur + base - 1) \cap (cur + base .. cur + base + m - 1) = {}
        BY <1>1, <3>1
      <3>3. /\ IsFiniteSet(cur .. cur + base - 1)
            /\ IsFiniteSet(cur + base .. cur + base + m - 1)
            /\ Cardinality(cur + base .. cur + base + m - 1) = m
        <4>1. /\ cur \in Int /\ cur + base - 1 \in Int /\ cur + base \in Int
              /\ cur + base + m - 1 \in Int
              /\ ~(cur + base > cur + base + m - 1)
              /\ (cur + base + m - 1) - (cur + base) + 1 = m
          BY <1>1, <3>1
        <4> QED
          BY <4>1, FS_Interval
      <3> QED
        BY <3>1, <3>2, <3>3 DEF base
    <2>3. Sum(add, part(y + 1)) = Sum(add, part(y)) + Sum(add, year(y))
      <3>1. \A e \in part(y) \cup year(y) : add[e] \in Int
        <4>1. \A e \in part(y) \cup year(y) : e \in EpochIndex
          <5>1. part(y) \in SUBSET window
            BY <1>4, <2>1
          <5>2. \A e \in year(y) : e \in window
            BY <1>6
          <5>3. window \in SUBSET EpochIndex
            BY DEF window
          <5> HIDE DEF part, year
          <5> QED
            BY <5>1, <5>2, <5>3
        <4> HIDE DEF part, year
        <4> QED
          BY <1>7, <4>1
      <3> HIDE DEF part, year
      <3> QED
        BY <2>2, <3>1, SumDisjoint
    <2>4. Sum(add, year(y)) = share[y] * m
      <3>1. share[y] \in Int /\ \A e \in year(y) : add[e] = share[y]
        BY <1>2, <1>6, <2>1
      <3> HIDE DEF part, year
      <3> QED
        BY <2>2, <3>1, SumConstant, Zenon
    <2>5. Sum(share, 0 .. y) = share[y] + Sum(share, 0 .. y - 1) /\ Sum(share, 0 .. y - 1) \in Nat
      <3>1. /\ 0 .. y = (0 .. y - 1) \cup {y} /\ y \notin 0 .. y - 1
            /\ \A x \in (0 .. y - 1) \cup {y} : x \in Years
        BY <2>1, <1>1 DEF Years, Y
      <3>2. IsFiniteSet(0 .. y - 1)
        <4>1. 0 \in Int /\ y - 1 \in Int
          BY <2>1
        <4> QED
          BY <4>1, FS_Interval
      <3>3. \A x \in (0 .. y - 1) \cup {y} : share[x] \in Int
        BY <1>2, <3>1
      <3>4. Sum(share, (0 .. y - 1) \cup {y}) = share[y] + Sum(share, 0 .. y - 1)
        BY <3>1, <3>2, <3>3, SumAddElement
      <3>5. \A x \in 0 .. y - 1 : share[x] \in Nat
        BY <1>2, <3>1
      <3>6. Sum(share, 0 .. y - 1) \in Nat
        BY <3>2, <3>5, SumNat
      <3> QED
        BY <3>1, <3>4, <3>6
    <2>6. Sum(add, part(y)) = m * Sum(share, 0 .. y - 1)
      BY <1>11
    <2> DEFINE T == Sum(share, 0 .. y - 1)
               s == share[y]
    <2>7. m * (s + T) = m * T + s * m /\ s \in Nat /\ T \in Nat
      <3>1. s \in Nat /\ T \in Nat
        BY <1>2, <2>1, <2>5
      <3> HIDE DEF s, T
      <3> QED
        BY <1>1, <3>1, Z3
    <2>8. (y + 1) - 1 = y
      BY <2>1
    <2>9. Sum(add, part(y + 1)) = m * Sum(share, 0 .. (y + 1) - 1)
      <3> HIDE DEF part, year
      <3> QED
        BY <2>3, <2>4, <2>5, <2>6, <2>7, <2>8
    <2> QED
      BY <2>1, <2>9
  <1> HIDE DEF Good
  <1>12. Sum(add, part(Y)) = m * Sum(share, 0 .. Y - 1)
    <2>1. \A y \in 0 .. Y - 1 : y \in Good => y + 1 \in Good
      BY <1>11
    <2>2. \A y \in 0 .. Y : y \in Good
      BY <1>1, <1>10, <2>1, SegmentInduction, Zenon
    <2>3. Y \in 0 .. Y
      BY <1>1
    <2> QED
      BY <2>2, <2>3 DEF Good
  <1>13. Sum(add, EpochIndex) = Sum(add, window)
    <2> DEFINE others == EpochIndex \ window
    <2>1. IsFiniteSet(window) /\ IsFiniteSet(others) /\ window \cap others = {}
          /\ window \cup others = EpochIndex
      <3>1. window \in SUBSET EpochIndex
        BY DEF window
      <3> QED
        BY <1>1, <3>1, FS_Subset
    <2>2. \A e \in window \cup others : add[e] \in Int
      BY <1>7, <2>1
    <2>3. Sum(add, window \cup others) = Sum(add, window) + Sum(add, others)
      <3> HIDE DEF others
      <3> QED
        BY <2>1, <2>2, SumDisjoint
    <2>4. Sum(add, others) = 0
      <3>1. 0 \in Int /\ \A e \in others : add[e] = 0
        BY <1>8
      <3> HIDE DEF others
      <3>2. Sum(add, others) = 0 * Cardinality(others) /\ Cardinality(others) \in Nat
        BY <2>1, <3>1, SumConstant, FS_CardinalityType, Zenon
      <3> QED
        BY <3>2
    <2>5. Sum(add, window) \in Int
      <3>1. \A e \in window : add[e] \in Int
        BY <2>2
      <3> QED
        BY <2>1, <3>1, SumInt
    <2> HIDE DEF others
    <2> QED
      BY <2>1, <2>3, <2>4, <2>5
  <1>14. Sum(add, EpochIndex) = m * Sum(share, Years)
    BY <1>3, <1>12, <1>13, Zenon DEF Years, Y
  <1>15. m * Sum(share, Years) \in Int
    <2>1. Sum(share, Years) \in Nat
      <3>1. IsFiniteSet(Years)
        BY EpochsAssumption, FS_Interval DEF Years
      <3> QED
        BY <1>2, <3>1, SumNat
    <2> QED
      BY <1>1, <2>1, Z3
  <1>16. Sum(add, EpochIndex) = pool - Leftover(pool)
    <2> DEFINE x == m * Sum(share, Years)
    <2>1. x \in Int /\ Leftover(pool) = pool - x /\ Sum(add, EpochIndex) = x
      BY <1>9, <1>14, <1>15
    <2> HIDE DEF x
    <2> QED
      BY <2>1
  <1> QED
    BY <1>7, <1>16 DEF add
-----------------------------------------------------------------------------
(* Only epochs that have a subtree have a storage pool. *)
EmptyAhead(d) == \A e \in EpochIndex \ d.trees : d.storage[e] = Missing

EpochCredits(d) == [e \in EpochIndex |-> CreditsOf(d, e)]
EpochPools(d) == Sum(EpochCredits(d), EpochIndex)

LEMMA EpochCreditsType ==
  ASSUME NEW d \in Databases
  PROVE  EpochCredits(d) \in [EpochIndex -> Nat] /\ EpochPools(d) \in Nat
  <1>1. \A e \in EpochIndex : CreditsOf(d, e) \in Nat
    <2> TAKE e \in EpochIndex
    <2>1. d.storage[e] \in OrMissing(Credits) /\ d.processing[e] \in OrMissing(Credits)
      BY DEF Databases
    <2> QED
      BY <2>1 DEF CreditsOf, OrMissing, Credits
  <1>2. EpochCredits(d) \in [EpochIndex -> Nat]
    BY <1>1 DEF EpochCredits
  <1>3. IsFiniteSet(EpochIndex)
    BY EpochsAssumption, FS_Interval DEF EpochIndex
  <1>4. \A e \in EpochIndex : EpochCredits(d)[e] \in Nat
    BY <1>2
  <1> QED
    BY <1>2, <1>3, <1>4, SumNat DEF EpochPools

(* A function that is zero but for one element adds up to that element. *)
LEMMA SumOnly ==
  ASSUME NEW S, IsFiniteSet(S), NEW y \in S, NEW f, f[y] \in Int, \A x \in S \ {y} : f[x] = 0
  PROVE  Sum(f, S) = f[y]
  <1>1. IsFiniteSet(S \ {y}) /\ Cardinality(S \ {y}) \in Nat
    BY FS_RemoveElement, FS_CardinalityType
  <1>2. 0 \in Int
    OBVIOUS
  <1>3. Sum(f, S \ {y}) = 0 * Cardinality(S \ {y})
    BY <1>1, <1>2, SumConstant, Zenon
  <1>4. Sum(f, S) = f[y] + Sum(f, S \ {y})
    <2>1. \A x \in S : f[x] \in Int
      OBVIOUS
    <2> QED
      BY <2>1, SumRemove
  <1> QED
    BY <1>1, <1>3, <1>4

(* A block's end moves credits between the pools, adds the block's fees and *)
(* takes the credits of the epoch it passes as paid: nothing else.          *)
LEMMA PoolsAfterBlock ==
  ASSUME NEW d \in Databases, NEW hist, NEW info \in EpochInfos, NEW last, NEW height \in Nat,
         BlockOn(d, hist, info, last, height), EmptyAhead(d), d.unpaidEpoch <= info.current,
         NEW proposer \in Proposers, NEW fees \in [storage : Credits, processing : Credits],
         NEW after \in Databases, after = ProcessBlockFees(d, info, height, proposer, fees)
  PROVE  LET u    == d.unpaidEpoch
             gone == IF MarkedAsPaid(d, info) THEN CreditsOf(d, u) ELSE 0
         IN  /\ EmptyAhead(after)
             /\ after.storagePool + EpochPools(after) + gone
                  = d.storagePool + EpochPools(d) + fees.storage + fees.processing
             /\ u < info.current /\ ~MarkedAsPaid(d, info) =>
                  CreditsOf(after, u) = CreditsOf(d, u)
  <1> DEFINE u == d.unpaidEpoch
             cur == info.current
             pool == d.storagePool
             Marked == MarkedAsPaid(d, info)
             gone == IF Marked THEN CreditsOf(d, u) ELSE 0
             S == StorageAfterChange(d, info)
             P == ProcessingAfter(d, info, fees)
             old == EpochCredits(d)
             new == EpochCredits(after)
             add == IF Distributes(d, info) THEN SpreadOver(pool, cur)
                    ELSE [e \in EpochIndex |-> 0]
             fee == [e \in EpochIndex |-> IF e = cur THEN fees.processing ELSE 0]
             lost == [e \in EpochIndex |-> IF e = u THEN gone ELSE 0]
             kept == [e \in EpochIndex |-> old[e] + add[e]]
             full == [e \in EpochIndex |-> kept[e] + fee[e]]
  <1>1. /\ d.trees \cup NewTrees(info) = 0 .. cur + PerpetualEpochs
        /\ NewTrees(info) \in SUBSET EpochIndex /\ NewTrees(info) \cap d.trees = {}
        /\ cur \in d.trees
        /\ PerpetualEpochs \in Nat \ {0} /\ cur \in EpochIndex
        /\ DistributionWindow(cur) \in SUBSET (0 .. cur + PerpetualEpochs)
    BY BlockTrees
  <1>2. /\ cur \in Nat /\ u \in Nat /\ u \in EpochIndex /\ u <= cur /\ pool \in Nat
        /\ fees.storage \in Nat /\ fees.processing \in Nat /\ IsFiniteSet(EpochIndex)
        /\ DistributionWindow(cur) \in SUBSET EpochIndex
    <2>1. u \in EpochIndex /\ pool \in Nat /\ d.trees \in SUBSET EpochIndex
      BY DEF Databases, Credits
    <2>2. IsFiniteSet(EpochIndex)
      BY EpochsAssumption, FS_Interval DEF EpochIndex
    <2>3. DistributionWindow(cur) \in SUBSET EpochIndex
      BY <1>1, <2>1
    <2>4. cur \in Nat /\ u \in Nat
      BY <1>1, <2>1 DEF EpochIndex
    <2> QED
      BY <2>1, <2>2, <2>3, <2>4 DEF Credits
  <1>3. ~DistributionFails(d, info)
    BY BlockSucceeds DEF ProcessBlockFeesFails
  <1>4. Marked => u < cur
    BY <1>2 DEF MarkedAsPaid, NeedsPayment
  <1>5. /\ add \in [EpochIndex -> Nat]
        /\ Sum(add, EpochIndex) = IF Distributes(d, info) THEN pool - Leftover(pool) ELSE 0
        /\ \A e \in EpochIndex : e \notin DistributionWindow(cur) => add[e] = 0
    <2>1. CASE Distributes(d, info)
      BY <1>2, <2>1, SpreadSum DEF SpreadOver
    <2>2. CASE ~Distributes(d, info)
      <3>1. add = [e \in EpochIndex |-> 0]
        BY <2>2
      <3> HIDE DEF add
      <3>2. 0 \in Int /\ \A e \in EpochIndex : add[e] = 0
        BY <3>1
      <3>3. Sum(add, EpochIndex) = 0 * Cardinality(EpochIndex) /\ Cardinality(EpochIndex) \in Nat
        BY <1>2, <3>2, SumConstant, FS_CardinalityType, Zenon
      <3> QED
        BY <2>2, <3>1, <3>2, <3>3
    <2> QED
      BY <2>1, <2>2
  <1>6. /\ S \in [EpochIndex -> OrMissing(Credits)] /\ P \in [EpochIndex -> OrMissing(Credits)]
        /\ after.storage = ForgetPaid(d, info, S) /\ after.processing = ForgetPaid(d, info, P)
        /\ after.trees = d.trees \cup NewTrees(info)
        /\ after.storagePool = StoragePoolAfter(d, info, fees)
    <2>1. S \in [EpochIndex -> OrMissing(Credits)]
      BY <1>3, StorageType
    <2>2. P \in [EpochIndex -> OrMissing(Credits)]
      BY ProcessingType
    <2> HIDE DEF S, P
    <2> QED
      BY <2>1, <2>2 DEF ProcessBlockFees, S, P
  <1>7. \A e \in EpochIndex :
          (IF S[e] = Missing THEN 0 ELSE S[e]) = (IF d.storage[e] = Missing THEN 0 ELSE d.storage[e]) + add[e]
    <2> TAKE e \in EpochIndex
    <2>1. d.storage[e] \in OrMissing(Credits) /\ add[e] \in Nat /\ Missing \notin Nat
      BY <1>5, MissingAssumption DEF Databases
    <2>2. e \notin d.trees => d.storage[e] = Missing
      BY DEF EmptyAhead
    <2>3. CASE Distributes(d, info) /\ e \in DistributionWindow(cur)
      <3>1. S[e] = StoredStorage(d, e) + add[e]
        BY <2>3 DEF StorageAfterChange, SpreadOver
      <3>2. e \in d.trees => d.storage[e] # Missing
        BY <1>3, <2>3 DEF DistributionFails
      <3>3. StoredStorage(d, e) = IF d.storage[e] = Missing THEN 0 ELSE d.storage[e]
        BY <2>2, <3>2 DEF StoredStorage
      <3>4. StoredStorage(d, e) \in Nat
        BY <2>1, <3>3 DEF OrMissing, Credits
      <3> HIDE DEF S, add
      <3>5. S[e] \in Nat
        BY <2>1, <3>1, <3>4
      <3> QED
        BY <2>1, <3>1, <3>3, <3>5
    <2>4. CASE ~(Distributes(d, info) /\ e \in DistributionWindow(cur))
      <3>1. S[e] = IF e \in NewTrees(info) THEN 0 ELSE d.storage[e]
        BY <2>4 DEF StorageAfterChange
      <3>2. add[e] = 0
        BY <1>5, <2>4
      <3>3. e \in NewTrees(info) => d.storage[e] = Missing
        BY <1>1, <2>2
      <3> HIDE DEF S, add
      <3> QED
        BY <2>1, <3>1, <3>2, <3>3 DEF OrMissing, Credits
    <2> QED
      BY <2>3, <2>4
  <1>8. \A e \in EpochIndex :
          (IF P[e] = Missing THEN 0 ELSE P[e])
            = (IF d.processing[e] = Missing THEN 0 ELSE d.processing[e]) + fee[e]
    <2> TAKE e \in EpochIndex
    <2>1. d.processing \in [EpochIndex -> OrMissing(Credits)] /\ Missing \notin Nat
      BY MissingAssumption DEF Databases
    <2>2. d.processing[e] \in OrMissing(Credits)
      BY <2>1
    <2>3. CASE e = cur
      <3>1. P[e] = (IF d.processing[e] = Missing THEN 0 ELSE d.processing[e]) + fees.processing
        BY <2>1, <2>3 DEF ProcessingAfter
      <3>2. fee[e] = fees.processing
        BY <2>3
      <3> HIDE DEF P, fee
      <3>3. P[e] \in Nat
        BY <1>2, <2>2, <3>1 DEF OrMissing, Credits
      <3> QED
        BY <2>1, <3>1, <3>2, <3>3
    <2>4. CASE e # cur
      <3>1. P[e] = d.processing[e] /\ fee[e] = 0
        BY <2>1, <2>4 DEF ProcessingAfter
      <3> HIDE DEF P, fee
      <3> QED
        BY <2>2, <3>1 DEF OrMissing, Credits
    <2> QED
      BY <2>3, <2>4
  <1>9. /\ old \in [EpochIndex -> Nat] /\ new \in [EpochIndex -> Nat]
        /\ fee \in [EpochIndex -> Nat] /\ lost \in [EpochIndex -> Nat]
        /\ EpochPools(d) \in Nat /\ EpochPools(after) \in Nat /\ gone \in Nat
        /\ old[u] = CreditsOf(d, u)
    <2>1. old \in [EpochIndex -> Nat] /\ new \in [EpochIndex -> Nat]
          /\ EpochPools(d) \in Nat /\ EpochPools(after) \in Nat
      BY EpochCreditsType
    <2>2. old[u] = CreditsOf(d, u)
      BY <1>2 DEF EpochCredits
    <2>3. gone \in Nat
      BY <1>2, <2>1, <2>2
    <2> QED
      BY <1>2, <2>1, <2>2, <2>3
  <1> HIDE DEF S, P, add, pool
  <1>10. \A e \in EpochIndex : new[e] + lost[e] = (old[e] + add[e]) + fee[e]
    <2> TAKE e \in EpochIndex
    <2>1. old[e] = (IF d.storage[e] = Missing THEN 0 ELSE d.storage[e])
                     + (IF d.processing[e] = Missing THEN 0 ELSE d.processing[e])
      BY DEF EpochCredits, CreditsOf
    <2>2. new[e] = (IF after.storage[e] = Missing THEN 0 ELSE after.storage[e])
                     + (IF after.processing[e] = Missing THEN 0 ELSE after.processing[e])
      BY DEF EpochCredits, CreditsOf
    <2>3. CASE Marked /\ e = u
      <3>1. after.storage[e] = Missing /\ after.processing[e] = Missing
        BY <1>2, <1>6, <2>3 DEF ForgetPaid
      <3>2. new[e] = 0
        BY <2>2, <3>1
      <3>3. add[e] = 0 /\ fee[e] = 0
        <4>1. e \notin DistributionWindow(cur) /\ e # cur
          BY <1>2, <1>4, <2>3 DEF DistributionWindow
        <4> QED
          BY <1>5, <4>1
      <3>4. lost[e] = old[e] /\ old[e] \in Nat
        BY <1>9, <2>3
      <3> HIDE DEF new, lost, old, fee
      <3> QED
        BY <3>2, <3>3, <3>4
    <2>4. CASE ~(Marked /\ e = u)
      <3>1. after.storage[e] = S[e] /\ after.processing[e] = P[e] /\ lost[e] = 0
        <4>1. after.storage[e] = S[e] /\ after.processing[e] = P[e]
          BY <1>6, <2>4 DEF ForgetPaid
        <4>2. lost[e] = 0
          BY <2>4
        <4> QED
          BY <4>1, <4>2
      <3> DEFINE s0 == IF d.storage[e] = Missing THEN 0 ELSE d.storage[e]
                 p0 == IF d.processing[e] = Missing THEN 0 ELSE d.processing[e]
                 s1 == IF S[e] = Missing THEN 0 ELSE S[e]
                 p1 == IF P[e] = Missing THEN 0 ELSE P[e]
      <3>2. s0 \in Nat /\ p0 \in Nat /\ add[e] \in Nat /\ fee[e] \in Nat
        <4>1. d.storage[e] \in OrMissing(Credits) /\ d.processing[e] \in OrMissing(Credits)
          BY DEF Databases
        <4>2. add[e] \in Nat
          BY <1>5
        <4>3. fee[e] \in Nat
          BY <1>9
        <4> HIDE DEF fee
        <4> QED
          BY <4>1, <4>2, <4>3 DEF OrMissing, Credits
      <3>3. s1 = s0 + add[e]
        BY <1>7
      <3>4. p1 = p0 + fee[e]
        BY <1>8
      <3>5. old[e] = s0 + p0
        BY <2>1
      <3>6. new[e] = s1 + p1
        BY <2>2, <3>1
      <3> HIDE DEF s0, p0, s1, p1, old, new, fee, lost
      <3> QED
        BY <3>1, <3>2, <3>3, <3>4, <3>5, <3>6
    <2> QED
      BY <2>3, <2>4
  <1>11. Sum(fee, EpochIndex) = fees.processing
    <2>1. fee[cur] = fees.processing /\ \A e \in EpochIndex \ {cur} : fee[e] = 0
      BY <1>1
    <2> HIDE DEF fee
    <2>2. fee[cur] \in Int
      BY <1>2, <2>1
    <2> QED
      BY <1>1, <1>2, <2>1, <2>2, SumOnly
  <1>12. Sum(lost, EpochIndex) = gone
    <2>1. lost[u] = gone /\ \A e \in EpochIndex \ {u} : lost[e] = 0
      BY <1>2
    <2>2. lost[u] \in Int
      BY <1>9, <2>1
    <2> HIDE DEF lost
    <2> QED
      BY <1>2, <2>1, <2>2, SumOnly
  <1>13. AddsUp(kept, old, add, EpochIndex) /\ AddsUp(full, kept, fee, EpochIndex)
    <2>1. \A e \in EpochIndex : /\ old[e] \in Int /\ add[e] \in Int /\ fee[e] \in Int
                                /\ kept[e] = old[e] + add[e] /\ full[e] = kept[e] + fee[e]
      <3> TAKE e \in EpochIndex
      <3>1. old[e] \in Int
        BY <1>9
      <3>2. fee[e] \in Int
        BY <1>9
      <3>3. add[e] \in Int
        BY <1>5
      <3>4. kept[e] = old[e] + add[e] /\ full[e] = kept[e] + fee[e]
        OBVIOUS
      <3> HIDE DEF old, fee, kept, full
      <3> QED
        BY <3>1, <3>2, <3>3, <3>4
    <2> HIDE DEF kept, full, old, fee
    <2> QED
      BY <2>1 DEF AddsUp
  <1>14. AddsUp(full, new, lost, EpochIndex)
    <2>1. \A e \in EpochIndex : new[e] \in Int /\ lost[e] \in Int /\ full[e] = new[e] + lost[e]
      <3> TAKE e \in EpochIndex
      <3>1. new[e] \in Int
        BY <1>9
      <3>2. lost[e] \in Int
        BY <1>9
      <3>3. full[e] = (old[e] + add[e]) + fee[e]
        OBVIOUS
      <3>4. new[e] + lost[e] = (old[e] + add[e]) + fee[e]
        BY <1>10
      <3> HIDE DEF new, lost, full, old, fee
      <3> QED
        BY <3>1, <3>2, <3>3, <3>4
    <2> HIDE DEF full, new, lost
    <2> QED
      BY <2>1 DEF AddsUp
  <1> HIDE DEF kept, full, old, new, fee, lost, gone
  <1>15. /\ Sum(kept, EpochIndex) = Sum(old, EpochIndex) + Sum(add, EpochIndex)
         /\ Sum(full, EpochIndex) = Sum(kept, EpochIndex) + Sum(fee, EpochIndex)
         /\ Sum(full, EpochIndex) = Sum(new, EpochIndex) + Sum(lost, EpochIndex)
    <2>1. Sum(kept, EpochIndex) = Sum(old, EpochIndex) + Sum(add, EpochIndex)
      BY <1>2, <1>13, SumAdded, Zenon
    <2>2. Sum(full, EpochIndex) = Sum(kept, EpochIndex) + Sum(fee, EpochIndex)
      BY <1>2, <1>13, SumAdded, Zenon
    <2>3. Sum(full, EpochIndex) = Sum(new, EpochIndex) + Sum(lost, EpochIndex)
      BY <1>2, <1>14, SumAdded, Zenon
    <2> QED
      BY <2>1, <2>2, <2>3
  <1>16. EpochPools(d) = Sum(old, EpochIndex) /\ EpochPools(after) = Sum(new, EpochIndex)
    BY DEF EpochPools, old, new
  <1>17. after.storagePool + Sum(add, EpochIndex) = pool + fees.storage
         /\ after.storagePool \in Nat /\ Sum(add, EpochIndex) \in Int
    <2>1. after.storagePool \in Nat
      BY DEF Databases, Credits
    <2>2. Leftover(pool) \in Nat
      <3>1. pool \in Credits
        BY <1>2 DEF Credits
      <3> QED
        BY <3>1, LeftoverBound DEF Credits
    <2>3. after.storagePool = fees.storage + (IF Distributes(d, info) THEN Leftover(pool) ELSE pool)
      BY <1>2, <1>6 DEF StoragePoolAfter, Distributes, pool
    <2> QED
      BY <1>2, <1>5, <2>1, <2>2, <2>3
  <1>18. after.storagePool + EpochPools(after) + gone
           = pool + EpochPools(d) + fees.storage + fees.processing
    BY <1>2, <1>9, <1>11, <1>12, <1>15, <1>16, <1>17
  <1>19. EmptyAhead(after)
    <2> SUFFICES ASSUME NEW e \in EpochIndex, e \notin after.trees PROVE after.storage[e] = Missing
      BY DEF EmptyAhead
    <2>1. e \notin d.trees /\ e \notin NewTrees(info) /\ e \notin DistributionWindow(cur)
      BY <1>1, <1>6
    <2>2. d.storage[e] = Missing
      BY <2>1 DEF EmptyAhead
    <2>3. S[e] = Missing
      BY <2>1, <2>2 DEF S, StorageAfterChange
    <2> QED
      BY <1>6, <2>3 DEF ForgetPaid
  <1>20. u < cur /\ ~Marked => CreditsOf(after, u) = CreditsOf(d, u)
    <2> SUFFICES ASSUME u < cur, ~Marked PROVE CreditsOf(after, u) = CreditsOf(d, u)
      OBVIOUS
    <2>1. add[u] = 0 /\ fee[u] = 0 /\ lost[u] = 0
      <3>1. u \notin DistributionWindow(cur) /\ u # cur
        BY <1>2 DEF DistributionWindow
      <3> QED
        BY <1>2, <1>5, <3>1 DEF fee, lost, gone
    <2>2. new[u] = old[u]
      <3>1. new[u] + lost[u] = (old[u] + add[u]) + fee[u]
        BY <1>2, <1>10
      <3>2. new[u] \in Nat /\ old[u] \in Nat
        BY <1>2, <1>9
      <3> QED
        BY <2>1, <3>1, <3>2
    <2> QED
      BY <1>2, <2>2 DEF new, old, EpochCredits
  <1> QED
    BY <1>18, <1>19, <1>20 DEF pool, gone
-----------------------------------------------------------------------------
(* No identity is paid twice in a block: reward shares go to identities     *)
(* that are no proposers, each named by one share only.                     *)
DistinctPayees ==
  \A p, q \in Proposers : \A j \in 1 .. Len(Shares[p]) :
    /\ Shares[p][j].payTo # q
    /\ \A k \in 1 .. Len(Shares[q]) :
         Shares[p][j].payTo = Shares[q][k].payTo => p = q /\ j = k

SharePayees(p) == {Shares[p][j].payTo : j \in 1 .. Len(Shares[p])}
Payees(p) == {p} \cup SharePayees(p)

IdsIn(payments, T) == \A k \in 1 .. Len(payments) : payments[k].id \in T

LEMMA DistinctConcat ==
  ASSUME NEW s \in Seq(Payment), NEW t \in Seq(Payment), NEW T, NEW V, T \cap V = {},
         DistinctIds(s), DistinctIds(t), IdsIn(s, T), IdsIn(t, V)
  PROVE  DistinctIds(s \o t) /\ IdsIn(s \o t, T \cup V)
  <1> DEFINE m == Len(s)
             n == Len(t)
             c == s \o t
  <1>1. m \in Nat /\ n \in Nat /\ Len(c) = m + n
    OBVIOUS
  <1>2. \A k \in 1 .. m : c[k] = s[k] /\ c[k].id \in T
    BY <1>1 DEF IdsIn
  <1>3. \A k \in 1 .. m + n : k > m => k - m \in 1 .. n /\ c[k] = t[k - m] /\ c[k].id \in V
    <2> TAKE k \in 1 .. m + n
    <2> HAVE k > m
    <2>1. k - m \in 1 .. n
      BY <1>1
    <2>2. c[k] = t[k - m]
      BY <1>1, <2>1
    <2> QED
      BY <2>1, <2>2 DEF IdsIn
  <1>4. /\ \A j, k \in 1 .. m : s[j].id = s[k].id => j = k
        /\ \A j, k \in 1 .. n : t[j].id = t[k].id => j = k
    BY DEF DistinctIds
  <1> HIDE DEF m, n, c
  <1>5. ASSUME NEW j \in 1 .. m + n, NEW k \in 1 .. m + n, c[j].id = c[k].id
        PROVE  j = k
    <2>1. CASE j <= m /\ k <= m
      <3>1. j \in 1 .. m /\ k \in 1 .. m
        BY <1>1, <2>1
      <3> QED
        BY <1>2, <1>4, <1>5, <3>1
    <2>2. CASE j > m /\ k > m
      <3>1. /\ j - m \in 1 .. n /\ k - m \in 1 .. n /\ c[j] = t[j - m] /\ c[k] = t[k - m]
        BY <1>3, <2>2
      <3>2. j - m = k - m
        BY <1>4, <1>5, <3>1
      <3> QED
        BY <1>1, <3>2
    <2>3. CASE j <= m /\ k > m
      <3>1. j \in 1 .. m
        BY <1>1, <2>3
      <3>2. c[j].id \in T /\ c[k].id \in V
        BY <1>2, <1>3, <2>3, <3>1
      <3> QED
        BY <1>5, <3>2
    <2>4. CASE j > m /\ k <= m
      <3>1. k \in 1 .. m
        BY <1>1, <2>4
      <3>2. c[j].id \in V /\ c[k].id \in T
        BY <1>2, <1>3, <2>4, <3>1
      <3> QED
        BY <1>5, <3>2
    <2> QED
      BY <1>1, <2>1, <2>2, <2>3, <2>4
  <1>6. \A k \in 1 .. m + n : c[k].id \in T \cup V
    <2> TAKE k \in 1 .. m + n
    <2>1. CASE k <= m
      <3>1. k \in 1 .. m
        BY <1>1, <2>1
      <3> QED
        BY <1>2, <3>1
    <2>2. CASE k > m
      BY <1>3, <2>2
    <2> QED
      BY <1>1, <2>1, <2>2
  <1>7. Len(c) = m + n
    BY <1>1
  <1> QED
    BY <1>5, <1>6, <1>7 DEF DistinctIds, IdsIn, c

(* The shares of a reward are for the payees of its proposer's documents.   *)
LEMMA SharesDistinct ==
  ASSUME DistinctPayees, NEW p \in Proposers, NEW reward \in Nat
  PROVE  LET paid == AfterShares(p, reward).paid
         IN  paid \in Seq(Payment) /\ DistinctIds(paid) /\ IdsIn(paid, SharePayees(p))
  <1> DEFINE n == Len(Shares[p])
             Documents == [payTo : Identities, percentage : 0 .. PercentUnit]
             Listed(paid, k) == Len(paid) = k /\ \A j \in 1 .. k : paid[j].id = Shares[p][j].payTo
  <1>1. Shares[p] \in Seq(Documents) /\ n \in Nat
    <2>1. Shares \in [Proposers -> Seq(Documents)]
      BY SharesAssumption
    <2> HIDE DEF Documents
    <2> QED
      BY <2>1, LenProperties
  <1>2. PICK run \in [0 .. n -> ShareAcc] :
          /\ run[0] = [left |-> reward, paid |-> <<>>]
          /\ run[n] = AfterShares(p, reward)
          /\ \A k \in 1 .. n : run[k] = ShareOf(run[k - 1], Shares[p][k])
    BY SharesRun, Zenon
  <1> DEFINE Good == {k \in 0 .. n : Listed(run[k].paid, k)}
  <1> HIDE DEF n
  <1>3. 0 \in Good
    <2>1. run[0].paid = <<>> /\ 0 \in 0 .. n
      BY <1>1, <1>2
    <2> QED
      BY <2>1
  <1>4. ASSUME NEW k \in 0 .. n - 1, k \in Good
        PROVE  k + 1 \in Good
    <2>1. k \in Nat /\ k + 1 \in 1 .. n /\ k + 1 \in 0 .. n /\ (k + 1) - 1 = k /\ k \in 0 .. n
      BY <1>1
    <2>2. run[k] \in ShareAcc /\ run[k + 1] = ShareOf(run[k], Shares[p][k + 1])
      BY <1>2, <2>1
    <2>3. PICK amount : run[k + 1].paid
                          = Append(run[k].paid, [id |-> Shares[p][k + 1].payTo, amount |-> amount])
      <3> DEFINE acc == run[k]
                 share == Shares[p][k + 1]
                 part == (acc.left * share.percentage) \div (PercentUnit * DecimalUnit)
      <3>1. ShareOf(acc, share).paid = Append(acc.paid, [id |-> share.payTo, amount |-> part])
        BY DEF ShareOf
      <3> HIDE DEF part
      <3> QED
        BY <2>2, <3>1
    <2> DEFINE s == run[k].paid
               x == [id |-> Shares[p][k + 1].payTo, amount |-> amount]
    <2>4. s \in Seq(Payment) /\ Len(s) = k /\ \A j \in 1 .. k : s[j].id = Shares[p][j].payTo
      BY <1>4, <2>2 DEF ShareAcc
    <2>5. x.id = Shares[p][k + 1].payTo /\ run[k + 1].paid = Append(s, x)
      BY <2>3
    <2> HIDE DEF s, x
    <2>6. /\ Len(Append(s, x)) = k + 1 /\ Append(s, x)[k + 1] = x
          /\ \A j \in 1 .. k : Append(s, x)[j] = s[j]
      BY <2>1, <2>4
    <2>7. \A j \in 1 .. k + 1 : j \in 1 .. k \/ j = k + 1
      BY <2>1
    <2>8. Listed(run[k + 1].paid, k + 1)
      BY <2>4, <2>5, <2>6, <2>7
    <2> HIDE DEF Listed
    <2> QED
      BY <2>1, <2>8
  <1> HIDE DEF Good
  <1>5. Listed(AfterShares(p, reward).paid, n)
    <2>1. \A k \in 0 .. n - 1 : k \in Good => k + 1 \in Good
      BY <1>4
    <2>2. \A k \in 0 .. n : k \in Good
      BY <1>1, <1>3, <2>1, SegmentInduction, Zenon
    <2>3. n \in 0 .. n
      BY <1>1
    <2> HIDE DEF Listed
    <2> QED
      BY <1>2, <2>2, <2>3 DEF Good
  <1>6. AfterShares(p, reward).paid \in Seq(Payment)
    <2>1. AfterShares(p, reward) \in ShareAcc
      BY AfterSharesType
    <2> QED
      BY <2>1 DEF ShareAcc
  <1> DEFINE paid == AfterShares(p, reward).paid
  <1> HIDE DEF paid
  <1>7. /\ Len(paid) = Len(Shares[p])
        /\ \A j \in 1 .. Len(paid) : paid[j].id = Shares[p][j].payTo
    BY <1>5 DEF paid, n
  <1>8. DistinctIds(paid)
    BY <1>7 DEF DistinctIds, DistinctPayees
  <1>9. IdsIn(paid, SharePayees(p))
    BY <1>7 DEF IdsIn, SharePayees
  <1> QED
    BY <1>6, <1>8, <1>9 DEF paid

(* Then all the payments of a block are to different identities. *)
LEMMA PaymentsDistinct ==
  ASSUME DistinctPayees, NEW d \in Databases, NEW info, NEW height, Payable(d),
         NEW blocks \in Nat \ {0}, blocks = BlocksToPay(d, info, height)
  PROVE  DistinctIds(Payments(d, info, height))
  <1> DEFINE Chunk == PaidChunk(d, info)
             order == KeyOrder(Chunk)
             n == Cardinality(Chunk)
             Covered(k) == UNION {Payees(order[i]) : i \in 1 .. k}
  <1>1. Chunk \in SUBSET Proposers /\ Chunk \in SUBSET Nat /\ IsFiniteSet(Chunk)
    <2>1. Chunk \in SUBSET Proposers
      BY DEF PaidChunk, UnpaidProposers
    <2> QED
      BY <2>1, ProposersAssumption, FS_Subset
  <1>2. /\ n \in Nat /\ order \in [1 .. n -> Chunk]
        /\ \A j, k \in 1 .. n : order[j] = order[k] => j = k
    BY <1>1, KeyOrderListsAll, Zenon
  <1>3. PICK run \in [0 .. n -> PayAcc] :
          /\ run[0] = [fraction |-> 0, paid |-> <<>>]
          /\ run[n].paid = Payments(d, info, height)
          /\ \A k \in 1 .. n :
               run[k] = PayOf(d, blocks, order[k] = order[n], run[k - 1], order[k])
    BY PaymentsRun
  <1> HIDE DEF Chunk, order, n
  <1>4. \A i \in 1 .. n : order[i] \in Proposers
    <2>1. \A i \in 1 .. n : order[i] \in Chunk
      BY <1>2
    <2> QED
      BY <1>1, <2>1
  <1>5. \A p, q \in Proposers : p # q => Payees(p) \cap Payees(q) = {}
    BY DEF DistinctPayees, Payees, SharePayees
  <1> DEFINE Good == {k \in 0 .. n : DistinctIds(run[k].paid) /\ IdsIn(run[k].paid, Covered(k))}
  <1>6. 0 \in Good
    <2>1. run[0].paid = <<>> /\ 0 \in 0 .. n
      BY <1>2, <1>3
    <2>2. 1 .. Len(<<>>) = {}
      OBVIOUS
    <2> QED
      BY <2>1, <2>2 DEF DistinctIds, IdsIn
  <1>7. ASSUME NEW k \in 0 .. n - 1, k \in Good
        PROVE  k + 1 \in Good
    <2> DEFINE p == order[k + 1]
               shared == AfterShares(p, RewardOf(d, blocks, p)).paid
               before == run[k].paid
    <2>1. k \in Nat /\ k + 1 \in 1 .. n /\ k + 1 \in 0 .. n /\ (k + 1) - 1 = k /\ k \in 0 .. n
      BY <1>2
    <2>2. p \in Proposers /\ before \in Seq(Payment)
      BY <1>3, <1>4, <2>1 DEF PayAcc
    <2>3. DistinctIds(before) /\ IdsIn(before, Covered(k))
      BY <1>7
    <2>4. shared \in Seq(Payment) /\ DistinctIds(shared) /\ IdsIn(shared, SharePayees(p))
      <3>1. RewardOf(d, blocks, p) \in Nat
        BY <2>2, RewardOfType
      <3> HIDE DEF p
      <3> QED
        BY <2>2, <3>1, SharesDistinct
    <2>5. run[k + 1].paid \in Seq(Payment)
      BY <1>3, <2>1 DEF PayAcc
    <2>6. PICK amount : run[k + 1].paid = before \o shared \o <<[id |-> p, amount |-> amount]>>
                        /\ amount \in Nat
      <3>1. run[k + 1] = PayOf(d, blocks, order[k + 1] = order[n], run[k], p)
        BY <1>3, <2>1
      <3> DEFINE isLast == order[k + 1] = order[n]
                 r == AfterShares(p, RewardOf(d, blocks, p))
                 whole == r.left \div DecimalUnit
                 fraction == run[k].fraction + (r.left % DecimalUnit)
                 given == IF isLast THEN whole + fraction \div DecimalUnit ELSE whole
      <3>2. run[k + 1].paid = before \o shared \o <<[id |-> p, amount |-> given]>>
        <4> HIDE DEF p, isLast
        <4>1. PayOf(d, blocks, isLast, run[k], p).paid
                = before \o shared \o <<[id |-> p, amount |-> given]>>
          BY DEF PayOf
        <4>2. run[k + 1] = PayOf(d, blocks, isLast, run[k], p)
          BY <3>1 DEF isLast
        <4> QED
          BY <4>1, <4>2, Zenon
      <3>3. given \in Nat
        <4>1. RewardOf(d, blocks, p) \in Nat
          BY <2>2, RewardOfType
        <4>2. r \in ShareAcc
          BY <2>2, <4>1, AfterSharesType
        <4>3. r.left \in Nat /\ run[k].fraction \in Nat /\ DecimalUnit \in Nat \ {0}
          BY <1>3, <2>1, <4>2, PayoutAssumption DEF ShareAcc, PayAcc
        <4> HIDE DEF r, isLast
        <4>4. whole \in Nat /\ r.left % DecimalUnit \in Nat
          <5>1. whole \in Nat /\ r.left % DecimalUnit \in 0 .. DecimalUnit - 1
            BY <4>3, DivSplit, Zenon
          <5> DEFINE m == r.left % DecimalUnit
          <5>2. m \in 0 .. DecimalUnit - 1
            BY <5>1
          <5> HIDE DEF m, whole
          <5> QED
            BY <4>3, <5>1, <5>2 DEF m
        <4> HIDE DEF whole
        <4>5. fraction \in Nat
          BY <4>3, <4>4
        <4> HIDE DEF fraction
        <4>6. fraction \div DecimalUnit \in Nat
          BY <4>3, <4>5, DivSplit
        <4> QED
          BY <4>4, <4>6
      <3> HIDE DEF given, p, shared, before
      <3> QED
        BY <3>2, <3>3
    <2> DEFINE one == <<[id |-> p, amount |-> amount]>>
    <2>7. one \in Seq(Payment) /\ DistinctIds(one) /\ IdsIn(one, {p})
      <3>1. p \in Identities
        BY <2>2, ProposersAssumption
      <3> HIDE DEF p
      <3>2. one \in Seq(Payment)
        BY <2>6, <3>1, TotalOfOne
      <3>3. 1 .. Len(one) = {1} /\ one[1].id = p
        OBVIOUS
      <3> HIDE DEF one
      <3> QED
        BY <3>2, <3>3 DEF DistinctIds, IdsIn
    <2>8. /\ Covered(k) \cap SharePayees(p) = {} /\ (Covered(k) \cup SharePayees(p)) \cap {p} = {}
          /\ (Covered(k) \cup SharePayees(p)) \cup {p} = Covered(k + 1)
      <3>1. \A i \in 1 .. k : order[i] # p /\ order[i] \in Proposers
        <4>1. \A i \in 1 .. k : i \in 1 .. n /\ i # k + 1
          BY <1>2, <2>1
        <4> QED
          BY <1>2, <1>4, <2>1, <4>1
      <3>2. Covered(k) \cap Payees(p) = {}
        BY <1>5, <2>2, <3>1
      <3>3. p \notin SharePayees(p)
        BY <2>2 DEF DistinctPayees, SharePayees
      <3>4. Covered(k + 1) = Covered(k) \cup Payees(p)
        <4>1. \A i \in 1 .. k + 1 : i \in 1 .. k \/ i = k + 1
          BY <2>1
        <4>2. (\A i \in 1 .. k : i \in 1 .. k + 1) /\ k + 1 \in 1 .. k + 1
          BY <2>1
        <4> HIDE DEF p
        <4>3. Covered(k + 1) \in SUBSET (Covered(k) \cup Payees(order[k + 1]))
          BY <4>1
        <4>4. (Covered(k) \cup Payees(order[k + 1])) \in SUBSET Covered(k + 1)
          BY <4>2
        <4> QED
          BY <4>3, <4>4 DEF p
      <3> HIDE DEF Covered, p
      <3> QED
        BY <3>2, <3>3, <3>4 DEF Payees
    <2> HIDE DEF one, shared, before, p, Covered
    <2>9. DistinctIds(before \o shared) /\ IdsIn(before \o shared, Covered(k) \cup SharePayees(p))
          /\ before \o shared \in Seq(Payment)
      BY <2>2, <2>3, <2>4, <2>8, DistinctConcat
    <2>10. /\ DistinctIds((before \o shared) \o one)
           /\ IdsIn((before \o shared) \o one, (Covered(k) \cup SharePayees(p)) \cup {p})
      BY <2>7, <2>8, <2>9, DistinctConcat
    <2>11. run[k + 1].paid = (before \o shared) \o one
      BY <2>6 DEF one
    <2> QED
      BY <2>1, <2>8, <2>10, <2>11
  <1> HIDE DEF Good
  <1>8. n \in Good
    <2>1. \A k \in 0 .. n - 1 : k \in Good => k + 1 \in Good
      BY <1>7
    <2>2. \A k \in 0 .. n : k \in Good
      BY <1>2, <1>6, <2>1, SegmentInduction, Zenon
    <2>3. n \in 0 .. n
      BY <1>2
    <2> QED
      BY <2>2, <2>3
  <1> QED
    BY <1>3, <1>8 DEF Good
-----------------------------------------------------------------------------
(* The blocks a count gives to some proposers and to the others. *)
LEMMA SplitCounts ==
  ASSUME NEW count \in [Proposers -> Nat], NEW S \in SUBSET Proposers
  PROVE  /\ BlocksOf(count) = Sum(count, S) + Sum(count, Proposers \ S)
         /\ BlocksOf(count) \in Nat
         /\ Sum(count, S) \in Nat /\ Sum(count, Proposers \ S) \in Nat
  <1> DEFINE R == Proposers \ S
  <1>1. /\ IsFiniteSet(S) /\ IsFiniteSet(R) /\ S \cap R = {} /\ S \cup R = Proposers
    BY ProposersAssumption, FS_Subset
  <1>2. (\A p \in S : count[p] \in Nat) /\ (\A p \in R : count[p] \in Nat)
    OBVIOUS
  <1>3. \A p \in S \cup R : count[p] \in Int
    BY <1>1
  <1> HIDE DEF R
  <1>4. Sum(count, S \cup R) = Sum(count, S) + Sum(count, R)
    BY <1>1, <1>3, SumDisjoint
  <1>5. Sum(count, S) \in Nat /\ Sum(count, R) \in Nat
    BY <1>1, <1>2, SumNat
  <1>6. BlocksOf(count) = Sum(count, Proposers)
    BY DEF BlocksOf, Sum
  <1>7. BlocksOf(count) = Sum(count, S) + Sum(count, R)
    BY <1>1, <1>4, <1>6, Zenon
  <1>8. BlocksOf(count) \in Nat
    BY <1>5, <1>7
  <1> QED
    BY <1>5, <1>7, <1>8 DEF R

(* What the chunk of a block takes from the blocks not paid yet: all of     *)
(* them when the epoch is passed as paid.                                   *)
LEMMA UnpaidAfterBlock ==
  ASSUME NEW d \in Databases, NEW info \in EpochInfos, NEW height, NEW proposer, NEW fees,
         NEW after, after = ProcessBlockFees(d, info, height, proposer, fees),
         NeedsPayment(d, info), Payable(d)
  PROVE  LET counted == Sum(d.blockCount[d.unpaidEpoch], PaidChunk(d, info))
         IN  /\ counted \in Nat /\ UnpaidBlocks(d) \in Nat
             /\ MarkedAsPaid(d, info) => counted = UnpaidBlocks(d)
             /\ ~MarkedAsPaid(d, info) => UnpaidBlocks(after) = UnpaidBlocks(d) - counted
             /\ PaidChunk(d, info) = {} => counted = 0
  <1> DEFINE u == d.unpaidEpoch
             count == d.blockCount[u]
             Chunk == PaidChunk(d, info)
             R == Proposers \ Chunk
             left == [p \in Proposers |-> IF p \in Chunk THEN 0 ELSE count[p]]
  <1>1. count \in [Proposers -> Nat] /\ count # Missing /\ u \in EpochIndex /\ u # info.current
    BY PayableTypes DEF Payable, Databases, NeedsPayment
  <1>2. Chunk \in SUBSET Proposers /\ IsFiniteSet(Chunk) /\ IsFiniteSet(R)
    <2>1. Chunk \in SUBSET Proposers
      BY DEF PaidChunk, UnpaidProposers
    <2> QED
      BY <2>1, ProposersAssumption, FS_Subset
  <1>3. left \in [Proposers -> Nat] /\ left # Missing
    BY <1>1, MissingCountsAssumption
  <1>4. MarkedAsPaid(d, info) => \A p \in R : count[p] = 0
    <2> SUFFICES ASSUME MarkedAsPaid(d, info), NEW p \in R PROVE count[p] = 0
      OBVIOUS
    <2>1. Chunk = UnpaidProposers(d)
      BY LastChunk
    <2> QED
      BY <1>1, <2>1 DEF UnpaidProposers
  <1>5. ~MarkedAsPaid(d, info) => after.unpaidEpoch = u /\ after.blockCount[u] = left
    <2> SUFFICES ASSUME ~MarkedAsPaid(d, info)
                 PROVE  after.unpaidEpoch = u /\ after.blockCount[u] = left
      OBVIOUS
    <2>1. after.unpaidEpoch = u /\ after.blockCount = BlockCountAfter(d, info, proposer)
      BY DEF ProcessBlockFees
    <2>2. BlockCountAfter(d, info, proposer)[u] = left
      BY <1>1 DEF BlockCountAfter
    <2> QED
      BY <2>1, <2>2
  <1>6. (\A p \in Chunk : left[p] = 0) /\ (\A p \in R : left[p] = count[p])
    BY <1>2
  <1> HIDE DEF left, count, Chunk, R
  <1>7. UnpaidBlocks(d) = BlocksOf(count)
    BY <1>1 DEF UnpaidBlocks, count
  <1>8. /\ BlocksOf(count) = Sum(count, Chunk) + Sum(count, R) /\ BlocksOf(count) \in Nat
        /\ Sum(count, Chunk) \in Nat /\ Sum(count, R) \in Nat
    BY <1>1, <1>2, SplitCounts DEF R
  <1>9. BlocksOf(left) = Sum(left, Chunk) + Sum(left, R)
    BY <1>2, <1>3, SplitCounts DEF R
  <1>10. Sum(left, Chunk) = 0 /\ Sum(left, R) = Sum(count, R)
    <2>1. 0 \in Int /\ \A p \in Chunk : left[p] = 0
      BY <1>6
    <2>2. Sum(left, Chunk) = 0 * Cardinality(Chunk)
      BY <1>2, <2>1, SumConstant, Zenon
    <2>3. Cardinality(Chunk) \in Nat
      BY <1>2, FS_CardinalityType
    <2>4. Sum(left, R) = Sum(count, R)
      BY <1>2, <1>6, SumOfSame
    <2> QED
      BY <2>2, <2>3, <2>4
  <1>11. MarkedAsPaid(d, info) => Sum(count, R) = 0
    <2> SUFFICES ASSUME MarkedAsPaid(d, info) PROVE Sum(count, R) = 0
      OBVIOUS
    <2>1. 0 \in Int /\ \A p \in R : count[p] = 0
      BY <1>4
    <2>2. Sum(count, R) = 0 * Cardinality(R)
      BY <1>2, <2>1, SumConstant, Zenon
    <2>3. Cardinality(R) \in Nat
      BY <1>2, FS_CardinalityType
    <2> QED
      BY <2>2, <2>3
  <1>12. Chunk = {} => Sum(count, Chunk) = 0
    BY SumEmpty
  <1>13. ~MarkedAsPaid(d, info) => UnpaidBlocks(after) = BlocksOf(left)
    BY <1>3, <1>5 DEF UnpaidBlocks
  <1>14. /\ MarkedAsPaid(d, info) => Sum(count, Chunk) = BlocksOf(count)
         /\ ~MarkedAsPaid(d, info) => UnpaidBlocks(after) = BlocksOf(count) - Sum(count, Chunk)
    BY <1>8, <1>9, <1>10, <1>11, <1>13
  <1> QED
    BY <1>7, <1>8, <1>12, <1>14 DEF count, Chunk, u

(* The blocks a reward is divided by are the blocks counted for the epoch. *)
LEMMA PaidBlocks ==
  ASSUME NEW d \in Databases, NEW hist, NEW info \in EpochInfos, NEW last, NEW height \in Nat,
         BlockOn(d, hist, info, last, height), BlocksMatch(d, hist, height - 1),
         NeedsPayment(d, info)
  PROVE  LET blocks == BlocksOf(hist.produced[d.unpaidEpoch])
         IN  /\ blocks \in Nat \ {0} /\ blocks = BlocksToPay(d, info, height)
             /\ blocks <= height
  <1> DEFINE u == d.unpaidEpoch
             cur == info.current
             next == NextUnpaidEpoch(d, info)
             end == EndBlockHeight(d, info, height)
             later == LaterEpochs(d, u)
  <1>1. /\ u < cur /\ Started(d, u) /\ end \in Nat /\ d.startHeight[u] \in Nat
        /\ end > d.startHeight[u]
    BY BlocksToPayPositive
  <1>2. /\ u \in EpochIndex /\ cur \in EpochIndex /\ cur # GenesisEpochIndex
        /\ \A e \in EpochIndex : e \in Nat
    <2>1. cur \in EpochIndex
      BY BlockTrees
    <2> QED
      BY <2>1 DEF Databases, EpochIndex, NeedsPayment
  <1>3. /\ next \in EpochIndex /\ u < next /\ next <= cur
        /\ next = cur \/ Started(d, next)
        /\ \A e \in EpochIndex : u < e /\ e < next => ~Started(d, e)
    BY <1>1, <1>2, NextUnpaidEpochType
  <1>4. /\ \A e \in EpochIndex : Started(d, e) =>
             d.startHeight[e] \in Nat /\ d.startHeight[e] < height /\ e <= cur
        /\ info.isChange => ~Started(d, cur)
        /\ ~info.isChange => Started(d, cur)
    BY BlockOnFacts
  <1>5. BlocksOf(hist.produced[u])
          = (IF later = {} THEN height ELSE d.startHeight[Min(later)]) - d.startHeight[u]
    <2>1. BlocksOf(hist.produced[u])
            = (IF later = {} THEN (height - 1) + 1 ELSE d.startHeight[Min(later)])
                - d.startHeight[u]
      BY <1>1, <1>2 DEF BlocksMatch
    <2> HIDE DEF later
    <2>2. (height - 1) + 1 = height
      OBVIOUS
    <2> QED
      BY <2>1, <2>2
  <1> HIDE DEF next, end
  <1>6. CASE next = cur /\ info.isChange
    <2>1. later = {}
      <3> SUFFICES ASSUME NEW e \in EpochIndex, e > u, Started(d, e) PROVE FALSE
        BY DEF LaterEpochs
      <3>1. e <= cur /\ e # cur /\ e \in Nat
        BY <1>2, <1>4, <1>6
      <3>2. e < next
        <4>1. cur \in Nat /\ next = cur
          BY <1>2, <1>6
        <4> HIDE DEF cur
        <4> QED
          BY <3>1, <4>1
      <3> QED
        BY <1>3, <3>2
    <2>2. end = height
      BY <1>6 DEF end, next, EndBlockHeight
    <2> HIDE DEF later
    <2> QED
      BY <1>1, <1>5, <2>1, <2>2 DEF BlocksToPay, end
  <1>7. CASE ~(next = cur /\ info.isChange)
    <2>1. Started(d, next)
      BY <1>3, <1>4, <1>7
    <2>2. later \in SUBSET Nat /\ next \in later
      BY <1>2, <1>3, <2>1 DEF LaterEpochs
    <2>3. Min(later) = next
      <3>1. Min(later) \in later /\ Min(later) <= next
        BY <2>2, LeastElement
      <3>2. Min(later) \in EpochIndex /\ u < Min(later) /\ Started(d, Min(later))
        BY <1>2, <3>1 DEF LaterEpochs
      <3>3. ~(Min(later) < next)
        BY <1>3, <3>2
      <3>4. Min(later) \in Nat /\ next \in Nat
        BY <1>2, <1>3, <3>2
      <3> HIDE DEF later
      <3> QED
        BY <3>1, <3>3, <3>4
    <2>4. end = d.startHeight[next] /\ end < height
      <3>1. end = d.startHeight[next]
        BY <1>7 DEF end, next, EndBlockHeight
      <3> QED
        BY <1>3, <1>4, <2>1, <3>1
    <2>5. later # {}
      BY <2>2
    <2> HIDE DEF later
    <2> QED
      BY <1>1, <1>5, <2>3, <2>4, <2>5 DEF BlocksToPay, end
  <1> QED
    BY <1>6, <1>7

(* What a block pays of the unpaid epoch. *)
LEMMA PayoutOfBlock ==
  ASSUME NEW d \in Databases, NEW hist, NEW info \in EpochInfos, NEW last, NEW height \in Nat,
         BlockOn(d, hist, info, last, height), BlocksMatch(d, hist, height - 1),
         NeedsPayment(d, info), height <= MaxHeight
  PROVE  LET u       == d.unpaidEpoch
             blocks  == BlocksOf(hist.produced[u])
             counted == Sum(d.blockCount[u], PaidChunk(d, info))
             total   == TotalOf(Payments(d, info, height))
         IN  /\ Payable(d) /\ blocks \in Nat \ {0}
             /\ CreditsOf(d, u) \in Nat /\ counted \in Nat /\ total \in Nat
             /\ blocks * total <= CreditsOf(d, u) * counted
             /\ CreditsOf(d, u) * counted <= blocks * total + blocks
             /\ Payments(d, info, height) \in Seq(Payment)
             /\ DistinctPayees => DistinctIds(Payments(d, info, height))
  <1> DEFINE u == d.unpaidEpoch
             blocks == BlocksOf(hist.produced[u])
  <1>1. Payable(d)
    BY BlockSucceeds DEF ProcessBlockFeesFails, PayoutFails, Payable
  <1>2. blocks \in Nat \ {0} /\ blocks = BlocksToPay(d, info, height) /\ blocks <= height
    BY PaidBlocks
  <1>3. blocks <= MaxHeight
    BY <1>2, BoundsAssumption
  <1>4. TotalCredits(d) = CreditsOf(d, u) /\ TotalCredits(d) \in Nat
    BY <1>1, PayableTypes DEF TotalCredits, CreditsOf, Payable
  <1> HIDE DEF blocks
  <1>5. LET counted == Sum(d.blockCount[d.unpaidEpoch], PaidChunk(d, info))
            total   == TotalOf(Payments(d, info, height))
        IN  /\ counted \in Nat /\ total \in Nat
            /\ blocks * total <= TotalCredits(d) * counted
            /\ TotalCredits(d) * counted <= blocks * total + blocks
    BY <1>1, <1>2, <1>3, PayoutBounds
  <1>6. Payments(d, info, height) \in Seq(Payment)
    BY <1>1, <1>2, PaymentsType
  <1>7. DistinctPayees => DistinctIds(Payments(d, info, height))
    BY <1>1, <1>2, PaymentsDistinct
  <1> QED
    BY <1>1, <1>2, <1>4, <1>5, <1>6, <1>7 DEF blocks
-----------------------------------------------------------------------------
(* All the credits that are held: pools, epochs and balances. *)
TotalHeld(d) == d.storagePool + EpochPools(d) + Balances(d)

(* A block adds its fees, and moves credits from the unpaid epoch to the    *)
(* balances: what a payment gains for a balance is paid by the epoch when   *)
(* the epoch is passed as paid.                                             *)
LEMMA HeldAfterBlock ==
  ASSUME NEW d \in Databases, NEW hist, NEW info \in EpochInfos, NEW last, NEW height \in Nat,
         BlockOn(d, hist, info, last, height), EmptyAhead(d),
         NEW proposer \in Proposers, NEW fees \in [storage : Credits, processing : Credits],
         NEW after \in Databases, after = ProcessBlockFees(d, info, height, proposer, fees),
         NeedsPayment(d, info) => Payments(d, info, height) \in Seq(Payment)
  PROVE  LET total == TotalOf(Payments(d, info, height))
             gone  == IF MarkedAsPaid(d, info) THEN CreditsOf(d, d.unpaidEpoch) ELSE 0
         IN  /\ TotalHeld(d) \in Nat /\ TotalHeld(after) \in Nat
             /\ EmptyAhead(after)
             /\ d.unpaidEpoch < info.current /\ ~MarkedAsPaid(d, info) =>
                  CreditsOf(after, d.unpaidEpoch) = CreditsOf(d, d.unpaidEpoch)
             /\ ~NeedsPayment(d, info) =>
                  TotalHeld(after) = TotalHeld(d) + fees.storage + fees.processing
             /\ NeedsPayment(d, info) =>
                  \E gain \in Nat :
                    /\ TotalHeld(after) + gone
                         = TotalHeld(d) + fees.storage + fees.processing + gain
                    /\ gain <= total
                    /\ DistinctIds(Payments(d, info, height)) => gain = total
  <1> DEFINE u == d.unpaidEpoch
             payments == Payments(d, info, height)
             total == TotalOf(payments)
             gone == IF MarkedAsPaid(d, info) THEN CreditsOf(d, u) ELSE 0
             paid == PaidBalance(d, payments)
             fresh == fees.storage + fees.processing
  <1>1. /\ d.storagePool \in Nat /\ after.storagePool \in Nat
        /\ fees.storage \in Nat /\ fees.processing \in Nat
        /\ d.balance \in [Identities -> Nat] /\ after.balance \in [Identities -> Nat]
        /\ IsFiniteSet(Identities) /\ u \in EpochIndex
    BY ProposersAssumption DEF Databases, Credits
  <1>2. /\ EpochPools(d) \in Nat /\ EpochPools(after) \in Nat /\ CreditsOf(d, u) \in Nat
    <2>1. EpochPools(d) \in Nat /\ EpochPools(after) \in Nat
      BY EpochCreditsType
    <2>2. EpochCredits(d) \in [EpochIndex -> Nat]
      BY EpochCreditsType
    <2> QED
      BY <1>1, <2>1, <2>2 DEF EpochCredits
  <1>3. Balances(d) \in Nat /\ Balances(after) \in Nat
    <2>1. /\ \A i \in Identities : d.balance[i] \in Nat
          /\ \A i \in Identities : after.balance[i] \in Nat
      BY <1>1
    <2>2. Balances(d) \in Nat
      BY <1>1, <2>1, SumNat DEF Balances
    <2>3. Balances(after) \in Nat
      BY <1>1, <2>1, SumNat DEF Balances
    <2> QED
      BY <2>2, <2>3
  <1>4. TotalHeld(d) \in Nat /\ TotalHeld(after) \in Nat
    <2>1. d.storagePool \in Nat /\ after.storagePool \in Nat
      BY <1>1
    <2>2. EpochPools(d) \in Nat /\ EpochPools(after) \in Nat
      BY <1>2
    <2> QED
      BY <1>3, <2>1, <2>2 DEF TotalHeld
  <1>5. /\ EmptyAhead(after)
        /\ after.storagePool + EpochPools(after) + gone
             = d.storagePool + EpochPools(d) + fees.storage + fees.processing
        /\ u < info.current /\ ~MarkedAsPaid(d, info) => CreditsOf(after, u) = CreditsOf(d, u)
    <2>1. u <= info.current
      BY BlockOnFacts
    <2> QED
      BY <2>1, PoolsAfterBlock
  <1>6. after.balance = IF NeedsPayment(d, info) THEN paid ELSE d.balance
    BY DEF ProcessBlockFees
  <1>7. gone \in Nat
    BY <1>2
  <1>8. ASSUME ~NeedsPayment(d, info)
        PROVE  TotalHeld(after) = TotalHeld(d) + fees.storage + fees.processing
    <2>1. gone = 0 /\ Balances(after) = Balances(d)
      BY <1>6, <1>8 DEF MarkedAsPaid, Balances
    <2> HIDE DEF gone
    <2>2. /\ d.storagePool \in Nat /\ after.storagePool \in Nat
          /\ fees.storage \in Nat /\ fees.processing \in Nat
      BY <1>1
    <2>3. EpochPools(d) \in Nat /\ EpochPools(after) \in Nat
      BY <1>2
    <2>4. after.storagePool + EpochPools(after) + gone
            = d.storagePool + EpochPools(d) + fees.storage + fees.processing
      BY <1>5
    <2>5. /\ TotalHeld(d) = d.storagePool + EpochPools(d) + Balances(d)
          /\ TotalHeld(after) = after.storagePool + EpochPools(after) + Balances(after)
      BY DEF TotalHeld
    <2>6. after.storagePool + EpochPools(after)
            = d.storagePool + EpochPools(d) + fees.storage + fees.processing
      BY <2>1, <2>2, <2>3, <2>4
    <2> QED
      BY <1>3, <2>1, <2>2, <2>3, <2>5, <2>6
  <1>9. ASSUME NeedsPayment(d, info)
        PROVE  \E gain \in Nat :
                 /\ TotalHeld(after) + gone
                      = TotalHeld(d) + fees.storage + fees.processing + gain
                 /\ gain <= total
                 /\ DistinctIds(payments) => gain = total
    <2>1. /\ payments \in Seq(Payment)
          /\ after.balance = PaidBalance(d, payments)
      BY <1>6, <1>9
    <2>2. /\ Balances(after) <= Balances(d) + total
          /\ DistinctIds(payments) => Balances(after) = Balances(d) + total
      <3> HIDE DEF payments
      <3> QED
        BY <2>1, PaidBalances DEF Balances
    <2>3. Balances(d) <= Balances(after)
      <3>1. \A i \in Identities : d.balance[i] <= after.balance[i]
        <4> TAKE i \in Identities
        <4> DEFINE writes == {k \in DOMAIN payments : payments[k].id = i}
        <4>1. after.balance[i] = IF writes = {} THEN d.balance[i]
                                 ELSE d.balance[i] + payments[Max(writes)].amount
          BY <2>1 DEF PaidBalance
        <4>2. writes # {} => payments[Max(writes)].amount \in Nat
          <5> SUFFICES ASSUME writes # {} PROVE payments[Max(writes)].amount \in Nat
            OBVIOUS
          <5> HIDE DEF payments
          <5>1. DOMAIN payments = 1 .. Len(payments) /\ Len(payments) \in Nat
            BY <2>1
          <5>2. writes \in SUBSET (1 .. Len(payments))
            BY <5>1
          <5>3. Max(writes) \in writes
            <6> HIDE DEF writes
            <6> QED
              BY <5>1, <5>2, GreatestElement
          <5>4. Max(writes) \in 1 .. Len(payments)
            BY <5>2, <5>3
          <5>5. payments[Max(writes)] \in Payment
            <6> HIDE DEF writes
            <6> QED
              BY <2>1, <5>4, ElementOfSeq
          <5> QED
            BY <5>5 DEF Payment, Credits
        <4>3. d.balance[i] \in Nat
          BY <1>1
        <4> HIDE DEF writes, payments
        <4> QED
          BY <4>1, <4>2, <4>3
      <3>2. \A i \in Identities : d.balance[i] \in Int /\ after.balance[i] \in Int
        BY <1>1
      <3> QED
        BY <1>1, <3>1, <3>2, SumMonotone DEF Balances
    <2> DEFINE gain == Balances(after) - Balances(d)
    <2>4. gain \in Nat
      BY <1>3, <2>3
    <2>5. total \in Nat
      <3> HIDE DEF payments
      <3> QED
        BY <2>1, TotalType
    <2> HIDE DEF gone, total, payments
    <2>6. gain <= total /\ (DistinctIds(payments) => gain = total)
      BY <1>3, <2>2, <2>5
    <2>7. TotalHeld(after) + gone = TotalHeld(d) + fees.storage + fees.processing + gain
      <3>1. /\ TotalHeld(d) = d.storagePool + EpochPools(d) + Balances(d)
            /\ TotalHeld(after) = after.storagePool + EpochPools(after) + Balances(after)
        BY DEF TotalHeld
      <3>2. after.storagePool + EpochPools(after) + gone
              = d.storagePool + EpochPools(d) + fees.storage + fees.processing
        BY <1>5
      <3>3. gain = Balances(after) - Balances(d)
        OBVIOUS
      <3> DEFINE held == after.storagePool + EpochPools(after) + gone
                 before == d.storagePool + EpochPools(d)
      <3> HIDE DEF gain
      <3>4. held \in Int /\ TotalHeld(after) + gone = held + Balances(after)
        BY <1>1, <1>2, <1>3, <1>7, <3>1
      <3>5. Balances(after) = Balances(d) + gain
        BY <1>3, <2>4, <3>3
      <3>6. before \in Int /\ TotalHeld(d) = before + Balances(d)
        BY <1>1, <1>2, <3>1
      <3>7. held = before + fees.storage + fees.processing
        BY <3>2
      <3> HIDE DEF held, before
      <3> QED
        BY <1>1, <1>3, <2>4, <3>4, <3>5, <3>6, <3>7
    <2> QED
      BY <2>4, <2>6, <2>7
  <1> QED
    BY <1>4, <1>5, <1>8, <1>9
-----------------------------------------------------------------------------
LEMMA WithinAfterPayment ==
  ASSUME NEW b \in Nat \ {0}, NEW c \in Nat, NEW unpaid \in Int, NEW k \in Nat, NEW x \in Int,
         NEW gain \in Nat, NEW total \in Nat, gain <= total, b * total <= c * k,
         b * x <= c * (b - unpaid)
  PROVE  b * (x + gain) <= c * (b - (unpaid - k))
  <1> DEFINE bx == b * x
             bg == b * gain
             bt == b * total
             ck == c * k
             cu == c * (b - unpaid)
  <1>1. bx \in Int /\ bg \in Int /\ bt \in Int /\ ck \in Int /\ cu \in Int
    BY Z3
  <1>2. b * (x + gain) = bx + bg
    BY Z3
  <1>3. c * (b - (unpaid - k)) = cu + ck
    <2>1. b - (unpaid - k) = (b - unpaid) + k /\ b - unpaid \in Int
      OBVIOUS
    <2> DEFINE r == b - unpaid
    <2>2. r \in Int /\ b - (unpaid - k) = r + k
      BY <2>1
    <2> HIDE DEF r
    <2>3. c * (r + k) = c * r + c * k
      BY <2>2, Z3
    <2> QED
      BY <2>2, <2>3 DEF r
  <1>4. bg <= bt
    BY Z3
  <1>5. bt <= ck /\ bx <= cu
    OBVIOUS
  <1> HIDE DEF bx, bg, bt, ck, cu
  <1>6. bx + bg <= cu + ck
    BY <1>1, <1>4, <1>5
  <1> QED
    BY <1>2, <1>3, <1>6

LEMMA OwedAfterPayment ==
  ASSUME NEW b \in Nat \ {0}, NEW c \in Nat, NEW unpaid \in Int, NEW k \in Nat, NEW x \in Int,
         NEW total \in Nat, NEW more \in {0, 1}, NEW chunks \in Nat,
         c * k <= b * total + b * more, c * (b - unpaid) <= b * (x + chunks)
  PROVE  c * (b - (unpaid - k)) <= b * (x + total + (chunks + more))
  <1> DEFINE bx == b * (x + chunks)
             bt == b * total
             bm == b * more
             ck == c * k
             cu == c * (b - unpaid)
  <1>1. bx \in Int /\ bt \in Int /\ bm \in Int /\ ck \in Int /\ cu \in Int
    <2>1. x + chunks \in Int /\ more \in Int /\ b - unpaid \in Int
      OBVIOUS
    <2> QED
      BY <2>1, Z3
  <1>2. b * (x + total + (chunks + more)) = bx + bt + bm
    <2> DEFINE r == x + chunks
    <2>1. r \in Int /\ x + total + (chunks + more) = r + total + more /\ more \in Int
      OBVIOUS
    <2> HIDE DEF r
    <2>2. b * (r + total + more) = b * r + b * total + b * more
      BY <2>1, Z3
    <2> QED
      BY <2>1, <2>2 DEF r
  <1>3. c * (b - (unpaid - k)) = cu + ck
    <2> DEFINE r == b - unpaid
    <2>2. r \in Int /\ b - (unpaid - k) = r + k
      OBVIOUS
    <2> HIDE DEF r
    <2>3. c * (r + k) = c * r + c * k
      BY <2>2, Z3
    <2> QED
      BY <2>2, <2>3 DEF r
  <1>4. ck <= bt + bm /\ cu <= bx
    OBVIOUS
  <1> HIDE DEF bx, bt, bm, ck, cu
  <1>5. cu + ck <= bx + bt + bm
    BY <1>1, <1>4
  <1> QED
    BY <1>2, <1>3, <1>5

(* A product's sign is its factor's. *)
LEMMA SignOfProduct ==
  ASSUME NEW b \in Nat \ {0}, NEW x \in Int, NEW y \in Int
  PROVE  /\ b * x <= b * y => x <= y
         /\ x <= y => b * x <= b * y
  BY Z3

(* When no proposer of the unpaid epoch is paid, all its blocks are unpaid. *)
LEMMA AllUnpaid ==
  ASSUME NEW d \in Databases, NEW hist \in Histories, NEW last, PoolsInv(d, hist, last),
         \A p \in Proposers : hist.payments[d.unpaidEpoch][p] = 0
  PROVE  /\ UnpaidBlocks(d) = BlocksOf(hist.produced[d.unpaidEpoch])
         /\ UnpaidBlocks(d) \in Nat
  <1> DEFINE u == d.unpaidEpoch
             count == d.blockCount[u]
             made == hist.produced[u]
  <1>1. /\ u \in EpochIndex /\ u \in Nat
        /\ count \in OrMissing([Proposers -> Nat]) /\ made \in [Proposers -> Nat]
    <2>1. u \in EpochIndex /\ u \in Nat
      BY DEF Databases, EpochIndex
    <2>2. d.blockCount \in [EpochIndex -> OrMissing([Proposers -> Nat])]
      BY DEF Databases
    <2>3. hist.produced \in [EpochIndex -> [Proposers -> Nat]]
      BY DEF Histories
    <2> QED
      BY <2>1, <2>2, <2>3
  <1>2. count # Missing /\ \A p \in Proposers : count[p] = made[p]
    <2>1. Started(d, u) /\ count # Missing /\ \A p \in Proposers : EntryInv(d, hist, last, u, p)
      BY <1>1 DEF PoolsInv
    <2> QED
      BY <1>1, <2>1 DEF EntryInv
  <1>3. count = made
    BY <1>1, <1>2 DEF OrMissing
  <1>4. BlocksOf(made) \in Nat
    BY <1>1, SplitCounts
  <1> QED
    BY <1>2, <1>3, <1>4 DEF UnpaidBlocks
-----------------------------------------------------------------------------
(* What is held beyond the fees collected was paid ahead of the unpaid      *)
(* epoch: it is no more than its credits in proportion to its blocks paid.  *)
(* What is missing is at most a credit for each chunk that was paid, unless *)
(* two payments of a block were to one identity.                            *)
CreditsWithin(d, hist) ==
  LET blocks  == BlocksOf(hist.produced[d.unpaidEpoch])
      owed    == CreditsOf(d, d.unpaidEpoch) * (blocks - UnpaidBlocks(d))
      surplus == TotalHeld(d) - hist.collected
  IN  /\ blocks = 0 => surplus = 0
      /\ blocks * surplus <= owed
      /\ DistinctPayees => owed <= blocks * (surplus + hist.chunks)

(* As long as no block of the unpaid epoch is paid, nothing is held beyond  *)
(* the fees.                                                                *)
LEMMA WithinWhenUnpaid ==
  ASSUME NEW d \in Databases, NEW hist \in Histories, TotalHeld(d) \in Nat,
         NEW blocks \in Nat, blocks = BlocksOf(hist.produced[d.unpaidEpoch]),
         blocks = 0 \/ UnpaidBlocks(d) = blocks
  PROVE  LET surplus == TotalHeld(d) - hist.collected
             within  == surplus <= 0 /\ (DistinctPayees => 0 <= surplus + hist.chunks)
         IN  /\ CreditsWithin(d, hist) => within
             /\ within /\ blocks # 0 => CreditsWithin(d, hist)
  <1> DEFINE surplus == TotalHeld(d) - hist.collected
             owed == CreditsOf(d, d.unpaidEpoch) * (blocks - UnpaidBlocks(d))
             below == surplus + hist.chunks
  <1>1. surplus \in Int /\ below \in Int /\ hist.chunks \in Nat
    BY DEF Histories
  <1>2. CreditsOf(d, d.unpaidEpoch) \in Nat
    <2>1. d.unpaidEpoch \in EpochIndex /\ EpochCredits(d) \in [EpochIndex -> Nat]
      BY EpochCreditsType DEF Databases
    <2> QED
      BY <2>1 DEF EpochCredits
  <1>3. CreditsWithin(d, hist) <=> /\ blocks = 0 => surplus = 0
                                   /\ blocks * surplus <= owed
                                   /\ DistinctPayees => owed <= blocks * below
    BY DEF CreditsWithin
  <1>4. blocks # 0 => owed = 0
    <2> SUFFICES ASSUME blocks # 0 PROVE owed = 0
      OBVIOUS
    <2>1. blocks - UnpaidBlocks(d) = 0
      OBVIOUS
    <2>2. CreditsOf(d, d.unpaidEpoch) * 0 = 0
      BY <1>2
    <2> QED
      BY <2>1, <2>2
  <1>5. below = surplus + hist.chunks
    OBVIOUS
  <1> HIDE DEF owed, surplus, below
  <1>6. CASE blocks = 0
    <2>1. CreditsWithin(d, hist) => surplus = 0
      BY <1>3, <1>6
    <2>2. surplus = 0 => surplus <= 0 /\ 0 <= below
      BY <1>1, <1>5
    <2> QED
      BY <1>6, <2>1, <2>2 DEF surplus, below
  <1>7. CASE blocks # 0
    <2>1. blocks \in Nat \ {0} /\ 0 \in Int /\ blocks * 0 = 0
      BY <1>7
    <2>2. blocks * surplus <= 0 <=> surplus <= 0
      BY <1>1, <2>1, SignOfProduct
    <2>3. 0 <= blocks * below <=> 0 <= below
      BY <1>1, <2>1, SignOfProduct
    <2> QED
      BY <1>3, <1>4, <1>7, <2>2, <2>3 DEF surplus, below
  <1> QED
    BY <1>6, <1>7

(* An epoch that started has blocks. *)
LEMMA StartedHasBlocks ==
  ASSUME NEW d \in Databases, NEW hist, NEW info \in EpochInfos, NEW last, NEW height \in Nat,
         BlockOn(d, hist, info, last, height), BlocksMatch(d, hist, height - 1),
         NEW e \in EpochIndex, Started(d, e)
  PROVE  BlocksOf(hist.produced[e]) \in Nat \ {0}
  <1> DEFINE later == LaterEpochs(d, e)
             end == IF later = {} THEN (height - 1) + 1 ELSE d.startHeight[Min(later)]
  <1>1. /\ d.startHeight[e] \in Nat /\ d.startHeight[e] < height
        /\ \A f \in EpochIndex : Started(d, f) => d.startHeight[f] \in Nat
        /\ \A f \in EpochIndex : e < f /\ Started(d, f) => d.startHeight[e] < d.startHeight[f]
    BY BlockOnFacts
  <1>2. BlocksOf(hist.produced[e]) = end - d.startHeight[e]
    BY DEF BlocksMatch
  <1>3. end \in Nat /\ end > d.startHeight[e]
    <2>1. CASE later = {}
      BY <1>1, <2>1
    <2>2. CASE later # {}
      <3>1. later \in SUBSET Nat
        BY DEF LaterEpochs, EpochIndex
      <3>2. Min(later) \in later
        <4> HIDE DEF later
        <4> QED
          BY <2>2, <3>1, LeastElement
      <3>3. Min(later) \in EpochIndex /\ Min(later) > e /\ Started(d, Min(later))
        BY <3>2 DEF LaterEpochs
      <3>4. e < Min(later)
        BY <3>3 DEF EpochIndex
      <3> HIDE DEF later
      <3> QED
        BY <1>1, <2>2, <3>3, <3>4
    <2> QED
      BY <2>1, <2>2
  <1> HIDE DEF end
  <1> QED
    BY <1>1, <1>2, <1>3

(* What a block's end adds to the history. *)
Recorded(d, hist, info, proposer, fees, histAfter) ==
  /\ \A e \in EpochIndex, p \in Proposers :
       /\ histAfter.produced[e][p] =
            hist.produced[e][p] + (IF e = info.current /\ p = proposer THEN 1 ELSE 0)
       /\ histAfter.payments[e][p] =
            hist.payments[e][p] + (IF /\ e = d.unpaidEpoch /\ NeedsPayment(d, info)
                                      /\ p \in PaidChunk(d, info) THEN 1 ELSE 0)
  /\ histAfter.collected = hist.collected + fees.storage + fees.processing
  /\ histAfter.chunks =
       hist.chunks + (IF NeedsPayment(d, info) /\ PaidChunk(d, info) # {} THEN 1 ELSE 0)

(* A block leaves the blocks counted for the other epochs alone. *)
LEMMA RecordedBlocks ==
  ASSUME NEW d, NEW hist \in Histories, NEW info, info.current \in EpochIndex,
         NEW proposer \in Proposers, NEW fees, NEW histAfter \in Histories,
         Recorded(d, hist, info, proposer, fees, histAfter), NEW e \in EpochIndex
  PROVE  /\ BlocksOf(hist.produced[e]) \in Nat
         /\ e = info.current =>
              BlocksOf(histAfter.produced[e]) = BlocksOf(hist.produced[e]) + 1
         /\ e # info.current => BlocksOf(histAfter.produced[e]) = BlocksOf(hist.produced[e])
  <1>1. hist.produced[e] \in [Proposers -> Nat] /\ histAfter.produced[e] \in [Proposers -> Nat]
    BY DEF Histories
  <1>2. \A p \in Proposers : histAfter.produced[e][p] =
          hist.produced[e][p] + (IF e = info.current /\ p = proposer THEN 1 ELSE 0)
    BY DEF Recorded
  <1>3. BlocksOf(hist.produced[e]) \in Nat
    BY <1>1, SplitCounts
  <1>4. CASE e = info.current
    <2>1. \A p \in Proposers : histAfter.produced[e][p] =
            hist.produced[e][p] + (IF p = proposer THEN 1 ELSE 0)
      BY <1>2, <1>4
    <2> QED
      BY <1>1, <1>4, <2>1, CountBlock
  <1>5. CASE e # info.current
    <2>1. \A p \in Proposers : histAfter.produced[e][p] = hist.produced[e][p]
      BY <1>1, <1>2, <1>5
    <2>2. histAfter.produced[e] = hist.produced[e]
      BY <1>1, <2>1
    <2> QED
      BY <1>3, <1>5, <2>2
  <1> QED
    BY <1>4, <1>5

(* A block that owes nothing, or that settles the unpaid epoch, leaves an   *)
(* unpaid epoch that is not paid yet.                                       *)
LEMMA UnpaidEpochAfter ==
  ASSUME NEW d \in Databases, NEW hist \in Histories, NEW info \in EpochInfos, NEW last,
         NEW height \in Nat,
         BlockOn(d, hist, info, last, height), BlocksMatch(d, hist, height - 1),
         NEW proposer \in Proposers, NEW fees \in [storage : Credits, processing : Credits],
         NEW after \in Databases, after = ProcessBlockFees(d, info, height, proposer, fees),
         NEW histAfter \in Histories, Recorded(d, hist, info, proposer, fees, histAfter)
  PROVE  /\ NeedsPayment(d, info) /\ ~MarkedAsPaid(d, info) =>
              /\ after.unpaidEpoch = d.unpaidEpoch /\ d.unpaidEpoch < info.current
              /\ BlocksOf(histAfter.produced[after.unpaidEpoch])
                   = BlocksOf(hist.produced[d.unpaidEpoch])
         /\ ~NeedsPayment(d, info) \/ MarkedAsPaid(d, info) =>
              /\ BlocksOf(histAfter.produced[after.unpaidEpoch]) \in Nat \ {0}
              /\ UnpaidBlocks(after) = BlocksOf(histAfter.produced[after.unpaidEpoch])
         /\ ~NeedsPayment(d, info) =>
              \/ BlocksOf(hist.produced[d.unpaidEpoch]) = 0
              \/ UnpaidBlocks(d) = BlocksOf(hist.produced[d.unpaidEpoch])
  <1> DEFINE u == d.unpaidEpoch
             cur == info.current
             next == NextUnpaidEpoch(d, info)
             new == after.unpaidEpoch
  <1>1. /\ cur \in EpochIndex /\ u \in EpochIndex /\ new \in EpochIndex
        /\ \A e \in EpochIndex : e \in Nat
        /\ u <= cur
    <2>1. cur \in EpochIndex
      BY BlockTrees
    <2>2. u <= cur
      BY BlockOnFacts
    <2>3. u \in EpochIndex /\ new \in EpochIndex /\ \A e \in EpochIndex : e \in Nat
      BY DEF Databases, EpochIndex
    <2> QED
      BY <2>1, <2>2, <2>3
  <1>2. \/ FreshPools(d, hist) /\ cur = GenesisEpochIndex /\ info.isChange
        \/ /\ PoolsInv(d, hist, last) /\ last <= cur
           /\ info.isChange <=> last < cur
    BY DEF BlockOn
  <1>3. PoolsInv(after, histAfter, cur)
    <2>1. \A e \in EpochIndex, p \in Proposers :
            /\ histAfter.produced[e][p] =
                 hist.produced[e][p] + (IF e = cur /\ p = proposer THEN 1 ELSE 0)
            /\ histAfter.payments[e][p] =
                 hist.payments[e][p] + (IF /\ e = u /\ NeedsPayment(d, info)
                                           /\ p \in PaidChunk(d, info) THEN 1 ELSE 0)
      BY DEF Recorded
    <2>2. info.current \in EpochIndex
      BY <1>1
    <2>3. \/ FreshPools(d, hist) /\ info.current = GenesisEpochIndex /\ info.isChange
          \/ /\ PoolsInv(d, hist, last) /\ last <= info.current
             /\ info.isChange <=> last < info.current
      BY <1>2
    <2> QED
      BY <2>1, <2>2, <2>3, BlockKeepsPoolsInv, ZenonT(60)
  <1>4. new = IF MarkedAsPaid(d, info) THEN next ELSE u
    BY DEF ProcessBlockFees
  <1>5. NeedsPayment(d, info) => u < cur /\ cur # GenesisEpochIndex /\ u # cur
    BY BlocksToPayPositive DEF NeedsPayment
  <1>6. ~NeedsPayment(d, info) => u = cur
    BY <1>1 DEF NeedsPayment, GenesisEpochIndex
  <1>7. ASSUME NeedsPayment(d, info)
        PROVE  /\ next \in EpochIndex /\ u < next /\ next <= cur /\ next # u
               /\ next = cur \/ Started(d, next)
    BY <1>1, <1>5, <1>7, NextUnpaidEpochType
  <1>8. \A e \in EpochIndex, p \in Proposers : hist.payments[e][p] \in Nat
    BY DEF Histories
  <1> HIDE DEF next
  <1>9. ASSUME NeedsPayment(d, info), ~MarkedAsPaid(d, info)
        PROVE  /\ new = u /\ u < cur
               /\ BlocksOf(histAfter.produced[new]) = BlocksOf(hist.produced[u])
    <2>1. new = u /\ u < cur /\ u # cur
      BY <1>4, <1>5, <1>9
    <2>2. u # cur => BlocksOf(histAfter.produced[u]) = BlocksOf(hist.produced[u])
      <3>1. info.current \in EpochIndex /\ u \in EpochIndex
        BY <1>1
      <3>2. Recorded(d, hist, info, proposer, fees, histAfter)
        OBVIOUS
      <3> HIDE DEF u
      <3> QED
        BY <3>1, <3>2, RecordedBlocks
    <2> QED
      BY <2>1, <2>2
  <1>10. ASSUME ~NeedsPayment(d, info) \/ MarkedAsPaid(d, info)
         PROVE  /\ BlocksOf(histAfter.produced[new]) \in Nat \ {0}
                /\ UnpaidBlocks(after) = BlocksOf(histAfter.produced[new])
    <2>1. /\ BlocksOf(hist.produced[new]) \in Nat
          /\ new = cur => BlocksOf(histAfter.produced[new]) = BlocksOf(hist.produced[new]) + 1
          /\ new # cur => BlocksOf(histAfter.produced[new]) = BlocksOf(hist.produced[new])
      BY <1>1, RecordedBlocks
    <2>2. new # cur => BlocksOf(hist.produced[new]) \in Nat \ {0}
      <3> SUFFICES ASSUME new # cur PROVE BlocksOf(hist.produced[new]) \in Nat \ {0}
        OBVIOUS
      <3>1. Started(d, new)
        BY <1>4, <1>6, <1>7, <1>10 DEF MarkedAsPaid
      <3> QED
        BY <1>1, <3>1, StartedHasBlocks
    <2>3. \A p \in Proposers : histAfter.payments[new][p] = 0
      <3> TAKE p \in Proposers
      <3>1. EntryInv(after, histAfter, cur, new, p)
        BY <1>1, <1>3 DEF PoolsInv
      <3>2. CASE new = cur
        BY <1>1, <3>1, <3>2 DEF EntryInv
      <3>3. CASE new # cur
        <4>1. /\ MarkedAsPaid(d, info) /\ NeedsPayment(d, info)
              /\ new = next /\ new > u /\ new # u
          BY <1>1, <1>4, <1>6, <1>7, <1>10, <3>3 DEF MarkedAsPaid
        <4>2. PoolsInv(d, hist, last)
          BY <4>1, BlocksToPayPositive
        <4>3. hist.payments[new][p] = 0
          <5>1. EntryInv(d, hist, last, new, p)
            BY <1>1, <4>2 DEF PoolsInv
          <5> QED
            BY <4>1, <5>1 DEF EntryInv
        <4>4. histAfter.payments[new][p] = hist.payments[new][p] + 0
          BY <1>1, <4>1 DEF Recorded
        <4> QED
          BY <4>3, <4>4
      <3> QED
        BY <3>2, <3>3
    <2>4. UnpaidBlocks(after) = BlocksOf(histAfter.produced[new])
      BY <1>3, <2>3, AllUnpaid
    <2> QED
      BY <2>1, <2>2, <2>4
  <1>11. ASSUME ~NeedsPayment(d, info)
         PROVE  BlocksOf(hist.produced[u]) = 0 \/ UnpaidBlocks(d) = BlocksOf(hist.produced[u])
    <2>1. CASE FreshPools(d, hist)
      <3>1. \A p \in Proposers : hist.produced[u][p] = 0
        BY <1>1, <2>1 DEF FreshPools, EmptyHistory, NoBlocks
      <3> QED
        BY <3>1, CountNothing
    <2>2. CASE PoolsInv(d, hist, last) /\ last <= cur
      <3>1. u >= last
        BY <1>1, <1>6, <1>11, <2>2 DEF PoolsInv
      <3>2. \A p \in Proposers : hist.payments[u][p] = 0
        <4> TAKE p \in Proposers
        <4>1. EntryInv(d, hist, last, u, p)
          BY <1>1, <2>2 DEF PoolsInv
        <4> QED
          BY <3>1, <4>1 DEF EntryInv
      <3> QED
        BY <2>2, <3>2, AllUnpaid
    <2> QED
      BY <1>2, <2>1, <2>2
  <1> QED
    BY <1>9, <1>10, <1>11

(* One block keeps the credits within the fees. *)
LEMMA BlockKeepsCredits ==
  ASSUME NEW d \in Databases, NEW hist \in Histories, NEW info \in EpochInfos, NEW last,
         NEW height \in Nat, height <= MaxHeight,
         BlockOn(d, hist, info, last, height), BlocksMatch(d, hist, height - 1),
         EmptyAhead(d), CreditsWithin(d, hist),
         NEW proposer \in Proposers, NEW fees \in [storage : Credits, processing : Credits],
         NEW after \in Databases, after = ProcessBlockFees(d, info, height, proposer, fees),
         NEW histAfter \in Histories, Recorded(d, hist, info, proposer, fees, histAfter)
  PROVE  EmptyAhead(after) /\ CreditsWithin(after, histAfter)
  <1> DEFINE u == d.unpaidEpoch
             needs == NeedsPayment(d, info)
             marked == MarkedAsPaid(d, info)
             payments == Payments(d, info, height)
             total == TotalOf(payments)
             counted == Sum(d.blockCount[u], PaidChunk(d, info))
             b == BlocksOf(hist.produced[u])
             bAfter == BlocksOf(histAfter.produced[after.unpaidEpoch])
             c == CreditsOf(d, u)
             x == TotalHeld(d) - hist.collected
             xAfter == TotalHeld(after) - histAfter.collected
             m == hist.chunks
             mAfter == histAfter.chunks
             more == IF needs /\ PaidChunk(d, info) # {} THEN 1 ELSE 0
  <1>1. needs => /\ Payable(d) /\ b \in Nat \ {0}
                 /\ c \in Nat /\ counted \in Nat /\ total \in Nat
                 /\ b * total <= c * counted
                 /\ c * counted <= b * total + b
                 /\ payments \in Seq(Payment)
                 /\ DistinctPayees => DistinctIds(payments)
    BY PayoutOfBlock
  <1>2. /\ TotalHeld(d) \in Nat /\ TotalHeld(after) \in Nat
        /\ EmptyAhead(after)
        /\ u < info.current /\ ~marked => CreditsOf(after, u) = CreditsOf(d, u)
        /\ ~needs => TotalHeld(after) = TotalHeld(d) + fees.storage + fees.processing
        /\ needs =>
             \E gain \in Nat :
               /\ TotalHeld(after) + (IF marked THEN c ELSE 0)
                    = TotalHeld(d) + fees.storage + fees.processing + gain
               /\ gain <= total
               /\ DistinctIds(payments) => gain = total
    BY <1>1, HeldAfterBlock
  <1>3. /\ needs /\ ~marked =>
             /\ after.unpaidEpoch = u /\ u < info.current /\ bAfter = b
        /\ ~needs \/ marked => bAfter \in Nat \ {0} /\ UnpaidBlocks(after) = bAfter
        /\ ~needs => b = 0 \/ UnpaidBlocks(d) = b
    BY UnpaidEpochAfter
  <1>4. needs => /\ UnpaidBlocks(d) \in Nat
                 /\ marked => counted = UnpaidBlocks(d)
                 /\ ~marked => UnpaidBlocks(after) = UnpaidBlocks(d) - counted
                 /\ PaidChunk(d, info) = {} => counted = 0
    BY <1>1, UnpaidAfterBlock
  <1>5. /\ hist.collected \in Nat /\ m \in Nat /\ mAfter \in Nat /\ more \in {0, 1}
        /\ fees.storage \in Nat /\ fees.processing \in Nat
        /\ histAfter.collected = hist.collected + fees.storage + fees.processing
        /\ mAfter = m + more
    BY DEF Histories, Credits, Recorded
  <1>6. x \in Int /\ xAfter \in Int
    BY <1>2, <1>5
  <1>7. ~needs => xAfter = x
    BY <1>2, <1>5
  <1>8. needs => \E gain \in Nat :
                   /\ xAfter + (IF marked THEN c ELSE 0) = x + gain
                   /\ gain <= total
                   /\ DistinctPayees => gain = total
    <2> SUFFICES ASSUME needs
                 PROVE  \E gain \in Nat :
                          /\ xAfter + (IF marked THEN c ELSE 0) = x + gain
                          /\ gain <= total
                          /\ DistinctPayees => gain = total
      OBVIOUS
    <2>1. PICK gain \in Nat :
            /\ TotalHeld(after) + (IF marked THEN c ELSE 0)
                 = TotalHeld(d) + fees.storage + fees.processing + gain
            /\ gain <= total
            /\ DistinctIds(payments) => gain = total
      BY <1>2
    <2> DEFINE gone == IF marked THEN c ELSE 0
    <2>2. gone \in Nat
      BY <1>1
    <2>3. TotalHeld(after) + gone = TotalHeld(d) + fees.storage + fees.processing + gain
      BY <2>1
    <2> HIDE DEF gone
    <2>4. xAfter + gone = x + gain
      BY <1>2, <1>5, <2>2, <2>3
    <2>5. DistinctPayees => gain = total
      BY <1>1, <2>1
    <2> QED
      BY <2>1, <2>4, <2>5 DEF gone
  <1>9. \/ ~needs /\ ~marked
        \/ needs /\ ~marked
        \/ needs /\ marked
    BY DEF MarkedAsPaid
  <1>10. CreditsWithin(d, hist) <=> /\ b = 0 => x = 0
                                    /\ b * x <= c * (b - UnpaidBlocks(d))
                                    /\ DistinctPayees => c * (b - UnpaidBlocks(d)) <= b * (x + m)
    BY DEF CreditsWithin
  <1>11. bAfter \in Nat /\ b \in Nat
    <2>1. after.unpaidEpoch \in EpochIndex /\ u \in EpochIndex
      BY DEF Databases
    <2>2. histAfter.produced[after.unpaidEpoch] \in [Proposers -> Nat]
          /\ hist.produced[u] \in [Proposers -> Nat]
      BY <2>1 DEF Histories
    <2> QED
      BY <2>2, SplitCounts
  <1>12. (~needs \/ marked) /\ xAfter <= 0 /\ (DistinctPayees => 0 <= xAfter + mAfter)
           => CreditsWithin(after, histAfter)
    BY <1>2, <1>3, <1>11, WithinWhenUnpaid
  <1>13. ~needs => x <= 0 /\ (DistinctPayees => 0 <= x + m)
    BY <1>2, <1>3, <1>11, WithinWhenUnpaid
  <1>14. CreditsWithin(after, histAfter) <=>
           /\ bAfter = 0 => xAfter = 0
           /\ bAfter * xAfter
                <= CreditsOf(after, after.unpaidEpoch) * (bAfter - UnpaidBlocks(after))
           /\ DistinctPayees =>
                CreditsOf(after, after.unpaidEpoch) * (bAfter - UnpaidBlocks(after))
                  <= bAfter * (xAfter + mAfter)
    BY DEF CreditsWithin
  <1>15. needs => c * counted <= b * total + b * more
    <2> SUFFICES ASSUME needs PROVE c * counted <= b * total + b * more
      OBVIOUS
    <2>1. CASE PaidChunk(d, info) = {}
      <3>1. counted = 0 /\ more = 0
        BY <1>4, <2>1
      <3>2. b * total \in Nat /\ b * more = 0 /\ c * counted = 0
        <4> HIDE DEF counted, more, total, b, c
        <4>1. c * 0 = 0 /\ b * 0 = 0
          BY <1>1
        <4>2. b * total \in Nat
          BY <1>1, Z3
        <4> QED
          BY <3>1, <4>1, <4>2
      <3> HIDE DEF counted, more, total, b, c
      <3> QED
        BY <3>2
    <2>2. CASE PaidChunk(d, info) # {}
      <3>1. more = 1
        BY <2>2
      <3> HIDE DEF counted, more, total, b, c
      <3>2. b * more = b
        BY <1>1, <3>1
      <3> QED
        BY <1>1, <3>2
    <2> QED
      BY <2>1, <2>2
  <1> HIDE DEF needs, marked, payments, total, counted, b, bAfter, c, x, xAfter, m, mAfter, more
  <1>16. CASE ~needs /\ ~marked
    <2>1. mAfter >= m /\ mAfter \in Nat /\ m \in Nat
      BY <1>5
    <2>2. xAfter <= 0 /\ (DistinctPayees => 0 <= xAfter + mAfter)
      BY <1>6, <1>7, <1>13, <1>16, <2>1
    <2> QED
      BY <1>2, <1>12, <1>16, <2>2
  <1> DEFINE unpaid == UnpaidBlocks(d)
  <1>17. ASSUME needs
         PROVE  \E gain \in Nat :
                  /\ xAfter + (IF marked THEN c ELSE 0) = x + gain
                  /\ b * (x + gain) <= c * (b - (unpaid - counted))
                  /\ DistinctPayees => c * (b - (unpaid - counted)) <= b * (x + gain + (m + more))
    <2>1. PICK gain \in Nat :
            /\ xAfter + (IF marked THEN c ELSE 0) = x + gain
            /\ gain <= total
            /\ DistinctPayees => gain = total
      BY <1>8, <1>17
    <2>2. /\ b \in Nat \ {0} /\ c \in Nat /\ counted \in Nat /\ total \in Nat /\ unpaid \in Int
          /\ b * total <= c * counted
          /\ b * x <= c * (b - unpaid)
      BY <1>1, <1>4, <1>10, <1>17
    <2> HIDE DEF unpaid
    <2>3. b * (x + gain) <= c * (b - (unpaid - counted))
      BY <1>6, <2>1, <2>2, WithinAfterPayment
    <2>4. ASSUME DistinctPayees
          PROVE  c * (b - (unpaid - counted)) <= b * (x + gain + (m + more))
      <3>1. gain = total /\ c * (b - unpaid) <= b * (x + m)
        BY <1>10, <2>1, <2>4 DEF unpaid
      <3>2. c * (b - (unpaid - counted)) <= b * (x + total + (m + more))
        BY <1>5, <1>6, <1>15, <1>17, <2>2, <3>1, OwedAfterPayment
      <3> QED
        BY <3>1, <3>2
    <2> QED
      BY <2>1, <2>3, <2>4
  <1>18. CASE needs /\ ~marked
    <2>1. PICK gain \in Nat :
            /\ xAfter + (IF marked THEN c ELSE 0) = x + gain
            /\ b * (x + gain) <= c * (b - (unpaid - counted))
            /\ DistinctPayees => c * (b - (unpaid - counted)) <= b * (x + gain + (m + more))
      BY <1>17, <1>18
    <2>2. xAfter = x + gain
      BY <1>6, <1>18, <2>1
    <2>3. /\ after.unpaidEpoch = u /\ bAfter = b /\ UnpaidBlocks(after) = unpaid - counted
          /\ CreditsOf(after, after.unpaidEpoch) = c /\ mAfter = m + more
          /\ b \in Nat \ {0}
      BY <1>1, <1>2, <1>3, <1>4, <1>5, <1>18 DEF c
    <2> HIDE DEF unpaid
    <2> QED
      BY <1>2, <1>14, <2>1, <2>2, <2>3
  <1>19. CASE needs /\ marked
    <2>1. PICK gain \in Nat :
            /\ xAfter + (IF marked THEN c ELSE 0) = x + gain
            /\ b * (x + gain) <= c * (b - (unpaid - counted))
            /\ DistinctPayees => c * (b - (unpaid - counted)) <= b * (x + gain + (m + more))
      BY <1>17, <1>19
    <2>2. /\ b \in Nat \ {0} /\ c \in Nat /\ counted = unpaid /\ unpaid \in Nat
      BY <1>1, <1>4, <1>19
    <2>3. xAfter + c = x + gain
      BY <1>19, <2>1
    <2> HIDE DEF unpaid
    <2>4. b - (unpaid - counted) = b /\ c * b = b * c
      <3>1. b - (unpaid - counted) = b
        BY <2>2
      <3>2. c * b = b * c
        BY <2>2, Z3
      <3> QED
        BY <3>1, <3>2
    <2>5. x + gain <= c
      <3>1. b * (x + gain) <= b * c
        BY <2>1, <2>4
      <3>2. x + gain \in Int
        BY <1>6, <2>1
      <3> QED
        BY <2>2, <3>1, <3>2, SignOfProduct
    <2>6. DistinctPayees => c <= x + gain + (m + more)
      <3> SUFFICES ASSUME DistinctPayees PROVE c <= x + gain + (m + more)
        OBVIOUS
      <3>1. b * c <= b * (x + gain + (m + more))
        BY <2>1, <2>4
      <3>2. x + gain + (m + more) \in Int
        BY <1>5, <1>6, <2>1
      <3> QED
        BY <2>2, <3>1, <3>2, SignOfProduct
    <2>7. xAfter <= 0
      BY <1>6, <2>1, <2>2, <2>3, <2>5
    <2>8. DistinctPayees => 0 <= xAfter + mAfter
      BY <1>5, <1>6, <2>1, <2>2, <2>3, <2>6
    <2> QED
      BY <1>2, <1>12, <1>19, <2>7, <2>8
  <1> QED
    BY <1>9, <1>16, <1>18, <1>19
-----------------------------------------------------------------------------
(* The settled credits are those held, without the unpaid epoch's. *)
LEMMA SettledIsRest ==
  ASSUME NEW d \in Databases
  PROVE  /\ SettledCredits(d) \in Int /\ CreditsOf(d, d.unpaidEpoch) \in Nat
         /\ UnpaidBlocks(d) \in Nat
         /\ TotalHeld(d) = SettledCredits(d) + CreditsOf(d, d.unpaidEpoch)
  <1> DEFINE u == d.unpaidEpoch
             S == EpochIndex \ {u}
             f == EpochCredits(d)
             Eq(g) == g = [s \in SUBSET S |->
                             IF s = {} THEN 0
                             ELSE CreditsOf(d, Picked(s)) + g[s \ {Picked(s)}]]
  <1>1. /\ u \in EpochIndex /\ IsFiniteSet(EpochIndex) /\ IsFiniteSet(S)
        /\ IsFiniteSet(Identities)
    <2>1. IsFiniteSet(EpochIndex)
      BY EpochsAssumption, FS_Interval DEF EpochIndex
    <2> QED
      BY <2>1, ProposersAssumption, FS_Subset DEF Databases
  <1>2. f \in [EpochIndex -> Nat] /\ \A e \in EpochIndex : f[e] = CreditsOf(d, e)
    BY EpochCreditsType DEF EpochCredits
  <1>3. MapThenSumSet(LAMBDA e : CreditsOf(d, e), S) = Sum(f, S)
    <2>1. MapThenSumSet(LAMBDA e : CreditsOf(d, e), S) = (CHOOSE g : Eq(g))[S]
      BY DEF MapThenSumSet, MapThenFoldSet, Picked
    <2>2. \A s \in SUBSET S : s # {} => f[Picked(s)] = CreditsOf(d, Picked(s))
      <3> TAKE s \in SUBSET S
      <3> HAVE s # {}
      <3>1. Picked(s) \in s
        BY DEF Picked
      <3> HIDE DEF f
      <3> QED
        BY <1>2, <3>1
    <2>3. \A g : Eq(g) <=> PartialSums(g, f, S)
      <3> HIDE DEF f, S
      <3> QED
        BY <2>2 DEF PartialSums
    <2> HIDE DEF f, S
    <2>4. Eq(CHOOSE g : Eq(g))
      <3>1. \E g : Eq(g)
        BY <1>1, <2>3, PartialSumsExist
      <3> QED
        BY <3>1, Zenon
    <2> HIDE DEF Eq
    <2> QED
      BY <1>1, <2>1, <2>3, <2>4, SumOfPartial
  <1>4. MapThenSumSet(LAMBDA i : d.balance[i], Identities) = Balances(d)
    BY DEF Balances, Sum
  <1>5. SettledCredits(d) = d.storagePool + Sum(f, S) + Balances(d)
    BY <1>3, <1>4 DEF SettledCredits
  <1>6. EpochPools(d) = CreditsOf(d, u) + Sum(f, S)
    <2>1. \A e \in EpochIndex : f[e] \in Int
      BY <1>2
    <2>2. Sum(f, EpochIndex) = f[u] + Sum(f, EpochIndex \ {u})
      <3> HIDE DEF f
      <3> QED
        BY <1>1, <2>1, SumRemove
    <2> QED
      BY <1>1, <1>2, <2>2 DEF EpochPools
  <1>7. Sum(f, S) \in Nat /\ Balances(d) \in Nat /\ d.storagePool \in Nat
        /\ CreditsOf(d, u) \in Nat
    <2>1. /\ \A e \in S : f[e] \in Nat
          /\ \A i \in Identities : d.balance[i] \in Nat
      BY <1>2 DEF Databases, Credits
    <2>2. Sum(f, S) \in Nat
      <3> HIDE DEF f, S
      <3> QED
        BY <1>1, <2>1, SumNat
    <2>3. Balances(d) \in Nat
      BY <1>1, <2>1, SumNat DEF Balances
    <2> QED
      BY <1>1, <1>2, <2>2, <2>3 DEF Databases, Credits
  <1>8. UnpaidBlocks(d) \in Nat
    <2>1. d.blockCount[u] \in OrMissing([Proposers -> Nat])
      BY <1>1 DEF Databases
    <2>2. CASE d.blockCount[u] = Missing
      BY <2>2 DEF UnpaidBlocks
    <2>3. CASE d.blockCount[u] # Missing
      <3>1. d.blockCount[u] \in [Proposers -> Nat]
        BY <2>1, <2>3 DEF OrMissing
      <3> QED
        BY <2>3, <3>1, SplitCounts DEF UnpaidBlocks
    <2> QED
      BY <2>2, <2>3
  <1> HIDE DEF f, S, u
  <1>9. SettledCredits(d) \in Int
    BY <1>5, <1>7
  <1>10. TotalHeld(d) = SettledCredits(d) + CreditsOf(d, u)
    BY <1>5, <1>6, <1>7 DEF TotalHeld
  <1> QED
    BY <1>7, <1>8, <1>9, <1>10 DEF u

(* The settled credits with what the unpaid epoch owes for the blocks not   *)
(* paid yet.                                                                *)
LEMMA WithinBounds ==
  ASSUME NEW d \in Databases, NEW hist \in Histories, CreditsWithin(d, hist),
         NEW blocks \in Nat \ {0}, blocks = BlocksOf(hist.produced[d.unpaidEpoch])
  PROVE  LET owed == CreditsOf(d, d.unpaidEpoch) * UnpaidBlocks(d)
         IN  /\ SettledCredits(d) * blocks + owed <= hist.collected * blocks
             /\ DistinctPayees =>
                  (SettledCredits(d) + hist.chunks) * blocks + owed >= hist.collected * blocks
  <1> DEFINE c == CreditsOf(d, d.unpaidEpoch)
             s == SettledCredits(d)
             unpaid == UnpaidBlocks(d)
             k == hist.collected
             m == hist.chunks
  <1>1. /\ s \in Int /\ c \in Nat /\ unpaid \in Nat /\ k \in Nat /\ m \in Nat
        /\ TotalHeld(d) = s + c
    BY SettledIsRest DEF Histories
  <1>2. /\ blocks * ((s + c) - k) <= c * (blocks - unpaid)
        /\ DistinctPayees => c * (blocks - unpaid) <= blocks * (((s + c) - k) + m)
    BY <1>1 DEF CreditsWithin
  <1> HIDE DEF c, s, unpaid, k, m
  <1> DEFINE sb == s * blocks
             cb == c * blocks
             kb == k * blocks
             mb == m * blocks
             cu == c * unpaid
  <1>3. sb \in Int /\ cb \in Int /\ kb \in Int /\ mb \in Int /\ cu \in Int
    BY <1>1, Z3
  <1>4. /\ blocks * ((s + c) - k) = sb + cb - kb
        /\ c * (blocks - unpaid) = cb - cu
        /\ blocks * (((s + c) - k) + m) = sb + cb - kb + mb
        /\ (s + m) * blocks = sb + mb
    BY <1>1, Z3
  <1> HIDE DEF sb, cb, kb, mb, cu
  <1>5. /\ sb + cu <= kb
        /\ DistinctPayees => (sb + mb) + cu >= kb
    BY <1>2, <1>3, <1>4
  <1>6. /\ s * blocks + c * unpaid <= k * blocks
        /\ DistinctPayees => (s + m) * blocks + c * unpaid >= k * blocks
    BY <1>4, <1>5 DEF sb, kb, cu
  <1> QED
    BY <1>6 DEF c, s, unpaid, k, m
-----------------------------------------------------------------------------
(* The inductive invariant: the durable chain holds its credits within the  *)
(* fees, and so does the block that was executed on it.                     *)
CreditInv ==
  /\ EmptyAhead(committed.db) /\ CreditsWithin(committed.db, committed.history)
  /\ stage = "begun" => context.height <= MaxHeight
  /\ stage = "ended" => EmptyAhead(db) /\ CreditsWithin(db, history)

ChainCreditInv == IInv /\ HeightInv /\ ChainInv /\ CreditInv

(* Until the block ends, the database differs from the durable one in the   *)
(* genesis time only.                                                       *)
LEMMA OpenCredits ==
  ASSUME ChainCreditInv
  PROVE  /\ db \in Databases /\ history \in Histories
         /\ EmptyAhead(db) /\ CreditsWithin(db, history)
  <1>1. /\ db \in Databases /\ history \in Histories
        /\ committed.db \in Databases /\ stage \in {"idle", "begun", "ended"}
    BY DEF ChainCreditInv, IInv, TimeInv, TypeOK, Chains
  <1>2. CASE stage = "ended"
    BY <1>1, <1>2 DEF ChainCreditInv, CreditInv
  <1>3. CASE stage # "ended"
    <2>1. history = committed.history
      BY <1>3 DEF ChainCreditInv, IInv, TimeInv, BlockCoherent
    <2>2. db = [committed.db EXCEPT !.genesisTime = db.genesisTime]
      <3>1. CASE stage = "idle"
        <4>1. db = committed.db
          BY <3>1 DEF ChainCreditInv, IInv, TimeInv, BlockCoherent
        <4> QED
          BY <1>1, <4>1 DEF Databases
      <3>2. CASE stage = "begun"
        BY <3>2 DEF ChainCreditInv, ChainInv
      <3> QED
        BY <1>1, <1>3, <3>1, <3>2
    <2>3. /\ db.storagePool = committed.db.storagePool /\ db.trees = committed.db.trees
          /\ db.storage = committed.db.storage /\ db.processing = committed.db.processing
          /\ db.unpaidEpoch = committed.db.unpaidEpoch
          /\ db.blockCount = committed.db.blockCount /\ db.balance = committed.db.balance
      BY <1>1, <2>2 DEF Databases
    <2>4. EmptyAhead(db)
      BY <2>3 DEF ChainCreditInv, CreditInv, EmptyAhead
    <2>5. \A e : CreditsOf(db, e) = CreditsOf(committed.db, e)
      BY <2>3 DEF CreditsOf
    <2>6. UnpaidBlocks(db) = UnpaidBlocks(committed.db)
      BY <2>3 DEF UnpaidBlocks
    <2>7. TotalHeld(db) = TotalHeld(committed.db)
      <3>1. EpochCredits(db) = EpochCredits(committed.db)
        BY <2>5 DEF EpochCredits
      <3> QED
        BY <2>3, <3>1 DEF TotalHeld, EpochPools, Balances
    <2>8. CreditsWithin(db, history)
      <3>1. CreditsWithin(committed.db, committed.history)
        BY DEF ChainCreditInv, CreditInv
      <3> QED
        BY <2>1, <2>3, <2>5, <2>6, <2>7, <3>1, Zenon DEF CreditsWithin
    <2> QED
      BY <1>1, <2>4, <2>8
  <1> QED
    BY <1>2, <1>3

(* Ending a block keeps the credits within the fees. *)
LEMMA BlockEndCredits ==
  ASSUME ChainCreditInv, NEW fees \in BlockFees, BlockEnd(fees)
  PROVE  EmptyAhead(db') /\ CreditsWithin(db', history')
  <1> DEFINE info == context.info
  <1>1. /\ stage = "begun"
        /\ ~ProcessBlockFeesFails(db, info, context.height)
        /\ db' = ProcessBlockFees(db, info, context.height, context.proposer, fees)
        /\ history' = HistoryAfter(fees)
    BY DEF BlockEnd
  <1>2. /\ db \in Databases /\ history \in Histories /\ info \in EpochInfos
        /\ context.height \in Nat /\ context.proposer \in Proposers
        /\ history = committed.history /\ committed.height \in Nat
        /\ context.height = committed.height + 1
        /\ fees \in [storage : Credits, processing : Credits]
    BY <1>1, BegunBlock, BlockFeesAssumption DEF ChainCreditInv
  <1>3. context.height <= MaxHeight
    BY <1>1 DEF ChainCreditInv, CreditInv
  <1>4. BlockOn(db, history, info, LastEpoch, context.height)
    BY <1>1, BegunBlockOn DEF ChainCreditInv
  <1>5. BlocksMatch(db, history, context.height - 1)
    <2>1. BlocksMatch(committed.db, committed.history, committed.height)
      BY DEF ChainCreditInv, HeightInv
    <2>2. db.startHeight = committed.db.startHeight
      BY <1>1 DEF ChainCreditInv, IInv, PaymentInv
    <2>3. context.height - 1 = committed.height
      BY <1>2
    <2> QED
      BY <1>2, <2>1, <2>2, <2>3 DEF BlocksMatch, LaterEpochs, Started
  <1>6. EmptyAhead(db) /\ CreditsWithin(db, history)
    BY OpenCredits
  <1>7. db' \in Databases
    BY <1>1, <1>2, ProcessBlockFeesType
  <1>8. /\ history' \in Histories
        /\ \A e \in EpochIndex, p \in Proposers :
             /\ history'.produced[e][p] =
                  history.produced[e][p] + (IF e = info.current /\ p = context.proposer
                                            THEN 1 ELSE 0)
             /\ history'.payments[e][p] =
                  history.payments[e][p] + (IF /\ e = db.unpaidEpoch /\ NeedsPayment(db, info)
                                               /\ p \in PaidChunk(db, info) THEN 1 ELSE 0)
    BY BlockEndEffect DEF ChainCreditInv
  <1>9. /\ history'.collected = history.collected + fees.storage + fees.processing
        /\ history'.chunks =
             history.chunks + (IF NeedsPayment(db, info) /\ PaidChunk(db, info) # {}
                               THEN 1 ELSE 0)
    <2> DEFINE paid == IF NeedsPayment(db, info) THEN PaidChunk(db, info) ELSE {}
    <2>1. /\ history'.collected = history.collected + fees.storage + fees.processing
          /\ history'.chunks = IF paid = {} THEN history.chunks ELSE history.chunks + 1
      BY <1>1 DEF HistoryAfter
    <2>2. history.chunks \in Nat
      BY <1>2 DEF Histories
    <2> QED
      BY <2>1, <2>2
  <1>10. Recorded(db, history, info, context.proposer, fees, history')
    BY <1>8, <1>9 DEF Recorded
  <1> HIDE DEF info
  <1> QED
    BY <1>1, <1>2, <1>3, <1>4, <1>5, <1>6, <1>7, <1>8, <1>10, BlockKeepsCredits

(* The invariant is inductive. *)
LEMMA StepCreditInv == ChainCreditInv /\ [Next]_vars => ChainCreditInv'
  <1> SUFFICES ASSUME ChainCreditInv, [Next]_vars PROVE CreditInv'
    BY StepIInv, StepHeightInv, StepChainInv DEF ChainCreditInv
  <1>1. ASSUME NEW t \in 0 .. MaxTime, NEW p \in Proposers, BlockBegin(t, p)
        PROVE  CreditInv'
    <2>1. /\ committed' = committed /\ stage' = "begun" /\ NextHeight <= MaxHeight
          /\ context'.height = NextHeight
      BY <1>1 DEF BlockBegin
    <2> QED
      BY <2>1 DEF ChainCreditInv, CreditInv
  <1>2. ASSUME NEW fees \in BlockFees, BlockEnd(fees)
        PROVE  CreditInv'
    <2>1. committed' = committed /\ stage' = "ended"
      BY <1>2 DEF BlockEnd
    <2>2. EmptyAhead(db') /\ CreditsWithin(db', history')
      BY <1>2, BlockEndCredits
    <2> QED
      BY <2>1, <2>2 DEF ChainCreditInv, CreditInv
  <1>3. CASE CommitTransaction
    <2>1. /\ stage = "ended" /\ stage' = "idle"
          /\ committed'.db = db /\ committed'.history = history
      BY <1>3 DEF CommitTransaction
    <2> QED
      BY <2>1 DEF ChainCreditInv, CreditInv
  <1>4. CASE RollbackTransaction \/ Restart
    BY <1>4 DEF RollbackTransaction, Restart, ToCommitted, ChainCreditInv, CreditInv
  <1>5. CASE UNCHANGED vars
    BY <1>5 DEF vars, ChainCreditInv, CreditInv
  <1> QED
    BY <1>1, <1>2, <1>3, <1>4, <1>5 DEF Next

(* The chain starts without credits. *)
LEMMA InitCreditInv == Init => CreditInv
  <1> SUFFICES ASSUME Init PROVE CreditInv
    OBVIOUS
  <1> DEFINE d == InitialDatabase
  <1>1. /\ committed.db = d /\ committed.history = EmptyHistory /\ stage = "idle"
        /\ d \in Databases
    BY InitTimeInv DEF Init, TimeInv, TypeOK
  <1>2. /\ d.storagePool = 0 /\ d.unpaidEpoch = GenesisEpochIndex
        /\ d.trees = 0 .. PerpetualEpochs - 1
        /\ d.storage = [e \in EpochIndex |-> IF e < PerpetualEpochs THEN 0 ELSE Missing]
        /\ d.processing = [e \in EpochIndex |-> Missing]
        /\ d.blockCount = [e \in EpochIndex |-> Missing]
        /\ d.balance = [i \in Identities |-> 0]
    BY DEF InitialDatabase
  <1> HIDE DEF d
  <1>3. EmptyAhead(d)
    <2>1. PerpetualEpochs \in Nat
      BY EpochsAssumption, Z3 DEF PerpetualEpochs
    <2> QED
      BY <1>2, <2>1 DEF EmptyAhead, EpochIndex
  <1>4. \A e \in EpochIndex : EpochCredits(d)[e] = 0
    BY <1>2 DEF EpochCredits, CreditsOf
  <1>5. d.unpaidEpoch \in EpochIndex /\ CreditsOf(d, d.unpaidEpoch) = 0
    <2>1. d.unpaidEpoch \in EpochIndex
      BY <1>1 DEF Databases
    <2> QED
      BY <1>4, <2>1 DEF EpochCredits
  <1>6. TotalHeld(d) = 0
    <2>1. /\ IsFiniteSet(EpochIndex) /\ IsFiniteSet(Identities)
          /\ Cardinality(EpochIndex) \in Nat /\ Cardinality(Identities) \in Nat
      <3>1. IsFiniteSet(EpochIndex)
        BY EpochsAssumption, FS_Interval DEF EpochIndex
      <3>2. IsFiniteSet(Identities)
        BY ProposersAssumption
      <3> QED
        BY <3>1, <3>2, FS_CardinalityType
    <2>2. 0 \in Int /\ \A i \in Identities : d.balance[i] = 0
      BY <1>2
    <2>3. EpochPools(d) = 0 * Cardinality(EpochIndex)
      BY <1>4, <2>1, <2>2, SumConstant, Zenon DEF EpochPools
    <2>4. Balances(d) = 0 * Cardinality(Identities)
      BY <2>1, <2>2, SumConstant, Zenon DEF Balances
    <2> QED
      BY <1>2, <2>1, <2>3, <2>4 DEF TotalHeld
  <1>7. /\ BlocksOf(EmptyHistory.produced[d.unpaidEpoch]) = 0
        /\ EmptyHistory.collected = 0 /\ EmptyHistory.chunks = 0
    <2>1. \A p \in Proposers : EmptyHistory.produced[d.unpaidEpoch][p] = 0
      BY <1>5 DEF EmptyHistory, NoBlocks
    <2> QED
      BY <2>1, CountNothing DEF EmptyHistory
  <1>8. UnpaidBlocks(d) = 0
    BY <1>2, <1>5 DEF UnpaidBlocks
  <1>9. CreditsWithin(d, EmptyHistory)
    BY <1>5, <1>6, <1>7, <1>8 DEF CreditsWithin
  <1> QED
    BY <1>1, <1>3, <1>9 DEF CreditInv

LEMMA InitChainCreditInv == Init => ChainCreditInv
  BY InitTimeInv, InitPaymentInv, InitHeightInv, InitChainInv, InitCreditInv
     DEF ChainCreditInv, IInv

(* The invariant gives the bounds of the properties. *)
LEMMA CreditBounds ==
  ASSUME ChainCreditInv
  PROVE  NoCreditsCreated /\ (DistinctPayees => NoCreditsLost)
  <1> DEFINE blocks == BlocksOf(history.produced[db.unpaidEpoch])
             owed == CreditsOf(db, db.unpaidEpoch) * UnpaidBlocks(db)
  <1>1. db \in Databases /\ history \in Histories /\ CreditsWithin(db, history)
    BY OpenCredits
  <1>2. blocks \in Nat
    <2>1. db.unpaidEpoch \in EpochIndex
      BY <1>1 DEF Databases
    <2>2. history.produced[db.unpaidEpoch] \in [Proposers -> Nat]
      BY <1>1, <2>1 DEF Histories
    <2> QED
      BY <2>2, SplitCounts
  <1>3. ASSUME blocks > 0
        PROVE  /\ SettledCredits(db) * blocks + owed <= history.collected * blocks
               /\ DistinctPayees =>
                    (SettledCredits(db) + history.chunks) * blocks + owed
                      >= history.collected * blocks
    <2>1. blocks \in Nat \ {0}
      BY <1>2, <1>3
    <2> QED
      BY <1>1, <2>1, WithinBounds
  <1> QED
    BY <1>3 DEF NoCreditsCreated, NoCreditsLost

(* In every behaviour, whatever the fees, the shares, the payouts per block *)
(* and the epochs without blocks: balances, pools and what the oldest       *)
(* unpaid epoch still owes are never more than the fees collected.  Neither *)
(* the rounding of rewards nor a repeated or retried block creates credits. *)
THEOREM CreditsNeverCreated == Spec => []NoCreditsCreated
  BY InitChainCreditInv, StepCreditInv, CreditBounds, PTL DEF Spec

(* ... and less by at most one credit for each block that paid proposers,   *)
(* however many it paid, when no two payments of a block are to one         *)
(* identity.  Two payments to one identity do lose credits, which is what   *)
(* PaymentsCredited is about.                                               *)
THEOREM CreditsNeverLost ==
  ASSUME DistinctPayees
  PROVE  Spec => []NoCreditsLost
  <1>1. ChainCreditInv => NoCreditsLost
    BY CreditBounds
  <1> QED
    BY <1>1, InitChainCreditInv, StepCreditInv, PTL DEF Spec
=============================================================================
