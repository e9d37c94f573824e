--------------------------- MODULE AlgorithmsProofs --------------------------
(***************************************************************************)
(* Theorems about the emission schedule and the selection draw, for every  *)
(* value of their constants: epochs fill the tiers in order; candidates    *)
(* come before randomness; the number that is selected is the one the      *)
(* protocol promises, computed without the product that could overflow;    *)
(* the slot's own blocks do not count; and the draw is what its definition *)
(* promises.                                                               *)
(***************************************************************************)
EXTENDS MCEmission, Selection, ArithmeticTheorems

-----------------------------------------------------------------------------
(* The order of commitment, window and result.                             *)

\* What the checks of the commitment establish stays true of the rules, and a
\* result comes after the commitment.
SelectionInv ==
  /\ rules \in [epochs : EpochStarts, beacon : BeaconParams, limits : Limits]
  /\ height \in Nat /\ rules.epochs.start <= height
  /\ committed \in Nat
  /\ committed # 0 =>
       /\ ValidBeaconParams(rules.beacon)
       /\ rules.epochs.start <= committed /\ committed < WindowFirst
       /\ BeaconWindowFits(WindowLast, rules.epochs.next)
  /\ published # 0 => committed # 0
  /\ published # 0 /\ Len(candidates) >= 2 => published > WindowLast

\* The rules are numbers.
LEMMA RulesTyped ==
  ASSUME rules \in [epochs : EpochStarts, beacon : BeaconParams, limits : Limits]
  PROVE  /\ rules.epochs.start \in Nat /\ rules.epochs.start >= 1 /\ rules.epochs.next \in Nat
         /\ rules.epochs.next - 1 <= MaxUint64 /\ MaxUint64 \in Nat
         /\ rules.beacon.offset \in Nat /\ rules.beacon.window \in Nat
         /\ WindowFirst = rules.epochs.start + rules.beacon.offset
         /\ WindowLast = rules.epochs.start + rules.beacon.offset + rules.beacon.window - 1
<1>1. rules.epochs \in EpochStarts /\ rules.beacon \in BeaconParams
  OBVIOUS
<1>2. /\ rules.epochs \in [start : Nat \ {0}, next : Nat]
      /\ rules.epochs.next - 1 <= MaxUint64
      /\ rules.beacon \in [offset : Nat, window : Nat, minBlocks : Nat, minProposers : Nat]
      /\ MaxUint64 \in Nat
  BY <1>1, SelectionAssumption
<1> QED
  BY <1>2 DEF WindowFirst, WindowLast, BeaconStart, BeaconEnd

\* Before the commitment there is nothing to show.
LEMMA SelectionStarts ==
  ASSUME SelectionInit
  PROVE  SelectionInv
<1>1. rules \in [epochs : EpochStarts, beacon : BeaconParams, limits : Limits]
      /\ height = rules.epochs.start /\ committed = 0 /\ published = 0
  BY DEF SelectionInit
<1> QED
  BY <1>1, RulesTyped DEF SelectionInv

\* The commitment checks the window, the result comes after it, blocks go on.
LEMMA SelectionKeeps ==
  ASSUME SelectionInv, [SelectionNext]_selectionVars
  PROVE  SelectionInv'
<1>0. /\ rules \in [epochs : EpochStarts, beacon : BeaconParams, limits : Limits]
      /\ height \in Nat /\ rules.epochs.start <= height /\ rules.epochs.start \in Nat
      /\ rules.epochs.start >= 1
  BY RulesTyped DEF SelectionInv
<1>1. ASSUME NEW ids, Commit(ids) PROVE SelectionInv'
  <2>1. /\ rules' = rules /\ height' = height /\ published' = published /\ committed = 0
        /\ committed' = height /\ ValidBeaconParams(rules.beacon)
        /\ rules.epochs.start <= height /\ height < WindowFirst
        /\ BeaconWindowFits(WindowLast, rules.epochs.next)
    BY <1>1 DEF Commit, CommitmentHeightOK
  <2>2. published = 0
    BY <2>1 DEF SelectionInv
  <2>3. WindowFirst' = WindowFirst /\ WindowLast' = WindowLast
    BY <2>1 DEF WindowFirst, WindowLast
  <2>4. height # 0
    BY <1>0
  <2> QED
    BY <1>0, <2>1, <2>2, <2>3, <2>4 DEF SelectionInv
<1>2. ASSUME NEW selected, Publish(selected) PROVE SelectionInv'
  <2>1. /\ rules' = rules /\ height' = height /\ committed' = committed
        /\ candidates' = candidates /\ published' = height /\ committed # 0
        /\ Len(candidates) >= 2 => height >= WindowLast + 1
    BY <1>2 DEF Publish, PublicationHeightOK
  <2>2. WindowFirst' = WindowFirst /\ WindowLast' = WindowLast
    BY <2>1 DEF WindowFirst, WindowLast
  <2>3. WindowLast \in Int
    BY <1>0, RulesTyped
  <2>4. Len(candidates) >= 2 => height > WindowLast
    BY <1>0, <2>1, <2>3
  <2> QED
    BY <1>0, <2>1, <2>2, <2>4 DEF SelectionInv
<1>3. ASSUME NEW proposer, NEW hash, NextBlock(proposer, hash) PROVE SelectionInv'
  <2>1. /\ rules' = rules /\ height' = height + 1 /\ committed' = committed
        /\ candidates' = candidates /\ published' = published
    BY <1>3 DEF NextBlock
  <2>2. WindowFirst' = WindowFirst /\ WindowLast' = WindowLast
    BY <2>1 DEF WindowFirst, WindowLast
  <2>3. height + 1 \in Nat /\ rules.epochs.start <= height + 1
    BY <1>0
  <2> QED
    BY <2>1, <2>2, <2>3 DEF SelectionInv
<1>4. CASE UNCHANGED selectionVars
  <2>1. /\ rules' = rules /\ height' = height /\ committed' = committed
        /\ candidates' = candidates /\ published' = published
    BY <1>4 DEF selectionVars
  <2>2. WindowFirst' = WindowFirst /\ WindowLast' = WindowLast
    BY <2>1 DEF WindowFirst, WindowLast
  <2> QED
    BY <2>1, <2>2 DEF SelectionInv
<1> QED
  BY <1>1, <1>2, <1>3, <1>4 DEF SelectionNext

\* No block of the window has its hash when the commitment lands, all have it
\* when a drawn result does, and a block is always left for the result
\* (ValidateCommitmentHeight, ValidateBeaconWindowFits,
\* ValidateResultPublicationHeight).
THEOREM CandidatesComeFirst == SelectionSpec => []CandidatesBeforeRandomness
<1>1. ASSUME SelectionInv PROVE CandidatesBeforeRandomness
  <2> SUFFICES ASSUME committed # 0
               PROVE  \E h \in committed .. (rules.epochs.next - 1) :
                        h > WindowLast /\ PublicationHeightOK(h, rules.epochs.start,
                                            rules.epochs.next, Len(candidates), WindowLast)
    BY <1>1 DEF SelectionInv, CandidatesBeforeRandomness
  <2>1. /\ rules.epochs.start \in Nat /\ rules.epochs.next \in Nat
        /\ rules.epochs.next - 1 <= MaxUint64 /\ MaxUint64 \in Nat
        /\ rules.beacon.offset \in Nat /\ rules.beacon.window \in Nat
        /\ WindowFirst = rules.epochs.start + rules.beacon.offset
        /\ WindowLast = rules.epochs.start + rules.beacon.offset + rules.beacon.window - 1
    BY <1>1, RulesTyped DEF SelectionInv
  <2>2. /\ rules.beacon.window > 0 /\ committed < WindowFirst /\ committed \in Nat
        /\ rules.epochs.next >= 2 /\ WindowLast <= rules.epochs.next - 2
    BY <1>1 DEF SelectionInv, ValidBeaconParams, BeaconWindowFits
  <2> DEFINE h == WindowLast + 1
  <2>3. /\ h \in committed .. (rules.epochs.next - 1) /\ h > WindowLast
        /\ rules.epochs.start <= h /\ h < rules.epochs.next /\ WindowLast + 1 <= MaxUint64 /\ h >= WindowLast + 1
    BY <2>1, <2>2
  <2>4. PublicationHeightOK(h, rules.epochs.start, rules.epochs.next, Len(candidates), WindowLast)
    BY <2>3 DEF PublicationHeightOK
  <2> HIDE DEF h
  <2> QED
    BY <2>3, <2>4
<1>2. SelectionInit => SelectionInv
  BY SelectionStarts
<1>3. SelectionInv /\ [SelectionNext]_selectionVars => SelectionInv'
  BY SelectionKeeps
<1> QED
  BY <1>1, <1>2, <1>3, PTL DEF SelectionSpec

-----------------------------------------------------------------------------
(* The number of selected candidates.                                      *)

\* A division is known by its quotient and its remainder.
LEMMA DivUnique ==
  ASSUME NEW a \in Nat, NEW d \in Nat \ {0}, NEW q \in Nat, d * q <= a, a < d * q + d
  PROVE  a \div d = q
<1> DEFINE p == a \div d
<1>1. p \in Nat /\ d * p <= a /\ a < d * p + d
  BY DivFacts
<1> HIDE DEF p
<1>2. d * p \in Nat /\ d * q \in Nat /\ d * (p + 1) = d * p + d /\ d * (q + 1) = d * q + d
  BY <1>1
<1>3. ~ (d * (q + 1) <= d * p) /\ ~ (d * (p + 1) <= d * q)
  BY <1>1, <1>2
<1>4. ASSUME p >= q + 1 PROVE FALSE
  <2>1. d * (q + 1) <= d * p
    <3>1. p - (q + 1) \in Nat /\ d * (p - (q + 1)) \in Nat
      BY <1>1, <1>4
    <3>2. d * p = d * (q + 1) + d * (p - (q + 1))
      BY <1>1
    <3> QED
      BY <1>1, <1>2, <3>1, <3>2
  <2> QED
    BY <1>3, <2>1
<1>5. ASSUME q >= p + 1 PROVE FALSE
  <2>1. d * (p + 1) <= d * q
    <3>1. q - (p + 1) \in Nat /\ d * (q - (p + 1)) \in Nat
      BY <1>1, <1>5
    <3>2. d * q = d * (p + 1) + d * (q - (p + 1))
      BY <1>1
    <3> QED
      BY <1>1, <1>2, <3>1, <3>2
  <2> QED
    BY <1>3, <2>1
<1>6. p = q
  BY <1>1, <1>4, <1>5
<1> QED
  BY <1>6 DEF p

\* The share split at the denominator is the share: the quotient counts in
\* full, and only the remainder is rounded.
LEMMA SplitShare ==
  ASSUME NEW n \in Nat, NEW r \in Nat, NEW d \in Nat \ {0}
  PROVE  /\ (n \div d) * r + ((n % d) * r) \div d = (n * r) \div d
         /\ (n * r) \div d \in Nat
<1> DEFINE q == n \div d
           m == n % d
<1>1. q \in Nat /\ m \in Nat /\ n = d * q + m
  OBVIOUS
<1> HIDE DEF q, m
<1> DEFINE x == q * r
           y == m * r
           z == y \div d
           u == n * r
<1>2. x \in Nat /\ y \in Nat /\ u \in Nat
  BY <1>1
<1>3. u = d * x + y
  <2>1. (d * q + m) * r = (d * q) * r + m * r
    BY <1>1
  <2>2. (d * q) * r = d * (q * r)
    BY <1>1
  <2> QED
    BY <1>1, <2>1, <2>2
<1>4. z \in Nat /\ d * z <= y /\ y < d * z + d
  <2> HIDE DEF y
  <2> QED
    BY <1>2, DivFacts
<1> HIDE DEF x, y, z, u
<1>5. d * (x + z) = d * x + d * z /\ d * x \in Nat /\ d * z \in Nat
  BY <1>2, <1>4
<1>6. d * (x + z) <= u /\ u < d * (x + z) + d /\ x + z \in Nat
  BY <1>2, <1>3, <1>4, <1>5
<1>7. u \div d = x + z
  BY <1>2, <1>6, DivUnique
<1> QED
  BY <1>2, <1>4, <1>7 DEF x, y, z, u, q, m

\* What Min and Max choose.
LEMMA MaxOfTwo ==
  ASSUME NEW a \in Nat, NEW b \in Nat
  PROVE  Max({a, b}) = IF a >= b THEN a ELSE b
<1> DEFINE k == IF a >= b THEN a ELSE b
<1>1. k \in {a, b} /\ \A y \in {a, b} : k >= y
  OBVIOUS
<1>2. \A x \in {a, b} : (\A y \in {a, b} : x >= y) => x = k
  OBVIOUS
<1> HIDE DEF k
<1>3. Max({a, b}) = k
  BY <1>1, <1>2 DEF Max
<1> QED
  BY <1>3 DEF k

\* Min of a set with a least element.
LEMMA MinIsLeast ==
  ASSUME NEW S \in SUBSET Nat, NEW k \in S, \A j \in S : k <= j
  PROVE  Min(S) = k
<1>1. \A x \in S : (\A y \in S : x <= y) => x = k
  OBVIOUS
<1> QED
  BY <1>1 DEF Min

\* SelectedCount, which never multiplies the number of candidates by the rate,
\* selects the number the protocol promises, for every number of candidates and
\* every admissible limit (count.go).
THEOREM CountIsPromised ==
  ASSUME NEW n \in Nat, n >= 2, NEW l \in [rate : Nat, slotMax : Nat, protocolMax : Nat],
         LimitsOK(l)
  PROVE  /\ SelectedCount(n, l) = PromisedCount(n, l)
         /\ SelectedCount(n, l) \in 1 .. (n \div 2)
<1> DEFINE d == BasisPointsDenominator
           share == (n * l.rate) \div d
           rateK == (n \div d) * l.rate + ((n % d) * l.rate) \div d
           half == n \div 2
           a == l.slotMax
           b == l.protocolMax
           most == Max({1, rateK})
           k == SelectedCount(n, l)
<1>1. d \in Nat \ {0} /\ l.rate \in Nat /\ a \in Nat /\ b \in Nat /\ a >= 1 /\ b >= 1
  BY SelectionAssumption DEF LimitsOK
<1>2. rateK = share /\ share \in Nat
  BY <1>1, SplitShare
<1>3. half \in Nat /\ half >= 1 /\ half <= n
  OBVIOUS
<1>4. k = Min({most, a, b, half})
  BY DEF SelectedCount
<1>5. Max({share, 1}) = most
  <2>1. {share, 1} = {1, rateK}
    BY <1>2
  <2> QED
    BY <2>1
<1> HIDE DEF share, rateK, half, a, b, k
<1>6. most \in Nat /\ most >= 1 /\ most \in {share, 1}
  BY <1>2, MaxOfTwo
<1> HIDE DEF most
<1>7. PICK x \in {most, a, b, half} : \A j \in {most, a, b, half} : x <= j
  BY <1>1, <1>3, <1>6
<1>8. k = x
  <2> DEFINE S == {most, a, b, half}
  <2>1. S \in SUBSET Nat /\ x \in S /\ \A j \in S : x <= j
    BY <1>1, <1>3, <1>6, <1>7
  <2> HIDE DEF S
  <2>2. Min(S) = x
    BY <2>1, MinIsLeast
  <2> QED
    BY <1>4, <2>2 DEF S
<1>9. k \in Nat /\ 1 <= k /\ k <= half /\ k <= a /\ k <= b /\ k <= most
      /\ k \in {most, a, b, half}
  BY <1>1, <1>3, <1>6, <1>7, <1>8
<1> DEFINE P(j) == /\ \A c \in {a, b, half} : j <= c
                   /\ j \in {a, b, half} \cup {share, 1}
                   /\ j <= most
                   /\ j < most => j \in {a, b, half}
<1>10. k \in 1 .. n /\ P(k)
  BY <1>1, <1>3, <1>6, <1>9
<1>11. ASSUME NEW j \in 1 .. n, P(j) PROVE j = k
  <2>1. j \in Nat /\ j <= a /\ j <= b /\ j <= half /\ j <= most
    BY <1>11
  <2>2. j = most \/ j \in {a, b, half}
    BY <1>6, <1>11, <2>1
  <2>3. k <= j
    BY <1>9, <2>2
  <2>4. j <= k
    BY <1>9, <2>1
  <2> QED
    BY <1>9, <2>1, <2>3, <2>4
<1>12. PromisedCount(n, l) = CHOOSE j \in 1 .. n : P(j)
  BY <1>5 DEF PromisedCount, share, half, a, b
<1> HIDE DEF P
<1>13. (CHOOSE j \in 1 .. n : P(j)) = k
  BY <1>10, <1>11
<1> QED
  BY <1>3, <1>9, <1>12, <1>13 DEF k, half

-----------------------------------------------------------------------------
(* The emission, tier by tier.                                             *)

\* Powers of two, by their recursion.
LEMMA PowerIsRecursion ==
  ASSUME NEW k \in Nat
  PROVE  \E f \in [0 .. k -> Nat] : /\ PowerOfTwo(k) = f[k]
                                    /\ f[0] = 1
                                    /\ \A i \in 1 .. k : f[i] = 2 * f[i - 1]
<1> DEFINE Body(g) == [i \in 0 .. k |-> IF i = 0 THEN 1 ELSE 2 * g[i - 1]]
           h == CHOOSE g : g = Body(g)
           step == [i \in 1 .. k |-> [v \in Nat |-> 2 * v]]
<1>1. PowerOfTwo(k) = h[k]
  BY DEF PowerOfTwo
<1>2. LinearRecursion(k, Nat, 1, step)
  BY DEF LinearRecursion
<1>3. \A i \in 1 .. k, v \in Nat : step[i][v] = 2 * v
  OBVIOUS
<1> HIDE DEF step
<1>4. PICK f : SolvesLinear(f, k, Nat, 1, step)
  BY <1>2, LinearRecursionExists
<1>5. /\ f \in [0 .. k -> Nat] /\ f[0] = 1
      /\ \A i \in 1 .. k : f[i] = 2 * f[i - 1]
  BY <1>3, <1>4 DEF SolvesLinear
<1>6. f = Body(f)
  BY <1>5
<1>7. h = Body(h)
  <2> HIDE DEF Body
  <2> QED
    BY <1>6
<1> HIDE DEF h
<1>8. h \in [0 .. k -> Nat]
  <2> DEFINE G == {j \in Nat : j <= k => h[j] \in Nat}
  <2>1. 0 \in G
    BY <1>7
  <2>2. ASSUME NEW j \in G PROVE j + 1 \in G
    <3>1. ASSUME j + 1 <= k PROVE h[j + 1] = 2 * h[j] /\ h[j] \in Nat
      BY <1>7, <3>1
    <3> QED
      BY <3>1
  <2>3. G = Nat
    <3>1. G \in SUBSET Nat
      OBVIOUS
    <3> HIDE DEF G
    <3> QED
      BY <2>1, <2>2, <3>1, NaturalsByInduction
  <2>4. \A j \in 0 .. k : h[j] \in Nat
    BY <2>3
  <2>5. h = [i \in 0 .. k |-> h[i]]
    BY <1>7
  <2> QED
    BY <2>4, <2>5
<1>9. h[0] = 1 /\ \A i \in 1 .. k : h[i] = 2 * h[i - 1]
  BY <1>7
<1> QED
  BY <1>1, <1>8, <1>9

\* Two solutions of one linear recursion of doubling agree as far as both go.
LEMMA PowerOneMore ==
  ASSUME NEW k \in Nat
  PROVE  PowerOfTwo(0) = 1 /\ PowerOfTwo(k + 1) = 2 * PowerOfTwo(k)
<1>1. PICK f \in [0 .. k -> Nat] : /\ PowerOfTwo(k) = f[k] /\ f[0] = 1
                                   /\ \A i \in 1 .. k : f[i] = 2 * f[i - 1]
  BY PowerIsRecursion
<1>2. PICK g \in [0 .. (k + 1) -> Nat] : /\ PowerOfTwo(k + 1) = g[k + 1] /\ g[0] = 1
                                         /\ \A i \in 1 .. (k + 1) : g[i] = 2 * g[i - 1]
  <2>1. k + 1 \in Nat
    OBVIOUS
  <2> QED
    BY <2>1, PowerIsRecursion
<1>3. PICK z \in [0 .. 0 -> Nat] : PowerOfTwo(0) = z[0] /\ z[0] = 1
  <2>1. 0 \in Nat
    OBVIOUS
  <2> QED
    BY <2>1, PowerIsRecursion
<1> DEFINE G == {j \in Nat : j <= k => g[j] = f[j]}
<1>4. 0 \in G
  BY <1>1, <1>2
<1>5. ASSUME NEW j \in G PROVE j + 1 \in G
  <2>1. ASSUME j + 1 <= k PROVE g[j + 1] = f[j + 1]
    <3>1. j + 1 \in 1 .. k /\ j + 1 \in 1 .. (k + 1) /\ (j + 1) - 1 = j /\ g[j] = f[j]
      BY <2>1
    <3> QED
      BY <1>1, <1>2, <3>1
  <2> QED
    BY <2>1
<1>6. G = Nat
  <2>1. G \in SUBSET Nat
    OBVIOUS
  <2> HIDE DEF G
  <2> QED
    BY <1>4, <1>5, <2>1, NaturalsByInduction
<1>7. g[k] = f[k]
  <2>1. k \in G /\ k <= k
    <3> HIDE DEF G
    <3> QED
      BY <1>6
  <2> QED
    BY <2>1
<1>8. g[k + 1] = 2 * g[k]
  <2>1. k + 1 \in 1 .. (k + 1) /\ (k + 1) - 1 = k
    OBVIOUS
  <2> QED
    BY <1>2, <2>1
<1> QED
  BY <1>1, <1>2, <1>3, <1>7, <1>8

\* A power of two is positive and above its exponent.
LEMMA PowerFacts ==
  ASSUME NEW k \in Nat
  PROVE  PowerOfTwo(k) \in Nat \ {0} /\ k < PowerOfTwo(k)
<1> DEFINE G == {j \in Nat : PowerOfTwo(j) \in Nat \ {0} /\ j < PowerOfTwo(j)}
<1>1. 0 \in G
  BY PowerOneMore
<1>2. ASSUME NEW j \in G PROVE j + 1 \in G
  <2>1. j \in Nat /\ PowerOfTwo(j) \in Nat \ {0} /\ j < PowerOfTwo(j)
    OBVIOUS
  <2>2. PowerOfTwo(j + 1) = 2 * PowerOfTwo(j)
    BY <2>1, PowerOneMore
  <2> QED
    BY <2>1, <2>2
<1>3. G = Nat
  <2>1. G \in SUBSET Nat
    OBVIOUS
  <2> HIDE DEF G
  <2> QED
    BY <1>1, <1>2, <2>1, NaturalsByInduction
<1> QED
  BY <1>3

\* Dividing by the next power of two is halving once more.
LEMMA HalfOfQuotient ==
  ASSUME NEW a \in Nat, NEW k \in Nat
  PROVE  /\ a \div PowerOfTwo(0) = a
         /\ a \div PowerOfTwo(k) \in Nat
         /\ a \div PowerOfTwo(k + 1) = (a \div PowerOfTwo(k)) \div 2
<1> DEFINE d == PowerOfTwo(k)
           q == a \div d
           h == q \div 2
<1>1. d \in Nat \ {0} /\ PowerOfTwo(k + 1) = 2 * d /\ PowerOfTwo(0) = 1
  BY PowerFacts, PowerOneMore
<1> HIDE DEF d
<1>2. q \in Nat /\ d * q <= a /\ a < d * q + d
  BY <1>1, DivFacts
<1> HIDE DEF q
<1>3. h \in Nat /\ 2 * h <= q /\ q <= 2 * h + 1
  BY <1>2
<1> HIDE DEF h
<1>4. d * (2 * h) <= d * q /\ d * q <= d * (2 * h + 1)
  <2>1. d * (q - 2 * h) \in Nat /\ d * (2 * h + 1 - q) \in Nat
    <3>1. q - 2 * h \in Nat /\ 2 * h + 1 - q \in Nat
      BY <1>2, <1>3
    <3> QED
      BY <1>1, <3>1
  <2>2. d * (q - 2 * h) = d * q - d * (2 * h) /\ d * (2 * h + 1 - q) = d * (2 * h + 1) - d * q
    BY <1>1, <1>2, <1>3
  <2>3. d * q \in Int /\ d * (2 * h) \in Int /\ d * (2 * h + 1) \in Int
    BY <1>1, <1>2, <1>3
  <2> QED
    BY <2>1, <2>2, <2>3
<1>5. /\ d * (2 * h) = (2 * d) * h /\ d * (2 * h + 1) = (2 * d) * h + d
      /\ (2 * d) * h \in Nat /\ d * q \in Nat
  BY <1>1, <1>2, <1>3
<1>6. (2 * d) * h <= a /\ a < (2 * d) * h + 2 * d
  BY <1>1, <1>2, <1>4, <1>5
<1>7. a \div (2 * d) = h
  <2>1. 2 * d \in Nat \ {0}
    BY <1>1
  <2> QED
    BY <1>3, <1>6, <2>1, DivUnique
<1>8. a \div 1 = a
  OBVIOUS
<1> QED
  BY <1>1, <1>2, <1>7, <1>8 DEF h, q, d

\* The halves of the cap get smaller.
LEMMA QuotientsFall ==
  ASSUME NEW a \in Nat, NEW i \in Nat, NEW j \in Nat, i <= j
  PROVE  a \div PowerOfTwo(j) <= a \div PowerOfTwo(i)
<1> DEFINE G == {n \in Nat : a \div PowerOfTwo(i + n) <= a \div PowerOfTwo(i)}
<1>1. 0 \in G
  <2>1. i + 0 = i /\ a \div PowerOfTwo(i) \in Nat
    BY HalfOfQuotient
  <2> QED
    BY <2>1
<1>2. ASSUME NEW n \in G PROVE n + 1 \in G
  <2> DEFINE p == a \div PowerOfTwo(i + n)
  <2>1. i + n \in Nat /\ i + (n + 1) = (i + n) + 1 /\ p <= a \div PowerOfTwo(i)
    OBVIOUS
  <2>2. p \in Nat /\ a \div PowerOfTwo((i + n) + 1) = p \div 2 /\ a \div PowerOfTwo(i) \in Nat
    BY <2>1, HalfOfQuotient
  <2> HIDE DEF p
  <2>3. p \div 2 <= p
    BY <2>2
  <2>4. a \div PowerOfTwo(i + (n + 1)) <= a \div PowerOfTwo(i)
    BY <2>1, <2>2, <2>3
  <2> QED
    BY <2>4
<1>3. G = Nat
  <2>1. G \in SUBSET Nat
    OBVIOUS
  <2> HIDE DEF G
  <2> QED
    BY <1>1, <1>2, <2>1, NaturalsByInduction
<1>4. j - i \in Nat /\ i + (j - i) = j
  OBVIOUS
<1>5. j - i \in G
  <2> HIDE DEF G
  <2> QED
    BY <1>3, <1>4
<1> QED
  BY <1>4, <1>5

\* Tiers begin between nothing and the cap, the first with nothing; tier max begins
\* at the cap.
LEMMA TierStartFacts ==
  ASSUME max \in Nat, NEW u \in Nat
  PROVE  /\ TierStart(u) \in 0 .. max
         /\ TierStart(0) = 0
         /\ TierStart(max) = max
<1>1. max \div PowerOfTwo(u) \in Nat /\ max \div PowerOfTwo(0) = max
  BY HalfOfQuotient
<1>2. max \div PowerOfTwo(u) <= max
  BY <1>1, QuotientsFall
<1>3. max \div PowerOfTwo(max) = 0
  <2>1. PowerOfTwo(max) \in Nat \ {0} /\ max < PowerOfTwo(max)
    BY PowerFacts
  <2>2. PowerOfTwo(max) * 0 = 0 /\ PowerOfTwo(max) * 0 <= max
        /\ max < PowerOfTwo(max) * 0 + PowerOfTwo(max) /\ 0 \in Nat
    BY <2>1
  <2> QED
    BY <2>1, <2>2, DivUnique
<1> QED
  BY <1>1, <1>2, <1>3 DEF TierStart

\* The rate of a tier, which never rises from zero.
LEMMA TierRateFacts ==
  ASSUME initial \in Nat, NEW u \in Nat
  PROVE  TierRate(u) \in Nat /\ (TierRate(u) = 0 => TierRate(u + 1) = 0)
<1>1. TierRate(u) \in Nat /\ TierRate(u + 1) = TierRate(u) \div 2
  BY HalfOfQuotient DEF TierRate
<1> QED
  BY <1>1

\* Halving step by step is dividing once (the loop of NextBlockSubsidy).
LEMMA HalvedIsRate ==
  ASSUME initial \in Nat, NEW u \in Nat
  PROVE  HalvedSubsidy(initial, u) = TierRate(u)
<1>1. PICK f \in [0 .. u -> Nat] :
        /\ HalvedSubsidy(initial, u) = f[u]
        /\ \A i \in 0 .. u : f[i] = IF i = 0 THEN initial ELSE f[i - 1] \div 2
  BY HalvedSubsidyIsRecursion
<1> DEFINE G == {j \in Nat : j <= u => f[j] = initial \div PowerOfTwo(j)}
<1>2. 0 \in G
  <2>1. initial \div PowerOfTwo(0) = initial
    BY HalfOfQuotient
  <2> QED
    BY <1>1, <2>1
<1>3. ASSUME NEW j \in G PROVE j + 1 \in G
  <2>1. ASSUME j + 1 <= u PROVE f[j + 1] = initial \div PowerOfTwo(j + 1)
    <3>1. j + 1 \in 0 .. u /\ j + 1 # 0 /\ (j + 1) - 1 = j /\ j \in Nat
          /\ f[j] = initial \div PowerOfTwo(j)
      BY <2>1
    <3>2. f[j + 1] = f[j] \div 2
      BY <1>1, <3>1
    <3> QED
      BY <3>1, <3>2, HalfOfQuotient
  <2> QED
    BY <2>1
<1>4. G = Nat
  <2>1. G \in SUBSET Nat
    OBVIOUS
  <2> HIDE DEF G
  <2> QED
    BY <1>2, <1>3, <2>1, NaturalsByInduction
<1>5. f[u] = initial \div PowerOfTwo(u)
  BY <1>4
<1> QED
  BY <1>1, <1>5 DEF TierRate

\* The amount lies in tier u.
InTier(c, u) == c \in 0 .. max /\ TierStart(u) <= c /\ c < TierStart(u + 1)

\* The thresholds the loops of HalvingTier and NextHalvingThreshold see: those up to u
\* are reached, and the one after it is not, or there is none.
LEMMA ThresholdsOfTier ==
  ASSUME max \in Nat, NEW c, NEW u \in Nat, InTier(c, u)
  PROVE  /\ \A i \in 1 .. u : /\ max \div PowerOfTwo(i) \in 1 .. max
                              /\ ~ (c < max - max \div PowerOfTwo(i))
                              /\ max \div PowerOfTwo(i + 1) = (max \div PowerOfTwo(i)) \div 2
         /\ max \div PowerOfTwo(u + 1) \in 0 .. max
         /\ max \div PowerOfTwo(u + 1) = 0 \/ c < max - max \div PowerOfTwo(u + 1)
         /\ max \div PowerOfTwo(1) = max \div 2
<1> DEFINE q(i) == max \div PowerOfTwo(i)
<1>1. c \in 0 .. max /\ max - q(u) <= c /\ c < max - q(u + 1)
  BY DEF InTier, TierStart
<1>2. \A i \in Nat : q(i) \in Nat /\ q(i + 1) = q(i) \div 2 /\ q(0) = max
  BY HalfOfQuotient
<1>3. \A i \in Nat : q(i) <= max
  <2> SUFFICES ASSUME NEW i \in Nat PROVE q(i) <= q(0)
    BY <1>2
  <2> QED
    BY QuotientsFall
<1>4. ASSUME NEW i \in 1 .. u PROVE q(i) \in 1 .. max /\ ~ (c < max - q(i))
  <2>1. q(u) <= q(i)
    BY QuotientsFall
  <2>2. q(u) \in Nat /\ q(i) \in Nat /\ q(i) <= max /\ q(u + 1) \in Nat
    BY <1>2, <1>3
  <2> HIDE DEF q
  <2> QED
    BY <1>1, <2>1, <2>2
<1>5. q(1) = max \div 2
  <2>1. q(0 + 1) = q(0) \div 2 /\ 0 + 1 = 1
    BY <1>2
  <2> QED
    BY <1>2, <2>1
<1>6. u + 1 \in Nat /\ \A i \in 1 .. u : i \in Nat
  OBVIOUS
<1>7. q(u + 1) \in 0 .. max
  BY <1>2, <1>3, <1>6
<1> HIDE DEF q
<1>8. /\ \A i \in 1 .. u : q(i) \in 1 .. max /\ ~ (c < max - q(i)) /\ q(i + 1) = q(i) \div 2
      /\ q(u + 1) \in 0 .. max /\ (q(u + 1) = 0 \/ c < max - q(u + 1)) /\ q(1) = max \div 2
  BY <1>1, <1>2, <1>4, <1>5, <1>6, <1>7
<1> QED
  BY <1>8 DEF q

\* HalvingTier counts the tiers passed, and NextHalvingThreshold is where the next one
\* begins.
LEMMA TierIsCounted ==
  ASSUME max \in Nat, NEW c, NEW u \in Nat, InTier(c, u)
  PROVE  HalvingTier(c, max) = u /\ NextHalvingThreshold(c, max) = TierStart(u + 1)
<1> DEFINE q(i) == max \div PowerOfTwo(i)
<1>1. /\ \A i \in 1 .. u : q(i) \in 1 .. max /\ ~ (c < max - q(i)) /\ q(i + 1) = q(i) \div 2
      /\ q(u + 1) \in 0 .. max /\ (q(u + 1) = 0 \/ c < max - q(u + 1)) /\ q(1) = max \div 2
  BY ThresholdsOfTier
<1>2. c \in 0 .. max /\ c \in Nat
  BY DEF InTier
<1>3. PICK f \in [0 .. max -> Nat] :
        /\ HalvingTier(c, max) = f[max \div 2]
        /\ \A r \in 0 .. max : f[r] = IF r = 0 \/ c < max - r THEN 0 ELSE 1 + f[r \div 2]
  BY <1>2, HalvingTierIsRecursion
<1>4. PICK g \in [0 .. max -> c .. max] :
        /\ NextHalvingThreshold(c, max) = g[max \div 2]
        /\ \A r \in 0 .. max : g[r] = IF r = 0 THEN max
                                      ELSE IF c < max - r THEN max - r ELSE g[r \div 2]
  BY <1>2, NextThresholdIsRecursion
<1>s. TierStart(u + 1) = max - q(u + 1)
  BY DEF TierStart
<1> HIDE DEF q
<1> DEFINE G == {j \in Nat : j <= u => f[q((u + 1) - j)] = j
                                       /\ g[q((u + 1) - j)] = max - q(u + 1)}
<1>5. 0 \in G
  <2>1. (u + 1) - 0 = u + 1
    OBVIOUS
  <2> DEFINE x == q(u + 1)
  <2>x. x \in 0 .. max /\ (x = 0 \/ c < max - x)
    BY <1>1
  <2> HIDE DEF x
  <2>2. f[x] = 0
    BY <1>3, <2>x
  <2>3. g[x] = max - x
    <3>1. g[x] = IF x = 0 THEN max ELSE IF c < max - x THEN max - x ELSE g[x \div 2]
      BY <1>4, <2>x
    <3>2. CASE x = 0
      <4>1. max - 0 = max
        OBVIOUS
      <4> QED
        BY <3>1, <3>2, <4>1
    <3>3. CASE x # 0
      BY <2>x, <3>1, <3>3
    <3> QED
      BY <3>2, <3>3
  <2>4. f[q((u + 1) - 0)] = 0 /\ g[q((u + 1) - 0)] = max - q(u + 1)
    BY <2>1, <2>2, <2>3 DEF x
  <2> QED
    BY <2>4
<1>6. ASSUME NEW j \in G PROVE j + 1 \in G
  <2> SUFFICES ASSUME j + 1 <= u
               PROVE  /\ f[q((u + 1) - (j + 1))] = j + 1
                      /\ g[q((u + 1) - (j + 1))] = max - q(u + 1)
    OBVIOUS
  <2> DEFINE i == u - j
  <2>1. i \in 1 .. u /\ (u + 1) - (j + 1) = i /\ (u + 1) - j = i + 1 /\ j \in Nat
    OBVIOUS
  <2>2. f[q(i + 1)] = j /\ g[q(i + 1)] = max - q(u + 1)
    BY <2>1
  <2> HIDE DEF i
  <2> DEFINE x == q(i)
  <2>3. x \in 1 .. max /\ ~ (c < max - x) /\ q(i + 1) = x \div 2
    BY <1>1, <2>1
  <2> HIDE DEF x
  <2>4. x \in 0 .. max /\ x # 0
    BY <2>3
  <2>5. f[x] = 1 + f[x \div 2] /\ g[x] = g[x \div 2]
    BY <1>3, <1>4, <2>3, <2>4
  <2>6. f[x] = 1 + j /\ g[x] = max - q(u + 1)
    BY <2>2, <2>3, <2>5
  <2>7. 1 + j = j + 1
    BY <2>1
  <2> QED
    BY <2>1, <2>6, <2>7 DEF x
<1>7. G = Nat
  <2>1. G \in SUBSET Nat
    OBVIOUS
  <2> HIDE DEF G
  <2> QED
    BY <1>5, <1>6, <2>1, NaturalsByInduction
<1>8. f[q(1)] = u /\ g[q(1)] = max - q(u + 1)
  <2>1. u \in G
    BY <1>7
  <2>2. (u + 1) - u = 1 /\ u <= u
    OBVIOUS
  <2>3. f[q((u + 1) - u)] = u /\ g[q((u + 1) - u)] = max - q(u + 1)
    BY <2>1, <2>2
  <2> QED
    BY <2>2, <2>3
<1> QED
  BY <1>1, <1>3, <1>4, <1>8, <1>s

\* A block of tier u pays the rate of the tier, or what is left of the tier.
LEMMA SubsidyInTier ==
  ASSUME max \in Nat, initial \in Nat, NEW c, NEW u \in Nat, InTier(c, u)
  PROVE  NextBlockSubsidy(c, max, initial) = Least(TierRate(u), TierStart(u + 1) - c)
<1>1. c \in 0 .. max /\ c < TierStart(u + 1) /\ TierStart(u + 1) \in 0 .. max
  <2>1. u + 1 \in Nat
    OBVIOUS
  <2> QED
    BY <2>1, TierStartFacts DEF InTier
<1>2. HalvedSubsidy(initial, HalvingTier(c, max)) = TierRate(u)
      /\ NextHalvingThreshold(c, max) = TierStart(u + 1)
  BY TierIsCounted, HalvedIsRate
<1>3. TierRate(u) \in Nat
  BY TierRateFacts
<1>4. initial = 0 => TierRate(u) = 0
  <2>1. PowerOfTwo(u) \in Nat \ {0}
    BY PowerFacts
  <2>2. PowerOfTwo(u) * 0 = 0 /\ 0 < PowerOfTwo(u) * 0 + PowerOfTwo(u) /\ 0 \in Nat
    BY <2>1
  <2>3. 0 \div PowerOfTwo(u) = 0
    BY <2>1, <2>2, DivUnique
  <2> QED
    BY <2>3 DEF TierRate
<1> QED
  BY <1>1, <1>2, <1>3, <1>4 DEF NextBlockSubsidy, Least

\* As long as the tier has room for them, blocks pay its rate.
LEMMA BlocksInTier ==
  ASSUME max \in Nat, initial \in Nat, NEW c, NEW u \in Nat, InTier(c, u),
         TierRate(u) # 0, NEW m \in Nat, m * TierRate(u) <= TierStart(u + 1) - c
  PROVE  CumulativeAfter(c, m, max, initial) = c + m * TierRate(u)
<1> DEFINE rate == TierRate(u)
           room == TierStart(u + 1) - c
           G == {j \in Nat : j * rate <= room =>
                               CumulativeAfter(c, j, max, initial) = c + j * rate}
<1>1. rate \in Nat \ {0} /\ c \in 0 .. max /\ room \in Nat /\ room = TierStart(u + 1) - c
      /\ TierStart(u) <= c /\ TierStart(u + 1) \in 0 .. max /\ TierStart(u) \in 0 .. max
  <2>1. u + 1 \in Nat
    OBVIOUS
  <2> QED
    BY <2>1, TierRateFacts, TierStartFacts DEF InTier
<1>s. \A x : InTier(x, u) => NextBlockSubsidy(x, max, initial) = Least(rate, TierStart(u + 1) - x)
  BY SubsidyInTier
<1> HIDE DEF rate, room
<1>2. 0 \in G
  <2>1. CumulativeAfter(c, 0, max, initial) = c /\ 0 * rate = 0
    BY <1>1, AfterOneMore
  <2> QED
    BY <1>1, <2>1
<1>3. ASSUME NEW j \in G PROVE j + 1 \in G
  <2> SUFFICES ASSUME (j + 1) * rate <= room
               PROVE  CumulativeAfter(c, j + 1, max, initial) = c + (j + 1) * rate
    OBVIOUS
  <2> DEFINE x == c + j * rate
  <2>1. j \in Nat /\ j * rate \in Nat /\ (j + 1) * rate = j * rate + rate
    BY <1>1
  <2>2. CumulativeAfter(c, j, max, initial) = x
    BY <1>1, <2>1
  <2>3. CumulativeAfter(c, j + 1, max, initial) = x + NextBlockSubsidy(x, max, initial)
    BY <1>1, <2>1, <2>2, AfterOneMore
  <2>4. /\ x \in 0 .. max /\ TierStart(u) <= x /\ x < TierStart(u + 1)
        /\ rate <= TierStart(u + 1) - x /\ x + rate = c + (j + 1) * rate
    BY <1>1, <2>1
  <2> HIDE DEF x
  <2>5. NextBlockSubsidy(x, max, initial) = Least(rate, TierStart(u + 1) - x)
    BY <1>s, <2>4 DEF InTier
  <2>6. Least(rate, TierStart(u + 1) - x) = rate
    BY <1>1, <2>4 DEF Least
  <2> QED
    BY <2>3, <2>4, <2>5, <2>6
<1>4. G = Nat
  <2>1. G \in SUBSET Nat
    OBVIOUS
  <2> HIDE DEF G
  <2> QED
    BY <1>2, <1>3, <2>1, NaturalsByInduction
<1>5. m \in G /\ m * rate <= room
  BY <1>4 DEF rate, room
<1> QED
  BY <1>5 DEF rate, room

\* The blocks a tier needs are as many as it takes and no more.
LEMMA BlocksNeeded ==
  ASSUME NEW room \in Nat \ {0}, NEW rate \in Nat \ {0}
  PROVE  LET need == CeilDiv(room, rate)
         IN need \in Nat \ {0} /\ room <= need * rate /\ (need - 1) * rate < room
<1> DEFINE need == CeilDiv(room, rate)
           a == room + rate - 1
<1>1. a \in Nat /\ need = a \div rate
  BY DEF CeilDiv
<1>2. a = room + rate - 1
  OBVIOUS
<1> HIDE DEF need, a
<1>3. need \in Nat /\ rate * need <= a /\ a < rate * need + rate
  BY <1>1, DivFacts
<1>4. rate * need \in Nat /\ need * rate = rate * need /\ (need - 1) * rate = rate * need - rate
  BY <1>3
<1>5. need # 0
  <2>1. rate * 0 = 0
    OBVIOUS
  <2> QED
    BY <1>2, <1>3, <2>1
<1>6. need \in Nat \ {0} /\ room <= need * rate /\ (need - 1) * rate < room
  BY <1>2, <1>3, <1>4, <1>5
<1> QED
  BY <1>6 DEF need

\* Where filling the tiers is when tier t begins: the blocks left lead to the target, and
\* the tiers before it are done, or the blocks are, or no block pays any more.
Positions == [amount : 0 .. max, left : Nat]
Filled(t, p, target) ==
  /\ CumulativeAfter(p.amount, p.left, max, initial) = target
  /\ \/ p.amount >= TierStart(t)
     \/ p.left = 0
     \/ TierRate(t) = 0 /\ NextBlockSubsidy(p.amount, max, initial) = 0

\* A tier that is left to its end: its blocks but the last pay the rate, and the last
\* one pays the rest.
LEMMA TierToItsEnd ==
  ASSUME max \in Nat, initial \in Nat, NEW c, NEW u \in Nat, InTier(c, u), TierRate(u) # 0
  PROVE  LET need == CeilDiv(TierStart(u + 1) - c, TierRate(u))
         IN /\ need \in Nat \ {0}
            /\ CumulativeAfter(c, need, max, initial) = TierStart(u + 1)
            /\ \A m \in Nat : m < need => /\ CumulativeAfter(c, m, max, initial) = c + m * TierRate(u)
                                          /\ c + m * TierRate(u) \in 0 .. max
<1> DEFINE rate == TierRate(u)
           room == TierStart(u + 1) - c
           need == CeilDiv(room, rate)
           end == TierStart(u + 1)
<1>1. /\ rate \in Nat \ {0} /\ c \in 0 .. max /\ room \in Nat \ {0} /\ room = end - c
      /\ TierStart(u) <= c /\ end \in 0 .. max /\ TierStart(u) \in 0 .. max
  <2>1. u + 1 \in Nat
    OBVIOUS
  <2> QED
    BY <2>1, TierRateFacts, TierStartFacts DEF InTier
<1>s. \A x : InTier(x, u) => NextBlockSubsidy(x, max, initial) = Least(rate, end - x)
  BY SubsidyInTier
<1>b. \A m \in Nat : m * rate <= room => CumulativeAfter(c, m, max, initial) = c + m * rate
  BY <1>1, BlocksInTier
<1>i. \A x : InTier(x, u) <=> x \in 0 .. max /\ TierStart(u) <= x /\ x < end
  BY DEF InTier
<1>n. need \in Nat \ {0} /\ room <= need * rate /\ (need - 1) * rate < room
  <2> HIDE DEF room, rate
  <2> QED
    BY <1>1, BlocksNeeded
<1> HIDE DEF rate, room, need, end
<1>2. ASSUME NEW m \in Nat, m < need
      PROVE  m * rate < room /\ m * rate \in Nat
  <2>1. (need - 1) - m \in Nat
    BY <1>n, <1>2
  <2>2. ((need - 1) - m) * rate \in Nat /\ ((need - 1) - m) * rate = (need - 1) * rate - m * rate
        /\ m * rate \in Nat /\ (need - 1) * rate \in Int
    BY <1>1, <1>n, <2>1
  <2> QED
    BY <1>1, <1>n, <2>2
<1>3. ASSUME NEW m \in Nat, m < need
      PROVE  CumulativeAfter(c, m, max, initial) = c + m * rate /\ c + m * rate \in 0 .. max
             /\ c + m * rate < end
  <2>1. m * rate < room /\ m * rate \in Nat
    BY <1>2, <1>3
  <2>2. m * rate <= room
    BY <1>1, <2>1
  <2> QED
    BY <1>1, <1>b, <2>1, <2>2
<1>4. CumulativeAfter(c, need, max, initial) = end
  <2> DEFINE m == need - 1
             x == c + m * rate
  <2>1. m \in Nat /\ m < need /\ m + 1 = need /\ (m + 1) * rate = m * rate + rate /\ m * rate \in Nat
    BY <1>1, <1>n
  <2>2. CumulativeAfter(c, m, max, initial) = x /\ x \in 0 .. max /\ x < end
    BY <1>3, <2>1
  <2>3. TierStart(u) <= x /\ end - x <= rate /\ x + (end - x) = end
    BY <1>1, <1>n, <2>1, <2>2
  <2>4. CumulativeAfter(c, m + 1, max, initial) = x + NextBlockSubsidy(x, max, initial)
    BY <1>1, <2>1, <2>2, AfterOneMore
  <2> HIDE DEF x
  <2>5. NextBlockSubsidy(x, max, initial) = Least(rate, end - x)
    BY <1>s, <1>i, <2>2, <2>3
  <2>6. Least(rate, end - x) = end - x
    BY <1>1, <2>2, <2>3 DEF Least
  <2> QED
    BY <2>1, <2>3, <2>4, <2>5, <2>6
<1>5. /\ need \in Nat \ {0} /\ CumulativeAfter(c, need, max, initial) = end
      /\ \A m \in Nat : m < need => CumulativeAfter(c, m, max, initial) = c + m * rate
                                    /\ c + m * rate \in 0 .. max
  BY <1>n, <1>3, <1>4
<1> QED
  BY <1>5 DEF need, rate, room, end

\* Filling a tier that pays, from inside it.
LEMMA FillInside ==
  ASSUME max \in Nat, initial \in Nat, NEW u \in Nat, NEW p \in Positions, NEW target,
         InTier(p.amount, u), TierRate(u) # 0,
         CumulativeAfter(p.amount, p.left, max, initial) = target
  PROVE  FillTier(u, p) \in Positions /\ Filled(u + 1, FillTier(u, p), target)
<1> DEFINE c == p.amount
           n == p.left
           need == CeilDiv(TierStart(u + 1) - c, TierRate(u))
           end == TierStart(u + 1)
           q == FillTier(u, p)
<1>1. c \in 0 .. max /\ n \in Nat /\ c < end /\ end \in 0 .. max /\ TierRate(u) \in Nat
  <2>1. u + 1 \in Nat
    OBVIOUS
  <2> QED
    BY <2>1, TierStartFacts, TierRateFacts DEF InTier, Positions
<1>2. /\ need \in Nat \ {0}
      /\ CumulativeAfter(c, need, max, initial) = end
      /\ \A m \in Nat : m < need => CumulativeAfter(c, m, max, initial) = c + m * TierRate(u)
                                    /\ c + m * TierRate(u) \in 0 .. max
  BY TierToItsEnd
<1>3. q = IF n < need THEN [amount |-> c + n * TierRate(u), left |-> 0]
          ELSE [amount |-> end, left |-> n - need]
  <2>1. ~ (end - c <= 0)
    BY <1>1
  <2> QED
    BY <2>1 DEF FillTier
<1>4. CumulativeAfter(c, n, max, initial) = target
  OBVIOUS
<1> HIDE DEF c, n, need, end, q
<1>5. CASE n < need
  <2> DEFINE x == c + n * TierRate(u)
  <2>1. target = x /\ x \in 0 .. max
    BY <1>1, <1>2, <1>4, <1>5
  <2> HIDE DEF x
  <2>2. q.amount = x /\ q.left = 0 /\ q \in Positions
    BY <1>3, <1>5, <2>1 DEF x, Positions
  <2>3. CumulativeAfter(x, 0, max, initial) = x
    BY <2>1, AfterOneMore
  <2>4. Filled(u + 1, q, target)
    BY <2>1, <2>2, <2>3 DEF Filled
  <2> QED
    BY <2>2, <2>4 DEF q
<1>6. CASE ~ (n < need)
  <2>1. n - need \in Nat /\ need + (n - need) = n
    BY <1>1, <1>2, <1>6
  <2>2. q.amount = end /\ q.left = n - need /\ q \in Positions
    BY <1>1, <1>3, <1>6, <2>1 DEF Positions
  <2>3. CumulativeAfter(CumulativeAfter(c, need, max, initial), n - need, max, initial)
          = CumulativeAfter(c, need + (n - need), max, initial)
    BY <1>1, <1>2, <2>1, EmissionAdditive
  <2>4. CumulativeAfter(end, n - need, max, initial) = target
    BY <1>2, <1>4, <2>1, <2>3
  <2>5. q.amount >= TierStart(u + 1)
    BY <1>1, <2>2 DEF end
  <2>6. Filled(u + 1, q, target)
    BY <2>2, <2>4, <2>5 DEF Filled
  <2> QED
    BY <2>2, <2>6 DEF q
<1> QED
  BY <1>5, <1>6

\* Filling a tier keeps the target, whatever is left to fill.
LEMMA FillTierStep ==
  ASSUME max \in Nat, initial \in Nat, NEW u \in Nat, NEW p \in Positions, NEW target,
         Filled(u, p, target)
  PROVE  FillTier(u, p) \in Positions /\ Filled(u + 1, FillTier(u, p), target)
<1> DEFINE c == p.amount
           n == p.left
           need == CeilDiv(TierStart(u + 1) - c, TierRate(u))
           end == TierStart(u + 1)
           rate == TierRate(u)
           q == FillTier(u, p)
<1>1. /\ c \in 0 .. max /\ n \in Nat /\ end \in 0 .. max /\ TierStart(u) \in 0 .. max
      /\ rate \in Nat /\ (rate = 0 => TierRate(u + 1) = 0)
  <2>1. u + 1 \in Nat
    OBVIOUS
  <2> QED
    BY <2>1, TierStartFacts, TierRateFacts DEF Positions
<1>2. q = IF end - c <= 0 \/ rate = 0 THEN p
          ELSE IF n < need THEN [amount |-> c + n * rate, left |-> 0]
          ELSE [amount |-> end, left |-> n - need]
  BY DEF FillTier
<1>3. /\ CumulativeAfter(c, n, max, initial) = target
      /\ c >= TierStart(u) \/ n = 0 \/ (rate = 0 /\ NextBlockSubsidy(c, max, initial) = 0)
  BY DEF Filled
<1>4. CASE c >= end
  <2>1. end - c <= 0
    BY <1>1, <1>4
  <2>2. q = p
    BY <1>2, <2>1
  <2>3. Filled(u + 1, p, target)
    BY <1>3, <1>4 DEF Filled
  <2> QED
    BY <2>2, <2>3 DEF q
<1>5. CASE c < end /\ rate = 0
  <2>1. q = p
    BY <1>2, <1>5
  <2>2. n = 0 \/ NextBlockSubsidy(c, max, initial) = 0
    <3>1. CASE c >= TierStart(u)
      <4>1. InTier(c, u)
        BY <1>1, <1>5, <3>1 DEF InTier
      <4>2. NextBlockSubsidy(c, max, initial) = Least(0, end - c)
        BY <1>5, <4>1, SubsidyInTier
      <4>3. Least(0, end - c) = 0
        BY <1>1, <1>5 DEF Least
      <4> QED
        BY <4>2, <4>3
    <3> QED
      BY <1>3, <3>1
  <2>3. Filled(u + 1, p, target)
    BY <1>1, <1>3, <1>5, <2>2 DEF Filled
  <2> QED
    BY <2>1, <2>3 DEF q
<1>6. CASE c < end /\ rate # 0 /\ c >= TierStart(u)
  <2>1. InTier(p.amount, u)
    BY <1>1, <1>6 DEF InTier
  <2> QED
    BY <1>3, <1>6, <2>1, FillInside
<1>7. CASE c < end /\ rate # 0 /\ n = 0
  <2>1. end - c \in Nat \ {0} /\ rate \in Nat \ {0} /\ ~ (end - c <= 0)
    BY <1>1, <1>7
  <2>2. need \in Nat \ {0}
    <3> HIDE DEF end, rate, c
    <3> QED
      BY <2>1, BlocksNeeded DEF end, rate
  <2>3. n < need /\ c + n * rate = c
    <3> HIDE DEF end, rate, c, n, need
    <3>1. 0 * rate = 0 /\ c + 0 = c
      BY <1>1
    <3> QED
      BY <1>7, <2>2, <3>1
  <2>4. q.amount = c /\ q.left = 0 /\ q \in Positions
    <3> HIDE DEF end, rate, c, n, need, q
    <3>1. q = [amount |-> c, left |-> 0]
      BY <1>2, <1>7, <2>1, <2>3
    <3> QED
      BY <1>1, <3>1 DEF Positions
  <2>5. Filled(u + 1, q, target)
    <3> HIDE DEF q
    <3> QED
      BY <1>3, <1>7, <2>4 DEF Filled
  <2> QED
    BY <2>4, <2>5 DEF q
<1>8. c >= end \/ c < end
  BY <1>1
<1> HIDE DEF c, n, end, rate, need, q
<1> QED
  BY <1>3, <1>4, <1>5, <1>6, <1>7, <1>8

\* Once no block pays, the amount stays.
LEMMA NothingPaid ==
  ASSUME max \in Nat, initial \in Nat, NEW c \in 0 .. max,
         NextBlockSubsidy(c, max, initial) = 0, NEW n \in Nat
  PROVE  CumulativeAfter(c, n, max, initial) = c
<1> DEFINE G == {j \in Nat : CumulativeAfter(c, j, max, initial) = c}
<1>1. 0 \in G
  BY AfterOneMore
<1>2. ASSUME NEW j \in G PROVE j + 1 \in G
  <2>1. CumulativeAfter(c, j + 1, max, initial) = c + 0
    BY AfterOneMore
  <2> QED
    BY <2>1
<1>3. G = Nat
  <2>1. G \in SUBSET Nat
    OBVIOUS
  <2> HIDE DEF G
  <2> QED
    BY <1>1, <1>2, <2>1, NaturalsByInduction
<1> QED
  BY <1>3

\* Filling the tiers in order arrives at what the blocks emit one by one.
LEMMA TiersAreBlocks ==
  ASSUME max \in Nat, initial \in Nat, NEW c \in 0 .. max, NEW n \in Nat
  PROVE  InTiers(c, n) = CumulativeAfter(c, n, max, initial)
<1> DEFINE begin == [amount |-> c, left |-> n]
           Body(g) == [t \in 0 .. max |-> IF t = 0 THEN begin ELSE FillTier(t - 1, g[t - 1])]
           h == CHOOSE g : g = Body(g)
           target == CumulativeAfter(c, n, max, initial)
           step == [i \in 1 .. max |-> [p \in Positions |->
                      IF FillTier(i - 1, p) \in Positions THEN FillTier(i - 1, p) ELSE p]]
<1>1. InTiers(c, n) = h[max].amount
  BY DEF InTiers
<1>2. begin \in Positions /\ begin.amount = c /\ begin.left = n
  BY DEF Positions
<1>3. Filled(0, begin, target)
  <2>1. TierStart(0) = 0 /\ c >= 0
    BY TierStartFacts
  <2> QED
    BY <1>2, <2>1 DEF Filled
<1> HIDE DEF begin, target
<1>4. ASSUME NEW t \in Nat, NEW p, p \in Positions, Filled(t, p, target)
      PROVE  FillTier(t, p) \in Positions /\ Filled(t + 1, FillTier(t, p), target)
  BY <1>4, FillTierStep
<1>5. \E g : g = Body(g)
  <2>1. LinearRecursion(max, Positions, begin, step)
    <3>1. \A i \in 1 .. max, p \in Positions : step[i][p] \in Positions
      OBVIOUS
    <3> HIDE DEF step
    <3> QED
      BY <1>2, <3>1 DEF LinearRecursion
  <2>2. \A i \in 1 .. max, p \in Positions :
          FillTier(i - 1, p) \in Positions => step[i][p] = FillTier(i - 1, p)
    OBVIOUS
  <2> HIDE DEF step
  <2>3. PICK f : SolvesLinear(f, max, Positions, begin, step)
    BY <2>1, LinearRecursionExists
  <2>4. /\ f \in [0 .. max -> Positions] /\ f[0] = begin
        /\ \A i \in 1 .. max : f[i - 1] \in Positions /\ f[i] = step[i][f[i - 1]]
    BY <2>3 DEF SolvesLinear
  <2> DEFINE G == {j \in Nat : j <= max =>
                     /\ f[j] \in Positions /\ Filled(j, f[j], target)
                     /\ j # 0 => f[j] = FillTier(j - 1, f[j - 1])}
  <2>5. 0 \in G
    <3>1. f[0] \in Positions /\ Filled(0, f[0], target)
      BY <1>2, <1>3, <2>4
    <3> QED
      BY <3>1
  <2>6. ASSUME NEW j \in G PROVE j + 1 \in G
    <3> SUFFICES ASSUME j + 1 <= max
                 PROVE  /\ f[j + 1] \in Positions /\ Filled(j + 1, f[j + 1], target)
                        /\ f[j + 1] = FillTier((j + 1) - 1, f[(j + 1) - 1])
      OBVIOUS
    <3>1. j \in Nat /\ f[j] \in Positions /\ Filled(j, f[j], target) /\ (j + 1) - 1 = j
          /\ j + 1 \in 1 .. max
      OBVIOUS
    <3>2. FillTier(j, f[j]) \in Positions /\ Filled(j + 1, FillTier(j, f[j]), target)
      BY <1>4, <3>1
    <3>3. f[j + 1] = step[j + 1][f[j]]
      BY <2>4, <3>1
    <3>4. step[j + 1][f[j]] = FillTier(j, f[j])
      BY <2>2, <3>1, <3>2
    <3> QED
      BY <3>1, <3>2, <3>3, <3>4
  <2>7. G = Nat
    <3>1. G \in SUBSET Nat
      OBVIOUS
    <3> HIDE DEF G
    <3> QED
      BY <2>5, <2>6, <3>1, NaturalsByInduction
  <2>8. \A t \in 0 .. max : f[t] = IF t = 0 THEN begin ELSE FillTier(t - 1, f[t - 1])
    BY <2>4, <2>7
  <2>9. f = Body(f)
    BY <2>4, <2>8
  <2> QED
    BY <2>9
<1>6. h = Body(h)
  <2> HIDE DEF Body
  <2> QED
    BY <1>5
<1> HIDE DEF h, step
<1>7. h[0] = begin /\ \A t \in 0 .. max : t # 0 => h[t] = FillTier(t - 1, h[t - 1])
  BY <1>6
<1> DEFINE H == {j \in Nat : j <= max => h[j] \in Positions /\ Filled(j, h[j], target)}
<1>8. 0 \in H
  BY <1>2, <1>3, <1>7
<1>9. ASSUME NEW j \in H PROVE j + 1 \in H
  <2> SUFFICES ASSUME j + 1 <= max
               PROVE  h[j + 1] \in Positions /\ Filled(j + 1, h[j + 1], target)
    OBVIOUS
  <2>1. j \in Nat /\ h[j] \in Positions /\ Filled(j, h[j], target) /\ (j + 1) - 1 = j
        /\ j + 1 \in 0 .. max /\ j + 1 # 0
    OBVIOUS
  <2>2. h[j + 1] = FillTier(j, h[j])
    BY <1>7, <2>1
  <2> QED
    BY <1>4, <2>1, <2>2
<1>10. H = Nat
  <2>1. H \in SUBSET Nat
    OBVIOUS
  <2> HIDE DEF H
  <2> QED
    BY <1>8, <1>9, <2>1, NaturalsByInduction
<1> DEFINE q == h[max]
<1>11. q \in Positions /\ Filled(max, q, target)
  BY <1>10
<1> HIDE DEF q
<1>12. q.amount = target
  <2>1. q.amount \in 0 .. max /\ q.left \in Nat
    BY <1>11 DEF Positions
  <2>2. CumulativeAfter(q.amount, q.left, max, initial) = target
    BY <1>11 DEF Filled
  <2>3. CASE q.amount >= TierStart(max)
    <3>1. TierStart(max) = max
      BY TierStartFacts
    <3>2. q.amount = max
      BY <2>1, <2>3, <3>1
    <3>3. NextBlockSubsidy(q.amount, max, initial) = 0
      BY <3>2 DEF NextBlockSubsidy
    <3> QED
      BY <2>1, <2>2, <3>3, NothingPaid
  <2>4. CASE q.left = 0
    <3> DEFINE a == q.amount
    <3>0. a \in 0 .. max
      BY <2>1
    <3> HIDE DEF a
    <3>1. CumulativeAfter(a, 0, max, initial) = a
      BY <3>0, AfterOneMore
    <3> QED
      BY <2>2, <2>4, <3>1 DEF a
  <2>5. CASE NextBlockSubsidy(q.amount, max, initial) = 0
    BY <2>1, <2>2, <2>5, NothingPaid
  <2> QED
    BY <1>11, <2>3, <2>4, <2>5 DEF Filled
<1> QED
  BY <1>1, <1>12 DEF q, target

\* The constants of a behaviour, and the amount reached as one run of blocks from the
\* start.
EmissionInv ==
  /\ max \in Nat /\ initial \in Nat
  /\ start \in 0 .. max
  /\ blocks \in Nat
  /\ cumulative = CumulativeAfter(start, blocks, max, initial)

\* However the blocks are split into epochs, what has been emitted is what filling the
\* tiers in order gives: no unit is paid at the rate of another tier and none past the
\* cap (ComputeEpochEmission).
THEOREM EmissionAlwaysFillsTiers == Spec => []EmissionFillsTiers
<1>1. Init => EmissionInv
  <2> SUFFICES ASSUME Init PROVE EmissionInv
    OBVIOUS
  <2>1. max \in Nat /\ initial \in Nat /\ start \in 0 .. max /\ cumulative = start /\ blocks = 0
    BY EmissionAssumption DEF Init
  <2>2. CumulativeAfter(start, 0, max, initial) = start
    BY <2>1, AfterOneMore
  <2> QED
    BY <2>1, <2>2 DEF EmissionInv
<1>2. EmissionInv /\ [Next]_vars => EmissionInv'
  <2> SUFFICES ASSUME EmissionInv, [Next]_vars PROVE EmissionInv'
    OBVIOUS
  <2>1. ASSUME NEW n \in EpochBlocks, CloseEpoch(n) PROVE EmissionInv'
    <3>1. n \in Nat
      BY EmissionAssumption
    <3>2. /\ max' = max /\ initial' = initial /\ start' = start /\ blocks' = blocks + n
          /\ cumulative' = CumulativeAfter(cumulative, n, max, initial)
      BY <2>1 DEF CloseEpoch
    <3>3. cumulative' = CumulativeAfter(start, blocks + n, max, initial)
      BY <3>1, <3>2, EmissionAdditive DEF EmissionInv
    <3>4. blocks + n \in Nat
      BY <3>1 DEF EmissionInv
    <3> QED
      BY <3>2, <3>3, <3>4 DEF EmissionInv
  <2>2. CASE UNCHANGED vars
    BY <2>2 DEF vars, EmissionInv
  <2> QED
    BY <2>1, <2>2 DEF Next
<1>3. EmissionInv => EmissionFillsTiers
  BY TiersAreBlocks DEF EmissionInv, EmissionFillsTiers
<1> QED
  BY <1>1, <1>2, <1>3, PTL DEF Spec

-----------------------------------------------------------------------------
(* The beacon entries, and the blocks that do not count.                   *)

\* What FilterBeaconEntries and Skipping have in common: w without the elements at the
\* positions in out, after each number of elements.
KeepsBut(f, w, out) ==
  /\ f[0] = <<>>
  /\ \A i \in 1 .. Len(w) : f[i] = IF i \in out THEN f[i - 1] ELSE Append(f[i - 1], w[i])
Own(slot, w) == {i \in 1 .. Len(w) : w[i].proposer = slot}

\* There is one, of sequences of the same elements.
LEMMA KeepingExists ==
  ASSUME NEW S, NEW w \in Seq(S), NEW out
  PROVE  \E f : f \in [0 .. Len(w) -> Seq(S)] /\ KeepsBut(f, w, out)
<1> DEFINE n == Len(w)
           step == [i \in 1 .. n |-> [v \in Seq(S) |-> IF i \in out THEN v ELSE Append(v, w[i])]]
<1>1. n \in Nat /\ <<>> \in Seq(S) /\ \A i \in 1 .. n : w[i] \in S
  OBVIOUS
<1>2. \A i \in 1 .. n, v \in Seq(S) : /\ step[i][v] = IF i \in out THEN v ELSE Append(v, w[i])
                                      /\ step[i][v] \in Seq(S)
  BY <1>1
<1> HIDE DEF step
<1>3. LinearRecursion(n, Seq(S), <<>>, step)
  BY <1>1, <1>2 DEF LinearRecursion
<1>4. PICK f : SolvesLinear(f, n, Seq(S), <<>>, step)
  BY <1>3, LinearRecursionExists
<1>5. /\ f \in [0 .. n -> Seq(S)] /\ f[0] = <<>>
      /\ \A i \in 1 .. n : f[i - 1] \in Seq(S) /\ f[i] = step[i][f[i - 1]]
  BY <1>4 DEF SolvesLinear
<1>6. \A i \in 1 .. n : f[i] = IF i \in out THEN f[i - 1] ELSE Append(f[i - 1], w[i])
  BY <1>2, <1>5
<1> QED
  BY <1>5, <1>6 DEF KeepsBut

\* There is only one, as far as two sequences agree.
LEMMA KeepingUnique ==
  ASSUME NEW f, NEW w, NEW out, KeepsBut(f, w, out), Len(w) \in Nat,
         NEW g, NEW v, NEW but, KeepsBut(g, v, but), Len(v) \in Nat,
         NEW n \in Nat, n <= Len(w), n <= Len(v),
         \A i \in 1 .. n : w[i] = v[i] /\ (i \in out <=> i \in but)
  PROVE  f[n] = g[n]
<1> DEFINE G == {j \in Nat : j <= n => f[j] = g[j]}
<1>1. 0 \in G
  BY DEF KeepsBut
<1>2. ASSUME NEW j \in G PROVE j + 1 \in G
  <2>1. ASSUME j + 1 <= n PROVE f[j + 1] = g[j + 1]
    <3> DEFINE i == j + 1
    <3>1. i \in 1 .. n /\ i \in 1 .. Len(w) /\ i \in 1 .. Len(v) /\ i - 1 = j /\ f[j] = g[j]
      BY <2>1
    <3> HIDE DEF i
    <3>2. f[i] = IF i \in out THEN f[i - 1] ELSE Append(f[i - 1], w[i])
      BY <3>1 DEF KeepsBut
    <3>3. g[i] = IF i \in but THEN g[i - 1] ELSE Append(g[i - 1], v[i])
      BY <3>1 DEF KeepsBut
    <3>4. w[i] = v[i] /\ (i \in out <=> i \in but)
      BY <3>1
    <3> QED
      BY <3>1, <3>2, <3>3, <3>4 DEF i
  <2> QED
    BY <2>1
<1>3. G = Nat
  <2>1. G \in SUBSET Nat
    OBVIOUS
  <2> HIDE DEF G
  <2> QED
    BY <1>1, <1>2, <2>1, NaturalsByInduction
<1> QED
  BY <1>3

\* FilterBeaconEntries keeps all but the blocks of the slot.
LEMMA FilterKeeps ==
  ASSUME NEW S, NEW w \in Seq(S), NEW slot, NEW f, KeepsBut(f, w, Own(slot, w))
  PROVE  FilterBeaconEntries(slot, w) = f[Len(w)]
<1> DEFINE Body(g) == [i \in 0 .. Len(w) |->
                         IF i = 0 THEN <<>>
                         ELSE IF w[i].proposer = slot THEN g[i - 1]
                         ELSE Append(g[i - 1], w[i])]
           h == CHOOSE g : g = Body(g)
           out == Own(slot, w)
           e == [i \in 0 .. Len(w) |-> f[i]]
<1>1. FilterBeaconEntries(slot, w) = h[Len(w)]
  BY DEF FilterBeaconEntries
<1>2. Len(w) \in Nat /\ \A i \in 1 .. Len(w) : i \in out <=> w[i].proposer = slot
  BY DEF Own
<1>3. /\ f[0] = <<>>
      /\ \A i \in 1 .. Len(w) : f[i] = IF w[i].proposer = slot THEN f[i - 1]
                                       ELSE Append(f[i - 1], w[i])
  BY <1>2 DEF KeepsBut
<1>4. e = Body(e)
  <2>1. \A i \in 1 .. Len(w) : i - 1 \in 0 .. Len(w)
    BY <1>2
  <2>2. \A i \in 0 .. Len(w) : i = 0 \/ i \in 1 .. Len(w)
    BY <1>2
  <2>3. \A i \in 0 .. Len(w) : f[i] = IF i = 0 THEN <<>>
                                      ELSE IF w[i].proposer = slot THEN e[i - 1]
                                      ELSE Append(e[i - 1], w[i])
    BY <1>3, <2>1, <2>2
  <2> QED
    BY <2>3
<1>5. h = Body(h)
  <2> HIDE DEF Body
  <2> QED
    BY <1>4
<1> HIDE DEF h
<1>6. KeepsBut(h, w, out)
  <2>1. h[0] = <<>>
    BY <1>2, <1>5
  <2>2. \A i \in 1 .. Len(w) : h[i] = IF w[i].proposer = slot THEN h[i - 1]
                                      ELSE Append(h[i - 1], w[i])
    <3> SUFFICES ASSUME NEW i \in 1 .. Len(w)
                 PROVE  h[i] = IF w[i].proposer = slot THEN h[i - 1] ELSE Append(h[i - 1], w[i])
      OBVIOUS
    <3>1. i \in 0 .. Len(w) /\ i # 0
      BY <1>2
    <3>2. h[i] = Body(h)[i]
      <4> HIDE DEF Body
      <4> QED
        BY <1>5
    <3> QED
      BY <3>1, <3>2
  <2> QED
    BY <1>2, <2>1, <2>2 DEF KeepsBut
<1> HIDE DEF out
<1>7. h[Len(w)] = f[Len(w)]
  BY <1>2, <1>6, KeepingUnique DEF out
<1> QED
  BY <1>1, <1>7

\* Skipping keeps all but the blocks that were missed.
LEMMA SkippingKeeps ==
  ASSUME NEW S, NEW w \in Seq(S), NEW missed, NEW f, KeepsBut(f, w, missed)
  PROVE  Skipping(w, missed) = f[Len(w)]
<1> DEFINE Body(g) == [i \in 0 .. Len(w) |->
                         IF i = 0 THEN <<>>
                         ELSE IF i \in missed THEN g[i - 1]
                         ELSE Append(g[i - 1], w[i])]
           h == CHOOSE g : g = Body(g)
           e == [i \in 0 .. Len(w) |-> f[i]]
<1>1. Skipping(w, missed) = h[Len(w)]
  BY DEF Skipping
<1>2. Len(w) \in Nat
  OBVIOUS
<1>3. /\ f[0] = <<>>
      /\ \A i \in 1 .. Len(w) : f[i] = IF i \in missed THEN f[i - 1] ELSE Append(f[i - 1], w[i])
  BY DEF KeepsBut
<1>4. e = Body(e)
  <2>1. \A i \in 1 .. Len(w) : i - 1 \in 0 .. Len(w)
    BY <1>2
  <2>2. \A i \in 0 .. Len(w) : i = 0 \/ i \in 1 .. Len(w)
    BY <1>2
  <2>3. \A i \in 0 .. Len(w) : f[i] = IF i = 0 THEN <<>>
                                      ELSE IF i \in missed THEN e[i - 1]
                                      ELSE Append(e[i - 1], w[i])
    BY <1>3, <2>1, <2>2
  <2> QED
    BY <2>3
<1>5. h = Body(h)
  <2> HIDE DEF Body
  <2> QED
    BY <1>4
<1> HIDE DEF h
<1>6. KeepsBut(h, w, missed)
  <2>1. h[0] = <<>>
    BY <1>2, <1>5
  <2>2. \A i \in 1 .. Len(w) : h[i] = IF i \in missed THEN h[i - 1] ELSE Append(h[i - 1], w[i])
    <3> SUFFICES ASSUME NEW i \in 1 .. Len(w)
                 PROVE  h[i] = IF i \in missed THEN h[i - 1] ELSE Append(h[i - 1], w[i])
      OBVIOUS
    <3>1. i \in 0 .. Len(w) /\ i # 0
      BY <1>2
    <3>2. h[i] = Body(h)[i]
      <4> HIDE DEF Body
      <4> QED
        BY <1>5
    <3> QED
      BY <3>1, <3>2
  <2> QED
    BY <2>1, <2>2 DEF KeepsBut
<1>7. h[Len(w)] = f[Len(w)]
  BY <1>2, <1>6, KeepingUnique
<1> QED
  BY <1>1, <1>7

\* One more block is one more entry unless it is the slot's own.
LEMMA FilterAppend ==
  ASSUME NEW S, NEW w \in Seq(S), NEW b \in S, NEW slot
  PROVE  /\ FilterBeaconEntries(slot, <<>>) = <<>>
         /\ FilterBeaconEntries(slot, w) \in Seq(S)
         /\ FilterBeaconEntries(slot, Append(w, b)) =
              IF b.proposer = slot THEN FilterBeaconEntries(slot, w)
              ELSE Append(FilterBeaconEntries(slot, w), b)
<1> DEFINE v == Append(w, b)
           n == Len(w)
<1>1. v \in Seq(S) /\ Len(v) = n + 1 /\ v[n + 1] = b /\ n \in Nat
      /\ \A i \in 1 .. n : v[i] = w[i]
  OBVIOUS
<1>2. PICK f : f \in [0 .. n -> Seq(S)] /\ KeepsBut(f, w, Own(slot, w))
  BY KeepingExists
<1> HIDE DEF v
<1>3. PICK g : KeepsBut(g, v, Own(slot, v))
  BY <1>1, KeepingExists
<1>4. FilterBeaconEntries(slot, w) = f[n]
  BY <1>2, FilterKeeps
<1>5. FilterBeaconEntries(slot, v) = g[n + 1]
  <2>1. FilterBeaconEntries(slot, v) = g[Len(v)]
    BY <1>1, <1>3, FilterKeeps
  <2> QED
    BY <1>1, <2>1
<1>6. f[n] = g[n]
  <2>1. \A i \in 1 .. n : w[i] = v[i] /\ (i \in Own(slot, w) <=> i \in Own(slot, v))
    BY <1>1 DEF Own
  <2>2. n <= Len(w) /\ n <= Len(v) /\ Len(w) \in Nat /\ Len(v) \in Nat
    BY <1>1
  <2> QED
    BY <1>1, <1>2, <1>3, <2>1, <2>2, KeepingUnique
<1>7. g[n + 1] = IF b.proposer = slot THEN g[n] ELSE Append(g[n], b)
  <2>1. n + 1 \in 1 .. Len(v) /\ (n + 1) - 1 = n
    BY <1>1
  <2>2. n + 1 \in Own(slot, v) <=> b.proposer = slot
    BY <1>1, <2>1 DEF Own
  <2>3. g[n + 1] = IF n + 1 \in Own(slot, v) THEN g[(n + 1) - 1]
                   ELSE Append(g[(n + 1) - 1], v[n + 1])
    BY <1>3, <2>1 DEF KeepsBut
  <2> QED
    BY <1>1, <2>1, <2>2, <2>3
<1>8. FilterBeaconEntries(slot, <<>>) = <<>>
  <2>1. <<>> \in Seq(S) /\ Len(<<>>) = 0
    OBVIOUS
  <2>2. PICK z : KeepsBut(z, <<>>, Own(slot, <<>>))
    BY <2>1, KeepingExists
  <2>3. FilterBeaconEntries(slot, <<>>) = z[Len(<<>>)]
    BY <2>1, <2>2, FilterKeeps
  <2> QED
    BY <2>1, <2>2, <2>3 DEF KeepsBut
<1>9. f[n] \in Seq(S)
  BY <1>1, <1>2
<1> QED
  BY <1>4, <1>5, <1>6, <1>7, <1>8, <1>9 DEF v

\* The entries stand for the blocks of w that others proposed.
External(slot, w) == {i \in DOMAIN w : w[i].proposer # slot}
StandFor(S, entries, slot, w) ==
  /\ entries \in Seq(S)
  /\ Len(entries) = Cardinality(External(slot, w))
  /\ {entries[i].proposer : i \in DOMAIN entries} = {w[i].proposer : i \in External(slot, w)}

\* The entries are as many as the blocks of other slots, and have the same proposers.
LEMMA FilterCounts ==
  ASSUME NEW S, NEW w \in Seq(S), NEW slot
  PROVE  StandFor(S, FilterBeaconEntries(slot, w), slot, w)
<1> DEFINE n == Len(w)
           E(j) == {i \in 1 .. j : w[i].proposer # slot}
           Props(s) == {s[i].proposer : i \in 1 .. Len(s)}
           PropsOf(I) == {w[i].proposer : i \in I}
<1>1. n \in Nat /\ DOMAIN w = 1 .. n /\ \A i \in 1 .. n : w[i] \in S
  OBVIOUS
<1>2. PICK f : f \in [0 .. n -> Seq(S)] /\ KeepsBut(f, w, Own(slot, w))
  BY KeepingExists
<1>3. FilterBeaconEntries(slot, w) = f[n]
  BY <1>2, FilterKeeps
<1> DEFINE C(j) == /\ IsFiniteSet(E(j)) /\ Len(f[j]) = Cardinality(E(j))
                   /\ Props(f[j]) = PropsOf(E(j))
           G == {j \in Nat : j <= n => C(j)}
<1>4. 0 \in G
  <2>1. f[0] = <<>> /\ Len(f[0]) = 0 /\ E(0) = {}
    BY <1>2 DEF KeepsBut
  <2>2. IsFiniteSet(E(0)) /\ Cardinality(E(0)) = 0
    BY <2>1, FS_EmptySet
  <2>3. Props(f[0]) = {} /\ PropsOf(E(0)) = {}
    BY <2>1
  <2>4. C(0)
    BY <2>1, <2>2, <2>3
  <2> HIDE DEF C
  <2> QED
    BY <2>4
<1>5. ASSUME NEW j \in G PROVE j + 1 \in G
  <2> HIDE DEF C
  <2> SUFFICES ASSUME j + 1 <= n PROVE C(j + 1)
    OBVIOUS
  <2>0. j \in Nat /\ C(j)
    BY <1>1
  <2> USE DEF C
  <2> DEFINE i == j + 1
  <2>1. /\ j \in Nat /\ i \in 1 .. n /\ i - 1 = j /\ j \in 0 .. n /\ IsFiniteSet(E(j))
        /\ Len(f[j]) = Cardinality(E(j)) /\ Props(f[j]) = PropsOf(E(j))
    <3> HIDE DEF E, Props, PropsOf
    <3> QED
      BY <1>1, <2>0
  <2>2. 1 .. i = (1 .. j) \cup {i} /\ i \notin 1 .. j
    BY <2>1
  <2>3. f[i] = IF i \in Own(slot, w) THEN f[i - 1] ELSE Append(f[i - 1], w[i])
    BY <1>2, <2>1 DEF KeepsBut
  <2>4. i \in Own(slot, w) <=> w[i].proposer = slot
    BY <2>1 DEF Own
  <2>5. CASE w[i].proposer = slot
    <3>1. E(i) = E(j)
      BY <2>2, <2>5
    <3>2. f[i] = f[j]
      BY <2>1, <2>3, <2>4, <2>5
    <3> HIDE DEF E, Props, PropsOf
    <3> QED
      BY <2>1, <3>1, <3>2
  <2>6. CASE w[i].proposer # slot
    <3>1. E(i) = E(j) \cup {i} /\ i \notin E(j)
      BY <2>2, <2>6
    <3>2. f[i] = Append(f[j], w[i])
      BY <2>1, <2>3, <2>4, <2>6
    <3>3. f[j] \in Seq(S) /\ w[i] \in S
      BY <1>1, <1>2, <2>1
    <3>4. IsFiniteSet(E(i)) /\ Cardinality(E(i)) = Cardinality(E(j)) + 1
      <4> HIDE DEF E
      <4> QED
        BY <2>1, <3>1, FS_AddElement
    <3>5. Len(f[i]) = Len(f[j]) + 1
      BY <3>2, <3>3
    <3>6. Props(f[i]) = Props(f[j]) \cup {w[i].proposer}
      <4> DEFINE s == f[j]
                 b == w[i]
      <4> HIDE DEF s, b
      <4>1. s \in Seq(S) /\ b \in S
        BY <3>3 DEF s, b
      <4> DEFINE a == Append(s, b)
      <4>2. Len(a) = Len(s) + 1 /\ Len(s) \in Nat /\ a[Len(s) + 1] = b
            /\ \A k \in 1 .. Len(s) : a[k] = s[k]
        BY <4>1
      <4> HIDE DEF a
      <4>3. 1 .. Len(a) = (1 .. Len(s)) \cup {Len(s) + 1}
        BY <4>2
      <4>4. Props(a) = Props(s) \cup {b.proposer}
        BY <4>2, <4>3
      <4> QED
        BY <3>2, <4>4 DEF a, s, b
    <3>7. PropsOf(E(i)) = PropsOf(E(j)) \cup {w[i].proposer}
      <4> HIDE DEF E
      <4> QED
        BY <3>1
    <3> HIDE DEF E, Props, PropsOf
    <3> QED
      BY <2>1, <3>4, <3>5, <3>6, <3>7
  <2> QED
    BY <2>5, <2>6
<1>6. G = Nat
  <2>1. G \in SUBSET Nat
    OBVIOUS
  <2> HIDE DEF G
  <2> QED
    BY <1>4, <1>5, <2>1, NaturalsByInduction
<1>7. Len(f[n]) = Cardinality(E(n)) /\ Props(f[n]) = PropsOf(E(n))
  <2>1. C(n)
    <3> HIDE DEF C
    <3> QED
      BY <1>1, <1>6
  <2> QED
    BY <2>1
<1>8. f[n] \in Seq(S) /\ DOMAIN f[n] = 1 .. Len(f[n])
  <2>1. f[n] \in Seq(S)
    BY <1>1, <1>2
  <2> HIDE DEF n
  <2> QED
    BY <2>1
<1> QED
  BY <1>1, <1>3, <1>7, <1>8 DEF StandFor, External

\* v is w but for the contents of the slot's own blocks.
SameButOwn(slot, w, v) ==
  /\ Len(v) = Len(w)
  /\ \A i \in 1 .. Len(w) : /\ v[i].proposer = w[i].proposer
                            /\ v[i].height = w[i].height
                            /\ w[i].proposer # slot => v[i] = w[i]

\* Neither the contents nor the absence of own blocks changes the entries.
LEMMA OwnLeaveNoEntry ==
  ASSUME NEW S, NEW w \in Seq(S), NEW v \in Seq(S), NEW slot, SameButOwn(slot, w, v),
         NEW missed, \A i \in missed : w[i].proposer = slot
  PROVE  /\ Skipping(v, missed) \in Seq(S)
         /\ FilterBeaconEntries(slot, Skipping(v, missed)) = FilterBeaconEntries(slot, w)
<1> DEFINE n == Len(w)
           F(s) == FilterBeaconEntries(slot, s)
<1>1. n \in Nat /\ Len(v) = n /\ \A i \in 1 .. n : v[i] \in S
  BY DEF SameButOwn
<1>2. PICK f : f \in [0 .. n -> Seq(S)] /\ KeepsBut(f, w, Own(slot, w))
  BY KeepingExists
<1>3. PICK k : k \in [0 .. n -> Seq(S)] /\ KeepsBut(k, v, missed)
  BY <1>1, KeepingExists
<1>4. F(w) = f[n]
  BY <1>2, FilterKeeps
<1>5. Skipping(v, missed) = k[n]
  BY <1>1, <1>3, SkippingKeeps
<1>6. F(<<>>) = <<>>
  <2>1. {1} # {} /\ <<>> \in Seq({1}) /\ 1 \in {1}
    OBVIOUS
  <2> QED
    BY <2>1, FilterAppend
<1>7. \A s \in Seq(S), b \in S : F(Append(s, b)) = IF b.proposer = slot THEN F(s)
                                                   ELSE Append(F(s), b)
  BY FilterAppend
<1> HIDE DEF F
<1> DEFINE G == {j \in Nat : j <= n => F(k[j]) = f[j]}
<1>8. 0 \in G
  BY <1>2, <1>3, <1>6 DEF KeepsBut
<1>9. ASSUME NEW j \in G PROVE j + 1 \in G
  <2> SUFFICES ASSUME j + 1 <= n PROVE F(k[j + 1]) = f[j + 1]
    OBVIOUS
  <2> DEFINE i == j + 1
  <2>1. j \in 0 .. n /\ i \in 1 .. n /\ i - 1 = j /\ F(k[j]) = f[j]
    BY <1>1
  <2> HIDE DEF i
  <2>2. k[i] = IF i \in missed THEN k[j] ELSE Append(k[j], v[i])
    BY <1>1, <1>3, <2>1 DEF KeepsBut
  <2>3. f[i] = IF w[i].proposer = slot THEN f[j] ELSE Append(f[j], w[i])
    <3>1. f[i] = IF i \in Own(slot, w) THEN f[i - 1] ELSE Append(f[i - 1], w[i])
      BY <1>2, <2>1 DEF KeepsBut
    <3>2. i \in Own(slot, w) <=> w[i].proposer = slot
      BY <2>1 DEF Own
    <3> QED
      BY <2>1, <3>1, <3>2
  <2>4. k[j] \in Seq(S) /\ v[i] \in S /\ v[i].proposer = w[i].proposer
        /\ (w[i].proposer # slot => v[i] = w[i])
    BY <1>1, <1>3, <2>1 DEF SameButOwn
  <2>5. F(Append(k[j], v[i])) = IF v[i].proposer = slot THEN F(k[j]) ELSE Append(F(k[j]), v[i])
    BY <1>7, <2>4
  <2>6. i \in missed => w[i].proposer = slot
    OBVIOUS
  <2>7. F(k[i]) = f[i]
    BY <2>1, <2>2, <2>3, <2>4, <2>5, <2>6
  <2> QED
    BY <2>7 DEF i
<1>10. G = Nat
  <2>1. G \in SUBSET Nat
    OBVIOUS
  <2> HIDE DEF G
  <2> QED
    BY <1>8, <1>9, <2>1, NaturalsByInduction
<1>11. F(k[n]) = f[n] /\ k[n] \in Seq(S)
  BY <1>1, <1>3, <1>10
<1> QED
  BY <1>4, <1>5, <1>11 DEF F

\* Nor does it put the heights out of range or out of order.
LEMMA OwnKeepOrder ==
  ASSUME NEW S, NEW w \in Seq(S), NEW v \in Seq(S), NEW slot, SameButOwn(slot, w, v),
         NEW missed, NEW first \in Int, NEW last \in Int, ObservedOK(w, first, last)
  PROVE  ObservedOK(Skipping(v, missed), first, last)
<1> DEFINE n == Len(w)
<1>1. n \in Nat /\ Len(v) = n /\ DOMAIN w = 1 .. n /\ \A i \in 1 .. n : v[i] \in S
  BY DEF SameButOwn
<1>2. PICK k : k \in [0 .. n -> Seq(S)] /\ KeepsBut(k, v, missed)
  BY <1>1, KeepingExists
<1>3. Skipping(v, missed) = k[n]
  BY <1>1, <1>2, SkippingKeeps
<1>4. /\ \A i \in 1 .. n : v[i].height \in first .. last
      /\ \A i \in 2 .. n : v[i - 1].height < v[i].height
  <2>1. \A i \in 1 .. n : v[i].height = w[i].height /\ w[i].height \in first .. last
    BY <1>1 DEF SameButOwn, ObservedOK
  <2>2. \A i \in 2 .. n : i \in 1 .. n /\ i - 1 \in 1 .. n /\ w[i - 1].height < w[i].height
    BY <1>1 DEF ObservedOK
  <2> QED
    BY <2>1, <2>2
<1> DEFINE Fine(s, m) ==
             /\ \A i \in 1 .. Len(s) : s[i].height \in first .. last /\ s[i].height <= m
             /\ \A i \in 2 .. Len(s) : s[i - 1].height < s[i].height
           G == {j \in Nat : j + 1 <= n => Fine(k[j + 1], v[j + 1].height)}
<1>5. \A i \in 1 .. n : k[i] = IF i \in missed THEN k[i - 1] ELSE Append(k[i - 1], v[i])
  BY <1>1, <1>2 DEF KeepsBut
<1>6. ASSUME NEW s \in Seq(S), NEW b \in S, b.height \in first .. last, NEW m,
             \A i \in 1 .. Len(s) : s[i].height \in first .. last /\ s[i].height <= m /\ m < b.height,
             \A i \in 2 .. Len(s) : s[i - 1].height < s[i].height,
             Len(s) >= 1 => m \in Int
      PROVE  Fine(s, b.height) /\ Fine(Append(s, b), b.height)
  <2> DEFINE a == Append(s, b)
  <2>1. Len(a) = Len(s) + 1 /\ Len(s) \in Nat /\ a[Len(s) + 1] = b
        /\ \A i \in 1 .. Len(s) : a[i] = s[i]
    OBVIOUS
  <2> HIDE DEF a
  <2>2. \A i \in 1 .. Len(s) : s[i].height < b.height /\ s[i].height <= b.height
    <3> SUFFICES ASSUME NEW i \in 1 .. Len(s)
                 PROVE  s[i].height < b.height /\ s[i].height <= b.height
      OBVIOUS
    <3>1. s[i].height \in Int /\ b.height \in Int /\ m \in Int /\ s[i].height <= m /\ m < b.height
      BY <1>6, <2>1
    <3> QED
      BY <3>1
  <2>3. \A i \in 1 .. Len(a) : a[i].height \in first .. last /\ a[i].height <= b.height
    <3> SUFFICES ASSUME NEW i \in 1 .. Len(a)
                 PROVE  a[i].height \in first .. last /\ a[i].height <= b.height
      OBVIOUS
    <3>1. CASE i = Len(s) + 1
      BY <1>6, <2>1, <3>1
    <3>2. CASE i \in 1 .. Len(s)
      BY <1>6, <2>1, <2>2, <3>2
    <3> QED
      BY <2>1, <3>1, <3>2
  <2>4. \A i \in 2 .. Len(a) : a[i - 1].height < a[i].height
    <3> SUFFICES ASSUME NEW i \in 2 .. Len(a)
                 PROVE  a[i - 1].height < a[i].height
      OBVIOUS
    <3>1. CASE i = Len(s) + 1
      <4>1. i - 1 \in 1 .. Len(s) /\ i - 1 = Len(s)
        BY <2>1, <3>1
      <4> QED
        BY <2>1, <2>2, <3>1, <4>1
    <3>2. CASE i \in 2 .. Len(s)
      <4>1. i \in 1 .. Len(s) /\ i - 1 \in 1 .. Len(s)
        BY <2>1, <3>2
      <4> QED
        BY <1>6, <2>1, <3>2, <4>1
    <3> QED
      BY <2>1, <3>1, <3>2
  <2> QED
    BY <1>6, <2>2, <2>3, <2>4 DEF a
<1>7. 0 \in G
  <2> SUFFICES ASSUME 0 + 1 <= n PROVE Fine(k[0 + 1], v[0 + 1].height)
    OBVIOUS
  <2>1. k[0] = <<>> /\ 1 \in 1 .. n /\ 0 + 1 = 1 /\ 1 - 1 = 0
    BY <1>1, <1>2 DEF KeepsBut
  <2>2. v[1] \in S /\ v[1].height \in first .. last
    BY <1>1, <1>4, <2>1
  <2>3. <<>> \in Seq(S) /\ Len(<<>>) = 0
    OBVIOUS
  <2>4. Fine(<<>>, v[1].height) /\ Fine(Append(<<>>, v[1]), v[1].height)
    <3>1. /\ \A i \in 1 .. Len(<<>>) : <<>>[i].height \in first .. last /\ <<>>[i].height <= 0
                                       /\ 0 < v[1].height
          /\ \A i \in 2 .. Len(<<>>) : <<>>[i - 1].height < <<>>[i].height
          /\ (Len(<<>>) >= 1 => 0 \in Int)
      BY <2>3
    <3> HIDE DEF Fine
    <3> QED
      BY <1>6, <2>2, <2>3, <3>1
  <2>5. k[1] = IF 1 \in missed THEN <<>> ELSE Append(<<>>, v[1])
    BY <1>5, <2>1
  <2> HIDE DEF Fine
  <2> QED
    BY <2>1, <2>4, <2>5
<1>8. ASSUME NEW j \in G PROVE j + 1 \in G
  <2> HIDE DEF Fine
  <2> SUFFICES ASSUME (j + 1) + 1 <= n PROVE Fine(k[(j + 1) + 1], v[(j + 1) + 1].height)
    OBVIOUS
  <2> USE DEF Fine
  <2> DEFINE i == j + 1
             l == i + 1
  <2>1. /\ i \in 1 .. n /\ l \in 1 .. n /\ l \in 2 .. n /\ l - 1 = i /\ i \in 0 .. n
        /\ Fine(k[i], v[i].height)
    <3> HIDE DEF Fine
    <3> QED
      BY <1>1
  <2> HIDE DEF i, l
  <2>2. /\ v[l] \in S /\ v[l].height \in first .. last /\ v[i].height \in first .. last
        /\ v[i].height < v[l].height
    BY <1>1, <1>4, <2>1
  <2>3. k[i] \in Seq(S)
    BY <1>2, <2>1
  <2>4. v[i].height \in Int
    BY <2>2
  <2>5. Fine(k[i], v[l].height) /\ Fine(Append(k[i], v[l]), v[l].height)
    <3>1. /\ \A x \in 1 .. Len(k[i]) : k[i][x].height \in first .. last
                                       /\ k[i][x].height <= v[i].height /\ v[i].height < v[l].height
          /\ \A x \in 2 .. Len(k[i]) : k[i][x - 1].height < k[i][x].height
      BY <2>1, <2>2
    <3> HIDE DEF Fine
    <3> QED
      BY <1>6, <2>2, <2>3, <2>4, <3>1
  <2>6. k[l] = IF l \in missed THEN k[i] ELSE Append(k[i], v[l])
    BY <1>5, <2>1
  <2>7. Fine(k[l], v[l].height)
    <3> HIDE DEF Fine
    <3> QED
      BY <2>5, <2>6
  <2> QED
    BY <2>7 DEF i, l
<1>9. G = Nat
  <2>1. G \in SUBSET Nat
    OBVIOUS
  <2> HIDE DEF G
  <2> QED
    BY <1>7, <1>8, <2>1, NaturalsByInduction
<1>10. /\ \A i \in 1 .. Len(k[n]) : k[n][i].height \in first .. last
       /\ \A i \in 2 .. Len(k[n]) : k[n][i - 1].height < k[n][i].height
  <2>1. CASE n = 0
    <3>1. k[n] = <<>> /\ Len(<<>>) = 0
      BY <1>2, <2>1 DEF KeepsBut
    <3> QED
      BY <3>1
  <2>2. CASE n # 0
    <3>1. n - 1 \in Nat /\ (n - 1) + 1 = n /\ n <= n
      BY <1>1, <2>2
    <3>2. Fine(k[n], v[n].height)
      <4>1. (n - 1) + 1 <= n => Fine(k[(n - 1) + 1], v[(n - 1) + 1].height)
        <5> HIDE DEF Fine
        <5> QED
          BY <1>9, <3>1
      <4> HIDE DEF Fine
      <4> QED
        BY <3>1, <4>1
    <3> QED
      BY <3>2
  <2> QED
    BY <2>1, <2>2
<1>11. DOMAIN k[n] = 1 .. Len(k[n])
  <2>1. k[n] \in Seq(S)
    BY <1>1, <1>2
  <2> HIDE DEF n
  <2> QED
    BY <2>1
<1> QED
  BY <1>3, <1>10, <1>11 DEF ObservedOK

\* The observed blocks are those of the window so far, in order; and the rest of what
\* the commitment checked.
Blocks == [height : Nat, proposer : Slots, hash : BlockHashes]
WindowInv ==
  /\ observed \in Seq(Blocks)
  /\ ObservedOK(observed, WindowFirst, WindowLast)
  /\ \A i \in DOMAIN observed : observed[i].height < height
  /\ committed # 0 =>
       /\ candidates \in CandidateLists
       /\ Canonical(candidates)
       /\ LimitsOK(rules.limits)
       /\ BeaconWindowDerivable(rules.epochs.start, rules.beacon)

\* Nothing is observed before the first block ends.
LEMMA WindowStarts ==
  ASSUME SelectionInit
  PROVE  WindowInv
<1>1. observed = <<>> /\ committed = 0
  BY DEF SelectionInit
<1>2. <<>> \in Seq(Blocks) /\ Len(<<>>) = 0 /\ DOMAIN <<>> = {}
  OBVIOUS
<1>3. ObservedOK(<<>>, WindowFirst, WindowLast)
  BY <1>2 DEF ObservedOK
<1> QED
  BY <1>1, <1>2, <1>3 DEF WindowInv

\* A block that ends is the highest observed so far.
LEMMA ObserveBlock ==
  ASSUME NEW w \in Seq(Blocks), NEW b \in Blocks, NEW first \in Int, NEW last \in Int,
         ObservedOK(w, first, last), \A i \in DOMAIN w : w[i].height < b.height,
         b.height \in first .. last
  PROVE  /\ Append(w, b) \in Seq(Blocks)
         /\ ObservedOK(Append(w, b), first, last)
         /\ \A i \in DOMAIN Append(w, b) : Append(w, b)[i].height < b.height + 1
<1> DEFINE a == Append(w, b)
           n == Len(w)
<1>1. /\ n \in Nat /\ Len(a) = n + 1 /\ a[n + 1] = b /\ \A i \in 1 .. n : a[i] = w[i]
      /\ a \in Seq(Blocks) /\ DOMAIN a = 1 .. (n + 1) /\ DOMAIN w = 1 .. n
      /\ b.height \in Nat /\ \A i \in 1 .. n : w[i].height \in Nat
  <2>1. /\ n \in Nat /\ Len(a) = n + 1 /\ a[n + 1] = b /\ \A i \in 1 .. n : a[i] = w[i]
        /\ a \in Seq(Blocks) /\ DOMAIN a = 1 .. (n + 1) /\ DOMAIN w = 1 .. n
        /\ \A i \in 1 .. n : w[i] \in Blocks
    OBVIOUS
  <2>2. \A x \in Blocks : x.height \in Nat
    BY DEF Blocks
  <2> HIDE DEF a, n
  <2> QED
    BY <2>1, <2>2
<1>2. /\ \A i \in 1 .. n : w[i].height \in first .. last /\ w[i].height < b.height
      /\ \A i \in 2 .. n : w[i - 1].height < w[i].height
  BY <1>1 DEF ObservedOK
<1> HIDE DEF a, n
<1>3. \A i \in 1 .. (n + 1) : a[i].height \in first .. last /\ a[i].height < b.height + 1
  <2> SUFFICES ASSUME NEW i \in 1 .. (n + 1)
               PROVE  a[i].height \in first .. last /\ a[i].height < b.height + 1
    OBVIOUS
  <2>1. CASE i = n + 1
    BY <1>1, <2>1
  <2>2. CASE i \in 1 .. n
    BY <1>1, <1>2, <2>2
  <2> QED
    BY <1>1, <2>1, <2>2
<1>4. \A i \in 2 .. (n + 1) : a[i - 1].height < a[i].height
  <2> SUFFICES ASSUME NEW i \in 2 .. (n + 1) PROVE a[i - 1].height < a[i].height
    OBVIOUS
  <2>1. i - 1 \in 1 .. n
    BY <1>1
  <2>2. CASE i = n + 1
    BY <1>1, <1>2, <2>1, <2>2
  <2>3. CASE i \in 2 .. n
    <3>1. i \in 1 .. n
      BY <1>1, <2>3
    <3> QED
      BY <1>1, <1>2, <2>1, <2>3, <3>1
  <2> QED
    BY <1>1, <2>2, <2>3
<1>5. ObservedOK(a, first, last)
  BY <1>1, <1>3, <1>4 DEF ObservedOK
<1> QED
  BY <1>1, <1>3, <1>5 DEF a

\* Each step keeps the window in order.
LEMMA WindowKeeps ==
  ASSUME SelectionInv, WindowInv, [SelectionNext]_selectionVars
  PROVE  WindowInv'
<1>0. height \in Nat /\ WindowFirst \in Int /\ WindowLast \in Int
  BY RulesTyped DEF SelectionInv
<1>1. ASSUME NEW ids \in CandidateLists, Commit(ids) PROVE WindowInv'
  <2>1. /\ rules' = rules /\ height' = height /\ observed' = observed /\ candidates' = ids
        /\ Canonical(ids) /\ LimitsOK(rules.limits)
        /\ BeaconWindowDerivable(rules.epochs.start, rules.beacon)
    BY <1>1 DEF Commit
  <2>2. WindowFirst' = WindowFirst /\ WindowLast' = WindowLast
    BY <2>1 DEF WindowFirst, WindowLast
  <2> QED
    BY <1>1, <2>1, <2>2 DEF WindowInv
<1>2. ASSUME NEW selected, Publish(selected) PROVE WindowInv'
  <2>1. /\ rules' = rules /\ height' = height /\ observed' = observed
        /\ candidates' = candidates /\ committed' = committed
    BY <1>2 DEF Publish
  <2>2. WindowFirst' = WindowFirst /\ WindowLast' = WindowLast
    BY <2>1 DEF WindowFirst, WindowLast
  <2> QED
    BY <2>1, <2>2 DEF WindowInv
<1>3. ASSUME NEW proposer \in Slots \cup {NoSlot}, NEW hash \in BlockHashes,
             NextBlock(proposer, hash)
      PROVE  WindowInv'
  <2> DEFINE b == [height |-> height, proposer |-> proposer, hash |-> hash]
  <2>1. /\ rules' = rules /\ height' = height + 1 /\ candidates' = candidates
        /\ committed' = committed
        /\ observed' = IF height \in WindowFirst .. WindowLast /\ proposer # NoSlot
                       THEN Append(observed, b) ELSE observed
    BY <1>3 DEF NextBlock
  <2>2. WindowFirst' = WindowFirst /\ WindowLast' = WindowLast
    BY <2>1 DEF WindowFirst, WindowLast
  <2>3. b.height = height
    OBVIOUS
  <2>4. CASE height \in WindowFirst .. WindowLast /\ proposer # NoSlot
    <3>1. b \in Blocks
      BY <1>0, <2>4 DEF Blocks
    <3> HIDE DEF b
    <3>2. observed' = Append(observed, b)
      BY <2>1, <2>4
    <3>3. /\ Append(observed, b) \in Seq(Blocks)
          /\ ObservedOK(Append(observed, b), WindowFirst, WindowLast)
          /\ \A i \in DOMAIN Append(observed, b) : Append(observed, b)[i].height < height + 1
      <4>1. \A i \in DOMAIN observed : observed[i].height < b.height
        BY <2>3 DEF WindowInv
      <4>2. ObservedOK(observed, WindowFirst, WindowLast) /\ observed \in Seq(Blocks)
        BY DEF WindowInv
      <4> HIDE DEF WindowInv
      <4> QED
        BY <1>0, <2>3, <2>4, <3>1, <4>1, <4>2, ObserveBlock
    <3> QED
      BY <2>1, <2>2, <3>2, <3>3 DEF WindowInv
  <2>5. CASE ~ (height \in WindowFirst .. WindowLast /\ proposer # NoSlot)
    <3>1. observed' = observed
      BY <2>1, <2>5
    <3>2. \A i \in DOMAIN observed : observed[i].height < height + 1
      <4> SUFFICES ASSUME NEW i \in DOMAIN observed PROVE observed[i].height < height + 1
        OBVIOUS
      <4>1. observed[i] \in Blocks /\ observed[i].height < height
        BY DEF WindowInv
      <4>2. observed[i].height \in Nat
        BY <4>1 DEF Blocks
      <4> QED
        BY <1>0, <4>1, <4>2
    <3> QED
      BY <2>1, <2>2, <3>1, <3>2 DEF WindowInv
  <2> QED
    BY <2>4, <2>5
<1>4. CASE UNCHANGED selectionVars
  <2>1. /\ rules' = rules /\ height' = height /\ observed' = observed
        /\ candidates' = candidates /\ committed' = committed
    BY <1>4 DEF selectionVars
  <2>2. WindowFirst' = WindowFirst /\ WindowLast' = WindowLast
    BY <2>1 DEF WindowFirst, WindowLast
  <2> QED
    BY <2>1, <2>2 DEF WindowInv
<1> QED
  BY <1>1, <1>2, <1>3, <1>4 DEF SelectionNext

\* The windows with other own blocks have the same entries, in the same order of
\* heights.
LEMMA VariationsAgree ==
  ASSUME NEW w \in Seq(Blocks), NEW v \in OwnVariations(w), NEW first \in Int, NEW last \in Int,
         ObservedOK(w, first, last)
  PROVE  /\ FilterBeaconEntries(TargetSlot, v) = FilterBeaconEntries(TargetSlot, w)
         /\ ObservedOK(v, first, last)
<1> DEFINE own == {i \in DOMAIN w : w[i].proposer = TargetSlot}
           Rehashed(f) == [i \in DOMAIN w |-> IF i \in own THEN [w[i] EXCEPT !.hash = f[i]] ELSE w[i]]
           H == [own -> BlockHashes]
           M == SUBSET own
<1>0. OwnVariations(w) = {Skipping(Rehashed(f), missed) : f \in H, missed \in M}
  BY DEF OwnVariations
<1>1. PICK f \in H, missed \in M : v = Skipping(Rehashed(f), missed)
  <2> HIDE DEF Rehashed, H, M
  <2> QED
    BY <1>0
<1> DEFINE u == Rehashed(f)
<1>2. Len(w) \in Nat /\ DOMAIN w = 1 .. Len(w) /\ \A i \in 1 .. Len(w) : w[i] \in Blocks
  OBVIOUS
<1>3. \A i \in 1 .. Len(w) : u[i] \in Blocks /\ u[i].proposer = w[i].proposer
                             /\ u[i].height = w[i].height
                             /\ (w[i].proposer # TargetSlot => u[i] = w[i])
  <2> SUFFICES ASSUME NEW i \in 1 .. Len(w)
               PROVE  u[i] \in Blocks /\ u[i].proposer = w[i].proposer
                      /\ u[i].height = w[i].height
                      /\ (w[i].proposer # TargetSlot => u[i] = w[i])
    OBVIOUS
  <2>1. w[i] \in Blocks /\ i \in DOMAIN w
    BY <1>2
  <2>2. CASE w[i].proposer = TargetSlot
    <3>1. i \in own /\ f[i] \in BlockHashes
      BY <1>1, <2>1, <2>2
    <3>2. u[i] = [w[i] EXCEPT !.hash = f[i]]
      BY <2>1, <3>1
    <3> HIDE DEF u
    <3> QED
      BY <2>1, <2>2, <3>1, <3>2 DEF Blocks
  <2>3. CASE w[i].proposer # TargetSlot
    <3>1. u[i] = w[i]
      BY <2>1, <2>3
    <3> HIDE DEF u
    <3> QED
      BY <2>1, <2>3, <3>1
  <2> QED
    BY <2>2, <2>3
<1>4. DOMAIN u = 1 .. Len(w) /\ u = [i \in 1 .. Len(w) |-> u[i]]
  BY <1>2
<1>5. \A i \in missed : w[i].proposer = TargetSlot
  BY <1>1
<1> HIDE DEF u
<1>6. u \in Seq(Blocks) /\ Len(u) = Len(w)
  BY <1>2, <1>3, <1>4
<1>7. SameButOwn(TargetSlot, w, u)
  BY <1>3, <1>6 DEF SameButOwn
<1>8. v = Skipping(u, missed)
  BY <1>1 DEF u
<1> QED
  BY <1>5, <1>6, <1>7, <1>8, OwnLeaveNoEntry, OwnKeepOrder

\* A slot cannot influence its own draw with the blocks it proposes, neither by their
\* contents nor by having them missed (FilterBeaconEntries).
THEOREM OwnBlocksNeverCount == SelectionSpec => []OwnBlocksDoNotCount
<1>1. ASSUME SelectionInv, WindowInv PROVE OwnBlocksDoNotCount
  <2> SUFFICES ASSUME NEW w \in OwnVariations(observed) PROVE Result(w) = Result(observed)
    BY DEF OwnBlocksDoNotCount
  <2>1. /\ observed \in Seq(Blocks) /\ ObservedOK(observed, WindowFirst, WindowLast)
        /\ WindowFirst \in Int /\ WindowLast \in Int
    BY <1>1, RulesTyped DEF SelectionInv, WindowInv
  <2>2. FilterBeaconEntries(TargetSlot, w) = FilterBeaconEntries(TargetSlot, observed)
        /\ ObservedOK(w, WindowFirst, WindowLast)
    BY <2>1, VariationsAgree
  <2> QED
    BY <2>1, <2>2 DEF Result, Evaluate, WindowFirst, WindowLast
<1>2. SelectionInit => SelectionInv /\ WindowInv
  BY SelectionStarts, WindowStarts
<1>3. SelectionInv /\ WindowInv /\ [SelectionNext]_selectionVars => SelectionInv' /\ WindowInv'
  BY SelectionKeeps, WindowKeeps
<1> QED
  BY <1>1, <1>2, <1>3, PTL DEF SelectionSpec

-----------------------------------------------------------------------------
(* The ranking.                                                            *)

\* Tickets under a hash, and the order of the ranking: a list in which nothing precedes
\* what is listed before it.
TicketsAre(hash) == \A id \in Nat : TicketHash(hash, id) \in Nat
Ranked(hash, r) == \A i \in 1 .. Len(r), j \in 1 .. Len(r) :
                     i < j => ~ CompareCandidates(hash, r[j], r[i])

Distinct(r) == \A i \in 1 .. Len(r), j \in 1 .. Len(r) : r[i] = r[j] => i = j

\* CompareCandidates orders the draw IDs: ties between tickets are broken by the ID.
LEMMA CompareIsOrder ==
  ASSUME NEW hash, TicketsAre(hash), NEW a \in Nat, NEW b \in Nat, NEW c \in Nat
  PROVE  /\ CompareCandidates(hash, a, b) => ~ CompareCandidates(hash, b, a)
         /\ ~ CompareCandidates(hash, b, a) /\ ~ CompareCandidates(hash, c, b)
              => ~ CompareCandidates(hash, c, a)
<1>1. TicketHash(hash, a) \in Nat /\ TicketHash(hash, b) \in Nat /\ TicketHash(hash, c) \in Nat
  BY DEF TicketsAre
<1> QED
  BY <1>1 DEF CompareCandidates

\* The greatest of some numbers up to a bound.
LEMMA MaxIsGreatest ==
  ASSUME NEW n \in Nat, NEW S \in SUBSET (0 .. n), 0 \in S
  PROVE  Max(S) \in S /\ \A j \in S : j <= Max(S)
<1>0. S \in SUBSET Nat /\ S # {} /\ \A x \in S : x <= n
  OBVIOUS
<1>1. PICK k \in S : \A j \in S : j <= k
  BY <1>0, GreatestNatural
<1>2. \E x \in S : \A y \in S : x >= y
  BY <1>1
<1>3. Max(S) \in S /\ \A y \in S : Max(S) >= y
  BY <1>2 DEF Max
<1> QED
  BY <1>3

\* The sequence s is r with e behind its first m elements.
Inserted(S, s, r, m, e) ==
  /\ s \in Seq(S)
  /\ Len(s) = Len(r) + 1
  /\ s[m + 1] = e
  /\ \A i \in 1 .. m : s[i] = r[i]
  /\ \A i \in (m + 2) .. (Len(r) + 1) : s[i] = r[i - 1]

\* What InsertAt does to a sequence.
LEMMA InsertAtFacts ==
  ASSUME NEW S, NEW r \in Seq(S), NEW e \in S, NEW m \in 0 .. Len(r)
  PROVE  Inserted(S, InsertAt(r, m + 1, e), r, m, e)
<1> DEFINE n == Len(r)
           p == SubSeq(r, 1, m)
           q == SubSeq(r, m + 1, n)
<1>1. n \in Nat /\ m \in Nat /\ m <= n /\ (m + 1) - 1 = m
  OBVIOUS
<1>2. p \in Seq(S) /\ Len(p) = m /\ \A i \in 1 .. m : p[i] = r[i]
  BY <1>1
<1>3. q \in Seq(S) /\ Len(q) = n - m /\ \A i \in 1 .. (n - m) : q[i] = r[m + i]
  BY <1>1
<1>4. InsertAt(r, m + 1, e) = (p \o <<e>>) \o q
  BY <1>1 DEF InsertAt
<1> HIDE DEF p, q, n
<1> DEFINE a == p \o <<e>>
           s == a \o q
<1>5. a \in Seq(S) /\ Len(a) = m + 1 /\ a[m + 1] = e /\ \A i \in 1 .. m : a[i] = r[i]
  BY <1>1, <1>2
<1> HIDE DEF a
<1>6. s \in Seq(S) /\ Len(s) = n + 1
  <2>1. s \in Seq(S) /\ Len(s) = Len(a) + Len(q)
    <3>1. a \in Seq(S) /\ q \in Seq(S)
      BY <1>3, <1>5
    <3> QED
      BY <3>1
  <2> HIDE DEF s
  <2> QED
    BY <1>1, <1>3, <1>5, <2>1
<1>7. s[m + 1] = e /\ \A i \in 1 .. m : s[i] = r[i]
  BY <1>1, <1>3, <1>5
<1>8. ASSUME NEW i \in (m + 2) .. (n + 1) PROVE s[i] = r[i - 1]
  <2>1. i - (m + 1) \in 1 .. (n - m) /\ m + (i - (m + 1)) = i - 1 /\ i \in Nat /\ i > m + 1
        /\ i <= (m + 1) + (n - m)
    BY <1>1
  <2>2. s[i] = q[i - (m + 1)]
    BY <1>1, <1>3, <1>5, <2>1
  <2> QED
    BY <1>3, <2>1, <2>2
<1> QED
  BY <1>4, <1>6, <1>7, <1>8 DEF a, n, Inserted

\* Where a candidate is inserted: behind one it does not precede, before those it does.
LEMMA InsertFacts ==
  ASSUME NEW hash, NEW r \in Seq(Nat), NEW id \in Nat
  PROVE  \E m \in 0 .. Len(r) :
           LET s == Insert(hash, r, id)
           IN /\ s \in Seq(Nat) /\ Len(s) = Len(r) + 1
              /\ s[m + 1] = id
              /\ \A i \in 1 .. m : s[i] = r[i]
              /\ \A i \in (m + 2) .. (Len(r) + 1) : s[i] = r[i - 1]
              /\ m # 0 => ~ CompareCandidates(hash, id, r[m])
              /\ \A j \in 1 .. Len(r) : j > m => CompareCandidates(hash, id, r[j])
<1> DEFINE S == {0} \cup {j \in DOMAIN r : ~ CompareCandidates(hash, id, r[j])}
           m == Max(S)
           n == Len(r)
<1>1. n \in Nat /\ DOMAIN r = 1 .. n
  OBVIOUS
<1>2. S \in SUBSET (0 .. n) /\ 0 \in S
  BY <1>1
<1>3. m \in S /\ \A j \in S : j <= m
  <2> HIDE DEF S
  <2> QED
    BY <1>1, <1>2, MaxIsGreatest
<1>4. Insert(hash, r, id) = InsertAt(r, m + 1, id)
  BY DEF Insert
<1> HIDE DEF m
<1>5. m \in 0 .. n /\ (m # 0 => ~ CompareCandidates(hash, id, r[m]))
  BY <1>2, <1>3
<1>6. ASSUME NEW j \in 1 .. n, j > m PROVE CompareCandidates(hash, id, r[j])
  <2>1. j \notin S
    <3> HIDE DEF S
    <3> QED
      BY <1>3, <1>5, <1>6
  <2> QED
    BY <1>1, <2>1
<1> DEFINE s == InsertAt(r, m + 1, id)
<1>7. /\ s \in Seq(Nat) /\ Len(s) = n + 1 /\ s[m + 1] = id /\ \A i \in 1 .. m : s[i] = r[i]
      /\ \A i \in (m + 2) .. (n + 1) : s[i] = r[i - 1]
  <2>1. Inserted(Nat, s, r, m, id)
    BY <1>5, InsertAtFacts
  <2> HIDE DEF s
  <2> QED
    BY <2>1 DEF Inserted
<1> HIDE DEF s
<1>8. s = Insert(hash, r, id)
  BY <1>4 DEF s
<1> QED
  BY <1>5, <1>6, <1>7, <1>8

\* The list s is ranked and has those of r and id, nobody else, and nobody twice.
Joined(hash, s, r, id) ==
  /\ s \in Seq(Nat) /\ Len(s) = Len(r) + 1 /\ Ranked(hash, s)
  /\ \E j \in 1 .. Len(s) : s[j] = id
  /\ \A i \in 1 .. Len(r) : \E j \in 1 .. Len(s) : s[j] = r[i]
  /\ \A j \in 1 .. Len(s) : s[j] = id \/ \E i \in 1 .. Len(r) : s[j] = r[i]
  /\ Distinct(r) /\ (\A i \in 1 .. Len(r) : r[i] # id) => Distinct(s)

\* Inserting keeps the list ranked and loses nobody.
LEMMA InsertKeepsRank ==
  ASSUME NEW hash, TicketsAre(hash), NEW r \in Seq(Nat), Ranked(hash, r), NEW id \in Nat
  PROVE  Joined(hash, Insert(hash, r, id), r, id)
<1> DEFINE s == Insert(hash, r, id)
           n == Len(r)
           Cmp(a, b) == CompareCandidates(hash, a, b)
<1>1. PICK m \in 0 .. n :
        /\ s \in Seq(Nat) /\ Len(s) = n + 1
        /\ s[m + 1] = id
        /\ \A i \in 1 .. m : s[i] = r[i]
        /\ \A i \in (m + 2) .. (n + 1) : s[i] = r[i - 1]
        /\ m # 0 => ~ Cmp(id, r[m])
        /\ \A j \in 1 .. n : j > m => Cmp(id, r[j])
  BY InsertFacts
<1>2. n \in Nat /\ \A i \in 1 .. n : r[i] \in Nat
  OBVIOUS
<1>3. \A i \in 1 .. n, j \in 1 .. n : i < j => ~ Cmp(r[j], r[i])
  BY DEF Ranked
<1>4. /\ \A a \in Nat, b \in Nat : Cmp(a, b) => ~ Cmp(b, a)
      /\ \A a \in Nat, b \in Nat, c \in Nat : ~ Cmp(b, a) /\ ~ Cmp(c, b) => ~ Cmp(c, a)
  BY CompareIsOrder
<1> HIDE DEF s, n, Cmp
<1>5. \A i \in 1 .. m : ~ Cmp(id, r[i])
  <2> SUFFICES ASSUME NEW i \in 1 .. m PROVE ~ Cmp(id, r[i])
    OBVIOUS
  <2>1. m \in 1 .. n /\ i \in 1 .. n /\ m # 0
    BY <1>2
  <2>2. CASE i = m
    BY <1>1, <2>1, <2>2
  <2>3. CASE i < m
    <3>1. ~ Cmp(r[m], r[i]) /\ ~ Cmp(id, r[m]) /\ r[i] \in Nat /\ r[m] \in Nat
      BY <1>1, <1>2, <1>3, <2>1, <2>3
    <3> QED
      BY <1>4, <3>1
  <2> QED
    BY <2>1, <2>2, <2>3
<1>6. \A j \in 1 .. n : j > m => ~ Cmp(r[j], id)
  BY <1>1, <1>2, <1>4
<1>7. ASSUME NEW i \in 1 .. (n + 1), NEW j \in 1 .. (n + 1), i < j PROVE ~ Cmp(s[j], s[i])
  <2>1. CASE j <= m
    <3>1. i \in 1 .. m /\ j \in 1 .. m /\ i \in 1 .. n /\ j \in 1 .. n
      BY <1>2, <1>7, <2>1
    <3>2. s[i] = r[i] /\ s[j] = r[j]
      BY <1>1, <3>1
    <3> QED
      BY <1>3, <1>7, <3>1, <3>2
  <2>2. CASE j = m + 1
    <3>1. i \in 1 .. m
      BY <1>2, <1>7, <2>2
    <3>2. s[i] = r[i] /\ s[j] = id
      BY <1>1, <2>2, <3>1
    <3> QED
      BY <1>5, <3>1, <3>2
  <2>3. CASE j > m + 1
    <3>1. j \in (m + 2) .. (n + 1) /\ j - 1 \in 1 .. n /\ j - 1 > m
      BY <1>2, <2>3
    <3>2. s[j] = r[j - 1]
      BY <1>1, <3>1
    <3>3. CASE i <= m
      <4>1. i \in 1 .. m /\ i \in 1 .. n /\ i < j - 1
        BY <1>2, <3>1, <3>3
      <4>2. s[i] = r[i]
        BY <1>1, <4>1
      <4>3. ~ Cmp(r[j - 1], r[i])
        BY <1>3, <3>1, <4>1
      <4> QED
        BY <3>2, <4>2, <4>3
    <3>4. CASE i = m + 1
      <4>1. s[i] = id /\ ~ Cmp(r[j - 1], id)
        BY <1>1, <1>6, <3>1, <3>4
      <4> QED
        BY <3>2, <4>1
    <3>5. CASE i > m + 1
      <4>1. i \in (m + 2) .. (n + 1) /\ i - 1 \in 1 .. n /\ i - 1 < j - 1
        BY <1>2, <1>7, <3>5
      <4>2. s[i] = r[i - 1]
        BY <1>1, <4>1
      <4>3. ~ Cmp(r[j - 1], r[i - 1])
        BY <1>3, <3>1, <4>1
      <4> QED
        BY <3>2, <4>2, <4>3
    <3> QED
      BY <3>3, <3>4, <3>5
  <2> QED
    BY <2>1, <2>2, <2>3
<1>8. m + 1 \in 1 .. (n + 1) /\ s[m + 1] = id
  BY <1>1, <1>2
<1>9. ASSUME NEW i \in 1 .. n PROVE \E j \in 1 .. (n + 1) : s[j] = r[i]
  <2>1. CASE i <= m
    <3>1. i \in 1 .. m /\ i \in 1 .. (n + 1)
      BY <1>2, <2>1
    <3> QED
      BY <1>1, <3>1
  <2>2. CASE i > m
    <3>1. i + 1 \in (m + 2) .. (n + 1) /\ i + 1 \in 1 .. (n + 1) /\ (i + 1) - 1 = i
      BY <1>2, <2>2
    <3>2. s[i + 1] = r[i]
      BY <1>1, <3>1
    <3> QED
      BY <3>1, <3>2
  <2> QED
    BY <2>1, <2>2
<1>10. Ranked(hash, s)
  BY <1>1, <1>7 DEF Ranked, Cmp
<1> DEFINE src(j) == IF j <= m THEN j ELSE j - 1
<1>11. ASSUME NEW j \in 1 .. (n + 1), j # m + 1
       PROVE  src(j) \in 1 .. n /\ s[j] = r[src(j)]
  <2>1. CASE j <= m
    <3>1. j \in 1 .. m /\ j \in 1 .. n /\ src(j) = j
      BY <1>2, <2>1
    <3> QED
      BY <1>1, <3>1
  <2>2. CASE ~ (j <= m)
    <3>1. j \in (m + 2) .. (n + 1) /\ j - 1 \in 1 .. n /\ src(j) = j - 1
      BY <1>2, <1>11, <2>2
    <3> QED
      BY <1>1, <3>1
  <2> QED
    BY <2>1, <2>2
<1>12. \A j \in 1 .. (n + 1), i \in 1 .. (n + 1) :
         j # m + 1 /\ i # m + 1 /\ src(j) = src(i) => j = i
  BY <1>2
<1> HIDE DEF src
<1>13. \A j \in 1 .. (n + 1) : s[j] = id \/ \E i \in 1 .. n : s[j] = r[i]
  BY <1>8, <1>11
<1>14. ASSUME \A i \in 1 .. n, j \in 1 .. n : r[i] = r[j] => i = j,
              \A i \in 1 .. n : r[i] # id,
              NEW i \in 1 .. (n + 1), NEW j \in 1 .. (n + 1), s[i] = s[j]
       PROVE  i = j
  <2>1. CASE i = m + 1 \/ j = m + 1
    BY <1>8, <1>11, <1>14, <2>1
  <2>2. CASE i # m + 1 /\ j # m + 1
    <3>1. src(i) \in 1 .. n /\ src(j) \in 1 .. n /\ r[src(i)] = r[src(j)]
      BY <1>11, <1>14, <2>2
    <3>2. src(i) = src(j)
      BY <1>14, <3>1
    <3> QED
      BY <1>12, <2>2, <3>2
  <2> QED
    BY <2>1, <2>2
<1>15. Distinct(r) /\ (\A i \in 1 .. n : r[i] # id) => Distinct(s)
  BY <1>1, <1>14 DEF Distinct, n
<1> QED
  BY <1>1, <1>8, <1>9, <1>10, <1>13, <1>15 DEF s, n, Joined

\* The first j of the candidates, ranked.
RankOf(hash, ids, j, r) ==
  /\ r \in Seq(Nat) /\ Len(r) = j /\ Ranked(hash, r)
  /\ \A i \in 1 .. j : \E x \in 1 .. j : r[x] = ids[i]
  /\ \A x \in 1 .. j : \E i \in 1 .. j : r[x] = ids[i]
  /\ Distinct(r)

\* Canonical lists increase throughout (ValidateCanonicalDrawIDs compares neighbours).
LEMMA CanonicalIncreases ==
  ASSUME NEW ids \in Seq(Nat), Canonical(ids), NEW i \in 1 .. Len(ids), NEW j \in 1 .. Len(ids), i < j
  PROVE  ids[i] < ids[j]
<1> DEFINE G == {d \in Nat : i + d + 1 <= Len(ids) => ids[i] < ids[i + d + 1]}
<1>1. Len(ids) \in Nat /\ \A x \in 1 .. Len(ids) : ids[x] \in Nat
  OBVIOUS
<1>2. \A x \in 2 .. Len(ids) : ids[x - 1] < ids[x]
  BY DEF Canonical
<1>3. 0 \in G
  <2> SUFFICES ASSUME i + 0 + 1 <= Len(ids) PROVE ids[i] < ids[i + 0 + 1]
    OBVIOUS
  <2>1. i + 0 + 1 \in 2 .. Len(ids) /\ (i + 0 + 1) - 1 = i
    BY <1>1
  <2> QED
    BY <1>2, <2>1
<1>4. ASSUME NEW d \in G PROVE d + 1 \in G
  <2> SUFFICES ASSUME i + (d + 1) + 1 <= Len(ids) PROVE ids[i] < ids[i + (d + 1) + 1]
    OBVIOUS
  <2> DEFINE x == i + d + 1
             y == i + (d + 1) + 1
  <2>1. y \in 2 .. Len(ids) /\ y - 1 = x /\ x \in 1 .. Len(ids) /\ y \in 1 .. Len(ids)
        /\ ids[i] < ids[x]
    BY <1>1
  <2> HIDE DEF x, y
  <2>2. ids[x] < ids[y]
    BY <1>2, <2>1
  <2>3. ids[i] \in Nat /\ ids[x] \in Nat /\ ids[y] \in Nat
    BY <1>1, <2>1
  <2>4. ids[i] < ids[y]
    BY <2>1, <2>2, <2>3
  <2> QED
    BY <2>4 DEF y
<1>5. G = Nat
  <2>1. G \in SUBSET Nat
    OBVIOUS
  <2> HIDE DEF G
  <2> QED
    BY <1>3, <1>4, <2>1, NaturalsByInduction
<1> DEFINE d == j - i - 1
<1>6. d \in Nat /\ i + d + 1 = j /\ j <= Len(ids)
  OBVIOUS
<1> HIDE DEF d
<1>7. d \in G
  BY <1>5, <1>6
<1>8. ids[i] < ids[i + d + 1]
  BY <1>6, <1>7
<1> QED
  BY <1>6, <1>8

\* One more candidate.
LEMMA RankOneMore ==
  ASSUME NEW hash, TicketsAre(hash), NEW ids \in Seq(Nat), Canonical(ids),
         NEW j \in Nat, j + 1 <= Len(ids),
         NEW r, RankOf(hash, ids, j, r)
  PROVE  RankOf(hash, ids, j + 1, Insert(hash, r, ids[j + 1]))
<1> DEFINE id == ids[j + 1]
           s == Insert(hash, r, id)
<1>1. id \in Nat /\ j + 1 \in 1 .. Len(ids)
  OBVIOUS
<1>2. /\ r \in Seq(Nat) /\ Len(r) = j /\ Ranked(hash, r)
      /\ \A i \in 1 .. j : \E x \in 1 .. j : r[x] = ids[i]
      /\ \A x \in 1 .. j : \E i \in 1 .. j : r[x] = ids[i]
      /\ Distinct(r)
  BY DEF RankOf
<1>n. ASSUME NEW x \in 1 .. j PROVE r[x] # id
  <2>1. PICK i \in 1 .. j : r[x] = ids[i]
    BY <1>2
  <2>2. i \in 1 .. Len(ids) /\ i < j + 1
    OBVIOUS
  <2>3. ids[i] < ids[j + 1]
    BY <1>1, <2>2, CanonicalIncreases
  <2>4. ids[i] \in Nat
    BY <2>2
  <2> QED
    BY <1>1, <2>1, <2>3, <2>4
<1> HIDE DEF id
<1>3. /\ s \in Seq(Nat) /\ Len(s) = Len(r) + 1 /\ Ranked(hash, s)
      /\ \E x \in 1 .. Len(s) : s[x] = id
      /\ \A i \in 1 .. Len(r) : \E x \in 1 .. Len(s) : s[x] = r[i]
      /\ \A x \in 1 .. Len(s) : s[x] = id \/ \E i \in 1 .. Len(r) : s[x] = r[i]
      /\ Distinct(r) /\ (\A i \in 1 .. Len(r) : r[i] # id) => Distinct(s)
  <2>1. Joined(hash, s, r, id)
    BY <1>1, <1>2, InsertKeepsRank
  <2> HIDE DEF s
  <2> QED
    BY <2>1 DEF Joined
<1> HIDE DEF s
<1>4. ASSUME NEW i \in 1 .. (j + 1) PROVE \E x \in 1 .. (j + 1) : s[x] = ids[i]
  <2>1. CASE i = j + 1
    BY <1>2, <1>3, <2>1 DEF id
  <2>2. CASE i \in 1 .. j
    <3>1. PICK y \in 1 .. j : r[y] = ids[i]
      BY <1>2, <2>2
    <3>2. PICK x \in 1 .. Len(s) : s[x] = r[y]
      BY <1>2, <1>3
    <3> QED
      BY <1>2, <1>3, <3>1, <3>2
  <2> QED
    BY <2>1, <2>2
<1>5. ASSUME NEW x \in 1 .. (j + 1) PROVE \E i \in 1 .. (j + 1) : s[x] = ids[i]
  <2>1. CASE s[x] = id
    <3>1. j + 1 \in 1 .. (j + 1)
      OBVIOUS
    <3> QED
      BY <2>1, <3>1 DEF id
  <2>2. CASE s[x] # id
    <3>1. PICK y \in 1 .. j : s[x] = r[y]
      BY <1>2, <1>3, <2>2
    <3>2. PICK i \in 1 .. j : r[y] = ids[i]
      BY <1>2
    <3>3. i \in 1 .. (j + 1)
      OBVIOUS
    <3> QED
      BY <3>1, <3>2, <3>3
  <2> QED
    BY <2>1, <2>2
<1>6. Distinct(s)
  BY <1>2, <1>3, <1>n
<1>7. RankOf(hash, ids, j + 1, s)
  BY <1>2, <1>3, <1>4, <1>5, <1>6 DEF RankOf
<1> QED
  BY <1>7 DEF s, id

\* RankCandidates ranks all candidates.
LEMMA RankFacts ==
  ASSUME NEW hash, TicketsAre(hash), NEW ids \in Seq(Nat), Canonical(ids)
  PROVE  RankOf(hash, ids, Len(ids), RankCandidates(hash, ids))
<1> DEFINE n == Len(ids)
           Body(g) == [i \in 0 .. n |-> IF i = 0 THEN <<>> ELSE Insert(hash, g[i - 1], ids[i])]
           h == CHOOSE g : g = Body(g)
           V == Seq(Nat)
           step == [i \in 1 .. n |-> [v \in V |-> Insert(hash, v, ids[i])]]
<1>1. RankCandidates(hash, ids) = h[n]
  BY DEF RankCandidates
<1>2. n \in Nat /\ <<>> \in V /\ Len(<<>>) = 0 /\ \A i \in 1 .. n : ids[i] \in Nat
  OBVIOUS
<1>3. \A v \in V, id \in Nat : Insert(hash, v, id) \in V
  BY InsertFacts
<1> HIDE DEF V, n
<1>4. \E g : g = Body(g)
  <2>1. \A i \in 1 .. n, v \in V : step[i][v] = Insert(hash, v, ids[i]) /\ step[i][v] \in V
    BY <1>2, <1>3
  <2> HIDE DEF step
  <2>2. LinearRecursion(n, V, <<>>, step)
    BY <1>2, <2>1 DEF LinearRecursion
  <2>3. PICK f : SolvesLinear(f, n, V, <<>>, step)
    BY <2>2, LinearRecursionExists
  <2>4. /\ f \in [0 .. n -> V] /\ f[0] = <<>>
        /\ \A i \in 1 .. n : f[i - 1] \in V /\ f[i] = step[i][f[i - 1]]
    BY <2>3 DEF SolvesLinear
  <2>5. \A i \in 0 .. n : i = 0 \/ i \in 1 .. n
    BY <1>2
  <2>6. \A i \in 0 .. n : f[i] = IF i = 0 THEN <<>> ELSE Insert(hash, f[i - 1], ids[i])
    BY <2>1, <2>4, <2>5
  <2>7. f = Body(f)
    BY <2>4, <2>6
  <2> QED
    BY <2>7
<1>5. h = Body(h)
  <2> HIDE DEF Body
  <2> QED
    BY <1>4
<1> HIDE DEF h, step
<1>6. h[0] = <<>>
  BY <1>2, <1>5
<1>7. ASSUME NEW i \in 1 .. n PROVE h[i] = Insert(hash, h[i - 1], ids[i])
  <2>1. i \in 0 .. n /\ i # 0
    BY <1>2
  <2>2. h[i] = Body(h)[i]
    <3> HIDE DEF Body
    <3> QED
      BY <1>5
  <2> QED
    BY <2>1, <2>2
<1> DEFINE G == {j \in Nat : j <= n => RankOf(hash, ids, j, h[j])}
<1>8. 0 \in G
  <2>1. RankOf(hash, ids, 0, <<>>)
    BY <1>2 DEF RankOf, Ranked, Distinct, V
  <2> QED
    BY <1>6, <2>1
<1>9. ASSUME NEW j \in G PROVE j + 1 \in G
  <2> SUFFICES ASSUME j + 1 <= n PROVE RankOf(hash, ids, j + 1, h[j + 1])
    OBVIOUS
  <2>1. j \in Nat /\ j + 1 \in 1 .. n /\ (j + 1) - 1 = j /\ RankOf(hash, ids, j, h[j])
    BY <1>2
  <2>2. h[j + 1] = Insert(hash, h[j], ids[j + 1])
    BY <1>7, <2>1
  <2>3. RankOf(hash, ids, j + 1, Insert(hash, h[j], ids[j + 1]))
    BY <2>1, RankOneMore DEF n
  <2> QED
    BY <2>2, <2>3
<1>10. G = Nat
  <2>1. G \in SUBSET Nat
    OBVIOUS
  <2> HIDE DEF G
  <2> QED
    BY <1>8, <1>9, <2>1, NaturalsByInduction
<1>11. RankOf(hash, ids, n, h[n])
  BY <1>2, <1>10
<1> QED
  BY <1>1, <1>11 DEF n

\* The first of a ranking are candidates, each once, and beat those left out and those
\* listed after them.
LEMMA FirstBeatTheRest ==
  ASSUME NEW hash, TicketsAre(hash), NEW ids \in Seq(Nat), Canonical(ids),
         NEW k \in 1 .. Len(ids)
  PROVE  LET sel == SubSeq(RankCandidates(hash, ids), 1, k)
         IN /\ Len(sel) = k
            /\ IsInjective(sel) /\ ToSet(sel) \subseteq ToSet(ids)
            /\ \A i \in DOMAIN sel : \A c \in ToSet(ids) \ {sel[j] : j \in 1 .. i} :
                 /\ TicketHash(hash, sel[i]) <= TicketHash(hash, c)
                 /\ TicketHash(hash, sel[i]) = TicketHash(hash, c) => sel[i] < c
<1> DEFINE r == RankCandidates(hash, ids)
           n == Len(ids)
           sel == SubSeq(r, 1, k)
<1>1. /\ r \in Seq(Nat) /\ Len(r) = n /\ Ranked(hash, r) /\ n \in Nat
      /\ \A i \in 1 .. n : \E x \in 1 .. n : r[x] = ids[i]
      /\ \A x \in 1 .. n : \E i \in 1 .. n : r[x] = ids[i]
      /\ Distinct(r)
  <2>1. RankOf(hash, ids, n, r) /\ n \in Nat
    BY RankFacts
  <2> HIDE DEF r, n
  <2> QED
    BY <2>1 DEF RankOf
<1>t. r \in Seq(Nat) /\ Len(r) = n /\ n \in Nat
  BY <1>1
<1>2. DOMAIN ids = 1 .. n /\ k \in Nat /\ 1 <= k /\ k <= n
  OBVIOUS
<1> HIDE DEF r, n
<1>3. Len(sel) = k /\ DOMAIN sel = 1 .. k /\ \A i \in 1 .. k : sel[i] = r[i]
  BY <1>t, <1>2
<1> HIDE DEF sel
<1>4. ASSUME NEW i \in 1 .. k, NEW c \in ToSet(ids) \ {sel[j] : j \in 1 .. i}
      PROVE  /\ TicketHash(hash, sel[i]) <= TicketHash(hash, c)
             /\ TicketHash(hash, sel[i]) = TicketHash(hash, c) => sel[i] < c
  <2>1. PICK y \in 1 .. n : c = ids[y]
    BY <1>2, <1>4 DEF ToSet
  <2>2. PICK x \in 1 .. n : r[x] = c
    BY <1>1, <2>1
  <2>3. ~ (x <= i)
    <3> SUFFICES ASSUME x <= i PROVE FALSE
      OBVIOUS
    <3>1. x \in 1 .. i /\ x \in 1 .. k
      BY <1>1, <1>2
    <3>2. sel[x] = c
      BY <1>3, <2>2, <3>1
    <3> QED
      BY <1>4, <3>1, <3>2
  <2>4. i \in 1 .. n /\ i < x /\ i \in 1 .. i
    BY <1>1, <1>2, <2>3
  <2>5. ~ CompareCandidates(hash, c, r[i])
    BY <1>1, <2>2, <2>4 DEF Ranked
  <2>6. sel[i] = r[i] /\ r[i] \in Nat /\ c \in Nat
    <3>1. \A z \in 1 .. n : r[z] \in Nat
      BY <1>t
    <3>2. sel[i] = r[i]
      BY <1>3
    <3>3. r[i] \in Nat /\ r[x] \in Nat
      BY <2>4, <3>1
    <3> QED
      BY <2>2, <3>2, <3>3
  <2>7. c # sel[i]
    BY <1>4, <2>4
  <2>8. TicketHash(hash, sel[i]) \in Nat /\ TicketHash(hash, c) \in Nat
    BY <2>6 DEF TicketsAre
  <2> QED
    BY <2>5, <2>6, <2>7, <2>8 DEF CompareCandidates
<1>5. IsInjective(sel)
  <2>1. \A i \in 1 .. k : i \in 1 .. n
    BY <1>1, <1>2
  <2>2. \A i \in 1 .. n, j \in 1 .. n : r[i] = r[j] => i = j
    BY <1>1 DEF Distinct
  <2> QED
    BY <1>3, <2>1, <2>2 DEF IsInjective
<1>6. ToSet(sel) \subseteq ToSet(ids)
  <2> SUFFICES ASSUME NEW i \in 1 .. k PROVE sel[i] \in ToSet(ids)
    BY <1>3 DEF ToSet
  <2>1. i \in 1 .. n /\ sel[i] = r[i]
    BY <1>t, <1>2, <1>3
  <2>2. PICK y \in 1 .. n : r[i] = ids[y]
    BY <1>1, <2>1
  <2> QED
    BY <1>2, <2>1, <2>2 DEF ToSet
<1> QED
  BY <1>3, <1>4, <1>5, <1>6 DEF sel, r

\* The outcome of a draw among two candidates or more, once the commitment has been
\* checked: the entries decide whether the beacon is valid.
LEMMA DrawOutcome ==
  ASSUME SelectionInv, WindowInv, committed # 0, Len(candidates) >= 2
  PROVE  LET entries == FilterBeaconEntries(TargetSlot, observed)
             hash == BeaconHash(TargetSlot, candidates, WindowFirst, WindowLast, entries)
             k == SelectedCount(Len(candidates), rules.limits)
         IN /\ BeaconValid(entries, rules.beacon) =>
                 Result(observed) = Outcome("SUCCESS", entries,
                                            SubSeq(RankCandidates(hash, candidates), 1, k))
            /\ ~ BeaconValid(entries, rules.beacon) =>
                 Result(observed) = Outcome("NO_VALID_BEACON", entries, <<>>)
<1> DEFINE entries == FilterBeaconEntries(TargetSlot, observed)
           hash == BeaconHash(TargetSlot, candidates, WindowFirst, WindowLast, entries)
           k == SelectedCount(Len(candidates), rules.limits)
           S == Outcome("SUCCESS", entries, SubSeq(RankCandidates(hash, candidates), 1, k))
           N == Outcome("NO_VALID_BEACON", entries, <<>>)
           V == BeaconValid(entries, rules.beacon)
<1>1. /\ Canonical(candidates) /\ LimitsOK(rules.limits)
      /\ BeaconWindowDerivable(rules.epochs.start, rules.beacon)
      /\ ObservedOK(observed, WindowFirst, WindowLast)
      /\ ValidBeaconParams(rules.beacon)
  BY DEF SelectionInv, WindowInv
<1>2. candidates # <<>> /\ Len(candidates) # 1
  <2>1. Len(<<>>) = 0 /\ ~ (0 >= 2) /\ ~ (1 >= 2)
    OBVIOUS
  <2> QED
    BY <2>1
<1>3. Result(observed) =
        CASE ~ Canonical(candidates) -> Malformed
          [] candidates = <<>> -> Outcome("NO_CANDIDATES", <<>>, <<>>)
          [] Canonical(candidates) /\ Len(candidates) = 1 -> Outcome("SUCCESS", <<>>, candidates)
          [] OTHER ->
               IF ~ ValidBeaconParams(rules.beacon)
                    \/ ~ BeaconWindowDerivable(rules.epochs.start, rules.beacon)
                    \/ ~ ObservedOK(observed, WindowFirst, WindowLast)
               THEN Malformed
               ELSE IF ~ V THEN N
               ELSE IF ~ LimitsOK(rules.limits) THEN Malformed
               ELSE S
  BY DEF Result, Evaluate, WindowFirst, WindowLast
<1> HIDE DEF S, N, V
<1>4. Result(observed) = IF ~ V THEN N ELSE S
  BY <1>1, <1>2, <1>3
<1>5. (V => Result(observed) = S) /\ (~ V => Result(observed) = N)
  BY <1>4
<1> QED
  BY <1>5 DEF S, N, V

\* Every ticket is a number: CompareCandidates compares them as unsigned 256-bit ones.
TicketsAreNumbers ==
  \A ids \in CandidateLists, first \in Nat, last \in Nat, entries \in Seq(Blocks), id \in Nat :
    TicketHash(BeaconHash(TargetSlot, ids, first, last, entries), id) \in Nat

\* With enough external blocks of enough proposers the draw selects the promised number
\* of candidates, none twice, each of which beats every candidate left out and those
\* listed after it; without, it selects none (Evaluate, RankCandidates, SelectFirstK).
THEOREM DrawIsAlwaysExact ==
  ASSUME TicketsAreNumbers
  PROVE  SelectionSpec => []DrawIsExact
<1>1. ASSUME SelectionInv, WindowInv PROVE DrawIsExact
  <2> DEFINE entries == FilterBeaconEntries(TargetSlot, observed)
             hash == BeaconHash(TargetSlot, candidates, WindowFirst, WindowLast, entries)
             k == SelectedCount(Len(candidates), rules.limits)
             sel == SubSeq(RankCandidates(hash, candidates), 1, k)
             r == Result(observed)
             external == {i \in DOMAIN observed : observed[i].proposer # TargetSlot}
             enough == /\ Cardinality(external) >= rules.beacon.minBlocks
                       /\ Cardinality({observed[i].proposer : i \in external})
                            >= rules.beacon.minProposers
             HashOf(e) == BeaconHash(TargetSlot, candidates, WindowFirst, WindowLast, e)
             Beats(h, a, b) == /\ TicketHash(h, a) <= TicketHash(h, b)
                               /\ TicketHash(h, a) = TicketHash(h, b) => a < b
             All(h, s) == \A i \in DOMAIN s :
                            \A c \in ToSet(candidates) \ {s[j] : j \in 1 .. i} : Beats(h, s[i], c)
  <2> SUFFICES ASSUME committed # 0, Len(candidates) >= 2
               PROVE  IF enough
                      THEN /\ r.outcome = "SUCCESS"
                           /\ Len(r.selected) = PromisedCount(Len(candidates), rules.limits)
                           /\ IsInjective(r.selected)
                           /\ ToSet(r.selected) \subseteq ToSet(candidates)
                           /\ All(HashOf(r.entries), r.selected)
                      ELSE r.outcome = "NO_VALID_BEACON" /\ r.selected = <<>>
    BY DEF DrawIsExact
  <2>1. /\ observed \in Seq(Blocks) /\ candidates \in CandidateLists /\ LimitsOK(rules.limits)
        /\ candidates \in Seq(Nat) /\ Len(candidates) \in Nat /\ Canonical(candidates)
    BY <1>1, SelectionAssumption DEF WindowInv
  <2>2. entries \in Seq(Blocks) /\ (BeaconValid(entries, rules.beacon) <=> enough)
    <3>1. /\ entries \in Seq(Blocks) /\ Len(entries) = Cardinality(external)
          /\ {entries[i].proposer : i \in DOMAIN entries} = {observed[i].proposer : i \in external}
      <4>1. StandFor(Blocks, entries, TargetSlot, observed)
        BY <2>1, FilterCounts
      <4> HIDE DEF entries
      <4> QED
        BY <4>1 DEF StandFor, External
    <3>2. BeaconValid(entries, rules.beacon) <=>
            /\ Len(entries) >= rules.beacon.minBlocks
            /\ Cardinality({entries[i].proposer : i \in DOMAIN entries})
                 >= rules.beacon.minProposers
      <4> HIDE DEF entries
      <4> QED
        BY DEF BeaconValid
    <3> DEFINE P == {entries[i].proposer : i \in DOMAIN entries}
               Q == {observed[i].proposer : i \in external}
    <3> HIDE DEF entries, external, P, Q
    <3>3. P = Q
      BY <3>1 DEF P, Q
    <3>4. BeaconValid(entries, rules.beacon) <=>
            Len(entries) >= rules.beacon.minBlocks /\ Cardinality(P) >= rules.beacon.minProposers
      BY <3>2 DEF P
    <3>5. enough <=> /\ Cardinality(external) >= rules.beacon.minBlocks
                     /\ Cardinality(Q) >= rules.beacon.minProposers
      BY DEF Q
    <3> HIDE DEF enough
    <3> QED
      BY <3>1, <3>3, <3>4, <3>5
  <2>3. WindowFirst \in Nat /\ WindowLast \in Nat
    <3>1. rules.beacon.window > 0
      BY <1>1 DEF SelectionInv, ValidBeaconParams
    <3> QED
      BY <1>1, <3>1, RulesTyped DEF SelectionInv
  <2>4. TicketsAre(hash)
    <3> HIDE DEF entries
    <3> QED
      BY <2>1, <2>2, <2>3 DEF TicketsAreNumbers, TicketsAre
  <2>5. k = PromisedCount(Len(candidates), rules.limits) /\ k \in 1 .. Len(candidates)
    <3>1. rules.limits \in [rate : Nat, slotMax : Nat, protocolMax : Nat]
      BY <1>1, SelectionAssumption DEF SelectionInv
    <3> DEFINE n == Len(candidates)
               l == rules.limits
    <3>2. n \in Nat /\ n >= 2 /\ l \in [rate : Nat, slotMax : Nat, protocolMax : Nat] /\ LimitsOK(l)
      BY <2>1, <3>1
    <3> HIDE DEF n, l
    <3>3. SelectedCount(n, l) = PromisedCount(n, l) /\ SelectedCount(n, l) \in 1 .. (n \div 2)
      BY <3>2, CountIsPromised
    <3>4. n \div 2 <= n /\ n \div 2 \in Nat
      BY <3>2
    <3>5. SelectedCount(n, l) \in 1 .. n
      BY <3>2, <3>3, <3>4
    <3> QED
      BY <3>3, <3>5 DEF n, l
  <2>6. /\ Len(sel) = k /\ All(hash, sel) /\ IsInjective(sel)
        /\ ToSet(sel) \subseteq ToSet(candidates)
    <3> HIDE DEF hash, k
    <3> QED
      BY <2>1, <2>4, <2>5, FirstBeatTheRest
  <2>7. /\ BeaconValid(entries, rules.beacon) => r = Outcome("SUCCESS", entries, sel)
        /\ ~ BeaconValid(entries, rules.beacon) => r = Outcome("NO_VALID_BEACON", entries, <<>>)
    BY <1>1, DrawOutcome
  <2>8. HashOf(entries) = hash
    OBVIOUS
  <2> HIDE DEF entries, hash, k, sel, r, enough, HashOf, All
  <2>9. CASE enough
    <3>1. r = [outcome |-> "SUCCESS", entries |-> entries, selected |-> sel]
      BY <2>2, <2>7, <2>9 DEF Outcome
    <3>2. r.outcome = "SUCCESS" /\ r.entries = entries /\ r.selected = sel
      BY <3>1
    <3> QED
      BY <2>5, <2>6, <2>8, <2>9, <3>2
  <2>10. CASE ~ enough
    <3>1. r = [outcome |-> "NO_VALID_BEACON", entries |-> entries, selected |-> <<>>]
      BY <2>2, <2>7, <2>10 DEF Outcome
    <3>2. r.outcome = "NO_VALID_BEACON" /\ r.selected = <<>>
      BY <3>1
    <3> QED
      BY <2>10, <3>2
  <2> QED
    BY <2>9, <2>10
<1>2. SelectionInit => SelectionInv /\ WindowInv
  BY SelectionStarts, WindowStarts
<1>3. SelectionInv /\ WindowInv /\ [SelectionNext]_selectionVars => SelectionInv' /\ WindowInv'
  BY SelectionKeeps, WindowKeeps
<1> QED
  BY <1>1, <1>2, <1>3, PTL DEF SelectionSpec

=============================================================================
