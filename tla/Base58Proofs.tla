---------------------------- MODULE Base58Proofs ----------------------------
(***************************************************************************)
(* Proofs about Base58: decoding undoes encoding, and encoding undoes      *)
(* decoding but for leading zeros, for every alphabet and every length.    *)
(***************************************************************************)
EXTENDS Base58, Recursion

-----------------------------------------------------------------------------
(* Arithmetic *)

\* The base is a number above 1.
LEMMA CarryType == carry \in Nat /\ carry >= 2
BY CharsAssumption DEF carry

\* Quotient and remainder, as Base58Encode uses them.
LEMMA DivMod ==
  ASSUME NEW c \in Nat, c >= 2, NEW n \in Nat
  PROVE  /\ n = c * (n \div c) + (n % c)
         /\ n % c \in 0 .. (c - 1)
         /\ n \div c \in Nat
OBVIOUS

\* The loop of Base58Encode makes its number smaller.
LEMMA DivSmaller ==
  ASSUME NEW c \in Nat, c >= 2, NEW n \in Nat, n # 0
  PROVE  n \div c < n
BY DivMod

\* A last digit d is what is left when the others are divided off.
LEMMA DivOfDigit ==
  ASSUME NEW c \in Nat, c >= 2, NEW v \in Nat, NEW d \in 0 .. (c - 1)
  PROVE  (c * v + d) \div c = v /\ (c * v + d) % c = d
OBVIOUS

-----------------------------------------------------------------------------
(* The recursion equations of pow and digits *)

\* The digits of a number are the remainder, then the digits of the quotient.
LEMMA DigitsEquation ==
  /\ digits \in [Nat -> Seq(Bytes)]
  /\ digits[0] = <<>>
  /\ \A n \in Nat \ {0} :
       digits[n] = <<chars[(n % carry) + 1]>> \o digits[n \div carry]
<1> DEFINE Eq(f) == f = [num \in Nat |->
                           IF num = 0 THEN <<>>
                           ELSE <<chars[(num % carry) + 1]>> \o f[num \div carry]]
           D == Nat
           V == Seq(Bytes)
           base == {0}
           g == [n \in Nat |-> <<>>]
           H == [n \in Nat |-> [v \in Seq(Bytes) |-> <<chars[(n % carry) + 1]>> \o v]]
           pred == [n \in Nat |-> n \div carry]
           mu == [n \in Nat |-> n]
<1>1. \A n \in Nat : n % carry \in 0 .. (carry - 1) /\ n \div carry \in Nat
  BY CarryType, DivMod
<1>2. \A n \in Nat : chars[(n % carry) + 1] \in Bytes
  <2>1. \A i \in 1 .. carry : chars[i] \in Bytes
    BY CharsAssumption DEF carry
  <2>2. \A n \in Nat : (n % carry) + 1 \in 1 .. carry
    BY <1>1, CarryType
  <2> QED  BY <2>1, <2>2
<1>3. IsRecursion(D, V, base, g, H, pred, mu)
  <2>1. g \in [D -> V]  OBVIOUS
  <2>2. H \in [D -> [V -> V]]  BY <1>2
  <2>3. pred \in [D -> D]  BY <1>1
  <2>4. mu \in [D -> Nat]  OBVIOUS
  <2>5. \A d \in D \ base : mu[pred[d]] < mu[d]
    BY CarryType, DivSmaller, <1>1
  <2> HIDE DEF D, V, base, g, H, pred, mu
  <2> QED  BY <2>1, <2>2, <2>3, <2>4, <2>5 DEF IsRecursion
<1>4. \E f \in [D -> V] : Satisfies(f, D, base, g, H, pred)
  <2> HIDE DEF D, V, base, g, H, pred, mu
  <2> QED  BY <1>3, LinearRecursion
<1>5. PICK f \in [D -> V] : Satisfies(f, D, base, g, H, pred)
  BY <1>4, Zenon
<1>6. \A n \in Nat : f[n] = IF n = 0 THEN <<>>
                            ELSE <<chars[(n % carry) + 1]>> \o f[n \div carry]
  BY <1>1, <1>5 DEF Unfold, Satisfies
<1>7. Eq(f)
  BY <1>6
<1>8. Eq(digits)
  BY <1>7, Zenon DEF digits
<1>9. \A n \in Nat : digits[n] = IF n = 0 THEN <<>>
                                 ELSE <<chars[(n % carry) + 1]>> \o digits[n \div carry]
  BY <1>8
<1>10. \A n \in Nat : digits[n] \in Seq(Bytes)
  <2> DEFINE S == {n \in Nat : digits[n] \in Seq(Bytes)}
  <2>1. ASSUME NEW n \in Nat, \A m \in Nat : m < n => m \in S
        PROVE  n \in S
    <3>1. CASE n = 0
      <4>1. digits[n] = <<>>  BY <1>9, <3>1
      <4>2. <<>> \in Seq(Bytes)  OBVIOUS
      <4> QED  BY <4>1, <4>2, Zenon
    <3>2. CASE n # 0
      <4>1. n \div carry \in S  BY <1>1, <2>1, <3>2, CarryType, DivSmaller
      <4> DEFINE c == chars[(n % carry) + 1]
                 r == digits[n \div carry]
      <4>2. digits[n] = <<c>> \o r  BY <1>9, <3>2
      <4>3. c \in Bytes /\ r \in Seq(Bytes)  BY <1>2, <4>1
      <4>4. <<c>> \o r \in Seq(Bytes)
        <5> HIDE DEF c, r
        <5> QED  BY <4>3
      <4> QED  BY <4>2, <4>4
    <3> QED  BY <3>1, <3>2
  <2>2. \A n \in Nat : n \in S
    <3> HIDE DEF S
    <3> QED  BY <2>1, SetInduction
  <2> QED  BY <2>2
<1> QED  BY <1>8, <1>9, <1>10

\* The recursion equation of pow, with the values it has.
LEMMA PowEquation ==
  /\ pow \in [Nat -> [Nat -> Nat]]
  /\ \A x \in Nat : pow[0][x] = 1
  /\ \A n \in Nat \ {0}, x \in Nat :
       pow[n][x] = IF n % 2 = 0 THEN pow[n \div 2][x * x] ELSE x * pow[n - 1][x]
<1> DEFINE Eq(f) == f = [n \in Nat |-> [x \in Nat |->
                           IF n = 0 THEN 1
                           ELSE IF n % 2 = 0 THEN f[n \div 2][x * x]
                           ELSE x * f[n - 1][x]]]
           D == Nat
           V == [Nat -> Nat]
           base == {0}
           g == [n \in Nat |-> [x \in Nat |-> 1]]
           H == [n \in Nat |-> [v \in [Nat -> Nat] |-> [x \in Nat |->
                   IF n % 2 = 0 THEN v[x * x] ELSE x * v[x]]]]
           pred == [n \in Nat |-> IF n % 2 = 0 THEN n \div 2
                                  ELSE IF n = 0 THEN 0 ELSE n - 1]
           mu == [n \in Nat |-> n]
<1>1. \A n \in Nat \ {0} : /\ n \div 2 \in Nat /\ n \div 2 < n
                           /\ n - 1 \in Nat
  OBVIOUS
<1>2. \A x, y \in Nat : x * y \in Nat
  OBVIOUS
<1>3. IsRecursion(D, V, base, g, H, pred, mu)
  <2>1. g \in [D -> V]  OBVIOUS
  <2>2. H \in [D -> [V -> V]]  BY <1>2
  <2>3. pred \in [D -> D]  BY <1>1
  <2>4. mu \in [D -> Nat]  OBVIOUS
  <2>5. \A d \in D \ base : mu[pred[d]] < mu[d]
    BY <1>1
  <2> HIDE DEF D, V, base, g, H, pred, mu
  <2> QED  BY <2>1, <2>2, <2>3, <2>4, <2>5 DEF IsRecursion
<1>4. \E f \in [D -> V] : Satisfies(f, D, base, g, H, pred)
  <2> HIDE DEF D, V, base, g, H, pred, mu
  <2> QED  BY <1>3, LinearRecursion
<1>5. PICK f \in [D -> V] : Satisfies(f, D, base, g, H, pred)
  BY <1>4, Zenon
<1>6. \A n \in Nat : f[n] = [x \in Nat |->
                           IF n = 0 THEN 1
                           ELSE IF n % 2 = 0 THEN f[n \div 2][x * x]
                           ELSE x * f[n - 1][x]]
  <2> SUFFICES ASSUME NEW n \in Nat
               PROVE  f[n] = [x \in Nat |->
                           IF n = 0 THEN 1
                           ELSE IF n % 2 = 0 THEN f[n \div 2][x * x]
                           ELSE x * f[n - 1][x]]
    OBVIOUS
  <2>1. f[n] = Unfold(f, n, base, g, H, pred)
    BY <1>5 DEF Satisfies
  <2>2. CASE n = 0
    BY <2>1, <2>2 DEF Unfold
  <2>3. CASE n # 0
    <3>1. f[n] = H[n][f[pred[n]]]
      BY <2>1, <2>3 DEF Unfold
    <3>2. f[pred[n]] \in [Nat -> Nat]
      BY <1>1, <1>5, <2>3
    <3>3. f[n] = [x \in Nat |-> IF n % 2 = 0 THEN f[pred[n]][x * x]
                                ELSE x * f[pred[n]][x]]
      BY <3>1, <3>2
    <3> QED  BY <2>3, <3>3
  <2> QED  BY <2>2, <2>3
<1>7. Eq(f)
  BY <1>6
<1>8. Eq(pow)
  BY <1>7, Zenon DEF pow
<1>9. \A n \in Nat : pow[n] = [x \in Nat |->
                           IF n = 0 THEN 1
                           ELSE IF n % 2 = 0 THEN pow[n \div 2][x * x]
                           ELSE x * pow[n - 1][x]]
  BY <1>8
<1>10. \A n \in Nat : pow[n] \in [Nat -> Nat]
  <2> DEFINE S == {n \in Nat : pow[n] \in [Nat -> Nat]}
  <2>1. ASSUME NEW n \in Nat, \A m \in Nat : m < n => m \in S
        PROVE  n \in S
    <3>1. CASE n = 0  BY <1>9, <3>1
    <3>2. CASE n # 0
      <4>1. n \div 2 \in S /\ n - 1 \in S
        <5>1. /\ n \div 2 \in Nat /\ n \div 2 < n
              /\ n - 1 \in Nat /\ n - 1 < n
          BY <1>1, <3>2
        <5> HIDE DEF S
        <5> QED  BY <2>1, <5>1
      <4>2. \A x \in Nat : pow[n \div 2][x * x] \in Nat /\ x * pow[n - 1][x] \in Nat
        BY <1>2, <4>1
      <4>3. pow[n] = [x \in Nat |-> IF n % 2 = 0 THEN pow[n \div 2][x * x]
                                    ELSE x * pow[n - 1][x]]
        BY <1>9, <3>2
      <4> QED  BY <4>2, <4>3
    <3> QED  BY <3>1, <3>2
  <2>2. \A n \in Nat : n \in S
    <3> HIDE DEF S
    <3> QED  BY <2>1, SetInduction
  <2> QED  BY <2>2
<1>11. pow \in [Nat -> [Nat -> Nat]]
  BY <1>8, <1>10
<1>12. ASSUME NEW n \in Nat, NEW x \in Nat
       PROVE  pow[n][x] = IF n = 0 THEN 1
                          ELSE IF n % 2 = 0 THEN pow[n \div 2][x * x]
                          ELSE x * pow[n - 1][x]
  BY <1>9
<1> QED  BY <1>11, <1>12

\* Squaring computes the powers that repeated multiplication computes.
LEMMA PowNext ==
  \A n, x \in Nat : pow[n + 1][x] = x * pow[n][x]
<1> DEFINE S == {n \in Nat : \A x \in Nat : pow[n + 1][x] = x * pow[n][x]}
<1>1. ASSUME NEW n \in Nat, \A m \in Nat : m < n => m \in S
      PROVE  n \in S
  <2> SUFFICES ASSUME NEW x \in Nat
               PROVE  pow[n + 1][x] = x * pow[n][x]
    OBVIOUS
  <2>1. CASE (n + 1) % 2 # 0
    <3>1. n + 1 \in Nat \ {0} /\ (n + 1) - 1 = n  OBVIOUS
    <3> QED  BY <2>1, <3>1, PowEquation
  <2>2. CASE (n + 1) % 2 = 0
    <3> DEFINE m == (n + 1) \div 2
    <3>1. m \in Nat \ {0} /\ n = 2 * m - 1
      BY <2>2
    <3>2. pow[n + 1][x] = pow[m][x * x]
      <4>1. n + 1 \in Nat \ {0}  OBVIOUS
      <4> QED  BY <2>2, <4>1, PowEquation
    <3> HIDE DEF m
    <3>3. m - 1 \in Nat /\ m - 1 < n /\ (m - 1) + 1 = m
      BY <3>1
    <3>4. pow[m][x * x] = (x * x) * pow[m - 1][x * x]
      <4>1. m - 1 \in S
        <5> HIDE DEF S
        <5> QED  BY <1>1, <3>3
      <4>2. x * x \in Nat  OBVIOUS
      <4>3. pow[(m - 1) + 1][x * x] = (x * x) * pow[m - 1][x * x]
        BY <4>1, <4>2
      <4> QED  BY <3>3, <4>3
    <3>5. pow[n][x] = x * pow[n - 1][x]
      <4>1. n \in Nat \ {0} /\ n % 2 # 0  BY <3>1
      <4> QED  BY <4>1, PowEquation
    <3>6. pow[n - 1][x] = pow[m - 1][x * x]
      <4>1. CASE n - 1 = 0
        <5>1. m - 1 = 0 /\ x * x \in Nat  BY <3>1, <4>1
        <5> QED  BY <4>1, <5>1, PowEquation
      <4>2. CASE n - 1 # 0
        <5>1. n - 1 \in Nat \ {0} /\ (n - 1) % 2 = 0 /\ (n - 1) \div 2 = m - 1
          BY <3>1, <4>2
        <5> QED  BY <5>1, PowEquation
      <4> QED  BY <4>1, <4>2
    <3>7. pow[m - 1][x * x] \in Nat
      <4>1. x * x \in Nat  OBVIOUS
      <4> QED  BY <3>3, <4>1, PowEquation
    <3>8. ASSUME NEW p \in Nat
          PROVE  (x * x) * p = x * (x * p)
      OBVIOUS
    <3> QED  BY <3>2, <3>4, <3>5, <3>6, <3>7, <3>8
  <2> QED  BY <2>1, <2>2
<1>2. \A n \in Nat : n \in S
  <2> HIDE DEF S
  <2> QED  BY <1>1, SetInduction
<1> QED  BY <1>2

\* The table of init: each entry is the base times the one before.
LEMMA Pow58Table ==
  /\ pow58 \in [0 .. maxBytes -> Nat]
  /\ pow58[0] = 1
  /\ \A i \in 0 .. (maxBytes - 1) : pow58[i + 1] = carry * pow58[i]
<1>1. 0 \in 0 .. maxBytes /\ maxBytes \in Nat  BY LengthsAssumption
<1>2. \A i \in 0 .. maxBytes : pow58[i] = pow[i][carry] /\ pow[i][carry] \in Nat
  BY CarryType, PowEquation DEF pow58
<1>3. pow58[0] = 1
  <2>1. pow58[0] = pow[0][carry]  BY <1>1, <1>2
  <2>2. pow[0][carry] = 1  BY CarryType, PowEquation
  <2> QED  BY <2>1, <2>2
<1>4. ASSUME NEW i \in 0 .. (maxBytes - 1)
      PROVE  pow58[i + 1] = carry * pow58[i]
  <2>1. i \in Nat /\ i \in 0 .. maxBytes /\ i + 1 \in 0 .. maxBytes  BY <1>1
  <2> QED  BY <1>2, <2>1, CarryType, PowNext
<1>5. pow58 \in [0 .. maxBytes -> Nat]
  BY <1>2 DEF pow58
<1> QED  BY <1>3, <1>4, <1>5

\* No entry of the table is 0.
LEMMA PowPositive == \A i \in 0 .. maxBytes : pow58[i] \in Nat /\ pow58[i] > 0
<1> DEFINE S == {n \in Nat : n <= maxBytes => pow58[n] > 0}
<1>1. ASSUME NEW n \in Nat, \A m \in Nat : m < n => m \in S
      PROVE  n \in S
  <2>1. CASE n = 0  BY <2>1, Pow58Table
  <2>2. CASE n \in 1 .. maxBytes
    <3>1. n - 1 \in S /\ n - 1 \in 0 .. (maxBytes - 1) /\ (n - 1) + 1 = n
      <4>1. n - 1 \in Nat /\ n - 1 < n  BY <2>2
      <4> HIDE DEF S
      <4> QED  BY <1>1, <2>2, <4>1, LengthsAssumption
    <3> DEFINE p == pow58[n - 1]
    <3>2. pow58[n] = carry * p  BY <3>1, Pow58Table
    <3>3. p \in Nat /\ p > 0  BY <3>1, Pow58Table, LengthsAssumption
    <3> HIDE DEF p
    <3>4. carry * p > 0  BY <3>3, CarryType
    <3> QED  BY <3>2, <3>4
  <2> QED  BY <2>1, <2>2, LengthsAssumption
<1>2. \A n \in Nat : n \in S
  <2> HIDE DEF S
  <2> QED  BY <1>1, SetInduction
<1> QED  BY <1>2, Pow58Table, LengthsAssumption

\* The table of indices inverts the alphabet, and marks what is not in it.
LEMMA IndicesTable ==
  /\ \A i \in 1 .. carry : chars[i] \in Bytes /\ indices[chars[i]] = i - 1
  /\ \A c \in Bytes : indices[c] # -1 =>
       indices[c] \in 0 .. (carry - 1) /\ chars[indices[c] + 1] = c
<1>1. \A i \in 1 .. carry : chars[i] \in Bytes
  BY CharsAssumption DEF carry
<1>2. \A i, j \in 1 .. carry : chars[i] = chars[j] => i = j
  BY CharsAssumption DEF carry
<1>3. ASSUME NEW c \in Bytes, NEW i \in 1 .. carry, chars[i] = c
      PROVE  indices[c] = i - 1
  <2> DEFINE j == CHOOSE k \in 1 .. carry : chars[k] = c
  <2>1. j \in 1 .. carry /\ chars[j] = c  BY <1>3
  <2>2. j = i  BY <1>2, <1>3, <2>1
  <2>3. indices[c] = j - 1  BY <1>3 DEF indices
  <2> QED  BY <2>2, <2>3
<1>4. ASSUME NEW c \in Bytes, indices[c] # -1
      PROVE  indices[c] \in 0 .. (carry - 1) /\ chars[indices[c] + 1] = c
  <2>1. PICK i \in 1 .. carry : chars[i] = c  BY <1>4 DEF indices
  <2>2. indices[c] = i - 1  BY <1>3, <2>1
  <2> QED  BY <2>1, <2>2, CarryType
<1> QED  BY <1>1, <1>3, <1>4

-----------------------------------------------------------------------------
(* Decoding *)

\* A code that Base58Decode does not refuse.
Valid(b) == b \in Seq(Bytes) /\ Len(b) <= maxBytes /\ ~ Foreign(b)

\* What the loop of Base58Decode ends with.
Value(b) == Sums(b)[Len(b)]

\* The characters of a valid code have digits.
LEMMA ValidDigits ==
  ASSUME NEW b, Valid(b), NEW i \in 1 .. Len(b)
  PROVE  /\ Len(b) \in Nat
         /\ b[i] \in Bytes /\ indices[b[i]] \in 0 .. (carry - 1)
         /\ chars[indices[b[i]] + 1] = b[i]
         /\ pow58[Len(b) - i] \in Nat
<1>1. b[i] \in Bytes /\ indices[b[i]] # -1 /\ Len(b) \in Nat
  BY DEF Valid, Foreign
<1>2. Len(b) - i \in 0 .. maxBytes
  BY <1>1, LengthsAssumption DEF Valid
<1> QED  BY <1>1, <1>2, IndicesTable, Pow58Table

\* The rounds of the loop in Base58Decode.
LEMMA SumsEquation ==
  ASSUME NEW b, Valid(b)
  PROVE  /\ \A i \in 0 .. Len(b) : Sums(b)[i] \in Nat
         /\ Sums(b)[0] = 0
         /\ \A i \in 1 .. Len(b) :
              Sums(b)[i] = Sums(b)[i - 1] + pow58[Len(b) - i] * indices[b[i]]
<1> DEFINE Eq(f) == f = [i \in 0 .. Len(b) |->
                           IF i = 0 THEN 0
                           ELSE f[i - 1] + pow58[Len(b) - i] * indices[b[i]]]
           D == 0 .. Len(b)
           V == Nat
           base == {0}
           term == [i \in 1 .. Len(b) |-> pow58[Len(b) - i] * indices[b[i]]]
           g == [i \in D |-> 0]
           H == [i \in D |-> [v \in Nat |-> IF i = 0 THEN v ELSE v + term[i]]]
           pred == [i \in D |-> IF i = 0 THEN 0 ELSE i - 1]
           mu == [i \in D |-> i]
<1>1. Len(b) \in Nat
  BY DEF Valid
<1>2. \A i \in 1 .. Len(b) : term[i] \in Nat
  <2> SUFFICES ASSUME NEW i \in 1 .. Len(b)
               PROVE  pow58[Len(b) - i] * indices[b[i]] \in Nat
    OBVIOUS
  <2>1. pow58[Len(b) - i] \in Nat /\ indices[b[i]] \in Nat
    BY ValidDigits, CarryType
  <2>2. \A x, y \in Nat : x * y \in Nat  OBVIOUS
  <2> QED  BY <2>1, <2>2
<1>3. IsRecursion(D, V, base, g, H, pred, mu)
  <2>1. g \in [D -> V]  OBVIOUS
  <2>2. H \in [D -> [V -> V]]
    <3>1. \A i \in D \ {0} : i \in 1 .. Len(b)  BY <1>1
    <3> HIDE DEF term
    <3> QED  BY <1>2, <3>1
  <2>3. pred \in [D -> D]  BY <1>1
  <2>4. mu \in [D -> Nat]  BY <1>1
  <2>5. \A d \in D \ base : mu[pred[d]] < mu[d]
    BY <1>1
  <2> HIDE DEF D, V, base, g, H, pred, mu
  <2> QED  BY <2>1, <2>2, <2>3, <2>4, <2>5 DEF IsRecursion
<1>4. \E f \in [D -> V] : Satisfies(f, D, base, g, H, pred)
  <2> HIDE DEF D, V, base, g, H, pred, mu
  <2> QED  BY <1>3, LinearRecursion
<1>5. PICK f \in [D -> V] : Satisfies(f, D, base, g, H, pred)
  BY <1>4, Zenon
<1>6. \A i \in 0 .. Len(b) :
        f[i] = IF i = 0 THEN 0 ELSE f[i - 1] + pow58[Len(b) - i] * indices[b[i]]
  <2> SUFFICES ASSUME NEW i \in 0 .. Len(b)
               PROVE  f[i] = IF i = 0 THEN 0
                             ELSE f[i - 1] + pow58[Len(b) - i] * indices[b[i]]
    OBVIOUS
  <2>1. f[i] = Unfold(f, i, base, g, H, pred)
    BY <1>5 DEF Satisfies
  <2>2. CASE i = 0  BY <2>1, <2>2 DEF Unfold
  <2>3. CASE i # 0
    <3>1. i - 1 \in D /\ i \in 1 .. Len(b)  BY <1>1, <2>3
    <3>2. f[i] = H[i][f[i - 1]]  BY <2>1, <2>3 DEF Unfold
    <3>3. f[i - 1] \in Nat  BY <1>5, <3>1
    <3>4. f[i] = f[i - 1] + term[i]
      <4> HIDE DEF term
      <4> QED  BY <2>3, <3>2, <3>3
    <3> QED  BY <2>3, <3>1, <3>4
  <2> QED  BY <2>2, <2>3
<1>7. Eq(f)
  <2> HIDE DEF term
  <2> QED  BY <1>5, <1>6
<1>8. Eq(Sums(b))
  BY <1>7, Zenon DEF Sums
<1>9. \A i \in 0 .. Len(b) :
        Sums(b)[i] = IF i = 0 THEN 0
                     ELSE Sums(b)[i - 1] + pow58[Len(b) - i] * indices[b[i]]
  <2> HIDE DEF term
  <2> QED  BY <1>8
<1>10. Sums(b)[0] = 0
  BY <1>1, <1>9
<1>11. \A i \in 1 .. Len(b) :
         Sums(b)[i] = Sums(b)[i - 1] + pow58[Len(b) - i] * indices[b[i]]
  BY <1>1, <1>9
<1>12. \A i \in 0 .. Len(b) : Sums(b)[i] \in Nat
  <2> DEFINE S == {n \in Nat : n <= Len(b) => Sums(b)[n] \in Nat}
  <2>1. ASSUME NEW n \in Nat, \A m \in Nat : m < n => m \in S
        PROVE  n \in S
    <3>1. CASE n = 0  BY <1>10, <3>1
    <3>2. CASE n \in 1 .. Len(b)
      <4>1. n - 1 \in S  BY <2>1, <3>2
      <4>2. Sums(b)[n - 1] \in Nat  BY <4>1, <3>2, <1>1
      <4>3. Sums(b)[n] = Sums(b)[n - 1] + term[n]  BY <1>11, <3>2
      <4>4. term[n] \in Nat  BY <1>2, <3>2
      <4>5. Sums(b)[n] \in Nat
        <5> HIDE DEF term
        <5> QED  BY <4>2, <4>3, <4>4
      <4> QED  BY <4>5
    <3> QED  BY <1>1, <3>1, <3>2
  <2>2. \A n \in Nat : n \in S
    <3> HIDE DEF S
    <3> QED  BY <2>1, SetInduction
  <2> QED  BY <1>1, <2>2
<1> QED  BY <1>10, <1>11, <1>12

\* The value of a valid code is a number, 0 for the empty code.
LEMMA ValueType ==
  ASSUME NEW b, Valid(b)
  PROVE  Value(b) \in Nat /\ (Len(b) = 0 => Value(b) = 0)
<1>1. Len(b) \in Nat  BY DEF Valid
<1> QED  BY <1>1, SumsEquation DEF Value

\* A character appended to a valid code leaves it valid, if it is of the
\* alphabet and there is room.
LEMMA AppendValid ==
  ASSUME NEW b, Valid(b), NEW c \in Bytes, indices[c] # -1, Len(b) < maxBytes
  PROVE  Valid(Append(b, c))
<1> DEFINE e == Append(b, c)
<1>1. b \in Seq(Bytes) /\ Len(b) \in Nat  BY DEF Valid
<1>2. /\ e \in Seq(Bytes) /\ Len(e) = Len(b) + 1
      /\ \A i \in 1 .. Len(b) : e[i] = b[i]
      /\ e[Len(b) + 1] = c
  BY <1>1
<1> HIDE DEF e
<1>3. ASSUME NEW i \in 1 .. Len(e)
      PROVE  indices[e[i]] # -1
  <2>1. CASE i \in 1 .. Len(b)  BY <1>2, <2>1 DEF Valid, Foreign
  <2>2. CASE i = Len(b) + 1  BY <1>2, <2>2
  <2> QED  BY <1>1, <1>2, <2>1, <2>2
<1>4. Len(e) <= maxBytes  BY <1>1, <1>2, LengthsAssumption
<1> QED  BY <1>2, <1>3, <1>4 DEF Valid, Foreign, e

\* What is before the last character of a valid code is a valid code.
LEMMA FrontValid ==
  ASSUME NEW b \in Seq(Bytes), NEW c \in Bytes, Valid(Append(b, c))
  PROVE  Valid(b) /\ indices[c] # -1 /\ Len(b) < maxBytes
<1> DEFINE e == Append(b, c)
<1>1. /\ Len(b) \in Nat /\ Len(e) = Len(b) + 1
      /\ \A i \in 1 .. Len(b) : e[i] = b[i]
      /\ e[Len(b) + 1] = c
  OBVIOUS
<1>2. Valid(e)  OBVIOUS
<1> HIDE DEF e
<1>3. \A i \in 1 .. (Len(b) + 1) : indices[e[i]] # -1
  BY <1>1, <1>2 DEF Valid, Foreign
<1>4. \A i \in 1 .. Len(b) : indices[b[i]] # -1
  <2> SUFFICES ASSUME NEW i \in 1 .. Len(b)
               PROVE  indices[b[i]] # -1
    OBVIOUS
  <2>1. i \in 1 .. (Len(b) + 1)  BY <1>1
  <2> QED  BY <1>1, <1>3, <2>1
<1>5. Len(b) + 1 \in 1 .. (Len(b) + 1)  BY <1>1
<1>6. Len(b) < maxBytes  BY <1>1, <1>2, LengthsAssumption DEF Valid
<1>7. indices[c] # -1  BY <1>1, <1>3, <1>5
<1> QED  BY <1>1, <1>4, <1>6, <1>7, LengthsAssumption DEF Valid, Foreign

\* Decoding is positional: one more character multiplies the value by the base
\* and adds the digit.
LEMMA ValueOfAppend ==
  ASSUME NEW b, Valid(b), NEW c \in Bytes, indices[c] # -1, Len(b) < maxBytes
  PROVE  Value(Append(b, c)) = carry * Value(b) + indices[c]
<1> DEFINE e == Append(b, c)
           n == Len(b)
<1>1. b \in Seq(Bytes) /\ n \in Nat  BY DEF Valid
<1>2. /\ Len(e) = n + 1
      /\ \A i \in 1 .. n : e[i] = b[i]
      /\ e[n + 1] = c
  BY <1>1
<1>3. Valid(e)  BY AppendValid
<1> HIDE DEF e
<1>4. \A i \in 1 .. (n + 1) :
        Sums(e)[i] = Sums(e)[i - 1] + pow58[(n + 1) - i] * indices[e[i]]
  BY <1>2, <1>3, SumsEquation
<1> DEFINE S == {i \in Nat : i <= n => Sums(e)[i] = carry * Sums(b)[i]}
<1>5. ASSUME NEW i \in Nat, \A m \in Nat : m < i => m \in S
      PROVE  i \in S
  <2>1. CASE i = 0
    <3>1. Sums(e)[0] = 0 /\ Sums(b)[0] = 0  BY <1>3, SumsEquation
    <3> QED  BY <2>1, <3>1, CarryType
  <2>2. CASE i \in 1 .. n
    <3>1. i - 1 \in S /\ i - 1 <= n
      <4>1. i - 1 \in Nat /\ i - 1 < i /\ i - 1 <= n  BY <1>1, <2>2
      <4> HIDE DEF S
      <4> QED  BY <1>5, <4>1
    <3> DEFINE s == Sums(b)[i - 1]
               p == pow58[n - i]
               d == indices[b[i]]
    <3>2. s \in Nat /\ p \in Nat /\ d \in Nat
      <4>1. i - 1 \in 0 .. n  BY <1>1, <2>2
      <4>2. s \in Nat  BY <4>1, SumsEquation
      <4>3. p \in Nat /\ d \in 0 .. (carry - 1)  BY <2>2, ValidDigits
      <4> QED  BY <4>2, <4>3, CarryType
    <3>3. Sums(e)[i - 1] = carry * s  BY <3>1
    <3>4. pow58[(n + 1) - i] = carry * p
      <4>1. n - i \in 0 .. (maxBytes - 1) /\ (n + 1) - i = (n - i) + 1
        BY <1>1, <2>2, LengthsAssumption
      <4> QED  BY <4>1, Pow58Table
    <3>5. Sums(e)[i] = carry * s + (carry * p) * d
      <4>1. i \in 1 .. (n + 1) /\ e[i] = b[i]  BY <1>1, <1>2, <2>2
      <4> QED  BY <1>4, <3>3, <3>4, <4>1
    <3>6. Sums(b)[i] = s + p * d  BY <2>2, SumsEquation
    <3> HIDE DEF s, p, d
    <3>7. carry * s + (carry * p) * d = carry * (s + p * d)
      BY <3>2, CarryType
    <3> QED  BY <3>5, <3>6, <3>7
  <2> QED  BY <1>1, <2>1, <2>2
<1>6. \A i \in Nat : i \in S
  <2> HIDE DEF S
  <2> QED  BY <1>5, SetInduction
<1>7. Sums(e)[n] = carry * Sums(b)[n]
  BY <1>1, <1>6
<1>8. Sums(e)[n + 1] = Sums(e)[n] + pow58[0] * indices[c]
  <2>1. n + 1 \in 1 .. (n + 1) /\ (n + 1) - 1 = n /\ (n + 1) - (n + 1) = 0  BY <1>1
  <2> QED  BY <1>2, <1>4, <2>1
<1>9. pow58[0] * indices[c] = indices[c]
  BY Pow58Table, IndicesTable, CarryType
<1> QED  BY <1>2, <1>7, <1>8, <1>9 DEF Value, e

-----------------------------------------------------------------------------
(* Encoding *)

\* What reverse makes of a digit put in front.
LEMMA ReverseCons ==
  ASSUME NEW B, NEW s \in Seq(B), NEW c \in B
  PROVE  /\ Reverse(<<c>> \o s) = Append(Reverse(s), c)
         /\ Reverse(s) \in Seq(B) /\ Len(Reverse(s)) = Len(s)
<1> DEFINE n == Len(s)
           t == <<c>> \o s
           r == [i \in 1 .. n |-> s[(n - i) + 1]]
<1>1. n \in Nat /\ t \in Seq(B) /\ Len(t) = n + 1
      /\ t[1] = c /\ \A i \in 1 .. n : t[i + 1] = s[i]
  OBVIOUS
<1>2. Reverse(s) = r /\ Reverse(t) = [i \in 1 .. (n + 1) |-> t[((n + 1) - i) + 1]]
  BY <1>1 DEF Reverse
<1>3. r \in Seq(B) /\ Len(r) = n
  <2>1. \A i \in 1 .. n : s[(n - i) + 1] \in B  BY <1>1
  <2> QED  BY <1>1, <2>1
<1>4. /\ Append(r, c) \in Seq(B) /\ Len(Append(r, c)) = n + 1
      /\ \A i \in 1 .. n : Append(r, c)[i] = r[i]
      /\ Append(r, c)[n + 1] = c
  BY <1>3
<1>5. Reverse(t) \in Seq(B) /\ Len(Reverse(t)) = n + 1
  <2>1. \A i \in 1 .. (n + 1) : t[((n + 1) - i) + 1] \in B  BY <1>1
  <2>2. Reverse(t) \in [1 .. (n + 1) -> B]
    <3> HIDE DEF t
    <3> QED  BY <1>2, <2>1
  <2>3. n + 1 \in Nat  BY <1>1
  <2> DEFINE u == Reverse(t)
             k == n + 1
  <2> HIDE DEF t, n, u, k
  <2>4. u \in [1 .. k -> B] /\ k \in Nat  BY <2>2, <2>3 DEF u, k
  <2>5. u \in Seq(B) /\ Len(u) = k  BY <2>4
  <2> QED  BY <2>5 DEF u, k
<1>6. ASSUME NEW i \in 1 .. (n + 1)
      PROVE  Reverse(t)[i] = Append(r, c)[i]
  <2>1. Reverse(t)[i] = t[((n + 1) - i) + 1]  BY <1>2
  <2>2. CASE i = n + 1
    BY <1>1, <1>4, <2>1, <2>2
  <2>3. CASE i \in 1 .. n
    <3>1. (n - i) + 1 \in 1 .. n /\ ((n - i) + 1) + 1 = ((n + 1) - i) + 1
      BY <1>1, <2>3
    <3>2. t[((n + 1) - i) + 1] = s[(n - i) + 1]
      BY <1>1, <3>1
    <3> QED  BY <1>4, <2>1, <2>3, <3>2
  <2> QED  BY <1>1, <2>2, <2>3
<1>7. Reverse(t) = Append(r, c)
  <2> DEFINE u == Reverse(t)
             w == Append(r, c)
  <2>1. u \in Seq(B) /\ w \in Seq(B) /\ Len(u) = Len(w)
        /\ \A i \in 1 .. Len(u) : u[i] = w[i]
    BY <1>4, <1>5, <1>6
  <2> HIDE DEF u, w
  <2>2. u = w  BY <2>1
  <2> QED  BY <2>2 DEF u, w
<1> QED  BY <1>2, <1>3, <1>7

\* Codes are sequences of bytes; 0 has the empty code.
LEMMA EncodeType ==
  ASSUME NEW n \in Nat
  PROVE  /\ Base58Encode(n) \in Seq(Bytes)
         /\ Len(Base58Encode(n)) = Len(digits[n]) /\ Len(digits[n]) \in Nat
<1>1. digits[n] \in Seq(Bytes)  BY DigitsEquation
<1>2. PICK c : c \in Bytes
  BY CarryType, IndicesTable
<1> DEFINE s == digits[n]
<1>3. Reverse(s) \in Seq(Bytes) /\ Len(Reverse(s)) = Len(s)
  <2> HIDE DEF s
  <2> QED  BY <1>1, <1>2, ReverseCons DEF s
<1>4. Len(s) \in Nat  BY <1>1
<1> QED  BY <1>3, <1>4 DEF Base58Encode

\* The loop of Base58Encode does nothing for 0.
LEMMA EncodeZero == Base58Encode(0) = <<>> /\ Len(digits[0]) = 0
<1>1. digits[0] = <<>>  BY DigitsEquation
<1>2. Reverse(<<>>) = <<>>  BY DEF Reverse
<1> QED  BY <1>1, <1>2 DEF Base58Encode

\* Encoding is positional too: the code of carry * v + d is the code of v and
\* the character of d.
LEMMA EncodeOfDigit ==
  ASSUME NEW v \in Nat, NEW d \in 0 .. (carry - 1), carry * v + d # 0
  PROVE  /\ Base58Encode(carry * v + d) = Append(Base58Encode(v), chars[d + 1])
         /\ Len(digits[carry * v + d]) = Len(digits[v]) + 1
<1> DEFINE n == carry * v + d
           c == chars[d + 1]
<1>1. n \in Nat \ {0}  BY CarryType
<1>2. n \div carry = v /\ n % carry = d  BY CarryType, DivOfDigit
<1>3. digits[n] = <<c>> \o digits[v]
  <2> HIDE DEF n
  <2> QED  BY <1>1, <1>2, DigitsEquation
<1>4. c \in Bytes
  <2>1. d + 1 \in 1 .. carry  BY CarryType
  <2> QED  BY <2>1, IndicesTable
<1>5. digits[v] \in Seq(Bytes)  BY DigitsEquation
<1>6. Reverse(<<c>> \o digits[v]) = Append(Reverse(digits[v]), c)
  <2> HIDE DEF c
  <2> QED  BY <1>4, <1>5, ReverseCons
<1>7. Len(<<c>> \o digits[v]) = Len(digits[v]) + 1
  <2> HIDE DEF c
  <2> QED  BY <1>4, <1>5
<1> QED  BY <1>3, <1>6, <1>7 DEF Base58Encode

\* A number below the k-th power of the base has at most k digits, and one that
\* is not has more.
LEMMA CodeLength ==
  ASSUME NEW n \in Nat, NEW k \in 0 .. maxBytes
  PROVE  Len(digits[n]) <= k <=> n < pow58[k]
<1> DEFINE S == {m \in Nat : \A j \in 0 .. maxBytes :
                   Len(digits[m]) <= j <=> m < pow58[j]}
<1>1. ASSUME NEW m \in Nat, \A i \in Nat : i < m => i \in S
      PROVE  m \in S
  <2> SUFFICES ASSUME NEW j \in 0 .. maxBytes
               PROVE  Len(digits[m]) <= j <=> m < pow58[j]
    OBVIOUS
  <2>1. CASE m = 0
    <3>1. Len(digits[m]) = 0 /\ j >= 0  BY <2>1, EncodeZero
    <3>2. pow58[j] > 0  BY PowPositive
    <3> QED  BY <2>1, <3>1, <3>2, Pow58Table
  <2>2. CASE m # 0
    <3> DEFINE q == m \div carry
               r == m % carry
    <3>1. q \in Nat /\ r \in 0 .. (carry - 1) /\ m = carry * q + r /\ q < m
      BY <2>2, CarryType, DivMod, DivSmaller
    <3> HIDE DEF q, r
    <3>2. Len(digits[m]) = Len(digits[q]) + 1 /\ Len(digits[q]) \in Nat
      BY <2>2, <3>1, EncodeOfDigit, EncodeType
    <3>3. q \in S
      <4> HIDE DEF S
      <4> QED  BY <1>1, <3>1
    <3>4. CASE j = 0
      BY <2>2, <3>2, <3>4, Pow58Table
    <3>5. CASE j # 0
      <4>1. j - 1 \in 0 .. (maxBytes - 1) /\ j - 1 \in 0 .. maxBytes /\ (j - 1) + 1 = j
        BY <3>5, LengthsAssumption
      <4> DEFINE p == pow58[j - 1]
      <4>2. pow58[j] = carry * p /\ p \in Nat  BY <4>1, Pow58Table
      <4>3. Len(digits[q]) <= j - 1 <=> q < p  BY <3>3, <4>1
      <4> HIDE DEF p
      <4>4. q < p <=> carry * q + r < carry * p
        <5>1. ASSUME q < p PROVE carry * q + r < carry * p
          <6>1. carry * (q + 1) <= carry * p  BY <3>1, <4>2, <5>1, CarryType
          <6>2. carry * (q + 1) = carry * q + carry  BY <3>1, CarryType
          <6> QED  BY <3>1, <4>2, <6>1, <6>2, CarryType
        <5>2. ASSUME p <= q PROVE carry * p <= carry * q + r
          BY <3>1, <4>2, <5>2, CarryType
        <5> QED  BY <3>1, <4>2, <5>1, <5>2, CarryType
      <4> QED  BY <3>1, <3>2, <4>1, <4>2, <4>3, <4>4
    <3> QED  BY <3>4, <3>5
  <2> QED  BY <2>1, <2>2
<1>2. \A m \in Nat : m \in S
  <2> HIDE DEF S
  <2> QED  BY <1>1, SetInduction
<1> QED  BY <1>2

-----------------------------------------------------------------------------
(* Encoding and decoding are inverse to each other *)

\* The code of a number that is not too large is accepted by Base58Decode and
\* decoded to that number.
LEMMA ValueOfCode ==
  ASSUME NEW n \in Nat, n < pow58[maxBytes]
  PROVE  Valid(Base58Encode(n)) /\ Value(Base58Encode(n)) = n
<1> DEFINE S == {m \in Nat : Len(digits[m]) <= maxBytes =>
                   Valid(Base58Encode(m)) /\ Value(Base58Encode(m)) = m}
<1>1. ASSUME NEW m \in Nat, \A i \in Nat : i < m => i \in S
      PROVE  m \in S
  <2> SUFFICES ASSUME Len(digits[m]) <= maxBytes
               PROVE  Valid(Base58Encode(m)) /\ Value(Base58Encode(m)) = m
    OBVIOUS
  <2>1. CASE m = 0
    <3>1. Base58Encode(m) = <<>>  BY <2>1, EncodeZero
    <3>2. Valid(<<>>)
      BY LengthsAssumption DEF Valid, Foreign
    <3>3. Value(<<>>) = 0  BY <3>2, ValueType
    <3> QED  BY <2>1, <3>1, <3>2, <3>3
  <2>2. CASE m # 0
    <3> DEFINE q == m \div carry
               r == m % carry
               b == Base58Encode(q)
               c == chars[r + 1]
    <3>1. q \in Nat /\ r \in 0 .. (carry - 1) /\ m = carry * q + r /\ q < m
      BY <2>2, CarryType, DivMod, DivSmaller
    <3> HIDE DEF q, r
    <3>2. Base58Encode(m) = Append(b, c) /\ Len(digits[m]) = Len(digits[q]) + 1
      BY <2>2, <3>1, EncodeOfDigit
    <3>3. Len(b) = Len(digits[q]) /\ Len(digits[q]) \in Nat
      BY <3>1, EncodeType
    <3>4. Len(b) < maxBytes  BY <3>2, <3>3, LengthsAssumption
    <3>5. Valid(b) /\ Value(b) = q
      <4>1. q \in S
        <5> HIDE DEF S
        <5> QED  BY <1>1, <3>1
      <4> QED  BY <3>3, <3>4, <4>1, LengthsAssumption
    <3>6. c \in Bytes /\ indices[c] = r /\ r # -1
      <4>1. r + 1 \in 1 .. carry /\ (r + 1) - 1 = r  BY <3>1, CarryType
      <4> QED  BY <3>1, <4>1, IndicesTable
    <3> HIDE DEF b, c
    <3>7. Valid(Append(b, c))  BY <3>4, <3>5, <3>6, AppendValid
    <3>8. Value(Append(b, c)) = carry * q + r
      BY <3>4, <3>5, <3>6, ValueOfAppend
    <3> QED  BY <3>1, <3>2, <3>7, <3>8
  <2> QED  BY <2>1, <2>2
<1>2. \A m \in Nat : m \in S
  <2> HIDE DEF S
  <2> QED  BY <1>1, SetInduction
<1>3. Len(digits[n]) <= maxBytes
  <2>1. maxBytes \in 0 .. maxBytes  BY LengthsAssumption
  <2> QED  BY <2>1, CodeLength
<1> QED  BY <1>2, <1>3

\* z characters that stand for the digit 0.
Zeros(z) == [i \in 1 .. z |-> chars[1]]

\* Zeros(z) is a string of length z, and one more zero is one more character.
LEMMA ZerosType ==
  ASSUME NEW z \in Nat
  PROVE  /\ Zeros(z) \in Seq(Bytes) /\ Len(Zeros(z)) = z
         /\ chars[1] \in Bytes /\ Zeros(z + 1) = Append(Zeros(z), chars[1])
<1>1. chars[1] \in Bytes
  <2>1. 1 \in 1 .. carry  BY CarryType
  <2> QED  BY <2>1, IndicesTable
<1> DEFINE c == chars[1]
<1> HIDE DEF c
<1>2. [i \in 1 .. z |-> c] \in Seq(Bytes) /\ Len([i \in 1 .. z |-> c]) = z
  BY <1>1 DEF c
<1>3. [i \in 1 .. (z + 1) |-> c] = Append([i \in 1 .. z |-> c], c)
  <2> DEFINE u == [i \in 1 .. (z + 1) |-> c]
             w == [i \in 1 .. z |-> c]
  <2>1. u \in Seq(Bytes) /\ Len(u) = z + 1 /\ \A i \in 1 .. (z + 1) : u[i] = c
    BY <1>1 DEF c
  <2>2. w \in Seq(Bytes) /\ Len(w) = z /\ \A i \in 1 .. z : w[i] = c
    BY <1>2
  <2> HIDE DEF u, w
  <2>3. /\ Append(w, c) \in Seq(Bytes) /\ Len(Append(w, c)) = z + 1
        /\ \A i \in 1 .. z : Append(w, c)[i] = c
        /\ Append(w, c)[z + 1] = c
    BY <1>1, <2>2 DEF c
  <2>4. \A i \in 1 .. (z + 1) : Append(w, c)[i] = c
    BY <2>3
  <2>5. u = Append(w, c)  BY <2>1, <2>3, <2>4
  <2> QED  BY <2>5 DEF u, w
<1> QED  BY <1>1, <1>2, <1>3 DEF c, Zeros

\* A sequence that is not empty is one to which its last element was appended.
LEMMA LastAppended ==
  ASSUME NEW B, NEW b \in Seq(B), Len(b) # 0
  PROVE  \E s \in Seq(B), c \in B : b = Append(s, c) /\ Len(s) = Len(b) - 1
<1> DEFINE s == [i \in 1 .. (Len(b) - 1) |-> b[i]]
           c == b[Len(b)]
<1>1. Len(b) \in Nat \ {0} /\ c \in B  OBVIOUS
<1>2. s \in Seq(B) /\ Len(s) = Len(b) - 1
      /\ \A i \in 1 .. (Len(b) - 1) : s[i] = b[i]
  BY <1>1
<1> HIDE DEF s, c
<1>3. /\ Append(s, c) \in Seq(B) /\ Len(Append(s, c)) = Len(b)
      /\ \A i \in 1 .. (Len(b) - 1) : Append(s, c)[i] = b[i]
      /\ Append(s, c)[Len(b)] = b[Len(b)]
  BY <1>1, <1>2 DEF c
<1>4. \A i \in 1 .. Len(b) : Append(s, c)[i] = b[i]
  BY <1>1, <1>3
<1>5. b = Append(s, c)  BY <1>3, <1>4
<1> QED  BY <1>1, <1>2, <1>5

\* A character appended to a concatenation is appended to its second part.
LEMMA AppendConcat ==
  \A p, q \in Seq(Bytes), c \in Bytes : Append(p \o q, c) = p \o Append(q, c)
<1> SUFFICES ASSUME NEW p \in Seq(Bytes), NEW q \in Seq(Bytes), NEW c \in Bytes
             PROVE  Append(p \o q, c) = p \o Append(q, c)
  OBVIOUS
<1> QED  OBVIOUS

\* A valid code is the code of its value, with digits 0 in front.
LEMMA CodeOfValue ==
  ASSUME NEW b, Valid(b)
  PROVE  \E z \in 0 .. maxBytes : b = Zeros(z) \o Base58Encode(Value(b))
<1> DEFINE Coded(e) == \E z \in 0 .. Len(e) : e = Zeros(z) \o Base58Encode(Value(e))
           S == {k \in Nat : \A e : Valid(e) /\ Len(e) = k => Coded(e)}
<1>1. ASSUME NEW k \in Nat, \A i \in Nat : i < k => i \in S
      PROVE  k \in S
  <2> SUFFICES ASSUME NEW e, Valid(e), Len(e) = k
               PROVE  Coded(e)
    OBVIOUS
  <2>1. CASE k = 0
    <3>1. Value(e) = 0 /\ e = <<>>
      <4>1. Value(e) = 0  BY <2>1, ValueType
      <4>2. e \in Seq(Bytes) /\ Len(e) = 0  BY <2>1 DEF Valid
      <4>3. e = <<>>  BY <4>2
      <4> QED  BY <4>1, <4>3
    <3>2. Base58Encode(Value(e)) = <<>>  BY <3>1, EncodeZero
    <3>3. Zeros(0) \o <<>> = <<>>  BY DEF Zeros
    <3> QED  BY <3>1, <3>2, <3>3
  <2>2. CASE k # 0
    <3>1. PICK s \in Seq(Bytes), c \in Bytes : e = Append(s, c) /\ Len(s) = k - 1
      BY <2>2, LastAppended DEF Valid
    <3>2. Valid(s) /\ indices[c] # -1 /\ Len(s) < maxBytes
      BY <3>1, FrontValid
    <3> DEFINE v == Value(s)
               d == indices[c]
    <3>3. v \in Nat /\ d \in 0 .. (carry - 1) /\ chars[d + 1] = c
      BY <3>2, ValueType, IndicesTable
    <3>4. Value(e) = carry * v + d  BY <3>1, <3>2, ValueOfAppend
    <3>5. PICK z \in 0 .. (k - 1) : s = Zeros(z) \o Base58Encode(v)
      <4>1. k - 1 \in S
        <5>1. k - 1 \in Nat /\ k - 1 < k  BY <2>2
        <5> HIDE DEF S
        <5> QED  BY <1>1, <5>1
      <4> QED  BY <3>1, <3>2, <4>1
    <3> HIDE DEF v, d
    <3>6. Base58Encode(v) \in Seq(Bytes)  BY <3>3, EncodeType
    <3>7. z \in Nat /\ z \in 0 .. k /\ z + 1 \in 0 .. k  BY <2>2
    <3>8. Zeros(z) \in Seq(Bytes) /\ Zeros(z + 1) = Append(Zeros(z), chars[1])
      BY <3>7, ZerosType
    <3>9. CASE carry * v + d # 0
      <4>1. Base58Encode(carry * v + d) = Append(Base58Encode(v), c)
        BY <3>3, <3>9, EncodeOfDigit
      <4>2. e = Zeros(z) \o Append(Base58Encode(v), c)
        <5> DEFINE y == Zeros(z)
                   t == Base58Encode(v)
        <5>1. e = Append(y \o t, c)  BY <3>1, <3>5
        <5>2. y \in Seq(Bytes) /\ t \in Seq(Bytes)  BY <3>6, <3>8
        <5> HIDE DEF y, t
        <5>3. Append(y \o t, c) = y \o Append(t, c)  BY <5>2, AppendConcat, Zenon
        <5> QED  BY <5>1, <5>3 DEF y, t
      <4> QED  BY <3>4, <3>7, <4>1, <4>2
    <3>10. CASE carry * v + d = 0
      <4>1. v = 0 /\ d = 0  BY <3>3, <3>10, CarryType
      <4>2. c = chars[1]  BY <3>3, <4>1
      <4>3. Base58Encode(v) = <<>> /\ Base58Encode(Value(e)) = <<>>
        BY <3>4, <3>10, <4>1, EncodeZero
      <4>4. s = Zeros(z)  BY <3>5, <3>8, <4>3
      <4>5. e = Zeros(z + 1)  BY <3>1, <3>8, <4>2, <4>4
      <4>6. Zeros(z + 1) \o <<>> = Zeros(z + 1)
        BY <3>7, ZerosType
      <4> QED  BY <3>7, <4>3, <4>5, <4>6
    <3> QED  BY <3>9, <3>10
  <2> QED  BY <2>1, <2>2
<1>2. \A k \in Nat : k \in S
  <2> HIDE DEF S
  <2> QED  BY <1>1, SetInduction
<1>3. Len(b) \in Nat /\ Len(b) <= maxBytes  BY DEF Valid
<1>4. Coded(b)  BY <1>2, <1>3
<1> QED  BY <1>3, <1>4, LengthsAssumption

\* Base58Decode answers a valid code with its value and refuses the others.
LEMMA DecodeCases ==
  ASSUME NEW b \in Seq(Bytes)
  PROVE  /\ Valid(b) => Base58Decode(b) = [ok |-> TRUE, num |-> Value(b)]
         /\ ~ Valid(b) => Base58Decode(b) = [ok |-> FALSE, num |-> 0]
<1>1. Len(b) \in Nat  OBVIOUS
<1> QED  BY <1>1, LengthsAssumption
         DEF Valid, Value, Base58Decode, Decoded, Refused

\* Base58Decode undoes Base58Encode: the code of every number below the largest
\* that maxBytes characters can write is decoded to that number.
THEOREM DecodeUndoesEncode ==
  \A n \in Nat : n < pow58[maxBytes] => Base58Decode(Base58Encode(n)) = Decoded(n)
<1> SUFFICES ASSUME NEW n \in Nat, n < pow58[maxBytes]
             PROVE  Base58Decode(Base58Encode(n)) = Decoded(n)
  OBVIOUS
<1> DEFINE b == Base58Encode(n)
<1>1. b \in Seq(Bytes)  BY EncodeType
<1>2. Valid(b) /\ Value(b) = n  BY ValueOfCode
<1> HIDE DEF b
<1>3. Base58Decode(b) = Decoded(n)  BY <1>1, <1>2, DecodeCases DEF Decoded
<1> QED  BY <1>3 DEF b

\* Base58Encode undoes Base58Decode but for leading zeros: a string that is not
\* refused is the code of the number it is decoded to, behind characters of value
\* 0.  So two strings are decoded to the same number only if they differ in those.
THEOREM EncodeUndoesDecode ==
  \A b \in Seq(Bytes) : Base58Decode(b).ok =>
    \E z \in 0 .. maxBytes : b = Zeros(z) \o Base58Encode(Base58Decode(b).num)
<1> SUFFICES ASSUME NEW b \in Seq(Bytes), Base58Decode(b).ok
             PROVE  \E z \in 0 .. maxBytes :
                      b = Zeros(z) \o Base58Encode(Base58Decode(b).num)
  OBVIOUS
<1>1. Valid(b)  BY DecodeCases
<1>2. Base58Decode(b).num = Value(b)  BY <1>1, DecodeCases
<1> QED  BY <1>1, <1>2, CodeOfValue

\* The conversions to uint64 in Base58Decode are safe: whatever a visitor types,
\* the number stays below the power of the base that init computes for maxBytes
\* (58^8 for the program, far below 2^64).
THEOREM DecodeBounded ==
  \A b \in Seq(Bytes) : Base58Decode(b).num \in 0 .. (pow58[maxBytes] - 1)
<1> SUFFICES ASSUME NEW b \in Seq(Bytes)
             PROVE  Base58Decode(b).num \in 0 .. (pow58[maxBytes] - 1)
  OBVIOUS
<1>1. maxBytes \in 0 .. maxBytes /\ maxBytes \in Nat  BY LengthsAssumption
<1>2. pow58[maxBytes] \in Nat /\ pow58[maxBytes] > 0  BY <1>1, PowPositive
<1>3. CASE ~ Valid(b)
  <2>1. Base58Decode(b).num = 0  BY <1>3, DecodeCases
  <2> QED  BY <1>2, <2>1
<1>4. CASE Valid(b)
  <2> DEFINE v == Value(b)
             t == Base58Encode(v)
  <2>1. Base58Decode(b).num = v /\ v \in Nat  BY <1>4, DecodeCases, ValueType
  <2>2. PICK z \in 0 .. maxBytes : b = Zeros(z) \o t  BY <1>4, CodeOfValue
  <2>3. t \in Seq(Bytes) /\ Len(t) = Len(digits[v]) /\ Len(digits[v]) \in Nat
    BY <2>1, EncodeType
  <2>4. Len(b) = z + Len(digits[v]) /\ z \in Nat
    <3>1. z \in Nat  BY <1>1
    <3> DEFINE y == Zeros(z)
    <3>2. y \in Seq(Bytes) /\ Len(y) = z  BY <3>1, ZerosType
    <3> HIDE DEF y, t
    <3>3. Len(y \o t) = Len(y) + Len(t)
      <4>1. ASSUME NEW p \in Seq(Bytes), NEW q \in Seq(Bytes)
            PROVE  Len(p \o q) = Len(p) + Len(q)
        OBVIOUS
      <4> QED  BY <2>3, <3>2, <4>1, Zenon
    <3> QED  BY <2>2, <2>3, <3>1, <3>2, <3>3 DEF y
  <2>5. Len(digits[v]) <= maxBytes  BY <1>1, <1>4, <2>3, <2>4 DEF Valid
  <2> HIDE DEF v, t
  <2>6. v < pow58[maxBytes]  BY <1>1, <2>1, <2>5, CodeLength
  <2> QED  BY <1>2, <2>1, <2>6
<1> QED  BY <1>3, <1>4

-----------------------------------------------------------------------------
(* The state machine *)

\* The inductive invariant: an answer that is out is the one Redirect gives for
\* the code asked for, with the numbers given so far.
CodesInv ==
  /\ next \in StartNum .. MaxNum
  /\ asked \in Codes
  /\ \/ answer = NoAnswer
     \/ answer = [status |-> Status(asked), num |-> Base58Decode(asked).num]

\* What a visitor may type is a sequence of bytes.
LEMMA CodesAreSequences == \A b \in Codes : b \in Seq(Bytes)
<1> SUFFICES ASSUME NEW b \in Codes
             PROVE  b \in Seq(Bytes)
  OBVIOUS
<1>1. PICK n \in 0 .. (maxBytes + 1) : b \in [1 .. n -> Bytes]
  BY DEF Codes
<1>2. n \in Nat  BY LengthsAssumption
<1> QED  BY <1>1, <1>2

\* No code has been asked for before the first visit.
LEMMA EmptyIsCode == <<>> \in Codes
<1>1. <<>> \in [1 .. 0 -> Bytes]  OBVIOUS
<1>2. 0 \in 0 .. (maxBytes + 1)  BY LengthsAssumption
<1> QED  BY <1>1, <1>2 DEF Codes

\* Every reachable state satisfies the inductive invariant: the answer that is
\* out is Redirect's, and no number was given since.
THEOREM CodesInvariant == CodeSpec => []CodesInv
<1>1. CodeInit => CodesInv
  BY NumsAssumption, EmptyIsCode DEF CodeInit, CodesInv
<1>2. CodesInv /\ [CodeNext]_codeVars => CodesInv'
  <2> SUFFICES ASSUME CodesInv, [CodeNext]_codeVars
               PROVE  CodesInv'
    OBVIOUS
  <2>1. CASE Create
    <3>1. next' \in StartNum .. MaxNum  BY <2>1, NumsAssumption DEF Create, CodesInv
    <3>2. asked' \in Codes /\ answer' = NoAnswer  BY <2>1, EmptyIsCode DEF Create
    <3> QED  BY <3>1, <3>2 DEF CodesInv, NoAnswer
  <2>2. CASE Leave
    <3>1. next' \in StartNum .. MaxNum  BY <2>2 DEF Leave, CodesInv
    <3>2. asked' \in Codes /\ answer' = NoAnswer  BY <2>2, EmptyIsCode DEF Leave
    <3> QED  BY <3>1, <3>2 DEF CodesInv, NoAnswer
  <2>3. ASSUME NEW b \in Codes, Redirect(b)
        PROVE  CodesInv'
    <3>1. next' = next /\ asked' = b  BY <2>3 DEF Redirect
    <3>2. Issued' = Issued  BY <3>1 DEF Issued
    <3>3. Status(asked)' = Status(b)
      BY <3>1, <3>2 DEF Status, Base58Decode, Sums, Foreign, Decoded, Refused
    <3>4. (Base58Decode(asked).num)' = Base58Decode(b).num
      BY <3>1 DEF Base58Decode, Sums, Foreign, Decoded, Refused
    <3>5. answer' = [status |-> Status(asked)', num |-> (Base58Decode(asked).num)']
      BY <2>3, <3>3, <3>4 DEF Redirect
    <3> QED  BY <2>3, <3>1, <3>5 DEF CodesInv
  <2>4. CASE UNCHANGED codeVars
    BY <2>4 DEF CodesInv, codeVars, Status, Issued, Base58Decode, Sums, Foreign, Decoded, Refused
  <2> QED  BY <2>1, <2>2, <2>3, <2>4 DEF CodeNext
<1> QED  BY <1>1, <1>2, PTL DEF CodeSpec

\* Type correctness, with what makes it more: a visitor is redirected only to a
\* link whose number was given.
THEOREM CodesTyped == CodeSpec => []CodeTypeOK
<1>1. CodesInv => CodeTypeOK
  <2> SUFFICES ASSUME CodesInv
               PROVE  CodeTypeOK
    OBVIOUS
  <2>1. CASE answer = NoAnswer
    BY <2>1 DEF CodesInv, CodeTypeOK, NoAnswer
  <2>2. CASE answer = [status |-> Status(asked), num |-> Base58Decode(asked).num]
    <3>1. asked \in Seq(Bytes)  BY CodesAreSequences DEF CodesInv
    <3>2. Base58Decode(asked).num \in Nat
      BY <3>1, DecodeCases, ValueType
    <3>3. Status(asked) \in {"found", "notFound", "badRequest"}
      BY DEF Status
    <3>4. Status(asked) = "found" => Base58Decode(asked).num \in Issued
      BY DEF Status
    <3> QED  BY <2>2, <3>2, <3>3, <3>4 DEF CodesInv, CodeTypeOK
  <2> QED  BY <2>1, <2>2 DEF CodesInv
<1> QED  BY <1>1, CodesInvariant, PTL

\* A visitor reaches a link only by the code Create gave for it, but for leading
\* zeros, whatever the alphabet and the lengths.
THEOREM OnlyItsCode == CodeSpec => []FoundByItsCode
<1>1. CodesInv => FoundByItsCode
  <2> SUFFICES ASSUME CodesInv, answer.status = "found"
               PROVE  \E z \in 0 .. maxBytes :
                        asked = [i \in 1 .. z |-> chars[1]] \o Base58Encode(answer.num)
    BY DEF FoundByItsCode
  <2>1. answer = [status |-> Status(asked), num |-> Base58Decode(asked).num]
    BY DEF CodesInv, NoAnswer
  <2>2. asked \in Seq(Bytes)  BY CodesAreSequences DEF CodesInv
  <2>3. Status(asked) = "found"  BY <2>1
  <2>4. Base58Decode(asked).ok  BY <2>3 DEF Status
  <2>5. answer.num = Base58Decode(asked).num  BY <2>1
  <2> QED  BY <2>2, <2>4, <2>5, EncodeUndoesDecode DEF Zeros
<1> QED  BY <1>1, CodesInvariant, PTL

\* The code Create gave for a number leads back to that number, when the numbers
\* given have codes of the lengths Redirect accepts (NumbersHaveCodes).
THEOREM EveryCodeResolves == CodeSpec => []CodesResolve
<1>1. CodesInv => CodesResolve
  <2> SUFFICES ASSUME CodesInv, NEW n \in Issued,
                      answer # NoAnswer, asked = Base58Encode(n)
               PROVE  answer = [status |-> "found", num |-> n]
    BY DEF CodesResolve
  <2>1. answer = [status |-> Status(asked), num |-> Base58Decode(asked).num]
    BY DEF CodesInv
  <2>2. n \in Nat /\ n >= StartNum /\ n < MaxNum
    BY NumsAssumption DEF Issued, CodesInv
  <2>3. /\ MinLen - 1 \in 0 .. maxBytes /\ maxBytes \in 0 .. maxBytes
        /\ MinLen \in Nat /\ maxBytes \in Nat
    BY LengthsAssumption
  <2>4. /\ pow58[maxBytes] \in Nat /\ pow58[MinLen - 1] \in Nat
        /\ ~ (n < pow58[MinLen - 1]) /\ n < pow58[maxBytes]
    BY <2>2, <2>3, Pow58Table, NumbersHaveCodes, NumsAssumption
  <2>5. Base58Decode(asked) = [ok |-> TRUE, num |-> n]
    BY <2>2, <2>4, DecodeUndoesEncode DEF Decoded
  <2>6. Len(asked) \in MinLen .. maxBytes
    <3>1. Len(asked) = Len(digits[n]) /\ Len(digits[n]) \in Nat
      BY <2>2, EncodeType
    <3>2. ~ (Len(digits[n]) <= MinLen - 1)  BY <2>2, <2>3, <2>4, CodeLength
    <3>3. Len(digits[n]) <= maxBytes  BY <2>2, <2>3, <2>4, CodeLength
    <3> QED  BY <2>3, <3>1, <3>2, <3>3
  <2>7. Status(asked) = "found"  BY <2>5, <2>6 DEF Status
  <2> QED  BY <2>1, <2>5, <2>7
<1> QED  BY <1>1, CodesInvariant, PTL

=============================================================================
