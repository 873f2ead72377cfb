------------------------------ MODULE PartsProofs ------------------------------
(***************************************************************************)
(* What the parts of the schedule verifier promise.  Of the views: the     *)
(* region a chain of views is reduced to is exact, and the Chinese         *)
(* remainder theorem decides rightly whether two regions meet, so that no  *)
(* alias is missed; for any extent, strides and number of views.  Of the   *)
(* copies between devices: a buffer that counts as initialized has been    *)
(* written on every device, if a semaphore serves one remote copy; for any *)
(* devices, buffers and programs.  Of a pipelined loop: its iterations     *)
(* keep to banks of their own, and find engines and slots in what was      *)
(* counted; for any body, trip count, interval and number of captures.     *)
(***************************************************************************)
EXTENDS MCParts, FiniteSetTheorems, WellFoundedInduction, TLAPS

-----------------------------------------------------------------------------
(* Divisors.                                                                *)

Positive == Nat \ {0}

LEMMA LeastNat ==
  ASSUME NEW T, T \subseteq Nat, T # {}
  PROVE  \E x \in T : \A y \in T : x <= y
<1>1. IsWellFoundedOn({ss \in Nat \X Nat : ss[1] < ss[2]}, Nat)
  BY NatLessThanWellFounded DEF OpToRel
<1>2. \E x \in T : \A y \in T : <<y, x>> \notin {ss \in Nat \X Nat : ss[1] < ss[2]}
  <2> DEFINE Less == {ss \in Nat \X Nat : ss[1] < ss[2]}
  <2>1. IsWellFoundedOn(Less, Nat)
    BY <1>1 DEF Less
  <2> HIDE DEF Less
  <2>2. \E x \in T : \A y \in T : ~(<<y, x>> \in Less)
    BY <2>1, WFMin
  <2> QED BY <2>2 DEF Less
<1>3. PICK x \in T : \A y \in T : <<y, x>> \notin {ss \in Nat \X Nat : ss[1] < ss[2]}
  BY <1>2
<1>4. ASSUME NEW y \in T PROVE x <= y
  <2>1. <<y, x>> \in Nat \X Nat /\ <<y, x>>[1] = y /\ <<y, x>>[2] = x
    OBVIOUS
  <2>2. ~(y < x)
    BY <1>3, <2>1
  <2> QED BY <2>2
<1> QED BY <1>4

LEMMA Division ==
  ASSUME NEW d \in Positive, NEW n \in Int
  PROVE  n \div d \in Int /\ n % d \in 0..(d - 1) /\ n = d * (n \div d) + (n % d)
BY DEF Positive

LEMMA Remainder ==
  ASSUME NEW d \in Positive, NEW q \in Int, NEW x \in 0..(d - 1)
  PROVE  (d * q + x) \div d = q /\ (d * q + x) % d = x
BY DEF Positive

LEMMA QuotientIs ==
  ASSUME NEW d \in Positive, NEW q \in Int
  PROVE  (d * q) \div d = q
<1>1. d * q + 0 = d * q /\ 0 \in 0..(d - 1)
  BY DEF Positive
<1> QED BY <1>1, Remainder

LEMMA DividesIs ==
  ASSUME NEW d \in Positive, NEW n \in Int
  PROVE  Divides(d, n) <=> \E q \in Int : n = d * q
<1>1. ASSUME Divides(d, n) PROVE \E q \in Int : n = d * q
  <2>1. n = d * (n \div d) + 0 /\ n \div d \in Int
    BY <1>1, Division DEF Divides
  <2>2. \A z \in Int : d * z + 0 = d * z
    BY DEF Positive
  <2> QED BY <2>1, <2>2
<1>2. ASSUME NEW q \in Int, n = d * q PROVE Divides(d, n)
  <2>1. d * q + 0 = d * q /\ 0 \in 0..(d - 1)
    BY DEF Positive
  <2>2. (d * q + 0) % d = 0
    BY <2>1, Remainder
  <2> QED BY <1>2, <2>1, <2>2 DEF Divides
<1> QED BY <1>1, <1>2

\* Bezout: the least positive combination of two numbers divides both.
LEMMA Bezout ==
  ASSUME NEW a \in Positive, NEW b \in Positive
  PROVE  \E d \in Positive, x \in Int, y \in Int :
           d = a * x + b * y /\ Divides(d, a) /\ Divides(d, b)
<1> DEFINE T == {n \in Positive : \E x, y \in Int : n = a * x + b * y}
<1>1. a \in T /\ T \subseteq Nat
  <2>1. a = a * 1 + b * 0
    BY DEF Positive
  <2> QED BY <2>1 DEF Positive
<1>2. PICK d \in T : \A n \in T : d <= n
  <2> HIDE DEF T
  <2> QED BY <1>1, LeastNat
<1> PICK x, y \in Int : d = a * x + b * y
  BY DEF T
<1>3. d \in Positive
  BY DEF T
<1>4. ASSUME NEW c \in Positive, NEW u \in Int, NEW v \in Int, c = a * u + b * v
      PROVE  Divides(d, c)
  <2> PICK q, r : q = c \div d /\ r = c % d
    OBVIOUS
  <2>0. c \in Int
    BY DEF Positive
  <2>1. q \in Int /\ r \in 0..(d - 1) /\ c = d * q + r
    BY <1>3, <2>0, Division
  <2>2. r = a * (u - x * q) + b * (v - y * q) /\ u - x * q \in Int /\ v - y * q \in Int
    <3>1. a \in Int /\ b \in Int /\ x \in Int /\ y \in Int /\ u \in Int /\ v \in Int /\ q \in Int /\ r \in Int
      BY <2>1, <1>3 DEF Positive
    <3>2. a * u + b * v = (a * x + b * y) * q + r
      BY <1>4, <2>1
    <3>3. (a * x + b * y) * q = a * (x * q) + b * (y * q)
      BY <3>1
    <3>4. a * (u - x * q) = a * u - a * (x * q) /\ b * (v - y * q) = b * v - b * (y * q)
      BY <3>1
    <3>5. /\ a * u \in Int /\ b * v \in Int /\ a * (x * q) \in Int /\ b * (y * q) \in Int
          /\ u - x * q \in Int /\ v - y * q \in Int
      BY <3>1
    <3> QED BY <3>1, <3>2, <3>3, <3>4, <3>5
  <2>3. ~(r \in Positive)
    <3>1. ASSUME r \in Positive PROVE FALSE
      <4>1. r \in T
        BY <2>2, <3>1
      <4>2. d <= r
        BY <1>2, <4>1
      <4> QED BY <1>3, <2>1, <4>2 DEF Positive
    <3> QED BY <3>1
  <2>4. r = 0
    BY <1>3, <2>1, <2>3 DEF Positive
  <2> QED BY <2>4 DEF Divides
<1>5. Divides(d, a)
  <2>1. a = a * 1 + b * 0
    BY DEF Positive
  <2> QED BY <1>4, <2>1
<1>6. Divides(d, b)
  <2>1. b = a * 0 + b * 1
    BY DEF Positive
  <2> QED BY <1>4, <2>1
<1> QED BY <1>3, <1>5, <1>6

LEMMA Coprime ==
  ASSUME NEW d \in Positive, NEW p \in Positive, NEW q \in Positive, NEW x \in Int, NEW y \in Int,
         d = (d * p) * x + (d * q) * y
  PROVE  1 = p * x + q * y
<1>1. d \in Int /\ p \in Int /\ q \in Int /\ x \in Int /\ y \in Int /\ d >= 1
  BY DEF Positive
<1>2. d = d * (p * x + q * y)
  <2>1. (d * p) * x = d * (p * x) /\ (d * q) * y = d * (q * y)
    BY ONLY <1>1
  <2>2. \A m, n \in Int : d * m + d * n = d * (m + n)
    BY ONLY <1>1
  <2>3. p * x \in Int /\ q * y \in Int
    BY ONLY <1>1
  <2> QED BY <2>1, <2>2, <2>3
<1>3. \A z \in Int : d = d * z => z = 1
  BY ONLY <1>1
<1>4. p * x + q * y \in Int
  BY ONLY <1>1
<1> QED BY ONLY <1>2, <1>3, <1>4

\* math.gcd, and the form in which Bezout gives it.
LEMMA GcdIs ==
  ASSUME NEW a \in Positive, NEW b \in Positive
  PROVE  /\ Gcd(a, b) \in Positive
         /\ \E p, q \in Positive, x, y \in Int :
              a = Gcd(a, b) * p /\ b = Gcd(a, b) * q /\ 1 = p * x + q * y
<1> PICK d \in Positive, x \in Int, y \in Int :
      d = a * x + b * y /\ Divides(d, a) /\ Divides(d, b)
  BY Bezout
<1> DEFINE Greatest(e) == /\ Divides(e, a) /\ Divides(e, b)
                          /\ \A f \in 1..a : Divides(f, a) /\ Divides(f, b) => f <= e
<1>1. ASSUME NEW e \in Positive, NEW n \in Positive, Divides(e, n)
      PROVE  e <= n /\ \E k \in Positive : n = e * k
  <2>0. n \in Int
    BY DEF Positive
  <2> PICK k \in Int : n = e * k
    BY <1>1, <2>0, DividesIs
  <2>1. k >= 1
    <3>1. \A z \in Int : z <= 0 => e * z <= 0
      BY DEF Positive
    <3> QED BY <3>1 DEF Positive
  <2>2. e * k >= e
    <3>1. e * k = e + e * (k - 1) /\ e * (k - 1) >= 0
      BY <2>1 DEF Positive
    <3> QED BY <3>1 DEF Positive
  <2> QED BY <2>1, <2>2 DEF Positive
<1>2. ASSUME NEW e \in Positive, Divides(e, a), Divides(e, b) PROVE e <= d
  <2>0. a \in Int /\ b \in Int /\ d \in Int
    BY DEF Positive
  <2> PICK p \in Int : a = e * p
    BY <1>2, <2>0, DividesIs
  <2> PICK q \in Int : b = e * q
    BY <1>2, <2>0, DividesIs
  <2>1. d = e * (p * x + q * y)
    <3>1. d = (e * p) * x + (e * q) * y
      OBVIOUS
    <3>2. e \in Int
      BY DEF Positive
    <3>3. (e * p) * x = e * (p * x) /\ (e * q) * y = e * (q * y) /\ p * x \in Int /\ q * y \in Int
      BY <3>2
    <3>4. \A m, n \in Int : e * m + e * n = e * (m + n)
      BY <3>2
    <3> QED BY <3>1, <3>3, <3>4
  <2>2. p * x + q * y \in Int
    OBVIOUS
  <2>3. Divides(e, d)
    BY <2>0, <2>1, <2>2, DividesIs
  <2> QED BY <1>1, <2>3
<1>3. d \in 1..a /\ Greatest(d)
  <2>1. d <= a
    BY <1>1
  <2>2. \A f \in 1..a : f \in Positive
    BY DEF Positive
  <2> QED BY <1>2, <2>1, <2>2 DEF Positive
<1>4. Gcd(a, b) = CHOOSE e \in 1..a : Greatest(e)
  BY DEF Gcd
<1>5. Gcd(a, b) \in 1..a /\ Greatest(Gcd(a, b))
  <2> HIDE DEF Greatest
  <2> QED BY <1>3, <1>4
<1>6. Gcd(a, b) = d
  <2> PICK g : g = Gcd(a, b)
    OBVIOUS
  <2>1. g \in 1..a /\ g \in Positive /\ Greatest(g)
    BY <1>5 DEF Positive
  <2>2. g <= d
    BY <1>2, <2>1
  <2>3. d <= g
    BY <1>3, <2>1
  <2> QED BY <2>1, <2>2, <2>3 DEF Positive
<1>7. \E p \in Positive : a = d * p
  BY <1>1
<1>8. \E q \in Positive : b = d * q
  BY <1>1
<1>9. d = a * x + b * y
  OBVIOUS
<1>10. ASSUME NEW p \in Positive, NEW q \in Positive, a = d * p, b = d * q PROVE 1 = p * x + q * y
  <2>1. d = (d * p) * x + (d * q) * y
    BY <1>9, <1>10
  <2> QED BY <2>1, Coprime
<1>11. \E p, q \in Positive : a = d * p /\ b = d * q /\ 1 = p * x + q * y
  BY <1>7, <1>8, <1>10
<1> QED BY <1>6, <1>11

\* pow(x, -1, m) exists if x and m are coprime.
LEMMA InverseIs ==
  ASSUME NEW p \in Positive, NEW q \in Positive, q # 1,
         NEW x \in Int, NEW y \in Int, 1 = p * x + q * y
  PROVE  InverseModulo(p, q) \in 0..(q - 1) /\ (p * InverseModulo(p, q)) % q = 1
<1> PICK i, k : i = x % q /\ k = x \div q
  OBVIOUS
<1>1. i \in 0..(q - 1) /\ k \in Int /\ x = q * k + i
  BY Division
<1>2. p * i = q * (-(y + p * k)) + 1
  <2>1. p \in Int /\ q \in Int /\ i \in Int
    BY <1>1 DEF Positive
  <2>2. p * x = p * (q * k) + p * i
    BY <1>1, <2>1
  <2>3. p * (q * k) = q * (p * k)
    BY <1>1, <2>1
  <2>4. q * (-(y + p * k)) = -(q * y) - q * (p * k)
    BY <1>1, <2>1
  <2>5. p * i \in Int /\ q * y \in Int /\ q * (p * k) \in Int
    BY <1>1, <2>1
  <2> QED BY <2>2, <2>3, <2>4, <2>5
<1>3. (p * i) % q = 1
  <2> PICK z : z = -(y + p * k)
    OBVIOUS
  <2>1. z \in Int /\ 1 \in 0..(q - 1)
    BY <1>1 DEF Positive
  <2>2. (q * z + 1) % q = 1
    BY <2>1, Remainder
  <2> QED BY <1>2, <2>2
<1> QED BY <1>1, <1>3 DEF InverseModulo

-----------------------------------------------------------------------------
(* Two progressions, o + g * p * i and o + g * D + g * q * j, where p and q  *)
(* are coprime.                                                             *)

\* The index that RegionsOverlap computes.
LEMMA IndexIs ==
  ASSUME NEW p \in Positive, NEW q \in Positive, q # 1,
         NEW x \in Int, NEW y \in Int, 1 = p * x + q * y, NEW D \in Int,
         NEW i, i = (D * InverseModulo(p, q)) % q
  PROVE  i \in 0..(q - 1) /\ \E t \in Int : p * i = D + q * t
<1> PICK v : v = InverseModulo(p, q)
  OBVIOUS
<1>1. v \in 0..(q - 1) /\ (p * v) % q = 1
  BY InverseIs
<1>2. v \in Int /\ p \in Int /\ q \in Int /\ D \in Int
  BY <1>1 DEF Positive
<1> PICK k : k = (D * v) \div q
  OBVIOUS
<1>3. k \in Int /\ D * v = q * k + i /\ i \in 0..(q - 1)
  <2>1. D * v \in Int
    BY ONLY <1>2
  <2>2. i = (D * v) % q /\ q \in Positive
    OBVIOUS
  <2> QED BY <2>1, <2>2, Division
<1> PICK w : w = (p * v) \div q
  OBVIOUS
<1>4. w \in Int /\ p * v = q * w + 1
  <2>1. p * v \in Int
    BY ONLY <1>2
  <2> QED BY <1>1, <2>1, Division
<1>5. i \in Int
  BY <1>3
<1> PICK t : t = w * D - p * k
  OBVIOUS
<1>6. t = w * D - p * k
  OBVIOUS
<1>7. t \in Int
  BY ONLY <1>2, <1>3, <1>4, <1>6
<1>8. p * i = D + q * t
  <2>1. p * (D * v) = p * (q * k) + p * i
    BY ONLY <1>2, <1>3, <1>5
  <2>2. p * (D * v) = D * (p * v)
    BY ONLY <1>2
  <2>3. D * (p * v) = D * (q * w) + D
    BY ONLY <1>2, <1>4
  <2>4. q * t = D * (q * w) - p * (q * k)
    BY ONLY <1>2, <1>3, <1>4, <1>6
  <2>5. p * (q * k) \in Int /\ p * i \in Int /\ D * (q * w) \in Int /\ q * t \in Int
    BY ONLY <1>2, <1>3, <1>4, <1>5, <1>7
  <2>6. \A A, B, C, E, Z \in Int : A + B = C + Z /\ E = C - A => B = Z + E
    OBVIOUS
  <2>7. p * (q * k) + p * i = D * (q * w) + D
    BY ONLY <2>1, <2>2, <2>3
  <2> QED BY ONLY <1>2, <2>4, <2>5, <2>6, <2>7
<1> QED BY ONLY <1>3, <1>7, <1>8

\* What a multiple of p and of q is a multiple of.
LEMMA MultipleOfBoth ==
  ASSUME NEW p \in Positive, NEW q \in Positive,
         NEW x \in Int, NEW y \in Int, 1 = p * x + q * y,
         NEW e \in Int, NEW f \in Int, p * e = q * f
  PROVE  \E m \in Int : e = q * m
<1>1. p \in Int /\ q \in Int /\ x \in Int /\ y \in Int /\ e \in Int /\ f \in Int
  BY DEF Positive
<1>2. e = (p * x + q * y) * e
  BY <1>1
<1>3. (p * x + q * y) * e = (p * e) * x + q * (y * e)
  BY ONLY <1>1
<1>4. (q * f) * x + q * (y * e) = q * (f * x + y * e)
  BY ONLY <1>1
<1>5. f * x + y * e \in Int
  BY ONLY <1>1
<1>6. p * e = q * f
  OBVIOUS
<1>7. e = q * (f * x + y * e)
  BY ONLY <1>2, <1>3, <1>4, <1>6
<1> QED BY ONLY <1>5, <1>7

\* An index and its counterpart give a common element, and every other common
\* element is a whole number of periods away.
Common(g, p, q, o, D, s, t) ==
  /\ o + (g * p) * s = (o + g * D) + (g * q) * t
  /\ \A n, i, j \in Int :
       n = o + (g * p) * i /\ n = (o + g * D) + (g * q) * j =>
         \E m \in Int : n = (o + (g * p) * s) + ((g * p) * q) * m

LEMMA CommonElements ==
  ASSUME NEW g \in Positive, NEW p \in Positive, NEW q \in Positive,
         NEW x \in Int, NEW y \in Int, 1 = p * x + q * y,
         NEW o \in Int, NEW D \in Int, NEW s \in Int, NEW t \in Int, p * s = D + q * t
  PROVE  Common(g, p, q, o, D, s, t)
<1>1. /\ g \in Int /\ p \in Int /\ q \in Int /\ g >= 1
      /\ o \in Int /\ D \in Int /\ s \in Int /\ t \in Int
      /\ p * s = D + q * t
  BY DEF Positive
<1>2. \A m, n \in Int : g * (m + n) = g * m + g * n /\ (g * m = g * n => m = n)
  BY ONLY <1>1
<1>3. \A m \in Int : (g * p) * m = g * (p * m) /\ (g * q) * m = g * (q * m) /\ p * m \in Int /\ q * m \in Int
  BY ONLY <1>1
<1>4. g * (p * s) = g * D + g * (q * t)
  BY ONLY <1>1, <1>2, <1>3
<1>5. o + (g * p) * s = (o + g * D) + (g * q) * t
  <2>1. g * D \in Int /\ g * (q * t) \in Int
    BY ONLY <1>1, <1>3
  <2> QED BY ONLY <1>1, <1>3, <1>4, <2>1
<1>6. ASSUME NEW n \in Int, NEW i \in Int, NEW j \in Int,
             n = o + (g * p) * i, n = (o + g * D) + (g * q) * j
      PROVE  \E m \in Int : n = (o + (g * p) * s) + ((g * p) * q) * m
  <2> PICK e, f : e = i - s /\ f = j - t
    OBVIOUS
  <2>1. e = i - s /\ f = j - t /\ i \in Int /\ j \in Int /\ e \in Int /\ f \in Int
    OBVIOUS
  <2>2. p * i = D + q * j
    <3>1. g * (p * i) = g * D + g * (q * j)
      <4>1. o + g * (p * i) = (o + g * D) + g * (q * j)
        BY ONLY <1>3, <1>6, <2>1
      <4>2. g * D \in Int /\ g * (q * j) \in Int /\ g * (p * i) \in Int
        BY ONLY <1>1, <1>3, <2>1
      <4> QED BY ONLY <1>1, <4>1, <4>2
    <3>2. g * (p * i) = g * (D + q * j)
      BY ONLY <1>1, <1>2, <1>3, <2>1, <3>1
    <3>3. D + q * j \in Int /\ p * i \in Int
      BY ONLY <1>1, <1>3, <2>1
    <3> QED BY ONLY <1>2, <3>2, <3>3
  <2>3. p * e = q * f
    <3>1. p * e = p * i - p * s /\ q * f = q * j - q * t
      BY ONLY <1>1, <2>1
    <3>2. p * i \in Int /\ p * s \in Int /\ q * j \in Int /\ q * t \in Int
      BY ONLY <1>1, <1>3, <2>1
    <3> QED BY ONLY <1>1, <2>2, <3>1, <3>2
  <2>4. PICK m \in Int : e = q * m
    BY <2>1, <2>3, MultipleOfBoth
  <2>5. (g * p) * i = (g * p) * s + ((g * p) * q) * m
    <3>1. (g * p) * i = (g * p) * s + (g * p) * e
      BY ONLY <1>1, <2>1
    <3>2. (g * p) * (q * m) = ((g * p) * q) * m
      BY ONLY <1>1, <2>4
    <3> QED BY ONLY <2>4, <3>1, <3>2
  <2>6. n = (o + (g * p) * s) + ((g * p) * q) * m
    <3>1. (g * p) * s \in Int /\ ((g * p) * q) * m \in Int
      BY ONLY <1>1, <2>4
    <3> QED BY ONLY <1>1, <1>6, <2>5, <3>1
  <2> QED BY ONLY <2>4, <2>6
<1> QED BY <1>5, <1>6 DEF Common

-----------------------------------------------------------------------------
(* The overlap test.                                                        *)

Proper(r) == r.offset \in Nat /\ r.size \in Positive /\ r.stride \in Positive

\* The elements a region names.
Names(r) == {r.offset + (k - 1) * r.stride : k \in 1..r.size}

LEMMA NamesAre ==
  ASSUME NEW r, Proper(r), NEW n \in Int
  PROVE  n \in Names(r) <=>
           r.offset <= n /\ n <= Last(r) /\ \E i \in Int : n = r.offset + r.stride * i
<1> PICK o, z, a : o = r.offset /\ z = r.size /\ a = r.stride
  OBVIOUS
<1>1. o \in Nat /\ z \in Int /\ z >= 1 /\ a \in Int /\ a >= 1
  BY DEF Proper, Positive
<1>2. Last(r) = o + (z - 1) * a
  BY DEF Last
<1>3. \A m \in Int : m * a = a * m /\ a * m \in Int
  BY ONLY <1>1
<1>4. \A m, k \in Int : m <= k <=> a * m <= a * k
  <2>1. \A m, k \in Int : m <= k => a * m <= a * k
    BY ONLY <1>1
  <2>2. \A m, k \in Int : m < k => a * m < a * k
    BY ONLY <1>1
  <2> QED BY ONLY <1>3, <2>1, <2>2
<1>5. ASSUME NEW k \in 1..z, n = o + (k - 1) * a
      PROVE  o <= n /\ n <= Last(r) /\ \E i \in Int : n = o + a * i
  <2>1. k - 1 \in Int /\ 0 <= k - 1 /\ k - 1 <= z - 1 /\ z - 1 \in Int /\ 0 \in Int /\ a * 0 = 0
    BY <1>1
  <2>2. 0 <= a * (k - 1) /\ a * (k - 1) <= a * (z - 1)
    BY ONLY <1>4, <2>1
  <2>3. (k - 1) * a = a * (k - 1) /\ (z - 1) * a = a * (z - 1) /\ a * (k - 1) \in Int /\ a * (z - 1) \in Int
    BY ONLY <1>3, <2>1
  <2>4. o <= n /\ n <= Last(r) /\ n = o + a * (k - 1)
    BY ONLY <1>1, <1>2, <1>5, <2>2, <2>3
  <2> QED BY <2>1, <2>4
<1>6. ASSUME o <= n, n <= Last(r), NEW i \in Int, n = o + a * i
      PROVE  \E k \in 1..z : n = o + (k - 1) * a
  <2>1. z - 1 \in Int /\ 0 \in Int /\ a * 0 = 0 /\ a * i \in Int
    BY <1>1, <1>3
  <2>2. (z - 1) * a = a * (z - 1) /\ a * (z - 1) \in Int
    BY ONLY <1>3, <2>1
  <2>3. 0 <= a * i /\ a * i <= a * (z - 1)
    BY ONLY <1>1, <1>2, <1>6, <2>1, <2>2
  <2>4. 0 <= i /\ i <= z - 1
    BY ONLY <1>4, <1>6, <2>1, <2>3
  <2>5. i + 1 \in 1..z /\ (i + 1) - 1 = i
    BY ONLY <1>1, <1>6, <2>4
  <2>6. n = o + ((i + 1) - 1) * a
    BY ONLY <1>3, <1>6, <2>5
  <2> QED BY <2>5, <2>6
<1>7. n \in Names(r) <=> \E k \in 1..z : n = o + (k - 1) * a
  BY DEF Names
<1> QED BY <1>5, <1>6, <1>7

\* The first of the elements first, first + period, ... that is not below low.
Start(first, low, period) ==
  IF first < low THEN first + Ceiling(low - first, period) * period ELSE first

LEMMA StartIs ==
  ASSUME NEW first \in Int, NEW low \in Int, NEW period \in Positive,
         NEW start, start = Start(first, low, period)
  PROVE  /\ start \in Int /\ start >= low
         /\ \E c \in Nat : start = first + period * c /\ (c = 0 \/ start < low + period)
<1>1. CASE first < low
  <2> PICK m : m = low - first
    OBVIOUS
  <2>1. m \in Nat /\ m >= 1 /\ -m \in Int /\ low = first + m /\ period \in Int /\ period >= 1
    BY <1>1 DEF Positive
  <2> PICK e, f : e = (-m) \div period /\ f = (-m) % period
    OBVIOUS
  <2>2. e \in Int /\ f \in 0..(period - 1) /\ -m = period * e + f
    BY <2>1, Division
  <2> PICK c : c = -e
    OBVIOUS
  <2>3. c = -e /\ c \in Int /\ c = Ceiling(m, period)
    BY <2>2 DEF Ceiling
  <2>4. period * c = m + f /\ c * period = period * c
    <3>1. period * (-e) = -(period * e) /\ (-e) * period = period * (-e) /\ period * e \in Int
      BY ONLY <2>1, <2>2
    <3>2. f \in Int
      BY ONLY <2>1, <2>2
    <3> QED BY ONLY <2>1, <2>2, <2>3, <3>1, <3>2
  <2>5. c \in Nat
    <3>1. \A k \in Int : k < 0 => period * k <= 0
      BY ONLY <2>1
    <3>2. ~(c < 0)
      <4>1. period * c >= 1
        BY ONLY <2>1, <2>2, <2>4
      <4>2. ASSUME c < 0 PROVE FALSE
        <5>1. period * c <= 0
          BY ONLY <2>3, <3>1, <4>2
        <5>2. period * c \in Int
          BY ONLY <2>1, <2>3
        <5> QED BY ONLY <4>1, <5>1, <5>2
      <4> QED BY <4>2
    <3> QED BY <2>3, <3>2
  <2>6. start = first + period * c
    BY <1>1, <2>1, <2>3, <2>4 DEF Start
  <2>7. start = first + m + f /\ first \in Int
    BY <2>4, <2>6, <2>1, <2>2
  <2>8. start \in Int /\ start >= low /\ start < low + period
    BY ONLY <2>1, <2>2, <2>7
  <2> QED BY <2>5, <2>6, <2>8
<1>2. CASE ~(first < low)
  <2>1. first = first + period * 0
    BY DEF Positive
  <2> QED BY <1>2, <2>1 DEF Start
<1> QED BY <1>1, <1>2

\* progression_intersects decides exactly whether two regions share an element.
LEMMA OverlapIs ==
  ASSUME NEW l, Proper(l), NEW r, Proper(r)
  PROVE  RegionsOverlap(l, r) <=> Names(l) \cap Names(r) # {}
<1> PICK a, b, o, u, g : a = l.stride /\ b = r.stride /\ o = l.offset /\ u = r.offset /\ g = Gcd(a, b)
  OBVIOUS
<1>1. a \in Positive /\ b \in Positive /\ o \in Nat /\ u \in Nat
  BY DEF Proper
<1> PICK lastl, lastr : lastl = Last(l) /\ lastr = Last(r)
  OBVIOUS
<1>2. lastl \in Int /\ lastr \in Int
  BY DEF Proper, Last, Positive
<1> PICK low, high : low = Larger(o, u) /\ high = Smaller(lastl, lastr)
  OBVIOUS
<1>3. /\ low \in Int /\ high \in Int
      /\ \A n \in Int : low <= n /\ n <= high <=> o <= n /\ u <= n /\ n <= lastl /\ n <= lastr
  <2>1. (low = o \/ low = u) /\ o <= low /\ u <= low
    BY <1>1 DEF Larger
  <2>2. (high = lastl \/ high = lastr) /\ high <= lastl /\ high <= lastr
    BY <1>2 DEF Smaller
  <2> QED BY ONLY <1>1, <1>2, <2>1, <2>2
<1>4. /\ g \in Positive
      /\ \E p, q \in Positive, x, y \in Int : a = g * p /\ b = g * q /\ 1 = p * x + q * y
  BY <1>1, GcdIs
<1> PICK p \in Positive, q \in Positive, x \in Int, y \in Int : a = g * p /\ b = g * q /\ 1 = p * x + q * y
  BY <1>4
<1>5. /\ g \in Int /\ p \in Int /\ q \in Int /\ a \in Int /\ b \in Int /\ o \in Int /\ u \in Int
      /\ g >= 1 /\ p >= 1 /\ q >= 1 /\ a = g * p /\ b = g * q
  BY <1>1, <1>4 DEF Positive
<1>6. \A n \in Int : /\ n \in Names(l) <=> o <= n /\ n <= lastl /\ \E i \in Int : n = o + a * i
                     /\ n \in Names(r) <=> u <= n /\ n <= lastr /\ \E j \in Int : n = u + b * j
  BY NamesAre
<1>7. \A n \in Names(l) : n \in Int
  BY <1>5 DEF Names, Proper, Positive
<1>8. CASE ~Divides(g, u - o)
  <2>1. ~RegionsOverlap(l, r)
    BY <1>8 DEF RegionsOverlap
  <2>2. ASSUME NEW n \in Names(l), n \in Names(r) PROVE FALSE
    <3>1. n \in Int
      BY <1>7
    <3> PICK i \in Int : n = o + a * i
      BY <1>6, <3>1
    <3> PICK j \in Int : n = u + b * j
      BY <1>6, <2>2, <3>1
    <3>2. i \in Int /\ j \in Int /\ n = o + a * i /\ n = u + b * j
      OBVIOUS
    <3>3. u - o = g * (p * i - q * j) /\ p * i - q * j \in Int /\ u - o \in Int
      <4>1. a * i = g * (p * i) /\ b * j = g * (q * j) /\ p * i \in Int /\ q * j \in Int
        BY ONLY <1>5, <3>2
      <4>2. g * (p * i) - g * (q * j) = g * (p * i - q * j)
        BY ONLY <1>5, <4>1
      <4>3. a * i \in Int /\ b * j \in Int
        BY ONLY <1>5, <3>2
      <4>4. u - o = a * i - b * j
        BY ONLY <1>5, <3>2, <4>3
      <4> QED BY ONLY <1>5, <4>1, <4>2, <4>4
    <3>4. Divides(g, u - o)
      BY <1>4, <3>3, DividesIs
    <3> QED BY <1>8, <3>4
  <2> QED BY <2>1, <2>2
<1>9. CASE Divides(g, u - o)
  <2>0. u - o \in Int
    BY <1>5
  <2>1. PICK D \in Int : u - o = g * D
    BY <1>4, <1>9, <2>0, DividesIs
  <2>2. b \div g = q /\ a \div g = p /\ (u - o) \div g = D
    <3>1. (g * q) \div g = q /\ (g * p) \div g = p /\ (g * D) \div g = D
      BY <1>4, <1>5, QuotientIs
    <3> QED BY <1>5, <2>1, <3>1
  <2> PICK index : index = (D * InverseModulo(p, q)) % q
    OBVIOUS
  <2> PICK s : s = IF q = 1 THEN 0 ELSE index
    OBVIOUS
  <2>3. s \in 0..(q - 1) /\ \E t \in Int : p * s = D + q * t
    <3>1. CASE q = 1
      <4>1. p * 0 = D + 1 * (-D) /\ -D \in Int /\ 0 \in 0..(1 - 1)
        BY <1>5
      <4> QED BY <3>1, <4>1
    <3>2. CASE q # 1
      BY <3>2, IndexIs
    <3> QED BY <3>1, <3>2
  <2>4. PICK t \in Int : p * s = D + q * t
    BY <2>3
  <2>5. s \in Int /\ 0 <= s /\ s < q
    BY <1>5, <2>3
  <2> PICK first, period : first = o + a * s /\ period = a * q
    OBVIOUS
  <2>6. first = o + a * s /\ period = a * q /\ first \in Int /\ period \in Int /\ period >= 1
    <3>1. first = o + a * s /\ period = a * q
      OBVIOUS
    <3>2. a * s \in Int /\ a * q \in Int /\ a >= 1
      BY <1>1, <1>5, <2>5 DEF Positive
    <3>3. \A m, n \in Int : m >= 1 /\ n >= 1 => m * n >= 1
      OBVIOUS
    <3> QED BY ONLY <1>5, <3>1, <3>2, <3>3
  <2>7. Lcm(a, b) = period /\ period = b * p
    <3>1. a * b = g * period /\ period = b * p
      <4>1. a * b = a * (g * q) /\ a * (g * q) = g * (a * q)
        BY ONLY <1>5
      <4>2. a * q = (g * p) * q /\ (g * p) * q = (g * q) * p
        BY ONLY <1>5
      <4> QED BY ONLY <1>5, <2>6, <4>1, <4>2
    <3>2. (g * period) \div g = period
      BY <1>4, <2>6, QuotientIs
    <3> QED BY <3>1, <3>2 DEF Lcm
  <2> PICK start : start = Start(first, low, period)
    OBVIOUS
  <2>8. RegionsOverlap(l, r) <=> low <= high /\ start <= high
    <3>1. first = IF q = 1 THEN o ELSE o + index * a
      <4>1. CASE q = 1
        <5>1. s = 0 /\ a * 0 = 0
          BY <1>5, <4>1
        <5> QED BY ONLY <1>5, <2>6, <4>1, <5>1
      <4>2. CASE q # 1
        <5>1. s = index /\ a * s = s * a
          BY <1>5, <2>5, <4>2
        <5> QED BY <2>6, <4>2, <5>1
      <4> QED BY <4>1, <4>2
    <3> QED BY <1>9, <2>2, <2>7, <3>1 DEF RegionsOverlap, Start
  <2>9. /\ o + a * s = u + b * t
        /\ \A n, i, j \in Int : n = o + a * i /\ n = u + b * j => \E m \in Int : n = first + period * m
    <3>1. /\ o + (g * p) * s = (o + g * D) + (g * q) * t
          /\ \A n, i, j \in Int :
               n = o + (g * p) * i /\ n = (o + g * D) + (g * q) * j =>
                 \E m \in Int : n = (o + (g * p) * s) + ((g * p) * q) * m
      <4>1. g \in Positive /\ p \in Positive /\ q \in Positive
        BY <1>4
      <4>2. x \in Int /\ y \in Int /\ 1 = p * x + q * y
        OBVIOUS
      <4>3. o \in Int /\ D \in Int /\ s \in Int /\ t \in Int /\ p * s = D + q * t
        BY <1>5, <2>1, <2>4, <2>5
      <4>4. Common(g, p, q, o, D, s, t)
        BY ONLY <4>1, <4>2, <4>3, CommonElements
      <4> QED BY ONLY <4>4 DEF Common
    <3>2. u = o + g * D
      BY <1>5, <2>1
    <3> QED BY ONLY <1>5, <2>6, <3>1, <3>2
  <2>14. period \in Positive
    BY <2>6 DEF Positive
  <2>15. /\ start \in Int /\ start >= low
         /\ \E c \in Nat : start = first + period * c /\ (c = 0 \/ start < low + period)
    <3>1. start = Start(first, low, period)
      OBVIOUS
    <3>2. first \in Int /\ low \in Int
      BY <1>3, <2>6
    <3> QED BY ONLY <2>14, <3>1, <3>2, StartIs
  <2>10. PICK c \in Nat : start = first + period * c /\ (c = 0 \/ start < low + period)
    BY <2>15
  <2>11. start \in Int /\ start >= low
    BY <2>15
  <2>12. ASSUME low <= high, start <= high PROVE start \in Names(l) /\ start \in Names(r)
    <3>1. start = o + a * (s + q * c) /\ s + q * c \in Int
      <4>1. (a * q) * c = a * (q * c) /\ a * (s + q * c) = a * s + a * (q * c) /\ q * c \in Int
        BY ONLY <1>5, <2>5, <2>10
      <4>2. a * s \in Int /\ a * (q * c) \in Int
        BY ONLY <1>5, <2>5, <4>1
      <4> QED BY ONLY <1>5, <2>5, <2>6, <2>10, <4>1, <4>2
    <3>2. start = u + b * (t + p * c) /\ t + p * c \in Int
      <4>1. (b * p) * c = b * (p * c) /\ b * (t + p * c) = b * t + b * (p * c) /\ p * c \in Int
        BY ONLY <1>5, <2>4, <2>10
      <4>2. b * t \in Int /\ b * (p * c) \in Int
        BY ONLY <1>5, <2>4, <4>1
      <4> QED BY ONLY <1>5, <2>4, <2>6, <2>7, <2>9, <2>10, <4>1, <4>2
    <3>3. o <= start /\ u <= start /\ start <= lastl /\ start <= lastr
      BY <1>3, <2>11, <2>12
    <3> QED BY <1>6, <2>11, <3>1, <3>2, <3>3
  <2>13. ASSUME NEW n \in Names(l), n \in Names(r) PROVE low <= high /\ start <= high
    <3>1. n \in Int
      BY <1>7
    <3>2. low <= n /\ n <= high /\ o <= n
      BY <1>3, <1>6, <2>13, <3>1
    <3>3. PICK m \in Int : n = first + period * m
      BY <1>6, <2>9, <2>13, <3>1
    <3>4. start <= n
      <4>1. CASE c = 0
        <5>1. start = first
          BY <2>6, <2>10, <4>1
        <5>2. a * s < period /\ a * s \in Int
          <6>1. a >= 1
            BY <1>1 DEF Positive
          <6>2. \A i, k \in Int : i < k => a * i < a * k
            BY ONLY <1>5, <6>1
          <6> QED BY ONLY <1>5, <2>5, <2>6, <6>2
        <5>3. period * m > -period /\ period * m \in Int
          <6>1. period * m \in Int
            BY ONLY <2>6, <3>3
          <6> QED BY ONLY <1>5, <2>6, <3>2, <3>3, <5>2, <6>1
        <5>4. m >= 0
          <6>1. \A i \in Int : i <= -1 => period * i <= -period
            BY ONLY <2>6
          <6> QED BY ONLY <2>6, <3>3, <5>3, <6>1
        <5>5. period * m >= 0
          BY ONLY <2>6, <3>3, <5>4
        <5> QED BY ONLY <2>6, <3>3, <5>1, <5>3, <5>5
      <4>2. CASE c # 0
        <5>1. period * c < period * m + period /\ period * c \in Int /\ period * m \in Int
          <6>1. period * c \in Int /\ period * m \in Int
            BY ONLY <2>6, <2>10, <3>3
          <6> QED BY ONLY <1>3, <2>6, <2>10, <3>2, <3>3, <4>2, <6>1
        <5>2. c <= m
          <6>1. \A i, k \in Int : i >= k + 1 => period * i >= period * k + period
            <7>1. \A k \in Int : period * (k + 1) = period * k + period
              BY ONLY <2>6
            <7>2. \A i, k \in Int : i >= k => period * i >= period * k
              BY ONLY <2>6
            <7>3. \A k \in Int : k + 1 \in Int
              OBVIOUS
            <7> QED BY ONLY <7>1, <7>2, <7>3
          <6>2. c >= m + 1 \/ c <= m
            BY ONLY <2>10, <3>3
          <6>3. c \in Int /\ m \in Int
            BY ONLY <2>10, <3>3
          <6>4. c >= m + 1 => period * c >= period * m + period
            BY ONLY <6>1, <6>3
          <6> QED BY ONLY <2>6, <5>1, <6>2, <6>4
        <5>3. period * c <= period * m
          BY ONLY <2>6, <2>10, <3>3, <5>2
        <5> QED BY ONLY <2>6, <2>10, <3>3, <5>1, <5>3
      <4> QED BY <4>1, <4>2
    <3> QED BY <1>3, <2>11, <3>1, <3>2, <3>4
  <2> QED BY <2>8, <2>12, <2>13
<1> QED BY <1>8, <1>9

-----------------------------------------------------------------------------
(* The views of a kernel.                                                   *)

\* The elements that indexing through a chain of views reaches, in order.
Cells(r) == [k \in 1..r.size |-> r.offset + (k - 1) * r.stride]

View == [base : Nat, region : [offset : Nat, size : Nat, stride : Nat], group : Groups,
         lifetime : Lifetimes, cells : Seq(Int)]

\* A view is reduced to the elements it names, all of them inside the root.
Exact(v) == Proper(v.region) /\ Last(v.region) < Extent /\ v.cells = Cells(v.region)

ViewInv ==
  /\ views \in Seq(View)
  /\ \A i \in DOMAIN views : views[i].base < i /\ Exact(views[i])
  /\ AliasesAreDeclared

LEMMA ElementsAre ==
  ASSUME NEW v, Exact(v)
  PROVE  Elements(v) = Names(v.region)
<1> PICK o, n, d : o = v.region.offset /\ n = v.region.size /\ d = v.region.stride
  OBVIOUS
<1>1. o \in Nat /\ n \in Nat /\ d \in Nat
  BY DEF Exact, Proper, Positive
<1>2. DOMAIN v.cells = 1..n /\ \A k \in 1..n : v.cells[k] = o + (k - 1) * d
  BY DEF Exact, Cells
<1>3. Elements(v) = {o + (k - 1) * d : k \in 1..n}
  BY <1>2 DEF Elements
<1> QED BY <1>1, <1>3 DEF Names

\* The base of a view: the root, or a view before it.
LEMMA BaseIs ==
  ASSUME ViewInv, NEW base \in 0..Len(views), NEW p, p = RegionOf(base)
  PROVE  Proper(p) /\ Last(p) < Extent /\ CellsOf(base) = Cells(p) /\ Len(CellsOf(base)) = p.size
<1>1. CASE base = 0
  <2>1. p = [offset |-> 0, size |-> Extent, stride |-> 1]
    BY <1>1 DEF RegionOf, Whole
  <2>2. Extent \in Nat /\ Extent >= 1
    BY ExtentAssumption
  <2>3. Proper(p) /\ Last(p) < Extent
    BY <2>1, <2>2 DEF Proper, Positive, Last
  <2>4. CellsOf(base) = [i \in 1..Extent |-> i - 1]
    BY <1>1 DEF CellsOf
  <2>5. Cells(p) = [i \in 1..Extent |-> 0 + (i - 1) * 1]
    BY <2>1 DEF Cells
  <2>6. \A i \in 1..Extent : 0 + (i - 1) * 1 = i - 1
    OBVIOUS
  <2> QED BY <2>1, <2>2, <2>3, <2>4, <2>5, <2>6
<1>2. CASE base # 0
  <2>1. base \in DOMAIN views /\ p = views[base].region /\ CellsOf(base) = views[base].cells
    BY <1>2 DEF ViewInv, RegionOf, CellsOf
  <2>2. Proper(p) /\ Last(p) < Extent /\ CellsOf(base) = Cells(p)
    BY <2>1 DEF ViewInv, Exact
  <2>3. Len(Cells(p)) = p.size
    BY <2>2 DEF Cells, Proper, Positive
  <2> QED BY <2>2, <2>3
<1> QED BY <1>1, <1>2

\* Folding a view of a view into one region keeps every element in its place.
LEMMA NormalizedIs ==
  ASSUME NEW p, Proper(p), Last(p) < Extent, NEW r, Proper(r), Last(r) < p.size,
         NEW n, n.offset = p.offset + r.offset * p.stride, n.size = r.size,
                n.stride = p.stride * r.stride
  PROVE  /\ Proper(n) /\ Last(n) < Extent
         /\ Cells(n) = [i \in 1..r.size |-> Cells(p)[r.offset + (i - 1) * r.stride + 1]]
<1> PICK po, ps, pd, ro, rs, rd : /\ po = p.offset /\ ps = p.size /\ pd = p.stride
                                  /\ ro = r.offset /\ rs = r.size /\ rd = r.stride
  OBVIOUS
<1>1. /\ po \in Nat /\ ps \in Nat /\ pd \in Nat /\ ro \in Nat /\ rs \in Nat /\ rd \in Nat
      /\ ps >= 1 /\ pd >= 1 /\ rs >= 1 /\ rd >= 1
  BY DEF Proper, Positive
<1>2. n.offset = po + ro * pd /\ n.size = rs /\ n.stride = pd * rd
  OBVIOUS
<1>3. Proper(n)
  <2>1. \A i, k \in Nat : i * k \in Nat /\ (i >= 1 /\ k >= 1 => i * k >= 1)
    OBVIOUS
  <2>2. po + ro * pd \in Nat /\ pd * rd \in Nat /\ pd * rd >= 1
    BY ONLY <1>1, <2>1
  <2> QED BY <1>1, <1>2, <2>2 DEF Proper, Positive
<1>4. ASSUME NEW i \in 1..rs
      PROVE  /\ ro + (i - 1) * rd + 1 \in 1..ps
             /\ po + ((ro + (i - 1) * rd + 1) - 1) * pd = (po + ro * pd) + (i - 1) * (pd * rd)
  <2> PICK m : m = ro + (i - 1) * rd
    OBVIOUS
  <2>1. m \in Names(r)
    BY DEF Names
  <2>2. m = ro + (i - 1) * rd /\ m \in Int /\ (i - 1) * rd \in Int /\ i - 1 \in Int
    BY <1>1
  <2>3. ro <= m /\ m < ps
    <3>1. Last(r) \in Int
      BY <1>1 DEF Last
    <3>2. ro <= m /\ m <= Last(r)
      BY <2>1, <2>2, NamesAre
    <3> QED BY <1>1, <2>2, <3>1, <3>2
  <2>4. m * pd = ro * pd + (i - 1) * (pd * rd)
    BY ONLY <1>1, <2>2
  <2>5. (m + 1) - 1 = m /\ m + 1 \in 1..ps
    BY ONLY <1>1, <2>2, <2>3
  <2>6. po + m * pd = (po + ro * pd) + (i - 1) * (pd * rd)
    <3>1. ro * pd \in Int /\ (i - 1) * (pd * rd) \in Int
      BY ONLY <1>1, <2>2
    <3> QED BY ONLY <1>1, <2>4, <3>1
  <2> QED BY ONLY <2>2, <2>5, <2>6
<1>5. \A i \in 1..rs : Cells(p)[ro + (i - 1) * rd + 1] = n.offset + (i - 1) * n.stride
  <2>1. \A k \in 1..ps : Cells(p)[k] = po + (k - 1) * pd
    BY DEF Cells
  <2> QED BY ONLY <1>2, <1>4, <2>1
<1>6. Cells(n) = [i \in 1..r.size |-> Cells(p)[r.offset + (i - 1) * r.stride + 1]]
  <2>1. Cells(n) = [i \in 1..rs |-> n.offset + (i - 1) * n.stride]
    BY <1>2 DEF Cells
  <2> QED BY <1>5, <2>1
<1>7. Last(n) < Extent
  <2>1. rs \in 1..rs
    BY <1>1
  <2> PICK k : k = ro + (rs - 1) * rd + 1
    OBVIOUS
  <2>2. k \in 1..ps /\ Last(n) = po + (k - 1) * pd
    BY <1>2, <1>4, <2>1 DEF Last
  <2>3. Last(n) \in Names(p) /\ Last(n) \in Int
    BY <1>1, <2>2 DEF Names
  <2>4. Last(n) <= Last(p) /\ Last(p) \in Int /\ Extent \in Int
    BY <1>1, <2>3, NamesAre, ExtentAssumption DEF Last
  <2> QED BY <2>3, <2>4
<1> QED BY <1>3, <1>6, <1>7

\* Elements of two exact views are compared by their regions.
LEMMA MeetIs ==
  ASSUME NEW v, Exact(v), NEW w, Exact(w)
  PROVE  RegionsOverlap(v.region, w.region) <=> Elements(v) \cap Elements(w) # {}
<1>1. Proper(v.region) /\ Proper(w.region)
  BY DEF Exact
<1>2. RegionsOverlap(v.region, w.region) <=> Names(v.region) \cap Names(w.region) # {}
  BY ONLY <1>1, OverlapIs
<1> QED BY <1>2, ElementsAre

LEMMA DeclareStep ==
  ASSUME ViewInv, NEW base \in 0..Len(views), NEW r \in Region, NEW group \in Groups,
         NEW lifetime \in Lifetimes, Declare(base, r, group, lifetime)
  PROVE  ViewInv'
<1> PICK region : region = Normalized(base, r)
  OBVIOUS
<1> PICK cells : cells = [i \in 1..r.size |-> CellsOf(base)[r.offset + (i - 1) * r.stride + 1]]
  OBVIOUS
<1> PICK v : v = [base |-> base, region |-> region, group |-> group, lifetime |-> lifetime,
                  cells |-> cells]
  OBVIOUS
<1>1. /\ Last(r) < Len(CellsOf(base))
      /\ \A i \in DOMAIN views :
           LifetimesOverlap(lifetime, views[i].lifetime) /\ RegionsOverlap(region, views[i].region)
             => views[i].group = group
      /\ views' = Append(views, v)
  BY DEF Declare
<1>2. Proper(r)
  BY ExtentAssumption, BoundsAssumption DEF Region, Proper, Positive
<1> PICK p : p = RegionOf(base)
  OBVIOUS
<1>3. Proper(p) /\ Last(p) < Extent /\ CellsOf(base) = Cells(p) /\ Len(CellsOf(base)) = p.size
  BY BaseIs
<1>4. region = [offset |-> p.offset + r.offset * p.stride, size |-> r.size,
                stride |-> p.stride * r.stride]
  BY DEF Normalized
<1>5. /\ Proper(region) /\ Last(region) < Extent
      /\ Cells(region) = [i \in 1..r.size |-> Cells(p)[r.offset + (i - 1) * r.stride + 1]]
  <2>1. Last(r) < p.size
    BY ONLY <1>1, <1>3
  <2>2. /\ region.offset = p.offset + r.offset * p.stride /\ region.size = r.size
        /\ region.stride = p.stride * r.stride
    BY ONLY <1>4
  <2> QED BY ONLY <1>2, <1>3, <2>1, <2>2, NormalizedIs
<1>6. cells = Cells(region)
  BY <1>3, <1>5
<1>7. Exact(v)
  BY <1>5, <1>6 DEF Exact
<1>8. v \in View
  <2>1. region \in [offset : Nat, size : Nat, stride : Nat]
    BY <1>4, <1>5 DEF Proper, Positive
  <2>2. cells \in Seq(Int)
    <3>1. region.size \in Nat /\ \A k \in 1..region.size : region.offset + (k - 1) * region.stride \in Int
      BY <1>5 DEF Proper, Positive
    <3>2. cells \in [1..region.size -> Int]
      BY <1>6, <3>1 DEF Cells
    <3>3. \A z \in Nat : \A f \in [1..z -> Int] : f \in Seq(Int)
      OBVIOUS
    <3> QED BY ONLY <3>1, <3>2, <3>3
  <2>3. base \in Nat
    BY DEF ViewInv
  <2> QED BY <2>1, <2>2, <2>3 DEF View
<1> PICK n : n = Len(views)
  OBVIOUS
<1>9. /\ n \in Nat /\ views' \in Seq(View) /\ DOMAIN views = 1..n /\ DOMAIN views' = 1..(n + 1)
      /\ views'[n + 1] = v
      /\ \A i \in 1..n : views'[i] = views[i]
  BY <1>1, <1>8 DEF ViewInv
<1>10. \A i \in DOMAIN views' : views'[i].base < i /\ Exact(views'[i])
  BY <1>7, <1>9 DEF ViewInv
<1>11. \A i \in 1..n :
         LifetimesOverlap(lifetime, views[i].lifetime) /\ Elements(v) \cap Elements(views[i]) # {}
           => views[i].group = group
  BY <1>1, <1>7, <1>9, MeetIs DEF ViewInv
<1>12. \A i, j \in 1..(n + 1) :
         LifetimesOverlap(views'[i].lifetime, views'[j].lifetime)
           /\ Elements(views'[i]) \cap Elements(views'[j]) # {}
             => views'[i].group = views'[j].group
  <2> SUFFICES ASSUME NEW i \in 1..(n + 1), NEW j \in 1..(n + 1),
                      LifetimesOverlap(views'[i].lifetime, views'[j].lifetime),
                      Elements(views'[i]) \cap Elements(views'[j]) # {}
               PROVE  views'[i].group = views'[j].group
    OBVIOUS
  <2>0. v.lifetime = lifetime /\ v.group = group
    OBVIOUS
  <2>1. CASE i \in 1..n /\ j \in 1..n
    <3>1. views'[i] = views[i] /\ views'[j] = views[j] /\ {i, j} \subseteq DOMAIN views
      BY <1>9, <2>1
    <3>2. AliasesAreDeclared
      BY DEF ViewInv
    <3> QED BY <3>1, <3>2 DEF AliasesAreDeclared
  <2>2. CASE i = n + 1 /\ j \in 1..n
    <3>1. views'[i] = v /\ views'[j] = views[j]
      BY <1>9, <2>2
    <3>2. LifetimesOverlap(lifetime, views[j].lifetime) /\ Elements(v) \cap Elements(views[j]) # {}
      BY <2>0, <3>1
    <3> QED BY <1>11, <2>0, <2>2, <3>1, <3>2
  <2>3. CASE j = n + 1 /\ i \in 1..n
    <3>1. views'[j] = v /\ views'[i] = views[i]
      BY <1>9, <2>3
    <3>2. LifetimesOverlap(lifetime, views[i].lifetime)
      BY <2>0, <3>1 DEF LifetimesOverlap
    <3>3. Elements(v) \cap Elements(views[i]) # {}
      BY <3>1
    <3> QED BY <1>11, <2>0, <2>3, <3>1, <3>2, <3>3
  <2>4. CASE i = n + 1 /\ j = n + 1
    BY <2>4
  <2> QED BY <1>9, <2>1, <2>2, <2>3, <2>4
<1> QED BY <1>9, <1>10, <1>12 DEF ViewInv, AliasesAreDeclared, Elements

\* ViewInv is an invariant: BufferViews keeps its regions exact and its
\* aliases declared together.
THEOREM ViewInvariance == Spec => []ViewInv
<1>1. Init => ViewInv
  BY DEF Init, ViewInv, AliasesAreDeclared
<1>2. ViewInv /\ [Next]_views => ViewInv'
  <2> SUFFICES ASSUME ViewInv, [Next]_views PROVE ViewInv'
    OBVIOUS
  <2>1. CASE Next
    BY <2>1, DeclareStep DEF Next
  <2>2. CASE UNCHANGED views
    BY <2>2 DEF ViewInv, AliasesAreDeclared
  <2> QED BY <2>1, <2>2
<1> QED BY <1>1, <1>2, PTL DEF Spec

\* ViewOp, root_region: the region that a chain of views is reduced to
\* names, in order, the very elements that indexing through it reaches.
THEOREM RegionsAreExact == Spec => []RegionIsExact
<1>1. ViewInv => RegionIsExact
  BY DEF ViewInv, Exact, Cells, RegionIsExact
<1> QED BY <1>1, ViewInvariance, PTL

\* _regions_overlap is exact, for extents and strides of any size: it joins
\* two regions of the kernel just where they share an element.
THEOREM OverlapsAreExact == Spec => []OverlapIsExact
<1>1. ViewInv => OverlapIsExact
  BY MeetIs DEF ViewInv, OverlapIsExact
<1> QED BY <1>1, ViewInvariance, PTL

\* The kernel's alias groups are complete: of two views that live at one
\* stage and share an element, neither may leave the other's group.
THEOREM GroupsAreComplete == Spec => []AliasesAreDeclared
<1>1. ViewInv => AliasesAreDeclared
  BY DEF ViewInv
<1> QED BY <1>1, ViewInvariance, PTL
\* Each view has a base before it, and names elements of the root alone.
THEOREM ViewsAreTyped == Spec => []TypeOK
<1>1. ViewInv => TypeOK
  <2> SUFFICES ASSUME ViewInv, NEW i \in DOMAIN views
               PROVE  /\ views[i].base \in 0..(i - 1)
                      /\ views[i].group \in Groups
                      /\ views[i].lifetime \in Lifetimes
                      /\ views[i].region.offset \in Nat /\ Last(views[i].region) < Extent
                      /\ views[i].cells \in Seq(0..(Extent - 1))
    BY DEF TypeOK
  <2> PICK v : v = views[i]
    OBVIOUS
  <2>1. v \in View /\ v.base < i /\ Exact(v) /\ i \in Nat
    BY DEF ViewInv
  <2>2. v.base \in 0..(i - 1) /\ v.group \in Groups /\ v.lifetime \in Lifetimes
    BY <2>1 DEF View
  <2>3. v.region.offset \in Nat /\ Last(v.region) < Extent
    BY <2>1 DEF Exact, Proper
  <2>4. v.cells \in Seq(0..(Extent - 1))
    <3> PICK r, n : r = v.region /\ n = r.size
      OBVIOUS
    <3>1. Proper(r) /\ n \in Nat /\ v.cells = [k \in 1..n |-> r.offset + (k - 1) * r.stride]
      BY <2>1 DEF Exact, Proper, Positive, Cells
    <3>2. ASSUME NEW k \in 1..n PROVE r.offset + (k - 1) * r.stride \in 0..(Extent - 1)
      <4> PICK m : m = r.offset + (k - 1) * r.stride
        OBVIOUS
      <4>1. m \in Names(r) /\ m \in Int
        BY <3>1 DEF Names, Proper, Positive
      <4>2. r.offset <= m /\ m <= Last(r)
        BY <3>1, <4>1, NamesAre
      <4>3. Last(r) \in Int
        <5>1. r.offset \in Int /\ r.size - 1 \in Int /\ r.stride \in Int
          BY ONLY <3>1 DEF Proper, Positive
        <5> QED BY ONLY <5>1 DEF Last
      <4> QED BY <2>3, <4>1, <4>2, <4>3, ExtentAssumption
    <3>3. v.cells \in [1..n -> 0..(Extent - 1)]
      BY <3>1, <3>2
    <3>4. \A S : \A z \in Nat : \A f \in [1..z -> S] : f \in Seq(S)
      OBVIOUS
    <3> QED BY ONLY <3>1, <3>3, <3>4
  <2> QED BY <2>2, <2>3, <2>4
<1> QED BY <1>1, ViewInvariance, PTL

-----------------------------------------------------------------------------
(* Copies between devices.                                                  *)

\* What the verifier's tests leave of an operation at position k.
WellFormed(k) ==
  /\ program[k].kind \in {"start", "wait", "compute"}
  /\ program[k].kind = "start" =>
       /\ program[k].source \in R!Initialized(k - 1)
       /\ program[k].dest \in Vmem
       /\ program[k].semaphore \in Semaphores
       /\ program[k].plan \in R!Plan
  /\ program[k].kind = "compute" => program[k].source \in R!Initialized(k - 1)
  /\ program[k].kind = "wait" => program[k].start \in R!Index("start", k - 1)

\* No two copies share a semaphore.
SemaphoresApart ==
  \A j, k \in R!Index("start", Len(program)) :
    program[j].semaphore = program[k].semaphore => j = k

ProgramInv ==
  /\ program \in Seq(R!Operation)
  /\ \A k \in DOMAIN program : WellFormed(k)
  /\ SemaphoresApart

\* Before the program is accepted no device has done anything.
Idle ==
  /\ device_at = [d \in Devices |-> 1]
  /\ device_written = [d \in Devices |-> Given]
  /\ arrived = {}
  /\ signals = [d \in Devices |-> [s \in Semaphores |-> 0]]

DeviceTypes ==
  /\ device_at \in [Devices -> Nat]
  /\ \A d \in Devices : device_at[d] \in 1..(Len(program) + 1)
  /\ device_written \in [Devices -> SUBSET R!Buffer]
  /\ signals \in [Devices -> [Semaphores -> Nat]]

\* A copy that arrived was started by its sender, and wrote its destination.
ArrivedIsWritten ==
  \A k \in R!Index("start", Len(program)), d \in Devices :
    <<k, d>> \in arrived => d \in DOMAIN program[k].plan /\ program[k].dest \in device_written[d]

\* A semaphore is signalled only where a copy that uses it has arrived.
SignalsHaveArrivals ==
  \A d \in Devices, s \in Semaphores :
    signals[d][s] > 0 =>
      \E k \in R!Index("start", Len(program)) : program[k].semaphore = s /\ <<k, d>> \in arrived

\* InitializedEverywhere is not inductive alone: what a wait takes for the
\* arrival of its own copy must be that, and what a copy carries must be there.
RemoteInv ==
  /\ devices_run \in BOOLEAN
  /\ ProgramInv
  /\ ~devices_run => Idle
  /\ DeviceTypes
  /\ devices_run => ArrivedIsWritten /\ SignalsHaveArrivals
  /\ InitializedEverywhere

-----------------------------------------------------------------------------
(* What counts as initialized after n operations depends on these alone.    *)

LEMMA InitializedOfPrefix ==
  ASSUME ProgramInv, NEW operation, program' = Append(program, operation),
         NEW n \in 0..Len(program)
  PROVE  R!Initialized(n)' = R!Initialized(n)
<1>1. \A k \in 1..n : program'[k] = program[k]
  BY DEF ProgramInv
<1>2. \A kind : R!Index(kind, n)' = R!Index(kind, n)
  BY <1>1 DEF R!Index
<1>3. \A w \in R!Index("wait", n) : program[w].start \in 1..n
  BY DEF R!Index, ProgramInv, WellFormed
<1> QED BY <1>1, <1>2, <1>3 DEF R!Initialized, R!Index

\* One operation more adds at most its own destination.
LEMMA InitializedGrows ==
  ASSUME NEW n \in Nat
  PROVE  /\ R!Initialized(n) \subseteq R!Initialized(n + 1)
         /\ \A b \in R!Initialized(n + 1) \ R!Initialized(n) :
              \/ program[n + 1].kind = "compute" /\ b = program[n + 1].dest
              \/ /\ program[n + 1].kind = "wait"
                 /\ b = program[program[n + 1].start].dest
                 /\ R!Covers(program[program[n + 1].start].plan)
<1>1. \A kind : R!Index(kind, n) \subseteq R!Index(kind, n + 1)
  BY DEF R!Index
<1>2. \A kind : \A k \in R!Index(kind, n + 1) :
        k \in R!Index(kind, n) \/ (k = n + 1 /\ program[n + 1].kind = kind)
  BY DEF R!Index
<1>3. R!Initialized(n) \subseteq R!Initialized(n + 1)
  BY <1>1 DEF R!Initialized
<1>4. ASSUME NEW b \in R!Initialized(n + 1), b \notin R!Initialized(n)
      PROVE  \/ program[n + 1].kind = "compute" /\ b = program[n + 1].dest
             \/ /\ program[n + 1].kind = "wait"
                /\ b = program[program[n + 1].start].dest
                /\ R!Covers(program[program[n + 1].start].plan)
  <2>1. CASE \E k \in R!Index("compute", n + 1) : b = program[k].dest
    <3>1. PICK k \in R!Index("compute", n + 1) : b = program[k].dest BY <2>1
    <3>2. k \notin R!Index("compute", n) BY <1>4, <3>1 DEF R!Initialized
    <3> QED BY <1>2, <3>1, <3>2
  <2>2. CASE \E w \in R!Index("wait", n + 1) :
               b = program[program[w].start].dest /\ R!Covers(program[program[w].start].plan)
    <3>1. PICK w \in R!Index("wait", n + 1) :
            b = program[program[w].start].dest /\ R!Covers(program[program[w].start].plan)
      BY <2>2
    <3>2. w \notin R!Index("wait", n) BY <1>4, <3>1 DEF R!Initialized
    <3> QED BY <1>2, <3>1, <3>2
  <2> QED BY <1>4, <2>1, <2>2 DEF R!Initialized
<1> QED BY <1>3, <1>4

LEMMA InitializedIsMonotone ==
  ASSUME NEW m \in Nat, NEW n \in Nat, m <= n
  PROVE  R!Initialized(m) \subseteq R!Initialized(n)
<1>1. \A kind : R!Index(kind, m) \subseteq R!Index(kind, n)
  BY DEF R!Index
<1> QED BY <1>1 DEF R!Initialized

LEMMA InitializedAreBuffers == RemoteInv => R!Initialized(Len(program)) \subseteq R!Buffer
<1> SUFFICES ASSUME RemoteInv PROVE R!Initialized(Len(program)) \subseteq R!Buffer
  OBVIOUS
<1>1. \A k \in DOMAIN program : program[k] \in R!Operation
  BY DEF RemoteInv, ProgramInv
<1>2. \A k \in R!Index("compute", Len(program)) \cup R!Index("start", Len(program)) :
        program[k].dest \in R!Buffer
  BY <1>1 DEF R!Index, R!Operation, R!Buffer, RemoteInv, ProgramInv
<1>3. \A w \in R!Index("wait", Len(program)) : program[w].start \in R!Index("start", Len(program))
  BY DEF RemoteInv, ProgramInv, WellFormed, R!Index
<1> QED BY <1>2, <1>3 DEF R!Initialized, R!Buffer

-----------------------------------------------------------------------------
(* The verifier writes the program.                                         *)

LEMMA RemoteInit == R!Init => RemoteInv
<1> SUFFICES ASSUME R!Init PROVE RemoteInv OBVIOUS
<1>1. ProgramInv
  BY DEF R!Init, ProgramInv, SemaphoresApart, R!Index
<1>2. DeviceTypes
  BY DEF R!Init, DeviceTypes, R!Buffer
<1> QED BY <1>1, <1>2 DEF R!Init, RemoteInv, Idle, InitializedEverywhere, R!InitializedEverywhere

\* An operation that fits after the program leaves it well formed.
LEMMA AddStep ==
  ASSUME RemoteInv, NEW operation \in R!Operation, R!Add(operation),
         operation.kind = "start" =>
           /\ operation.source \in R!Initialized(Len(program))
           /\ \A k \in R!Index("start", Len(program)) : program[k].semaphore # operation.semaphore,
         operation.kind = "compute" => operation.source \in R!Initialized(Len(program)),
         operation.kind = "wait" => operation.start \in R!Index("start", Len(program))
  PROVE  RemoteInv'
<1> DEFINE L == Len(program)
<1>1. /\ program' = Append(program, operation) /\ program \in Seq(R!Operation)
      /\ L \in Nat /\ Len(program') = L + 1 /\ program'[L + 1] = operation
      /\ \A k \in 1..L : program'[k] = program[k]
      /\ program' \in Seq(R!Operation)
  BY DEF R!Add, RemoteInv, ProgramInv
<1>2. \A n \in 0..L : R!Initialized(n)' = R!Initialized(n)
  BY <1>1, InitializedOfPrefix DEF RemoteInv
<1>3. \A kind : \A n \in 0..L : R!Index(kind, n)' = R!Index(kind, n)
  BY <1>1 DEF R!Index
<1>4. \A k \in DOMAIN program' : WellFormed(k)'
  <2> SUFFICES ASSUME NEW k \in 1..(L + 1) PROVE WellFormed(k)'
    BY <1>1
  <2>1. R!Initialized(k - 1)' = R!Initialized(k - 1) /\ \A kind : R!Index(kind, k - 1)' = R!Index(kind, k - 1)
    BY <1>1, <1>2, <1>3
  <2>2. CASE k \in 1..L
    <3>1. WellFormed(k) /\ program'[k] = program[k]
      BY <1>1, <2>2 DEF RemoteInv, ProgramInv
    <3> QED BY <2>1, <3>1 DEF WellFormed
  <2>3. CASE k = L + 1
    <3>1. program'[k] = operation /\ k - 1 = L
      BY <1>1, <2>3
    <3>2. /\ operation.kind \in {"start", "wait", "compute"}
          /\ operation.kind = "start" =>
               operation.dest \in Vmem /\ operation.semaphore \in Semaphores /\ operation.plan \in R!Plan
      BY DEF R!Operation
    <3> QED BY <2>1, <3>1, <3>2 DEF WellFormed
  <2> QED BY <2>2, <2>3
<1>5. SemaphoresApart'
  <2>1. \A k \in R!Index("start", Len(program))' :
          k \in R!Index("start", L) \/ (k = L + 1 /\ operation.kind = "start")
    BY <1>1 DEF R!Index
  <2> QED BY <1>1, <2>1 DEF RemoteInv, ProgramInv, SemaphoresApart, R!Index
<1>6. devices_run' = FALSE /\ Idle'
  BY DEF R!Add, RemoteInv, Idle
<1>7. DeviceTypes'
  BY <1>1, <1>6 DEF DeviceTypes, Idle, R!Buffer
<1>8. ProgramInv'
  BY <1>1, <1>4, <1>5 DEF ProgramInv
<1>9. InitializedEverywhere'
  BY <1>6 DEF InitializedEverywhere, R!InitializedEverywhere
<1> QED BY <1>6, <1>7, <1>8, <1>9 DEF RemoteInv

\* The devices start as they are, and nothing but Given counts at position 1.
LEMMA AcceptStep == ASSUME RemoteInv, R!Accept PROVE RemoteInv'
<1>1. /\ devices_run' = TRUE /\ ~devices_run /\ Idle
      /\ UNCHANGED <<program, device_at, device_written, arrived, signals>>
  BY DEF R!Accept, RemoteInv
<1>2. ProgramInv'
  <2>1. \A n : R!Initialized(n)' = R!Initialized(n)
    BY <1>1 DEF R!Initialized, R!Index
  <2>2. \A kind : \A n : R!Index(kind, n)' = R!Index(kind, n)
    BY <1>1 DEF R!Index
  <2> QED BY <1>1, <2>1, <2>2 DEF RemoteInv, ProgramInv, WellFormed, SemaphoresApart
<1>3. DeviceTypes'
  BY <1>1 DEF RemoteInv, DeviceTypes
<1>4. ArrivedIsWritten' /\ SignalsHaveArrivals'
  BY <1>1 DEF Idle, ArrivedIsWritten, SignalsHaveArrivals
<1>5. InitializedEverywhere'
  <2>1. R!Initialized(0) = Given
    BY DEF R!Initialized, R!Index
  <2>2. R!Initialized(0)' = R!Initialized(0)
    BY <1>1 DEF R!Initialized, R!Index
  <2>3. \A d \in Devices : device_at'[d] - 1 = 0 /\ device_written'[d] = Given
    BY <1>1 DEF Idle
  <2> QED BY <2>1, <2>2, <2>3 DEF InitializedEverywhere, R!InitializedEverywhere
<1> QED BY <1>1, <1>2, <1>3, <1>4, <1>5 DEF RemoteInv

-----------------------------------------------------------------------------
(* The devices run it.                                                      *)

\* A step of the devices leaves the program alone, and all that is said of it.
LEMMA ProgramKept ==
  ASSUME RemoteInv, UNCHANGED <<program, devices_run>>
  PROVE  /\ ProgramInv' /\ devices_run' \in BOOLEAN
         /\ \A n : R!Initialized(n)' = R!Initialized(n)
         /\ \A kind : \A n : R!Index(kind, n)' = R!Index(kind, n)
<1>1. \A n : R!Initialized(n)' = R!Initialized(n)
  BY DEF R!Initialized, R!Index
<1>2. \A kind : \A n : R!Index(kind, n)' = R!Index(kind, n)
  BY DEF R!Index
<1>3. ProgramInv'
  BY <1>1, <1>2 DEF RemoteInv, ProgramInv, WellFormed, SemaphoresApart
<1> QED BY <1>1, <1>2, <1>3 DEF RemoteInv

\* A device goes on to its next operation, whose destination, if that counts
\* from then on, it has written.
LEMMA AdvanceStep ==
  ASSUME RemoteInv, devices_run, NEW d \in Devices, device_at[d] \in DOMAIN program, R!Advance(d),
         \A e \in Devices : device_written[e] \subseteq device_written'[e],
         device_written' \in [Devices -> SUBSET R!Buffer],
         \A b \in R!Initialized(device_at[d]) \ R!Initialized(device_at[d] - 1) : b \in device_written'[d]
  PROVE  InitializedEverywhere' /\ device_at' \in [Devices -> Nat]
           /\ \A e \in Devices : device_at'[e] \in 1..(Len(program)' + 1)
<1>1. device_at' = [device_at EXCEPT ![d] = @ + 1] /\ UNCHANGED <<program, devices_run>>
  BY DEF R!Advance
<1>2. /\ device_at \in [Devices -> Nat] /\ \A e \in Devices : device_at[e] \in 1..(Len(program) + 1)
      /\ Len(program) \in Nat /\ device_at[d] <= Len(program)
  BY DEF RemoteInv, DeviceTypes, ProgramInv
<1>3. \A n : R!Initialized(n)' = R!Initialized(n)
  BY <1>1, ProgramKept
<1>4. ASSUME NEW e \in Devices PROVE R!Initialized(device_at'[e] - 1) \subseteq device_written'[e]
  <2>1. R!Initialized(device_at[e] - 1) \subseteq device_written[e]
    BY DEF RemoteInv, InitializedEverywhere, R!InitializedEverywhere
  <2>2. CASE e = d
    <3>1. device_at'[d] - 1 = device_at[d]
      BY <1>1, <1>2
    <3> QED BY <2>1, <2>2, <3>1
  <2>3. CASE e # d
    BY <1>1, <1>2, <2>1, <2>3
  <2> QED BY <2>2, <2>3
<1>5. InitializedEverywhere'
  BY <1>3, <1>4 DEF InitializedEverywhere, R!InitializedEverywhere
<1> QED BY <1>1, <1>2, <1>5

LEMMA RunStartStep == ASSUME RemoteInv, NEW d \in Devices, R!RunStart(d) PROVE RemoteInv'
<1>1. /\ devices_run /\ device_at[d] \in DOMAIN program /\ program[device_at[d]].kind = "start"
      /\ R!Advance(d) /\ UNCHANGED <<program, devices_run, device_written, arrived, signals>>
  BY DEF R!RunStart, R!IsAt, R!Advance
<1>2. device_at[d] \in Nat /\ device_at[d] >= 1
  BY DEF RemoteInv, DeviceTypes
<1>3. \A b \in R!Initialized(device_at[d]) \ R!Initialized(device_at[d] - 1) : FALSE
  BY <1>1, <1>2, InitializedGrows, device_at[d] - 1 \in Nat, (device_at[d] - 1) + 1 = device_at[d]
<1>4. device_written \in [Devices -> SUBSET R!Buffer]
  BY DEF RemoteInv, DeviceTypes
<1>5. InitializedEverywhere' /\ device_at' \in [Devices -> Nat]
        /\ \A e \in Devices : device_at'[e] \in 1..(Len(program)' + 1)
  BY <1>1, <1>3, <1>4, AdvanceStep
<1>6. ProgramInv' /\ devices_run' \in BOOLEAN /\ \A kind : \A n : R!Index(kind, n)' = R!Index(kind, n)
  BY <1>1, ProgramKept
<1>7. DeviceTypes'
  BY <1>1, <1>5 DEF RemoteInv, DeviceTypes
<1>8. ArrivedIsWritten' /\ SignalsHaveArrivals'
  BY <1>1, <1>6 DEF RemoteInv, ArrivedIsWritten, SignalsHaveArrivals
<1> QED BY <1>1, <1>5, <1>6, <1>7, <1>8 DEF RemoteInv

LEMMA RunComputeStep == ASSUME RemoteInv, NEW d \in Devices, R!RunCompute(d) PROVE RemoteInv'
<1> DEFINE k == device_at[d]
<1>1. /\ devices_run /\ k \in DOMAIN program /\ program[k].kind = "compute"
      /\ R!Advance(d) /\ UNCHANGED <<program, devices_run, arrived, signals>>
      /\ device_written' = [device_written EXCEPT ![d] =
           IF program[k].source \in @ THEN @ \cup {program[k].dest} ELSE @]
  BY DEF R!RunCompute, R!IsAt, R!Advance
<1>2. k \in Nat /\ k >= 1 /\ device_written \in [Devices -> SUBSET R!Buffer] /\ program \in Seq(R!Operation)
  BY DEF RemoteInv, DeviceTypes, ProgramInv
<1>3. program[k].source \in device_written[d]
  BY <1>1 DEF RemoteInv, ProgramInv, WellFormed, InitializedEverywhere, R!InitializedEverywhere
<1>4. device_written'[d] = device_written[d] \cup {program[k].dest} /\ \A e \in Devices \ {d} : device_written'[e] = device_written[e]
  BY <1>1, <1>2, <1>3
<1>5. program[k].dest \in R!Buffer
  <2>1. program[k] \in R!Operation BY <1>1, <1>2
  <2> QED BY <1>1, <2>1 DEF R!Operation, R!Buffer
<1>6. device_written' \in [Devices -> SUBSET R!Buffer]
  BY <1>1, <1>2, <1>5
<1>7. \A e \in Devices : device_written[e] \subseteq device_written'[e]
  BY <1>4
<1>8. \A b \in R!Initialized(k) \ R!Initialized(k - 1) : b \in device_written'[d]
  BY <1>1, <1>2, <1>4, InitializedGrows, k - 1 \in Nat, (k - 1) + 1 = k
<1>9. InitializedEverywhere' /\ device_at' \in [Devices -> Nat]
        /\ \A e \in Devices : device_at'[e] \in 1..(Len(program)' + 1)
  BY <1>1, <1>6, <1>7, <1>8, AdvanceStep
<1>10. ProgramInv' /\ devices_run' \in BOOLEAN /\ \A kind : \A n : R!Index(kind, n)' = R!Index(kind, n)
  BY <1>1, ProgramKept
<1>11. DeviceTypes'
  BY <1>1, <1>6, <1>9 DEF RemoteInv, DeviceTypes
<1>12. ArrivedIsWritten'
  BY <1>1, <1>7, <1>10 DEF RemoteInv, ArrivedIsWritten
<1>13. SignalsHaveArrivals'
  BY <1>1, <1>10 DEF RemoteInv, SignalsHaveArrivals
<1> QED BY <1>1, <1>9, <1>10, <1>11, <1>12, <1>13 DEF RemoteInv

\* A wait that initializes the destination here awaited a copy sent here; its
\* semaphore was signalled by a copy, which by SemaphoresApart is that one.
LEMMA RunWaitStep == ASSUME RemoteInv, NEW d \in Devices, R!RunWait(d) PROVE RemoteInv'
<1> DEFINE w == device_at[d]
           k == program[w].start
           s == program[k].semaphore
<1>1. /\ devices_run /\ w \in DOMAIN program /\ program[w].kind = "wait"
      /\ R!Advance(d) /\ UNCHANGED <<program, devices_run, device_written, arrived>>
  BY DEF R!RunWait, R!IsAt, R!Advance
<1>2. IF d \in DOMAIN program[k].plan
      THEN signals[d][s] > 0 /\ signals' = [signals EXCEPT ![d][s] = @ - 1]
      ELSE UNCHANGED signals
  BY DEF R!RunWait
<1>3. /\ w \in Nat /\ w >= 1 /\ device_written \in [Devices -> SUBSET R!Buffer] /\ program \in Seq(R!Operation)
      /\ Len(program) \in Nat /\ w <= Len(program)
  BY <1>1 DEF RemoteInv, DeviceTypes, ProgramInv
<1>4. k \in R!Index("start", w - 1) /\ k \in R!Index("start", Len(program))
  BY <1>1, <1>3 DEF RemoteInv, ProgramInv, WellFormed, R!Index
<1>5. ASSUME d \in DOMAIN program[k].plan PROVE program[k].dest \in device_written[d]
  <2>1. s \in Semaphores
    BY <1>4 DEF RemoteInv, ProgramInv, WellFormed, R!Index
  <2>2. PICK j \in R!Index("start", Len(program)) : program[j].semaphore = s /\ <<j, d>> \in arrived
    BY <1>1, <1>2, <1>5, <2>1 DEF RemoteInv, SignalsHaveArrivals
  <2>3. j = k
    BY <1>4, <2>2 DEF RemoteInv, ProgramInv, SemaphoresApart
  <2> QED BY <1>1, <1>4, <2>2, <2>3 DEF RemoteInv, ArrivedIsWritten
<1>6. \A b \in R!Initialized(w) \ R!Initialized(w - 1) : b \in device_written'[d]
  BY <1>1, <1>3, <1>5, InitializedGrows, w - 1 \in Nat, (w - 1) + 1 = w DEF R!Covers
<1>7. InitializedEverywhere' /\ device_at' \in [Devices -> Nat]
        /\ \A e \in Devices : device_at'[e] \in 1..(Len(program)' + 1)
  BY <1>1, <1>3, <1>6, AdvanceStep
<1>8. ProgramInv' /\ devices_run' \in BOOLEAN /\ \A kind : \A n : R!Index(kind, n)' = R!Index(kind, n)
  BY <1>1, ProgramKept
<1>9. signals' \in [Devices -> [Semaphores -> Nat]]
      /\ \A e \in Devices, t \in Semaphores : signals'[e][t] <= signals[e][t]
  <2>0. s \in Semaphores
    <3>1. k \in DOMAIN program /\ program[k].kind = "start"
      BY <1>3, <1>4 DEF R!Index
    <3>2. WellFormed(k)
      BY <3>1 DEF RemoteInv, ProgramInv
    <3> QED BY <3>1, <3>2 DEF WellFormed
  <2>1. s \in Semaphores /\ signals \in [Devices -> [Semaphores -> Nat]]
    BY <2>0 DEF RemoteInv, DeviceTypes
  <2>2. CASE d \in DOMAIN program[k].plan
    <3>0. signals[d][s] > 0
      BY <1>2, <2>2
    <3> HIDE DEF s
    <3>1. signals[d] \in [Semaphores -> Nat] /\ signals[d][s] \in Nat /\ signals[d][s] - 1 \in Nat
      BY <2>1, <3>0
    <3>2. signals' = [signals EXCEPT ![d] = [signals[d] EXCEPT ![s] = signals[d][s] - 1]]
      BY <1>2, <2>2
    <3>3. [signals[d] EXCEPT ![s] = signals[d][s] - 1] \in [Semaphores -> Nat]
      BY <2>1, <3>1
    <3>4. \A e \in Devices, t \in Semaphores :
            signals'[e][t] = IF e = d /\ t = s THEN signals[d][s] - 1 ELSE signals[e][t]
      BY <2>1, <3>2
    <3>5. \A e \in Devices, t \in Semaphores : signals[e][t] \in Nat
      BY <2>1
    <3> QED BY <2>1, <3>1, <3>2, <3>3, <3>4, <3>5
  <2>3. CASE d \notin DOMAIN program[k].plan
    BY <1>2, <2>1, <2>3
  <2> QED BY <2>2, <2>3
<1>10. DeviceTypes'
  BY <1>1, <1>7, <1>9 DEF RemoteInv, DeviceTypes
<1>11. ArrivedIsWritten'
  BY <1>1, <1>8 DEF RemoteInv, ArrivedIsWritten
<1>12. SignalsHaveArrivals'
  <2> SUFFICES ASSUME NEW e \in Devices, NEW t \in Semaphores, signals'[e][t] > 0
               PROVE  \E j \in R!Index("start", Len(program)) :
                        program[j].semaphore = t /\ <<j, e>> \in arrived
    BY <1>1, <1>8 DEF SignalsHaveArrivals
  <2>1. signals[e][t] > 0
    BY <1>9 DEF RemoteInv, DeviceTypes
  <2> QED BY <1>1, <2>1 DEF RemoteInv, SignalsHaveArrivals
<1> QED BY <1>1, <1>7, <1>8, <1>10, <1>11, <1>12 DEF RemoteInv

\* The sender has started the copy, so it has what the copy carries.
LEMMA ArriveStep == ASSUME RemoteInv, NEW d \in Devices, R!Arrive(d) PROVE RemoteInv'
<1>1. PICK k \in R!Index("start", Len(program)) :
        /\ devices_run
        /\ d \in DOMAIN program[k].plan /\ k < device_at[program[k].plan[d]]
        /\ arrived' = arrived \cup {<<k, d>>}
        /\ device_written' = [device_written EXCEPT ![d] =
             IF program[k].source \in device_written[program[k].plan[d]] THEN @ \cup {program[k].dest} ELSE @]
        /\ signals' = [signals EXCEPT ![d][program[k].semaphore] = @ + 1]
        /\ UNCHANGED <<program, devices_run, device_at>>
  BY DEF R!Arrive
<1>2. /\ program \in Seq(R!Operation) /\ k \in DOMAIN program /\ k \in Nat /\ k >= 1
      /\ program[k].kind = "start" /\ device_written \in [Devices -> SUBSET R!Buffer]
      /\ program[k].semaphore \in Semaphores /\ program[k].dest \in R!Buffer
      /\ program[k].source \in R!Initialized(k - 1) /\ program[k].plan \in R!Plan
  BY DEF RemoteInv, ProgramInv, DeviceTypes, WellFormed, R!Index, R!Buffer
<1>3. program[k].plan[d] \in Devices
  BY <1>1, <1>2 DEF R!Plan
<1>4. program[k].source \in device_written[program[k].plan[d]]
  <2> DEFINE e == program[k].plan[d]
  <2>1. device_at[e] \in Nat /\ k - 1 \in Nat /\ device_at[e] - 1 \in Nat /\ k - 1 <= device_at[e] - 1
    BY <1>1, <1>2, <1>3 DEF RemoteInv, DeviceTypes
  <2>2. R!Initialized(k - 1) \subseteq R!Initialized(device_at[e] - 1)
    BY <2>1, InitializedIsMonotone
  <2>3. R!Initialized(device_at[e] - 1) \subseteq device_written[e]
    BY <1>1, <1>3 DEF RemoteInv, InitializedEverywhere, R!InitializedEverywhere
  <2> QED BY <1>2, <2>2, <2>3
<1>5. /\ device_written'[d] = device_written[d] \cup {program[k].dest}
      /\ \A e \in Devices \ {d} : device_written'[e] = device_written[e]
      /\ device_written' \in [Devices -> SUBSET R!Buffer]
  BY <1>1, <1>2, <1>4
<1>6. \A e \in Devices : device_written[e] \subseteq device_written'[e]
  BY <1>5
<1>7. ProgramInv' /\ devices_run' \in BOOLEAN
      /\ (\A n : R!Initialized(n)' = R!Initialized(n))
      /\ \A kind : \A n : R!Index(kind, n)' = R!Index(kind, n)
  BY <1>1, ProgramKept
<1>8. /\ signals' \in [Devices -> [Semaphores -> Nat]]
      /\ \A e \in Devices, t \in Semaphores :
           (e # d \/ t # program[k].semaphore) => signals'[e][t] = signals[e][t]
  BY <1>1, <1>2 DEF RemoteInv, DeviceTypes
<1>9. DeviceTypes'
  BY <1>1, <1>5, <1>8 DEF RemoteInv, DeviceTypes
<1>10. ArrivedIsWritten'
  <2> SUFFICES ASSUME NEW j \in R!Index("start", Len(program)), NEW e \in Devices, <<j, e>> \in arrived'
               PROVE  e \in DOMAIN program[j].plan /\ program[j].dest \in device_written'[e]
    BY <1>1, <1>7 DEF ArrivedIsWritten
  <2>1. CASE <<j, e>> \in arrived
    BY <1>1, <1>6, <2>1 DEF RemoteInv, ArrivedIsWritten
  <2>2. CASE j = k /\ e = d
    BY <1>1, <1>5, <2>2
  <2> QED BY <1>1, <2>1, <2>2
<1>11. SignalsHaveArrivals'
  <2> SUFFICES ASSUME NEW e \in Devices, NEW t \in Semaphores, signals'[e][t] > 0
               PROVE  \E j \in R!Index("start", Len(program)) :
                        program[j].semaphore = t /\ <<j, e>> \in arrived'
    BY <1>1, <1>7 DEF SignalsHaveArrivals
  <2>1. CASE e = d /\ t = program[k].semaphore
    BY <1>1, <2>1
  <2>2. CASE e # d \/ t # program[k].semaphore
    BY <1>1, <1>8, <2>2 DEF RemoteInv, SignalsHaveArrivals
  <2> QED BY <2>1, <2>2
<1>12. InitializedEverywhere'
  BY <1>1, <1>6, <1>7 DEF RemoteInv, InitializedEverywhere, R!InitializedEverywhere
<1> QED BY <1>1, <1>7, <1>9, <1>10, <1>11, <1>12 DEF RemoteInv

LEMMA RemoteStep == RemoteInv /\ [R!Next]_(R!vars) => RemoteInv'
<1> SUFFICES ASSUME RemoteInv, [R!Next]_(R!vars) PROVE RemoteInv'
  OBVIOUS
<1>1. ASSUME R!RemoteDmaStart PROVE RemoteInv'
  <2>1. PICK source \in R!Initialized(Len(program)), dest \in Vmem \ R!Written,
             semaphore \in Semaphores, plan \in R!Plan :
          /\ \A k \in R!Index("start", Len(program)) : program[k].semaphore # semaphore
          /\ R!Add([kind |-> "start", source |-> source, dest |-> dest,
                  semaphore |-> semaphore, plan |-> plan])
    BY <1>1 DEF R!RemoteDmaStart
  <2>2. source \in R!Buffer
    BY InitializedAreBuffers
  <2> DEFINE operation == [kind |-> "start", source |-> source, dest |-> dest,
                           semaphore |-> semaphore, plan |-> plan]
  <2>3. operation \in R!Operation
    BY <2>2 DEF R!Operation
  <2>4. /\ operation.kind = "start" /\ operation.source = source
        /\ operation.semaphore = semaphore
    OBVIOUS
  <2> HIDE DEF operation
  <2> QED BY <2>1, <2>3, <2>4, AddStep DEF operation
<1>2. ASSUME R!RemoteDmaWait PROVE RemoteInv'
  <2>1. PICK k \in R!InFlight : R!Add([kind |-> "wait", start |-> k])
    BY <1>2 DEF R!RemoteDmaWait
  <2>2. [kind |-> "wait", start |-> k] \in R!Operation /\ k \in R!Index("start", Len(program))
    BY DEF R!Operation, R!InFlight, R!Index
  <2> QED BY <2>1, <2>2, AddStep
<1>3. ASSUME R!Compute PROVE RemoteInv'
  <2>1. PICK source \in R!Initialized(Len(program)), dest \in Vmem \ R!Written :
          R!Add([kind |-> "compute", source |-> source, dest |-> dest])
    BY <1>3 DEF R!Compute
  <2>2. [kind |-> "compute", source |-> source, dest |-> dest] \in R!Operation
    BY InitializedAreBuffers DEF R!Operation
  <2> QED BY <2>1, <2>2, AddStep
<1>4. ASSUME UNCHANGED R!vars PROVE RemoteInv'
  <2>1. UNCHANGED <<program, devices_run, device_at, device_written, arrived, signals>>
    BY <1>4 DEF R!vars
  <2>2. ProgramInv' /\ devices_run' \in BOOLEAN
        /\ (\A n : R!Initialized(n)' = R!Initialized(n))
        /\ \A kind : \A n : R!Index(kind, n)' = R!Index(kind, n)
    BY <2>1, ProgramKept
  <2>3. DeviceTypes' /\ (~devices_run => Idle')
    BY <2>1 DEF RemoteInv, DeviceTypes, Idle
  <2>4. devices_run => ArrivedIsWritten' /\ SignalsHaveArrivals'
    BY <2>1, <2>2 DEF RemoteInv, ArrivedIsWritten, SignalsHaveArrivals
  <2>5. InitializedEverywhere'
    BY <2>1, <2>2 DEF RemoteInv, InitializedEverywhere, R!InitializedEverywhere
  <2> QED BY <2>1, <2>2, <2>3, <2>4, <2>5 DEF RemoteInv
<1> QED
  BY <1>1, <1>2, <1>3, <1>4, AcceptStep, RunStartStep, ArriveStep, RunWaitStep, RunComputeStep DEF R!Next

\* Whatever counts as initialized where a device stands in the program has
\* been written on that device, although the verifier looked at the program
\* alone and a transfer plan may leave devices out.
THEOREM InitializationIsGlobal == R!Spec => []InitializedEverywhere
<1>1. RemoteInv => InitializedEverywhere
  BY DEF RemoteInv
<1> QED BY <1>1, RemoteInit, RemoteStep, PTL DEF R!Spec

-----------------------------------------------------------------------------
(* Pipelined loops.                                                         *)

\* What the verifier's tests leave of a loop's body.
BodyInv ==
  /\ stages \in Positive /\ interval \in Positive
  /\ body \in Seq(P!Operation)
  /\ \A k \in DOMAIN body : body[k].stage < stages
  /\ \A j, k \in DOMAIN body : j <= k => body[j].stage <= body[k].stage
  /\ \A w \in P!Index("wait") : body[w].start \in P!Starts /\ body[w].start < w
  /\ \A v, w \in P!Index("wait") : body[v].start = body[w].start => v = w

\* Before the loop is accepted no iteration has done anything.
LoopIdle ==
  /\ now = 0
  /\ iteration_at = [i \in P!Iteration |-> 1]
  /\ landed = [i \in P!Iteration |-> {}]

\* An iteration is abreast of the clock: what it has done belongs to stages up
\* to its own, and what it has not to stages from there on.
ClockInv ==
  /\ now \in 0..(P!Horizon - 1)
  /\ iteration_at \in [P!Iteration -> Nat]
  /\ \A i \in P!Iteration :
       /\ iteration_at[i] \in 1..(Len(body) + 1)
       /\ \A k \in DOMAIN body :
            /\ k < iteration_at[i] => body[k].stage <= P!Logical(now, i)
            /\ k >= iteration_at[i] => P!Logical(now, i) <= body[k].stage

\* A copy lands after its start and before its wait.
LandedInv ==
  /\ landed \in [P!Iteration -> SUBSET P!Starts]
  /\ \A i \in P!Iteration :
       /\ \A k \in landed[i] : k < iteration_at[i]
       /\ \A w \in P!Index("wait") : w < iteration_at[i] => body[w].start \in landed[i]

BankCount(c) == IF P!UseStages(c) = {} THEN 1 ELSE P!Rotation(c)

BankTypes ==
  /\ banks = [c \in P!Capture |-> banks[c]]
  /\ \A c \in P!Capture : banks[c] \in [0..(BankCount(c) - 1) -> Int]

\* Iteration i has put something into its bank of capture c.
Wrote(i, c) ==
  \/ \E k \in DOMAIN body : k < iteration_at[i] /\ body[k].kind = "compute" /\ body[k].dest = c
  \/ \E k \in landed[i] : body[k].dest = c

\* To the end of the capture's lifetime it stays there.
BanksKept ==
  \A i \in P!Iteration, c \in P!Capture :
    Wrote(i, c) /\ (\E s \in P!UseStages(c) : P!Logical(now, i) <= s)
      => banks[c][P!Bank(c, i)] = i

\* IterationsKeepApart is not inductive alone: a copy that has landed is not
\* yet waited for, and a clock that ran ahead would let lifetimes meet.
LoopInv ==
  /\ loop_runs \in BOOLEAN
  /\ BodyInv
  /\ ~loop_runs => LoopIdle
  /\ loop_runs => P!Pending = {} /\ ClockInv /\ LandedInv /\ BankTypes /\ BanksKept

-----------------------------------------------------------------------------
(* Bounded sets have a greatest and a least element.                        *)

LEMMA MaxIs ==
  ASSUME NEW T, T \subseteq Nat, T # {}, NEW n \in Nat, \A x \in T : x <= n
  PROVE  P!Max(T) \in T /\ \A x \in T : x <= P!Max(T)
<1> PICK U : U = {m \in Nat : \A x \in T : x <= m}
  OBVIOUS
<1>1. U \subseteq Nat /\ U # {}
  OBVIOUS
<1>2. PICK m \in U : \A y \in U : m <= y
  BY ONLY <1>1, LeastNat
<1>3. m \in Nat /\ \A x \in T : x <= m
  OBVIOUS
<1>4. m \in T
  <2> SUFFICES ASSUME m \notin T PROVE FALSE
    OBVIOUS
  <2>1. \A x \in T : x <= m - 1
    BY <1>3
  <2>2. m - 1 \in Nat
    <3>1. PICK x \in T : TRUE
      OBVIOUS
    <3> QED BY <1>3, <2>1, <3>1
  <2>3. m - 1 \in U
    BY <2>1, <2>2
  <2> QED BY <1>2, <1>3, <2>3
<1>5. \E x \in T : \A y \in T : x >= y
  BY <1>3, <1>4
<1> QED BY <1>5 DEF P!Max

LEMMA MinIs ==
  ASSUME NEW T, T \subseteq Nat, T # {}
  PROVE  P!Min(T) \in T /\ \A x \in T : P!Min(T) <= x
<1>1. \E x \in T : \A y \in T : x <= y
  BY LeastNat
<1> QED BY <1>1 DEF P!Min

\* Iterations with one bank are a multiple of the banks apart.
LEMMA BanksApart ==
  ASSUME NEW n \in Positive, NEW i \in Nat, NEW j \in Nat, i % n = j % n, i < j
  PROVE  j - i >= n
<1> PICK qi, qj, x : qi = i \div n /\ qj = j \div n /\ x = i % n
  OBVIOUS
<1>1. /\ n \in Nat /\ n >= 1 /\ qi \in Int /\ qj \in Int /\ x \in Int
      /\ i = n * qi + x /\ j = n * qj + x
  BY Division DEF Positive
<1>2. qj >= qi + 1
  <2>1. \A a, b \in Int : a <= b => n * a <= n * b
    BY ONLY <1>1
  <2>2. n * qi \in Int /\ n * qj \in Int
    BY ONLY <1>1
  <2> QED BY <1>1, <2>1, <2>2
<1>3. n * qj >= n * qi + n
  <2>1. \A a, b \in Int : a <= b => n * a <= n * b
    BY ONLY <1>1
  <2>2. n * (qi + 1) = n * qi + n
    BY ONLY <1>1
  <2>3. qi + 1 \in Int
    BY ONLY <1>1
  <2> QED BY ONLY <1>1, <1>2, <2>1, <2>2, <2>3
<1>4. n * qi \in Int /\ n * qj \in Int
  BY ONLY <1>1
<1> QED BY ONLY <1>1, <1>3, <1>4

LEMMA CeilingIs ==
  ASSUME NEW d \in Positive, NEW n \in Int
  PROVE  P!Ceiling(n, d) \in Int /\ d * P!Ceiling(n, d) >= n
<1> PICK m, q : m = n + d - 1 /\ q = m \div d
  OBVIOUS
<1>1. m \in Int /\ d \in Nat
  BY DEF Positive
<1>2. q \in Int /\ m % d \in 0..(d - 1) /\ m = d * q + (m % d)
  BY <1>1, Division
<1>3. P!Ceiling(n, d) = q
  BY DEF P!Ceiling
<1>4. d * q \in Int
  BY ONLY <1>1, <1>2
<1> QED BY <1>1, <1>2, <1>3, <1>4

-----------------------------------------------------------------------------
(* The lifetime and the banks of a capture.                                 *)

LEMMA StagesAre ==
  ASSUME BodyInv, NEW c
  PROVE  P!UseStages(c) \subseteq Nat /\ \A s \in P!UseStages(c) : s < stages
<1>1. \A k \in DOMAIN body : body[k] \in P!Operation
  BY DEF BodyInv
<1>2. \A k \in DOMAIN body : body[k].stage \in Nat /\ body[k].stage < stages
  BY <1>1 DEF BodyInv, P!Operation
<1> QED BY <1>2 DEF P!UseStages

\* A capture that is written has banks for the whole of its lifetime.
LEMMA RotationIs ==
  ASSUME BodyInv, NEW c \in P!Written, P!UseStages(c) # {}, NEW s \in P!UseStages(c), NEW t \in P!UseStages(c)
  PROVE  P!Rotation(c) \in Positive /\ t - s < interval * P!Rotation(c)
<1>1. interval \in Positive /\ stages \in Nat
  BY DEF BodyInv, Positive
<1> PICK T : T = P!UseStages(c)
  OBVIOUS
<1>2. T \subseteq Nat /\ \A x \in T : x < stages
  BY StagesAre
<1> PICK low, high : low = P!Min(T) /\ high = P!Max(T)
  OBVIOUS
<1>3. low \in T /\ \A x \in T : low <= x
  BY <1>2, MinIs
<1>4. high \in T /\ \A x \in T : x <= high
  <2>1. \A x \in T : x <= stages
    BY <1>1, <1>2
  <2> QED BY <1>1, <1>2, <2>1, MaxIs
<1> PICK n : n = P!LiveStages(c)
  OBVIOUS
<1>5. n = high - low + 1 /\ n \in Int
  BY <1>2, <1>3, <1>4 DEF P!LiveStages
<1> PICK q : q = P!Ceiling(n, interval)
  OBVIOUS
<1>6. q \in Int /\ interval * q >= n
  BY <1>1, <1>5, CeilingIs
<1>7. n >= 1
  BY <1>2, <1>3, <1>4, <1>5
<1>8. q >= 1
  <2>1. interval \in Int /\ interval >= 1
    BY <1>1 DEF Positive
  <2>2. \A a \in Int : a <= 0 => interval * a <= 0
    BY ONLY <2>1
  <2>3. interval * q \in Int
    BY ONLY <1>6, <2>1
  <2> QED BY ONLY <1>5, <1>6, <1>7, <2>2, <2>3
<1>9. P!Rotation(c) = q
  <2>1. P!Rotation(c) = P!Max({1, q})
    BY DEF P!Rotation
  <2>2. P!Max({1, q}) \in {1, q} /\ \A x \in {1, q} : x <= P!Max({1, q})
    <3>1. {1, q} \subseteq Nat /\ {1, q} # {} /\ q \in Nat /\ \A x \in {1, q} : x <= q
      BY <1>6, <1>8
    <3> QED BY ONLY <3>1, MaxIs
  <2> QED BY <1>6, <1>8, <2>1, <2>2
<1>10. t - s < n
  BY <1>2, <1>3, <1>4, <1>5
<1>11. interval * q \in Int
  BY <1>1, <1>6 DEF Positive
<1>12. t - s < interval * q
  <2>1. t - s \in Int
    BY <1>2
  <2> QED BY ONLY <1>5, <1>6, <1>10, <1>11, <2>1
<1> QED BY <1>6, <1>8, <1>9, <1>12 DEF Positive

-----------------------------------------------------------------------------
(* The body of a loop.                                                      *)

LEMMA BodyKept ==
  ASSUME UNCHANGED <<stages, interval, body>>
  PROVE  /\ BodyInv => BodyInv'
         /\ \A kind : P!Index(kind)' = P!Index(kind)
         /\ P!Starts' = P!Starts /\ P!Pending' = P!Pending /\ P!Horizon' = P!Horizon
         /\ \A c : P!UseStages(c)' = P!UseStages(c) /\ BankCount(c)' = BankCount(c)
         /\ \A i : P!Logical(now, i)' = P!Logical(now', i)
<1>1. \A kind : P!Index(kind)' = P!Index(kind)
  BY DEF P!Index
<1>2. P!Starts' = P!Starts
  BY <1>1 DEF P!Starts
<1>3. P!Pending' = P!Pending
  BY <1>1, <1>2 DEF P!Pending
<1>4. P!Horizon' = P!Horizon
  BY DEF P!Horizon
<1>5. \A c : P!UseStages(c)' = P!UseStages(c)
  BY DEF P!UseStages, P!Uses
<1>6. P!Written' = P!Written
  BY <1>1, <1>2 DEF P!Written
<1>7. \A c : BankCount(c)' = BankCount(c)
  BY <1>5, <1>6 DEF BankCount, P!Rotation, P!LiveStages
<1>8. \A i : P!Logical(now, i)' = P!Logical(now', i)
  BY DEF P!Logical
<1>9. BodyInv => BodyInv'
  BY <1>1, <1>2 DEF BodyInv
<1> QED BY <1>1, <1>2, <1>3, <1>4, <1>5, <1>7, <1>8, <1>9

\* An operation's kind tells what it has.
LEMMA OperationIs ==
  ASSUME BodyInv, NEW k \in DOMAIN body
  PROVE  /\ body[k].stage \in Nat /\ k \in Nat /\ k >= 1 /\ k <= Len(body)
         /\ body[k].kind \in {"start", "wait", "compute"}
         /\ body[k].kind # "wait" => /\ body[k].source \in P!Capture /\ body[k].dest \in P!Capture
                                     /\ body[k].dest \in P!Written
                                     /\ body[k].stage \in P!UseStages(body[k].dest)
                                     /\ body[k].stage \in P!UseStages(body[k].source)
         /\ body[k].kind = "wait" => /\ body[k].start \in P!Starts
                                     /\ body[k].stage \in P!UseStages(body[body[k].start].dest)
                                     /\ body[k].stage \in P!UseStages(body[body[k].start].source)
<1>1. body[k] \in P!Operation /\ body \in Seq(P!Operation)
  BY DEF BodyInv
<1>2. body[k].stage \in Nat /\ body[k].kind \in {"start", "wait", "compute"}
  BY <1>1 DEF P!Operation
<1>3. k \in Nat /\ k >= 1 /\ k <= Len(body)
  BY <1>1
<1>4. ASSUME body[k].kind # "wait"
      PROVE  /\ body[k].source \in P!Capture /\ body[k].dest \in P!Capture
             /\ body[k].dest \in P!Written
             /\ body[k].stage \in P!UseStages(body[k].dest)
             /\ body[k].stage \in P!UseStages(body[k].source)
  <2>1. body[k].source \in P!Capture /\ body[k].dest \in P!Capture
    BY <1>1, <1>4 DEF P!Operation, P!Capture
  <2>2. body[k].dest \in P!Written
    BY <1>2, <1>4 DEF P!Written, P!Starts, P!Index
  <2>3. P!Uses(k, body[k].dest) /\ P!Uses(k, body[k].source)
    BY <1>4 DEF P!Uses
  <2> QED BY <2>1, <2>2, <2>3 DEF P!UseStages
<1>5. ASSUME body[k].kind = "wait"
      PROVE  /\ body[k].start \in P!Starts
             /\ body[k].stage \in P!UseStages(body[body[k].start].dest)
             /\ body[k].stage \in P!UseStages(body[body[k].start].source)
  <2>1. body[k].start \in P!Starts
    BY <1>5 DEF BodyInv, P!Index
  <2>2. P!Uses(k, body[body[k].start].dest) /\ P!Uses(k, body[body[k].start].source)
    BY <1>5 DEF P!Uses
  <2> QED BY <2>1, <2>2 DEF P!UseStages
<1> QED BY <1>2, <1>3, <1>4, <1>5

LEMMA StartsAre ==
  ASSUME NEW k \in P!Starts
  PROVE  k \in DOMAIN body /\ body[k].kind = "start"
BY DEF P!Starts, P!Index

\* In a loop that runs every copy has its wait.
LEMMA WaitsAre ==
  ASSUME BodyInv, P!Pending = {}, NEW k \in P!Starts
  PROVE  \E w \in P!Index("wait") : w \in DOMAIN body /\ body[w].kind = "wait" /\ body[w].start = k
BY DEF P!Pending, P!Index

LEMMA LoopInit == P!Init => LoopInv
<1> SUFFICES ASSUME P!Init PROVE LoopInv
  OBVIOUS
<1>1. stages \in Positive /\ interval \in Positive
  BY LoopAssumption DEF P!Init, Positive
<1>2. BodyInv
  BY <1>1 DEF P!Init, BodyInv, P!Index
<1> QED BY <1>2 DEF P!Init, LoopInv, LoopIdle

\* An operation that passes the tests leaves the body in order.
LEMMA LoopAddStep ==
  ASSUME LoopInv, NEW operation \in P!Operation, P!Add(operation),
         operation.kind = "wait" => operation.start \in P!Pending
  PROVE  LoopInv'
<1>1. /\ ~loop_runs /\ operation.stage < stages
      /\ body # <<>> => body[Len(body)].stage <= operation.stage
      /\ body' = Append(body, operation)
      /\ UNCHANGED <<stages, interval, loop_runs, now, iteration_at, landed, banks>>
  BY DEF P!Add
<1> PICK n : n = Len(body)
  OBVIOUS
<1>2. /\ BodyInv /\ n \in Nat /\ body \in Seq(P!Operation) /\ body' \in Seq(P!Operation)
      /\ DOMAIN body = 1..n /\ DOMAIN body' = 1..(n + 1)
      /\ body'[n + 1] = operation /\ \A k \in 1..n : body'[k] = body[k]
  BY <1>1 DEF LoopInv, BodyInv
<1>3. \A kind : P!Index(kind)' = P!Index(kind) \cup (IF operation.kind = kind THEN {n + 1} ELSE {})
  BY <1>2 DEF P!Index
<1>4. P!Starts \subseteq P!Starts' /\ P!Starts \subseteq 1..n
  BY <1>2, <1>3 DEF P!Starts, P!Index
<1>5. \A k \in DOMAIN body' : body'[k].stage < stages
  BY <1>1, <1>2 DEF BodyInv
<1>6. \A j, k \in DOMAIN body' : j <= k => body'[j].stage <= body'[k].stage
  <2> SUFFICES ASSUME NEW j \in 1..(n + 1), NEW k \in 1..(n + 1), j <= k
               PROVE  body'[j].stage <= body'[k].stage
    BY <1>2
  <2>1. \A m \in DOMAIN body' : body'[m] \in P!Operation
    BY <1>2
  <2>2. \A m \in DOMAIN body' : body'[m].stage \in Nat
    BY <2>1 DEF P!Operation
  <2>3. CASE k \in 1..n
    BY <1>2, <2>3 DEF BodyInv
  <2>4. CASE k = n + 1 /\ j \in 1..n
    <3>1. body # <<>> /\ body[j].stage <= body[n].stage /\ n \in DOMAIN body
      BY <1>2, <2>4 DEF BodyInv
    <3>2. body[n].stage <= operation.stage
      BY <1>1, <3>1
    <3>3. /\ body'[j] = body[j] /\ body'[n] = body[n] /\ body'[k] = operation
          /\ j \in DOMAIN body' /\ n \in DOMAIN body' /\ k \in DOMAIN body'
      BY <1>2, <2>4, <3>1
    <3>4. body[j].stage \in Nat /\ body[n].stage \in Nat /\ operation.stage \in Nat
      BY <2>2, <3>3
    <3> QED BY <3>1, <3>2, <3>3, <3>4
  <2>5. CASE k = n + 1 /\ j = n + 1
    BY <1>2, <2>2, <2>5
  <2> QED BY <1>2, <2>3, <2>4, <2>5
<1>7. \A w \in P!Index("wait")' : body'[w].start \in P!Starts' /\ body'[w].start < w
  <2> SUFFICES ASSUME NEW w \in P!Index("wait")' PROVE body'[w].start \in P!Starts' /\ body'[w].start < w
    OBVIOUS
  <2>1. CASE w \in P!Index("wait")
    BY <1>2, <1>4, <2>1 DEF BodyInv, P!Index
  <2>2. CASE w = n + 1 /\ operation.kind = "wait"
    <3>1. operation.start \in P!Starts
      BY <2>2 DEF P!Pending
    <3>2. body'[w] = operation
      BY <1>2, <2>2
    <3>3. operation.start \in P!Starts' /\ operation.start \in 1..n
      BY <1>4, <3>1
    <3>4. operation.start < w
      BY <1>2, <2>2, <3>3
    <3> QED BY <3>2, <3>3, <3>4
  <2> QED BY <1>3, <2>1, <2>2
<1>8. \A v, w \in P!Index("wait")' : body'[v].start = body'[w].start => v = w
  <2>1. \A v \in P!Index("wait") : body'[v] = body[v]
    BY <1>2 DEF P!Index
  <2>2. operation.kind = "wait" => \A v \in P!Index("wait") : body[v].start # operation.start
    BY DEF P!Pending
  <2> QED BY <1>2, <1>3, <2>1, <2>2 DEF BodyInv
<1>9. BodyInv'
  BY <1>1, <1>2, <1>5, <1>6, <1>7, <1>8 DEF BodyInv
<1> QED BY <1>1, <1>9 DEF LoopInv, LoopIdle

\* The loop enters at stage 0, with a bank for every overlap.
LEMMA LoopAcceptStep == ASSUME LoopInv, P!Accept PROVE LoopInv'
<1>1. /\ ~loop_runs /\ loop_runs' = TRUE /\ P!Pending = {}
      /\ banks' = [c \in P!Capture |-> [b \in 0..(BankCount(c) - 1) |-> -1]]
      /\ UNCHANGED <<stages, interval, body, now, iteration_at, landed>>
  BY DEF P!Accept, P!schedule, BankCount
<1>2. BodyInv /\ LoopIdle
  BY <1>1 DEF LoopInv
<1>3. /\ BodyInv' /\ P!Pending' = {} /\ P!Horizon' = P!Horizon
      /\ P!Starts' = P!Starts
      /\ \A kind : P!Index(kind)' = P!Index(kind)
      /\ \A c : P!UseStages(c)' = P!UseStages(c) /\ BankCount(c)' = BankCount(c)
      /\ \A i : P!Logical(now, i)' = P!Logical(now', i)
  BY <1>1, <1>2, BodyKept
<1>4. Len(body) \in Nat /\ DOMAIN body = 1..Len(body)
  BY <1>2 DEF BodyInv
<1>5. ClockInv'
  <2>1. now' = 0 /\ iteration_at' = [i \in P!Iteration |-> 1]
    BY <1>1, <1>2 DEF LoopIdle
  <2>2. 0 \in 0..(P!Horizon - 1)
    <3>1. interval \in Nat /\ stages \in Nat /\ stages >= 1 /\ Trip - 1 \in Nat
      BY <1>2, LoopAssumption DEF BodyInv, Positive
    <3>2. (Trip - 1) * interval \in Nat
      BY ONLY <3>1
    <3>3. P!Horizon = (Trip - 1) * interval + stages
      BY DEF P!Horizon
    <3> QED BY ONLY <3>1, <3>2, <3>3
  <2>3. ASSUME NEW i \in P!Iteration, NEW k \in DOMAIN body
        PROVE  P!Logical(0, i) <= body[k].stage
    <3>1. body[k].stage \in Nat
      BY <1>2, OperationIs
    <3>2. i \in Nat /\ interval \in Nat
      BY <1>2 DEF P!Iteration, BodyInv, Positive
    <3>3. i * interval \in Nat
      BY ONLY <3>2
    <3> QED BY <3>1, <3>3 DEF P!Logical
  <2>4. \A i \in P!Iteration :
          /\ iteration_at'[i] \in 1..(Len(body') + 1)
          /\ \A k \in DOMAIN body' :
               /\ k < iteration_at'[i] => body'[k].stage <= P!Logical(now, i)'
               /\ k >= iteration_at'[i] => P!Logical(now, i)' <= body'[k].stage
    <3> SUFFICES ASSUME NEW i \in P!Iteration
                 PROVE  /\ iteration_at'[i] \in 1..(Len(body') + 1)
                        /\ \A k \in DOMAIN body' :
                             /\ k < iteration_at'[i] => body'[k].stage <= P!Logical(now, i)'
                             /\ k >= iteration_at'[i] => P!Logical(now, i)' <= body'[k].stage
      OBVIOUS
    <3>1. iteration_at'[i] = 1 /\ body' = body /\ now' = 0
      BY <1>1, <2>1
    <3> QED BY <1>3, <1>4, <2>3, <3>1
  <2> QED BY <1>1, <1>3, <2>1, <2>2, <2>4 DEF ClockInv
<1>6. LandedInv'
  <2>1. \A i \in P!Iteration : iteration_at'[i] = 1 /\ landed'[i] = {}
    BY <1>1, <1>2 DEF LoopIdle
  <2>2. landed' \in [P!Iteration -> SUBSET P!Starts]
    BY <1>1, <1>2 DEF LoopIdle
  <2>3. \A w \in P!Index("wait") : w >= 1
    BY <1>4 DEF P!Index
  <2>4. \A i \in P!Iteration :
          /\ \A k \in landed'[i] : k < iteration_at'[i]
          /\ \A w \in P!Index("wait") : w < iteration_at'[i] => body'[w].start \in landed'[i]
    <3>1. \A w \in P!Index("wait") : w \in Int
      BY <1>4 DEF P!Index
    <3> QED BY <2>1, <2>3, <3>1
  <2> QED BY <1>3, <2>2, <2>4 DEF LandedInv
<1>7. BankTypes'
  <2>1. \A c \in P!Capture : banks'[c] = [b \in 0..(BankCount(c) - 1) |-> -1]
    BY <1>1
  <2>2. \A c \in P!Capture : banks'[c] \in [0..(BankCount(c) - 1) -> Int]
    <3> SUFFICES ASSUME NEW c \in P!Capture PROVE banks'[c] \in [0..(BankCount(c) - 1) -> Int]
      OBVIOUS
    <3> PICK S : S = 0..(BankCount(c) - 1)
      OBVIOUS
    <3>1. banks'[c] = [b \in S |-> -1]
      BY <2>1
    <3>2. [b \in S |-> -1] \in [S -> Int]
      OBVIOUS
    <3> QED BY <3>1, <3>2
  <2>3. banks' = [c \in P!Capture |-> banks'[c]]
    BY <1>1
  <2> QED BY <1>3, <2>2, <2>3 DEF BankTypes
<1>8. BanksKept'
  <2> SUFFICES ASSUME NEW i \in P!Iteration, NEW c, Wrote(i, c)' PROVE FALSE
    BY DEF BanksKept
  <2>1. iteration_at'[i] = 1 /\ landed'[i] = {} /\ body' = body
    BY <1>1, <1>2 DEF LoopIdle
  <2>2. \A k \in DOMAIN body : ~(k < 1)
    BY <1>4
  <2> QED BY <2>1, <2>2 DEF Wrote
<1> QED BY <1>1, <1>3, <1>5, <1>6, <1>7, <1>8 DEF LoopInv

-----------------------------------------------------------------------------
(* The loop.                                                                *)

\* What an iteration has put into a bank it did in the capture's lifetime.
LEMMA WroteIs ==
  ASSUME LoopInv, loop_runs, NEW i \in P!Iteration, NEW c, Wrote(i, c)
  PROVE  c \in P!Written /\ \E s \in P!UseStages(c) : s <= P!Logical(now, i)
<1>1. BodyInv /\ ClockInv /\ LandedInv
  BY DEF LoopInv
<1>2. CASE \E k \in DOMAIN body : k < iteration_at[i] /\ body[k].kind = "compute" /\ body[k].dest = c
  <2>1. PICK k \in DOMAIN body : k < iteration_at[i] /\ body[k].kind = "compute" /\ body[k].dest = c
    BY <1>2
  <2> QED BY <1>1, <2>1, OperationIs DEF ClockInv
<1>3. CASE \E k \in landed[i] : body[k].dest = c
  <2>1. PICK k \in landed[i] : body[k].dest = c
    BY <1>3
  <2>2. k \in P!Starts /\ k < iteration_at[i]
    BY <1>1 DEF LandedInv
  <2>3. k \in DOMAIN body /\ body[k].kind = "start"
    BY <2>2, StartsAre
  <2> QED BY <1>1, <2>1, <2>2, <2>3, OperationIs DEF ClockInv
<1> QED BY <1>2, <1>3 DEF Wrote

LEMMA LogicalIs ==
  ASSUME LoopInv, loop_runs, NEW i \in P!Iteration
  PROVE  P!Logical(now, i) \in Int /\ P!Logical(now, i) = now - i * interval
         /\ i \in Nat /\ i * interval \in Int /\ now \in Int /\ interval \in Nat /\ interval >= 1
<1>1. i \in Nat /\ interval \in Nat /\ interval >= 1 /\ now \in Int
  BY DEF LoopInv, BodyInv, ClockInv, Positive, P!Iteration
<1>2. i * interval \in Int
  BY ONLY <1>1
<1> QED BY <1>1, <1>2 DEF P!Logical

LEMMA BankIs ==
  ASSUME LoopInv, loop_runs, NEW c \in P!Capture, NEW i
  PROVE  P!Bank(c, i) = i % BankCount(c) /\ DOMAIN banks[c] = 0..(BankCount(c) - 1)
         /\ BankCount(c) \in Positive
<1> PICK n : n = BankCount(c)
  OBVIOUS
<1>1. BodyInv /\ banks[c] \in [0..(n - 1) -> Int]
  BY DEF LoopInv, BankTypes
<1>2. n \in Positive
  <2>1. CASE P!UseStages(c) = {}
    BY <2>1 DEF BankCount, Positive
  <2>2. CASE P!UseStages(c) # {} /\ c \in P!Written
    BY <1>1, <2>2, RotationIs DEF BankCount
  <2>3. CASE P!UseStages(c) # {} /\ c \notin P!Written
    BY <2>3 DEF BankCount, P!Rotation, Positive
  <2> QED BY <2>1, <2>2, <2>3
<1>3. DOMAIN banks[c] = 0..(n - 1)
  BY <1>1
<1>4. P!Cardinality(0..(n - 1)) = n
  <2>1. 0 \in Int /\ n - 1 \in Int /\ ~(0 > n - 1) /\ (n - 1) - 0 + 1 = n
    BY <1>2 DEF Positive
  <2>2. Cardinality(0..(n - 1)) = n
    BY <2>1, FS_Interval
  <2>3. \A S : P!Cardinality(S) = Cardinality(S)
    BY DEF P!Cardinality, Cardinality
  <2> QED BY <2>2, <2>3
<1> QED BY <1>2, <1>3, <1>4 DEF P!Bank

\* Two iterations in the lifetime of a capture have banks of their own.
LEMMA LifetimesApart ==
  ASSUME LoopInv, loop_runs, NEW c \in P!Capture, c \in P!Written,
         NEW i \in P!Iteration, NEW j \in P!Iteration, i # j,
         NEW s \in P!UseStages(c), s <= P!Logical(now, i),
         NEW t \in P!UseStages(c), P!Logical(now, i) <= t,
         NEW u \in P!UseStages(c), u <= P!Logical(now, j),
         NEW v \in P!UseStages(c), P!Logical(now, j) <= v
  PROVE  P!Bank(c, i) # P!Bank(c, j)
<1> PICK n : n = BankCount(c)
  OBVIOUS
<1>1. n = P!Rotation(c) /\ n \in Positive /\ v - s < interval * n /\ t - u < interval * n
  <2>1. BodyInv /\ P!UseStages(c) # {}
    BY DEF LoopInv
  <2>2. n = P!Rotation(c)
    BY <2>1 DEF BankCount
  <2>3. P!Rotation(c) \in Positive /\ v - s < interval * P!Rotation(c)
    BY <2>1, RotationIs
  <2>4. t - u < interval * P!Rotation(c)
    BY <2>1, RotationIs
  <2> QED BY <2>2, <2>3, <2>4
<1>2. s \in Int /\ t \in Int /\ u \in Int /\ v \in Int
  BY StagesAre DEF LoopInv
<1>3. P!Bank(c, i) = i % n /\ P!Bank(c, j) = j % n
  BY BankIs
<1> PICK x, y : x = P!Logical(now, i) /\ y = P!Logical(now, j)
  OBVIOUS
<1>4. /\ i \in Nat /\ j \in Nat /\ now \in Int /\ interval \in Nat /\ interval >= 1
      /\ i * interval \in Int /\ j * interval \in Int
      /\ x = now - i * interval /\ y = now - j * interval
  BY LogicalIs
<1>5. s <= x /\ x <= t /\ u <= y /\ y <= v
  OBVIOUS
<1>6. n \in Nat
  BY <1>1 DEF Positive
<1>7. \A a, b \in Int : a - b >= n => a * interval - b * interval >= interval * n
  <2>1. \A a, b \in Int : a >= b => a * interval >= b * interval
    BY ONLY <1>4
  <2>2. \A a, b \in Int : (b + n) * interval = b * interval + interval * n
    BY ONLY <1>4, <1>6
  <2> SUFFICES ASSUME NEW a \in Int, NEW b \in Int, a - b >= n
               PROVE  a * interval - b * interval >= interval * n
    OBVIOUS
  <2>3. a * interval >= (b + n) * interval
    BY ONLY <1>6, <2>1, a - b >= n, a \in Int, b \in Int
  <2>4. a * interval \in Int /\ b * interval \in Int /\ interval * n \in Int
    BY ONLY <1>4, <1>6, a \in Int, b \in Int
  <2>5. a * interval >= b * interval + interval * n
    BY <2>2, <2>3
  <2> QED BY ONLY <2>4, <2>5
<1>8. interval * n \in Int
  BY ONLY <1>4, <1>6
<1>9. j * interval - i * interval < interval * n /\ i * interval - j * interval < interval * n
  BY ONLY <1>1, <1>2, <1>4, <1>5, <1>8
<1>10. ~(j - i >= n) /\ ~(i - j >= n)
  <2>1. i \in Int /\ j \in Int
    BY <1>4
  <2>2. j - i >= n => j * interval - i * interval >= interval * n
    BY ONLY <1>7, <2>1
  <2>3. i - j >= n => i * interval - j * interval >= interval * n
    BY ONLY <1>7, <2>1
  <2> QED BY ONLY <1>4, <1>8, <1>9, <2>2, <2>3
<1>11. i % n # j % n
  BY <1>1, <1>4, <1>10, BanksApart
<1> QED BY <1>3, <1>11

\* A write in the capture's lifetime harms no iteration that is still in its own.
LEMMA LoopWriteStep ==
  ASSUME LoopInv, loop_runs, NEW c \in P!Capture, c \in P!Written, NEW j \in P!Iteration,
         P!Write(c, j), UNCHANGED <<stages, interval, body, now>>,
         NEW s \in P!UseStages(c), s <= P!Logical(now, j),
         NEW t \in P!UseStages(c), P!Logical(now, j) <= t,
         \A i \in P!Iteration, d \in P!Capture : Wrote(i, d)' => Wrote(i, d) \/ (i = j /\ d = c)
  PROVE  BankTypes' /\ BanksKept'
<1> PICK b : b = P!Bank(c, j)
  OBVIOUS
<1>1. /\ \A d : P!UseStages(d)' = P!UseStages(d) /\ BankCount(d)' = BankCount(d)
      /\ \A i : P!Logical(now, i)' = P!Logical(now', i)
      /\ now' = now
  BY BodyKept
<1>2. /\ banks = [d \in P!Capture |-> banks[d]]
      /\ \A d \in P!Capture : banks[d] \in [0..(BankCount(d) - 1) -> Int]
  BY DEF LoopInv, BankTypes
<1>3. b \in DOMAIN banks[c] /\ j \in Int
  <2>1. b = j % BankCount(c) /\ DOMAIN banks[c] = 0..(BankCount(c) - 1) /\ BankCount(c) \in Positive
    BY BankIs
  <2>2. j \in Int
    BY LogicalIs
  <2> QED BY <2>1, <2>2, Division
<1>4. banks' = [banks EXCEPT ![c] = [banks[c] EXCEPT ![b] = j]]
  BY DEF P!Write
<1>5. /\ banks' = [d \in P!Capture |-> banks'[d]]
      /\ banks'[c] = [banks[c] EXCEPT ![b] = j]
      /\ \A d \in P!Capture \ {c} : banks'[d] = banks[d]
  BY <1>2, <1>4
<1>6. \A d \in P!Capture : banks'[d] \in [0..(BankCount(d) - 1) -> Int] /\ DOMAIN banks'[d] = DOMAIN banks[d]
  <2> SUFFICES ASSUME NEW d \in P!Capture
               PROVE  banks'[d] \in [0..(BankCount(d) - 1) -> Int] /\ DOMAIN banks'[d] = DOMAIN banks[d]
    OBVIOUS
  <2> PICK S : S = 0..(BankCount(d) - 1)
    OBVIOUS
  <2>1. banks[d] \in [S -> Int]
    BY <1>2
  <2>2. CASE d = c
    <3>1. banks'[d] = [banks[d] EXCEPT ![b] = j]
      BY <1>5, <2>2
    <3> QED BY <1>3, <2>1, <2>2, <3>1
  <2>3. CASE d # c
    BY <1>5, <2>1, <2>3
  <2> QED BY <2>2, <2>3
<1>7. BankTypes'
  <2>1. \A d \in P!Capture : banks'[d] \in [0..(BankCount(d)' - 1) -> Int]
    BY <1>1, <1>6
  <2>2. banks' = [d \in P!Capture |-> banks'[d]]
    BY <1>5
  <2> QED BY <2>1, <2>2 DEF BankTypes
<1>8. \A d \in P!Capture : \A i : P!Bank(d, i)' = P!Bank(d, i)
  BY <1>6 DEF P!Bank
<1>9. BanksKept'
  <2> SUFFICES ASSUME NEW i \in P!Iteration, NEW d \in P!Capture, Wrote(i, d)',
                      NEW v \in P!UseStages(d), P!Logical(now, i) <= v
               PROVE  banks'[d][P!Bank(d, i)] = i
    BY <1>1, <1>8 DEF BanksKept
  <2>1. CASE i = j /\ d = c
    BY <1>3, <1>5, <2>1
  <2>2. CASE Wrote(i, d) /\ ~(i = j /\ d = c)
    <3>1. banks[d][P!Bank(d, i)] = i
      BY <2>2 DEF LoopInv, BanksKept
    <3>2. CASE d # c
      BY <1>5, <3>1, <3>2
    <3>3. CASE d = c /\ i # j
      <4>1. PICK u \in P!UseStages(c) : u <= P!Logical(now, i)
        BY <2>2, <3>3, WroteIs
      <4>2. P!Bank(c, i) # b
        BY <3>3, <4>1, LifetimesApart
      <4>3. P!Bank(c, i) \in DOMAIN banks[c]
        <5>1. P!Bank(c, i) = i % BankCount(c) /\ DOMAIN banks[c] = 0..(BankCount(c) - 1) /\ BankCount(c) \in Positive
          BY BankIs
        <5>2. i \in Int
          BY LogicalIs
        <5> QED BY <5>1, <5>2, Division
      <4> QED BY <1>5, <3>1, <3>3, <4>2, <4>3
    <3> QED BY <2>2, <3>2, <3>3
  <2> QED BY <2>1, <2>2
<1> QED BY <1>7, <1>9

\* An iteration goes on to its next operation.
LEMMA LoopAdvanceStep ==
  ASSUME LoopInv, NEW i \in P!Iteration, P!Ready(i), P!Advance(i)
  PROVE  /\ UNCHANGED <<stages, interval, body, loop_runs, now>> /\ loop_runs
         /\ ClockInv'
         /\ \A j \in P!Iteration : iteration_at'[j] = IF j = i THEN iteration_at[i] + 1 ELSE iteration_at[j]
         /\ iteration_at[i] \in DOMAIN body /\ iteration_at[i] \in Nat
         /\ body[iteration_at[i]].stage = P!Logical(now, i)
         /\ \A k \in DOMAIN body : k < iteration_at[i] + 1 => k < iteration_at[i] \/ k = iteration_at[i]
<1> PICK m : m = iteration_at[i]
  OBVIOUS
<1>1. /\ UNCHANGED <<stages, interval, body, loop_runs, now>> /\ loop_runs
      /\ m \in DOMAIN body /\ body[m].stage = P!Logical(now, i)
      /\ iteration_at' = [iteration_at EXCEPT ![i] = m + 1]
  BY DEF P!Ready, P!Advance, P!schedule
<1>2. BodyInv /\ ClockInv
  BY <1>1 DEF LoopInv
<1>3. /\ iteration_at \in [P!Iteration -> Nat] /\ m \in Nat
      /\ DOMAIN body = 1..Len(body) /\ Len(body) \in Nat
  BY <1>2 DEF ClockInv, BodyInv
<1>4. \A j \in P!Iteration : iteration_at'[j] = IF j = i THEN m + 1 ELSE iteration_at[j]
  BY <1>1, <1>3
<1>5. iteration_at' \in [P!Iteration -> Nat]
  BY <1>1, <1>3
<1>6. P!Horizon' = P!Horizon /\ \A j : P!Logical(now, j)' = P!Logical(now', j)
  BY <1>1, BodyKept
<1>7. ASSUME NEW j \in P!Iteration
      PROVE  /\ iteration_at'[j] \in 1..(Len(body) + 1)
             /\ \A k \in DOMAIN body :
                  /\ k < iteration_at'[j] => body[k].stage <= P!Logical(now, j)
                  /\ k >= iteration_at'[j] => P!Logical(now, j) <= body[k].stage
  <2>1. CASE j # i
    BY <1>2, <1>4, <2>1 DEF ClockInv
  <2>2. CASE j = i
    <3>1. m + 1 \in 1..(Len(body) + 1)
      BY <1>1, <1>3
    <3>2. ASSUME NEW k \in DOMAIN body
          PROVE  /\ k < m + 1 => body[k].stage <= P!Logical(now, i)
                 /\ k >= m + 1 => P!Logical(now, i) <= body[k].stage
      <4>1. k < m => body[k].stage <= P!Logical(now, i)
        BY <1>2 DEF ClockInv
      <4>2. k >= m => P!Logical(now, i) <= body[k].stage
        BY <1>2 DEF ClockInv
      <4>3. k \in Nat /\ body[m].stage \in Nat
        BY <1>1, <1>2, <1>3, OperationIs
      <4> QED BY <1>1, <1>3, <4>1, <4>2, <4>3
    <3> QED BY <1>4, <2>2, <3>1, <3>2
  <2> QED BY <2>1, <2>2
<1>8. ClockInv'
  BY <1>1, <1>2, <1>5, <1>6, <1>7 DEF ClockInv
<1>9. \A k \in DOMAIN body : k < m + 1 => k < m \/ k = m
  BY <1>3
<1> QED BY <1>1, <1>3, <1>4, <1>8, <1>9

\* A start or a wait writes nothing.
LEMMA LoopPassStep ==
  ASSUME LoopInv, NEW i \in P!Iteration, P!RunStart(i) \/ P!RunWait(i)
  PROVE  LoopInv'
<1> PICK m : m = iteration_at[i]
  OBVIOUS
<1>1. /\ P!Ready(i) /\ P!Advance(i) /\ UNCHANGED <<landed, banks>>
      /\ body[m].kind # "compute" /\ (body[m].kind = "wait" => body[m].start \in landed[i])
  BY DEF P!RunStart, P!RunWait
<1>2. /\ UNCHANGED <<stages, interval, body, loop_runs, now>> /\ loop_runs
      /\ ClockInv'
      /\ \A j \in P!Iteration : iteration_at'[j] = IF j = i THEN m + 1 ELSE iteration_at[j]
      /\ m \in DOMAIN body /\ m \in Nat
      /\ \A k \in DOMAIN body : k < m + 1 => k < m \/ k = m
  BY <1>1, LoopAdvanceStep
<1>3. BodyInv /\ P!Pending = {} /\ LandedInv /\ BankTypes /\ BanksKept
  BY <1>2 DEF LoopInv
<1>4. /\ BodyInv' /\ P!Pending' = {} /\ P!Starts' = P!Starts
      /\ \A kind : P!Index(kind)' = P!Index(kind)
      /\ \A c : P!UseStages(c)' = P!UseStages(c) /\ BankCount(c)' = BankCount(c)
      /\ \A j : P!Logical(now, j)' = P!Logical(now', j)
  BY <1>2, <1>3, BodyKept
<1>5. LandedInv'
  <2>1. \A w \in P!Index("wait") : w \in DOMAIN body /\ body[w].kind = "wait"
    BY DEF P!Index
  <2>2. ASSUME NEW j \in P!Iteration
        PROVE  /\ \A k \in landed[j] : k < iteration_at'[j]
               /\ \A w \in P!Index("wait") : w < iteration_at'[j] => body[w].start \in landed[j]
    <3>1. /\ \A k \in landed[j] : k < iteration_at[j] /\ k \in DOMAIN body
          /\ \A w \in P!Index("wait") : w < iteration_at[j] => body[w].start \in landed[j]
      BY <1>3, StartsAre DEF LandedInv
    <3>2. CASE j # i
      BY <1>2, <3>1, <3>2
    <3>3. CASE j = i
      <4>1. iteration_at'[j] = m + 1 /\ iteration_at[j] = m
        BY <1>2, <3>3
      <4>2. \A k \in DOMAIN body : k < m => k < m + 1
        BY <1>2, <1>3, OperationIs
      <4>3. \A w \in P!Index("wait") : w < m + 1 => w < m \/ (w = m /\ body[m].kind = "wait")
        BY <1>2, <2>1
      <4> QED BY <1>1, <3>1, <3>3, <4>1, <4>2, <4>3
    <3> QED BY <3>2, <3>3
  <2> QED BY <1>1, <1>2, <1>3, <1>4, <2>2 DEF LandedInv
<1>6. BankTypes'
  BY <1>1, <1>3, <1>4 DEF BankTypes
<1>7. BanksKept'
  <2> SUFFICES ASSUME NEW j \in P!Iteration, NEW c \in P!Capture, Wrote(j, c)',
                      \E s \in P!UseStages(c) : P!Logical(now, j) <= s
               PROVE  banks[c][P!Bank(c, j)] = j
    BY <1>1, <1>2, <1>4 DEF BanksKept, P!Bank
  <2>1. Wrote(j, c)
    BY <1>1, <1>2 DEF Wrote
  <2> QED BY <1>3, <2>1 DEF BanksKept
<1> QED BY <1>2, <1>4, <1>5, <1>6, <1>7 DEF LoopInv

LEMMA LoopRunComputeStep == ASSUME LoopInv, NEW i \in P!Iteration, P!RunCompute(i) PROVE LoopInv'
<1> PICK m : m = iteration_at[i]
  OBVIOUS
<1>1. /\ P!Ready(i) /\ P!Advance(i) /\ body[m].kind = "compute" /\ UNCHANGED landed
      /\ P!Write(body[m].dest, i)
  BY DEF P!RunCompute
<1>2. /\ UNCHANGED <<stages, interval, body, loop_runs, now>> /\ loop_runs
      /\ ClockInv'
      /\ \A j \in P!Iteration : iteration_at'[j] = IF j = i THEN m + 1 ELSE iteration_at[j]
      /\ m \in DOMAIN body /\ m \in Nat /\ body[m].stage = P!Logical(now, i)
      /\ \A k \in DOMAIN body : k < m + 1 => k < m \/ k = m
  BY <1>1, LoopAdvanceStep
<1>3. BodyInv /\ P!Pending = {} /\ LandedInv
  BY <1>2 DEF LoopInv
<1>4. /\ BodyInv' /\ P!Pending' = {} /\ P!Starts' = P!Starts
      /\ \A kind : P!Index(kind)' = P!Index(kind)
  BY <1>2, <1>3, BodyKept
<1>5. LandedInv'
  <2>1. \A w \in P!Index("wait") : w \in DOMAIN body /\ body[w].kind = "wait"
    BY DEF P!Index
  <2>2. ASSUME NEW j \in P!Iteration
        PROVE  /\ \A k \in landed[j] : k < iteration_at'[j]
               /\ \A w \in P!Index("wait") : w < iteration_at'[j] => body[w].start \in landed[j]
    <3>1. /\ \A k \in landed[j] : k < iteration_at[j] /\ k \in DOMAIN body
          /\ \A w \in P!Index("wait") : w < iteration_at[j] => body[w].start \in landed[j]
      BY <1>3, StartsAre DEF LandedInv
    <3>2. CASE j # i
      BY <1>2, <3>1, <3>2
    <3>3. CASE j = i
      <4>1. iteration_at'[j] = m + 1 /\ iteration_at[j] = m
        BY <1>2, <3>3
      <4>2. \A k \in DOMAIN body : k < m => k < m + 1
        BY <1>2, <1>3, OperationIs
      <4>3. \A w \in P!Index("wait") : w < m + 1 => w < m
        BY <1>1, <1>2, <2>1
      <4> QED BY <3>1, <4>1, <4>2, <4>3
    <3> QED BY <3>2, <3>3
  <2> QED BY <1>1, <1>2, <1>3, <1>4, <2>2 DEF LandedInv
<1>6. BankTypes' /\ BanksKept'
  <2> PICK c : c = body[m].dest
    OBVIOUS
  <2>1. /\ c \in P!Capture /\ c \in P!Written /\ P!Write(c, i)
        /\ body[m].stage \in P!UseStages(c) /\ body[m].stage \in Nat
    BY <1>1, <1>2, <1>3, OperationIs
  <2>2. body[m].stage <= P!Logical(now, i) /\ P!Logical(now, i) <= body[m].stage
    BY <1>2, <2>1
  <2>3. \A j \in P!Iteration, d \in P!Capture : Wrote(j, d)' => Wrote(j, d) \/ (j = i /\ d = c)
    BY <1>1, <1>2 DEF Wrote
  <2>4. UNCHANGED <<stages, interval, body, now>>
    BY <1>2
  <2> QED BY <1>2, <2>1, <2>2, <2>3, <2>4, LoopWriteStep
<1> QED BY <1>2, <1>4, <1>5, <1>6 DEF LoopInv

\* A copy lands no later than its wait.
LEMMA LoopLandStep == ASSUME LoopInv, NEW i \in P!Iteration, P!Land(i) PROVE LoopInv'
<1>1. PICK k \in P!Starts :
        /\ loop_runs /\ k < iteration_at[i] /\ k \notin landed[i]
        /\ landed' = [landed EXCEPT ![i] = @ \cup {k}]
        /\ P!Write(body[k].dest, i)
        /\ UNCHANGED <<stages, interval, body, loop_runs, now, iteration_at>>
  BY DEF P!Land, P!schedule
<1>2. BodyInv /\ P!Pending = {} /\ ClockInv /\ LandedInv
  BY <1>1 DEF LoopInv
<1>3. /\ BodyInv' /\ P!Pending' = {} /\ P!Starts' = P!Starts /\ P!Horizon' = P!Horizon
      /\ \A kind : P!Index(kind)' = P!Index(kind)
      /\ \A j : P!Logical(now, j)' = P!Logical(now', j)
  BY <1>1, <1>2, BodyKept
<1>4. ClockInv'
  BY <1>1, <1>2, <1>3 DEF ClockInv
<1>5. /\ landed' \in [P!Iteration -> SUBSET P!Starts]
      /\ \A j \in P!Iteration : landed'[j] = IF j = i THEN landed[i] \cup {k} ELSE landed[j]
  BY <1>1, <1>2 DEF LandedInv
<1>6. LandedInv'
  <2>1. \A j \in P!Iteration :
          /\ \A n \in landed'[j] : n < iteration_at[j]
          /\ \A w \in P!Index("wait") : w < iteration_at[j] => body[w].start \in landed'[j]
    BY <1>1, <1>2, <1>5 DEF LandedInv
  <2> QED BY <1>1, <1>3, <1>5, <2>1 DEF LandedInv
<1>7. BankTypes' /\ BanksKept'
  <2> PICK c : c = body[k].dest
    OBVIOUS
  <2>1. k \in DOMAIN body /\ body[k].kind = "start"
    BY StartsAre
  <2>2. /\ c \in P!Capture /\ c \in P!Written /\ P!Write(c, i)
        /\ body[k].stage \in P!UseStages(c) /\ body[k].stage <= P!Logical(now, i)
    BY <1>1, <1>2, <2>1, OperationIs DEF ClockInv
  <2>3. PICK w \in P!Index("wait") : w \in DOMAIN body /\ body[w].kind = "wait" /\ body[w].start = k
    BY <1>2, WaitsAre
  <2>4. ~(w < iteration_at[i])
    BY <1>1, <1>2, <2>3 DEF LandedInv
  <2>5. body[w].stage \in P!UseStages(c) /\ P!Logical(now, i) <= body[w].stage
    <3>1. w \in Nat /\ iteration_at[i] \in Nat
      BY <1>2, <2>3, OperationIs DEF ClockInv
    <3>2. w >= iteration_at[i]
      BY <2>4, <3>1
    <3> QED BY <1>2, <2>3, <3>2, OperationIs DEF ClockInv
  <2>6. \A j \in P!Iteration, d \in P!Capture : Wrote(j, d)' => Wrote(j, d) \/ (j = i /\ d = c)
    BY <1>1, <1>5 DEF Wrote
  <2>7. UNCHANGED <<stages, interval, body, now>>
    BY <1>1
  <2> QED BY <1>1, <2>2, <2>5, <2>6, <2>7, LoopWriteStep
<1> QED BY <1>1, <1>3, <1>4, <1>6, <1>7 DEF LoopInv

\* No iteration at work is left behind.
LEMMA LoopTickStep == ASSUME LoopInv, P!Tick PROVE LoopInv'
<1>1. /\ loop_runs /\ now < P!Horizon - 1 /\ now' = now + 1
      /\ \A i \in P!Iteration : ~P!Ready(i)
      /\ UNCHANGED <<stages, interval, body, loop_runs, iteration_at, landed, banks>>
  BY DEF P!Tick, P!schedule
<1>2. BodyInv /\ P!Pending = {} /\ ClockInv /\ LandedInv /\ BankTypes /\ BanksKept
  BY <1>1 DEF LoopInv
<1>3. /\ BodyInv' /\ P!Pending' = {} /\ P!Starts' = P!Starts /\ P!Horizon' = P!Horizon
      /\ \A kind : P!Index(kind)' = P!Index(kind)
      /\ \A c : P!UseStages(c)' = P!UseStages(c) /\ BankCount(c)' = BankCount(c)
      /\ \A j : P!Logical(now, j)' = P!Logical(now', j)
  BY <1>1, <1>2, BodyKept
<1>4. P!Horizon \in Int /\ stages \in Int
  <2>1. interval \in Nat /\ stages \in Nat /\ Trip - 1 \in Int
    BY <1>2, LoopAssumption DEF BodyInv, Positive
  <2>2. (Trip - 1) * interval \in Int
    BY ONLY <2>1
  <2> QED BY <2>1, <2>2 DEF P!Horizon
<1>5. \A i \in P!Iteration :
        /\ P!Logical(now', i) = P!Logical(now, i) + 1 /\ P!Logical(now, i) \in Int
  <2> SUFFICES ASSUME NEW i \in P!Iteration
               PROVE  P!Logical(now', i) = P!Logical(now, i) + 1 /\ P!Logical(now, i) \in Int
    OBVIOUS
  <2>1. P!Logical(now, i) \in Int /\ P!Logical(now, i) = now - i * interval
          /\ i * interval \in Int /\ now \in Int
    BY <1>1, LogicalIs
  <2>2. P!Logical(now', i) = now' - i * interval
    BY DEF P!Logical
  <2> QED BY <1>1, <2>1, <2>2
<1>6. ASSUME NEW i \in P!Iteration, NEW k \in DOMAIN body
      PROVE  /\ k < iteration_at[i] => body[k].stage <= P!Logical(now', i)
             /\ k >= iteration_at[i] => P!Logical(now', i) <= body[k].stage
  <2> PICK m : m = iteration_at[i]
    OBVIOUS
  <2>1. /\ m \in 1..(Len(body) + 1) /\ m \in Nat
        /\ body[k].stage \in Nat /\ k \in Nat /\ k <= Len(body)
        /\ k < m => body[k].stage <= P!Logical(now, i)
        /\ k >= m => P!Logical(now, i) <= body[k].stage
    BY <1>2, OperationIs DEF ClockInv
  <2>2. ASSUME k >= m PROVE P!Logical(now, i) < body[k].stage
    <3>1. DOMAIN body = 1..Len(body) /\ Len(body) \in Nat
      BY <1>2 DEF BodyInv
    <3>2. m \in DOMAIN body
      BY <2>1, <2>2, <3>1
    <3>3. /\ body[m].stage <= body[k].stage /\ body[m].stage < stages
          /\ P!Logical(now, i) <= body[m].stage /\ body[m].stage \in Nat
      <4>1. m >= iteration_at[i]
        BY <2>1
      <4> QED BY <1>2, <2>1, <2>2, <3>2, <4>1, OperationIs DEF BodyInv, ClockInv
    <3>4. CASE i \in P!ActiveAt(now)
      <4>1. body[m].stage # P!Logical(now, i)
        BY <1>1, <3>2, <3>4 DEF P!Ready
      <4> QED BY <1>5, <2>1, <3>3, <4>1
    <3>5. CASE i \notin P!ActiveAt(now)
      <4>1. ~(P!Logical(now, i) \in 0..(stages - 1))
        BY <3>5 DEF P!ActiveAt
      <4> QED BY <1>4, <1>5, <2>1, <3>3, <4>1
    <3> QED BY <3>4, <3>5
  <2> QED BY <1>5, <2>1, <2>2
<1>7. ClockInv'
  <2>1. now' \in 0..(P!Horizon - 1)
    BY <1>1, <1>2, <1>4 DEF ClockInv
  <2> QED BY <1>1, <1>2, <1>3, <1>6, <2>1 DEF ClockInv
<1>8. LandedInv'
  BY <1>1, <1>2, <1>3 DEF LandedInv
<1>9. BankTypes'
  BY <1>1, <1>2, <1>3 DEF BankTypes
<1>10. BanksKept'
  <2> SUFFICES ASSUME NEW j \in P!Iteration, NEW c \in P!Capture, Wrote(j, c)',
                      NEW s \in P!UseStages(c), P!Logical(now', j) <= s
               PROVE  banks[c][P!Bank(c, j)] = j
    BY <1>1, <1>3 DEF BanksKept, P!Bank
  <2>1. Wrote(j, c)
    BY <1>1 DEF Wrote
  <2>2. P!Logical(now, j) <= s
    BY <1>2, <1>5, StagesAre
  <2> QED BY <1>2, <2>1, <2>2 DEF BanksKept
<1> QED BY <1>1, <1>3, <1>7, <1>8, <1>9, <1>10 DEF LoopInv

LEMMA LoopStep == LoopInv /\ [P!Next]_(P!vars) => LoopInv'
<1> SUFFICES ASSUME LoopInv, [P!Next]_(P!vars) PROVE LoopInv'
  OBVIOUS
<1>1. ASSUME P!DmaStart PROVE LoopInv'
  <2>1. PICK source, dest \in P!Capture, semaphore \in Semaphores, stage \in 0..(MaxStages - 1) :
          P!Add([kind |-> "start", source |-> source, dest |-> dest,
                 semaphore |-> semaphore, stage |-> stage])
    BY <1>1 DEF P!DmaStart
  <2> DEFINE operation == [kind |-> "start", source |-> source, dest |-> dest,
                           semaphore |-> semaphore, stage |-> stage]
  <2>2. operation \in P!Operation
    BY DEF P!Operation
  <2>3. operation.kind # "wait"
    OBVIOUS
  <2> HIDE DEF operation
  <2> QED BY <2>1, <2>2, <2>3, LoopAddStep DEF operation
<1>2. ASSUME P!DmaWait PROVE LoopInv'
  <2>1. PICK k \in P!Pending, stage \in 0..(MaxStages - 1) :
          P!Add([kind |-> "wait", start |-> k, stage |-> stage])
    BY <1>2 DEF P!DmaWait
  <2> DEFINE operation == [kind |-> "wait", start |-> k, stage |-> stage]
  <2>2. k \in Nat
    BY DEF P!Pending, P!Starts, P!Index, LoopInv, BodyInv
  <2>3. operation \in P!Operation /\ operation.start = k
    BY <2>2 DEF P!Operation
  <2> HIDE DEF operation
  <2> QED BY <2>1, <2>3, LoopAddStep DEF operation
<1>3. ASSUME P!Compute PROVE LoopInv'
  <2>1. PICK source, dest \in Core, stage \in 0..(MaxStages - 1) :
          P!Add([kind |-> "compute", source |-> source, dest |-> dest, stage |-> stage])
    BY <1>3 DEF P!Compute
  <2> DEFINE operation == [kind |-> "compute", source |-> source, dest |-> dest, stage |-> stage]
  <2>2. operation \in P!Operation
    BY DEF P!Operation, P!Capture
  <2>3. operation.kind # "wait"
    OBVIOUS
  <2> HIDE DEF operation
  <2> QED BY <2>1, <2>2, <2>3, LoopAddStep DEF operation
<1>4. ASSUME UNCHANGED P!vars PROVE LoopInv'
  <2>1. UNCHANGED <<stages, interval, body, loop_runs, now, iteration_at, landed, banks>>
    BY <1>4 DEF P!vars, P!schedule
  <2>2. /\ BodyInv' /\ P!Pending' = P!Pending /\ P!Starts' = P!Starts /\ P!Horizon' = P!Horizon
        /\ \A kind : P!Index(kind)' = P!Index(kind)
        /\ \A c : P!UseStages(c)' = P!UseStages(c) /\ BankCount(c)' = BankCount(c)
        /\ \A j : P!Logical(now, j)' = P!Logical(now', j)
    BY <2>1, BodyKept DEF LoopInv
  <2>3. (~loop_runs => LoopIdle')
    BY <2>1 DEF LoopInv, LoopIdle
  <2>4. loop_runs => ClockInv' /\ LandedInv'
    BY <2>1, <2>2 DEF LoopInv, ClockInv, LandedInv
  <2>5. loop_runs => BankTypes'
    BY <2>1, <2>2 DEF LoopInv, BankTypes
  <2>6. ASSUME loop_runs PROVE BanksKept'
    <3>1. \A i, c : Wrote(i, c)' <=> Wrote(i, c)
      BY <2>1 DEF Wrote
    <3>2. \A i, c : P!Bank(c, i)' = P!Bank(c, i)
      BY <2>1 DEF P!Bank
    <3> QED BY <2>1, <2>2, <2>6, <3>1, <3>2 DEF LoopInv, BanksKept
  <2> QED BY <2>1, <2>2, <2>3, <2>4, <2>5, <2>6 DEF LoopInv
<1> QED
  BY <1>1, <1>2, <1>3, <1>4, LoopAcceptStep, LoopPassStep, LoopRunComputeStep, LoopLandStep, LoopTickStep
  DEF P!Next

THEOREM LoopInvariance == P!Spec => []LoopInv
BY LoopInit, LoopStep, PTL DEF P!Spec

\* PipelineLoopOp: with ceil(live stages / initiation interval) banks for a
\* capture, what an iteration is still to read is what it wrote, whatever
\* the trip count, the interval and the delay of a copy.
THEOREM BanksSuffice == P!Spec => []IterationsKeepApart
<1>1. LoopInv => IterationsKeepApart
  <2> SUFFICES ASSUME LoopInv, loop_runs, NEW i \in P!Iteration, NEW c \in P!Capture,
                      P!HasWritten(i, c), P!WillRead(i, c)
               PROVE  banks[c][P!Bank(c, i)] = i
    BY DEF IterationsKeepApart, P!IterationsKeepApart
  <2>1. BodyInv /\ P!Pending = {} /\ ClockInv /\ LandedInv /\ BanksKept
    BY DEF LoopInv
  <2>2. /\ iteration_at[i] \in 1..(Len(body) + 1) /\ Len(body) \in Nat /\ DOMAIN body = 1..Len(body)
    BY <2>1 DEF BodyInv, ClockInv
  <2>3. Wrote(i, c)
    <3>1. PICK k \in 1..(iteration_at[i] - 1) :
            \/ body[k].kind = "compute" /\ body[k].dest = c
            \/ body[k].kind = "wait" /\ body[body[k].start].dest = c
      BY DEF P!HasWritten
    <3>2. k \in DOMAIN body /\ k < iteration_at[i]
      BY <2>2
    <3>3. body[k].kind = "wait" => body[k].start \in landed[i]
      BY <2>1, <3>2 DEF LandedInv, P!Index
    <3> QED BY <3>1, <3>2, <3>3 DEF Wrote
  <2>4. \E s \in P!UseStages(c) : P!Logical(now, i) <= s
    <3>1. CASE \E k \in iteration_at[i]..Len(body) : body[k].kind # "wait" /\ body[k].source = c
      <4>1. PICK k \in iteration_at[i]..Len(body) : body[k].kind # "wait" /\ body[k].source = c
        BY <3>1
      <4>2. k \in DOMAIN body /\ k >= iteration_at[i]
        BY <2>2
      <4> QED BY <2>1, <4>1, <4>2, OperationIs DEF ClockInv
    <3>2. CASE \E k \in P!Starts : k < iteration_at[i] /\ k \notin landed[i] /\ body[k].source = c
      <4>1. PICK k \in P!Starts : k \notin landed[i] /\ body[k].source = c
        BY <3>2
      <4>2. PICK w \in P!Index("wait") : w \in DOMAIN body /\ body[w].kind = "wait" /\ body[w].start = k
        BY <2>1, WaitsAre
      <4>3. w >= iteration_at[i]
        BY <2>1, <2>2, <4>1, <4>2 DEF LandedInv
      <4> QED BY <2>1, <4>1, <4>2, <4>3, OperationIs DEF ClockInv
    <3> QED BY <3>1, <3>2 DEF P!WillRead
  <2> QED BY <2>1, <2>3, <2>4 DEF BanksKept
<1> QED BY <1>1, LoopInvariance, PTL

-----------------------------------------------------------------------------
(* Engines and slots.                                                       *)

\* A copy that is under way is counted at its iteration's stage.
LEMMA UnderWayIsCounted ==
  ASSUME LoopInv, loop_runs, NEW S \in SUBSET P!Starts, NEW i \in P!Iteration, NEW k \in S,
         k < iteration_at[i], P!WaitOf(k) >= iteration_at[i]
  PROVE  <<i, k>> \in P!CopiesAt(now, S)
<1>1. BodyInv /\ ClockInv
  BY DEF LoopInv
<1>2. k \in P!Starts /\ k \in DOMAIN body
  BY StartsAre
<1> PICK w : w = P!WaitOf(k)
  OBVIOUS
<1>3. w \in DOMAIN body
  <2>1. \E v \in P!Index("wait") : body[v].start = k
    BY <1>2, WaitsAre DEF LoopInv
  <2>2. w \in P!Index("wait")
    BY <2>1 DEF P!WaitOf
  <2> QED BY <2>2 DEF P!Index
<1> PICK x : x = P!Logical(now, i)
  OBVIOUS
<1>4. body[k].stage <= x /\ x <= body[w].stage
  BY <1>1, <1>2, <1>3 DEF ClockInv
<1>5. x \in Int /\ body[k].stage \in Nat /\ body[w].stage \in Nat /\ body[w].stage < stages /\ stages \in Nat
  BY <1>1, <1>2, <1>3, OperationIs, LogicalIs DEF BodyInv, Positive
<1>6. i \in P!ActiveAt(now)
  BY <1>4, <1>5 DEF P!ActiveAt
<1>7. P!Occupies(k, x)
  BY <1>4 DEF P!Occupies
<1> QED BY <1>6, <1>7 DEF P!CopiesAt

LEMMA CountSuffices ==
  ASSUME LoopInv, loop_runs, NEW S \in SUBSET P!Starts,
         NEW A \in SUBSET (P!Iteration \X S),
         \A ik \in A : ik[2] < iteration_at[ik[1]] /\ P!WaitOf(ik[2]) >= iteration_at[ik[1]]
  PROVE  P!Cardinality(A) <= P!Max({P!Cardinality(P!CopiesAt(t, S)) : t \in 0..(P!Horizon - 1)})
<1>1. BodyInv /\ ClockInv
  BY DEF LoopInv
<1> PICK U : U = P!Iteration \X S
  OBVIOUS
<1>2. IsFiniteSet(U)
  <2>1. IsFiniteSet(P!Iteration)
    <3>1. 0 \in Int /\ Trip - 1 \in Int
      BY LoopAssumption
    <3> QED BY <3>1, FS_Interval DEF P!Iteration
  <2>2. IsFiniteSet(S)
    <3>1. 1 \in Int /\ Len(body) \in Int /\ DOMAIN body = 1..Len(body)
      BY <1>1 DEF BodyInv
    <3>2. IsFiniteSet(1..Len(body))
      BY <3>1, FS_Interval
    <3>3. S \subseteq 1..Len(body)
      BY <3>1, StartsAre
    <3> QED BY <3>2, <3>3, FS_Subset
  <2> QED BY <2>1, <2>2, FS_Product
<1>3. \A B : P!Cardinality(B) = Cardinality(B)
  BY DEF P!Cardinality, Cardinality
<1>4. \A B \in SUBSET U : Cardinality(B) \in Nat /\ Cardinality(B) <= Cardinality(U) /\ IsFiniteSet(B)
  BY <1>2, FS_Subset, FS_CardinalityType
<1>5. Cardinality(U) \in Nat
  BY <1>2, FS_CardinalityType
<1>6. \A t : P!CopiesAt(t, S) \subseteq U
  BY DEF P!CopiesAt
<1> PICK T : T = {P!Cardinality(P!CopiesAt(t, S)) : t \in 0..(P!Horizon - 1)}
  OBVIOUS
<1>7. P!Cardinality(P!CopiesAt(now, S)) \in T
  BY <1>1 DEF ClockInv
<1>8. T \subseteq Nat /\ \A n \in T : n <= Cardinality(U)
  BY <1>3, <1>4, <1>6
<1>9. P!Max(T) \in T /\ \A n \in T : n <= P!Max(T)
  <2>1. T # {}
    BY <1>7
  <2> QED BY <1>5, <1>8, <2>1, MaxIs
<1>10. A \subseteq P!CopiesAt(now, S)
  <2> SUFFICES ASSUME NEW ik \in A PROVE ik \in P!CopiesAt(now, S)
    OBVIOUS
  <2>1. ik = <<ik[1], ik[2]>> /\ ik[1] \in P!Iteration /\ ik[2] \in S
    OBVIOUS
  <2>2. ik[2] < iteration_at[ik[1]] /\ P!WaitOf(ik[2]) >= iteration_at[ik[1]]
    OBVIOUS
  <2>3. <<ik[1], ik[2]>> \in P!CopiesAt(now, S)
    BY <2>1, <2>2, UnderWayIsCounted
  <2> QED BY <2>1, <2>3
<1>11. Cardinality(A) <= Cardinality(P!CopiesAt(now, S))
  <2>1. IsFiniteSet(P!CopiesAt(now, S))
    BY <1>4, <1>6
  <2> QED BY <1>10, <2>1, FS_Subset
<1>12. Cardinality(A) \in Nat /\ Cardinality(P!CopiesAt(now, S)) \in Nat
  BY <1>4, <1>6
<1> QED BY <1>3, <1>7, <1>8, <1>9, <1>11, <1>12

\* analyze_pipeline_stage_resources: the copies on their way, and those not
\* waited for, never outnumber the engines and slots the analysis counted,
\* whatever the trip count, the interval and the delay of a copy.
THEOREM EnginesAreEnough == P!Spec => []EnginesSuffice
<1>1. LoopInv => EnginesSuffice
  <2> SUFFICES ASSUME LoopInv, loop_runs PROVE EnginesSuffice
    BY DEF EnginesSuffice, P!EnginesSuffice
  <2>1. BodyInv /\ P!Pending = {} /\ ClockInv /\ LandedInv
    BY DEF LoopInv
  <2>2. ASSUME NEW i \in P!Iteration, NEW k \in P!Starts, k \notin landed[i]
        PROVE  P!WaitOf(k) >= iteration_at[i]
    <3>1. \E w \in P!Index("wait") : body[w].start = k
      BY <2>1, WaitsAre
    <3>2. P!WaitOf(k) \in P!Index("wait") /\ body[P!WaitOf(k)].start = k
      BY <3>1 DEF P!WaitOf
    <3>3. ~(P!WaitOf(k) < iteration_at[i])
      BY <2>1, <2>2, <3>2 DEF LandedInv
    <3>4. P!WaitOf(k) \in Nat /\ iteration_at[i] \in Nat
      BY <2>1, <3>2 DEF ClockInv, BodyInv, P!Index
    <3> QED BY <3>3, <3>4
  <2> PICK A : A = {ik \in P!Iteration \X P!Starts : ik[2] < iteration_at[ik[1]] /\ ik[2] \notin landed[ik[1]]}
    OBVIOUS
  <2>3. P!Cardinality(A) <= P!Engines
    <3>1. A \in SUBSET (P!Iteration \X P!Starts)
      OBVIOUS
    <3>2. \A ik \in A : ik[2] < iteration_at[ik[1]] /\ P!WaitOf(ik[2]) >= iteration_at[ik[1]]
      BY <2>2
    <3> QED BY <3>1, <3>2, CountSuffices DEF P!Engines
  <2>4. ASSUME NEW s \in Semaphores, NEW B,
               B = {ik \in P!Iteration \X P!On(s) :
                      ik[2] < iteration_at[ik[1]] /\ P!WaitOf(ik[2]) >= iteration_at[ik[1]]}
        PROVE  P!Cardinality(B) <= P!Slots(s)
    <3>1. P!On(s) \in SUBSET P!Starts
      BY DEF P!On
    <3>2. B \in SUBSET (P!Iteration \X P!On(s))
      BY <2>4
    <3>3. \A ik \in B : ik[2] < iteration_at[ik[1]] /\ P!WaitOf(ik[2]) >= iteration_at[ik[1]]
      BY <2>4
    <3> QED BY <3>1, <3>2, <3>3, CountSuffices DEF P!Slots
  <2>5. {ik \in {ik \in P!Iteration \X P!Starts : ik[2] < iteration_at[ik[1]]} :
           ik[2] \notin landed[ik[1]]} = A
    OBVIOUS
  <2>6. \A s : {ik \in {ik \in P!Iteration \X P!On(s) : ik[2] < iteration_at[ik[1]]} :
                  P!WaitOf(ik[2]) >= iteration_at[ik[1]]}
               = {ik \in P!Iteration \X P!On(s) :
                    ik[2] < iteration_at[ik[1]] /\ P!WaitOf(ik[2]) >= iteration_at[ik[1]]}
    OBVIOUS
  <2> QED BY <2>3, <2>4, <2>5, <2>6 DEF EnginesSuffice, P!EnginesSuffice
<1> QED BY <1>1, LoopInvariance, PTL

-----------------------------------------------------------------------------
(* Copies of tiles.                                                         *)

\* The kernel of two tiles meets what KernelProofs asks: an operand that may
\* be read holds what the program order promises of each of its tiles.
THEOREM TilesAreOrdered == K!Spec => []TilesArePromised
<1>1. K!Disciplined
  BY DEF K!Disciplined
<1>2. K!IsFiniteSet({1, 2})
  <2>1. IsFiniteSet({1}) /\ {1, 2} = {1} \cup {2}
    BY FS_Singleton
  <2>2. IsFiniteSet({1, 2})
    BY <2>1, FS_AddElement
  <2>3. \A S : K!IsFiniteSet(S) <=> IsFiniteSet(S)
    BY DEF K!IsFiniteSet, IsFiniteSet
  <2> QED BY <2>2, <2>3
<1>3. {1, 2} \subseteq Nat /\ {{1}, {2}, {1, 2}} \subseteq (SUBSET {1, 2}) \ {{}}
  OBVIOUS
<1>4. {{}} \subseteq SUBSET Axes
  OBVIOUS
<1>5. K!Spec => []K!ReadableIsPromised
  BY <1>1, <1>2, <1>3, <1>4, KernelAssumption, K!ReadsAreOrdered
<1>6. K!ReadableIsPromised => TilesArePromised
  BY DEF TilesArePromised
<1> QED BY <1>5, <1>6, PTL

-----------------------------------------------------------------------------
(* The parts side by side.                                                  *)

\* A step of one part stutters for the others.
LEMMA PartsAreKept ==
  /\ PartsInit => Init /\ K!Init /\ P!Init /\ R!Init
  /\ [PartsNext]_parts =>
       [Next]_views /\ [K!Next]_(K!vars) /\ [P!Next]_(P!vars) /\ [R!Next]_(R!vars)
<1>1. PartsInit => Init /\ K!Init /\ P!Init /\ R!Init
  BY DEF PartsInit
<1>2. /\ UNCHANGED kernel => UNCHANGED K!vars
      /\ UNCHANGED loop => UNCHANGED P!vars
      /\ UNCHANGED remote => UNCHANGED R!vars
  BY DEF kernel, loop, remote, K!vars, P!vars, P!schedule, R!vars
<1>3. [PartsNext]_parts =>
        /\ [Next]_views
        /\ K!Next \/ UNCHANGED kernel
        /\ P!Next \/ UNCHANGED loop
        /\ R!Next \/ UNCHANGED remote
  BY DEF PartsNext, parts
<1> QED BY <1>1, <1>2, <1>3

\* The schedule verifier's parts keep their promises side by side.
THEOREM PartsKeepTheirPromises ==
  PartsSpec => [](/\ OverlapIsExact /\ AliasesAreDeclared /\ TilesArePromised
                  /\ IterationsKeepApart /\ EnginesSuffice /\ InitializedEverywhere)
<1>1. PartsSpec => Spec /\ K!Spec /\ P!Spec /\ R!Spec
  BY PartsAreKept, PTL DEF PartsSpec, Spec, K!Spec, P!Spec, R!Spec
<1> QED
  BY <1>1, OverlapsAreExact, GroupsAreComplete, TilesAreOrdered, BanksSuffice, EnginesAreEnough,
     InitializationIsGlobal, PTL
=============================================================================
