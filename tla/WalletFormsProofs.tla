------------------------- MODULE WalletFormsProofs -------------------------
(***************************************************************************)
(* Proofs about the data of wallet.js, for forms of any content and any    *)
(* size of the mantissa: the chain decodes what the hand-written codecs    *)
(* encoded, and Number keeps the whole numbers that it can hold.           *)
(***************************************************************************)
EXTENDS WalletForms, TLAPS, WellFoundedInduction

\* The forms whose handlers send a message.
FormKinds == {"create", "status", "lease", "register"}

(***************************************************************************)
(* Induction and recursion over the naturals, for sets and functions.      *)
(***************************************************************************)
\* Every non-empty set of naturals has a least element.
LEMMA LeastNatural ==
    ASSUME NEW S \in SUBSET Nat, S # {}
    PROVE  \E n \in S : \A m \in S : n <= m
<1> DEFINE R == OpToRel(<, Nat)
<1>1. IsWellFoundedOn(R, Nat)
  BY NatLessThanWellFounded
<1>2. \A m, n \in Nat : m < n => <<m, n>> \in R
  BY DEF OpToRel
<1> HIDE DEF R
<1>3. \E n \in S : \A m \in S : <<m, n>> \notin R
  BY <1>1, WFMin
<1>4. PICK n \in S : \A m \in S : <<m, n>> \notin R
  BY <1>3
<1>5. ASSUME NEW m \in S PROVE n <= m
  <2>1. m \in Nat /\ n \in Nat /\ ~(m < n)
    BY <1>2, <1>4, Zenon
  <2> QED
    BY <2>1
<1> QED
  BY <1>5

\* Induction over the naturals, for a set instead of a predicate.
LEMMA Induction ==
    ASSUME NEW S, 0 \in S, \A n \in Nat : n \in S => n + 1 \in S
    PROVE  Nat \subseteq S
<1> SUFFICES ASSUME Nat \ S # {} PROVE FALSE
  OBVIOUS
<1>1. PICK n \in Nat \ S : \A m \in Nat \ S : n <= m
  BY LeastNatural
<1>2. n - 1 \in Nat /\ n - 1 \in S
  BY <1>1
<1> QED
  BY <1>1, <1>2

\* f starts with v and goes from each value to the next by step.
Steps(V) == [Nat -> [V -> V]]
Iterates(f, V, v, step) ==
    f \in [Nat -> V] /\ f[0] = v /\ \A n \in Nat : f[n + 1] = step[n][f[n]]

\* A function on the naturals can be defined by its first value and by the step from
\* each value to the next: longer and longer tables of it exist, and they agree where
\* they overlap.
LEMMA Recursion ==
    ASSUME NEW V, NEW v \in V, NEW step \in Steps(V)
    PROVE  \E f : Iterates(f, V, v, step)
<1> USE DEF Steps
<1> DEFINE Table(n, f) == /\ f \in [0 .. n -> V] /\ f[0] = v
                          /\ \A i \in 0 .. n - 1 : f[i + 1] = step[i][f[i]]
           Built == {n \in Nat : \E f : Table(n, f)}
<1>1. 0 \in Built
  <2> DEFINE f == [i \in 0 .. 0 |-> v]
  <2>1. Table(0, f)
    OBVIOUS
  <2> HIDE DEF Table, f
  <2> QED
    BY <2>1
<1>2. ASSUME NEW n \in Nat, n \in Built PROVE n + 1 \in Built
  <2> HIDE DEF Table
  <2>1. PICK f : Table(n, f)
    BY <1>2
  <2> DEFINE g == [i \in 0 .. n + 1 |-> IF i = n + 1 THEN step[n][f[n]] ELSE f[i]]
  <2>2. /\ f \in [0 .. n -> V] /\ f[0] = v
        /\ \A i \in 0 .. n - 1 : f[i + 1] = step[i][f[i]]
    BY <2>1 DEF Table
  <2>3. step[n][f[n]] \in V
    BY <2>2
  <2>4. g \in [0 .. n + 1 -> V] /\ g[n + 1] = step[n][f[n]] /\ \A i \in 0 .. n : g[i] = f[i]
    BY <2>2, <2>3
  <2> HIDE DEF g
  <2>5. \A i \in 0 .. n : g[i + 1] = step[i][g[i]]
    <3> TAKE i \in 0 .. n
    <3>1. CASE i = n
      BY <2>4, <3>1
    <3>2. CASE i \in 0 .. n - 1
      BY <2>2, <2>4, <3>2
    <3> QED
      BY <3>1, <3>2
  <2>6. Table(n + 1, g)
    BY <2>2, <2>4, <2>5 DEF Table
  <2> QED
    BY <2>6
<1>3. \A n \in Nat : \E f : Table(n, f)
  <2> HIDE DEF Table
  <2>1. Nat \subseteq Built
    <3> HIDE DEF Built
    <3> QED
      BY <1>1, <1>2, Induction
  <2> QED
    BY <2>1
<1>4. ASSUME NEW n \in Nat, NEW f, NEW g, Table(n, f), Table(n + 1, g)
      PROVE  f[n] = g[n]
  <2> DEFINE Same == {i \in Nat : i <= n => f[i] = g[i]}
  <2>1. 0 \in Same
    BY <1>4
  <2>2. ASSUME NEW i \in Nat, i \in Same PROVE i + 1 \in Same
    BY <1>4, <2>2
  <2> HIDE DEF Same
  <2>3. Nat \subseteq Same
    BY <2>1, <2>2, Induction
  <2> QED
    BY <2>3 DEF Same
<1> DEFINE T(n) == CHOOSE f : Table(n, f)
           h == [n \in Nat |-> T(n)[n]]
<1>5. \A n \in Nat : Table(n, T(n))
  <2> HIDE DEF Table
  <2> QED
    BY <1>3
<1> HIDE DEF Table, T
<1>6. h \in [Nat -> V] /\ h[0] = v
  BY <1>5 DEF Table
<1>7. \A n \in Nat : h[n + 1] = step[n][h[n]]
  <2> TAKE n \in Nat
  <2>1. Table(n, T(n)) /\ Table(n + 1, T(n + 1))
    BY <1>5
  <2>2. T(n)[n] = T(n + 1)[n]
    BY <1>4, <2>1
  <2>3. T(n + 1)[n + 1] = step[n][T(n + 1)[n]]
    BY <2>1 DEF Table
  <2> QED
    BY <2>2, <2>3
<1> HIDE DEF h
<1> QED
  BY <1>6, <1>7 DEF Iterates

\* The powers of two obey their recursion and are positive.
LEMMA PowersOfTwo ==
    /\ PowerOfTwo[0] = 1
    /\ \A n \in Nat : PowerOfTwo[n + 1] = 2 * PowerOfTwo[n]
    /\ \A n \in Nat : PowerOfTwo[n] \in Nat \ {0}
<1> DEFINE V == Nat \ {0}
           step == [n \in Nat |-> [x \in V |-> 2 * x]]
<1>1. step \in [Nat -> [V -> V]] /\ \A n \in Nat, x \in V : step[n][x] = 2 * x
  OBVIOUS
<1>0. 1 \in V
  OBVIOUS
<1> HIDE DEF step, V
<1>2. PICK p : Iterates(p, V, 1, step)
  BY <1>0, <1>1, Recursion DEF Steps
<1> USE DEF V, Iterates
<1>3. p = [n \in Nat |-> IF n = 0 THEN 1 ELSE 2 * p[n - 1]]
  <2>1. \A n \in Nat : p[n] = IF n = 0 THEN 1 ELSE 2 * p[n - 1]
    <3> TAKE n \in Nat
    <3>1. CASE n = 0
      BY <1>2, <3>1
    <3>2. CASE n # 0
      <4>1. n - 1 \in Nat /\ (n - 1) + 1 = n
        BY <3>2
      <4> QED
        BY <1>1, <1>2, <3>2, <4>1
    <3> QED
      BY <3>1, <3>2
  <2> QED
    BY <1>2, <2>1
<1>4. PowerOfTwo = [n \in Nat |-> IF n = 0 THEN 1 ELSE 2 * PowerOfTwo[n - 1]]
  BY <1>3 DEF PowerOfTwo
<1> HIDE DEF PowerOfTwo
<1>5. PowerOfTwo[0] = 1 /\ \A n \in Nat : PowerOfTwo[n + 1] = 2 * PowerOfTwo[n]
  BY <1>4
<1>6. \A n \in Nat : PowerOfTwo[n] \in Nat \ {0}
  <2> DEFINE S == {n \in Nat : PowerOfTwo[n] \in Nat \ {0}}
  <2>1. 0 \in S /\ \A n \in Nat : n \in S => n + 1 \in S
    BY <1>5
  <2> HIDE DEF S
  <2>2. Nat \subseteq S
    BY <2>1, Induction
  <2> QED
    BY <2>2 DEF S
<1> QED
  BY <1>5, <1>6

(***************************************************************************)
(* Numbers and times.                                                      *)
(***************************************************************************)
\* Number keeps a whole number that the mantissa can hold.
LEMMA NearestExact ==
    ASSUME NEW x \in Exact
    PROVE  x \in Nat /\ ~(x < 0) /\ x % 2 = 0 /\ Nearest(x) = x
<1> DEFINE top == PowerOfTwo[MantissaBits]
           half == PowerOfTwo[MantissaBits - 1]
           units == {PowerOfTwo[k] : k \in 0 .. MantissaBits}
           Fits(u) == x < top * u /\ (u = 1 \/ x >= (top \div 2) * u)
           u == Unit(x)
<1>1. /\ MantissaBits \in Nat /\ MantissaBits - 1 \in Nat /\ MantissaBits >= 2
      /\ (MantissaBits - 1) + 1 = MantissaBits
  BY FormAssumption
<1>2. half \in Nat \ {0} /\ top = 2 * half /\ top \in Nat /\ top \div 2 = half
  <2>1. half \in Nat \ {0} /\ top = 2 * half
    BY <1>1, PowersOfTwo
  <2> HIDE DEF half, top
  <2> QED
    BY <2>1
<1>3. PowerOfTwo[0] = 1 /\ PowerOfTwo[1] = 2 /\ PowerOfTwo[2] = 4
  <2>1. PowerOfTwo[0 + 1] = 2 * PowerOfTwo[0] /\ PowerOfTwo[1 + 1] = 2 * PowerOfTwo[1]
    BY PowersOfTwo
  <2> QED
    BY <2>1, PowersOfTwo
<1>4. \A v \in units : v \in {1, 2, 4} \/ \E q \in Nat \ {0} : v = 8 * q
  <2> SUFFICES ASSUME NEW k \in 0 .. MantissaBits, k >= 3
               PROVE  \E q \in Nat \ {0} : PowerOfTwo[k] = 8 * q
    BY <1>1, <1>3
  <2>1. /\ k - 3 \in Nat /\ k - 2 \in Nat /\ k - 1 \in Nat /\ k \in Nat
        /\ (k - 3) + 1 = k - 2 /\ (k - 2) + 1 = k - 1 /\ (k - 1) + 1 = k
    BY <1>1
  <2>2. /\ PowerOfTwo[k - 3] \in Nat \ {0}
        /\ PowerOfTwo[k - 2] = 2 * PowerOfTwo[k - 3]
        /\ PowerOfTwo[k - 1] = 2 * PowerOfTwo[k - 2]
        /\ PowerOfTwo[k] = 2 * PowerOfTwo[k - 1]
    BY <2>1, PowersOfTwo
  <2>3. PowerOfTwo[k] = 8 * PowerOfTwo[k - 3]
    BY <2>2
  <2> QED
    BY <2>2, <2>3
<1>5. {1, 2, 4} \subseteq units
  BY <1>1, <1>3
<1>6. u = CHOOSE v \in units : Fits(v)
  BY Zenon DEF Unit
<1>7. x \in Nat /\ ~(x < 0) /\ x <= 2 * top /\ x % 2 = 0
  <2>1. PICK n \in 0 .. top : x = 2 * n
    BY DEF Exact
  <2> HIDE DEF top
  <2> QED
    BY <1>2, <2>1
<1> HIDE DEF top, half, units
<1>8. Fits(1) \/ Fits(2) \/ Fits(4)
  BY <1>2, <1>7
<1> HIDE DEF u
<1>9. u \in units /\ Fits(u)
  <2> HIDE DEF Fits
  <2> QED
    BY <1>5, <1>6, <1>8
<1>10. u \in {1, 2, 4}
  <2> SUFFICES ASSUME NEW q \in Nat \ {0}, u = 8 * q PROVE FALSE
    BY <1>4, <1>9
  <2>1. half * (8 * q) = 8 * (half * q) /\ half * q >= half /\ half * q \in Nat
    BY <1>2
  <2>2. x >= half * (8 * q)
    BY <1>2, <1>9
  <2> QED
    BY <1>2, <1>7, <2>1, <2>2
<1>11. x % u = 0 /\ (x \div u) * u = x
  <2>1. CASE u = 1
    BY <1>7, <2>1
  <2>2. CASE u = 2
    BY <1>7, <2>2
  <2>3. CASE u = 4
    <3>1. x = 4 * half
      BY <1>2, <1>7, <1>9, <2>3
    <3> QED
      BY <1>2, <2>3, <3>1
  <2> QED
    BY <1>10, <2>1, <2>2, <2>3
<1>12. 2 * (x % u) < u
  BY <1>10, <1>11
<1> QED
  BY <1>7, <1>11, <1>12 DEF Nearest, u

\* Number and String keep a whole number that the mantissa holds.
LEMMA NumberExact ==
    ASSUME NEW text, text # "", Decimal[text] \in Exact
    PROVE  Number(text) = Decimal[text] /\ Decimal[text] \in Nat /\ Decimal[text] % 2 = 0
<1> DEFINE x == Decimal[text]
<1>1. x \in Nat /\ ~(x < 0) /\ x % 2 = 0 /\ Nearest(x) = x
  BY NearestExact
<1>2. Number(text) = Nearest(x)
  BY <1>1, ZenonT(60) DEF Number
<1> QED
  BY <1>1, <1>2, ZenonT(60)

\* A time within the grace is not after its end in whole seconds.
LEMMA GraceCovers ==
    ASSUME NEW asked \in Nat, NEW at \in Nat, at <= asked + GraceTicks
    PROVE  ~((asked + GraceTicks) \div TicksPerSecond < at \div TicksPerSecond)
<1>1. TicksPerSecond \in Nat \ {0} /\ GraceTicks \in Nat
  BY FormAssumption
<1>2. \A x, y \in Nat : x <= y => ~(y \div TicksPerSecond < x \div TicksPerSecond)
  BY <1>1
<1> QED
  BY <1>1, <1>2

(***************************************************************************)
(* The codecs.                                                             *)
(***************************************************************************)
\* The elements of a sequence.
Elements(s) == {s[i] : i \in DOMAIN s}

\* A concatenation has the elements of both sequences.
LEMMA ConcatElements ==
    ASSUME NEW E, NEW s \in Seq(E), NEW t \in Seq(E)
    PROVE  s \o t \in Seq(E) /\ Elements(s \o t) = Elements(s) \cup Elements(t)
<1>1. /\ s \o t \in Seq(E) /\ DOMAIN (s \o t) = 1 .. Len(s) + Len(t)
      /\ DOMAIN s = 1 .. Len(s) /\ DOMAIN t = 1 .. Len(t) /\ Len(s) \in Nat /\ Len(t) \in Nat
  OBVIOUS
<1>2. \A i \in 1 .. Len(s) : (s \o t)[i] = s[i]
  OBVIOUS
<1>3. \A i \in 1 .. Len(t) : (s \o t)[Len(s) + i] = t[i] /\ Len(s) + i \in 1 .. Len(s) + Len(t)
  BY <1>1
<1>4. \A i \in 1 .. Len(s) + Len(t) : i \in 1 .. Len(s) \/ \E j \in 1 .. Len(t) : i = Len(s) + j
  <2> TAKE i \in 1 .. Len(s) + Len(t)
  <2>1. CASE i <= Len(s)
    BY <1>1, <2>1
  <2>2. CASE i > Len(s)
    <3>1. i - Len(s) \in 1 .. Len(t) /\ i = Len(s) + (i - Len(s))
      BY <1>1, <2>2
    <3> QED
      BY <3>1, ZenonT(60)
  <2> QED
    BY <1>1, <2>1, <2>2
<1> DEFINE u == s \o t
<1>5. Elements(u) \subseteq Elements(s) \cup Elements(t)
  <2> SUFFICES ASSUME NEW i \in 1 .. Len(s) + Len(t) PROVE u[i] \in Elements(s) \cup Elements(t)
    BY <1>1 DEF Elements
  <2>1. CASE i \in 1 .. Len(s)
    BY <1>1, <1>2, <2>1 DEF Elements
  <2>2. CASE \E j \in 1 .. Len(t) : i = Len(s) + j
    BY <1>1, <1>3, <2>2, ZenonT(60), SMTT(60) DEF Elements
  <2> QED
    BY <1>4, <2>1, <2>2
<1> HIDE DEF u
<1>6. Elements(s) \subseteq Elements(u)
  BY <1>1, <1>2 DEF Elements, u
<1>7. Elements(t) \subseteq Elements(u)
  BY <1>1, <1>3 DEF Elements, u
<1> QED
  BY <1>1, <1>5, <1>6, <1>7 DEF u

\* A writer loses nothing that was written to it and adds nothing.
LEMMA WrittenElements ==
    ASSUME NEW E, NEW ss \in Seq(Seq(E))
    PROVE  /\ Written(ss) \in Seq(E)
           /\ Elements(Written(ss)) = UNION {Elements(ss[i]) : i \in DOMAIN ss}
<1> DEFINE V == Seq(E)
           n == Len(ss)
           step == [k \in Nat |-> [v \in V |-> IF k + 1 <= n THEN v \o ss[k + 1] ELSE v]]
           held == CHOOSE g : g = [k \in 0 .. n |-> IF k = 0 THEN << >> ELSE g[k - 1] \o ss[k]]
<1>1. Written(ss) = held[n]
  BY DEF Written
<1>2. /\ n \in Nat /\ DOMAIN ss = 1 .. n /\ << >> \in V /\ Elements(<< >>) = {}
      /\ \A i \in 1 .. n : ss[i] \in V
  BY DEF Elements
<1> HIDE DEF n
<1>3. step \in Steps(V) /\ \A k \in Nat, v \in V : k + 1 <= n => step[k][v] = v \o ss[k + 1]
  <2>1. \A k \in Nat, v \in V : (IF k + 1 <= n THEN v \o ss[k + 1] ELSE v) \in V
    BY <1>2
  <2> QED
    BY <2>1 DEF Steps
<1> HIDE DEF step
<1>4. PICK p : Iterates(p, V, << >>, step)
  <2> HIDE DEF V
  <2> QED
    BY <1>2, <1>3, Recursion
<1>5. \E g : g = [k \in 0 .. n |-> IF k = 0 THEN << >> ELSE g[k - 1] \o ss[k]]
  <2> DEFINE g == [k \in 0 .. n |-> p[k]]
  <2>1. \A k \in 0 .. n : g[k] = IF k = 0 THEN << >> ELSE g[k - 1] \o ss[k]
    <3> TAKE k \in 0 .. n
    <3>1. CASE k = 0
      BY <1>2, <1>4, <3>1 DEF Iterates
    <3>2. CASE k # 0
      <4>1. k - 1 \in Nat /\ (k - 1) + 1 = k /\ k <= n /\ k - 1 \in 0 .. n
        BY <1>2, <3>2
      <4>2. p[k - 1] \in V /\ p[k] = step[k - 1][p[k - 1]]
        BY <1>4, <4>1 DEF Iterates
      <4>3. p[k] = p[k - 1] \o ss[k]
        BY <1>3, <4>1, <4>2
      <4> QED
        BY <3>2, <4>1, <4>3
    <3> QED
      BY <3>1, <3>2
  <2>2. g = [k \in 0 .. n |-> g[k]]
    OBVIOUS
  <2> HIDE DEF g
  <2>3. g = [k \in 0 .. n |-> IF k = 0 THEN << >> ELSE g[k - 1] \o ss[k]]
    BY <2>1, <2>2
  <2> QED
    BY <2>3
<1>6. held = [k \in 0 .. n |-> IF k = 0 THEN << >> ELSE held[k - 1] \o ss[k]]
  BY <1>5
<1> HIDE DEF held
<1> DEFINE Upto(k) == UNION {Elements(ss[i]) : i \in 1 .. k}
           Right(k) == held[k] \in V /\ Elements(held[k]) = Upto(k)
           Good == {k \in Nat : k <= n => Right(k)}
<1>7. 0 \in Good
  <2>1. held[0] = << >>
    BY <1>2, <1>6
  <2>2. Upto(0) = {}
    OBVIOUS
  <2>3. Right(0)
    BY <1>2, <2>1, <2>2
  <2> HIDE DEF Right
  <2> QED
    BY <2>3
<1>8. ASSUME NEW k \in Nat, k \in Good PROVE k + 1 \in Good
  <2>1. ASSUME k + 1 <= n PROVE Right(k + 1)
    <3>1. Right(k)
      <4> HIDE DEF Right
      <4> QED
        BY <1>2, <1>8, <2>1
    <3>2. held[k + 1] = held[k] \o ss[k + 1] /\ ss[k + 1] \in V
      <4>1. k + 1 \in 0 .. n /\ k + 1 \in 1 .. n /\ k + 1 # 0 /\ (k + 1) - 1 = k
        BY <1>2, <2>1
      <4> QED
        BY <1>2, <1>6, <4>1
    <3>3. held[k + 1] \in V /\ Elements(held[k + 1]) = Upto(k) \cup Elements(ss[k + 1])
      BY <3>1, <3>2, ConcatElements
    <3>4. 1 .. k + 1 = (1 .. k) \cup {k + 1}
      OBVIOUS
    <3>5. Upto(k + 1) = Upto(k) \cup Elements(ss[k + 1])
      BY <3>4, ZenonT(20), SMTT(60)
    <3> QED
      BY <3>3, <3>5
  <2> HIDE DEF Right
  <2> QED
    BY <2>1
<1>9. n \in Good
  <2> HIDE DEF Good
  <2>1. Nat \subseteq Good
    BY <1>7, <1>8, Induction, ZenonT(20), SMTT(60)
  <2> QED
    BY <1>2, <2>1
<1>10. Right(n)
  <2> HIDE DEF Right
  <2> QED
    BY <1>2, <1>9
<1> QED
  BY <1>1, <1>2, <1>10

\* A non-empty set of numbers up to a bound has a maximum.
LEMMA MaxExists ==
    ASSUME NEW n \in Nat, NEW S \in SUBSET (1 .. n), S # {}
    PROVE  Max(S) \in S
<1> DEFINE T == {n - i : i \in S}
<1>1. T \in SUBSET Nat /\ T # {}
  <2>1. \A i \in S : n - i \in Nat
    OBVIOUS
  <2> QED
    BY <2>1
<1> HIDE DEF T
<1>2. PICK t \in T : \A u \in T : t <= u
  BY <1>1, LeastNatural
<1>3. PICK x \in S : t = n - x
  BY <1>2 DEF T
<1>4. \A y \in S : x >= y
  <2> TAKE y \in S
  <2>1. t <= n - y
    BY <1>2 DEF T
  <2> QED
    BY <1>3, <2>1
<1> QED
  BY <1>4 DEF Max

\* Field n of a codec is tagged with its number, and agrees with field n of the
\* message that the chain reads in name, wire type and default.
Numbered(fields, n) == fields[n].tag = 8 * n + 0 \/ fields[n].tag = 8 * n + 2
Agree(fields, message, n) ==
    /\ fields[n].name # "tags" /\ fields[n].name = message[n][1]
    /\ fields[n].tag = 8 * n + message[n][2].wire
    /\ fields[n].default = message[n][2].zero /\ message[n][2].wire \in {0, 2}

\* The tags that wallet.js writes as literals.
LEMMA Tags ==
    /\ 8 * 1 + 2 = 10 /\ 8 * 2 + 2 = 18 /\ 8 * 3 + 2 = 26 /\ 8 * 4 + 2 = 34 /\ 8 * 5 + 2 = 42
    /\ 8 * 6 + 2 = 50 /\ 8 * 7 + 2 = 58 /\ 8 * 8 + 2 = 66 /\ 8 * 9 + 2 = 74 /\ 8 * 13 + 2 = 106
    /\ 8 * 3 + 0 = 24 /\ 8 * 4 + 0 = 32 /\ 8 * 5 + 0 = 40 /\ 8 * 10 + 0 = 80 /\ 8 * 11 + 0 = 88
    /\ 8 * 12 + 0 = 96
OBVIOUS

\* The hand-written codecs have the fields of tx.proto; that of a slot has its tags besides.
LEMMA CodecTables ==
    ASSUME NEW kind \in FormKinds
    PROVE  /\ \E len \in Nat \ {0} : DOMAIN Codec[kind] = 1 .. len
           /\ \A i \in DOMAIN Codec[kind] : Numbered(Codec[kind], i)
           /\ DOMAIN Proto[kind] \subseteq DOMAIN Codec[kind]
           /\ \A n \in DOMAIN Proto[kind] : Agree(Codec[kind], Proto[kind], n)
<1>1. CASE kind = "create"
  <2> DEFINE N(n) == Numbered(CreateSlotFields, n)
             A(n) == Agree(CreateSlotFields, MsgCreateSlot, n)
  <2>1. Codec[kind] = CreateSlotFields /\ Proto[kind] = MsgCreateSlot
    BY <1>1 DEF Codec, Proto
  <2>2. DOMAIN CreateSlotFields = 1 .. 13 /\ DOMAIN MsgCreateSlot = 1 .. 12
    BY DEF CreateSlotFields, MsgCreateSlot
  <2>3. /\ N(1) /\ N(2) /\ N(3) /\ N(4) /\ N(5) /\ N(6) /\ N(7)
        /\ N(8) /\ N(9) /\ N(10) /\ N(11) /\ N(12) /\ N(13)
    BY Tags, ZenonT(60) DEF CreateSlotFields, Field, Numbered
  <2>4. /\ A(1) /\ A(2) /\ A(3) /\ A(4) /\ A(5) /\ A(6)
        /\ A(7) /\ A(8) /\ A(9) /\ A(10) /\ A(11) /\ A(12)
    BY Tags, ZenonT(60) DEF CreateSlotFields, MsgCreateSlot, Agree, Field, ProtoText, ProtoInt
  <2> HIDE DEF A, N
  <2>5. (\A i \in 1 .. 13 : N(i)) /\ (\A i \in 1 .. 12 : A(i)) /\ 1 .. 12 \subseteq 1 .. 13
    BY <2>3, <2>4
  <2> QED
    BY <2>1, <2>2, <2>5, ZenonT(20), SMTT(60) DEF A, N
<1>2. CASE kind = "status"
  <2> DEFINE N(n) == Numbered(UpdateSlotStatusFields, n)
             A(n) == Agree(UpdateSlotStatusFields, MsgUpdateSlotStatus, n)
  <2>1. Codec[kind] = UpdateSlotStatusFields /\ Proto[kind] = MsgUpdateSlotStatus
    BY <1>2 DEF Codec, Proto
  <2>2. DOMAIN UpdateSlotStatusFields = 1 .. 3 /\ DOMAIN MsgUpdateSlotStatus = 1 .. 3
    BY DEF UpdateSlotStatusFields, MsgUpdateSlotStatus
  <2>3. /\ N(1) /\ N(2) /\ N(3)
    BY Tags, ZenonT(60) DEF UpdateSlotStatusFields, Field, Numbered
  <2>4. /\ A(1) /\ A(2) /\ A(3)
    BY Tags, ZenonT(60) DEF UpdateSlotStatusFields, MsgUpdateSlotStatus, Agree, Field, ProtoText, ProtoInt
  <2> HIDE DEF A, N
  <2>5. (\A i \in 1 .. 3 : N(i)) /\ (\A i \in 1 .. 3 : A(i)) /\ 1 .. 3 \subseteq 1 .. 3
    BY <2>3, <2>4
  <2> QED
    BY <2>1, <2>2, <2>5 DEF A, N
<1>3. CASE kind = "lease"
  <2> DEFINE N(n) == Numbered(LeaseSlotFields, n)
             A(n) == Agree(LeaseSlotFields, MsgLeaseSlot, n)
  <2>1. Codec[kind] = LeaseSlotFields /\ Proto[kind] = MsgLeaseSlot
    BY <1>3 DEF Codec, Proto
  <2>2. DOMAIN LeaseSlotFields = 1 .. 5 /\ DOMAIN MsgLeaseSlot = 1 .. 5
    BY DEF LeaseSlotFields, MsgLeaseSlot
  <2>3. /\ N(1) /\ N(2) /\ N(3) /\ N(4) /\ N(5)
    BY Tags, ZenonT(60) DEF LeaseSlotFields, Field, Numbered
  <2>4. /\ A(1) /\ A(2) /\ A(3) /\ A(4) /\ A(5)
    BY Tags, ZenonT(60) DEF LeaseSlotFields, MsgLeaseSlot, Agree, Field, ProtoText, ProtoInt
  <2> HIDE DEF A, N
  <2>5. (\A i \in 1 .. 5 : N(i)) /\ (\A i \in 1 .. 5 : A(i)) /\ 1 .. 5 \subseteq 1 .. 5
    BY <2>3, <2>4
  <2> QED
    BY <2>1, <2>2, <2>5 DEF A, N
<1>4. CASE kind = "register"
  <2> DEFINE N(n) == Numbered(RegisterPublisherFields, n)
             A(n) == Agree(RegisterPublisherFields, MsgRegisterPublisher, n)
  <2>1. Codec[kind] = RegisterPublisherFields /\ Proto[kind] = MsgRegisterPublisher
    BY <1>4 DEF Codec, Proto
  <2>2. DOMAIN RegisterPublisherFields = 1 .. 6 /\ DOMAIN MsgRegisterPublisher = 1 .. 6
    BY DEF RegisterPublisherFields, MsgRegisterPublisher
  <2>3. /\ N(1) /\ N(2) /\ N(3) /\ N(4) /\ N(5) /\ N(6)
    BY Tags, ZenonT(60) DEF RegisterPublisherFields, Field, Numbered
  <2>4. /\ A(1) /\ A(2) /\ A(3) /\ A(4) /\ A(5) /\ A(6)
    BY Tags, ZenonT(60) DEF RegisterPublisherFields, MsgRegisterPublisher, Agree, Field, ProtoText, ProtoInt
  <2> HIDE DEF A, N
  <2>5. (\A i \in 1 .. 6 : N(i)) /\ (\A i \in 1 .. 6 : A(i)) /\ 1 .. 6 \subseteq 1 .. 6
    BY <2>3, <2>4
  <2> QED
    BY <2>1, <2>2, <2>5 DEF A, N
<1> QED
  BY <1>1, <1>2, <1>3, <1>4 DEF FormKinds

\* The entries of a wire with a tag.
Tagged(wire, tag) == {i \in DOMAIN wire : wire[i].tag = tag}

\* What the chain reads in field n.
ReadField(kind, wire, n) ==
    IF Tagged(wire, 8 * n + Proto[kind][n][2].wire) = {}
    THEN Proto[kind][n][2].zero
    ELSE wire[Max(Tagged(wire, 8 * n + Proto[kind][n][2].wire))].value

\* Decode reads the field of that name.
LEMMA DecodeField ==
    ASSUME NEW type, NEW bytes, NEW m \in DOMAIN Proto[type]
    PROVE  \E n \in DOMAIN Proto[type] : /\ Proto[type][n][1] = Proto[type][m][1]
                                         /\ Decode(type, bytes)[Proto[type][m][1]]
                                              = ReadField(type, bytes, n)
<1> DEFINE name == Proto[type][m][1]
           n == CHOOSE n \in DOMAIN Proto[type] : Proto[type][n][1] = name
<1>1. n \in DOMAIN Proto[type] /\ Proto[type][n][1] = name
  OBVIOUS
<1>2. Decode(type, bytes)[name] = ReadField(type, bytes, n)
  BY ZenonT(60) DEF Decode, ReadField, Tagged
<1> HIDE DEF n
<1> QED
  BY <1>1, <1>2, ZenonT(60)

\* A tag determines the number of its field.
LEMMA FieldNumber ==
    ASSUME NEW k \in Nat, NEW n \in Nat, NEW v \in {0, 2}, NEW w \in {0, 2}, 8 * k + v = 8 * n + w
    PROVE  k = n
OBVIOUS

\* A message with a value for every field of its codec; its tags are a sequence.
Complete(fields, message) ==
    /\ \A i \in DOMAIN fields : fields[i].name \in DOMAIN message
    /\ "tags" \in DOMAIN message => message.tags \in Seq(STRING)

\* The hand-written codecs and tx.proto agree: whatever a message says, the chain reads
\* it again from what encode makes of it.
THEOREM CodecRoundTrip ==
    ASSUME NEW kind \in FormKinds, NEW message,
           Complete(Codec[kind], message), NEW m \in DOMAIN Proto[kind]
    PROVE  Decode(kind, Encode(Codec[kind], FromPartial(Codec[kind], message)))[Proto[kind][m][1]]
             = message[Proto[kind][m][1]]
<1> DEFINE fields == Codec[kind]
           full == FromPartial(fields, message)
           Entry(f, v) == [tag |-> f.tag, value |-> v]
           Entries(f) == IF f.name = "tags"
                         THEN [i \in DOMAIN full.tags |-> Entry(f, full.tags[i])]
                         ELSE IF full[f.name] = f.default THEN << >> ELSE << Entry(f, full[f.name]) >>
           pieces == [i \in DOMAIN fields |-> Entries(fields[i])]
           wire == Encode(fields, full)
           All == UNION {Elements(pieces[i]) : i \in DOMAIN fields}
<1>1. /\ \A i \in DOMAIN fields : Numbered(fields, i)
      /\ DOMAIN Proto[kind] \subseteq DOMAIN fields
      /\ \A n \in DOMAIN Proto[kind] : Agree(fields, Proto[kind], n)
  BY CodecTables
<1>2. PICK len \in Nat \ {0} : DOMAIN fields = 1 .. len
  BY CodecTables
<1>3. \A i \in DOMAIN fields : full[fields[i].name] = message[fields[i].name]
  BY DEF FromPartial, Complete
<1>4. wire = Written(pieces)
  BY ZenonT(60) DEF Encode
<1> HIDE DEF fields, full, wire
<1>5. ASSUME NEW i \in DOMAIN fields
      PROVE  /\ \E k \in Nat : Entries(fields[i]) = [j \in 1 .. k |-> Entries(fields[i])[j]]
             /\ \A j \in DOMAIN Entries(fields[i]) : Entries(fields[i])[j].tag = fields[i].tag
             /\ fields[i].name # "tags" =>
                   \A e : e \in Elements(Entries(fields[i])) <=>
                             /\ message[fields[i].name] # fields[i].default
                             /\ e = Entry(fields[i], message[fields[i].name])
  <2>1. CASE fields[i].name = "tags"
    <3>1. full.tags \in Seq(STRING)
      BY <1>3, <2>1 DEF fields, Complete
    <3>2. DOMAIN full.tags = 1 .. Len(full.tags) /\ Len(full.tags) \in Nat
      BY <3>1
    <3> QED
      BY <2>1, <3>2
  <2>2. CASE fields[i].name # "tags" /\ full[fields[i].name] = fields[i].default
    <3>1. Entries(fields[i]) = << >> /\ << >> = [j \in 1 .. 0 |-> << >>[j]]
      BY <2>2
    <3> QED
      BY <1>3, <2>2, <3>1 DEF Elements
  <2>3. CASE fields[i].name # "tags" /\ full[fields[i].name] # fields[i].default
    <3> DEFINE x == Entry(fields[i], full[fields[i].name])
    <3>1. Entries(fields[i]) = << x >> /\ x.tag = fields[i].tag
      BY <2>3
    <3> HIDE DEF x
    <3>2. << x >> = [j \in 1 .. 1 |-> << x >>[j]] /\ << x >>[1] = x
      OBVIOUS
    <3>3. Elements(<< x >>) = {x}
      BY <3>2 DEF Elements
    <3> HIDE DEF Entries
    <3>4. \A j \in DOMAIN Entries(fields[i]) : Entries(fields[i])[j] = x
      BY <3>1, <3>2
    <3>5. \A e : e \in Elements(Entries(fields[i])) <=> e = x
      BY <3>1, <3>3
    <3> QED
      BY <1>3, <2>3, <3>1, <3>2, <3>4, <3>5 DEF x
  <2> QED
    BY <2>1, <2>2, <2>3
<1>0. \A f, v : Entry(f, v).tag = f.tag /\ Entry(f, v).value = v
  OBVIOUS
<1> HIDE DEF Entries, Entry
<1>6. pieces \in Seq(Seq(All)) /\ Len(pieces) # 0 /\ DOMAIN pieces = DOMAIN fields
  <2>1. ASSUME NEW i \in DOMAIN fields PROVE pieces[i] \in Seq(All)
    <3>1. PICK k \in Nat : pieces[i] = [j \in 1 .. k |-> pieces[i][j]]
      BY <1>5
    <3>2. \A j \in 1 .. k : pieces[i][j] \in All
      BY <3>1 DEF Elements
    <3>3. pieces[i] \in [1 .. k -> All]
      BY <3>1, <3>2
    <3> HIDE DEF pieces, All
    <3> QED
      BY <3>3
  <2>2. pieces \in [1 .. len -> Seq(All)]
    BY <1>2, <2>1
  <2> HIDE DEF pieces, All
  <2> QED
    BY <1>2, <2>2
<1>7. wire \in Seq(All) /\ Elements(wire) = All
  <2> HIDE DEF All
  <2>1. Written(pieces) \in Seq(All)
    BY <1>6, WrittenElements
  <2>2. Elements(Written(pieces)) = UNION {Elements(pieces[i]) : i \in DOMAIN fields}
    BY <1>6, WrittenElements
  <2> QED
    BY <1>4, <2>1, <2>2 DEF All
<1>8. ASSUME NEW n \in DOMAIN fields, NEW i \in DOMAIN wire, NEW w \in {0, 2},
             wire[i].tag = 8 * n + w
      PROVE  wire[i] \in Elements(pieces[n])
  <2>1. wire[i] \in All
    BY <1>7, Zenon DEF Elements
  <2>2. PICK k \in DOMAIN fields : wire[i] \in Elements(pieces[k])
    BY <2>1, Zenon
  <2>3. wire[i].tag = fields[k].tag
    BY <1>5, <2>2 DEF Elements
  <2>4. Numbered(fields, k)
    BY <1>1
  <2>5. k \in Nat /\ n \in Nat
    BY <1>2
  <2>6. PICK v \in {0, 2} : 8 * k + v = 8 * n + w
    BY <1>8, <2>3, <2>4, Zenon DEF Numbered
  <2>7. k = n
    BY <2>5, <2>6, FieldNumber
  <2> QED
    BY <2>2, <2>7
<1>9. Decode(kind, wire)[Proto[kind][m][1]] = message[Proto[kind][m][1]]
  <2> DEFINE name == Proto[kind][m][1]
  <2>0. \E n \in DOMAIN Proto[kind] :
            /\ Proto[kind][n][1] = Proto[kind][m][1]
            /\ Decode(kind, wire)[Proto[kind][m][1]] = ReadField(kind, wire, n)
    BY DecodeField
  <2>1. PICK n \in DOMAIN Proto[kind] :
            /\ Proto[kind][n][1] = name
            /\ Decode(kind, wire)[name] = ReadField(kind, wire, n)
    BY <2>0, Zenon
  <2> DEFINE w == Proto[kind][n][2].wire
             zero == Proto[kind][n][2].zero
             found == Tagged(wire, 8 * n + w)
  <2>2. /\ n \in DOMAIN fields /\ fields[n].name # "tags" /\ fields[n].name = name
        /\ fields[n].tag = 8 * n + w /\ fields[n].default = zero
    BY <1>1, <2>1, Zenon DEF Agree
  <2>3. \A e : e \in Elements(pieces[n]) <=> message[name] # zero /\ e = Entry(fields[n], message[name])
    BY <1>5, <2>2, Zenon
  <2>4. w \in {0, 2}
    BY <1>1, <2>1 DEF Agree
  <2>5. \A i \in found : message[name] # zero /\ wire[i] = Entry(fields[n], message[name])
    BY <1>8, <2>2, <2>3, <2>4, Zenon DEF Tagged
  <2>6. ASSUME message[name] # zero PROVE found # {}
    <3>1. Entry(fields[n], message[name]) \in All
      BY <2>2, <2>3, <2>6, Zenon
    <3>2. PICK i \in DOMAIN wire : wire[i] = Entry(fields[n], message[name])
      BY <1>7, <3>1, Zenon DEF Elements
    <3>3. wire[i].tag = 8 * n + w
      BY <1>0, <2>2, <3>2
    <3> QED
      BY <3>3, Zenon DEF Tagged
  <2>7. CASE found = {}
    BY <2>1, <2>6, <2>7, Zenon DEF ReadField
  <2>8. CASE found # {}
    <3>1. Len(wire) \in Nat /\ found \in SUBSET (1 .. Len(wire))
      BY <1>7 DEF Tagged
    <3> HIDE DEF found
    <3>2. Max(found) \in found
      BY <2>8, <3>1, MaxExists
    <3>3. wire[Max(found)].value = message[name]
      BY <1>0, <2>5, <3>2
    <3> QED
      BY <2>1, <2>8, <3>3, Zenon DEF found, ReadField
  <2> QED
    BY <2>7, <2>8
<1> QED
  BY <1>9, Zenon DEF wire, full, fields

\* The message that each handler builds.
LEMMA MessageOf ==
    ASSUME NEW in, NEW address, NEW asked, NEW slots
    PROVE  /\ in.kind = "create" =>
                  Message(in, address, asked, slots) = CreateSlotMessage(in, address, slots)
           /\ in.kind = "status" =>
                  Message(in, address, asked, slots) = SlotStatusMessage(in, address)
           /\ in.kind = "lease" =>
                  Message(in, address, asked, slots) = LeaseMessage(in, address, asked)
           /\ in.kind = "register" =>
                  Message(in, address, asked, slots) = RegisterMessage(in, address)
BY DEF Message

\* What the handlers build has all the fields of its codec.
LEMMA MessageComplete ==
    ASSUME NEW in, in.kind \in FormKinds,
           NEW address, NEW asked, NEW slots
    PROVE  Complete(Codec[in.kind], Message(in, address, asked, slots))
<1> DEFINE message == Message(in, address, asked, slots)
<1>1. CASE in.kind = "create"
  <2> DEFINE N(i) == CreateSlotFields[i].name \in DOMAIN message
  <2>1. message = CreateSlotMessage(in, address, slots) /\ Codec[in.kind] = CreateSlotFields
    BY <1>1, MessageOf DEF Codec
  <2>2. DOMAIN CreateSlotFields = 1 .. 13
    BY DEF CreateSlotFields
  <2>0. DOMAIN message =
            {"publisher", "domain", "label", "summary", "category", "placement", "size", "rateDenom",
             "rateAmount", "unitSeconds", "minDurationSeconds", "maxDurationSeconds", "tags"}
    BY <2>1, ZenonT(60) DEF CreateSlotMessage
  <2>3. message.tags = << >>
    <3>1. CreateSlotMessage(in, address, slots).tags = << >>
      BY ZenonT(60) DEF CreateSlotMessage
    <3> QED
      BY <2>1, <3>1
  <2> HIDE DEF message
  <2>4. /\ N(1) /\ N(2) /\ N(3) /\ N(4) /\ N(5) /\ N(6) /\ N(7)
        /\ N(8) /\ N(9) /\ N(10) /\ N(11) /\ N(12) /\ N(13)
    BY <2>0, ZenonT(60) DEF CreateSlotFields, Field
  <2> HIDE DEF N
  <2>5. \A i \in 1 .. 13 : N(i)
    BY <2>4
  <2>6. << >> \in Seq(STRING)
    OBVIOUS
  <2> QED
    BY <2>1, <2>2, <2>3, <2>5, <2>6 DEF Complete, N, message
<1>2. CASE in.kind = "status"
  <2> DEFINE N(i) == UpdateSlotStatusFields[i].name \in DOMAIN message
  <2>1. message = SlotStatusMessage(in, address) /\ Codec[in.kind] = UpdateSlotStatusFields
    BY <1>2, MessageOf DEF Codec
  <2>2. DOMAIN UpdateSlotStatusFields = 1 .. 3
    BY DEF UpdateSlotStatusFields
  <2>3. DOMAIN message = {"publisher", "slotId", "status"}
    BY <2>1, ZenonT(60) DEF SlotStatusMessage
  <2> HIDE DEF message
  <2>4. N(1) /\ N(2) /\ N(3)
    BY <2>3, ZenonT(60) DEF UpdateSlotStatusFields, Field
  <2> HIDE DEF N
  <2>5. \A i \in 1 .. 3 : N(i)
    BY <2>4
  <2> QED
    BY <2>1, <2>2, <2>3, <2>5 DEF Complete, N, message
<1>3. CASE in.kind = "lease"
  <2> DEFINE N(i) == LeaseSlotFields[i].name \in DOMAIN message
  <2>1. message = LeaseMessage(in, address, asked) /\ Codec[in.kind] = LeaseSlotFields
    BY <1>3, MessageOf DEF Codec
  <2>2. DOMAIN LeaseSlotFields = 1 .. 5
    BY DEF LeaseSlotFields
  <2>3. DOMAIN message = {"lessee", "slotId", "targetUrl", "startsAtUnix", "durationSeconds"}
    BY <2>1, ZenonT(60) DEF LeaseMessage
  <2> HIDE DEF message
  <2>4. N(1) /\ N(2) /\ N(3) /\ N(4) /\ N(5)
    BY <2>3, ZenonT(60) DEF LeaseSlotFields, Field
  <2> HIDE DEF N
  <2>5. \A i \in 1 .. 5 : N(i)
    BY <2>4
  <2> QED
    BY <2>1, <2>2, <2>3, <2>5 DEF Complete, N, message
<1>4. CASE in.kind = "register"
  <2> DEFINE N(i) == RegisterPublisherFields[i].name \in DOMAIN message
  <2>1. message = RegisterMessage(in, address) /\ Codec[in.kind] = RegisterPublisherFields
    BY <1>4, MessageOf DEF Codec
  <2>2. DOMAIN RegisterPublisherFields = 1 .. 6
    BY DEF RegisterPublisherFields
  <2>3. DOMAIN message = {"owner", "domain", "metadataUri", "proof", "verifier", "referrer"}
    BY <2>1, ZenonT(60) DEF RegisterMessage
  <2> HIDE DEF message
  <2>4. N(1) /\ N(2) /\ N(3) /\ N(4) /\ N(5) /\ N(6)
    BY <2>3, ZenonT(60) DEF RegisterPublisherFields, Field
  <2> HIDE DEF N
  <2>5. \A i \in 1 .. 6 : N(i)
    BY <2>4
  <2> QED
    BY <2>1, <2>2, <2>3, <2>5 DEF Complete, N, message
<1> QED
  BY <1>1, <1>2, <1>3, <1>4, ZenonT(60) DEF FormKinds

\* A message of this kind has a field of this name.
Carries(kind, name) == \E m \in DOMAIN Proto[kind] : Proto[kind][m][1] = name

\* Fields of tx.proto.
LEMMA FieldsCarried ==
    /\ Carries("create", "publisher") /\ Carries("create", "domain") /\ Carries("create", "label")
    /\ Carries("create", "summary") /\ Carries("create", "category")
    /\ Carries("create", "placement") /\ Carries("create", "size")
    /\ Carries("create", "rateAmount") /\ Carries("create", "unitSeconds")
    /\ Carries("create", "minDurationSeconds") /\ Carries("create", "maxDurationSeconds")
    /\ Carries("status", "publisher") /\ Carries("status", "slotId") /\ Carries("status", "status")
    /\ Carries("lease", "lessee") /\ Carries("lease", "slotId") /\ Carries("lease", "targetUrl")
    /\ Carries("lease", "startsAtUnix") /\ Carries("lease", "durationSeconds")
    /\ Carries("register", "owner") /\ Carries("register", "domain")
    /\ Carries("register", "referrer")
<1>1. /\ Proto["create"] = MsgCreateSlot /\ Proto["status"] = MsgUpdateSlotStatus
      /\ Proto["lease"] = MsgLeaseSlot /\ Proto["register"] = MsgRegisterPublisher
  BY ZenonT(60) DEF Proto
<1>2. /\ {1, 2, 3, 4, 5, 6, 7, 9, 10, 11, 12} \subseteq DOMAIN MsgCreateSlot
      /\ {1, 2, 3} \subseteq DOMAIN MsgUpdateSlotStatus
      /\ {1, 2, 3, 4, 5} \subseteq DOMAIN MsgLeaseSlot
      /\ {1, 2, 6} \subseteq DOMAIN MsgRegisterPublisher
  BY DEF MsgCreateSlot, MsgUpdateSlotStatus, MsgLeaseSlot, MsgRegisterPublisher
<1>3. /\ MsgCreateSlot[1][1] = "publisher" /\ MsgCreateSlot[2][1] = "domain"
      /\ MsgCreateSlot[3][1] = "label" /\ MsgCreateSlot[4][1] = "summary"
      /\ MsgCreateSlot[5][1] = "category" /\ MsgCreateSlot[6][1] = "placement"
      /\ MsgCreateSlot[7][1] = "size"
      /\ MsgCreateSlot[9][1] = "rateAmount" /\ MsgCreateSlot[10][1] = "unitSeconds"
      /\ MsgCreateSlot[11][1] = "minDurationSeconds"
      /\ MsgCreateSlot[12][1] = "maxDurationSeconds"
  BY ZenonT(60) DEF MsgCreateSlot
<1>4. /\ MsgUpdateSlotStatus[1][1] = "publisher" /\ MsgUpdateSlotStatus[2][1] = "slotId"
      /\ MsgUpdateSlotStatus[3][1] = "status"
  BY ZenonT(60) DEF MsgUpdateSlotStatus
<1>5. /\ MsgLeaseSlot[1][1] = "lessee" /\ MsgLeaseSlot[2][1] = "slotId"
      /\ MsgLeaseSlot[3][1] = "targetUrl" /\ MsgLeaseSlot[4][1] = "startsAtUnix"
      /\ MsgLeaseSlot[5][1] = "durationSeconds"
  BY ZenonT(60) DEF MsgLeaseSlot
<1>6. /\ MsgRegisterPublisher[1][1] = "owner" /\ MsgRegisterPublisher[2][1] = "domain"
      /\ MsgRegisterPublisher[6][1] = "referrer"
  BY ZenonT(60) DEF MsgRegisterPublisher
<1>7. /\ Carries("create", "publisher") /\ Carries("create", "domain") /\ Carries("create", "label")
      /\ Carries("create", "summary") /\ Carries("create", "category")
      /\ Carries("create", "placement") /\ Carries("create", "size")
      /\ Carries("create", "rateAmount") /\ Carries("create", "unitSeconds")
      /\ Carries("create", "minDurationSeconds") /\ Carries("create", "maxDurationSeconds")
  BY <1>1, <1>2, <1>3, ZenonT(60) DEF Carries
<1>8. Carries("status", "publisher") /\ Carries("status", "slotId") /\ Carries("status", "status")
  BY <1>1, <1>2, <1>4, ZenonT(60) DEF Carries
<1>9. /\ Carries("lease", "lessee") /\ Carries("lease", "slotId") /\ Carries("lease", "targetUrl")
      /\ Carries("lease", "startsAtUnix") /\ Carries("lease", "durationSeconds")
  BY <1>1, <1>2, <1>5, ZenonT(60) DEF Carries
<1>10. /\ Carries("register", "owner") /\ Carries("register", "domain")
       /\ Carries("register", "referrer")
  BY <1>1, <1>2, <1>6, ZenonT(60) DEF Carries
<1> QED
  BY <1>7, <1>8, <1>9, <1>10, ZenonT(60)

\* The chain reads in this field what the message says.
ReadsAs(kind, wire, name, message) == Decode(kind, wire)[name] = message[name]

\* What the chain reads in a transaction is the message that the handler built.
LEMMA WireRead ==
    ASSUME NEW kind \in FormKinds, NEW in, in.kind = kind,
           NEW address, NEW asked, NEW slots, NEW name, Carries(kind, name)
    PROVE  ReadsAs(kind, Wire(in, address, asked, slots), name, Message(in, address, asked, slots))
<1> DEFINE message == Message(in, address, asked, slots)
<1>0. PICK m \in DOMAIN Proto[kind] : Proto[kind][m][1] = name
  BY ZenonT(60) DEF Carries
<1>1. Complete(Codec[kind], message)
  BY MessageComplete, ZenonT(60)
<1>2. Wire(in, address, asked, slots) = Encode(Codec[kind], FromPartial(Codec[kind], message))
  BY ZenonT(60) DEF Wire
<1> HIDE DEF message
<1>3. Decode(kind, Encode(Codec[kind], FromPartial(Codec[kind], message)))[Proto[kind][m][1]]
        = message[Proto[kind][m][1]]
  BY <1>1, CodecRoundTrip, ZenonT(60)
<1> QED
  BY <1>0, <1>2, <1>3, ZenonT(60) DEF message, ReadsAs
=============================================================================
