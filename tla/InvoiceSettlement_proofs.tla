---------------------- MODULE InvoiceSettlement_proofs ----------------------
(***************************************************************************)
(* Proofs about InvoiceSettlement, for any number of payments, returns and *)
(* concurrent requests: its types, that the columns never show money no    *)
(* row brought, that it implements the commission ledger, and that a       *)
(* credit note reverses what the same money would have caused.             *)
(***************************************************************************)
EXTENDS InvoiceSettlement, Integers, FiniteSetTheorems, TLAPS

-----------------------------------------------------------------------------
(***************************************************************************)
(* Sums of money                                                           *)
(***************************************************************************)

\* The rows f are finitely many and each holds a natural amount.
Amounts(f) == IsFiniteSet(DOMAIN f) /\ \A x \in DOMAIN f : f[x] \in Nat

\* One row holds as many coins as its amount says.
LEMMA RowCoins ==
    ASSUME NEW x, NEW n \in Nat
    PROVE  IsFiniteSet({x} \X (1 .. n)) /\ Cardinality({x} \X (1 .. n)) = n
<1>1. IsFiniteSet(1 .. n) /\ Cardinality(1 .. n) = n
  BY FS_Interval
<1>2. IsFiniteSet({x}) /\ Cardinality({x}) = 1
  BY FS_Singleton
<1>3. /\ IsFiniteSet({x} \X (1 .. n))
      /\ Cardinality({x} \X (1 .. n)) = Cardinality({x}) * Cardinality(1 .. n)
  BY <1>1, <1>2, FS_Product
<1> QED  BY <1>1, <1>2, <1>3

\* A sum of finitely many natural amounts is a natural.
LEMMA TotalType ==
    ASSUME NEW f, Amounts(f)
    PROVE  IsFiniteSet(Coins(f)) /\ Total(f) \in Nat
<1> DEFINE rows == {{x} \X (1 .. f[x]) : x \in DOMAIN f}
           row  == [x \in DOMAIN f |-> {x} \X (1 .. f[x])]
<1>1. IsFiniteSet(rows)
  <2>1. row \in Surjection(DOMAIN f, rows)
    BY DEF Surjection
  <2> QED  BY <2>1, FS_Surjection DEF Amounts
<1>2. \A s \in rows : IsFiniteSet(s)
  BY RowCoins DEF Amounts
<1>3. IsFiniteSet(UNION rows)
  BY <1>1, <1>2, FS_UNION
<1> QED  BY <1>3, FS_CardinalityType DEF Coins, Total

\* A row that held nothing and now holds n adds n.
LEMMA TotalNewRow ==
    ASSUME NEW f, NEW x \in DOMAIN f, NEW n \in Nat, Amounts(f), f[x] = 0,
           f = [y \in DOMAIN f |-> f[y]]
    PROVE  /\ Amounts([f EXCEPT ![x] = n])
           /\ Total(f) \in Nat /\ Total([f EXCEPT ![x] = n]) \in Nat
           /\ Total(f) + n <= Total([f EXCEPT ![x] = n])
<1> DEFINE full == [f EXCEPT ![x] = n]
           row  == {x} \X (1 .. n)
<1>1. /\ Amounts(full) /\ DOMAIN full = DOMAIN f /\ full[x] = n
      /\ \A y \in DOMAIN f \ {x} : full[y] = f[y]
  BY DEF Amounts
<1> HIDE DEF full
<1>2. Coins(f) \cup row \subseteq Coins(full) /\ Coins(f) \cap row = {}
  <2>1. \A coin \in Coins(f) : coin \in Coins(full) /\ coin \notin row
    BY <1>1 DEF Coins, Amounts
  <2>2. row \subseteq Coins(full)
    BY <1>1 DEF Coins
  <2>3. QED
    BY <2>1, <2>2
<1>3. /\ IsFiniteSet(Coins(f)) /\ Total(f) \in Nat
      /\ IsFiniteSet(Coins(full)) /\ Total(full) \in Nat
      /\ IsFiniteSet(row) /\ Cardinality(row) = n
  BY <1>1, TotalType, RowCoins
<1> HIDE DEF row
<1>4. Cardinality(Coins(f) \cup row) = Total(f) + n
  <2>1. Cardinality(Coins(f) \cap row) = 0
    BY <1>2, FS_EmptySet
  <2>2. Cardinality(Coins(f) \cup row)
          = Cardinality(Coins(f)) + Cardinality(row) - Cardinality(Coins(f) \cap row)
    BY <1>3, FS_Union
  <2>3. QED
    BY <2>1, <2>2, <1>3 DEF Total
<1>5. Total(f) + n <= Total(full)
  BY <1>2, <1>3, <1>4, FS_Subset DEF Total
<1> QED  BY <1>1, <1>3, <1>5 DEF full

\* A sum of finitely many integers, negative ones counted as nothing, is a natural.
LEMMA TotalOfIntegers ==
    ASSUME NEW f, IsFiniteSet(DOMAIN f), \A x \in DOMAIN f : f[x] \in Int
    PROVE  Total(f) \in Nat
<1> DEFINE raised == [x \in DOMAIN f |-> IF f[x] < 0 THEN 0 ELSE f[x]]
<1>1. Amounts(raised)
  BY DEF Amounts
<1>2. \A x \in DOMAIN f : 1 .. f[x] = 1 .. raised[x]
  OBVIOUS
<1>3. Coins(f) = Coins(raised)
  BY <1>2 DEF Coins
<1> QED  BY <1>1, <1>3, TotalType DEF Total

\* As many rows, each as dear in f and g together as in h.
LEMMA TotalSum ==
    ASSUME NEW f, NEW g, Amounts(f), Amounts(g), DOMAIN g = DOMAIN f
    PROVE  LET h == [x \in DOMAIN f |-> f[x] + g[x]]
           IN  Amounts(h) /\ Total(h) = Total(f) + Total(g)
<1> DEFINE h == [x \in DOMAIN f |-> f[x] + g[x]]
           above == Coins(h) \ Coins(f)
           up == [c \in Coins(g) |-> <<c[1], f[c[1]] + c[2]>>]
<1>1. /\ Amounts(h) /\ DOMAIN h = DOMAIN f
      /\ \A x \in DOMAIN f : h[x] = f[x] + g[x] /\ f[x] \in Nat /\ g[x] \in Nat
  BY DEF Amounts
<1> HIDE DEF h
<1>2. Coins(f) \subseteq Coins(h)
  BY <1>1 DEF Coins
<1>3. /\ IsFiniteSet(Coins(f)) /\ IsFiniteSet(Coins(g)) /\ IsFiniteSet(Coins(h))
      /\ Total(f) \in Nat /\ Total(g) \in Nat /\ Total(h) \in Nat
  BY <1>1, TotalType
<1>4. \A c \in Coins(g) : /\ c[1] \in DOMAIN f /\ c[2] \in 1 .. g[c[1]]
                          /\ c = <<c[1], c[2]>>
  BY <1>1 DEF Coins
<1>5. \A c : c \in above <=> /\ c = <<c[1], c[2]>> /\ c[1] \in DOMAIN f
                             /\ c[2] \in 1 .. h[c[1]] /\ c[2] \notin 1 .. f[c[1]]
  BY <1>1 DEF Coins
<1> HIDE DEF above
<1>6. up \in Injection(Coins(g), above)
  <2>1. \A c \in Coins(g) : up[c] \in above
    BY <1>1, <1>4, <1>5
  <2>2. \A c, e \in Coins(g) : up[c] = up[e] => c = e
    <3> SUFFICES ASSUME NEW c \in Coins(g), NEW e \in Coins(g), up[c] = up[e] PROVE c = e
      OBVIOUS
    <3>1. c[1] = e[1] /\ f[c[1]] + c[2] = f[c[1]] + e[2]
      OBVIOUS
    <3>2. c[2] \in Int /\ e[2] \in Int /\ f[c[1]] \in Int
      BY <1>1, <1>4
    <3>3. c[2] = e[2]
      <4>1. \A n, i, j \in Int : n + i = n + j => i = j
        OBVIOUS
      <4>2. QED
        BY <3>1, <3>2, <4>1
    <3>4. QED
      BY <1>4, <3>1, <3>3
  <2>3. QED
    BY <2>1, <2>2 DEF Injection, IsInjective
<1>7. up \in Surjection(Coins(g), above)
  <2>1. ASSUME NEW e \in above PROVE \E c \in Coins(g) : up[c] = e
    <3> DEFINE x == e[1]
               c == <<x, e[2] - f[x]>>
    <3>1. x \in DOMAIN f /\ e = <<x, e[2]>> /\ e[2] \in 1 .. h[x] /\ e[2] \notin 1 .. f[x]
      BY <1>5
    <3>2. e[2] - f[x] \in 1 .. g[x] /\ f[x] + (e[2] - f[x]) = e[2]
      BY <1>1, <3>1
    <3>3. c \in Coins(g)
      BY <3>1, <3>2 DEF Coins
    <3>4. QED
      BY <3>1, <3>2, <3>3
  <2>2. QED
    BY <1>6, <2>1 DEF Surjection, Injection
<1>8. IsFiniteSet(above) /\ Cardinality(above) = Total(g)
  <2>1. ExistsBijection(Coins(g), above)
    BY <1>6, <1>7 DEF ExistsBijection, Bijection
  <2>2. QED
    BY <1>3, <2>1, FS_Bijection DEF Total
<1>9. Total(h) = Total(f) + Total(g)
  <2>1. Coins(h) = Coins(f) \cup above /\ Coins(f) \cap above = {}
    BY <1>2 DEF above
  <2>2. Cardinality(Coins(f) \cup above)
          = Cardinality(Coins(f)) + Cardinality(above) - Cardinality(Coins(f) \cap above)
    BY <1>3, <1>8, FS_Union
  <2>3. Cardinality(Coins(f) \cap above) = 0
    BY <2>1, FS_EmptySet
  <2>4. QED
    BY <1>3, <1>8, <2>1, <2>2, <2>3 DEF Total
<1>10. QED
  BY <1>1, <1>9 DEF h

LEMMA TotalSame ==
    ASSUME NEW S, IsFiniteSet(S), NEW k \in Nat
    PROVE  /\ Amounts([x \in S |-> k])
           /\ Total([x \in S |-> k]) = Cardinality(S) * k
<1> DEFINE f == [x \in S |-> k]
<1>1. Amounts(f)
  BY DEF Amounts
<1>2. Coins(f) = S \X (1 .. k)
  BY DEF Coins
<1>3. IsFiniteSet(1 .. k) /\ Cardinality(1 .. k) = k
  BY FS_Interval
<1> HIDE DEF f
<1>4. Cardinality(S \X (1 .. k)) = Cardinality(S) * Cardinality(1 .. k)
  BY <1>3, FS_Product
<1>5. QED
  BY <1>1, <1>2, <1>3, <1>4 DEF Total, f

LEMMA Division ==
    ASSUME NEW n \in Nat, NEW d \in Nat, d > 0
    PROVE  /\ n \div d \in Nat /\ n % d \in 0 .. (d - 1)
           /\ n = d * (n \div d) + (n % d)
OBVIOUS

LEMMA Cancel ==
    ASSUME NEW d \in Nat, d > 0, NEW x \in Int, NEW y \in Int
    PROVE  /\ d * x <= d * y => x <= y
           /\ d * x < d * y => x < y
           /\ x <= y => d * x <= d * y
           /\ x < y => d * x < d * y
OBVIOUS

LEMMA MulAtMost ==
    ASSUME NEW d \in Nat, NEW a \in Int, NEW b \in Int, a <= b
    PROVE  a * d <= b * d
OBVIOUS

\* Numbers of the form i * c + j - 1, with j from 1 to c, tell i and j.
LEMMA Places ==
    ASSUME NEW c \in Nat, NEW i \in Nat, NEW j \in 1 .. c, NEW k \in Nat, NEW l \in 1 .. c,
           i * c + j - 1 = k * c + l - 1
    PROVE  i = k /\ j = l
<1>1. (i - k) * c = l - j
  <2>1. i * c \in Int /\ k * c \in Int /\ (i - k) * c = i * c - k * c
    OBVIOUS
  <2>2. QED
    BY <2>1
<1>2. l - j < c /\ j - l < c
  OBVIOUS
<1>3. CASE i - k >= 1
  <2>1. (i - k) * c >= c
    BY <1>3
  <2>2. QED
    BY <1>1, <1>2, <2>1
<1>4. CASE k - i >= 1
  <2>1. (k - i) * c >= c
    BY <1>4
  <2>2. (k - i) * c = j - l
    BY <1>1
  <2>3. QED
    BY <1>2, <2>1, <2>2
<1>5. CASE i = k
  BY <1>5
<1>6. QED
  BY <1>3, <1>4, <1>5

\* What holds of every row, in whole multiples, holds of the sums: c copies of the
\* coins of f find room in d copies of those of g.
LEMMA TotalScaled ==
    ASSUME NEW f, NEW g, Amounts(f), Amounts(g), DOMAIN g = DOMAIN f,
           NEW c \in Nat, NEW d \in Nat, d > 0,
           \A x \in DOMAIN f : c * f[x] <= d * g[x]
    PROVE  c * Total(f) <= d * Total(g)
<1> DEFINE From == Coins(f) \X (1 .. c)
           Into == Coins(g) \X (1 .. d)
           place(e) == (e[1][2] - 1) * c + e[2] - 1
           to == [e \in From |->
                    <<<<e[1][1], (place(e) \div d) + 1>>, (place(e) % d) + 1>>]
<1>1. /\ IsFiniteSet(Coins(f)) /\ IsFiniteSet(Coins(g))
      /\ Total(f) \in Nat /\ Total(g) \in Nat
  BY TotalType
<1>2. /\ IsFiniteSet(From) /\ Cardinality(From) = Total(f) * c
      /\ IsFiniteSet(Into) /\ Cardinality(Into) = Total(g) * d
  <2>1. /\ IsFiniteSet(1 .. c) /\ Cardinality(1 .. c) = c
        /\ IsFiniteSet(1 .. d) /\ Cardinality(1 .. d) = d
    BY FS_Interval
  <2>2. QED
    BY <1>1, <2>1, FS_Product DEF Total
<1>3. ASSUME NEW e \in From
      PROVE  /\ e = <<<<e[1][1], e[1][2]>>, e[2]>>
             /\ e[1][1] \in DOMAIN f /\ e[1][2] \in Nat /\ e[1][2] - 1 \in Nat /\ e[2] \in 1 .. c
             /\ place(e) \in Nat
             /\ place(e) \div d \in Nat /\ place(e) % d \in 0 .. (d - 1)
             /\ place(e) = d * (place(e) \div d) + (place(e) % d)
             /\ (place(e) \div d) + 1 \in 1 .. g[e[1][1]]
  <2>1. PICK x \in DOMAIN f, i \in Nat, j \in 1 .. c : e = <<<<x, i>>, j>> /\ i \in 1 .. f[x]
    BY DEF Coins, Amounts
  <2>2. f[x] \in Nat /\ g[x] \in Nat /\ c * f[x] <= d * g[x] /\ 1 <= i /\ i <= f[x]
    BY <2>1 DEF Amounts
  <2> DEFINE n == (i - 1) * c + j - 1
  <2>3. i - 1 \in Nat /\ (i - 1) * c \in Nat /\ n \in Nat
    <3>1. i - 1 \in Nat
      BY <2>2
    <3>2. (i - 1) * c \in Nat
      BY <3>1
    <3>3. QED
      BY <3>1, <3>2
  <2>4. n < d * g[x]
    <3>1. i * c <= f[x] * c
      BY <2>2, MulAtMost
    <3>2. (i - 1) * c = i * c - c
      BY <2>2
    <3>3. f[x] * c = c * f[x] /\ i * c \in Int /\ c * f[x] \in Int /\ d * g[x] \in Int
      BY <2>2
    <3> HIDE DEF n
    <3>4. n = i * c - c + j - 1
      BY <3>2 DEF n
    <3>5. QED
      BY <2>2, <3>1, <3>3, <3>4
  <2> HIDE DEF n
  <2>5. n \div d \in Nat /\ n % d \in 0 .. (d - 1) /\ n = d * (n \div d) + (n % d)
    BY <2>3, Division
  <2>6. d * (n \div d) < d * g[x]
    <3>1. d * (n \div d) \in Int /\ d * g[x] \in Int
      BY <2>2, <2>5
    <3>2. QED
      BY <2>3, <2>4, <2>5, <3>1
  <2>7. n \div d < g[x]
    BY <2>2, <2>5, <2>6, Cancel
  <2>8. place(e) = n /\ e[1][1] = x /\ e[1][2] = i /\ e[2] = j
    BY <2>1 DEF n
  <2> HIDE DEF place
  <2>9. QED
    BY <2>1, <2>2, <2>3, <2>5, <2>7, <2>8
<1> HIDE DEF place
<1>4. to \in Injection(From, Into)
  <2>1. ASSUME NEW e \in From PROVE to[e] \in Into
    <3>1. <<e[1][1], (place(e) \div d) + 1>> \in Coins(g)
      BY <1>3 DEF Coins
    <3>2. (place(e) % d) + 1 \in 1 .. d
      BY <1>3
    <3>3. QED
      BY <3>1, <3>2
  <2>2. ASSUME NEW e \in From, NEW k \in From, to[e] = to[k] PROVE e = k
    <3>1. /\ e[1][1] = k[1][1]
          /\ (place(e) \div d) + 1 = (place(k) \div d) + 1
          /\ (place(e) % d) + 1 = (place(k) % d) + 1
      BY <2>2
    <3>2. place(e) \div d = place(k) \div d /\ place(e) % d = place(k) % d
      <4>1. \A m, n \in Int : m + 1 = n + 1 => m = n
        OBVIOUS
      <4>2. QED
        BY <1>3, <3>1, <4>1
    <3>3. place(e) = place(k)
      BY <1>3, <3>2
    <3>4. (e[1][2] - 1) * c + e[2] - 1 = (k[1][2] - 1) * c + k[2] - 1
      BY <3>3 DEF place
    <3>5. e[1][2] - 1 = k[1][2] - 1 /\ e[2] = k[2]
      BY <1>3, <3>4, Places
    <3>6. e[1][2] = k[1][2]
      <4>1. \A m, n \in Nat : m - 1 = n - 1 => m = n
        OBVIOUS
      <4>2. QED
        BY <1>3, <3>5, <4>1
    <3>7. QED
      BY <1>3, <3>1, <3>5, <3>6
  <2>3. QED
    BY <2>1, <2>2 DEF Injection, IsInjective
<1>5. Cardinality(From) <= Cardinality(Into)
  BY <1>2, <1>4, FS_Injection
<1>6. QED
  BY <1>1, <1>2, <1>5

\* The sum over some of the rows, and over more of them: x is one of the more.
LEMMA TotalOfMore ==
    ASSUME NEW f, Amounts(f), NEW S, S \subseteq DOMAIN f, NEW R, R \subseteq S, NEW x \in S \ R
    PROVE  /\ Total([y \in R |-> f[y]]) \in Nat /\ Total([y \in S |-> f[y]]) \in Nat
           /\ Total([y \in R |-> f[y]]) + f[x] <= Total([y \in S |-> f[y]])
<1> DEFINE few == [y \in R |-> f[y]]
           many == [y \in S |-> f[y]]
           row == {x} \X (1 .. f[x])
<1>1. Amounts(few) /\ Amounts(many) /\ f[x] \in Nat
  BY FS_Subset DEF Amounts
<1>2. Coins(few) \cup row \subseteq Coins(many) /\ Coins(few) \cap row = {}
  BY DEF Coins
<1>3. /\ IsFiniteSet(Coins(few)) /\ Total(few) \in Nat
      /\ IsFiniteSet(Coins(many)) /\ Total(many) \in Nat
      /\ IsFiniteSet(row) /\ Cardinality(row) = f[x]
  BY <1>1, TotalType, RowCoins
<1> HIDE DEF few, many, row
<1>4. Cardinality(Coins(few) \cup row)
        = Cardinality(Coins(few)) + Cardinality(row) - Cardinality(Coins(few) \cap row)
  BY <1>3, FS_Union
<1>5. Cardinality(Coins(few) \cap row) = 0
  BY <1>2, FS_EmptySet
<1>6. Cardinality(Coins(few) \cup row) <= Cardinality(Coins(many))
  BY <1>2, <1>3, FS_Subset
<1>7. QED
  BY <1>1, <1>3, <1>4, <1>5, <1>6 DEF Total, few, many

\* A sum taken from the rows in their order, from each all it holds or what is left
\* to take, is taken to the last coin.
LEMMA TakenInOrder ==
    ASSUME NEW f, Amounts(f), NEW order, \A x \in DOMAIN f : order[x] \in Nat,
           \A x, y \in DOMAIN f : order[x] = order[y] => x = y,
           NEW before, \A x \in DOMAIN f :
             before[x] = Total([y \in {z \in DOMAIN f : order[z] < order[x]} |-> f[y]]),
           NEW t \in Nat, t <= Total(f),
           NEW g, Amounts(g), DOMAIN g = DOMAIN f,
           \A x \in DOMAIN f :
             g[x] = IF t - before[x] <= 0 THEN 0 ELSE Smaller(f[x], t - before[x])
    PROVE  Total(g) = t
<1> DEFINE rank == [c \in Coins(f) |-> before[c[1]] + c[2]]
           taken == [c \in Coins(g) |-> rank[c]]
<1>1. /\ IsFiniteSet(Coins(f)) /\ Total(f) \in Nat
      /\ IsFiniteSet(Coins(g)) /\ Total(g) \in Nat
  BY TotalType
<1>2. \A c \in Coins(f) : /\ c = <<c[1], c[2]>> /\ c[1] \in DOMAIN f
                          /\ c[2] \in 1 .. f[c[1]]
  BY DEF Coins
<1>3. ASSUME NEW x \in DOMAIN f, NEW z \in DOMAIN f, order[x] < order[z]
      PROVE  before[x] + f[x] <= before[z]
  <2> DEFINE R == {y \in DOMAIN f : order[y] < order[x]}
             S == {y \in DOMAIN f : order[y] < order[z]}
  <2>1. R \subseteq S /\ x \in S \ R /\ S \subseteq DOMAIN f
    BY <1>3
  <2>2. before[x] = Total([y \in R |-> f[y]]) /\ before[z] = Total([y \in S |-> f[y]])
    OBVIOUS
  <2> HIDE DEF R, S
  <2>3. QED
    BY <2>1, <2>2, TotalOfMore
<1>4. ASSUME NEW x \in DOMAIN f
      PROVE  before[x] \in Nat /\ f[x] \in Nat /\ before[x] + f[x] <= Total(f)
  <2> DEFINE R == {y \in DOMAIN f : order[y] < order[x]}
             S == DOMAIN f
  <2>1. R \subseteq S /\ x \in S \ R /\ S \subseteq DOMAIN f
    OBVIOUS
  <2>2. before[x] = Total([y \in R |-> f[y]])
    OBVIOUS
  <2>3. Total(f) = Total([y \in S |-> f[y]])
    BY DEF Total, Coins
  <2>4. f[x] \in Nat
    BY DEF Amounts
  <2> HIDE DEF R, S
  <2>5. /\ Total([y \in R |-> f[y]]) \in Nat
        /\ Total([y \in R |-> f[y]]) + f[x] <= Total([y \in S |-> f[y]])
    BY <2>1, TotalOfMore
  <2>6. QED
    BY <2>2, <2>3, <2>4, <2>5
<1>5. \A c \in Coins(f) : rank[c] = before[c[1]] + c[2] /\ rank[c] \in 1 .. Total(f)
  BY <1>1, <1>2, <1>4
<1>6. ASSUME NEW c \in Coins(f), NEW e \in Coins(f), rank[c] = rank[e]
      PROVE  c = e
  <2>1. /\ order[c[1]] \in Nat /\ order[e[1]] \in Nat
        /\ before[c[1]] \in Nat /\ before[e[1]] \in Nat /\ f[c[1]] \in Nat /\ f[e[1]] \in Nat
        /\ c[2] \in 1 .. f[c[1]] /\ e[2] \in 1 .. f[e[1]]
        /\ before[c[1]] + c[2] = before[e[1]] + e[2]
    BY <1>2, <1>4, <1>5, <1>6
  <2>2. ~(order[c[1]] < order[e[1]])
    <3>1. SUFFICES ASSUME order[c[1]] < order[e[1]] PROVE FALSE
      OBVIOUS
    <3>2. before[c[1]] + f[c[1]] <= before[e[1]]
      BY <1>2, <1>3, <3>1
    <3>3. QED
      BY <2>1, <3>2
  <2>3. ~(order[e[1]] < order[c[1]])
    <3>1. SUFFICES ASSUME order[e[1]] < order[c[1]] PROVE FALSE
      OBVIOUS
    <3>2. before[e[1]] + f[e[1]] <= before[c[1]]
      BY <1>2, <1>3, <3>1
    <3>3. QED
      BY <2>1, <3>2
  <2>4. order[c[1]] = order[e[1]]
    BY <2>1, <2>2, <2>3
  <2>5. c[1] = e[1]
    BY <1>2, <2>4
  <2>6. c[2] = e[2]
    <3>1. \A n, i, j \in Int : n + i = n + j => i = j
      OBVIOUS
    <3>2. c[2] \in Int /\ e[2] \in Int /\ before[c[1]] \in Int
      BY <2>1
    <3>3. QED
      BY <2>1, <2>5, <3>1, <3>2
  <2>7. QED
    BY <1>2, <2>5, <2>6
<1> HIDE DEF rank
<1>7. rank \in Surjection(Coins(f), 1 .. Total(f))
  <2>1. rank \in [Coins(f) -> 1 .. Total(f)]
    BY <1>5 DEF rank
  <2>2. rank \in Injection(Coins(f), 1 .. Total(f))
    BY <1>6, <2>1 DEF Injection, IsInjective
  <2>3. IsFiniteSet(1 .. Total(f)) /\ Cardinality(1 .. Total(f)) = Total(f)
    BY <1>1, FS_Interval
  <2>4. Cardinality(Coins(f)) = Cardinality(1 .. Total(f))
    BY <2>3 DEF Total
  <2>5. QED
    BY <2>2, <2>3, <2>4, FS_Injection
<1>8. ASSUME NEW c \in Coins(f)
      PROVE  c \in Coins(g) <=> rank[c] <= t
  <2>1. /\ c[1] \in DOMAIN f /\ c[2] \in 1 .. f[c[1]] /\ before[c[1]] \in Nat
        /\ f[c[1]] \in Nat /\ rank[c] = before[c[1]] + c[2] /\ c = <<c[1], c[2]>>
    BY <1>2, <1>4, <1>5
  <2>2. c \in Coins(g) <=> c[2] \in 1 .. g[c[1]]
    <3>1. c \in Coins(g) => c[2] \in 1 .. g[c[1]]
      BY DEF Coins
    <3>2. c[2] \in 1 .. g[c[1]] => c \in Coins(g)
      BY <2>1 DEF Coins
    <3>3. QED
      BY <3>1, <3>2
  <2>3. g[c[1]] = IF t - before[c[1]] <= 0 THEN 0 ELSE Smaller(f[c[1]], t - before[c[1]])
    BY <2>1
  <2>4. c[2] \in 1 .. g[c[1]] <=> before[c[1]] + c[2] <= t
    BY <2>1, <2>3 DEF Smaller
  <2>5. QED
    BY <2>1, <2>2, <2>4
<1>9. Coins(g) \subseteq Coins(f)
  <2>1. \A x \in DOMAIN f : 1 .. g[x] \subseteq 1 .. f[x]
    BY <1>4 DEF Smaller
  <2>2. QED
    BY <2>1 DEF Coins
<1>10. taken \in Bijection(Coins(g), 1 .. t)
  <2>1. taken \in [Coins(g) -> 1 .. t]
    BY <1>5, <1>8, <1>9
  <2>2. taken \in Injection(Coins(g), 1 .. t)
    BY <1>6, <1>9, <2>1 DEF Injection, IsInjective
  <2>3. ASSUME NEW i \in 1 .. t PROVE \E c \in Coins(g) : taken[c] = i
    <3>1. i \in 1 .. Total(f)
      BY <1>1
    <3>2. PICK c \in Coins(f) : rank[c] = i
      BY <1>7, <3>1 DEF Surjection
    <3>3. c \in Coins(g)
      BY <1>8, <3>2
    <3>4. QED
      BY <3>2, <3>3
  <2>4. QED
    BY <2>1, <2>2, <2>3 DEF Bijection, Surjection
<1>11. Cardinality(1 .. t) = Total(g)
  BY <1>1, <1>10, FS_Bijection DEF ExistsBijection, Total
<1>12. QED
  BY <1>11, FS_Interval
-----------------------------------------------------------------------------
(***************************************************************************)
(* The invariant                                                           *)
(***************************************************************************)
\* The rows of the commissions: what is reversed was caused, what is marked as
\* paid was paid once, and a row exists only after its payment.
RowInv ==
    \A p \in Payments :
        LET row == commission[p] IN
        /\ row.reversedAmount <= row.amount
        /\ row.status = "absent" => row = NoCommission
        /\ row.status # "absent" => row.percent > 0
        /\ payouts[p] = IF row.paidAt THEN 1 ELSE 0
        /\ payment[p] = 0 => row.status = "absent"

\* A payment in flight is for a row that nobody wrote and nobody else writes.
PayInv ==
    \A h \in Handlers : req[h].op = "pay" =>
        /\ req[h].row \in Payments
        /\ req[h].amount > 0
        /\ payment[req[h].row] = 0
        /\ \A g \in Handlers \ {h} : req[g].op = "pay" => req[g].row # req[h].row

ReturnInv ==
    \A h \in Handlers : req[h].op = "return" =>
        /\ req[h].row \in Returns
        /\ req[h].amount > 0
        /\ credit[req[h].row] = 0
        /\ \A g \in Handlers \ {h} : req[g].op = "return" => req[g].row # req[h].row

\* What a request read of the invoice, the rows cover.
SeenInv ==
    \A h \in Handlers : /\ req[h].seen.totalPaid <= Total(payment)
                        /\ req[h].seen.creditNoteTotal <= Total(credit)

\* A liquidation that holds its commission knows its net amount.
LiquidateInv ==
    \A h \in Handlers : req[h].op = "liquidate" =>
        /\ req[h].row \in Payments
        /\ commission[req[h].row].status # "absent"
        /\ req[h].pc = "held" => req[h].net = Net(req[h].row)

IdleInv ==
    \A h \in Handlers : /\ req[h].pc = "idle" => req[h].op = "none"
                        /\ req[h].op = "status" => req[h].to \in InvoiceStatuses

Inv == TypeOK /\ RowInv /\ PayInv /\ ReturnInv /\ SeenInv /\ LiquidateInv /\ IdleInv
       /\ NoPhantomMoney
-----------------------------------------------------------------------------
(***************************************************************************)
(* Sums of the rows                                                        *)
(***************************************************************************)
LEMMA RowTotals ==
    ASSUME TypeOK
    PROVE  /\ Amounts(payment) /\ Amounts(credit)
           /\ Total(payment) \in Nat /\ Total(credit) \in Nat
<1>1. Amounts(payment) /\ Amounts(credit)
  BY SettlementAssumption DEF TypeOK, Amounts
<1> QED  BY <1>1, TotalType

LEMMA NewPayment ==
    ASSUME TypeOK, NEW p \in Payments, payment[p] = 0, NEW n \in Nat,
           payment' = [payment EXCEPT ![p] = n]
    PROVE  /\ Total(payment)' \in Nat
           /\ Total(payment) + n <= Total(payment)'
<1>1. /\ Amounts(payment) /\ DOMAIN payment = Payments
      /\ payment = [y \in DOMAIN payment |-> payment[y]]
  BY RowTotals DEF TypeOK
<1> QED  BY <1>1, TotalNewRow

LEMMA NewCredit ==
    ASSUME TypeOK, NEW c \in Returns, credit[c] = 0, NEW n \in Nat,
           credit' = [credit EXCEPT ![c] = n]
    PROVE  /\ Total(credit)' \in Nat
           /\ Total(credit) + n <= Total(credit)'
<1>1. Amounts(credit) /\ DOMAIN credit = Returns /\ credit = [y \in DOMAIN credit |-> credit[y]]
  BY RowTotals DEF TypeOK
<1> QED  BY <1>1, TotalNewRow
-----------------------------------------------------------------------------
(***************************************************************************)
(* Arithmetic of the commissions                                           *)
(***************************************************************************)
LEMMA RoundedType ==
    ASSUME NEW n \in Nat, NEW d \in Nat, d > 0
    PROVE  Rounded(n, d) \in Nat
BY DEF Rounded

LEMMA AccrualType ==
    ASSUME NEW base \in Nat, NEW percent \in Nat
    PROVE  Accrual(base, percent) \in Nat
<1>1. base * percent \in Nat
  OBVIOUS
<1> QED  BY <1>1, RoundedType DEF Accrual, Whole

LEMMA BaseLeftType ==
    ASSUME TypeOK, RowInv, NEW p \in Caused
    PROVE  BaseLeft(p) \in Int
<1>1. /\ commission[p] \in CommissionRow /\ commission[p].status = "causada"
      /\ commission[p].percent > 0
  BY DEF TypeOK, RowInv, Caused
<1>2. /\ commission[p].base \in Nat /\ commission[p].reversedAmount \in Nat
      /\ commission[p].percent \in Nat
  <2>1. 0 .. Whole \subseteq Nat
    BY DEF Whole
  <2>2. QED
    BY <1>1, <2>1 DEF CommissionRow
<1>3. Scale \in Nat /\ Whole * Scale \in Nat
  BY SettlementAssumption DEF Whole
<1>4. BaseOfOne(commission[p].percent) \in Int
  BY <1>1, <1>2, <1>3 DEF BaseOfOne
<1>5. Scale * commission[p].base \in Int
      /\ commission[p].reversedAmount * BaseOfOne(commission[p].percent) \in Int
  BY <1>2, <1>3, <1>4
<1> QED  BY <1>5 DEF BaseLeft

\* A row gives up at most its net, whatever the credit note asks for.
LEMMA PieceBound ==
    ASSUME TypeOK, RowInv, NEW p \in Caused, NEW amount \in Nat
    PROVE  Piece(p, amount) \in Nat /\ Piece(p, amount) <= Net(p)
<1> DEFINE older == {q \in Caused : commission[q].order < commission[p].order}
           before == Total([q \in older |-> Net(q)])
           left == ToReverse(amount) - before
<1>1. \A q \in Payments : Net(q) \in Nat
  BY DEF TypeOK, RowInv, Net, CommissionRow
<1>2. IsFiniteSet(Caused) /\ IsFiniteSet(older) /\ Caused \subseteq Payments
  BY SettlementAssumption, FS_Subset DEF Caused
<1>3. before \in Nat
  BY <1>1, <1>2, TotalOfIntegers
<1>4. Accrued \in Nat
  BY <1>1, <1>2, TotalOfIntegers DEF Accrued
<1>5. PaidBase \in Nat
  <2>1. \A q \in Caused : BaseLeft(q) \in Int
    BY <1>2, BaseLeftType
  <2> QED  BY <1>2, <2>1, TotalOfIntegers DEF PaidBase
<1>6. ToReverse(amount) \in Nat
  <2>1. CASE Accrued = 0 \/ PaidBase <= 0
    BY <2>1 DEF ToReverse
  <2>2. CASE ~(Accrued = 0 \/ PaidBase <= 0)
    <3>1. (Scale * amount) * Accrued \in Nat
      BY <1>4, SettlementAssumption
    <3>2. Rounded((Scale * amount) * Accrued, PaidBase) \in Nat
      BY <3>1, <1>5, <2>2, RoundedType
    <3> QED  BY <2>2, <3>2, <1>4 DEF ToReverse, Smaller
  <2> QED  BY <2>1, <2>2
<1>7. Piece(p, amount) = IF left <= 0 THEN 0 ELSE Smaller(Net(p), left)
  BY DEF Piece
<1>8. left \in Int
  BY <1>3, <1>6
<1> HIDE DEF left
<1> QED  BY <1>1, <1>2, <1>7, <1>8 DEF Smaller

\* The row of a reversed commission.
LEMMA ReversedRow ==
    ASSUME TypeOK, RowInv, NEW p \in Caused, NEW amount \in Nat,
           NEW row, row = Reversed(commission[p], Piece(p, amount))
    PROVE  /\ row \in CommissionRow
           /\ row.status # "absent"
           /\ row.amount = commission[p].amount /\ row.percent = commission[p].percent
           /\ row.paidAt = commission[p].paidAt
           /\ commission[p].reversedAmount <= row.reversedAmount
           /\ row.reversedAmount <= row.amount
<1> DEFINE piece == Piece(p, amount)
           reversed == commission[p].reversedAmount + piece
<1>1. piece \in Nat /\ piece <= Net(p)
  BY PieceBound
<1>2. p \in Payments /\ commission[p] \in CommissionRow /\ commission[p].status = "causada"
  BY DEF TypeOK, Caused
<1>3. commission[p].reversedAmount <= commission[p].amount
  BY <1>2 DEF RowInv
<1>4. reversed \in Nat /\ reversed <= commission[p].amount
      /\ commission[p].reversedAmount <= reversed
  BY <1>1, <1>2, <1>3 DEF Net, CommissionRow
<1>5. row = IF piece = 0 THEN commission[p]
            ELSE [commission[p] EXCEPT
                    !.reversedAmount = reversed,
                    !.status = IF reversed = commission[p].amount THEN "reversada" ELSE "causada"]
  BY DEF Reversed
<1> HIDE DEF piece, reversed
<1>6. CASE piece = 0
  BY <1>2, <1>3, <1>5, <1>6 DEF CommissionRow
<1>7. CASE piece # 0
  BY <1>2, <1>4, <1>5, <1>7 DEF CommissionRow
<1> QED  BY <1>6, <1>7
-----------------------------------------------------------------------------
(***************************************************************************)
(* Requests                                                                *)
(***************************************************************************)
LEMMA IdleType == Idle \in Request
BY DEF Idle, Request, FirstRow, InvoiceRow, InvoiceStatuses

\* A request that starts, with what its handler checked, keeps the invariant.
LEMMA BeginKeeps ==
    ASSUME Inv, NEW h \in Handlers, NEW r \in Request, Begin(h, r),
           r.pc = "read", r.op # "none",
           r.seen.totalPaid <= Total(payment), r.seen.creditNoteTotal <= Total(credit),
           r.op = "pay" => /\ r.row \in Payments /\ r.amount > 0 /\ payment[r.row] = 0
                           /\ ~InFlight("pay", r.row),
           r.op = "return" => /\ r.row \in Returns /\ r.amount > 0 /\ credit[r.row] = 0
                              /\ ~InFlight("return", r.row),
           r.op = "liquidate" => /\ r.row \in Payments
                                 /\ commission[r.row].status # "absent",
           r.op = "status" => r.to \in InvoiceStatuses
    PROVE  Inv'
<1>1. /\ req' = [req EXCEPT ![h] = r] /\ served' = served + 1
      /\ UNCHANGED <<invoice, payment, credit, commission, payouts>>
  BY DEF Begin
<1>2. req'[h] = r /\ \A g \in Handlers \ {h} : req'[g] = req[g]
  BY <1>1 DEF Inv, TypeOK
<1>3. TypeOK'
  BY <1>1 DEF Inv, TypeOK
<1>4. RowInv' /\ NoPhantomMoney'
  BY <1>1 DEF Inv, RowInv, NoPhantomMoney
<1>5. PayInv'
  BY <1>1, <1>2 DEF Inv, PayInv, InFlight
<1>6. ReturnInv'
  BY <1>1, <1>2 DEF Inv, ReturnInv, InFlight
<1>7. SeenInv'
  BY <1>1, <1>2 DEF Inv, SeenInv
<1>8. LiquidateInv'
  BY <1>1, <1>2 DEF Inv, LiquidateInv, Net
<1>9. IdleInv'
  BY <1>2 DEF Inv, IdleInv
<1> QED  BY <1>3, <1>4, <1>5, <1>6, <1>7, <1>8, <1>9 DEF Inv

LEMMA ArriveKeeps ==
    ASSUME Inv, NEW h \in Handlers, Arrive(h)
    PROVE  Inv'
<1> USE DEF Inv
<1>1. /\ invoice \in InvoiceRow
      /\ invoice.totalPaid <= Total(payment) /\ invoice.creditNoteTotal <= Total(credit)
      /\ FirstRow \in InvoiceRow /\ FirstRow.totalPaid = 0 /\ FirstRow.creditNoteTotal = 0
  BY DEF TypeOK, NoPhantomMoney, FirstRow, InvoiceRow, InvoiceStatuses
<1>2. 0 <= Total(payment) /\ 0 <= Total(credit)
  BY RowTotals
<1>3. ASSUME NEW p \in Payments, BeginLiquidate(h, p)
      PROVE  Inv'
  <2> DEFINE r == [Idle EXCEPT !.op = "liquidate", !.pc = "read", !.row = p]
  <2>1. r \in Request /\ r.op = "liquidate" /\ r.pc = "read" /\ r.row = p /\ r.seen = FirstRow
    BY IdleType DEF Request, Idle
  <2>2. Begin(h, r) /\ commission[p].status # "absent"
    BY <1>3 DEF BeginLiquidate
  <2> HIDE DEF r
  <2> QED  BY <1>1, <1>2, <2>1, <2>2, BeginKeeps
<1>4. ASSUME NEW p \in Payments, NEW amount \in Sums2Pay, BeginPayment(h, p, amount)
      PROVE  Inv'
  <2> DEFINE r == [Idle EXCEPT !.op = "pay", !.pc = "read", !.row = p,
                               !.amount = amount, !.seen = invoice]
  <2>1. amount \in Nat /\ amount > 0
    BY SettlementAssumption
  <2>2. r \in Request /\ r.op = "pay" /\ r.pc = "read" /\ r.row = p /\ r.seen = invoice
        /\ r.amount = amount
    BY <1>1, <2>1, IdleType DEF Request, Idle
  <2>3. Begin(h, r) /\ payment[p] = 0 /\ ~InFlight("pay", p)
    BY <1>4 DEF BeginPayment
  <2> HIDE DEF r
  <2> QED  BY <1>1, <2>1, <2>2, <2>3, BeginKeeps
<1>5. ASSUME NEW c \in Returns, NEW amount \in Sums2Pay, BeginReturn(h, c, amount)
      PROVE  Inv'
  <2> DEFINE r == [Idle EXCEPT !.op = "return", !.pc = "read", !.row = c,
                               !.amount = amount, !.seen = invoice]
  <2>1. amount \in Nat /\ amount > 0
    BY SettlementAssumption
  <2>2. r \in Request /\ r.op = "return" /\ r.pc = "read" /\ r.row = c /\ r.seen = invoice
        /\ r.amount = amount
    BY <1>1, <2>1, IdleType DEF Request, Idle
  <2>3. Begin(h, r) /\ credit[c] = 0 /\ ~InFlight("return", c)
    BY <1>5 DEF BeginReturn
  <2> HIDE DEF r
  <2> QED  BY <1>1, <2>1, <2>2, <2>3, BeginKeeps
<1>6. ASSUME NEW to \in InvoiceStatuses, BeginStatus(h, to)
      PROVE  Inv'
  <2> DEFINE r == [Idle EXCEPT !.op = "status", !.pc = "read", !.to = to]
  <2>1. r \in Request /\ r.op = "status" /\ r.pc = "read" /\ r.seen = FirstRow /\ r.to = to
    BY IdleType DEF Request, Idle
  <2>2. Begin(h, r)
    BY <1>6 DEF BeginStatus
  <2> HIDE DEF r
  <2> QED  BY <1>1, <1>2, <2>1, <2>2, BeginKeeps
<1> QED  BY <1>3, <1>4, <1>5, <1>6 DEF Arrive
-----------------------------------------------------------------------------
(***************************************************************************)
(* The steps that take a lock, and those that write nothing                *)
(***************************************************************************)
LEMMA FinishKeepsRequests ==
    ASSUME Inv, NEW h \in Handlers, Finish(h)
    PROVE  /\ req' \in [Handlers -> Request]
           /\ req'[h] = Idle /\ \A g \in Handlers \ {h} : req'[g] = req[g]
           /\ served' = served
BY IdleType DEF Finish, Inv, TypeOK

LEMMA NothingWritten ==
    ASSUME Inv, NEW h \in Handlers, Finish(h),
           UNCHANGED <<invoice, payment, credit, commission, payouts>>
    PROVE  Inv'
<1>1. /\ req' \in [Handlers -> Request] /\ served' = served
      /\ req'[h] = Idle /\ \A g \in Handlers \ {h} : req'[g] = req[g]
  BY FinishKeepsRequests
<1>2. 0 <= Total(payment) /\ 0 <= Total(credit)
  BY RowTotals DEF Inv
<1>3. TypeOK'
  BY <1>1 DEF Inv, TypeOK
<1>4. RowInv' /\ NoPhantomMoney'
  BY DEF Inv, RowInv, NoPhantomMoney
<1>5. PayInv' /\ ReturnInv'
  BY <1>1 DEF Inv, PayInv, ReturnInv, Idle
<1>6. SeenInv'
  BY <1>1, <1>2 DEF Inv, SeenInv, Idle, FirstRow
<1>7. LiquidateInv' /\ IdleInv'
  BY <1>1 DEF Inv, LiquidateInv, IdleInv, Idle, Net
<1> QED  BY <1>3, <1>4, <1>5, <1>6, <1>7 DEF Inv

LEMMA HoldKeeps ==
    ASSUME Inv, NEW h \in Handlers, HoldInvoice(h) \/ HoldCommission(h)
    PROVE  Inv'
<1> DEFINE net == IF req[h].op = "liquidate" THEN Net(req[h].row) ELSE req[h].net
<1>1. /\ req' = [req EXCEPT ![h].pc = "held", ![h].net = net]
      /\ req[h].op \in {"return", "liquidate"} /\ req[h].pc = "read"
      /\ UNCHANGED <<invoice, payment, credit, commission, served, payouts>>
  <2>1. CASE HoldInvoice(h)
    <3>1. req' = [req EXCEPT ![h].pc = "held"] /\ net = req[h].net /\ req[h] \in Request
      BY <2>1 DEF HoldInvoice, Inv, TypeOK
    <3>2. [req[h] EXCEPT !.pc = "held"] = [req[h] EXCEPT !.pc = "held", !.net = req[h].net]
      BY <3>1 DEF Request
    <3> HIDE DEF net
    <3> QED  BY <2>1, <3>1, <3>2 DEF HoldInvoice, Inv, TypeOK
  <2>2. CASE HoldCommission(h)
    BY <2>2 DEF HoldCommission
  <2> QED  BY <2>1, <2>2
<1>2. net \in Int
  BY DEF Inv, TypeOK, LiquidateInv, Net, CommissionRow, Request
<1> HIDE DEF net
<1> DEFINE row == [req[h] EXCEPT !.pc = "held", !.net = net]
<1>a. row \in Request
  <2>1. req[h] \in Request
    BY DEF Inv, TypeOK
  <2> QED  BY <1>2, <2>1 DEF Request
<1>b. req' = [req EXCEPT ![h] = row]
  BY <1>1
<1> HIDE DEF row
<1>3. /\ req'[h] = row
      /\ \A g \in Handlers \ {h} : req'[g] = req[g]
      /\ req' \in [Handlers -> Request]
  BY <1>a, <1>b DEF Inv, TypeOK
<1>4. /\ req'[h].op = req[h].op /\ req'[h].row = req[h].row /\ req'[h].seen = req[h].seen
      /\ req'[h].amount = req[h].amount /\ req'[h].pc = "held" /\ req'[h].net = net
      /\ req'[h].to = req[h].to
  BY <1>3 DEF Inv, TypeOK, Request, row
<1>5. TypeOK' /\ RowInv' /\ NoPhantomMoney'
  BY <1>1, <1>3 DEF Inv, TypeOK, RowInv, NoPhantomMoney
<1>6. PayInv' /\ ReturnInv'
  BY <1>1, <1>3, <1>4 DEF Inv, PayInv, ReturnInv
<1>7. SeenInv' /\ IdleInv'
  BY <1>1, <1>3, <1>4 DEF Inv, SeenInv, IdleInv
<1>8. LiquidateInv'
  BY <1>1, <1>3, <1>4 DEF Inv, LiquidateInv, Net, net
<1> QED  BY <1>5, <1>6, <1>7, <1>8 DEF Inv
-----------------------------------------------------------------------------
(***************************************************************************)
(* Commits                                                                 *)
(***************************************************************************)

\* computeInvoiceStatus gives a status, and pagada only to a row that is covered
\* when some money is being added.
LEMMA StatusOfType ==
    ASSUME NEW row \in InvoiceRow
    PROVE  /\ StatusOf(row) \in InvoiceStatuses
           /\ StatusOf(row) = "pagada" /\ row.totalPaid + row.creditNoteTotal > 0
                => row.totalPaid + row.creditNoteTotal >= InvoiceTotal
BY SettlementAssumption DEF StatusOf, Balance, InvoiceRow, InvoiceStatuses

\* A payment with its commission: the row that appears and the columns.
LEMMA PaymentCommit ==
    ASSUME Inv, NEW h \in Handlers, NEW percent \in Percents, CommitPayment(h, percent),
           NEW p, p = req[h].row
    PROVE  /\ p \in Payments /\ commission[p] = NoCommission
           /\ Total(payment)' \in Nat /\ Total(payment) <= Total(payment)'
           /\ req[h].seen.totalPaid + req[h].amount <= Total(payment)'
           /\ invoice' \in InvoiceRow
           /\ invoice'.totalPaid = req[h].seen.totalPaid + req[h].amount
           /\ invoice'.creditNoteTotal = invoice.creditNoteTotal
           /\ invoice'.status = "pagada" => Total(payment)' + Total(credit) >= InvoiceTotal
           /\ commission' \in [Payments -> CommissionRow]
           /\ \A q \in Payments \ {p} : commission'[q] = commission[q]
           /\ \/ commission' = commission
              \/ /\ commission'[p].status = "causada" /\ commission'[p].percent > 0
                 /\ commission'[p].reversedAmount = 0 /\ ~commission'[p].paidAt
           /\ payment' \in [Payments -> Nat] /\ payment'[p] > 0
           /\ \A q \in Payments \ {p} : payment'[q] = payment[q]
<1> DEFINE r == req[h]
           paid == r.seen.totalPaid + r.amount
           row == [r.seen EXCEPT !.totalPaid = paid]
<1>1. /\ r \in Request /\ r.op = "pay" /\ p = r.row
      /\ payment' = [payment EXCEPT ![p] = r.amount]
      /\ invoice' = [invoice EXCEPT !.totalPaid = paid, !.status = StatusOf(row)]
      /\ commission' = Accrue(p, r.amount, percent)
      /\ UNCHANGED <<credit, payouts>>
  BY DEF CommitPayment, Inv, TypeOK
<1>2. /\ p \in Payments /\ r.amount \in Nat /\ r.amount > 0 /\ payment[p] = 0
      /\ commission[p] = NoCommission
  BY <1>1 DEF Inv, PayInv, RowInv, Request
<1>3. r.seen \in InvoiceRow /\ paid \in Nat /\ paid > 0
  BY <1>1, <1>2 DEF Request, InvoiceRow
<1>4. row \in InvoiceRow /\ row.totalPaid = paid /\ row.creditNoteTotal = r.seen.creditNoteTotal
  BY <1>3 DEF InvoiceRow
<1>5. /\ Total(payment)' \in Nat /\ Total(payment) + r.amount <= Total(payment)'
      /\ Total(payment) \in Nat /\ Total(credit) \in Nat
  BY <1>1, <1>2, NewPayment, RowTotals DEF Inv
<1>6. r.seen.totalPaid <= Total(payment) /\ r.seen.creditNoteTotal <= Total(credit)
  BY DEF Inv, SeenInv
<1>7. Total(payment) <= Total(payment)' /\ paid <= Total(payment)'
  BY <1>2, <1>3, <1>5, <1>6 DEF InvoiceRow
<1>8. StatusOf(row) \in InvoiceStatuses
      /\ (StatusOf(row) = "pagada" => paid + r.seen.creditNoteTotal >= InvoiceTotal)
  <2>1. row.totalPaid + row.creditNoteTotal > 0
    BY <1>3, <1>4 DEF InvoiceRow
  <2> QED  BY <1>4, <2>1, StatusOfType
<1> HIDE DEF row, paid, r
<1>9. /\ invoice' \in InvoiceRow /\ invoice'.totalPaid = paid
      /\ invoice'.creditNoteTotal = invoice.creditNoteTotal
      /\ invoice'.status = StatusOf(row)
  BY <1>1, <1>3, <1>8 DEF Inv, TypeOK, InvoiceRow
<1>10. invoice'.status = "pagada" => Total(payment)' + Total(credit) >= InvoiceTotal
  <2>1. r.seen.creditNoteTotal \in Nat /\ InvoiceTotal \in Nat
    BY <1>3, SettlementAssumption DEF InvoiceRow
  <2> QED  BY <2>1, <1>3, <1>5, <1>6, <1>7, <1>8, <1>9
<1>11. /\ commission' \in [Payments -> CommissionRow]
       /\ \A q \in Payments \ {p} : commission'[q] = commission[q]
       /\ \/ commission' = commission
          \/ /\ commission'[p].status = "causada" /\ commission'[p].percent > 0
             /\ commission'[p].reversedAmount = 0 /\ ~commission'[p].paidAt
  <2>1. CASE percent = 0
    BY <1>1, <2>1 DEF Accrue, Inv, TypeOK
  <2>2. CASE percent # 0
    <3> DEFINE new == [status |-> "causada", base |-> r.amount, percent |-> percent,
                       amount |-> Accrual(r.amount, percent), reversedAmount |-> 0,
                       paidAt |-> FALSE,
                       order |-> Cardinality({q \in Payments : commission[q].status # "absent"})]
    <3>1. commission' = [commission EXCEPT ![p] = new]
      BY <1>1, <2>2 DEF Accrue
    <3>2. percent \in 0 .. Whole /\ percent \in Nat /\ percent > 0
      BY <2>2, SettlementAssumption DEF Whole
    <3>3. Accrual(r.amount, percent) \in Nat
      BY <1>2, <3>2, AccrualType
    <3>4. Cardinality({q \in Payments : commission[q].status # "absent"}) \in Nat
      BY SettlementAssumption, FS_Subset, FS_CardinalityType
    <3>5. new \in CommissionRow /\ new.status = "causada" /\ new.percent > 0
          /\ new.reversedAmount = 0 /\ new.paidAt = FALSE
      BY <1>2, <3>2, <3>3, <3>4 DEF CommissionRow
    <3> HIDE DEF new
    <3> QED  BY <1>2, <3>1, <3>5 DEF Inv, TypeOK
  <2> QED  BY <2>1, <2>2
<1>12. payment' \in [Payments -> Nat] /\ payment'[p] > 0
       /\ \A q \in Payments \ {p} : payment'[q] = payment[q]
  BY <1>1, <1>2 DEF Inv, TypeOK
<1>13. p \in Payments /\ commission[p] = NoCommission
       /\ Total(payment)' \in Nat /\ Total(payment) <= Total(payment)'
       /\ req[h].seen.totalPaid + req[h].amount <= Total(payment)'
       /\ invoice'.totalPaid = req[h].seen.totalPaid + req[h].amount
  BY <1>2, <1>5, <1>7, <1>9 DEF paid, r
<1> QED  BY <1>9, <1>10, <1>11, <1>12, <1>13

LEMMA PaymentKeeps ==
    ASSUME Inv, NEW h \in Handlers, NEW percent \in Percents, CommitPayment(h, percent)
    PROVE  Inv'
<1> PICK p : p = req[h].row
  OBVIOUS
<1>1. req[h].op = "pay" /\ Finish(h) /\ UNCHANGED <<credit, payouts>>
  BY DEF CommitPayment
<1>2. /\ req' \in [Handlers -> Request] /\ served' = served
      /\ req'[h] = Idle /\ \A g \in Handlers \ {h} : req'[g] = req[g]
  BY <1>1, FinishKeepsRequests
<1>3. /\ p \in Payments /\ commission[p] = NoCommission
      /\ Total(payment)' \in Nat /\ Total(payment) <= Total(payment)'
      /\ req[h].seen.totalPaid + req[h].amount <= Total(payment)'
      /\ invoice' \in InvoiceRow
      /\ invoice'.totalPaid = req[h].seen.totalPaid + req[h].amount
      /\ invoice'.creditNoteTotal = invoice.creditNoteTotal
  BY PaymentCommit
<1>4. /\ commission' \in [Payments -> CommissionRow]
      /\ \A q \in Payments \ {p} : commission'[q] = commission[q]
      /\ \/ commission' = commission
         \/ /\ commission'[p].status = "causada" /\ commission'[p].percent > 0
            /\ commission'[p].reversedAmount = 0 /\ ~commission'[p].paidAt
      /\ payment' \in [Payments -> Nat] /\ payment'[p] > 0
      /\ \A q \in Payments \ {p} : payment'[q] = payment[q]
  BY PaymentCommit
<1>5. Total(payment) \in Nat /\ Total(credit) \in Nat /\ Total(credit)' = Total(credit)
  BY <1>1, RowTotals DEF Inv
<1>6. TypeOK'
  BY <1>1, <1>2, <1>3, <1>4 DEF Inv, TypeOK
<1>7. RowInv'
  <2> SUFFICES ASSUME NEW q \in Payments
               PROVE  LET row == commission'[q] IN
                      /\ row.reversedAmount <= row.amount
                      /\ row.status = "absent" => row = NoCommission
                      /\ row.status # "absent" => row.percent > 0
                      /\ payouts'[q] = IF row.paidAt THEN 1 ELSE 0
                      /\ payment'[q] = 0 => row.status = "absent"
    BY DEF RowInv
  <2>1. CASE q # p
    BY <2>1, <1>1, <1>4 DEF Inv, RowInv
  <2>2. CASE q = p /\ commission' = commission
    BY <2>2, <1>1, <1>4 DEF Inv, RowInv
  <2>3. CASE q = p /\ commission' # commission
    <3>1. payouts[p] = 0
      BY <1>3 DEF Inv, RowInv, NoCommission
    <3>2. commission'[p].amount \in Nat
      BY <1>3, <1>4 DEF CommissionRow
    <3>3. payouts'[q] = 0 /\ ~commission'[q].paidAt
      BY <2>3, <3>1, <1>1, <1>4
    <3> QED  BY <2>3, <3>2, <3>3, <1>3, <1>4
  <2> QED  BY <2>1, <2>2, <2>3
<1>8. PayInv'
  BY <1>1, <1>2, <1>4 DEF Inv, PayInv, Idle
<1>9. ReturnInv'
  BY <1>1, <1>2 DEF Inv, ReturnInv, Idle
<1>10. SeenInv'
  <2> SUFFICES ASSUME NEW g \in Handlers
               PROVE  /\ req'[g].seen.totalPaid <= Total(payment)'
                      /\ req'[g].seen.creditNoteTotal <= Total(credit)
    BY <1>5 DEF SeenInv
  <2>1. CASE g = h
    BY <2>1, <1>2, <1>3, <1>5 DEF Idle, FirstRow
  <2>2. CASE g # h
    <3>1. req'[g] = req[g] /\ req[g].seen \in InvoiceRow
      BY <2>2, <1>2 DEF Inv, TypeOK, Request
    <3>2. req[g].seen.totalPaid <= Total(payment) /\ req[g].seen.creditNoteTotal <= Total(credit)
      BY DEF Inv, SeenInv
    <3> QED  BY <3>1, <3>2, <1>3, <1>5 DEF InvoiceRow
  <2> QED  BY <2>1, <2>2
<1>11. LiquidateInv'
  <2>1. \A g \in Handlers : req[g].op = "liquidate" => req[g].row \in Payments \ {p}
    BY <1>3 DEF Inv, LiquidateInv, NoCommission
  <2> QED  BY <2>1, <1>2, <1>4 DEF Inv, LiquidateInv, Idle, Net
<1>12. IdleInv'
  BY <1>2 DEF Inv, IdleInv, Idle
<1>13. NoPhantomMoney'
  BY <1>3, <1>5 DEF Inv, NoPhantomMoney
<1> QED  BY <1>6, <1>7, <1>8, <1>9, <1>10, <1>11, <1>12, <1>13 DEF Inv

\* A return with its reversal: the columns and the commissions.
LEMMA ReturnCommit ==
    ASSUME Inv, NEW h \in Handlers, CommitReturn(h)
    PROVE  /\ Total(credit)' \in Nat /\ Total(credit) <= Total(credit)'
           /\ req[h].seen.creditNoteTotal + req[h].amount <= Total(credit)'
           /\ invoice' \in InvoiceRow
           /\ invoice'.creditNoteTotal = req[h].seen.creditNoteTotal + req[h].amount
           /\ invoice'.totalPaid = invoice.totalPaid
           /\ invoice'.status = "pagada" => Total(payment) + Total(credit)' >= InvoiceTotal
           /\ credit' \in [Returns -> Nat] /\ req[h].row \in Returns
           /\ \A c \in Returns \ {req[h].row} : credit'[c] = credit[c]
<1> DEFINE r == req[h]
           noted == r.seen.creditNoteTotal + r.amount
           row == [r.seen EXCEPT !.creditNoteTotal = noted]
<1>1. /\ r \in Request /\ r.op = "return"
      /\ credit' = [credit EXCEPT ![r.row] = r.amount]
      /\ invoice' = [invoice EXCEPT !.creditNoteTotal = noted, !.status = StatusOf(row)]
      /\ UNCHANGED payment
  BY DEF CommitReturn, Credited, Inv, TypeOK
<1>2. r.row \in Returns /\ r.amount \in Nat /\ r.amount > 0 /\ credit[r.row] = 0
  BY <1>1 DEF Inv, ReturnInv, Request
<1>3. r.seen \in InvoiceRow /\ noted \in Nat /\ noted > 0
  BY <1>1, <1>2 DEF Request, InvoiceRow
<1>4. row \in InvoiceRow /\ row.creditNoteTotal = noted /\ row.totalPaid = r.seen.totalPaid
  BY <1>3 DEF InvoiceRow
<1>5. /\ Total(credit)' \in Nat /\ Total(credit) + r.amount <= Total(credit)'
      /\ Total(payment) \in Nat /\ Total(credit) \in Nat
  BY <1>1, <1>2, NewCredit, RowTotals DEF Inv
<1>6. r.seen.totalPaid <= Total(payment) /\ r.seen.creditNoteTotal <= Total(credit)
  BY DEF Inv, SeenInv
<1>7. Total(credit) <= Total(credit)' /\ noted <= Total(credit)'
  BY <1>2, <1>3, <1>5, <1>6 DEF InvoiceRow
<1>8. StatusOf(row) \in InvoiceStatuses
      /\ (StatusOf(row) = "pagada" => r.seen.totalPaid + noted >= InvoiceTotal)
  <2>1. row.totalPaid + row.creditNoteTotal > 0
    BY <1>3, <1>4 DEF InvoiceRow
  <2> QED  BY <1>4, <2>1, StatusOfType
<1>9. credit' \in [Returns -> Nat] /\ \A c \in Returns \ {r.row} : credit'[c] = credit[c]
  BY <1>1, <1>2 DEF Inv, TypeOK
<1> HIDE DEF row, noted, r
<1>10. /\ invoice' \in InvoiceRow /\ invoice'.creditNoteTotal = noted
       /\ invoice'.totalPaid = invoice.totalPaid
       /\ invoice'.status = StatusOf(row)
  BY <1>1, <1>3, <1>8 DEF Inv, TypeOK, InvoiceRow
<1>11. invoice'.status = "pagada" => Total(payment) + Total(credit)' >= InvoiceTotal
  <2>1. r.seen.totalPaid \in Nat /\ InvoiceTotal \in Nat
    BY <1>3, SettlementAssumption DEF InvoiceRow
  <2> QED  BY <2>1, <1>3, <1>5, <1>6, <1>7, <1>8, <1>10
<1>12. /\ req[h].seen.creditNoteTotal + req[h].amount <= Total(credit)'
       /\ invoice'.creditNoteTotal = req[h].seen.creditNoteTotal + req[h].amount
       /\ req[h].row \in Returns
       /\ \A c \in Returns \ {req[h].row} : credit'[c] = credit[c]
  BY <1>2, <1>7, <1>9, <1>10 DEF noted, r
<1> QED  BY <1>5, <1>7, <1>9, <1>10, <1>11, <1>12

\* What a return does to each commission.
LEMMA ReturnReverses ==
    ASSUME Inv, NEW h \in Handlers, CommitReturn(h)
    PROVE  /\ commission' \in [Payments -> CommissionRow]
           /\ \A p \in Payments :
                 \/ commission'[p] = commission[p]
                 \/ /\ commission[p].status # "absent" /\ commission'[p].status # "absent"
                    /\ commission'[p].amount = commission[p].amount
                    /\ commission'[p].percent = commission[p].percent
                    /\ commission'[p].paidAt = commission[p].paidAt
                    /\ commission[p].reversedAmount <= commission'[p].reversedAmount
                    /\ commission'[p].reversedAmount <= commission'[p].amount
<1>1. commission' = [p \in Payments |->
                       IF p \in Caused THEN Reversed(commission[p], Piece(p, req[h].amount))
                                       ELSE commission[p]]
  BY DEF CommitReturn
<1>2. TypeOK /\ RowInv /\ req[h].amount \in Nat
  BY DEF Inv, TypeOK, Request
<1>3. ASSUME NEW p \in Caused
      PROVE  /\ p \in Payments /\ commission[p].status # "absent"
             /\ commission'[p] = Reversed(commission[p], Piece(p, req[h].amount))
             /\ commission'[p] \in CommissionRow
             /\ commission'[p].status # "absent"
             /\ commission'[p].amount = commission[p].amount
             /\ commission'[p].percent = commission[p].percent
             /\ commission'[p].paidAt = commission[p].paidAt
             /\ commission[p].reversedAmount <= commission'[p].reversedAmount
             /\ commission'[p].reversedAmount <= commission'[p].amount
  <2>1. p \in Payments /\ commission[p].status # "absent"
    BY DEF Caused
  <2>2. commission'[p] = Reversed(commission[p], Piece(p, req[h].amount))
    BY <1>1, <2>1
  <2> QED  BY <1>2, <2>1, <2>2, ReversedRow
<1>4. \A p \in Payments \ Caused : commission'[p] = commission[p]
                                  /\ commission'[p] \in CommissionRow
  BY <1>1, <1>2 DEF TypeOK
<1>5. DOMAIN commission' = Payments /\ commission' = [p \in Payments |-> commission'[p]]
  BY <1>1
<1>6. \A p \in Payments : commission'[p] \in CommissionRow
  BY <1>3, <1>4
<1>7. commission' \in [Payments -> CommissionRow]
  BY <1>5, <1>6
<1> QED  BY <1>3, <1>4, <1>7

LEMMA ReturnKeeps ==
    ASSUME Inv, NEW h \in Handlers, CommitReturn(h)
    PROVE  Inv'
<1>1. req[h].op = "return" /\ Finish(h) /\ UNCHANGED <<payment, payouts>>
  BY DEF CommitReturn
<1>2. /\ req' \in [Handlers -> Request] /\ served' = served
      /\ req'[h] = Idle /\ \A g \in Handlers \ {h} : req'[g] = req[g]
  BY <1>1, FinishKeepsRequests
<1>3. /\ Total(credit)' \in Nat /\ Total(credit) <= Total(credit)'
      /\ req[h].seen.creditNoteTotal + req[h].amount <= Total(credit)'
      /\ invoice' \in InvoiceRow
      /\ invoice'.creditNoteTotal = req[h].seen.creditNoteTotal + req[h].amount
      /\ invoice'.totalPaid = invoice.totalPaid
      /\ credit' \in [Returns -> Nat] /\ req[h].row \in Returns
      /\ \A c \in Returns \ {req[h].row} : credit'[c] = credit[c]
  BY ReturnCommit
<1>4. Total(payment) \in Nat /\ Total(credit) \in Nat /\ Total(payment)' = Total(payment)
  BY <1>1, RowTotals DEF Inv
<1>5. TypeOK'
  BY <1>1, <1>2, <1>3, ReturnReverses DEF Inv, TypeOK
<1>6. RowInv'
  <2> SUFFICES ASSUME NEW q \in Payments
               PROVE  LET row == commission'[q] IN
                      /\ row.reversedAmount <= row.amount
                      /\ row.status = "absent" => row = NoCommission
                      /\ row.status # "absent" => row.percent > 0
                      /\ payouts'[q] = IF row.paidAt THEN 1 ELSE 0
                      /\ payment'[q] = 0 => row.status = "absent"
    BY DEF RowInv
  <2>1. CASE commission'[q] = commission[q]
    BY <2>1, <1>1 DEF Inv, RowInv
  <2>2. CASE commission'[q] # commission[q]
    <3>1. /\ commission[q].status # "absent" /\ commission'[q].status # "absent"
          /\ commission'[q].percent = commission[q].percent
          /\ commission'[q].paidAt = commission[q].paidAt
          /\ commission'[q].reversedAmount <= commission'[q].amount
      BY <2>2, ReturnReverses
    <3> QED  BY <3>1, <1>1 DEF Inv, RowInv
  <2> QED  BY <2>1, <2>2
<1>7. PayInv'
  BY <1>1, <1>2 DEF Inv, PayInv, Idle
<1>8. ReturnInv'
  BY <1>1, <1>2, <1>3 DEF Inv, ReturnInv, Idle
<1>9. SeenInv'
  <2> SUFFICES ASSUME NEW g \in Handlers
               PROVE  /\ req'[g].seen.totalPaid <= Total(payment)
                      /\ req'[g].seen.creditNoteTotal <= Total(credit)'
    BY <1>4 DEF SeenInv
  <2>1. CASE g = h
    BY <2>1, <1>2, <1>3, <1>4 DEF Idle, FirstRow
  <2>2. CASE g # h
    <3>1. req'[g] = req[g] /\ req[g].seen \in InvoiceRow
      BY <2>2, <1>2 DEF Inv, TypeOK, Request
    <3>2. req[g].seen.totalPaid <= Total(payment) /\ req[g].seen.creditNoteTotal <= Total(credit)
      BY DEF Inv, SeenInv
    <3> QED  BY <3>1, <3>2, <1>3, <1>4 DEF InvoiceRow
  <2> QED  BY <2>1, <2>2
<1>10. LiquidateInv'
  <2> SUFFICES ASSUME NEW g \in Handlers, req'[g].op = "liquidate"
               PROVE  /\ req'[g].row \in Payments
                      /\ commission'[req'[g].row].status # "absent"
                      /\ req'[g].pc # "held"
    BY DEF LiquidateInv
  <2>1. g # h /\ req'[g] = req[g]
    BY <1>2 DEF Idle
  <2>2. req[g].row \in Payments /\ commission[req[g].row].status # "absent"
    BY <2>1 DEF Inv, LiquidateInv
  <2>3. CommissionFree(req[g].row)
    BY <2>2 DEF CommitReturn
  <2>4. commission'[req[g].row].status # "absent"
    BY <2>2, ReturnReverses
  <2> QED  BY <2>1, <2>2, <2>3, <2>4 DEF CommissionFree
<1>11. IdleInv'
  BY <1>2 DEF Inv, IdleInv, Idle
<1>12. NoPhantomMoney'
  BY <1>3, <1>4 DEF Inv, NoPhantomMoney
<1> QED  BY <1>5, <1>6, <1>7, <1>8, <1>9, <1>10, <1>11, <1>12 DEF Inv

LEMMA StatusKeeps ==
    ASSUME Inv, NEW h \in Handlers, CommitStatus(h)
    PROVE  Inv'
<1>1. /\ invoice' = [invoice EXCEPT !.status = req[h].to] /\ Finish(h)
      /\ UNCHANGED <<payment, credit, commission, payouts>> /\ req[h].op = "status"
  BY DEF CommitStatus
<1>2. /\ req' \in [Handlers -> Request] /\ served' = served
      /\ req'[h] = Idle /\ \A g \in Handlers \ {h} : req'[g] = req[g]
  BY <1>1, FinishKeepsRequests
<1>3. req[h].to \in InvoiceStatuses
  BY <1>1 DEF Inv, IdleInv
<1>4. /\ invoice' \in InvoiceRow /\ invoice'.totalPaid = invoice.totalPaid
      /\ invoice'.creditNoteTotal = invoice.creditNoteTotal
  BY <1>1, <1>3 DEF Inv, TypeOK, InvoiceRow
<1>5. 0 <= Total(payment) /\ 0 <= Total(credit)
  BY RowTotals DEF Inv
<1>6. TypeOK' /\ RowInv' /\ NoPhantomMoney'
  BY <1>1, <1>2, <1>4 DEF Inv, TypeOK, RowInv, NoPhantomMoney
<1>7. PayInv' /\ ReturnInv'
  BY <1>1, <1>2 DEF Inv, PayInv, ReturnInv, Idle
<1>8. SeenInv'
  BY <1>1, <1>2, <1>5 DEF Inv, SeenInv, Idle, FirstRow
<1>9. LiquidateInv' /\ IdleInv'
  BY <1>1, <1>2 DEF Inv, LiquidateInv, IdleInv, Idle, Net
<1> QED  BY <1>6, <1>7, <1>8, <1>9 DEF Inv

\* markPaid stamps a caused row that has a net amount and no stamp.
LEMMA LiquidateKeeps ==
    ASSUME Inv, NEW h \in Handlers, CommitLiquidate(h), NEW p, p = req[h].row
    PROVE  /\ Inv'
           /\ p \in Payments /\ commission[p].status # "absent"
           /\ Net(p) > 0 /\ payouts[p] = 0
           /\ \A q \in Payments : /\ commission'[q].status = commission[q].status
                                  /\ commission'[q].amount = commission[q].amount
                                  /\ commission'[q].reversedAmount = commission[q].reversedAmount
<1>1. /\ req[h].op = "liquidate" /\ req[h].pc = "held" /\ req[h].net > 0
      /\ ~commission[p].paidAt
      /\ commission' = [commission EXCEPT ![p].paidAt = TRUE]
      /\ payouts' = [payouts EXCEPT ![p] = @ + 1] /\ Finish(h)
      /\ UNCHANGED <<invoice, payment, credit>>
  BY DEF CommitLiquidate
<1>2. /\ req' \in [Handlers -> Request] /\ served' = served
      /\ req'[h] = Idle /\ \A g \in Handlers \ {h} : req'[g] = req[g]
  BY <1>1, FinishKeepsRequests
<1>3. p \in Payments /\ commission[p].status # "absent" /\ Net(p) > 0
  BY <1>1 DEF Inv, LiquidateInv
<1>4. payouts[p] = 0
  BY <1>1, <1>3 DEF Inv, RowInv
<1> DEFINE row == [commission[p] EXCEPT !.paidAt = TRUE]
<1>5. /\ row \in CommissionRow /\ row.paidAt = TRUE
      /\ row.status = commission[p].status /\ row.amount = commission[p].amount
      /\ row.reversedAmount = commission[p].reversedAmount
      /\ row.percent = commission[p].percent
  <2>1. commission[p] \in CommissionRow
    BY <1>3 DEF Inv, TypeOK
  <2>2. /\ row.status = commission[p].status /\ row.amount = commission[p].amount
        /\ row.reversedAmount = commission[p].reversedAmount
        /\ row.percent = commission[p].percent
    BY <2>1 DEF CommissionRow
  <2>3. row \in CommissionRow
    BY <2>1, Zenon DEF CommissionRow
  <2>4. row.paidAt = TRUE
    BY <2>1, Zenon DEF CommissionRow
  <2> QED  BY <2>2, <2>3, <2>4
<1>6. commission' = [commission EXCEPT ![p] = row]
  BY <1>1
<1> HIDE DEF row
<1>7. /\ commission' \in [Payments -> CommissionRow] /\ commission'[p] = row
      /\ \A q \in Payments \ {p} : commission'[q] = commission[q]
      /\ payouts' \in [Payments -> Nat] /\ payouts'[p] = 1
      /\ \A q \in Payments \ {p} : payouts'[q] = payouts[q]
  BY <1>1, <1>3, <1>4, <1>5, <1>6 DEF Inv, TypeOK
<1>8. \A q \in Payments : /\ commission'[q].status = commission[q].status
                         /\ commission'[q].amount = commission[q].amount
                         /\ commission'[q].reversedAmount = commission[q].reversedAmount
                         /\ commission'[q].percent = commission[q].percent
  BY <1>5, <1>7
<1>9. 0 <= Total(payment) /\ 0 <= Total(credit)
  BY RowTotals DEF Inv
<1>10. TypeOK' /\ NoPhantomMoney'
  BY <1>1, <1>2, <1>7 DEF Inv, TypeOK, NoPhantomMoney
<1>11. RowInv'
  <2> SUFFICES ASSUME NEW q \in Payments
               PROVE  LET new == commission'[q] IN
                      /\ new.reversedAmount <= new.amount
                      /\ new.status = "absent" => new = NoCommission
                      /\ new.status # "absent" => new.percent > 0
                      /\ payouts'[q] = IF new.paidAt THEN 1 ELSE 0
                      /\ payment'[q] = 0 => new.status = "absent"
    BY DEF RowInv
  <2>1. CASE q # p
    BY <2>1, <1>1, <1>7 DEF Inv, RowInv
  <2>2. CASE q = p
    BY <2>2, <1>1, <1>3, <1>5, <1>7, <1>8 DEF Inv, RowInv
  <2> QED  BY <2>1, <2>2
<1>12. PayInv' /\ ReturnInv'
  BY <1>1, <1>2 DEF Inv, PayInv, ReturnInv, Idle
<1>13. SeenInv' /\ IdleInv'
  BY <1>1, <1>2, <1>9 DEF Inv, SeenInv, IdleInv, Idle, FirstRow
<1>14. LiquidateInv'
  BY <1>2, <1>8 DEF Inv, LiquidateInv, Idle, Net
<1> QED  BY <1>3, <1>4, <1>8, <1>10, <1>11, <1>12, <1>13, <1>14 DEF Inv
-----------------------------------------------------------------------------
(***************************************************************************)
(* The theorems                                                            *)
(***************************************************************************)
LEMMA InitInv == Init => Inv
<1> SUFFICES ASSUME Init PROVE Inv
  OBVIOUS
<1>1. NoCommission \in CommissionRow /\ NoCommission.status = "absent"
      /\ NoCommission.reversedAmount = 0 /\ NoCommission.amount = 0 /\ ~NoCommission.paidAt
  BY DEF NoCommission, CommissionRow, Whole
<1>2. TypeOK
  BY <1>1, IdleType DEF Init, TypeOK, FirstRow, InvoiceRow, InvoiceStatuses
<1>3. 0 <= Total(payment) /\ 0 <= Total(credit)
  BY <1>2, RowTotals
<1> QED
  BY <1>1, <1>2, <1>3 DEF Init, Inv, RowInv, PayInv, ReturnInv, SeenInv, LiquidateInv, IdleInv,
                      NoPhantomMoney, Idle, FirstRow

\* Every step keeps the invariant.
LEMMA StepInv == Inv /\ [Next]_vars => Inv'
<1> SUFFICES ASSUME Inv, [Next]_vars PROVE Inv'
  OBVIOUS
<1>1. CASE UNCHANGED vars
  BY <1>1 DEF vars, Inv, TypeOK, RowInv, PayInv, ReturnInv, SeenInv, LiquidateInv, IdleInv,
              NoPhantomMoney, Net
<1>2. ASSUME NEW h \in Handlers, Serve(h)
      PROVE  Inv'
  <2>1. ASSUME RefuseLiquidate(h) PROVE Inv'
    BY <2>1, NothingWritten DEF RefuseLiquidate
  <2> QED  BY <1>2, <2>1, PaymentKeeps, HoldKeeps, ReturnKeeps, StatusKeeps, LiquidateKeeps
           DEF Serve
<1>3. ASSUME NEW h \in Handlers, Rollback(h)
      PROVE  Inv'
  BY <1>3, NothingWritten DEF Rollback
<1> QED  BY <1>1, <1>2, <1>3, ArriveKeeps DEF Next, Quiet

THEOREM Invariant == Spec => []Inv
BY InitInv, StepInv, PTL DEF Spec

\* The rows and the requests keep their types, for any instance.
THEOREM TypeCorrect == Spec => []TypeOK
<1>1. Inv => TypeOK
  BY DEF Inv
<1> QED  BY <1>1, Invariant, PTL

\* Lost updates never invent money: the columns of the invoice stay within the
\* payments and the returns recorded.
THEOREM ColumnsBacked == Spec => []NoPhantomMoney
<1>1. Inv => NoPhantomMoney
  BY DEF Inv
<1> QED  BY <1>1, Invariant, PTL

\* A payment or a credit note closes the invoice only when the rows cover it.
THEOREM ClosedIsCovered == Spec => ClosedMeansCovered
<1> DEFINE Closes == /\ \E h \in Handlers : req[h].op \in {"pay", "return"} /\ req'[h] # req[h]
                     /\ invoice.status # "pagada" /\ invoice'.status = "pagada"
           Covered == Total(payment)' + Total(credit)' >= InvoiceTotal
<1>1. Inv /\ [Next]_vars => [Closes => Covered]_vars
  <2> SUFFICES ASSUME Inv, Next, Closes PROVE Covered
    BY DEF vars
  <2>1. PICK h \in Handlers : Serve(h) /\ invoice' # invoice
    BY DEF Next, Quiet, Rollback, vars, Arrive, BeginLiquidate, BeginPayment, BeginReturn,
           BeginStatus, Begin
  <2>2. ASSUME NEW percent \in Percents, CommitPayment(h, percent)
        PROVE  Covered
    <3>1. invoice'.status = "pagada" => Total(payment)' + Total(credit) >= InvoiceTotal
      <4> PICK p : p = req[h].row
        OBVIOUS
      <4> QED  BY <2>2, PaymentCommit
    <3>2. Total(credit)' = Total(credit)
      BY <2>2 DEF CommitPayment
    <3> QED  BY <3>1, <3>2
  <2>3. ASSUME CommitReturn(h)
        PROVE  Covered
    <3>1. Total(payment)' = Total(payment)
      BY <2>3 DEF CommitReturn
    <3> QED  BY <2>3, <3>1, ReturnCommit
  <2>4. ~CommitStatus(h)
    <3>1. CommitStatus(h) => \A g \in Handlers : req[g].op \in {"pay", "return"} => req'[g] = req[g]
      BY DEF CommitStatus, Finish, Inv, TypeOK
    <3> QED  BY <3>1
  <2>5. ~(HoldInvoice(h) \/ HoldCommission(h) \/ CommitLiquidate(h) \/ RefuseLiquidate(h))
    BY <2>1 DEF HoldInvoice, HoldCommission, CommitLiquidate, RefuseLiquidate
  <2> QED  BY <2>1, <2>2, <2>3, <2>4, <2>5 DEF Serve
<1> QED  BY <1>1, Invariant, PTL DEF Spec, ClosedMeansCovered
-----------------------------------------------------------------------------
(***************************************************************************)
(* The commissions implement the ledger                                    *)
(***************************************************************************)
Causing == {p \in Payments : commission[p].status # "absent"}

Nets == [p \in Payments |-> Net(p)]

LEMMA NetsType ==
    ASSUME Inv
    PROVE  Nets \in [Payments -> Nat] /\ DOMAIN payouts = Payments
<1>1. \A p \in Payments : Net(p) \in Nat
  BY DEF Inv, TypeOK, RowInv, Net, CommissionRow
<1> QED  BY <1>1 DEF Nets, Inv, TypeOK

LEMMA NetsTypeNext ==
    ASSUME Inv'
    PROVE  Nets' \in [Payments -> Nat]
<1>1. \A p \in Payments : Net(p)' \in Nat
  BY DEF Inv, TypeOK, RowInv, Net, CommissionRow
<1> QED  BY <1>1 DEF Nets

LEMMA SameLedger ==
    ASSUME UNCHANGED <<commission, payouts>>
    PROVE  UNCHANGED <<Causing, Nets, payouts>>
BY DEF Causing, Nets, Net

\* A payment causes a commission, or none.
LEMMA PaymentInLedger ==
    ASSUME Inv, Inv', NEW h \in Handlers, NEW percent \in Percents, CommitPayment(h, percent)
    PROVE  \/ \E p \in Payments : Ledger!Cause(p)
           \/ UNCHANGED <<Causing, Nets, payouts>>
<1> PICK p : p = req[h].row
  OBVIOUS
<1>1. /\ p \in Payments /\ commission[p] = NoCommission
      /\ \A q \in Payments \ {p} : commission'[q] = commission[q]
      /\ commission' = commission \/ commission'[p].status = "causada"
  BY PaymentCommit
<1>2. UNCHANGED payouts
  BY DEF CommitPayment
<1>3. CASE commission' = commission
  BY <1>2, <1>3, SameLedger
<1>4. CASE commission' # commission
  <2>1. p \notin Causing /\ Causing' = Causing \cup {p}
    BY <1>1, <1>4 DEF Causing, NoCommission
  <2>2. Nets' \in [Payments -> Nat] /\ Nets \in [Payments -> Nat]
    BY NetsType, NetsTypeNext
  <2>3. \A q \in Payments \ {p} : Nets'[q] = Nets[q]
    BY <1>1 DEF Nets, Net
  <2>4. Nets'[p] \in Nat /\ Nets' = [Nets EXCEPT ![p] = Nets'[p]]
    <3> PICK old, new : old = Nets /\ new = Nets'
      OBVIOUS
    <3> QED  BY <1>1, <2>2, <2>3
  <2>5. Ledger!Cause(p)
    BY <2>1, <2>4, <1>2 DEF Ledger!Cause, Causing, Nets
  <2> QED  BY <1>1, <2>5
<1> QED  BY <1>3, <1>4

\* A return only takes from the net amounts.
LEMMA ReturnInLedger ==
    ASSUME Inv, Inv', NEW h \in Handlers, CommitReturn(h)
    PROVE  Ledger!Reverse
<1>1. UNCHANGED payouts
  BY DEF CommitReturn
<1>2. Nets' \in [Payments -> Nat]
  BY NetsTypeNext
<1>3. \A p \in Payments : Nets'[p] <= Nets[p] /\ (p \in Causing' <=> p \in Causing)
  <2> SUFFICES ASSUME NEW p \in Payments
               PROVE  Nets'[p] <= Nets[p] /\ (p \in Causing' <=> p \in Causing)
    OBVIOUS
  <2>1. commission[p] \in CommissionRow /\ commission'[p] \in CommissionRow
    BY DEF Inv, TypeOK
  <2>2. CASE commission'[p] = commission[p]
    BY <2>1, <2>2 DEF Nets, Net, Causing, CommissionRow
  <2>3. CASE commission'[p] # commission[p]
    <3>1. /\ commission[p].status # "absent" /\ commission'[p].status # "absent"
          /\ commission'[p].amount = commission[p].amount
          /\ commission[p].reversedAmount <= commission'[p].reversedAmount
      BY <2>3, ReturnReverses
    <3> QED  BY <2>1, <3>1 DEF Nets, Net, Causing, CommissionRow
  <2> QED  BY <2>2, <2>3
<1>4. Causing' = Causing
  BY <1>3 DEF Causing
<1> QED  BY <1>1, <1>2, <1>3, <1>4 DEF Ledger!Reverse, Causing, Nets

LEMMA LiquidateInLedger ==
    ASSUME Inv, NEW h \in Handlers, CommitLiquidate(h)
    PROVE  \E p \in Payments : Ledger!Liquidate(p)
<1> PICK p : p = req[h].row
  OBVIOUS
<1>1. /\ p \in Payments /\ commission[p].status # "absent"
      /\ Net(p) > 0 /\ payouts[p] = 0
      /\ \A q \in Payments : /\ commission'[q].status = commission[q].status
                             /\ commission'[q].amount = commission[q].amount
                             /\ commission'[q].reversedAmount = commission[q].reversedAmount
  BY LiquidateKeeps
<1>2. payouts' = [payouts EXCEPT ![p] = 1]
  BY <1>1 DEF CommitLiquidate, Inv, TypeOK
<1>3. Causing' = Causing /\ Nets' = Nets
  BY <1>1 DEF Causing, Nets, Net
<1>4. Ledger!Liquidate(p)
  BY <1>1, <1>2, <1>3 DEF Ledger!Liquidate, Causing, Nets
<1> QED  BY <1>1, <1>4

LEMMA StepInLedger ==
    ASSUME Inv, Inv', [Next]_vars
    PROVE  Ledger!Next \/ UNCHANGED <<Causing, Nets, payouts>>
<1>1. CASE UNCHANGED vars
  BY <1>1, SameLedger DEF vars
<1>2. ASSUME NEW h \in Handlers, Serve(h)
      PROVE  Ledger!Next \/ UNCHANGED <<Causing, Nets, payouts>>
  <2>1. ASSUME NEW percent \in Percents, CommitPayment(h, percent)
        PROVE  Ledger!Next \/ UNCHANGED <<Causing, Nets, payouts>>
    BY <2>1, PaymentInLedger DEF Ledger!Next
  <2>2. CommitReturn(h) => Ledger!Next
    BY ReturnInLedger DEF Ledger!Next
  <2>3. CommitLiquidate(h) => Ledger!Next
    BY LiquidateInLedger DEF Ledger!Next
  <2>4. HoldInvoice(h) \/ CommitStatus(h) \/ HoldCommission(h) \/ RefuseLiquidate(h)
          => UNCHANGED <<Causing, Nets, payouts>>
    BY SameLedger DEF HoldInvoice, CommitStatus, HoldCommission, RefuseLiquidate
  <2> QED  BY <1>2, <2>1, <2>2, <2>3, <2>4 DEF Serve
<1>3. ASSUME NEW h \in Handlers, Arrive(h) \/ Rollback(h)
      PROVE  UNCHANGED <<Causing, Nets, payouts>>
  BY <1>3, SameLedger DEF Arrive, BeginLiquidate, BeginPayment, BeginReturn, BeginStatus, Begin,
                          Rollback
<1> QED  BY <1>1, <1>2, <1>3 DEF Next, Quiet

\* Whatever interleaves, the commissions of an invoice are a ledger: caused
\* once, never below zero, paid once and only for a net amount.
THEOREM ImplementsLedger == Spec => KeepsLedger
<1>1. Init => Ledger!Init
  <2> SUFFICES ASSUME Init PROVE Ledger!Init
    OBVIOUS
  <2>1. \A p \in Payments : commission[p] = NoCommission
    BY DEF Init
  <2>2. Causing = {} /\ Nets = [p \in Payments |-> 0]
    BY <2>1 DEF Causing, Nets, Net, NoCommission
  <2> QED  BY <2>2 DEF Init, Ledger!Init, Causing, Nets
<1>2. Inv /\ Inv' /\ [Next]_vars => [Ledger!Next]_(Ledger!ledger)
  BY StepInLedger DEF Ledger!ledger, Causing, Nets
<1> QED  BY <1>1, <1>2, Invariant, PTL DEF Spec, KeepsLedger, Ledger!Spec
-----------------------------------------------------------------------------
(***************************************************************************)
(* A credit note reverses what the same money would have caused            *)
(***************************************************************************)

\* q is n / d, rounded to the nearest.
Nearest(q, n, d) == q \in Nat /\ d * (2 * q) <= 2 * n + d /\ 2 * n + d < d * (2 * q + 2)

LEMMA RoundedBounds ==
    ASSUME NEW n \in Nat, NEW d \in Nat, d > 0, NEW q, q = Rounded(n, d)
    PROVE  Nearest(q, n, d)
<1>1. q = (2 * n + d) \div (2 * d)
  BY DEF Rounded
<1>2. 2 * n + d \in Nat /\ 2 * d \in Nat /\ 2 * d > 0
  OBVIOUS
<1>3. PICK r \in 0 .. (2 * d - 1) : q \in Nat /\ 2 * n + d = (2 * d) * q + r
  BY <1>1, <1>2, Division
<1>4. (2 * d) * q = d * (2 * q) /\ d * (2 * q + 2) = d * (2 * q) + 2 * d
  BY <1>3
<1>5. d * (2 * q) \in Int
  BY <1>3
<1>6. QED
  BY <1>3, <1>4, <1>5 DEF Nearest

\* What causes one cent, in pieces of a cent.
LEMMA OneCent ==
    ASSUME NEW percent \in Percents \ {0}
    PROVE  /\ percent \in Nat /\ percent > 0 /\ Scale \in Nat /\ Scale > 0
           /\ BaseOfOne(percent) \in Nat /\ BaseOfOne(percent) > 0
           /\ Whole * Scale = BaseOfOne(percent) * percent
<1> DEFINE all == Whole * Scale
           d == BaseOfOne(percent)
<1>1. /\ percent \in Nat /\ percent > 0 /\ Scale \in Nat /\ Scale > 0
      /\ all \in Nat /\ all > 0 /\ all % percent = 0
  BY SettlementAssumption DEF Whole
<1>2. d = all \div percent
  BY DEF BaseOfOne
<1> HIDE DEF all, d
<1>3. d \in Nat /\ all = percent * d + (all % percent)
  BY <1>1, <1>2, Division
<1>4. all = percent * d
  BY <1>1, <1>3
<1>5. percent * d = d * percent
  BY <1>1, <1>3
<1>6. d # 0
  BY <1>1, <1>4
<1> QED  BY <1>1, <1>3, <1>4, <1>5, <1>6 DEF all, d

LEMMA AccrualBounds ==
    ASSUME NEW base \in Nat, NEW percent \in Percents \ {0},
           NEW d, d = BaseOfOne(percent), NEW q, q = Accrual(base, percent)
    PROVE  Nearest(q, Scale * base, d)
<1> DEFINE n == base * percent
           b == Scale * base
<1>1. /\ percent \in Nat /\ percent > 0 /\ Scale \in Nat /\ Scale > 0 /\ d \in Nat /\ d > 0
      /\ Whole * Scale = d * percent /\ Whole \in Nat /\ Whole > 0
  BY OneCent DEF Whole
<1> HIDE DEF Whole
<1>2. n \in Nat /\ b \in Nat
  BY <1>1
<1>3. /\ q \in Nat /\ Whole * (2 * q) <= 2 * n + Whole
      /\ 2 * n + Whole < Whole * (2 * q + 2)
  <2>1. q = Rounded(n, Whole)
    BY DEF Accrual
  <2> HIDE DEF n
  <2>2. QED
    BY <1>1, <1>2, <2>1, RoundedBounds DEF Nearest
<1>4. /\ percent * (d * (2 * q)) = Scale * (Whole * (2 * q))
      /\ percent * (d * (2 * q + 2)) = Scale * (Whole * (2 * q + 2))
      /\ percent * (2 * b + d) = Scale * (2 * n + Whole)
  <2>1. \A i, j, k \in Int : i * (j * k) = (j * i) * k
    OBVIOUS
  <2>2. /\ percent * (d * (2 * q)) = (d * percent) * (2 * q)
        /\ percent * (d * (2 * q + 2)) = (d * percent) * (2 * q + 2)
        /\ Scale * (Whole * (2 * q)) = (Whole * Scale) * (2 * q)
        /\ Scale * (Whole * (2 * q + 2)) = (Whole * Scale) * (2 * q + 2)
    <3>1. 2 * q \in Int /\ 2 * q + 2 \in Int
      BY <1>3
    <3>2. QED
      BY <1>1, <2>1, <3>1
  <2>3. percent * (2 * b + d) = 2 * (percent * b) + d * percent
    BY <1>1, <1>2
  <2>4. Scale * (2 * n + Whole) = 2 * (Scale * n) + Whole * Scale
    BY <1>1, <1>2
  <2>5. percent * b = Scale * n
    <3>1. percent * (Scale * base) = Scale * (base * percent)
      BY <1>1
    <3>2. QED
      BY <3>1
  <2>6. QED
    BY <1>1, <2>2, <2>3, <2>4, <2>5
<1> HIDE DEF n, b
<1>5. /\ Scale * (Whole * (2 * q)) <= Scale * (2 * n + Whole)
      /\ Scale * (2 * n + Whole) < Scale * (Whole * (2 * q + 2))
  <2>1. Whole * (2 * q) \in Int /\ Whole * (2 * q + 2) \in Int /\ 2 * n + Whole \in Int
    BY <1>1, <1>2, <1>3
  <2>2. QED
    BY <1>1, <1>3, <2>1, Cancel
<1>6. d * (2 * q) \in Int /\ d * (2 * q + 2) \in Int /\ 2 * b + d \in Int
  BY <1>1, <1>2, <1>3
<1>7. /\ percent * (d * (2 * q)) <= percent * (2 * b + d)
      /\ percent * (2 * b + d) < percent * (d * (2 * q + 2))
  BY <1>4, <1>5
<1>8. d * (2 * q) <= 2 * b + d /\ 2 * b + d < d * (2 * q + 2)
  BY <1>1, <1>6, <1>7, Cancel
<1>9. Nearest(q, b, d)
  BY <1>3, <1>8 DEF Nearest
<1> QED  BY <1>9 DEF b

\* What all was caused by, at d for one cent, is paid but for d / 2 in each of n rows.
CausedBy(all, paid, d, n) ==
    2 * paid <= d * (2 * all + n) /\ d * (2 * all) <= 2 * paid + d * n

\* x, unless there is nothing to take it from.
Available(x, all, paid) == IF all = 0 \/ paid <= 0 THEN 0 ELSE Smaller(x, all)

\* The share of all that a has in paid, and the commission of a: up to all, they are
\* within (n + 1) / 2 of each other.
LEMMA Close ==
    ASSUME NEW a \in Nat, NEW d \in Nat, d > 0, NEW all \in Nat, NEW paid \in Nat, NEW n \in Nat,
           CausedBy(all, paid, d, n),
           NEW m, m = a * all, NEW x \in Nat, paid > 0 => Nearest(x, m, paid),
           NEW y, Nearest(y, a, d), NEW t, t = Available(x, all, paid)
    PROVE  2 * (t - Smaller(y, all)) \in -(n + 1) .. n + 1
<1> SUFFICES ASSUME 2 * paid <= d * (2 * all + n), d * (2 * all) <= 2 * paid + d * n,
                    paid > 0 => /\ paid * (2 * x) <= 2 * (a * all) + paid
                                /\ 2 * (a * all) + paid < paid * (2 * x + 2),
                    y \in Nat, d * (2 * y) <= 2 * a + d, 2 * a + d < d * (2 * y + 2)
             PROVE  2 * (t - Smaller(y, all)) \in -(n + 1) .. n + 1
  BY DEF Nearest, CausedBy
<1> USE DEF Available
<1>1. CASE all = 0
  BY <1>1 DEF Smaller
<1>2. CASE paid = 0
  <2>1. d * (2 * all) <= d * n
    BY <1>2
  <2>2. 2 * all <= n
    BY <2>1, Cancel
  <2>3. QED
    BY <1>2, <2>2 DEF Smaller
<1>3. CASE all > 0 /\ paid > 0 /\ a >= paid
  <2>1. x >= all
    <3>1. SUFFICES ASSUME x < all PROVE FALSE
      OBVIOUS
    <3>2. paid * (2 * x + 2) <= paid * (2 * all)
      BY <1>3, <3>1, Cancel
    <3>3. paid * (2 * all) = (2 * all) * paid /\ a * (2 * all) = (2 * all) * a
      OBVIOUS
    <3>4. (2 * all) * paid <= (2 * all) * a
      BY <1>3, Cancel
    <3>5. (2 * all) * a = 2 * (a * all) /\ a * all \in Int /\ (2 * all) * paid \in Int
      OBVIOUS
    <3>6. paid * (2 * x + 2) \in Int
      OBVIOUS
    <3>7. QED
      BY <1>3, <3>2, <3>3, <3>4, <3>5, <3>6
  <2>2. CASE y < all
    <3>1. d * (2 * all) = d * (2 * all + 1 - n) + d * n - d
      OBVIOUS
    <3>2. d * (2 * all + 1 - n) < d * (2 * y + 2)
      <4>1. d * (2 * all + 1 - n) \in Int /\ d * n \in Int /\ d * (2 * y + 2) \in Int
        OBVIOUS
      <4>2. QED
        BY <1>3, <3>1, <4>1
    <3>3. 2 * all + 1 - n < 2 * y + 2
      BY <3>2, Cancel
    <3>4. QED
      BY <1>3, <2>1, <2>2, <3>3 DEF Smaller
  <2>3. CASE y >= all
    BY <1>3, <2>1, <2>3 DEF Smaller
  <2>4. QED
    BY <2>2, <2>3
<1>4. CASE all > 0 /\ paid > 0 /\ a < paid
  <2> DEFINE dp == d * paid
             aall == a * all
             daall == d * (a * all)
             ap == a * paid
             and == a * (d * n)
             pnd == paid * (d * n)
             px == dp * x
             py == dp * y
  <2>1. dp \in Nat /\ dp > 0 /\ daall \in Nat /\ ap \in Nat /\ and \in Nat /\ pnd \in Nat
        /\ px \in Nat /\ py \in Nat
    BY <1>4
  <2>2. and <= pnd
    BY <1>4, MulAtMost
  <2>3. 2 * px <= 2 * daall + dp /\ 2 * daall + dp < 2 * px + 2 * dp
    <3>1. d * (paid * (2 * x)) <= d * (2 * (a * all) + paid)
      BY <1>4, Cancel
    <3>2. d * (2 * (a * all) + paid) < d * (paid * (2 * x + 2))
      BY <1>4, Cancel
    <3>3. d * (paid * (2 * x)) = 2 * px /\ d * (paid * (2 * x + 2)) = 2 * px + 2 * dp
      OBVIOUS
    <3>4. d * (2 * (a * all) + paid) = 2 * daall + dp
      OBVIOUS
    <3>5. QED
      BY <3>1, <3>2, <3>3, <3>4
  <2>4. 2 * py <= 2 * ap + dp /\ 2 * ap + dp < 2 * py + 2 * dp
    <3>1. paid * (d * (2 * y)) <= paid * (2 * a + d)
      BY <1>4, Cancel
    <3>2. paid * (2 * a + d) < paid * (d * (2 * y + 2))
      BY <1>4, Cancel
    <3>3. paid * (d * (2 * y)) = 2 * py /\ paid * (d * (2 * y + 2)) = 2 * py + 2 * dp
      OBVIOUS
    <3>4. paid * (2 * a + d) = 2 * ap + dp
      OBVIOUS
    <3>5. QED
      BY <3>1, <3>2, <3>3, <3>4
  <2>5. 2 * daall <= 2 * ap + and /\ 2 * ap <= 2 * daall + and
    <3>1. (d * (2 * all)) * a <= (2 * paid + d * n) * a
      BY MulAtMost
    <3>2. (2 * paid) * a <= (d * (2 * all + n)) * a
      BY MulAtMost
    <3>3. (d * (2 * all)) * a = 2 * daall /\ (2 * paid + d * n) * a = 2 * ap + and
      OBVIOUS
    <3>4. (2 * paid) * a = 2 * ap /\ (d * (2 * all + n)) * a = 2 * daall + and
      OBVIOUS
    <3>5. QED
      BY <3>1, <3>2, <3>3, <3>4
  <2>6. dp * (2 * x) = 2 * px /\ dp * (2 * y + 2 + n) = 2 * py + 2 * dp + pnd
        /\ dp * (2 * y) = 2 * py /\ dp * (2 * x + 2 + n) = 2 * px + 2 * dp + pnd
    OBVIOUS
  <2> HIDE DEF dp, daall, ap, and, pnd, px, py
  <2>7. dp * (2 * x) < dp * (2 * y + 2 + n)
    BY <2>1, <2>2, <2>3, <2>4, <2>5, <2>6
  <2>8. dp * (2 * y) < dp * (2 * x + 2 + n)
    BY <2>1, <2>2, <2>3, <2>4, <2>5, <2>6
  <2>9. 2 * x < 2 * y + 2 + n /\ 2 * y < 2 * x + 2 + n
    BY <2>1, <2>7, <2>8, Cancel
  <2>10. QED
    BY <1>4, <2>9 DEF Smaller
<1>5. QED
  BY <1>1, <1>2, <1>3, <1>4

\* Every commission was computed from its base at a percentage in force, and the
\* rows are numbered in the order in which they were written.
RatedInv ==
    \A p \in Causing :
        /\ commission[p].percent \in Percents \ {0}
        /\ commission[p].amount = Accrual(commission[p].base, commission[p].percent)
        /\ commission[p].order < Cardinality(Causing)
        /\ \A q \in Causing : commission[q].order = commission[p].order => q = p

LEMMA SameRates ==
    ASSUME RatedInv,
           \A p \in Payments :
             /\ commission'[p].status = "absent" <=> commission[p].status = "absent"
             /\ commission'[p].percent = commission[p].percent
             /\ commission'[p].base = commission[p].base
             /\ commission'[p].amount = commission[p].amount
             /\ commission'[p].order = commission[p].order
    PROVE  RatedInv'
<1>1. Causing' = Causing /\ Causing \subseteq Payments
  BY DEF Causing
<1>2. QED
  BY <1>1 DEF RatedInv

\* The row that a payment adds is the last one.
LEMMA PaymentRated ==
    ASSUME Inv, RatedInv, NEW h \in Handlers, NEW percent \in Percents,
           CommitPayment(h, percent)
    PROVE  RatedInv'
<1> PICK p : p = req[h].row
  OBVIOUS
<1>1. /\ p \in Payments /\ commission[p] = NoCommission
      /\ \A q \in Payments \ {p} : commission'[q] = commission[q]
  BY PaymentCommit
<1>2. commission' = Accrue(p, req[h].amount, percent)
  BY DEF CommitPayment
<1>3. CASE percent = 0
  <2>1. commission' = commission
    BY <1>2, <1>3 DEF Accrue
  <2>2. QED
    BY <2>1, SameRates
<1>4. CASE percent # 0
  <2> DEFINE new == [status |-> "causada", base |-> req[h].amount, percent |-> percent,
                     amount |-> Accrual(req[h].amount, percent), reversedAmount |-> 0,
                     paidAt |-> FALSE, order |-> Cardinality(Causing)]
  <2>1. commission' = [commission EXCEPT ![p] = new]
    BY <1>2, <1>4 DEF Accrue, Causing
  <2>2. /\ new.status = "causada" /\ new.percent = percent
        /\ new.amount = Accrual(new.base, new.percent) /\ new.order = Cardinality(Causing)
    OBVIOUS
  <2> HIDE DEF new
  <2>3. commission'[p] = new
    BY <1>1, <2>1 DEF Inv, TypeOK
  <2>4. p \notin Causing /\ Causing' = Causing \cup {p} /\ Causing \subseteq Payments
    BY <1>1, <2>2, <2>3 DEF Causing, NoCommission
  <2>5. /\ Cardinality(Causing) \in Nat
        /\ Cardinality(Causing') = Cardinality(Causing) + 1
    <3>1. IsFiniteSet(Causing)
      BY <2>4, SettlementAssumption, FS_Subset
    <3>2. QED
      BY <2>4, <3>1, FS_AddElement, FS_CardinalityType
  <2>6. \A q \in Causing : /\ q \in Payments \ {p} /\ commission'[q] = commission[q]
                           /\ commission[q].order \in Nat
                           /\ commission[q].order < Cardinality(Causing)
    BY <1>1, <2>4 DEF RatedInv, Inv, TypeOK, CommissionRow
  <2>7. ASSUME NEW q \in Causing'
        PROVE  /\ commission'[q].percent \in Percents \ {0}
               /\ commission'[q].amount
                    = Accrual(commission'[q].base, commission'[q].percent)
               /\ commission'[q].order < Cardinality(Causing')
    <3>1. CASE q = p
      BY <1>4, <2>2, <2>3, <2>5, <3>1
    <3>2. CASE q \in Causing
      BY <2>5, <2>6, <3>2 DEF RatedInv
    <3>3. QED
      BY <2>4, <3>1, <3>2
  <2>8. ASSUME NEW q \in Causing', NEW r \in Causing',
               commission'[r].order = commission'[q].order
        PROVE  r = q
    <3>1. CASE q \in Causing /\ r \in Causing
      BY <2>6, <2>8, <3>1 DEF RatedInv
    <3>2. CASE q = p /\ r \in Causing
      BY <2>2, <2>3, <2>5, <2>6, <2>8, <3>2
    <3>3. CASE q \in Causing /\ r = p
      BY <2>2, <2>3, <2>5, <2>6, <2>8, <3>3
    <3>4. QED
      BY <2>4, <3>1, <3>2, <3>3
  <2>9. QED
    BY <2>7, <2>8 DEF RatedInv
<1>5. QED
  BY <1>3, <1>4

\* Each row of a return, column by column.
LEMMA ReturnRow ==
    ASSUME Inv, NEW h \in Handlers, CommitReturn(h), NEW p \in Payments,
           NEW piece, piece = IF p \in Caused THEN Piece(p, req[h].amount) ELSE 0
    PROVE  /\ piece \in Nat
           /\ commission'[p].reversedAmount = commission[p].reversedAmount + piece
           /\ commission'[p].status = "absent" <=> commission[p].status = "absent"
           /\ commission'[p].percent = commission[p].percent
           /\ commission'[p].base = commission[p].base
           /\ commission'[p].amount = commission[p].amount
           /\ commission'[p].order = commission[p].order
<1>1. commission[p] \in CommissionRow /\ req[h].amount \in Nat
  BY DEF Inv, TypeOK, Request
<1>2. commission'[p] = IF p \in Caused THEN Reversed(commission[p], piece) ELSE commission[p]
  BY DEF CommitReturn
<1>3. piece \in Nat
  BY <1>1, PieceBound DEF Inv
<1>4. p \in Caused => commission[p].status = "causada"
  BY DEF Caused
<1>5. CASE piece = 0
  BY <1>1, <1>2, <1>5 DEF Reversed, CommissionRow
<1>6. CASE piece # 0
  <2> DEFINE reversed == commission[p].reversedAmount + piece
             row == [commission[p] EXCEPT
                       !.reversedAmount = reversed,
                       !.status = IF reversed = commission[p].amount THEN "reversada"
                                  ELSE "causada"]
  <2>1. p \in Caused /\ commission'[p] = row
    BY <1>2, <1>6 DEF Reversed
  <2> HIDE DEF reversed
  <2>2. /\ row.reversedAmount = reversed /\ row.status # "absent"
        /\ row.percent = commission[p].percent /\ row.base = commission[p].base
        /\ row.amount = commission[p].amount /\ row.order = commission[p].order
    BY <1>1 DEF CommissionRow
  <2> HIDE DEF row
  <2>3. QED
    BY <1>3, <1>4, <2>1, <2>2 DEF reversed
<1>7. QED
  BY <1>5, <1>6

LEMMA StepRated ==
    ASSUME Inv, RatedInv, [Next]_vars
    PROVE  RatedInv'
<1>1. ASSUME UNCHANGED commission PROVE RatedInv'
  BY <1>1, SameRates
<1>2. ASSUME NEW h \in Handlers, Serve(h)
      PROVE  RatedInv'
  <2>1. ASSUME CommitReturn(h) PROVE RatedInv'
    <3>1. ASSUME NEW p \in Payments
          PROVE  /\ commission'[p].status = "absent" <=> commission[p].status = "absent"
                 /\ commission'[p].percent = commission[p].percent
                 /\ commission'[p].base = commission[p].base
                 /\ commission'[p].amount = commission[p].amount
                 /\ commission'[p].order = commission[p].order
      <4> PICK piece : piece = IF p \in Caused THEN Piece(p, req[h].amount) ELSE 0
        OBVIOUS
      <4>1. QED
        BY <2>1, ReturnRow
    <3>2. QED
      BY <3>1, SameRates
  <2>2. ASSUME CommitLiquidate(h) PROVE RatedInv'
    <3>1. commission' = [commission EXCEPT ![req[h].row].paidAt = TRUE]
      BY <2>2 DEF CommitLiquidate
    <3>2. \A p \in Payments :
             /\ commission'[p].status = commission[p].status
             /\ commission'[p].percent = commission[p].percent
             /\ commission'[p].base = commission[p].base
             /\ commission'[p].amount = commission[p].amount
             /\ commission'[p].order = commission[p].order
      BY <3>1 DEF Inv, TypeOK, CommissionRow
    <3>3. QED
      BY <3>2, SameRates
  <2>3. QED
    BY <1>1, <1>2, <2>1, <2>2, PaymentRated
    DEF Serve, HoldInvoice, HoldCommission, CommitStatus, RefuseLiquidate
<1>3. ASSUME NEW h \in Handlers, Arrive(h) \/ Rollback(h)
      PROVE  RatedInv'
  BY <1>1, <1>3 DEF Arrive, BeginLiquidate, BeginPayment, BeginReturn, BeginStatus, Begin,
                    Rollback
<1>4. QED
  BY <1>1, <1>2, <1>3 DEF Next, Quiet, vars

\* Every commission is what its percentage says, and the rows stay in order.
THEOREM RatesHold == Spec => []RatedInv
<1>1. Init => RatedInv
  BY DEF Init, RatedInv, Causing, NoCommission
<1>2. QED
  BY <1>1, StepRated, Invariant, PTL DEF Spec

LEMMA CausedRows ==
    ASSUME Inv, RatedInv
    PROVE  /\ IsFiniteSet(Caused) /\ Cardinality(Caused) \in Nat
           /\ Caused \subseteq Payments /\ Caused \subseteq Causing
           /\ \A p \in Caused : /\ commission[p] \in CommissionRow
                                /\ Net(p) \in Nat /\ BaseLeft(p) \in Int
           /\ Accrued \in Nat /\ PaidBase \in Nat
<1>1. Caused \subseteq Payments /\ Caused \subseteq Causing
  BY DEF Caused, Causing
<1>2. IsFiniteSet(Caused) /\ Cardinality(Caused) \in Nat
  BY <1>1, SettlementAssumption, FS_Subset, FS_CardinalityType
<1>3. \A p \in Caused : commission[p] \in CommissionRow /\ Net(p) \in Nat /\ BaseLeft(p) \in Int
  BY <1>1, BaseLeftType DEF Inv, TypeOK, RowInv, Net, Caused, CommissionRow
<1>4. Accrued \in Nat /\ PaidBase \in Nat
  BY <1>2, <1>3, TotalOfIntegers DEF Accrued, PaidBase
<1>5. QED
  BY <1>1, <1>2, <1>3, <1>4

\* The pieces taken from the rows add up to what the credit note reverses.
LEMMA PiecesAddUp ==
    ASSUME Inv, RatedInv, NEW amount \in Nat
    PROVE  /\ ToReverse(amount) \in Nat
           /\ Total([p \in Caused |-> Piece(p, amount)]) = ToReverse(amount)
<1> DEFINE nets == [p \in Caused |-> Net(p)]
           order == [p \in Caused |-> commission[p].order]
           before == [p \in Caused |->
                        Total([q \in {q \in Caused : commission[q].order < commission[p].order}
                                 |-> Net(q)])]
           pieces == [p \in Caused |-> Piece(p, amount)]
           t == ToReverse(amount)
<1>1. t \in Nat /\ t <= Total(nets)
  <2>1. Accrued = Total(nets) /\ Accrued \in Nat /\ PaidBase \in Nat
    BY CausedRows DEF Accrued
  <2>2. (Scale * amount) * Accrued \in Nat
    BY <2>1, SettlementAssumption
  <2>3. PaidBase > 0 => Rounded((Scale * amount) * Accrued, PaidBase) \in Nat
    BY <2>1, <2>2, RoundedType
  <2>4. QED
    BY <2>1, <2>3 DEF ToReverse, Smaller
<1>2. Amounts(nets) /\ DOMAIN nets = Caused
  BY CausedRows DEF Amounts
<1>3. /\ Amounts(pieces) /\ DOMAIN pieces = DOMAIN nets
  BY CausedRows, PieceBound DEF Inv, Amounts
<1>4. /\ \A p \in DOMAIN nets : order[p] \in Nat
      /\ \A p, q \in DOMAIN nets : order[p] = order[q] => p = q
  BY CausedRows DEF RatedInv, CommissionRow
<1>5. ASSUME NEW p \in DOMAIN nets
      PROVE  before[p] = Total([q \in {q \in DOMAIN nets : order[q] < order[p]} |-> nets[q]])
  <2>1. {q \in DOMAIN nets : order[q] < order[p]}
          = {q \in Caused : commission[q].order < commission[p].order}
    OBVIOUS
  <2>2. QED
    BY <2>1
<1>6. ASSUME NEW p \in DOMAIN nets
      PROVE  pieces[p] = IF t - before[p] <= 0 THEN 0 ELSE Smaller(nets[p], t - before[p])
  BY DEF Piece
<1> HIDE DEF nets, order, before, pieces, t
<1>7. Total(pieces) = t
  BY <1>1, <1>2, <1>3, <1>4, <1>5, <1>6, TakenInOrder
<1>8. QED
  BY <1>1, <1>7 DEF pieces, t

\* What a return adds to the columns reversedAmount is those pieces.
LEMMA ReversedByReturn ==
    ASSUME Inv, RatedInv, NEW h \in Handlers, CommitReturn(h)
    PROVE  /\ ReversedSoFar \in Nat
           /\ ReversedSoFar' = ReversedSoFar + ToReverse(req[h].amount)
<1> DEFINE old == [p \in Payments |-> commission[p].reversedAmount]
           pieces == [p \in Caused |-> Piece(p, req[h].amount)]
           wide == [p \in Payments |-> IF p \in Caused THEN Piece(p, req[h].amount) ELSE 0]
           sum == [p \in DOMAIN old |-> old[p] + wide[p]]
<1>1. ASSUME NEW p \in Payments
      PROVE  /\ wide[p] \in Nat /\ old[p] \in Nat
             /\ commission'[p].reversedAmount = old[p] + wide[p]
  <2> PICK piece : piece = IF p \in Caused THEN Piece(p, req[h].amount) ELSE 0
    OBVIOUS
  <2>1. /\ piece \in Nat
        /\ commission'[p].reversedAmount = commission[p].reversedAmount + piece
    BY ReturnRow
  <2>2. QED
    BY <2>1 DEF Inv, TypeOK, CommissionRow
<1>2. Amounts(old) /\ Amounts(wide) /\ DOMAIN wide = DOMAIN old
  BY <1>1, SettlementAssumption DEF Amounts
<1>3. ReversedSoFar = Total(old) /\ ReversedSoFar' = Total(sum)
  <2>1. [p \in Payments |-> commission'[p].reversedAmount] = sum
    BY <1>1
  <2>2. ReversedSoFar' = Total([p \in Payments |-> commission'[p].reversedAmount])
    BY DEF ReversedSoFar
  <2>3. QED
    BY <2>1, <2>2 DEF ReversedSoFar
<1>4. Total(wide) = Total(pieces)
  <2>1. Coins(wide) = Coins(pieces)
    <3>1. Caused \subseteq Payments
      BY DEF Caused
    <3>2. 1 .. 0 = {}
      OBVIOUS
    <3>3. ASSUME NEW c PROVE c \in Coins(wide) <=> c \in Coins(pieces)
      <4>1. c \in Coins(wide) <=> \E p \in Payments : c \in {p} \X (1 .. wide[p])
        BY DEF Coins
      <4>2. c \in Coins(pieces) <=> \E p \in Caused : c \in {p} \X (1 .. pieces[p])
        BY DEF Coins
      <4>3. \A p \in Caused : wide[p] = pieces[p]
        BY <3>1
      <4>4. \A p \in Payments \ Caused : wide[p] = 0
        OBVIOUS
      <4> HIDE DEF wide, pieces
      <4>5. QED
        BY <3>1, <3>2, <4>1, <4>2, <4>3, <4>4
    <3>4. QED
      BY <3>3
  <2>2. QED
    BY <2>1 DEF Total
<1>5. req[h].amount \in Nat
  BY DEF Inv, TypeOK, Request
<1>6. Total(pieces) = ToReverse(req[h].amount)
  BY <1>5, PiecesAddUp
<1> HIDE DEF old, wide, pieces
<1>7. Total(sum) = Total(old) + Total(wide) /\ Total(old) \in Nat
  BY <1>2, TotalSum, TotalType
<1>8. QED
  BY <1>3, <1>4, <1>6, <1>7

\* What is left to reverse and the base it came from, but for half a cent of each row.
LEMMA SpreadBounds ==
    ASSUME Inv, RatedInv, NEW percent, Percents \ {0} = {percent},
           NEW d, d = BaseOfOne(percent), NEW n, n = Cardinality(Caused)
    PROVE  CausedBy(Accrued, PaidBase, d, n)
<1> DEFINE net == [p \in Caused |-> Net(p)]
           left == [p \in Caused |-> IF BaseLeft(p) < 0 THEN 0 ELSE BaseLeft(p)]
           one == [p \in Caused |-> 1]
           cents == [p \in Caused |-> d]
           net2 == [p \in DOMAIN net |-> net[p] + net[p]]
           left2 == [p \in DOMAIN left |-> left[p] + left[p]]
           above == [p \in DOMAIN net2 |-> net2[p] + one[p]]
           below == [p \in DOMAIN left2 |-> left2[p] + cents[p]]
<1>1. d \in Nat /\ d > 0 /\ Scale \in Nat
  BY OneCent
<1>2. Amounts(net) /\ Total(net) = Accrued /\ Accrued \in Nat
  BY CausedRows DEF Amounts, Accrued
<1>3. Amounts(left) /\ Total(left) = PaidBase /\ PaidBase \in Nat
  <2>1. Amounts(left)
    BY CausedRows DEF Amounts
  <2>2. \A p \in Caused : 1 .. BaseLeft(p) = 1 .. left[p]
    BY CausedRows
  <2> DEFINE base == [p \in Caused |-> BaseLeft(p)]
  <2>3. \A p \in Caused : {p} \X (1 .. base[p]) = {p} \X (1 .. left[p])
    BY <2>2
  <2>4. DOMAIN base = Caused /\ DOMAIN left = Caused
    OBVIOUS
  <2>5. PaidBase = Total(base)
    BY DEF PaidBase
  <2> HIDE DEF base, left
  <2>6. Coins(base) = Coins(left)
    BY <2>3, <2>4 DEF Coins
  <2>7. QED
    BY <2>1, <2>5, <2>6, CausedRows DEF Total
<1>4. Amounts(one) /\ Total(one) = n /\ Amounts(cents) /\ Total(cents) = n * d /\ n \in Nat
  <2>1. 1 \in Nat
    OBVIOUS
  <2>2. IsFiniteSet(Caused) /\ n \in Nat
    BY CausedRows
  <2>3. Amounts(one) /\ Total(one) = Cardinality(Caused) * 1
    BY <2>1, <2>2, TotalSame
  <2>4. Amounts(cents) /\ Total(cents) = Cardinality(Caused) * d
    BY <1>1, <2>2, TotalSame
  <2>5. QED
    BY <2>2, <2>3, <2>4
<1>5. ASSUME NEW p \in Caused
      PROVE  /\ Net(p) \in Nat /\ left[p] \in Nat
             /\ 2 * left[p] <= d * (2 * Net(p) + 1)
             /\ d * (2 * Net(p)) <= 2 * left[p] + d
  <2>1. /\ commission[p].base \in Nat /\ commission[p].reversedAmount \in Nat
        /\ Net(p) \in Nat
        /\ Net(p) = commission[p].amount - commission[p].reversedAmount
        /\ commission[p].percent = percent
        /\ commission[p].amount = Accrual(commission[p].base, percent)
    BY CausedRows DEF RatedInv, Net, CommissionRow
  <2> DEFINE base == Scale * commission[p].base
             q == commission[p].amount
             rev == commission[p].reversedAmount
  <2>2. BaseLeft(p) = base - rev * d
    BY <2>1 DEF BaseLeft
  <2>3. left[p] = IF BaseLeft(p) < 0 THEN 0 ELSE BaseLeft(p)
    OBVIOUS
  <2> HIDE DEF base, q, rev, left
  <2>4. /\ base \in Nat /\ rev \in Nat /\ Net(p) = q - rev /\ Net(p) \in Nat
        /\ Nearest(q, base, d)
    <3>1. Scale * commission[p].base \in Nat
      BY <1>1, <2>1
    <3>2. percent \in Percents \ {0}
      OBVIOUS
    <3>3. Nearest(commission[p].amount, Scale * commission[p].base, d)
      BY <2>1, <3>2, AccrualBounds, Zenon
    <3>4. QED
      BY <2>1, <3>1, <3>3 DEF base, q, rev
  <2>5. q \in Nat /\ d * (2 * q) <= 2 * base + d /\ 2 * base + d < d * (2 * q + 2)
    BY <2>4 DEF Nearest
  <2> DEFINE dq == d * q
             dr == d * rev
             dn == d * Net(p)
  <2>6. dq \in Nat /\ dr \in Nat /\ dn \in Nat /\ dn = dq - dr
    BY <1>1, <2>4, <2>5
  <2>7. /\ d * (2 * q) = 2 * dq /\ d * (2 * q + 2) = 2 * dq + 2 * d
        /\ rev * d = dr
        /\ d * (2 * Net(p) + 1) = 2 * dn + d /\ d * (2 * Net(p)) = 2 * dn
    <3>1. \A i, j \in Int : /\ i * (2 * j) = 2 * (i * j) /\ j * i = i * j
                            /\ i * (2 * j + 1) = 2 * (i * j) + i
                            /\ i * (2 * j + 2) = 2 * (i * j) + 2 * i
      OBVIOUS
    <3>2. d \in Int /\ q \in Int /\ rev \in Int /\ Net(p) \in Int
      BY <1>1, <2>4, <2>5
    <3>3. d * (2 * q) = 2 * (d * q) /\ d * (2 * q + 2) = 2 * (d * q) + 2 * d
      BY <3>1, <3>2
    <3>4. rev * d = d * rev
      BY <3>1, <3>2
    <3>5. /\ d * (2 * Net(p)) = 2 * (d * Net(p))
          /\ d * (2 * Net(p) + 1) = 2 * (d * Net(p)) + d
      BY <3>1, <3>2
    <3>6. QED
      BY <3>3, <3>4, <3>5
  <2> HIDE DEF dq, dr, dn
  <2>8. QED
    BY <1>1, <2>2, <2>3, <2>4, <2>5, <2>6, <2>7
<1>6. /\ DOMAIN net = Caused /\ DOMAIN left = Caused /\ DOMAIN one = Caused
      /\ DOMAIN cents = Caused /\ DOMAIN net2 = Caused /\ DOMAIN left2 = Caused
      /\ DOMAIN above = Caused /\ DOMAIN below = Caused
      /\ \A p \in Caused : /\ left[p] \in Nat /\ net[p] = Net(p) /\ net[p] \in Nat
                           /\ net2[p] = 2 * net[p] /\ above[p] = 2 * net[p] + 1
                           /\ below[p] = 2 * left[p] + d
  <2>1. /\ DOMAIN net = Caused /\ DOMAIN left = Caused /\ DOMAIN one = Caused
        /\ DOMAIN cents = Caused /\ DOMAIN net2 = Caused /\ DOMAIN left2 = Caused
        /\ DOMAIN above = Caused /\ DOMAIN below = Caused
    OBVIOUS
  <2>2. ASSUME NEW p \in Caused
        PROVE  /\ left[p] \in Nat /\ net[p] = Net(p) /\ net[p] \in Nat
               /\ net2[p] = 2 * net[p] /\ above[p] = 2 * net[p] + 1
               /\ below[p] = 2 * left[p] + d
    <3>1. /\ net[p] = Net(p) /\ one[p] = 1 /\ cents[p] = d
          /\ net2[p] = net[p] + net[p] /\ left2[p] = left[p] + left[p]
          /\ above[p] = net2[p] + one[p] /\ below[p] = left2[p] + cents[p]
      OBVIOUS
    <3> HIDE DEF net, left, one, cents, net2, left2, above, below
    <3>2. QED
      BY <1>1, <1>5, <3>1
  <2> HIDE DEF net, left, one, cents, net2, left2, above, below
  <2>3. QED
    BY <2>1, <2>2
<1>7. Amounts(above) /\ Total(above) = 2 * Accrued + n
      /\ Amounts(net2) /\ Total(net2) = 2 * Accrued
  <2>1. Amounts(net2) /\ Total(net2) = Total(net) + Total(net)
    BY <1>2, TotalSum
  <2>2. Amounts(above) /\ Total(above) = Total(net2) + Total(one)
    <3>1. Amounts(one) /\ DOMAIN one = DOMAIN net2
      BY <1>4
    <3> HIDE DEF net, one, net2
    <3>2. QED
      BY <2>1, <3>1, TotalSum
  <2> HIDE DEF net, one, net2, above
  <2>3. QED
    BY <1>2, <1>4, <2>1, <2>2
<1>8. Amounts(below) /\ Total(below) = 2 * PaidBase + d * n
  <2>1. Amounts(left2) /\ Total(left2) = Total(left) + Total(left)
    BY <1>3, TotalSum
  <2>2. Amounts(below) /\ Total(below) = Total(left2) + Total(cents)
    <3>1. Amounts(cents) /\ DOMAIN cents = DOMAIN left2
      BY <1>4
    <3> HIDE DEF left, cents, left2
    <3>2. QED
      BY <2>1, <3>1, TotalSum
  <2> HIDE DEF left, cents, left2, below
  <2>3. QED
    BY <1>1, <1>3, <1>4, <2>1, <2>2
<1> HIDE DEF net, left, one, cents, net2, left2, above, below
<1>9. 2 * Total(left) <= d * Total(above)
  <2>1. DOMAIN above = DOMAIN left /\ \A p \in DOMAIN left : 2 * left[p] <= d * above[p]
    BY <1>5, <1>6
  <2>2. 2 \in Nat
    OBVIOUS
  <2>3. QED
    BY <1>1, <1>3, <1>7, <2>1, <2>2, TotalScaled
<1>10. d * Total(net2) <= 1 * Total(below)
  <2>1. DOMAIN below = DOMAIN net2
    BY <1>6
  <2>2. ASSUME NEW p \in DOMAIN net2 PROVE d * net2[p] <= 1 * below[p]
    BY <1>1, <1>5, <1>6
  <2>3. 1 \in Nat /\ 1 > 0
    OBVIOUS
  <2>4. QED
    BY <1>1, <1>7, <1>8, <2>1, <2>2, <2>3, TotalScaled
<1>11. 2 * PaidBase <= d * (2 * Accrued + n)
  BY <1>3, <1>7, <1>9
<1>12. d * (2 * Accrued) <= 2 * PaidBase + d * n
  <2>1. 1 * Total(below) = 2 * PaidBase + d * n
    <3>1. d * n \in Int
      BY <1>1, <1>4
    <3>2. QED
      BY <1>3, <1>8, <3>1
  <2>2. QED
    BY <1>7, <1>10, <2>1
<1>13. QED
  BY <1>11, <1>12 DEF CausedBy

\* One return, any number of commissions.
LEMMA ReturnMatches ==
    ASSUME Inv, RatedInv, NEW h \in Handlers, CommitReturn(h),
           NEW percent, Percents \ {0} = {percent},
           NEW a, a = req[h].amount, NEW y, y = Accrual(a, percent)
    PROVE  2 * (ReversedSoFar' - ReversedSoFar - Smaller(y, Accrued))
             \in -(Cardinality(Caused) + 1) .. Cardinality(Caused) + 1
<1> PICK n : n = Cardinality(Caused)
  OBVIOUS
<1> PICK x : x = IF PaidBase = 0 THEN 0 ELSE Rounded((Scale * a) * Accrued, PaidBase)
  OBVIOUS
<1> PICK d, b : d = BaseOfOne(percent) /\ b = Scale * a
  OBVIOUS
<1> PICK m, t : m = b * Accrued /\ t = Available(x, Accrued, PaidBase)
  OBVIOUS
<1>1. a \in Nat /\ b \in Nat /\ d \in Nat /\ d > 0
  <2>1. a \in Nat
    BY DEF Inv, TypeOK, Request
  <2>2. percent \in Percents \ {0}
    OBVIOUS
  <2>3. QED
    BY <2>1, <2>2, OneCent
<1>2. Accrued \in Nat /\ PaidBase \in Nat /\ n \in Nat
  BY CausedRows
<1>3. Nearest(y, b, d)
  <2>1. percent \in Percents \ {0}
    OBVIOUS
  <2>2. Nearest(y, Scale * a, d)
    BY <1>1, <2>1, AccrualBounds, Zenon
  <2>3. QED
    BY <2>2
<1>4. CausedBy(Accrued, PaidBase, d, n)
  BY SpreadBounds, Zenon
<1>5. x \in Nat /\ (PaidBase > 0 => Nearest(x, m, PaidBase))
  <2>1. CASE PaidBase = 0
    BY <2>1
  <2>2. CASE PaidBase > 0
    <3>1. m \in Nat
      BY <1>1, <1>2
    <3>2. x = Rounded(m, PaidBase)
      BY <2>2
    <3>3. Nearest(x, m, PaidBase)
      BY <1>2, <2>2, <3>1, <3>2, RoundedBounds
    <3>4. QED
      BY <3>3 DEF Nearest
  <2>3. QED
    BY <1>2, <2>1, <2>2
<1>6. ToReverse(a) = t
  BY <1>2 DEF ToReverse, Available
<1>7. ReversedSoFar \in Nat /\ ReversedSoFar' = ReversedSoFar + ToReverse(a) /\ ToReverse(a) \in Nat
  BY <1>1, ReversedByReturn, PiecesAddUp
<1>8. 2 * (t - Smaller(y, Accrued)) \in -(n + 1) .. n + 1
  BY <1>1, <1>2, <1>3, <1>4, <1>5, Close, Zenon
<1>9. ReversedSoFar' - ReversedSoFar - Smaller(y, Accrued) = t - Smaller(y, Accrued)
  BY <1>2, <1>3, <1>6, <1>7 DEF Smaller, Nearest
<1>10. QED
  BY <1>8, <1>9

\* With one percentage in force, however many commissions the payments caused and
\* whatever earlier credit notes took, a credit note reverses what the same money
\* would have caused, or all that is left, but for half a cent of each row and of
\* its own (reverseForInvoice).
THEOREM ReversalsMatch == Spec => ReversalMatchesAccrual
<1> DEFINE Matches ==
      \A h \in Handlers, percent \in Percents \ {0} :
         Percents \ {0} = {percent} /\ req[h].op = "return" /\ req'[h] # req[h]
           /\ credit' # credit =>
         LET due == Smaller(Accrual(req[h].amount, percent), Accrued)
             off == 2 * (ReversedSoFar' - ReversedSoFar - due)
         IN  off \in -(Cardinality(Caused) + 1) .. Cardinality(Caused) + 1
<1>1. Inv /\ RatedInv /\ [Next]_vars => [Matches]_vars
  <2> SUFFICES ASSUME Inv, RatedInv, Next,
                      NEW h \in Handlers, NEW percent \in Percents \ {0},
                      Percents \ {0} = {percent}, req'[h] # req[h], credit' # credit,
                      NEW y, y = Accrual(req[h].amount, percent)
               PROVE  2 * (ReversedSoFar' - ReversedSoFar - Smaller(y, Accrued))
                        \in -(Cardinality(Caused) + 1) .. Cardinality(Caused) + 1
    BY DEF vars
  <2>1. PICK g \in Handlers : CommitReturn(g)
    BY DEF Next, Quiet, Rollback, vars, Arrive, BeginLiquidate, BeginPayment, BeginReturn,
           BeginStatus, Begin, Serve, CommitPayment, HoldInvoice, CommitStatus,
           HoldCommission, CommitLiquidate, RefuseLiquidate
  <2>2. g = h
    BY <2>1 DEF CommitReturn, Finish, Inv, TypeOK
  <2>3. QED
    BY <2>1, <2>2, ReturnMatches
<1>2. QED
  BY <1>1, Invariant, RatesHold, PTL DEF Spec, ReversalMatchesAccrual
=============================================================================
