--------------------------- MODULE QuantityProofs ---------------------------
(* Facts about the sums of module Quantity, by counting units. *)
EXTENDS Quantity, Integers, Functions, FiniteSetTheorems, TLAPS

\* What is in Units(q): every x with q[x] numbered units.
LEMMA InUnits ==
  ASSUME NEW D, NEW q \in [D -> Nat], NEW z
  PROVE  z \in Units(q) <=>
           \E x \in D, i \in Nat : i \in 1 .. q[x] /\ z = <<x, i>>
<1>1. DOMAIN q = D OBVIOUS
<1>2. ASSUME z \in Units(q)
      PROVE  \E x \in D, i \in Nat : i \in 1 .. q[x] /\ z = <<x, i>>
  <2>1. PICK x \in D : z \in {x} \X (1 .. q[x]) BY <1>1, <1>2 DEF Units
  <2>2. QED BY <2>1
<1>3. ASSUME NEW x \in D, NEW i \in Nat, i \in 1 .. q[x],
             z = <<x, i>>
      PROVE  z \in Units(q)
  <2>1. z \in {x} \X (1 .. q[x]) BY <1>3
  <2>2. QED BY <1>1, <2>1 DEF Units
<1>4. QED BY <1>2, <1>3

\* The units of finitely many natural quantities are finitely many.
LEMMA UnitsFinite ==
  ASSUME NEW D, IsFiniteSet(D), NEW q \in [D -> Nat]
  PROVE  IsFiniteSet(Units(q))
<1> DEFINE piece == [x \in D |-> {x} \X (1 .. q[x])]
           pieces == {{x} \X (1 .. q[x]) : x \in D}
<1>1. piece \in Surjection(D, pieces) BY DEF Surjection
<1>2. IsFiniteSet(pieces) BY <1>1, FS_Surjection
<1>3. ASSUME NEW x \in D PROVE IsFiniteSet({x} \X (1 .. q[x]))
  <2>1. q[x] \in Nat OBVIOUS
  <2>2. IsFiniteSet(1 .. q[x]) BY <2>1, FS_Interval
  <2>3. IsFiniteSet({x}) BY FS_Singleton
  <2>4. QED BY <2>2, <2>3, FS_Product
<1>4. \A T \in pieces : IsFiniteSet(T) BY <1>3
<1>5. IsFiniteSet(UNION pieces) BY <1>2, <1>4, FS_UNION
<1>6. Units(q) = UNION pieces BY DEF Units
<1>7. QED BY <1>5, <1>6

\* A sum of natural numbers is a natural number.
LEMMA TotalType ==
  ASSUME NEW D, IsFiniteSet(D), NEW q \in [D -> Nat]
  PROVE  Total(q) \in Nat
BY UnitsFinite, FS_CardinalityType DEF Total

\* The sum of a pointwise sum.
LEMMA TotalAdd ==
  ASSUME NEW D, IsFiniteSet(D), NEW p \in [D -> Nat], NEW q \in [D -> Nat],
         NEW h \in [D -> Nat], \A x \in D : h[x] = p[x] + q[x]
  PROVE  Total(h) = Total(p) + Total(q)
<1> DEFINE upper == Units(h) \ Units(p)
           f == [z \in Units(q) |-> <<z[1], z[2] + p[z[1]]>>]
<1>1. IsFiniteSet(Units(p)) /\ IsFiniteSet(Units(q)) /\ IsFiniteSet(Units(h))
  BY UnitsFinite
<1>2. Units(p) \subseteq Units(h)
  <2>1. SUFFICES ASSUME NEW z \in Units(p) PROVE z \in Units(h) OBVIOUS
  <2>2. PICK x \in D, i \in Nat : i \in 1 .. p[x] /\ z = <<x, i>> BY InUnits
  <2>3. i \in 1 .. h[x] BY <2>2
  <2>4. QED BY <2>2, <2>3, InUnits
<1>3. ASSUME NEW x \in D, NEW i \in 1 .. q[x]
      PROVE  /\ <<x, i>> \in Units(q) /\ f[<<x, i>>] = <<x, i + p[x]>>
             /\ <<x, i + p[x]>> \in upper
  <2>1. <<x, i>> \in Units(q) BY InUnits
  <2>2. i + p[x] \in 1 .. h[x] BY p[x] \in Nat, q[x] \in Nat
  <2>3. <<x, i + p[x]>> \in Units(h) BY <2>2, InUnits
  <2>4. <<x, i + p[x]>> \notin Units(p)
    <3>1. SUFFICES ASSUME <<x, i + p[x]>> \in Units(p) PROVE FALSE OBVIOUS
    <3>2. PICK y \in D, j \in Nat :
            j \in 1 .. p[y] /\ <<x, i + p[x]>> = <<y, j>>
      BY <3>1, InUnits
    <3>3. i + p[x] \in 1 .. p[x] BY <3>2
    <3>4. QED BY <3>3, p[x] \in Nat, q[x] \in Nat
  <2>5. QED BY <2>1, <2>3, <2>4
<1>4. f \in [Units(q) -> upper]
  <2>1. SUFFICES ASSUME NEW z \in Units(q) PROVE f[z] \in upper OBVIOUS
  <2>2. PICK x \in D, i \in Nat : i \in 1 .. q[x] /\ z = <<x, i>> BY InUnits
  <2>3. QED BY <2>2, <1>3
<1>5. ASSUME NEW z \in upper PROVE \E y \in Units(q) : f[y] = z
  <2>1. PICK x \in D, i \in Nat : i \in 1 .. h[x] /\ z = <<x, i>> BY InUnits
  <2>2. p[x] \in Nat /\ q[x] \in Nat /\ h[x] = p[x] + q[x] OBVIOUS
  <2>3. i \notin 1 .. p[x]
    <3>1. SUFFICES ASSUME i \in 1 .. p[x] PROVE FALSE OBVIOUS
    <3>2. z \in Units(p) BY <2>1, <3>1, InUnits
    <3>3. QED BY <3>2
  <2> DEFINE j == i - p[x]
  <2>4. j \in Nat /\ j \in 1 .. q[x] /\ j + p[x] = i BY <2>1, <2>2, <2>3
  <2> HIDE DEF j
  <2>5. <<x, j>> \in Units(q) /\ f[<<x, j>>] = <<x, j + p[x]>>
    BY <1>3, <2>4
  <2>6. QED BY <2>1, <2>4, <2>5
<1>6. ASSUME NEW y \in Units(q), NEW z \in Units(q), f[y] = f[z]
      PROVE  y = z
  <2>1. PICK x \in D, i \in Nat : i \in 1 .. q[x] /\ y = <<x, i>> BY InUnits
  <2>2. PICK v \in D, j \in Nat : j \in 1 .. q[v] /\ z = <<v, j>> BY InUnits
  <2>3. <<x, i + p[x]>> = <<v, j + p[v]>> BY <1>3, <1>6, <2>1, <2>2
  <2>4. x = v /\ i + p[x] = j + p[x] BY <2>3
  <2>5. i = j BY <2>4, p[x] \in Nat
  <2>6. QED BY <2>1, <2>2, <2>4, <2>5
<1>7. f \in Bijection(Units(q), upper)
  <2> HIDE DEF f, upper
  <2>1. f \in Surjection(Units(q), upper)
    BY <1>4, <1>5 DEF Surjection
  <2>2. f \in Injection(Units(q), upper)
    BY <1>4, <1>6 DEF Injection, IsInjective
  <2>3. QED BY <2>1, <2>2 DEF Bijection
<1>8. IsFiniteSet(upper) /\ Cardinality(upper) = Cardinality(Units(q))
  BY <1>1, <1>7, FS_Bijection DEF ExistsBijection
<1>9. Cardinality(Units(p) \cup upper)
        = Cardinality(Units(p)) + Cardinality(upper)
            - Cardinality(Units(p) \cap upper)
  BY <1>1, <1>8, FS_Union
<1>10. Units(p) \cap upper = {} /\ Units(p) \cup upper = Units(h) BY <1>2
<1>11. Cardinality(Units(p) \cap upper) = 0 BY <1>10, FS_EmptySet
<1>12. Cardinality(Units(p)) \in Nat /\ Cardinality(Units(q)) \in Nat
  BY <1>1, FS_CardinalityType
<1> HIDE DEF upper
<1>13. Cardinality(Units(h))
         = Cardinality(Units(p)) + Cardinality(Units(q)) - 0
  BY <1>8, <1>9, <1>10, <1>11
<1>14. Cardinality(Units(h)) = Cardinality(Units(p)) + Cardinality(Units(q))
  BY <1>12, <1>13
<1>15. QED BY <1>14 DEF Total

\* The sum of nothing.
LEMMA TotalZero ==
  ASSUME NEW D, NEW q \in [D -> Nat], \A x \in D : q[x] = 0
  PROVE  Total(q) = 0
<1>1. ASSUME NEW z PROVE z \notin Units(q)
  <2>1. \A x \in D, i \in Nat : i \notin 1 .. q[x] OBVIOUS
  <2>2. QED BY <2>1, InUnits
<1>2. Units(q) = {} BY <1>1
<1>3. QED BY <1>2, FS_EmptySet DEF Total

\* The sum of a single quantity.
LEMMA TotalSingle ==
  ASSUME NEW D, NEW q \in [D -> Nat], NEW a \in D,
         \A x \in D : x # a => q[x] = 0
  PROVE  Total(q) = q[a]
<1>1. ASSUME NEW z PROVE z \in Units(q) <=> z \in {a} \X (1 .. q[a])
  <2>1. ASSUME z \in Units(q) PROVE z \in {a} \X (1 .. q[a])
    <3>1. PICK x \in D, i \in Nat : i \in 1 .. q[x] /\ z = <<x, i>>
      BY <2>1, InUnits
    <3>2. x = a BY <3>1
    <3>3. QED BY <3>1, <3>2
  <2>2. ASSUME z \in {a} \X (1 .. q[a]) PROVE z \in Units(q)
    <3>1. PICK i \in 1 .. q[a] : z = <<a, i>> BY <2>2
    <3>2. i \in Nat BY <3>1
    <3>3. QED BY <3>1, <3>2, InUnits
  <2>3. QED BY <2>1, <2>2
<1>2. Units(q) = {a} \X (1 .. q[a])
  <2> DEFINE S == {a} \X (1 .. q[a])
  <2>1. \A z : z \in Units(q) <=> z \in S BY <1>1
  <2> HIDE DEF S
  <2>2. Units(q) = S BY <2>1
  <2>3. QED BY <2>2 DEF S
<1>3. q[a] \in Nat OBVIOUS
<1>4. IsFiniteSet(1 .. q[a]) /\ Cardinality(1 .. q[a]) = q[a]
  BY <1>3, FS_Interval
<1>5. IsFiniteSet({a}) /\ Cardinality({a}) = 1 BY FS_Singleton
<1>6. Cardinality({a} \X (1 .. q[a])) = 1 * q[a]
  <2> DEFINE S == 1 .. q[a]
             R == {a}
  <2>1. IsFiniteSet(R) /\ IsFiniteSet(S) BY <1>4, <1>5
  <2>2. Cardinality(R) = 1 /\ Cardinality(S) = q[a] BY <1>4, <1>5
  <2> HIDE DEF R, S
  <2>3. Cardinality(R \X S) = Cardinality(R) * Cardinality(S)
    BY <2>1, FS_Product
  <2>4. Cardinality(R \X S) = 1 * q[a] BY <2>2, <2>3
  <2>5. QED BY <2>4 DEF R, S
<1>7. QED BY <1>2, <1>3, <1>6 DEF Total

\* A sum in which one quantity changes.
LEMMA TotalChange ==
  ASSUME NEW D, IsFiniteSet(D), NEW p \in [D -> Nat], NEW q \in [D -> Nat],
         NEW a \in D, \A x \in D : x # a => q[x] = p[x]
  PROVE  /\ Total(q) + p[a] = Total(p) + q[a]
         /\ p[a] <= Total(p)
<1> DEFINE rest == [x \in D |-> IF x = a THEN 0 ELSE p[x]]
           one == [x \in D |-> IF x = a THEN p[a] ELSE 0]
           two == [x \in D |-> IF x = a THEN q[a] ELSE 0]
<1>1. /\ rest \in [D -> Nat] /\ one \in [D -> Nat] /\ two \in [D -> Nat]
      /\ \A x \in D : x # a => one[x] = 0
      /\ \A x \in D : x # a => two[x] = 0
      /\ \A x \in D : p[x] = rest[x] + one[x]
      /\ \A x \in D : q[x] = rest[x] + two[x]
      /\ one[a] = p[a] /\ two[a] = q[a]
  OBVIOUS
<1> HIDE DEF rest, one, two
<1>2. Total(one) = p[a] /\ Total(two) = q[a] BY <1>1, TotalSingle
<1>3. Total(p) = Total(rest) + Total(one)
  <2>1. \A x \in D : p[x] = rest[x] + one[x] BY <1>1
  <2>2. rest \in [D -> Nat] /\ one \in [D -> Nat] BY <1>1
  <2>3. QED BY <2>1, <2>2, TotalAdd
<1>4. Total(q) = Total(rest) + Total(two)
  <2>1. \A x \in D : q[x] = rest[x] + two[x] BY <1>1
  <2>2. rest \in [D -> Nat] /\ two \in [D -> Nat] BY <1>1
  <2>3. QED BY <2>1, <2>2, TotalAdd
<1>5. Total(rest) \in Nat BY <1>1, TotalType
<1>6. p[a] \in Nat /\ q[a] \in Nat OBVIOUS
<1>7. QED BY <1>2, <1>3, <1>4, <1>5, <1>6

\* What is zero outside of a smaller domain need not be counted there.
LEMMA TotalWithin ==
  ASSUME NEW D, NEW E \in SUBSET D, NEW p \in [D -> Nat],
         NEW q \in [E -> Nat], \A x \in E : q[x] = p[x],
         \A x \in D \ E : p[x] = 0
  PROVE  Total(p) = Total(q)
<1>1. ASSUME NEW z PROVE z \in Units(p) <=> z \in Units(q)
  <2>1. ASSUME z \in Units(p) PROVE z \in Units(q)
    <3>1. PICK x \in D, i \in Nat : i \in 1 .. p[x] /\ z = <<x, i>>
      BY <2>1, InUnits
    <3>2. x \in E BY <3>1
    <3>3. QED BY <3>1, <3>2, InUnits
  <2>2. ASSUME z \in Units(q) PROVE z \in Units(p)
    <3>1. PICK x \in E, i \in Nat : i \in 1 .. q[x] /\ z = <<x, i>>
      BY <2>2, InUnits
    <3>2. QED BY <3>1, InUnits
  <2>3. QED BY <2>1, <2>2
<1>2. Units(p) = Units(q) BY <1>1
<1>3. QED BY <1>2 DEF Total

\* A sum over pairs, row by row: the units of a row are numbered, and the
\* numbers of all rows match the units of the pairs one to one.
LEMMA TotalOfTotals ==
  ASSUME NEW D, IsFiniteSet(D), NEW E, IsFiniteSet(E),
         NEW P, P = D \X E, NEW t \in [P -> Nat], NEW h \in [D -> Nat],
         \A x \in D : h[x] = Total(Row(t, x, E))
  PROVE  Total(h) = Total(t)
<1> DEFINE row(x) == Row(t, x, E)
           nth == [x \in D |-> CHOOSE g : g \in Bijection(1 .. h[x],
                                                      Units(row(x)))]
           f == [z \in Units(h) |->
                   <<<<z[1], nth[z[1]][z[2]][1]>>, nth[z[1]][z[2]][2]>>]
<1>1. ASSUME NEW x \in D PROVE row(x) \in [E -> Nat]
  <2>1. \A y \in E : <<x, y>> \in P OBVIOUS
  <2>2. QED BY <2>1 DEF Row
<1>2. ASSUME NEW x \in D
      PROVE  nth[x] \in Bijection(1 .. h[x], Units(row(x)))
  <2>1. IsFiniteSet(Units(row(x))) BY <1>1, UnitsFinite
  <2>2. h[x] = Cardinality(Units(row(x))) BY DEF Total
  <2> HIDE DEF row
  <2>3. Bijection(1 .. h[x], Units(row(x))) # {}
    BY <2>1, <2>2, FS_CardinalityType DEF ExistsBijection
  <2>4. QED BY <2>3
<1>3. ASSUME NEW x \in D
      PROVE  /\ \A i \in 1 .. h[x] : nth[x][i] \in Units(row(x))
             /\ \A i, j \in 1 .. h[x] : nth[x][i] = nth[x][j] => i = j
             /\ \A w \in Units(row(x)) : \E i \in 1 .. h[x] : nth[x][i] = w
  <2> DEFINE g == nth[x]
  <2>1. g \in Bijection(1 .. h[x], Units(row(x))) BY <1>2
  <2> HIDE DEF g, row
  <2>2. QED
    BY <2>1 DEF g, Bijection, Injection, Surjection, IsInjective
<1> HIDE DEF nth
<1>4. ASSUME NEW x \in D, NEW i \in Nat, i \in 1 .. h[x]
      PROVE  \E y \in E, k \in Nat :
               /\ nth[x][i] = <<y, k>> /\ k \in 1 .. t[<<x, y>>]
               /\ <<x, i>> \in Units(h)
               /\ f[<<x, i>>] = <<<<x, y>>, k>>
  <2>1. nth[x][i] \in Units(row(x)) BY <1>3, <1>4
  <2>2. PICK y \in E, k \in Nat : k \in 1 .. row(x)[y] /\ nth[x][i] = <<y, k>>
    <3> DEFINE r == row(x)
               w == nth[x][i]
    <3>1. r \in [E -> Nat] /\ w \in Units(r) BY <1>1, <2>1
    <3> HIDE DEF r, w
    <3>2. \E y \in E, k \in Nat : k \in 1 .. r[y] /\ w = <<y, k>>
      BY <3>1, InUnits
    <3>3. QED BY <3>2 DEF r, w
  <2>3. <<x, i>> \in Units(h) BY <1>4, InUnits
  <2>4. f[<<x, i>>] = <<<<x, y>>, k>> BY <2>2, <2>3
  <2>5. k \in 1 .. t[<<x, y>>] BY <2>2 DEF Row
  <2>6. QED BY <2>2, <2>3, <2>4, <2>5
<1> HIDE DEF f
<1>5. ASSUME NEW x \in D, NEW y \in E, NEW k \in Nat, k \in 1 .. t[<<x, y>>]
      PROVE  \E i \in Nat : i \in 1 .. h[x] /\ nth[x][i] = <<y, k>>
  <2>1. k \in 1 .. row(x)[y] BY <1>5 DEF Row
  <2>2. <<y, k>> \in Units(row(x)) BY <1>1, <2>1, InUnits
  <2>3. PICK i \in 1 .. h[x] : nth[x][i] = <<y, k>> BY <1>3, <2>2
  <2>4. h[x] \in Nat OBVIOUS
  <2>5. QED BY <2>3, <2>4
<1>6. \A z \in Units(h) : f[z] \in Units(t)
  <2>1. SUFFICES ASSUME NEW z \in Units(h) PROVE f[z] \in Units(t) OBVIOUS
  <2>2. PICK x \in D, i \in Nat : i \in 1 .. h[x] /\ z = <<x, i>> BY InUnits
  <2>3. PICK y \in E, k \in Nat :
          k \in 1 .. t[<<x, y>>] /\ f[z] = <<<<x, y>>, k>>
    BY <1>4, <2>2
  <2>4. <<x, y>> \in P OBVIOUS
  <2>5. QED BY <2>3, <2>4, InUnits
<1>7. \A w \in Units(t) : \E z \in Units(h) : f[z] = w
  <2>1. SUFFICES ASSUME NEW w \in Units(t)
                 PROVE  \E z \in Units(h) : f[z] = w
    OBVIOUS
  <2>2. PICK d \in P, k \in Nat : k \in 1 .. t[d] /\ w = <<d, k>>
    BY InUnits
  <2>3. PICK x \in D, y \in E : d = <<x, y>> BY <2>2
  <2>4. PICK i \in Nat : i \in 1 .. h[x] /\ nth[x][i] = <<y, k>>
    BY <1>5, <2>2, <2>3
  <2>5. <<x, i>> \in Units(h) /\ f[<<x, i>>] = <<<<x, y>>, k>>
    <3>1. PICK r \in E, m \in Nat :
            /\ nth[x][i] = <<r, m>> /\ <<x, i>> \in Units(h)
            /\ f[<<x, i>>] = <<<<x, r>>, m>>
      BY <1>4, <2>4
    <3>2. r = y /\ m = k BY <2>4, <3>1
    <3>3. QED BY <3>1, <3>2
  <2>6. QED BY <2>2, <2>3, <2>5
<1>8. \A z, v \in Units(h) : f[z] = f[v] => z = v
  <2>1. SUFFICES ASSUME NEW z \in Units(h), NEW v \in Units(h), f[z] = f[v]
                 PROVE  z = v
    OBVIOUS
  <2>2. PICK x \in D, i \in Nat : i \in 1 .. h[x] /\ z = <<x, i>> BY InUnits
  <2>3. PICK u \in D, j \in Nat : j \in 1 .. h[u] /\ v = <<u, j>> BY InUnits
  <2>4. PICK y \in E, k \in Nat :
          nth[x][i] = <<y, k>> /\ f[z] = <<<<x, y>>, k>>
    BY <1>4, <2>2
  <2>5. PICK q \in E, m \in Nat :
          nth[u][j] = <<q, m>> /\ f[v] = <<<<u, q>>, m>>
    BY <1>4, <2>3
  <2>6. x = u /\ y = q /\ k = m
    <3>1. <<<<x, y>>, k>> = <<<<u, q>>, m>> BY <2>1, <2>4, <2>5
    <3>2. <<x, y>> = <<u, q>> /\ k = m BY <3>1
    <3>3. QED BY <3>2
  <2>7. nth[x][i] = nth[x][j] BY <2>4, <2>5, <2>6
  <2>8. i = j BY <1>3, <2>2, <2>3, <2>6, <2>7
  <2>9. QED BY <2>2, <2>3, <2>6, <2>8
<1>9. f \in Bijection(Units(h), Units(t))
  <2>1. f \in [Units(h) -> Units(t)] BY <1>6 DEF f
  <2>2. f \in Surjection(Units(h), Units(t))
    BY <2>1, <1>7 DEF Surjection
  <2>3. f \in Injection(Units(h), Units(t))
    BY <2>1, <1>8 DEF Injection, IsInjective
  <2>4. QED BY <2>2, <2>3 DEF Bijection
<1>10. IsFiniteSet(Units(h)) BY UnitsFinite
<1>11. QED BY <1>9, <1>10, FS_Bijection DEF ExistsBijection, Total
=============================================================================
