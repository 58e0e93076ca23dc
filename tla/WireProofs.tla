----------------------------- MODULE WireProofs -----------------------------
(***************************************************************************)
(* Theorems about Wire, proved for any keys, prices, quotes, amounts and   *)
(* slots. What the layouts of Layouts, SdkCodecs and Handlers come to in   *)
(* bytes is worked out first (Tables); then what an account of each type   *)
(* holds (Accounts), what every handler makes of whole accounts            *)
(* (Handlers), what the SDK hands the handlers (Calls), and last what      *)
(* follows for runs.                                                       *)
(***************************************************************************)
EXTENDS Wire, TLAPS, WellFoundedInduction

----------------------------------------------------------------------------
(* Tables. *)

(* A set of natural numbers that is not empty has a least element.         *)
LEMMA LeastNat ==
    ASSUME NEW T \in SUBSET Nat, T # {}
    PROVE  \E x \in T : \A y \in T : x <= y
  <1> DEFINE Below == OpToRel(<, Nat)
  <1>1. IsWellFoundedOn(Below, Nat)  BY NatLessThanWellFounded, Zenon
  <1>2. \A x, y \in Nat : x < y => <<x, y>> \in Below  BY Zenon DEF OpToRel
  <1> HIDE DEF Below
  <1>3. PICK x \in T : \A y \in T : ~ (<<y, x>> \in Below)  BY WFMin, <1>1
  <1>4. ASSUME NEW y \in T PROVE x <= y
    <2>1. x \in Nat /\ y \in Nat  OBVIOUS
    <2>2. ~ (y < x)  BY <1>2, <1>3, <2>1, Zenon
    <2> QED  BY <2>1, <2>2
  <1> QED  BY <1>4

(* Where the fields of a layout end.                                       *)
IsEnds(fields, e) ==
    /\ e \in [0 .. Len(fields) -> Nat]
    /\ e[0] = 0
    /\ \A i \in 1 .. Len(fields) : e[i] = e[i - 1] + fields[i][2]

(* Fields of some width, each under a name of its own.                     *)
IsLayout(fields) ==
    /\ fields \in Seq(Range(fields))
    /\ \A i \in DOMAIN fields : fields[i][2] \in Nat \ {0}
    /\ \A i, j \in DOMAIN fields : fields[i][1] = fields[j][1] => i = j

(* Its length and widths are numbers.                                      *)
LEMMA LayoutIs ==
    ASSUME NEW fields, IsLayout(fields)
    PROVE  /\ Len(fields) \in Nat /\ DOMAIN fields = 1 .. Len(fields)
           /\ \A i \in 1 .. Len(fields) : fields[i][2] \in Nat \ {0}
  BY DEF IsLayout

(* There is one such function ... *)
LEMMA EndsExist ==
    ASSUME NEW fields, IsLayout(fields)
    PROVE  \E e : IsEnds(fields, e)
  <1> DEFINE n == Len(fields)
             Ends(m, e) == /\ e \in [0 .. m -> Nat] /\ e[0] = 0
                           /\ \A i \in 1 .. m : e[i] = e[i - 1] + fields[i][2]
             Bad == {m \in 0 .. n : ~ \E e : Ends(m, e)}
  <1>1. n \in Nat /\ \A i \in 1 .. n : fields[i][2] \in Nat  BY LayoutIs
  <1>2. SUFFICES ASSUME Bad # {} PROVE FALSE
    <2>1. n \in 0 .. n  BY <1>1
    <2>2. \E e : Ends(n, e)  BY <1>2, <2>1
    <2> QED  BY <2>2 DEF IsEnds
  <1>3. PICK m \in Bad : \A k \in Bad : m <= k
    <2>1. Bad \in SUBSET Nat  BY <1>1
    <2> HIDE DEF Bad
    <2> QED  BY <1>2, <2>1, LeastNat
  <1>4. CASE m = 0
    <2>1. Ends(0, [i \in 0 .. 0 |-> 0])  OBVIOUS
    <2> QED  BY <1>4, <2>1
  <1>5. CASE m # 0
    <2>0. m \in 0 .. n  BY <1>3
    <2>1. m - 1 \in 0 .. n /\ m \in 1 .. n /\ m - 1 \notin Bad
      <3> HIDE DEF Bad
      <3> QED  BY <1>1, <1>3, <1>5, <2>0
    <2>2. PICK e : Ends(m - 1, e)  BY <2>1
    <2> DEFINE f == [i \in 0 .. m |-> IF i = m THEN e[m - 1] + fields[m][2] ELSE e[i]]
    <2>3. e[m - 1] \in Nat /\ fields[m][2] \in Nat  BY <1>1, <2>1, <2>2
    <2>4. f \in [0 .. m -> Nat]
      <3>1. ASSUME NEW i \in 0 .. m, i # m PROVE e[i] \in Nat
        <4>1. i \in 0 .. m - 1  BY <1>1, <2>0, <3>1
        <4> QED  BY <2>2, <4>1
      <3>2. e[m - 1] + fields[m][2] \in Nat  BY <2>3
      <3> QED  BY <3>1, <3>2
    <2>5. f[0] = 0  BY <1>5, <2>1, <2>2
    <2>6. \A i \in 1 .. m : f[i] = f[i - 1] + fields[i][2]
      <3> TAKE i \in 1 .. m
      <3>1. CASE i = m  BY <2>1, <3>1
      <3>2. CASE i # m
        <4>1. i \in 1 .. m - 1 /\ i - 1 \in 0 .. m - 1  BY <2>1, <3>2
        <4> QED  BY <2>1, <2>2, <4>1
      <3> QED  BY <3>1, <3>2
    <2>7. Ends(m, f)  BY <2>4, <2>5, <2>6
    <2> QED  BY <1>3, <2>7
  <1> QED  BY <1>4, <1>5

(* ... and no other. *)
LEMMA EndsUnique ==
    ASSUME NEW fields, IsLayout(fields), NEW e, IsEnds(fields, e),
           NEW f, f = [i \in 0 .. Len(fields) |->
                        IF i = 0 THEN 0 ELSE f[i - 1] + fields[i][2]]
    PROVE  e = f
  <1> DEFINE n == Len(fields)
             Bad == {i \in 0 .. n : e[i] # f[i]}
  <1>1. n \in Nat /\ \A i \in 1 .. n : fields[i][2] \in Nat  BY LayoutIs
  <1>2. SUFFICES ASSUME Bad # {} PROVE FALSE
    <2>1. ASSUME Bad = {} PROVE e = f
      <3>1. \A i \in 0 .. n : e[i] = f[i]  BY <2>1
      <3>2. e = [i \in 0 .. n |-> e[i]]  BY DEF IsEnds
      <3>3. f = [i \in 0 .. n |-> f[i]]  OBVIOUS
      <3> QED  BY <3>1, <3>2, <3>3, Zenon
    <2> QED  BY <1>2, <2>1
  <1>3. PICK m \in Bad : \A k \in Bad : m <= k
    <2>1. Bad \in SUBSET Nat  BY <1>1
    <2> HIDE DEF Bad
    <2> QED  BY <1>2, <2>1, LeastNat
  <1>4. m # 0  BY <1>3 DEF IsEnds
  <1>5. m \in 1 .. n /\ m - 1 \in 0 .. n /\ m - 1 \notin Bad
    <2>1. m \in 0 .. n  BY <1>3
    <2> HIDE DEF Bad
    <2> QED  BY <1>1, <1>3, <1>4, <2>1
  <1>6. e[m - 1] = f[m - 1]  BY <1>5
  <1>7. e[m] = e[m - 1] + fields[m][2]  BY <1>5 DEF IsEnds
  <1>8. f[m] = f[m - 1] + fields[m][2]  BY <1>4, <1>5
  <1> QED  BY <1>3, <1>6, <1>7, <1>8

(* Table puts every field where the one before it ends.                    *)
LEMMA TableFacts ==
    ASSUME NEW fields, IsLayout(fields), NEW e, IsEnds(fields, e)
    PROVE  /\ DOMAIN Table(fields) = {fields[i][1] : i \in DOMAIN fields}
           /\ \A i \in DOMAIN fields :
                Table(fields)[fields[i][1]] = <<e[i - 1], fields[i][2]>>
  <1> DEFINE end[i \in 0 .. Len(fields)] ==
                IF i = 0 THEN 0 ELSE end[i - 1] + fields[i][2]
             at(f) == CHOOSE i \in DOMAIN fields : fields[i][1] = f
             n == Len(fields)
  <1>1. n \in Nat /\ DOMAIN fields = 1 .. n  BY LayoutIs
  <1>2. end = e
    <2>1. e = [i \in 0 .. n |-> IF i = 0 THEN 0 ELSE e[i - 1] + fields[i][2]]
      <3>1. \A i \in 0 .. n : e[i] = IF i = 0 THEN 0 ELSE e[i - 1] + fields[i][2]
        BY <1>1 DEF IsEnds
      <3> QED  BY <3>1 DEF IsEnds
    <2>2. end = [i \in 0 .. n |-> IF i = 0 THEN 0 ELSE end[i - 1] + fields[i][2]]
      BY <2>1
    <2> HIDE DEF end
    <2> QED  BY <2>2, EndsUnique
  <1>3. Table(fields) = [f \in {fields[i][1] : i \in DOMAIN fields} |->
                            <<end[at(f) - 1], fields[at(f)][2]>>]
    BY DEF Table
  <1> HIDE DEF end
  <1>4. \A i \in DOMAIN fields : at(fields[i][1]) = i  BY DEF IsLayout
  <1> HIDE DEF at
  <1>5. DOMAIN Table(fields) = {fields[i][1] : i \in DOMAIN fields}  BY <1>3
  <1>6. ASSUME NEW i \in DOMAIN fields
        PROVE  Table(fields)[fields[i][1]] = <<e[i - 1], fields[i][2]>>
    <2> DEFINE f == fields[i][1]
    <2>1. f \in {fields[j][1] : j \in DOMAIN fields} /\ at(f) = i  BY <1>4
    <2> HIDE DEF f
    <2>2. Table(fields)[f] = <<end[at(f) - 1], fields[at(f)][2]>>  BY <1>3, <2>1
    <2> QED  BY <1>2, <2>1, <2>2 DEF f
  <1> QED  BY <1>5, <1>6

(* The same with the fields counted.                                       *)
LEMMA TableUpTo ==
    ASSUME NEW fields, IsLayout(fields), NEW e, IsEnds(fields, e),
           NEW n, DOMAIN fields = 1 .. n
    PROVE  /\ DOMAIN Table(fields) = {fields[i][1] : i \in 1 .. n}
           /\ \A i \in 1 .. n :
                Table(fields)[fields[i][1]] = <<e[i - 1], fields[i][2]>>
  <1>1. /\ DOMAIN Table(fields) = {fields[i][1] : i \in DOMAIN fields}
        /\ \A i \in DOMAIN fields :
             Table(fields)[fields[i][1]] = <<e[i - 1], fields[i][2]>>
    BY TableFacts, Zenon
  <1> QED  BY <1>1, Zenon

(* The table entry of one field.                                           *)
LEMMA FieldIs ==
    ASSUME NEW fields, IsLayout(fields), NEW e, IsEnds(fields, e),
           NEW i \in DOMAIN fields, NEW name, NEW width, fields[i] = <<name, width>>,
           NEW j, j = i - 1
    PROVE  Table(fields)[name] = <<e[j], width>>
  <1>1. Table(fields)[fields[i][1]] = <<e[i - 1], fields[i][2]>>  BY TableFacts
  <1> QED  BY <1>1

(* Later fields end later.                                                 *)
LEMMA EndsMonotone ==
    ASSUME NEW fields, IsLayout(fields), NEW e, IsEnds(fields, e),
           NEW i \in 0 .. Len(fields), NEW j \in i .. Len(fields)
    PROVE  e[i] <= e[j]
  <1> DEFINE n == Len(fields)
             Bad == {k \in i .. n : ~ (e[i] <= e[k])}
  <1>1. n \in Nat /\ \A k \in 1 .. n : fields[k][2] \in Nat  BY LayoutIs
  <1>2. \A k \in 0 .. n : e[k] \in Nat  BY DEF IsEnds
  <1>3. SUFFICES ASSUME Bad # {} PROVE FALSE  OBVIOUS
  <1>4. PICK m \in Bad : \A k \in Bad : m <= k
    <2>1. Bad \in SUBSET Nat  BY <1>1
    <2> HIDE DEF Bad
    <2> QED  BY <1>3, <2>1, LeastNat
  <1>5. m # i  BY <1>2, <1>4
  <1>6. m \in 1 .. n /\ m - 1 \in i .. n /\ m - 1 \in 0 .. n /\ m - 1 \notin Bad
    <2>1. m \in i .. n  BY <1>4
    <2> HIDE DEF Bad
    <2> QED  BY <1>1, <1>4, <1>5, <2>1
  <1>7. e[i] <= e[m - 1]  BY <1>6
  <1>8. e[m] = e[m - 1] + fields[m][2]  BY <1>6 DEF IsEnds
  <1>9. /\ e[i] \in Nat /\ e[m - 1] \in Nat /\ fields[m][2] \in Nat
        /\ ~ (e[i] <= e[m])
    BY <1>1, <1>2, <1>4, <1>6
  <1> QED  BY <1>7, <1>8, <1>9

(* Two places with no byte in common; a table in which no two fields have  *)
(* one.                                                                    *)
Apart(p, q) == p[1] + p[2] <= q[1] \/ q[1] + q[2] <= p[1]

WellLaid(table) ==
    /\ \A f \in DOMAIN table :
        /\ table[f] = <<table[f][1], table[f][2]>>
        /\ table[f][1] \in Nat /\ table[f][2] \in Nat \ {0}
    /\ \A f, g \in DOMAIN table : f # g => Apart(table[f], table[g])

LEMMA TableWellLaid ==
    ASSUME NEW fields, IsLayout(fields)
    PROVE  WellLaid(Table(fields))
  <1> DEFINE t == Table(fields)
             n == Len(fields)
  <1>1. PICK e : IsEnds(fields, e)  BY EndsExist
  <1>2. /\ n \in Nat /\ DOMAIN fields = 1 .. n
        /\ \A i \in 1 .. n : fields[i][2] \in Nat \ {0} /\ e[i - 1] \in Nat
        /\ \A i \in 1 .. n : e[i] = e[i - 1] + fields[i][2]
    BY <1>1, LayoutIs DEF IsEnds
  <1>3. /\ DOMAIN t = {fields[i][1] : i \in 1 .. n}
        /\ \A i \in 1 .. n : t[fields[i][1]] = <<e[i - 1], fields[i][2]>>
    <2>1. DOMAIN fields = 1 .. n  BY <1>2
    <2> HIDE DEF n
    <2> QED  BY <1>1, <2>1, TableUpTo, Zenon
  <1> HIDE DEF t, n
  <1>4. ASSUME NEW f \in DOMAIN t
        PROVE  /\ t[f] = <<t[f][1], t[f][2]>>
               /\ t[f][1] \in Nat /\ t[f][2] \in Nat \ {0}
    <2>1. PICK i \in 1 .. n : f = fields[i][1]  BY <1>3
    <2>2. t[f] = <<e[i - 1], fields[i][2]>>  BY <1>3, <2>1
    <2> QED  BY <1>2, <2>2
  <1>5. ASSUME NEW i \in 1 .. n, NEW j \in 1 .. n, i < j
        PROVE  t[fields[i][1]][1] + t[fields[i][1]][2] <= t[fields[j][1]][1]
    <2>1. i \in 0 .. n /\ j - 1 \in i .. n  BY <1>2, <1>5
    <2>2. e[i] <= e[j - 1]  BY <1>1, <2>1, EndsMonotone DEF n
    <2>3. /\ t[fields[i][1]] = <<e[i - 1], fields[i][2]>>
          /\ t[fields[j][1]] = <<e[j - 1], fields[j][2]>>
      BY <1>3
    <2>4. e[i] = e[i - 1] + fields[i][2]  BY <1>2
    <2> QED  BY <2>2, <2>3, <2>4
  <1>6. ASSUME NEW f \in DOMAIN t, NEW g \in DOMAIN t, f # g PROVE Apart(t[f], t[g])
    <2>1. PICK i \in 1 .. n : f = fields[i][1]  BY <1>3
    <2>2. PICK j \in 1 .. n : g = fields[j][1]  BY <1>3
    <2>3. i < j \/ j < i  BY <1>2, <1>6, <2>1, <2>2
    <2> QED  BY <1>5, <2>1, <2>2, <2>3 DEF Apart
  <1> QED  BY <1>4, <1>6 DEF WellLaid, t

(* The largest of a set of numbers.                                        *)
LEMMA MaxIs ==
    ASSUME NEW T \in SUBSET Nat, NEW m \in T, \A x \in T : x <= m
    PROVE  Max(T) = m
  <1>1. \E x \in T : \A y \in T : x >= y  OBVIOUS
  <1>2. Max(T) \in T /\ \A y \in T : Max(T) >= y  BY <1>1, Zenon DEF Max
  <1>3. Max(T) \in Nat /\ m \in Nat /\ Max(T) >= m /\ Max(T) <= m  BY <1>2
  <1> QED  BY <1>3

(* How many bytes a table takes.                                           *)
Size(table) == Extent(Range(table))

(* A table is as long as its fields together.                              *)
LEMMA TableExtent ==
    ASSUME NEW fields, IsLayout(fields), NEW e, IsEnds(fields, e)
    PROVE  Size(Table(fields)) = e[Len(fields)]
  <1> DEFINE t == Table(fields)
             n == Len(fields)
             T == {p[1] + p[2] : p \in Range(t)} \cup {0}
  <1>1. /\ n \in Nat /\ DOMAIN fields = 1 .. n
        /\ \A i \in 1 .. n : fields[i][2] \in Nat /\ e[i - 1] \in Nat
        /\ \A i \in 1 .. n : e[i] = e[i - 1] + fields[i][2]
        /\ \A i \in 0 .. n : e[i] \in Nat
        /\ e[0] = 0
    <2>1. n \in Nat /\ DOMAIN fields = 1 .. n /\ \A i \in 1 .. n : fields[i][2] \in Nat
      BY LayoutIs
    <2>2. e[0] = 0 /\ \A i \in 0 .. n : e[i] \in Nat  BY DEF IsEnds
    <2>3. \A i \in 1 .. n : e[i] = e[i - 1] + fields[i][2]  BY DEF IsEnds
    <2>4. \A i \in 1 .. n : i - 1 \in 0 .. n  BY <2>1
    <2> QED  BY <2>1, <2>2, <2>3, <2>4
  <1>2. /\ DOMAIN t = {fields[i][1] : i \in 1 .. n}
        /\ \A i \in 1 .. n : t[fields[i][1]] = <<e[i - 1], fields[i][2]>>
    <2>1. DOMAIN fields = 1 .. n  BY <1>1
    <2> QED  BY <2>1, TableUpTo, Zenon
  <1>3. ASSUME NEW i \in 1 .. n PROVE e[i] <= e[n]
    <2>1. i \in 0 .. n /\ n \in i .. n  BY <1>1
    <2> QED  BY <2>1, EndsMonotone
  <1> HIDE DEF t, n
  <1>4. ASSUME NEW x \in T PROVE x = 0 \/ \E i \in 1 .. n : x = e[i]
    <2>1. CASE x # 0
      <3>1. PICK p \in Range(t) : x = p[1] + p[2]  BY <2>1
      <3>2. PICK i \in 1 .. n : p = t[fields[i][1]]  BY <1>2, <3>1 DEF Range
      <3>3. p = <<e[i - 1], fields[i][2]>>  BY <1>2, <3>2
      <3> QED  BY <1>1, <3>1, <3>3
    <2> QED  BY <2>1
  <1>5. e[n] \in T
    <2>1. CASE n = 0  BY <1>1, <2>1
    <2>2. CASE n # 0
      <3>1. n \in 1 .. n  BY <1>1, <2>2
      <3>2. t[fields[n][1]] \in Range(t)  BY <1>2, <3>1 DEF Range
      <3>3. t[fields[n][1]] = <<e[n - 1], fields[n][2]>>  BY <1>2, <3>1
      <3>4. t[fields[n][1]][1] + t[fields[n][1]][2] = e[n]  BY <1>1, <3>1, <3>3
      <3> QED  BY <3>2, <3>4
    <2> QED  BY <2>1, <2>2
  <1> HIDE DEF T
  <1>6. ASSUME NEW x \in T PROVE x \in Nat /\ x <= e[n]
    <2>1. n \in 0 .. n /\ 0 \in 0 .. n /\ e[n] \in Nat  BY <1>1
    <2>2. CASE x = 0  BY <2>1, <2>2
    <2>3. CASE \E i \in 1 .. n : x = e[i]
      <3>1. PICK i \in 1 .. n : x = e[i]  BY <2>3
      <3>2. i \in 0 .. n /\ e[i] <= e[n]  BY <1>1, <1>3
      <3> QED  BY <1>1, <3>1, <3>2
    <2> QED  BY <1>4, <2>2, <2>3
  <1>7. Max(T) = e[n]  BY <1>5, <1>6, MaxIs
  <1> QED  BY <1>7 DEF Size, Extent, T, t, n

(* What one sequence followed by another is.                               *)
LEMMA Followed ==
    ASSUME NEW A, NEW s \in Seq(A), NEW t \in Seq(A)
    PROVE  /\ s \o t \in Seq(A) /\ Len(s \o t) = Len(s) + Len(t)
           /\ \A i \in 1 .. Len(s) : (s \o t)[i] = s[i]
           /\ \A i \in 1 .. Len(t) : (s \o t)[Len(s) + i] = t[i]
  OBVIOUS

(* Fields followed by more fields are a layout, the second part shifted    *)
(* behind the first.                                                       *)
LEMMA Joined ==
    ASSUME NEW s, IsLayout(s), NEW t, IsLayout(t),
           DOMAIN Table(s) \cap DOMAIN Table(t) = {}
    PROVE  /\ IsLayout(s \o t)
           /\ DOMAIN Table(s \o t) = DOMAIN Table(s) \cup DOMAIN Table(t)
           /\ \A f \in DOMAIN Table(s) : Table(s \o t)[f] = Table(s)[f]
           /\ \A f \in DOMAIN Table(t) :
                Table(s \o t)[f] = <<Size(Table(s)) + Table(t)[f][1], Table(t)[f][2]>>
           /\ Size(Table(s \o t)) = Size(Table(s)) + Size(Table(t))
  <1> DEFINE u == s \o t
             m == Len(s)
             n == Len(t)
             A == Range(s) \cup Range(t)
  <1>1. /\ m \in Nat /\ DOMAIN s = 1 .. m
        /\ \A i \in 1 .. m : s[i][2] \in Nat \ {0}
    BY LayoutIs
  <1>2. /\ n \in Nat /\ DOMAIN t = 1 .. n
        /\ \A i \in 1 .. n : t[i][2] \in Nat \ {0}
    BY LayoutIs
  <1>3. s \in Seq(A) /\ t \in Seq(A)  BY DEF IsLayout
  <1>4. /\ u \in Seq(A) /\ Len(u) = m + n
        /\ \A i \in 1 .. m : u[i] = s[i]
        /\ \A i \in 1 .. n : u[m + i] = t[i]
    <2> HIDE DEF A
    <2> QED  BY <1>3, Followed
  <1>5. PICK d : IsEnds(s, d)  BY EndsExist
  <1>6. PICK e : IsEnds(t, e)  BY EndsExist
  <1>7. /\ \A i \in 0 .. m : d[i] \in Nat
        /\ d[0] = 0 /\ \A i \in 1 .. m : d[i] = d[i - 1] + s[i][2]
    BY <1>5 DEF IsEnds
  <1>8. /\ \A i \in 0 .. n : e[i] \in Nat
        /\ e[0] = 0 /\ \A i \in 1 .. n : e[i] = e[i - 1] + t[i][2]
    BY <1>6 DEF IsEnds
  <1>9. /\ DOMAIN Table(s) = {s[i][1] : i \in 1 .. m}
        /\ \A i \in 1 .. m : Table(s)[s[i][1]] = <<d[i - 1], s[i][2]>>
    BY <1>1, <1>5, TableUpTo, Zenon
  <1>10. /\ DOMAIN Table(t) = {t[i][1] : i \in 1 .. n}
         /\ \A i \in 1 .. n : Table(t)[t[i][1]] = <<e[i - 1], t[i][2]>>
    BY <1>2, <1>6, TableUpTo, Zenon
  <1>11. Size(Table(s)) = d[m]  BY <1>5, TableExtent
  <1>12. Size(Table(t)) = e[n]  BY <1>6, TableExtent
  <1> HIDE DEF u, m, n, A
  <1>13. DOMAIN u = 1 .. m + n  BY <1>1, <1>2, <1>4
  <1>14. ASSUME NEW i \in 1 .. m + n
         PROVE  \/ i \in 1 .. m /\ u[i] = s[i]
                \/ i - m \in 1 .. n /\ u[i] = t[i - m] /\ i > m
    <2>1. CASE i <= m
      <3>1. i \in 1 .. m  BY <1>1, <1>2, <2>1
      <3> QED  BY <1>4, <3>1
    <2>2. CASE i > m
      <3>1. i - m \in 1 .. n /\ m + (i - m) = i  BY <1>1, <1>2, <2>2
      <3>2. u[m + (i - m)] = t[i - m]  BY <1>4, <3>1
      <3> QED  BY <2>2, <3>1, <3>2
    <2> QED  BY <1>1, <1>2, <2>1, <2>2
  <1>15. IsLayout(u)
    <2>1. u \in Seq(Range(u))
      <3>1. \A i \in 1 .. m + n : u[i] \in Range(u)  BY <1>13 DEF Range
      <3> QED  BY <1>1, <1>2, <1>4, <3>1
    <2>2. ASSUME NEW i \in DOMAIN u PROVE u[i][2] \in Nat \ {0}
      BY <1>1, <1>2, <1>13, <1>14
    <2>3. ASSUME NEW i \in DOMAIN u, NEW j \in DOMAIN u, u[i][1] = u[j][1] PROVE i = j
      <3>1. CASE i \in 1 .. m /\ j \in 1 .. m
        <4>1. s[i][1] = s[j][1]  BY <1>4, <2>3, <3>1
        <4> QED  BY <1>1, <3>1, <4>1 DEF IsLayout
      <3>2. CASE i - m \in 1 .. n /\ j - m \in 1 .. n /\ u[i] = t[i - m] /\ u[j] = t[j - m]
        <4>1. t[i - m][1] = t[j - m][1]  BY <2>3, <3>2
        <4>2. i - m = j - m  BY <1>2, <3>2, <4>1 DEF IsLayout
        <4> QED  BY <1>1, <1>2, <1>13, <4>2
      <3>3. ASSUME NEW k \in 1 .. m, NEW l \in 1 .. n PROVE s[k][1] # t[l][1]
        <4>1. s[k][1] \in DOMAIN Table(s) /\ t[l][1] \in DOMAIN Table(t)  BY <1>9, <1>10
        <4> QED  BY <4>1
      <3>4. i \in 1 .. m + n /\ j \in 1 .. m + n  BY <1>13
      <3>5. ~ (i \in 1 .. m /\ j - m \in 1 .. n /\ u[i] = s[i] /\ u[j] = t[j - m])
        BY <2>3, <3>3
      <3>6. ~ (j \in 1 .. m /\ i - m \in 1 .. n /\ u[j] = s[j] /\ u[i] = t[i - m])
        BY <2>3, <3>3
      <3> QED  BY <1>14, <3>1, <3>2, <3>4, <3>5, <3>6
    <2> QED  BY <2>1, <2>2, <2>3 DEF IsLayout
  <1> DEFINE f == [i \in 0 .. m + n |-> IF i <= m THEN d[i] ELSE d[m] + e[i - m]]
  <1>16. IsEnds(u, f)
    <2>1. f \in [0 .. m + n -> Nat]
      <3>1. ASSUME NEW i \in 0 .. m + n PROVE f[i] \in Nat
        <4>1. CASE i <= m
          <5>1. i \in 0 .. m  BY <1>1, <1>2, <4>1
          <5> QED  BY <1>7, <4>1, <5>1
        <4>2. CASE i > m
          <5>1. i - m \in 0 .. n /\ m \in 0 .. m  BY <1>1, <1>2, <4>2
          <5>2. e[i - m] \in Nat /\ d[m] \in Nat  BY <1>7, <1>8, <5>1
          <5> QED  BY <1>1, <1>2, <4>2, <5>2
        <4> QED  BY <1>1, <1>2, <4>1, <4>2
      <3> QED  BY <3>1
    <2>2. f[0] = 0  BY <1>1, <1>2, <1>7
    <2>3. ASSUME NEW i \in 1 .. m + n PROVE f[i] = f[i - 1] + u[i][2]
      <3>0. i \in 0 .. m + n /\ i - 1 \in 0 .. m + n  BY <1>1, <1>2
      <3>1. CASE i <= m
        <4>1. i \in 1 .. m /\ f[i] = d[i] /\ f[i - 1] = d[i - 1]  BY <1>1, <1>2, <3>0, <3>1
        <4> QED  BY <1>4, <1>7, <4>1
      <3>2. CASE i > m
        <4> DEFINE k == i - m
        <4>1. k \in 1 .. n /\ m + k = i /\ k - 1 \in 0 .. n  BY <1>1, <1>2, <3>2
        <4>2. f[i] = d[m] + e[k]
          <5>1. ~ (i <= m)  BY <1>1, <1>2, <3>2
          <5> QED  BY <3>0, <5>1
        <4>3. f[i - 1] = d[m] + e[k - 1]
          <5>1. CASE i - 1 <= m
            <6>1. i - 1 = m /\ k = 1 /\ m \in 0 .. m  BY <1>1, <1>2, <3>2, <5>1
            <6>2. f[i - 1] = d[m]  BY <3>0, <5>1, <6>1
            <6>3. e[k - 1] = 0 /\ d[m] \in Nat  BY <1>7, <1>8, <6>1
            <6> QED  BY <6>2, <6>3
          <5>2. CASE ~ (i - 1 <= m)
            <6>1. i - 1 - m = k - 1  BY <1>1, <1>2
            <6> QED  BY <3>0, <5>2, <6>1
          <5> QED  BY <5>1, <5>2
        <4>4. u[i] = t[k]  BY <1>4, <4>1
        <4>5. e[k] = e[k - 1] + t[k][2]  BY <1>8, <4>1
        <4>6. d[m] \in Nat /\ e[k - 1] \in Nat /\ t[k][2] \in Nat
          <5>1. m \in 0 .. m  BY <1>1
          <5> QED  BY <1>2, <1>7, <1>8, <4>1, <5>1
        <4> HIDE DEF f, k
        <4> QED  BY <4>2, <4>3, <4>4, <4>5, <4>6
      <3> QED  BY <1>1, <1>2, <3>1, <3>2
    <2> HIDE DEF f
    <2> QED  BY <1>4, <2>1, <2>2, <2>3 DEF IsEnds
  <1>17. /\ \A i \in 0 .. m : f[i] = d[i]
         /\ \A i \in 0 .. n : f[m + i] = d[m] + e[i]
    <2>1. ASSUME NEW i \in 0 .. m PROVE f[i] = d[i]
      <3>1. i \in 0 .. m + n /\ i <= m  BY <1>1, <1>2
      <3> QED  BY <3>1
    <2>2. ASSUME NEW i \in 0 .. n PROVE f[m + i] = d[m] + e[i]
      <3>1. m + i \in 0 .. m + n /\ m + i - m = i  BY <1>1, <1>2
      <3>2. CASE i = 0
        <4>1. m + i = m /\ m \in 0 .. m  BY <1>1, <3>2
        <4>2. f[m] = d[m]  BY <2>1, <4>1
        <4>3. e[i] = 0 /\ d[m] \in Nat  BY <1>7, <1>8, <3>2, <4>1
        <4>4. f[m + i] = d[m + i]  BY <1>1, <3>1, <4>1
        <4>5. d[m + i] = d[m] + e[i]  BY <1>1, <4>1, <4>3
        <4> QED  BY <4>4, <4>5, Zenon
      <3>3. CASE i # 0
        <4>1. ~ (m + i <= m)  BY <1>1, <3>3
        <4> QED  BY <1>1, <1>2, <3>1, <4>1
      <3> QED  BY <3>2, <3>3
    <2> QED  BY <2>1, <2>2
  <1> HIDE DEF f
  <1>18. /\ DOMAIN Table(u) = {u[i][1] : i \in 1 .. m + n}
         /\ \A i \in 1 .. m + n : Table(u)[u[i][1]] = <<f[i - 1], u[i][2]>>
    <2> DEFINE k == m + n
    <2>1. DOMAIN u = 1 .. k  BY <1>13
    <2> HIDE DEF k
    <2>2. /\ DOMAIN Table(u) = {u[i][1] : i \in 1 .. k}
          /\ \A i \in 1 .. k : Table(u)[u[i][1]] = <<f[i - 1], u[i][2]>>
      BY <1>15, <1>16, <2>1, TableUpTo, Zenon
    <2> QED  BY <2>2 DEF k
  <1>19. Size(Table(u)) = d[m] + e[n]
    <2>1. Size(Table(u)) = f[m + n]  BY <1>4, <1>15, <1>16, TableExtent
    <2>2. n \in 0 .. n  BY <1>2
    <2> QED  BY <1>17, <2>1, <2>2
  <1>20. ASSUME NEW x \in DOMAIN Table(s)
         PROVE  x \in DOMAIN Table(u) /\ Table(u)[x] = Table(s)[x]
    <2>1. PICK i \in 1 .. m : x = s[i][1]  BY <1>9
    <2>2. i \in 1 .. m + n /\ u[i] = s[i] /\ i - 1 \in 0 .. m  BY <1>1, <1>2, <1>4
    <2>3. Table(u)[x] = <<f[i - 1], s[i][2]>> /\ x \in DOMAIN Table(u)  BY <1>18, <2>1, <2>2
    <2>4. Table(s)[x] = <<d[i - 1], s[i][2]>>  BY <1>9, <2>1
    <2> QED  BY <1>17, <2>2, <2>3, <2>4
  <1>21. ASSUME NEW x \in DOMAIN Table(t)
         PROVE  /\ x \in DOMAIN Table(u)
                /\ Table(u)[x] = <<d[m] + Table(t)[x][1], Table(t)[x][2]>>
    <2>1. PICK i \in 1 .. n : x = t[i][1]  BY <1>10
    <2>2. m + i \in 1 .. m + n /\ u[m + i] = t[i] /\ i - 1 \in 0 .. n /\ m + i - 1 = m + (i - 1)
      BY <1>1, <1>2, <1>4
    <2>3. Table(u)[x] = <<f[m + i - 1], t[i][2]>> /\ x \in DOMAIN Table(u)
      <3>1. PICK j : j = m + i  OBVIOUS
      <3>2. j \in 1 .. m + n /\ u[j] = t[i]  BY <2>2, <3>1
      <3>3. Table(u)[u[j][1]] = <<f[j - 1], u[j][2]>> /\ u[j][1] \in DOMAIN Table(u)
        BY <1>18, <3>2
      <3>4. Table(u)[x] = <<f[j - 1], t[i][2]>> /\ x \in DOMAIN Table(u)
        BY <2>1, <3>2, <3>3, Zenon
      <3>5. f[j - 1] = f[m + i - 1]  BY <1>1, <1>2, <3>1, <3>2
      <3> QED  BY <3>4, <3>5, Zenon
    <2>4. Table(t)[x] = <<e[i - 1], t[i][2]>>  BY <1>10, <2>1
    <2>5. f[m + i - 1] = d[m] + e[i - 1]  BY <1>17, <2>2
    <2> QED  BY <2>3, <2>4, <2>5
  <1>22. ASSUME NEW x \in DOMAIN Table(u) PROVE x \in DOMAIN Table(s) \cup DOMAIN Table(t)
    <2>1. PICK i \in 1 .. m + n : x = u[i][1]  BY <1>18
    <2> QED  BY <1>9, <1>10, <1>14, <2>1
  <1>23. DOMAIN Table(u) = DOMAIN Table(s) \cup DOMAIN Table(t)  BY <1>20, <1>21, <1>22
  <1> QED  BY <1>11, <1>12, <1>15, <1>19, <1>20, <1>21, <1>23 DEF u

(* The parts of the layouts, each with the place of its fields.            *)
PoolHead ==
    << <<"discriminator", 8>>, <<"admin", 32>>, <<"authorized_oracle_signer", 32>>,
       <<"authorized_quote_signer", 32>>, <<"base_mint", 32>>,
       <<"quote_mint", 32>>, <<"base_vault", 32>>, <<"quote_vault", 32>>,
       <<"fair_value", 8>>, <<"spread_bps", 2>> >>
PoolTail ==
    << <<"last_oracle_update_slot", 8>>, <<"oracle_nonce", 8>>,
       <<"current_mode_ttl", 1>>, <<"bump", 1>>, <<"base_vault_bump", 1>>,
       <<"quote_vault_bump", 1>>, <<"paused", 1>>, <<"reserved", 32>> >>
InitHead ==
    << <<"authorized_oracle_signer", 32>>, <<"authorized_quote_signer", 32>>,
       <<"fair_value", 8>>, <<"spread_bps", 2>> >>
InitTail ==
    << <<"current_mode_ttl", 1>> >>
UpdateHead ==
    << <<"fair_value", 8>>, <<"spread_bps", 2>> >>
UpdateTail ==
    << <<"oracle_nonce", 8>>, <<"current_mode_ttl", 1>> >>
ProposalFields ==
    << <<"discriminator", 8>>, <<"pool", 32>>, <<"proposed_by", 32>>,
       <<"new_admin", 32>>, <<"created_slot", 8>>, <<"bump", 1>>,
       <<"reserved", 7>> >>
MarkerFields ==
    << <<"discriminator", 8>>, <<"pool", 32>>, <<"nonce", 8>>,
       <<"expiry_slot", 8>>, <<"bump", 1>>, <<"reserved", 7>> >>

(* PoolHead as a layout.                                                   *)
LEMMA PoolHeadIs ==
    /\ IsLayout(PoolHead) /\ Size(Table(PoolHead)) = 242
    /\ DOMAIN Table(PoolHead) =
        {"discriminator", "admin", "authorized_oracle_signer", "authorized_quote_signer",
         "base_mint", "quote_mint", "base_vault", "quote_vault", "fair_value",
         "spread_bps"}
    /\ Table(PoolHead).discriminator = <<0, 8>>
    /\ Table(PoolHead).fair_value = <<232, 8>>
    /\ Table(PoolHead).spread_bps = <<240, 2>>
  <1>1. IsLayout(PoolHead)
    <2>1. PoolHead \in Seq(Range(PoolHead))  BY DEF PoolHead, Range
    <2>2. \A i \in DOMAIN PoolHead : PoolHead[i][2] \in Nat \ {0}  BY DEF PoolHead
    <2>3. \A i, j \in DOMAIN PoolHead : PoolHead[i][1] = PoolHead[j][1] => i = j  BY DEF PoolHead
    <2> QED  BY <2>1, <2>2, <2>3 DEF IsLayout
  <1>2. PICK e : IsEnds(PoolHead, e)  BY <1>1, EndsExist, Zenon
  <1>3. e[0] = 0 /\ e[8] = 232 /\ e[9] = 240 /\ e[10] = 242  BY <1>2 DEF IsEnds, PoolHead
  <1>4. Len(PoolHead) = 10 /\ DOMAIN PoolHead = 1 .. 10  BY DEF PoolHead
  <1>5. Size(Table(PoolHead)) = 242
    <2>1. Size(Table(PoolHead)) = e[Len(PoolHead)]  BY <1>1, <1>2, TableExtent, Zenon
    <2> QED  BY <1>3, <1>4, <2>1
  <1>6. DOMAIN Table(PoolHead) =
        {"discriminator", "admin", "authorized_oracle_signer", "authorized_quote_signer",
         "base_mint", "quote_mint", "base_vault", "quote_vault", "fair_value",
         "spread_bps"}
    <2>1. DOMAIN Table(PoolHead) = {PoolHead[i][1] : i \in 1 .. 10}
      BY <1>1, <1>2, <1>4, TableFacts
    <2>2. {PoolHead[i][1] : i \in 1 .. 10} =
        {"discriminator", "admin", "authorized_oracle_signer", "authorized_quote_signer",
         "base_mint", "quote_mint", "base_vault", "quote_vault", "fair_value",
         "spread_bps"}
      BY DEF PoolHead
    <2> QED  BY <2>1, <2>2, Zenon
  <1>7. Table(PoolHead).discriminator = <<0, 8>>
    <2>1. 1 \in DOMAIN PoolHead /\ PoolHead[1] = <<"discriminator", 8>>  BY DEF PoolHead
    <2>2. Table(PoolHead)["discriminator"] = <<e[0], 8>>  BY <1>1, <1>2, <2>1, FieldIs
    <2> QED  BY <1>3, <2>2
  <1>8. Table(PoolHead).fair_value = <<232, 8>>
    <2>1. 9 \in DOMAIN PoolHead /\ PoolHead[9] = <<"fair_value", 8>>  BY DEF PoolHead
    <2>2. Table(PoolHead)["fair_value"] = <<e[8], 8>>  BY <1>1, <1>2, <2>1, FieldIs
    <2> QED  BY <1>3, <2>2
  <1>9. Table(PoolHead).spread_bps = <<240, 2>>
    <2>1. 10 \in DOMAIN PoolHead /\ PoolHead[10] = <<"spread_bps", 2>>  BY DEF PoolHead
    <2>2. Table(PoolHead)["spread_bps"] = <<e[9], 2>>  BY <1>1, <1>2, <2>1, FieldIs
    <2> QED  BY <1>3, <2>2
  <1> QED  BY <1>1, <1>5, <1>6, <1>7, <1>8, <1>9

(* Depth as a layout.                                                      *)
LEMMA DepthIs ==
    /\ IsLayout(Depth) /\ Size(Table(Depth)) = 20
    /\ DOMAIN Table(Depth) =
        {"depth_coef_bps", "size_unit", "max_depth_bps", "depth_reserved"}
  <1>1. IsLayout(Depth)
    <2>1. Depth \in Seq(Range(Depth))  BY DEF Depth, Range
    <2>2. \A i \in DOMAIN Depth : Depth[i][2] \in Nat \ {0}  BY DEF Depth
    <2>3. \A i, j \in DOMAIN Depth : Depth[i][1] = Depth[j][1] => i = j  BY DEF Depth
    <2> QED  BY <2>1, <2>2, <2>3 DEF IsLayout
  <1>2. PICK e : IsEnds(Depth, e)  BY <1>1, EndsExist, Zenon
  <1>3. e[0] = 0 /\ e[4] = 20  BY <1>2 DEF IsEnds, Depth
  <1>4. Len(Depth) = 4 /\ DOMAIN Depth = 1 .. 4  BY DEF Depth
  <1>5. Size(Table(Depth)) = 20
    <2>1. Size(Table(Depth)) = e[Len(Depth)]  BY <1>1, <1>2, TableExtent, Zenon
    <2> QED  BY <1>3, <1>4, <2>1
  <1>6. DOMAIN Table(Depth) =
        {"depth_coef_bps", "size_unit", "max_depth_bps", "depth_reserved"}
    <2>1. DOMAIN Table(Depth) = {Depth[i][1] : i \in 1 .. 4}
      BY <1>1, <1>2, <1>4, TableFacts
    <2>2. {Depth[i][1] : i \in 1 .. 4} =
        {"depth_coef_bps", "size_unit", "max_depth_bps", "depth_reserved"}
      BY DEF Depth
    <2> QED  BY <2>1, <2>2, Zenon
  <1> QED  BY <1>1, <1>5, <1>6

(* Skew as a layout.                                                       *)
LEMMA SkewIs ==
    /\ IsLayout(Skew) /\ Size(Table(Skew)) = 16
    /\ DOMAIN Table(Skew) =
        {"target_base_bps", "skew_coef_bps", "max_skew_offset_bps", "skew_reserved"}
  <1>1. IsLayout(Skew)
    <2>1. Skew \in Seq(Range(Skew))  BY DEF Skew, Range
    <2>2. \A i \in DOMAIN Skew : Skew[i][2] \in Nat \ {0}  BY DEF Skew
    <2>3. \A i, j \in DOMAIN Skew : Skew[i][1] = Skew[j][1] => i = j  BY DEF Skew
    <2> QED  BY <2>1, <2>2, <2>3 DEF IsLayout
  <1>2. PICK e : IsEnds(Skew, e)  BY <1>1, EndsExist, Zenon
  <1>3. e[0] = 0 /\ e[4] = 16  BY <1>2 DEF IsEnds, Skew
  <1>4. Len(Skew) = 4 /\ DOMAIN Skew = 1 .. 4  BY DEF Skew
  <1>5. Size(Table(Skew)) = 16
    <2>1. Size(Table(Skew)) = e[Len(Skew)]  BY <1>1, <1>2, TableExtent, Zenon
    <2> QED  BY <1>3, <1>4, <2>1
  <1>6. DOMAIN Table(Skew) =
        {"target_base_bps", "skew_coef_bps", "max_skew_offset_bps", "skew_reserved"}
    <2>1. DOMAIN Table(Skew) = {Skew[i][1] : i \in 1 .. 4}
      BY <1>1, <1>2, <1>4, TableFacts
    <2>2. {Skew[i][1] : i \in 1 .. 4} =
        {"target_base_bps", "skew_coef_bps", "max_skew_offset_bps", "skew_reserved"}
      BY DEF Skew
    <2> QED  BY <2>1, <2>2, Zenon
  <1> QED  BY <1>1, <1>5, <1>6

(* PoolTail as a layout.                                                   *)
LEMMA PoolTailIs ==
    /\ IsLayout(PoolTail) /\ Size(Table(PoolTail)) = 53
    /\ DOMAIN Table(PoolTail) =
        {"last_oracle_update_slot", "oracle_nonce", "current_mode_ttl", "bump",
         "base_vault_bump", "quote_vault_bump", "paused", "reserved"}
    /\ Table(PoolTail).last_oracle_update_slot = <<0, 8>>
    /\ Table(PoolTail).oracle_nonce = <<8, 8>>
    /\ Table(PoolTail).current_mode_ttl = <<16, 1>>
  <1>1. IsLayout(PoolTail)
    <2>1. PoolTail \in Seq(Range(PoolTail))  BY DEF PoolTail, Range
    <2>2. \A i \in DOMAIN PoolTail : PoolTail[i][2] \in Nat \ {0}  BY DEF PoolTail
    <2>3. \A i, j \in DOMAIN PoolTail : PoolTail[i][1] = PoolTail[j][1] => i = j  BY DEF PoolTail
    <2> QED  BY <2>1, <2>2, <2>3 DEF IsLayout
  <1>2. PICK e : IsEnds(PoolTail, e)  BY <1>1, EndsExist, Zenon
  <1>3. e[0] = 0 /\ e[1] = 8 /\ e[2] = 16 /\ e[8] = 53  BY <1>2 DEF IsEnds, PoolTail
  <1>4. Len(PoolTail) = 8 /\ DOMAIN PoolTail = 1 .. 8  BY DEF PoolTail
  <1>5. Size(Table(PoolTail)) = 53
    <2>1. Size(Table(PoolTail)) = e[Len(PoolTail)]  BY <1>1, <1>2, TableExtent, Zenon
    <2> QED  BY <1>3, <1>4, <2>1
  <1>6. DOMAIN Table(PoolTail) =
        {"last_oracle_update_slot", "oracle_nonce", "current_mode_ttl", "bump",
         "base_vault_bump", "quote_vault_bump", "paused", "reserved"}
    <2>1. DOMAIN Table(PoolTail) = {PoolTail[i][1] : i \in 1 .. 8}
      BY <1>1, <1>2, <1>4, TableFacts
    <2>2. {PoolTail[i][1] : i \in 1 .. 8} =
        {"last_oracle_update_slot", "oracle_nonce", "current_mode_ttl", "bump",
         "base_vault_bump", "quote_vault_bump", "paused", "reserved"}
      BY DEF PoolTail
    <2> QED  BY <2>1, <2>2, Zenon
  <1>7. Table(PoolTail).last_oracle_update_slot = <<0, 8>>
    <2>1. 1 \in DOMAIN PoolTail /\ PoolTail[1] = <<"last_oracle_update_slot", 8>>  BY DEF PoolTail
    <2>2. Table(PoolTail)["last_oracle_update_slot"] = <<e[0], 8>>  BY <1>1, <1>2, <2>1, FieldIs
    <2> QED  BY <1>3, <2>2
  <1>8. Table(PoolTail).oracle_nonce = <<8, 8>>
    <2>1. 2 \in DOMAIN PoolTail /\ PoolTail[2] = <<"oracle_nonce", 8>>  BY DEF PoolTail
    <2>2. Table(PoolTail)["oracle_nonce"] = <<e[1], 8>>  BY <1>1, <1>2, <2>1, FieldIs
    <2> QED  BY <1>3, <2>2
  <1>9. Table(PoolTail).current_mode_ttl = <<16, 1>>
    <2>1. 3 \in DOMAIN PoolTail /\ PoolTail[3] = <<"current_mode_ttl", 1>>  BY DEF PoolTail
    <2>2. Table(PoolTail)["current_mode_ttl"] = <<e[2], 1>>  BY <1>1, <1>2, <2>1, FieldIs
    <2> QED  BY <1>3, <2>2
  <1> QED  BY <1>1, <1>5, <1>6, <1>7, <1>8, <1>9

(* InitHead as a layout.                                                   *)
LEMMA InitHeadIs ==
    /\ IsLayout(InitHead) /\ Size(Table(InitHead)) = 74
    /\ DOMAIN Table(InitHead) =
        {"authorized_oracle_signer", "authorized_quote_signer", "fair_value", "spread_bps"}
  <1>1. IsLayout(InitHead)
    <2>1. InitHead \in Seq(Range(InitHead))  BY DEF InitHead, Range
    <2>2. \A i \in DOMAIN InitHead : InitHead[i][2] \in Nat \ {0}  BY DEF InitHead
    <2>3. \A i, j \in DOMAIN InitHead : InitHead[i][1] = InitHead[j][1] => i = j  BY DEF InitHead
    <2> QED  BY <2>1, <2>2, <2>3 DEF IsLayout
  <1>2. PICK e : IsEnds(InitHead, e)  BY <1>1, EndsExist, Zenon
  <1>3. e[0] = 0 /\ e[4] = 74  BY <1>2 DEF IsEnds, InitHead
  <1>4. Len(InitHead) = 4 /\ DOMAIN InitHead = 1 .. 4  BY DEF InitHead
  <1>5. Size(Table(InitHead)) = 74
    <2>1. Size(Table(InitHead)) = e[Len(InitHead)]  BY <1>1, <1>2, TableExtent, Zenon
    <2> QED  BY <1>3, <1>4, <2>1
  <1>6. DOMAIN Table(InitHead) =
        {"authorized_oracle_signer", "authorized_quote_signer", "fair_value", "spread_bps"}
    <2>1. DOMAIN Table(InitHead) = {InitHead[i][1] : i \in 1 .. 4}
      BY <1>1, <1>2, <1>4, TableFacts
    <2>2. {InitHead[i][1] : i \in 1 .. 4} =
        {"authorized_oracle_signer", "authorized_quote_signer", "fair_value", "spread_bps"}
      BY DEF InitHead
    <2> QED  BY <2>1, <2>2, Zenon
  <1> QED  BY <1>1, <1>5, <1>6

(* InitTail as a layout.                                                   *)
LEMMA InitTailIs ==
    /\ IsLayout(InitTail) /\ Size(Table(InitTail)) = 1
    /\ DOMAIN Table(InitTail) =
        {"current_mode_ttl"}
  <1>1. IsLayout(InitTail)
    <2>1. InitTail \in Seq(Range(InitTail))  BY DEF InitTail, Range
    <2>2. \A i \in DOMAIN InitTail : InitTail[i][2] \in Nat \ {0}  BY DEF InitTail
    <2>3. \A i, j \in DOMAIN InitTail : InitTail[i][1] = InitTail[j][1] => i = j  BY DEF InitTail
    <2> QED  BY <2>1, <2>2, <2>3 DEF IsLayout
  <1>2. PICK e : IsEnds(InitTail, e)  BY <1>1, EndsExist, Zenon
  <1>3. e[0] = 0 /\ e[1] = 1  BY <1>2 DEF IsEnds, InitTail
  <1>4. Len(InitTail) = 1 /\ DOMAIN InitTail = 1 .. 1  BY DEF InitTail
  <1>5. Size(Table(InitTail)) = 1
    <2>1. Size(Table(InitTail)) = e[Len(InitTail)]  BY <1>1, <1>2, TableExtent, Zenon
    <2> QED  BY <1>3, <1>4, <2>1
  <1>6. DOMAIN Table(InitTail) =
        {"current_mode_ttl"}
    <2>1. DOMAIN Table(InitTail) = {InitTail[i][1] : i \in 1 .. 1}
      BY <1>1, <1>2, <1>4, TableFacts
    <2>2. {InitTail[i][1] : i \in 1 .. 1} =
        {"current_mode_ttl"}
      BY DEF InitTail
    <2> QED  BY <2>1, <2>2, Zenon
  <1> QED  BY <1>1, <1>5, <1>6

(* UpdateHead as a layout.                                                 *)
LEMMA UpdateHeadIs ==
    /\ IsLayout(UpdateHead) /\ Size(Table(UpdateHead)) = 10
    /\ DOMAIN Table(UpdateHead) =
        {"fair_value", "spread_bps"}
    /\ Table(UpdateHead).fair_value = <<0, 8>>
    /\ Table(UpdateHead).spread_bps = <<8, 2>>
  <1>1. IsLayout(UpdateHead)
    <2>1. UpdateHead \in Seq(Range(UpdateHead))  BY DEF UpdateHead, Range
    <2>2. \A i \in DOMAIN UpdateHead : UpdateHead[i][2] \in Nat \ {0}  BY DEF UpdateHead
    <2>3. \A i, j \in DOMAIN UpdateHead : UpdateHead[i][1] = UpdateHead[j][1] => i = j  BY DEF UpdateHead
    <2> QED  BY <2>1, <2>2, <2>3 DEF IsLayout
  <1>2. PICK e : IsEnds(UpdateHead, e)  BY <1>1, EndsExist, Zenon
  <1>3. e[0] = 0 /\ e[1] = 8 /\ e[2] = 10  BY <1>2 DEF IsEnds, UpdateHead
  <1>4. Len(UpdateHead) = 2 /\ DOMAIN UpdateHead = 1 .. 2  BY DEF UpdateHead
  <1>5. Size(Table(UpdateHead)) = 10
    <2>1. Size(Table(UpdateHead)) = e[Len(UpdateHead)]  BY <1>1, <1>2, TableExtent, Zenon
    <2> QED  BY <1>3, <1>4, <2>1
  <1>6. DOMAIN Table(UpdateHead) =
        {"fair_value", "spread_bps"}
    <2>1. DOMAIN Table(UpdateHead) = {UpdateHead[i][1] : i \in 1 .. 2}
      BY <1>1, <1>2, <1>4, TableFacts
    <2>2. {UpdateHead[i][1] : i \in 1 .. 2} =
        {"fair_value", "spread_bps"}
      BY DEF UpdateHead
    <2> QED  BY <2>1, <2>2, Zenon
  <1>7. Table(UpdateHead).fair_value = <<0, 8>>
    <2>1. 1 \in DOMAIN UpdateHead /\ UpdateHead[1] = <<"fair_value", 8>>  BY DEF UpdateHead
    <2>2. Table(UpdateHead)["fair_value"] = <<e[0], 8>>  BY <1>1, <1>2, <2>1, FieldIs
    <2> QED  BY <1>3, <2>2
  <1>8. Table(UpdateHead).spread_bps = <<8, 2>>
    <2>1. 2 \in DOMAIN UpdateHead /\ UpdateHead[2] = <<"spread_bps", 2>>  BY DEF UpdateHead
    <2>2. Table(UpdateHead)["spread_bps"] = <<e[1], 2>>  BY <1>1, <1>2, <2>1, FieldIs
    <2> QED  BY <1>3, <2>2
  <1> QED  BY <1>1, <1>5, <1>6, <1>7, <1>8

(* UpdateTail as a layout.                                                 *)
LEMMA UpdateTailIs ==
    /\ IsLayout(UpdateTail) /\ Size(Table(UpdateTail)) = 9
    /\ DOMAIN Table(UpdateTail) =
        {"oracle_nonce", "current_mode_ttl"}
    /\ Table(UpdateTail).oracle_nonce = <<0, 8>>
    /\ Table(UpdateTail).current_mode_ttl = <<8, 1>>
  <1>1. IsLayout(UpdateTail)
    <2>1. UpdateTail \in Seq(Range(UpdateTail))  BY DEF UpdateTail, Range
    <2>2. \A i \in DOMAIN UpdateTail : UpdateTail[i][2] \in Nat \ {0}  BY DEF UpdateTail
    <2>3. \A i, j \in DOMAIN UpdateTail : UpdateTail[i][1] = UpdateTail[j][1] => i = j  BY DEF UpdateTail
    <2> QED  BY <2>1, <2>2, <2>3 DEF IsLayout
  <1>2. PICK e : IsEnds(UpdateTail, e)  BY <1>1, EndsExist, Zenon
  <1>3. e[0] = 0 /\ e[1] = 8 /\ e[2] = 9  BY <1>2 DEF IsEnds, UpdateTail
  <1>4. Len(UpdateTail) = 2 /\ DOMAIN UpdateTail = 1 .. 2  BY DEF UpdateTail
  <1>5. Size(Table(UpdateTail)) = 9
    <2>1. Size(Table(UpdateTail)) = e[Len(UpdateTail)]  BY <1>1, <1>2, TableExtent, Zenon
    <2> QED  BY <1>3, <1>4, <2>1
  <1>6. DOMAIN Table(UpdateTail) =
        {"oracle_nonce", "current_mode_ttl"}
    <2>1. DOMAIN Table(UpdateTail) = {UpdateTail[i][1] : i \in 1 .. 2}
      BY <1>1, <1>2, <1>4, TableFacts
    <2>2. {UpdateTail[i][1] : i \in 1 .. 2} =
        {"oracle_nonce", "current_mode_ttl"}
      BY DEF UpdateTail
    <2> QED  BY <2>1, <2>2, Zenon
  <1>7. Table(UpdateTail).oracle_nonce = <<0, 8>>
    <2>1. 1 \in DOMAIN UpdateTail /\ UpdateTail[1] = <<"oracle_nonce", 8>>  BY DEF UpdateTail
    <2>2. Table(UpdateTail)["oracle_nonce"] = <<e[0], 8>>  BY <1>1, <1>2, <2>1, FieldIs
    <2> QED  BY <1>3, <2>2
  <1>8. Table(UpdateTail).current_mode_ttl = <<8, 1>>
    <2>1. 2 \in DOMAIN UpdateTail /\ UpdateTail[2] = <<"current_mode_ttl", 1>>  BY DEF UpdateTail
    <2>2. Table(UpdateTail)["current_mode_ttl"] = <<e[1], 1>>  BY <1>1, <1>2, <2>1, FieldIs
    <2> QED  BY <1>3, <2>2
  <1> QED  BY <1>1, <1>5, <1>6, <1>7, <1>8

(* ProposalFields as a layout.                                             *)
LEMMA ProposalFieldsIs ==
    /\ IsLayout(ProposalFields) /\ Size(Table(ProposalFields)) = 120
    /\ DOMAIN Table(ProposalFields) =
        {"discriminator", "pool", "proposed_by", "new_admin", "created_slot", "bump",
         "reserved"}
    /\ Table(ProposalFields).discriminator = <<0, 8>>
  <1>1. IsLayout(ProposalFields)
    <2>1. ProposalFields \in Seq(Range(ProposalFields))  BY DEF ProposalFields, Range
    <2>2. \A i \in DOMAIN ProposalFields : ProposalFields[i][2] \in Nat \ {0}  BY DEF ProposalFields
    <2>3. \A i, j \in DOMAIN ProposalFields : ProposalFields[i][1] = ProposalFields[j][1] => i = j  BY DEF ProposalFields
    <2> QED  BY <2>1, <2>2, <2>3 DEF IsLayout
  <1>2. PICK e : IsEnds(ProposalFields, e)  BY <1>1, EndsExist, Zenon
  <1>3. e[0] = 0 /\ e[7] = 120  BY <1>2 DEF IsEnds, ProposalFields
  <1>4. Len(ProposalFields) = 7 /\ DOMAIN ProposalFields = 1 .. 7  BY DEF ProposalFields
  <1>5. Size(Table(ProposalFields)) = 120
    <2>1. Size(Table(ProposalFields)) = e[Len(ProposalFields)]  BY <1>1, <1>2, TableExtent, Zenon
    <2> QED  BY <1>3, <1>4, <2>1
  <1>6. DOMAIN Table(ProposalFields) =
        {"discriminator", "pool", "proposed_by", "new_admin", "created_slot", "bump",
         "reserved"}
    <2>1. DOMAIN Table(ProposalFields) = {ProposalFields[i][1] : i \in 1 .. 7}
      BY <1>1, <1>2, <1>4, TableFacts
    <2>2. {ProposalFields[i][1] : i \in 1 .. 7} =
        {"discriminator", "pool", "proposed_by", "new_admin", "created_slot", "bump",
         "reserved"}
      BY DEF ProposalFields
    <2> QED  BY <2>1, <2>2, Zenon
  <1>7. Table(ProposalFields).discriminator = <<0, 8>>
    <2>1. 1 \in DOMAIN ProposalFields /\ ProposalFields[1] = <<"discriminator", 8>>  BY DEF ProposalFields
    <2>2. Table(ProposalFields)["discriminator"] = <<e[0], 8>>  BY <1>1, <1>2, <2>1, FieldIs
    <2> QED  BY <1>3, <2>2
  <1> QED  BY <1>1, <1>5, <1>6, <1>7

(* MarkerFields as a layout.                                               *)
LEMMA MarkerFieldsIs ==
    /\ IsLayout(MarkerFields) /\ Size(Table(MarkerFields)) = 64
    /\ DOMAIN Table(MarkerFields) =
        {"discriminator", "pool", "nonce", "expiry_slot", "bump", "reserved"}
    /\ Table(MarkerFields).discriminator = <<0, 8>>
  <1>1. IsLayout(MarkerFields)
    <2>1. MarkerFields \in Seq(Range(MarkerFields))  BY DEF MarkerFields, Range
    <2>2. \A i \in DOMAIN MarkerFields : MarkerFields[i][2] \in Nat \ {0}  BY DEF MarkerFields
    <2>3. \A i, j \in DOMAIN MarkerFields : MarkerFields[i][1] = MarkerFields[j][1] => i = j  BY DEF MarkerFields
    <2> QED  BY <2>1, <2>2, <2>3 DEF IsLayout
  <1>2. PICK e : IsEnds(MarkerFields, e)  BY <1>1, EndsExist, Zenon
  <1>3. e[0] = 0 /\ e[6] = 64  BY <1>2 DEF IsEnds, MarkerFields
  <1>4. Len(MarkerFields) = 6 /\ DOMAIN MarkerFields = 1 .. 6  BY DEF MarkerFields
  <1>5. Size(Table(MarkerFields)) = 64
    <2>1. Size(Table(MarkerFields)) = e[Len(MarkerFields)]  BY <1>1, <1>2, TableExtent, Zenon
    <2> QED  BY <1>3, <1>4, <2>1
  <1>6. DOMAIN Table(MarkerFields) =
        {"discriminator", "pool", "nonce", "expiry_slot", "bump", "reserved"}
    <2>1. DOMAIN Table(MarkerFields) = {MarkerFields[i][1] : i \in 1 .. 6}
      BY <1>1, <1>2, <1>4, TableFacts
    <2>2. {MarkerFields[i][1] : i \in 1 .. 6} =
        {"discriminator", "pool", "nonce", "expiry_slot", "bump", "reserved"}
      BY DEF MarkerFields
    <2> QED  BY <2>1, <2>2, Zenon
  <1>7. Table(MarkerFields).discriminator = <<0, 8>>
    <2>1. 1 \in DOMAIN MarkerFields /\ MarkerFields[1] = <<"discriminator", 8>>  BY DEF MarkerFields
    <2>2. Table(MarkerFields)["discriminator"] = <<e[0], 8>>  BY <1>1, <1>2, <2>1, FieldIs
    <2> QED  BY <1>3, <2>2
  <1> QED  BY <1>1, <1>5, <1>6, <1>7

(* A head of n bytes, the parameters of depth and skew, a tail.            *)
IsPriced(head, tail, n, t) ==
    /\ WellLaid(t) /\ Size(t) = n + 36 + Size(Table(tail))
    /\ DOMAIN t = DOMAIN Table(head) \cup DOMAIN Table(Depth)
                    \cup DOMAIN Table(Skew) \cup DOMAIN Table(tail)
    /\ \A f \in DOMAIN Table(head) : t[f] = Table(head)[f]
    /\ \A f \in DOMAIN Table(Depth) : t[f] = <<n + Table(Depth)[f][1], Table(Depth)[f][2]>>
    /\ \A f \in DOMAIN Table(Skew) : t[f] = <<n + 20 + Table(Skew)[f][1], Table(Skew)[f][2]>>
    /\ \A f \in DOMAIN Table(tail) : t[f] = <<n + 36 + Table(tail)[f][1], Table(tail)[f][2]>>

(* Joining the four parts gives such a table.                              *)
LEMMA Priced ==
    ASSUME NEW head, IsLayout(head), NEW tail, IsLayout(tail),
           NEW n \in Nat, n = Size(Table(head)), Size(Table(tail)) \in Nat,
           DOMAIN Table(head) \cap DOMAIN Table(Depth) = {},
           DOMAIN Table(head) \cap DOMAIN Table(Skew) = {},
           DOMAIN Table(head) \cap DOMAIN Table(tail) = {},
           DOMAIN Table(Depth) \cap DOMAIN Table(tail) = {},
           DOMAIN Table(Skew) \cap DOMAIN Table(tail) = {},
           NEW t, t = Table(head \o Depth \o Skew \o tail)
    PROVE  IsPriced(head, tail, n, t)
  <1> DEFINE a == head \o Depth
             b == a \o Skew
             c == b \o tail
  <1>1. /\ IsLayout(a) /\ Size(Table(a)) = n + 20
        /\ DOMAIN Table(a) = DOMAIN Table(head) \cup DOMAIN Table(Depth)
        /\ \A f \in DOMAIN Table(head) : Table(a)[f] = Table(head)[f]
        /\ \A f \in DOMAIN Table(Depth) :
             Table(a)[f] = <<n + Table(Depth)[f][1], Table(Depth)[f][2]>>
    <2>1. IsLayout(Depth) /\ IsLayout(head)  BY DepthIs
    <2>2. /\ IsLayout(head \o Depth)
          /\ DOMAIN Table(head \o Depth) = DOMAIN Table(head) \cup DOMAIN Table(Depth)
          /\ \A f \in DOMAIN Table(head) : Table(head \o Depth)[f] = Table(head)[f]
          /\ \A f \in DOMAIN Table(Depth) : Table(head \o Depth)[f] =
                <<Size(Table(head)) + Table(Depth)[f][1], Table(Depth)[f][2]>>
          /\ Size(Table(head \o Depth)) = Size(Table(head)) + Size(Table(Depth))
      BY <2>1, Joined, Zenon
    <2> QED  BY <2>2, DepthIs
  <1>2. DOMAIN Table(a) \cap DOMAIN Table(Skew) = {}
    <2>1. DOMAIN Table(Depth) \cap DOMAIN Table(Skew) = {}  BY DepthIs, SkewIs
    <2> QED  BY <1>1, <2>1
  <1> HIDE DEF a
  <1>3. /\ IsLayout(b) /\ Size(Table(b)) = n + 36
        /\ DOMAIN Table(b) = DOMAIN Table(a) \cup DOMAIN Table(Skew)
        /\ \A f \in DOMAIN Table(a) : Table(b)[f] = Table(a)[f]
        /\ \A f \in DOMAIN Table(Skew) :
             Table(b)[f] = <<n + 20 + Table(Skew)[f][1], Table(Skew)[f][2]>>
    <2>1. IsLayout(Skew) /\ IsLayout(a)  BY <1>1, SkewIs
    <2>2. /\ IsLayout(a \o Skew)
          /\ DOMAIN Table(a \o Skew) = DOMAIN Table(a) \cup DOMAIN Table(Skew)
          /\ \A f \in DOMAIN Table(a) : Table(a \o Skew)[f] = Table(a)[f]
          /\ \A f \in DOMAIN Table(Skew) : Table(a \o Skew)[f] =
                <<Size(Table(a)) + Table(Skew)[f][1], Table(Skew)[f][2]>>
          /\ Size(Table(a \o Skew)) = Size(Table(a)) + Size(Table(Skew))
      BY <1>2, <2>1, Joined, Zenon
    <2> QED  BY <1>1, <2>2, SkewIs
  <1>4. DOMAIN Table(b) \cap DOMAIN Table(tail) = {}  BY <1>1, <1>3
  <1> HIDE DEF b
  <1>5. /\ IsLayout(c) /\ Size(Table(c)) = n + 36 + Size(Table(tail))
        /\ DOMAIN Table(c) = DOMAIN Table(b) \cup DOMAIN Table(tail)
        /\ \A f \in DOMAIN Table(b) : Table(c)[f] = Table(b)[f]
        /\ \A f \in DOMAIN Table(tail) :
             Table(c)[f] = <<n + 36 + Table(tail)[f][1], Table(tail)[f][2]>>
    <2>1. IsLayout(tail) /\ IsLayout(b)  BY <1>3
    <2>2. /\ IsLayout(b \o tail)
          /\ DOMAIN Table(b \o tail) = DOMAIN Table(b) \cup DOMAIN Table(tail)
          /\ \A f \in DOMAIN Table(b) : Table(b \o tail)[f] = Table(b)[f]
          /\ \A f \in DOMAIN Table(tail) : Table(b \o tail)[f] =
                <<Size(Table(b)) + Table(tail)[f][1], Table(tail)[f][2]>>
          /\ Size(Table(b \o tail)) = Size(Table(b)) + Size(Table(tail))
      BY <1>4, <2>1, Joined, Zenon
    <2> QED  BY <1>3, <2>2
  <1>6. WellLaid(Table(c))  BY <1>5, TableWellLaid
  <1>7. t = Table(c)  BY DEF a, b
  <1> HIDE DEF c
  <1> QED  BY <1>1, <1>3, <1>5, <1>6, <1>7 DEF IsPriced

(* The layout of a pool.                                                   *)
LEMMA PoolStateIs ==
    IsPriced(PoolHead, PoolTail, 242, PoolState) /\ Size(PoolState) = 331
  <1>1. PoolState = Table(PoolHead \o Depth \o Skew \o PoolTail)
    BY DEF PoolState, PoolHead, PoolTail
  <1>2. /\ DOMAIN Table(PoolHead) \cap DOMAIN Table(Depth) = {}
        /\ DOMAIN Table(PoolHead) \cap DOMAIN Table(Skew) = {}
        /\ DOMAIN Table(PoolHead) \cap DOMAIN Table(PoolTail) = {}
        /\ DOMAIN Table(Depth) \cap DOMAIN Table(PoolTail) = {}
        /\ DOMAIN Table(Skew) \cap DOMAIN Table(PoolTail) = {}
    BY PoolHeadIs, DepthIs, SkewIs, PoolTailIs
  <1>3. IsLayout(PoolHead) /\ IsLayout(PoolTail)  BY PoolHeadIs, PoolTailIs
  <1>4. Size(Table(PoolHead)) = 242 /\ Size(Table(PoolTail)) = 53  BY PoolHeadIs, PoolTailIs
  <1>5. IsPriced(PoolHead, PoolTail, 242, PoolState)
    BY <1>1, <1>2, <1>3, <1>4, Priced
  <1> QED  BY <1>4, <1>5 DEF IsPriced

(* The arguments of init_pool, as the SDK writes them.                     *)
LEMMA InitPoolArgsAre ==
    IsPriced(InitHead, InitTail, 74, InitPoolArgs) /\ EncodeInitPool = InitPoolArgs
  <1>1. InitPoolArgs = Table(InitHead \o Depth \o Skew \o InitTail)
    BY DEF InitPoolArgs, InitHead, InitTail
  <1>2. /\ DOMAIN Table(InitHead) \cap DOMAIN Table(Depth) = {}
        /\ DOMAIN Table(InitHead) \cap DOMAIN Table(Skew) = {}
        /\ DOMAIN Table(InitHead) \cap DOMAIN Table(InitTail) = {}
        /\ DOMAIN Table(Depth) \cap DOMAIN Table(InitTail) = {}
        /\ DOMAIN Table(Skew) \cap DOMAIN Table(InitTail) = {}
    BY InitHeadIs, DepthIs, SkewIs, InitTailIs
  <1>3. EncodeInitPool = InitPoolArgs
    BY DEF EncodeInitPool, InitPoolArgs, SdkDepth, SdkSkew, Depth, Skew
  <1>4. IsLayout(InitHead) /\ IsLayout(InitTail)  BY InitHeadIs, InitTailIs
  <1>5. Size(Table(InitHead)) = 74 /\ Size(Table(InitTail)) = 1  BY InitHeadIs, InitTailIs
  <1> QED  BY <1>1, <1>2, <1>3, <1>4, <1>5, Priced

(* The arguments of update_oracle, as the SDK writes them.                 *)
LEMMA UpdateOracleArgsAre ==
    /\ IsPriced(UpdateHead, UpdateTail, 10, EncodeUpdateOracle)
    /\ Size(EncodeUpdateOracle) = 55
  <1>1. EncodeUpdateOracle = Table(UpdateHead \o Depth \o Skew \o UpdateTail)
    BY DEF EncodeUpdateOracle, SdkDepth, SdkSkew, Depth, Skew, UpdateHead, UpdateTail
  <1>2. /\ DOMAIN Table(UpdateHead) \cap DOMAIN Table(Depth) = {}
        /\ DOMAIN Table(UpdateHead) \cap DOMAIN Table(Skew) = {}
        /\ DOMAIN Table(UpdateHead) \cap DOMAIN Table(UpdateTail) = {}
        /\ DOMAIN Table(Depth) \cap DOMAIN Table(UpdateTail) = {}
        /\ DOMAIN Table(Skew) \cap DOMAIN Table(UpdateTail) = {}
    BY UpdateHeadIs, DepthIs, SkewIs, UpdateTailIs
  <1>3. IsLayout(UpdateHead) /\ IsLayout(UpdateTail)  BY UpdateHeadIs, UpdateTailIs
  <1>4. Size(Table(UpdateHead)) = 10 /\ Size(Table(UpdateTail)) = 9
    BY UpdateHeadIs, UpdateTailIs
  <1>5. IsPriced(UpdateHead, UpdateTail, 10, EncodeUpdateOracle)
    BY <1>1, <1>2, <1>3, <1>4, Priced
  <1> QED  BY <1>4, <1>5 DEF IsPriced

(* The fields around the terms of a quote, and a key by itself.            *)
SignatureField == << <<"signature", 64>> >>
KeyField == << <<"key", 32>> >>

(* SwapTerms as a layout.                                                  *)
LEMMA SwapTermsIs ==
    /\ IsLayout(SwapTerms) /\ Size(Table(SwapTerms)) = 18
    /\ DOMAIN Table(SwapTerms) =
        {"swap_input", "side", "min_output", "some"}
    /\ Table(SwapTerms).some = <<17, 1>>
  <1>1. IsLayout(SwapTerms)
    <2>1. SwapTerms \in Seq(Range(SwapTerms))  BY DEF SwapTerms, Range
    <2>2. \A i \in DOMAIN SwapTerms : SwapTerms[i][2] \in Nat \ {0}  BY DEF SwapTerms
    <2>3. \A i, j \in DOMAIN SwapTerms : SwapTerms[i][1] = SwapTerms[j][1] => i = j  BY DEF SwapTerms
    <2> QED  BY <2>1, <2>2, <2>3 DEF IsLayout
  <1>2. PICK e : IsEnds(SwapTerms, e)  BY <1>1, EndsExist, Zenon
  <1>3. e[0] = 0 /\ e[3] = 17 /\ e[4] = 18  BY <1>2 DEF IsEnds, SwapTerms
  <1>4. Len(SwapTerms) = 4 /\ DOMAIN SwapTerms = 1 .. 4  BY DEF SwapTerms
  <1>5. Size(Table(SwapTerms)) = 18
    <2>1. Size(Table(SwapTerms)) = e[Len(SwapTerms)]  BY <1>1, <1>2, TableExtent, Zenon
    <2> QED  BY <1>3, <1>4, <2>1
  <1>6. DOMAIN Table(SwapTerms) =
        {"swap_input", "side", "min_output", "some"}
    <2>1. DOMAIN Table(SwapTerms) = {SwapTerms[i][1] : i \in 1 .. 4}
      BY <1>1, <1>2, <1>4, TableFacts
    <2>2. {SwapTerms[i][1] : i \in 1 .. 4} =
        {"swap_input", "side", "min_output", "some"}
      BY DEF SwapTerms
    <2> QED  BY <2>1, <2>2, Zenon
  <1>7. Table(SwapTerms).some = <<17, 1>>
    <2>1. 4 \in DOMAIN SwapTerms /\ SwapTerms[4] = <<"some", 1>>  BY DEF SwapTerms
    <2>2. Table(SwapTerms)["some"] = <<e[3], 1>>  BY <1>1, <1>2, <2>1, FieldIs
    <2> QED  BY <1>3, <2>2
  <1> QED  BY <1>1, <1>5, <1>6, <1>7

(* QuoteTerms as a layout.                                                 *)
LEMMA QuoteTermsIs ==
    /\ IsLayout(QuoteTerms) /\ Size(Table(QuoteTerms)) = 97
    /\ DOMAIN Table(QuoteTerms) =
        {"pool", "user", "direction", "input_amount", "price", "expiry_slot", "nonce"}
    /\ Table(QuoteTerms).expiry_slot = <<81, 8>>
    /\ Table(QuoteTerms).nonce = <<89, 8>>
  <1>1. IsLayout(QuoteTerms)
    <2>1. QuoteTerms \in Seq(Range(QuoteTerms))  BY DEF QuoteTerms, Range
    <2>2. \A i \in DOMAIN QuoteTerms : QuoteTerms[i][2] \in Nat \ {0}  BY DEF QuoteTerms
    <2>3. \A i, j \in DOMAIN QuoteTerms : QuoteTerms[i][1] = QuoteTerms[j][1] => i = j  BY DEF QuoteTerms
    <2> QED  BY <2>1, <2>2, <2>3 DEF IsLayout
  <1>2. PICK e : IsEnds(QuoteTerms, e)  BY <1>1, EndsExist, Zenon
  <1>3. e[0] = 0 /\ e[5] = 81 /\ e[6] = 89 /\ e[7] = 97  BY <1>2 DEF IsEnds, QuoteTerms
  <1>4. Len(QuoteTerms) = 7 /\ DOMAIN QuoteTerms = 1 .. 7  BY DEF QuoteTerms
  <1>5. Size(Table(QuoteTerms)) = 97
    <2>1. Size(Table(QuoteTerms)) = e[Len(QuoteTerms)]  BY <1>1, <1>2, TableExtent, Zenon
    <2> QED  BY <1>3, <1>4, <2>1
  <1>6. DOMAIN Table(QuoteTerms) =
        {"pool", "user", "direction", "input_amount", "price", "expiry_slot", "nonce"}
    <2>1. DOMAIN Table(QuoteTerms) = {QuoteTerms[i][1] : i \in 1 .. 7}
      BY <1>1, <1>2, <1>4, TableFacts
    <2>2. {QuoteTerms[i][1] : i \in 1 .. 7} =
        {"pool", "user", "direction", "input_amount", "price", "expiry_slot", "nonce"}
      BY DEF QuoteTerms
    <2> QED  BY <2>1, <2>2, Zenon
  <1>7. Table(QuoteTerms).expiry_slot = <<81, 8>>
    <2>1. 6 \in DOMAIN QuoteTerms /\ QuoteTerms[6] = <<"expiry_slot", 8>>  BY DEF QuoteTerms
    <2>2. Table(QuoteTerms)["expiry_slot"] = <<e[5], 8>>  BY <1>1, <1>2, <2>1, FieldIs
    <2> QED  BY <1>3, <2>2
  <1>8. Table(QuoteTerms).nonce = <<89, 8>>
    <2>1. 7 \in DOMAIN QuoteTerms /\ QuoteTerms[7] = <<"nonce", 8>>  BY DEF QuoteTerms
    <2>2. Table(QuoteTerms)["nonce"] = <<e[6], 8>>  BY <1>1, <1>2, <2>1, FieldIs
    <2> QED  BY <1>3, <2>2
  <1> QED  BY <1>1, <1>5, <1>6, <1>7, <1>8

(* SignatureField as a layout.                                             *)
LEMMA SignatureFieldIs ==
    /\ IsLayout(SignatureField) /\ Size(Table(SignatureField)) = 64
    /\ DOMAIN Table(SignatureField) =
        {"signature"}
  <1>1. IsLayout(SignatureField)
    <2>1. SignatureField \in Seq(Range(SignatureField))  BY DEF SignatureField, Range
    <2>2. \A i \in DOMAIN SignatureField : SignatureField[i][2] \in Nat \ {0}  BY DEF SignatureField
    <2>3. \A i, j \in DOMAIN SignatureField : SignatureField[i][1] = SignatureField[j][1] => i = j  BY DEF SignatureField
    <2> QED  BY <2>1, <2>2, <2>3 DEF IsLayout
  <1>2. PICK e : IsEnds(SignatureField, e)  BY <1>1, EndsExist, Zenon
  <1>3. e[0] = 0 /\ e[1] = 64  BY <1>2 DEF IsEnds, SignatureField
  <1>4. Len(SignatureField) = 1 /\ DOMAIN SignatureField = 1 .. 1  BY DEF SignatureField
  <1>5. Size(Table(SignatureField)) = 64
    <2>1. Size(Table(SignatureField)) = e[Len(SignatureField)]  BY <1>1, <1>2, TableExtent, Zenon
    <2> QED  BY <1>3, <1>4, <2>1
  <1>6. DOMAIN Table(SignatureField) =
        {"signature"}
    <2>1. DOMAIN Table(SignatureField) = {SignatureField[i][1] : i \in 1 .. 1}
      BY <1>1, <1>2, <1>4, TableFacts
    <2>2. {SignatureField[i][1] : i \in 1 .. 1} =
        {"signature"}
      BY DEF SignatureField
    <2> QED  BY <2>1, <2>2, Zenon
  <1> QED  BY <1>1, <1>5, <1>6

(* SdkQuoteTerms as a layout.                                              *)
LEMMA SdkQuoteTermsIs ==
    /\ IsLayout(SdkQuoteTerms) /\ Size(Table(SdkQuoteTerms)) = 161
    /\ DOMAIN Table(SdkQuoteTerms) =
        {"pool", "user", "direction", "input_amount", "price", "expiry_slot", "nonce",
         "signature"}
    /\ Table(SdkQuoteTerms).expiry_slot = <<81, 8>>
    /\ Table(SdkQuoteTerms).nonce = <<89, 8>>
  <1>1. IsLayout(SdkQuoteTerms)
    <2>1. SdkQuoteTerms \in Seq(Range(SdkQuoteTerms))  BY DEF SdkQuoteTerms, Range
    <2>2. \A i \in DOMAIN SdkQuoteTerms : SdkQuoteTerms[i][2] \in Nat \ {0}  BY DEF SdkQuoteTerms
    <2>3. \A i, j \in DOMAIN SdkQuoteTerms : SdkQuoteTerms[i][1] = SdkQuoteTerms[j][1] => i = j  BY DEF SdkQuoteTerms
    <2> QED  BY <2>1, <2>2, <2>3 DEF IsLayout
  <1>2. PICK e : IsEnds(SdkQuoteTerms, e)  BY <1>1, EndsExist, Zenon
  <1>3. e[0] = 0 /\ e[5] = 81 /\ e[6] = 89 /\ e[8] = 161  BY <1>2 DEF IsEnds, SdkQuoteTerms
  <1>4. Len(SdkQuoteTerms) = 8 /\ DOMAIN SdkQuoteTerms = 1 .. 8  BY DEF SdkQuoteTerms
  <1>5. Size(Table(SdkQuoteTerms)) = 161
    <2>1. Size(Table(SdkQuoteTerms)) = e[Len(SdkQuoteTerms)]  BY <1>1, <1>2, TableExtent, Zenon
    <2> QED  BY <1>3, <1>4, <2>1
  <1>6. DOMAIN Table(SdkQuoteTerms) =
        {"pool", "user", "direction", "input_amount", "price", "expiry_slot", "nonce",
         "signature"}
    <2>1. DOMAIN Table(SdkQuoteTerms) = {SdkQuoteTerms[i][1] : i \in 1 .. 8}
      BY <1>1, <1>2, <1>4, TableFacts
    <2>2. {SdkQuoteTerms[i][1] : i \in 1 .. 8} =
        {"pool", "user", "direction", "input_amount", "price", "expiry_slot", "nonce",
         "signature"}
      BY DEF SdkQuoteTerms
    <2> QED  BY <2>1, <2>2, Zenon
  <1>7. Table(SdkQuoteTerms).expiry_slot = <<81, 8>>
    <2>1. 6 \in DOMAIN SdkQuoteTerms /\ SdkQuoteTerms[6] = <<"expiry_slot", 8>>  BY DEF SdkQuoteTerms
    <2>2. Table(SdkQuoteTerms)["expiry_slot"] = <<e[5], 8>>  BY <1>1, <1>2, <2>1, FieldIs
    <2> QED  BY <1>3, <2>2
  <1>8. Table(SdkQuoteTerms).nonce = <<89, 8>>
    <2>1. 7 \in DOMAIN SdkQuoteTerms /\ SdkQuoteTerms[7] = <<"nonce", 8>>  BY DEF SdkQuoteTerms
    <2>2. Table(SdkQuoteTerms)["nonce"] = <<e[6], 8>>  BY <1>1, <1>2, <2>1, FieldIs
    <2> QED  BY <1>3, <2>2
  <1> QED  BY <1>1, <1>5, <1>6, <1>7, <1>8

(* KeyField as a layout.                                                   *)
LEMMA KeyFieldIs ==
    /\ IsLayout(KeyField) /\ Size(Table(KeyField)) = 32
    /\ DOMAIN Table(KeyField) =
        {"key"}
    /\ Table(KeyField).key = <<0, 32>>
  <1>1. IsLayout(KeyField)
    <2>1. KeyField \in Seq(Range(KeyField))  BY DEF KeyField, Range
    <2>2. \A i \in DOMAIN KeyField : KeyField[i][2] \in Nat \ {0}  BY DEF KeyField
    <2>3. \A i, j \in DOMAIN KeyField : KeyField[i][1] = KeyField[j][1] => i = j  BY DEF KeyField
    <2> QED  BY <2>1, <2>2, <2>3 DEF IsLayout
  <1>2. PICK e : IsEnds(KeyField, e)  BY <1>1, EndsExist, Zenon
  <1>3. e[0] = 0 /\ e[1] = 32  BY <1>2 DEF IsEnds, KeyField
  <1>4. Len(KeyField) = 1 /\ DOMAIN KeyField = 1 .. 1  BY DEF KeyField
  <1>5. Size(Table(KeyField)) = 32
    <2>1. Size(Table(KeyField)) = e[Len(KeyField)]  BY <1>1, <1>2, TableExtent, Zenon
    <2> QED  BY <1>3, <1>4, <2>1
  <1>6. DOMAIN Table(KeyField) =
        {"key"}
    <2>1. DOMAIN Table(KeyField) = {KeyField[i][1] : i \in 1 .. 1}
      BY <1>1, <1>2, <1>4, TableFacts
    <2>2. {KeyField[i][1] : i \in 1 .. 1} =
        {"key"}
      BY DEF KeyField
    <2> QED  BY <2>1, <2>2, Zenon
  <1>7. Table(KeyField).key = <<0, 32>>
    <2>1. 1 \in DOMAIN KeyField /\ KeyField[1] = <<"key", 32>>  BY DEF KeyField
    <2>2. Table(KeyField)["key"] = <<e[0], 32>>  BY <1>1, <1>2, <2>1, FieldIs
    <2> QED  BY <1>3, <2>2
  <1> QED  BY <1>1, <1>5, <1>6, <1>7

(* The arguments of execute_swap: where the program looks for the nonce    *)
(* and the expiry of a quote.                                              *)
LEMMA SwapArgsAre ==
    /\ ExecuteSwapArgs(TRUE).expiry_slot = <<99, 8>> /\ ExecuteSwapArgs(TRUE).nonce = <<107, 8>>
    /\ {"expiry_slot", "nonce"} \subseteq DOMAIN ExecuteSwapArgs(TRUE)
  <1> DEFINE quoted == SwapTerms \o QuoteTerms
  <1>1. DOMAIN Table(SwapTerms) \cap DOMAIN Table(QuoteTerms) = {}  BY SwapTermsIs, QuoteTermsIs
  <1>2. /\ IsLayout(quoted) /\ DOMAIN Table(quoted) = DOMAIN Table(SwapTerms) \cup DOMAIN Table(QuoteTerms)
        /\ \A f \in DOMAIN Table(QuoteTerms) : Table(quoted)[f] =
                <<Size(Table(SwapTerms)) + Table(QuoteTerms)[f][1], Table(QuoteTerms)[f][2]>>
    BY <1>1, SwapTermsIs, QuoteTermsIs, Joined
  <1>3. /\ Table(quoted).expiry_slot = <<99, 8>> /\ Table(quoted).nonce = <<107, 8>>
        /\ {"expiry_slot", "nonce"} \subseteq DOMAIN Table(quoted)
    BY <1>2, SwapTermsIs, QuoteTermsIs
  <1>4. DOMAIN Table(quoted) \cap DOMAIN Table(SignatureField) = {}
    BY <1>2, SwapTermsIs, QuoteTermsIs, SignatureFieldIs
  <1> HIDE DEF quoted
  <1>5. /\ DOMAIN Table(quoted \o SignatureField) =
                DOMAIN Table(quoted) \cup DOMAIN Table(SignatureField)
        /\ \A f \in DOMAIN Table(quoted) : Table(quoted \o SignatureField)[f] = Table(quoted)[f]
    <2>1. IsLayout(quoted) /\ IsLayout(SignatureField)  BY <1>2, SignatureFieldIs
    <2> QED  BY <1>4, <2>1, Joined, Zenon
  <1>6. ExecuteSwapArgs(TRUE) = Table(quoted \o SignatureField)
    BY DEF ExecuteSwapArgs, quoted, SignatureField
  <1>7. "expiry_slot" \in DOMAIN Table(quoted) /\ "nonce" \in DOMAIN Table(quoted)  BY <1>3
  <1>8. /\ ExecuteSwapArgs(TRUE)["expiry_slot"] = Table(quoted)["expiry_slot"]
        /\ ExecuteSwapArgs(TRUE)["nonce"] = Table(quoted)["nonce"]
        /\ "expiry_slot" \in DOMAIN ExecuteSwapArgs(TRUE) /\ "nonce" \in DOMAIN ExecuteSwapArgs(TRUE)
    BY <1>5, <1>6, <1>7, Zenon
  <1> QED  BY <1>3, <1>8

(* What the SDK writes for it with a quote, and without.                   *)
LEMMA SwapEncodingIs ==
    /\ WellLaid(EncodeExecuteSwap(TRUE)) /\ WellLaid(EncodeExecuteSwap(FALSE))
    /\ EncodeExecuteSwap(TRUE).some = <<17, 1>> /\ EncodeExecuteSwap(FALSE).some = <<17, 1>>
    /\ EncodeExecuteSwap(TRUE).expiry_slot = <<99, 8>>
    /\ EncodeExecuteSwap(TRUE).nonce = <<107, 8>>
    /\ {"some", "expiry_slot", "nonce"} \subseteq DOMAIN EncodeExecuteSwap(TRUE)
    /\ "some" \in DOMAIN EncodeExecuteSwap(FALSE)
  <1>1. DOMAIN Table(SwapTerms) \cap DOMAIN Table(SdkQuoteTerms) = {}
    BY SwapTermsIs, SdkQuoteTermsIs
  <1>2. EncodeExecuteSwap(TRUE) = Table(SwapTerms \o SdkQuoteTerms)
    BY Zenon DEF EncodeExecuteSwap, SwapTerms
  <1>3. EncodeExecuteSwap(FALSE) = Table(SwapTerms)
    <2>1. SwapTerms \o << >> = SwapTerms
      <3>1. SwapTerms \in Seq(Range(SwapTerms))  BY SwapTermsIs DEF IsLayout
      <3> QED  BY <3>1
    <2>2. EncodeExecuteSwap(FALSE) = Table(SwapTerms \o << >>)
      BY Zenon DEF EncodeExecuteSwap, SwapTerms
    <2> QED  BY <2>1, <2>2
  <1> DEFINE quoted == SwapTerms \o SdkQuoteTerms
  <1>4. /\ IsLayout(quoted)
        /\ DOMAIN Table(quoted) = DOMAIN Table(SwapTerms) \cup DOMAIN Table(SdkQuoteTerms)
        /\ \A f \in DOMAIN Table(SwapTerms) : Table(quoted)[f] = Table(SwapTerms)[f]
        /\ \A f \in DOMAIN Table(SdkQuoteTerms) : Table(quoted)[f] =
                <<Size(Table(SwapTerms)) + Table(SdkQuoteTerms)[f][1], Table(SdkQuoteTerms)[f][2]>>
    <2>1. IsLayout(SwapTerms) /\ IsLayout(SdkQuoteTerms)
      BY SwapTermsIs, SdkQuoteTermsIs
    <2> QED  BY <1>1, <2>1, Joined
  <1>5. /\ Table(quoted).some = <<17, 1>> /\ Table(quoted).expiry_slot = <<99, 8>>
        /\ Table(quoted).nonce = <<107, 8>>
        /\ {"some", "expiry_slot", "nonce"} \subseteq DOMAIN Table(quoted)
    BY <1>4, SwapTermsIs, SdkQuoteTermsIs
  <1>6. WellLaid(Table(quoted)) /\ WellLaid(Table(SwapTerms))
    BY <1>4, SwapTermsIs, TableWellLaid
  <1> HIDE DEF quoted
  <1> QED  BY <1>2, <1>3, <1>5, <1>6, SwapTermsIs DEF quoted

(* A key as the only argument.                                             *)
LEMMA KeyArgIs ==
    /\ EncodeKey = KeyArg /\ WellLaid(KeyArg)
    /\ DOMAIN KeyArg = {"key"} /\ KeyArg.key = <<0, 32>>
  <1>1. KeyArg = Table(KeyField) /\ EncodeKey = Table(KeyField)  BY DEF KeyArg, EncodeKey, KeyField
  <1>2. WellLaid(Table(KeyField))  BY KeyFieldIs, TableWellLaid
  <1> QED  BY <1>1, <1>2, KeyFieldIs

----------------------------------------------------------------------------
(* Bytes. *)

(* Bytes packed by a table hold the value of every field at its place.     *)
LEMMA PackIs ==
    ASSUME NEW t, WellLaid(t), NEW v
    PROVE  /\ DOMAIN Pack(t, v) = Range(t)
           /\ \A f \in DOMAIN t : t[f] \in Range(t) /\ Pack(t, v)[t[f]] = v[f]
  <1>1. DOMAIN Pack(t, v) = Range(t)  BY DEF Pack
  <1>2. ASSUME NEW f \in DOMAIN t PROVE t[f] \in Range(t) /\ Pack(t, v)[t[f]] = v[f]
    <2>1. t[f] \in Range(t)  BY DEF Range
    <2>2. ASSUME NEW g \in DOMAIN t, t[g] = t[f] PROVE g = f
      <3>1. t[f][1] \in Nat /\ t[f][2] \in Nat \ {0}  BY DEF WellLaid
      <3>2. ~ Apart(t[g], t[f])  BY <2>2, <3>1 DEF Apart
      <3> QED  BY <3>2 DEF WellLaid
    <2>3. (CHOOSE g \in DOMAIN t : t[g] = t[f]) = f  BY <2>2
    <2>4. Pack(t, v)[t[f]] = v[CHOOSE g \in DOMAIN t : t[g] = t[f]]  BY <2>1 DEF Pack
    <2> QED  BY <2>1, <2>3, <2>4
  <1> QED  BY <1>1, <1>2

(* Bytes that hold a proper value for every field of a table, and no more. *)
Holds(t, b) == DOMAIN b = Range(t) /\ \A f \in DOMAIN t : b[t[f]] # Garbage

(* They are read back and decoded in full.                                 *)
LEMMA HeldIsRead ==
    ASSUME NEW t, NEW b, Holds(t, b)
    PROVE  /\ Fits(t, b)
           /\ DOMAIN Unpack(t, b) = DOMAIN t
           /\ \A f \in DOMAIN t :
                /\ Read(b, t[f]) = b[t[f]] /\ Unpack(t, b)[f] = b[t[f]]
                /\ Unpack(t, b)[f] # Garbage
           /\ Garbage \notin Range(Unpack(t, b))
  <1>1. DOMAIN b = Range(t)  BY DEF Holds
  <1>2. Fits(t, b)  BY <1>1 DEF Fits
  <1>3. ASSUME NEW f \in DOMAIN t
        PROVE  /\ Read(b, t[f]) = b[t[f]] /\ Unpack(t, b)[f] = b[t[f]]
               /\ Unpack(t, b)[f] # Garbage
    <2>1. t[f] \in DOMAIN b  BY <1>1 DEF Range
    <2> QED  BY <2>1 DEF Read, Unpack, Holds
  <1>4. DOMAIN Unpack(t, b) = DOMAIN t  BY DEF Unpack
  <1>5. Garbage \notin Range(Unpack(t, b))  BY <1>3, <1>4 DEF Range
  <1> QED  BY <1>2, <1>3, <1>4, <1>5

(* A record of proper values, packed, is held.                             *)
LEMMA PackedIsHeld ==
    ASSUME NEW t, WellLaid(t), NEW v, \A f \in DOMAIN t : v[f] # Garbage
    PROVE  Holds(t, Pack(t, v)) /\ \A f \in DOMAIN t : Pack(t, v)[t[f]] = v[f]
  BY PackIs DEF Holds

----------------------------------------------------------------------------
(* Accounts. *)

(* What the data b of an account at address a has to be: complete under    *)
(* the layout of one type, with that type's discriminator, the address     *)
(* derived from the contents, and the bump that goes with the address.     *)
PoolBytes(a, b) ==
    /\ Holds(PoolState, b) /\ b[PoolState.discriminator] = Discriminator.pool_state
    /\ a = PoolPda(b[PoolState.base_mint], b[PoolState.quote_mint])
    /\ b[PoolState.bump] = Bump(a)
ProposalBytes(a, b) ==
    /\ Holds(AdminRotationProposal, b)
    /\ b[AdminRotationProposal.discriminator] = Discriminator.admin_rotation_proposal
    /\ a = ProposalPda(b[AdminRotationProposal.pool])
    /\ b[AdminRotationProposal.bump] = Bump(a)
MarkerBytes(a, b) ==
    /\ Holds(QuoteNonceMarker, b)
    /\ b[QuoteNonceMarker.discriminator] = Discriminator.quote_nonce_marker
    /\ a = MarkerPda(b[QuoteNonceMarker.pool], b[QuoteNonceMarker.nonce])
    /\ b[QuoteNonceMarker.bump] = Bump(a)

(* An account of one of the three types; all accounts are.                 *)
Whole(a, b) == PoolBytes(a, b) \/ ProposalBytes(a, b) \/ MarkerBytes(a, b)
AllWhole(data) == \A a \in DOMAIN data : Whole(a, data[a])

(* The inductive invariant. It adds to AccountsIntact that an account      *)
(* holds the fields of its type and nothing else, so that its length tells *)
(* its type, and that a slot is a number, which no update can spoil.       *)
WireInv == slot \in Nat /\ AllWhole(accounts)

(* The fields the invariant is about.                                      *)
LEMMA PoolNames ==
    /\ WellLaid(PoolState) /\ PoolState.discriminator = <<0, 8>>
    /\ DOMAIN PoolState =
        {"discriminator", "admin", "authorized_oracle_signer", "authorized_quote_signer",
         "base_mint", "quote_mint", "base_vault", "quote_vault", "fair_value",
         "spread_bps", "depth_coef_bps", "size_unit", "max_depth_bps", "depth_reserved",
         "target_base_bps", "skew_coef_bps", "max_skew_offset_bps", "skew_reserved",
         "last_oracle_update_slot", "oracle_nonce", "current_mode_ttl", "bump",
         "base_vault_bump", "quote_vault_bump", "paused", "reserved"}
  <1>1. /\ DOMAIN PoolState = DOMAIN Table(PoolHead) \cup DOMAIN Table(Depth)
                                \cup DOMAIN Table(Skew) \cup DOMAIN Table(PoolTail)
        /\ \A f \in DOMAIN Table(PoolHead) : PoolState[f] = Table(PoolHead)[f]
        /\ WellLaid(PoolState)
    BY PoolStateIs DEF IsPriced
  <1>2. PoolState.discriminator = <<0, 8>>  BY <1>1, PoolHeadIs
  <1>3. DOMAIN PoolState =
        {"discriminator", "admin", "authorized_oracle_signer", "authorized_quote_signer",
         "base_mint", "quote_mint", "base_vault", "quote_vault", "fair_value",
         "spread_bps", "depth_coef_bps", "size_unit", "max_depth_bps", "depth_reserved",
         "target_base_bps", "skew_coef_bps", "max_skew_offset_bps", "skew_reserved",
         "last_oracle_update_slot", "oracle_nonce", "current_mode_ttl", "bump",
         "base_vault_bump", "quote_vault_bump", "paused", "reserved"}
    BY <1>1, PoolHeadIs, DepthIs, SkewIs, PoolTailIs
  <1> QED  BY <1>1, <1>2, <1>3

(* The fields of a proposal, and its length.                               *)
LEMMA ProposalNames ==
    /\ WellLaid(AdminRotationProposal) /\ Size(AdminRotationProposal) = 120
    /\ AdminRotationProposal.discriminator = <<0, 8>>
    /\ DOMAIN AdminRotationProposal =
        {"discriminator", "pool", "proposed_by", "new_admin", "created_slot", "bump",
         "reserved"}
  <1>1. AdminRotationProposal = Table(ProposalFields)
    BY DEF AdminRotationProposal, ProposalFields
  <1>2. WellLaid(Table(ProposalFields))  BY ProposalFieldsIs, TableWellLaid
  <1> QED  BY <1>1, <1>2, ProposalFieldsIs

(* The fields of a nonce marker, and its length.                           *)
LEMMA MarkerNames ==
    /\ WellLaid(QuoteNonceMarker) /\ Size(QuoteNonceMarker) = 64
    /\ QuoteNonceMarker.discriminator = <<0, 8>>
    /\ DOMAIN QuoteNonceMarker =
        {"discriminator", "pool", "nonce", "expiry_slot", "bump", "reserved"}
  <1>1. QuoteNonceMarker = Table(MarkerFields)  BY DEF QuoteNonceMarker, MarkerFields
  <1>2. WellLaid(Table(MarkerFields))  BY MarkerFieldsIs, TableWellLaid
  <1> QED  BY <1>1, <1>2, MarkerFieldsIs

(* Whole accounts are intact.                                              *)
LEMMA WholeIsIntact ==
    ASSUME AllWhole(accounts)
    PROVE  AccountsIntact
  <1> SUFFICES ASSUME NEW a \in DOMAIN accounts
               PROVE  \/ /\ LoadsPool(a) /\ Garbage \notin Range(PoolAt(a))
                         /\ AtPda(a, PoolPda(PoolAt(a).base_mint, PoolAt(a).quote_mint),
                                  PoolAt(a).bump)
                      \/ /\ LoadsProposal(a) /\ Garbage \notin Range(ProposalAt(a))
                         /\ AtPda(a, ProposalPda(ProposalAt(a).pool), ProposalAt(a).bump)
                      \/ /\ LoadsMarker(a) /\ Garbage \notin Range(MarkerAt(a))
                         /\ AtPda(a, MarkerPda(MarkerAt(a).pool, MarkerAt(a).nonce),
                                  MarkerAt(a).bump)
    BY DEF AccountsIntact
  <1> DEFINE b == accounts[a]
  <1>1. CASE PoolBytes(a, b)
    <2>1. Holds(PoolState, b)  BY <1>1 DEF PoolBytes
    <2>2. {"discriminator", "base_mint", "quote_mint", "bump"} \subseteq DOMAIN PoolState
      BY PoolNames
    <2>3. Fits(PoolState, b) /\ Garbage \notin Range(Unpack(PoolState, b))  BY <2>1, HeldIsRead
    <2>4. /\ Read(b, PoolState.discriminator) = b[PoolState.discriminator]
          /\ Unpack(PoolState, b).base_mint = b[PoolState.base_mint]
          /\ Unpack(PoolState, b).quote_mint = b[PoolState.quote_mint]
          /\ Unpack(PoolState, b).bump = b[PoolState.bump]
      BY <2>1, <2>2, HeldIsRead
    <2>5. LoadsPool(a)  BY <1>1, <2>3, <2>4, PoolNames DEF LoadsPool, Loads, PoolBytes
    <2> QED  BY <1>1, <2>3, <2>4, <2>5 DEF PoolAt, AtPda, PoolBytes
  <1>2. CASE ProposalBytes(a, b)
    <2>1. Holds(AdminRotationProposal, b)  BY <1>2 DEF ProposalBytes
    <2>2. {"discriminator", "pool", "bump"} \subseteq DOMAIN AdminRotationProposal
      BY ProposalNames
    <2>3. /\ Fits(AdminRotationProposal, b)
          /\ Garbage \notin Range(Unpack(AdminRotationProposal, b))
      BY <2>1, HeldIsRead
    <2>4. /\ Read(b, AdminRotationProposal.discriminator)
                = b[AdminRotationProposal.discriminator]
          /\ Unpack(AdminRotationProposal, b).pool = b[AdminRotationProposal.pool]
          /\ Unpack(AdminRotationProposal, b).bump = b[AdminRotationProposal.bump]
      BY <2>1, <2>2, HeldIsRead
    <2>5. LoadsProposal(a)
      BY <1>2, <2>3, <2>4, ProposalNames DEF LoadsProposal, Loads, ProposalBytes
    <2> QED  BY <1>2, <2>3, <2>4, <2>5 DEF ProposalAt, AtPda, ProposalBytes
  <1>3. CASE MarkerBytes(a, b)
    <2>1. Holds(QuoteNonceMarker, b)  BY <1>3 DEF MarkerBytes
    <2>2. {"discriminator", "pool", "nonce", "bump"} \subseteq DOMAIN QuoteNonceMarker
      BY MarkerNames
    <2>3. Fits(QuoteNonceMarker, b) /\ Garbage \notin Range(Unpack(QuoteNonceMarker, b))
      BY <2>1, HeldIsRead
    <2>4. /\ Read(b, QuoteNonceMarker.discriminator) = b[QuoteNonceMarker.discriminator]
          /\ Unpack(QuoteNonceMarker, b).pool = b[QuoteNonceMarker.pool]
          /\ Unpack(QuoteNonceMarker, b).nonce = b[QuoteNonceMarker.nonce]
          /\ Unpack(QuoteNonceMarker, b).bump = b[QuoteNonceMarker.bump]
      BY <2>1, <2>2, HeldIsRead
    <2>5. LoadsMarker(a)  BY <1>3, <2>3, <2>4, MarkerNames DEF LoadsMarker, Loads, MarkerBytes
    <2> QED  BY <1>3, <2>3, <2>4, <2>5 DEF MarkerAt, AtPda, MarkerBytes
  <1> QED  BY <1>1, <1>2, <1>3 DEF AllWhole, Whole

(* An account that loads as a pool is one: discriminators differ.          *)
LEMMA LoadedIsPool ==
    ASSUME AllWhole(accounts), NEW a, LoadsPool(a)
    PROVE  a \in DOMAIN accounts /\ PoolBytes(a, accounts[a])
  <1> DEFINE b == accounts[a]
  <1>1. a \in DOMAIN accounts /\ Read(b, <<0, 8>>) = 1
    BY DEF LoadsPool, Loads, Discriminator
  <1>2. Whole(a, b)  BY <1>1 DEF AllWhole
  <1>3. ~ ProposalBytes(a, b)
    <2>1. SUFFICES ASSUME ProposalBytes(a, b) PROVE FALSE  OBVIOUS
    <2>2. Holds(AdminRotationProposal, b) /\ b[AdminRotationProposal.discriminator] = 3
      BY <2>1 DEF ProposalBytes, Discriminator
    <2>3. "discriminator" \in DOMAIN AdminRotationProposal  BY ProposalNames
    <2>4. Read(b, AdminRotationProposal.discriminator) = 3  BY <2>2, <2>3, HeldIsRead
    <2> QED  BY <1>1, <2>4, ProposalNames
  <1>4. ~ MarkerBytes(a, b)
    <2>1. SUFFICES ASSUME MarkerBytes(a, b) PROVE FALSE  OBVIOUS
    <2>2. Holds(QuoteNonceMarker, b) /\ b[QuoteNonceMarker.discriminator] = 2
      BY <2>1 DEF MarkerBytes, Discriminator
    <2>3. "discriminator" \in DOMAIN QuoteNonceMarker  BY MarkerNames
    <2>4. Read(b, QuoteNonceMarker.discriminator) = 2  BY <2>2, <2>3, HeldIsRead
    <2> QED  BY <1>1, <2>4, MarkerNames
  <1> QED  BY <1>1, <1>2, <1>3, <1>4 DEF Whole

(* Storing a whole account keeps all accounts whole ...                    *)
LEMMA WrittenIsWhole ==
    ASSUME NEW data, AllWhole(data), NEW a, NEW b, Whole(a, b)
    PROVE  AllWhole(Written(a, b, data))
  <1> SUFFICES ASSUME NEW c \in DOMAIN Written(a, b, data)
               PROVE  Whole(c, Written(a, b, data)[c])
    BY DEF AllWhole
  <1>1. CASE c = a  BY <1>1 DEF Written
  <1>2. CASE c # a  BY <1>2 DEF Written, AllWhole
  <1> QED  BY <1>1, <1>2

(* ... and so does closing one.                                            *)
LEMMA ClosedIsWhole ==
    ASSUME AllWhole(accounts), NEW a
    PROVE  AllWhole(Closed(a))
  BY DEF AllWhole, Closed

(* Reserved bytes are written as zeros.                                    *)
LEMMA ZerosAre ==
    ASSUME NEW t, NEW r, \A f \in DOMAIN t \ Reserved : f \in DOMAIN r /\ r[f] # Garbage
    PROVE  \A f \in DOMAIN t : WithZeros(r)[f] # Garbage
                                /\ (f \notin Reserved => WithZeros(r)[f] = r[f])
  <1> SUFFICES ASSUME NEW f \in DOMAIN t
               PROVE  WithZeros(r)[f] # Garbage /\ (f \notin Reserved => WithZeros(r)[f] = r[f])
    OBVIOUS
  <1>1. CASE f \in Reserved
    <2>1. WithZeros(r)[f] = 0  BY <1>1 DEF WithZeros
    <2>2. Garbage # 0  BY WireValues
    <2> QED  BY <1>1, <2>1, <2>2
  <1>2. CASE f \notin Reserved
    <2>1. WithZeros(r)[f] = r[f]  BY <1>2 DEF WithZeros
    <2> QED  BY <1>2, <2>1
  <1> QED  BY <1>1, <1>2

(* What makes the record written a pool.                                   *)
LEMMA PoolWritten ==
    ASSUME NEW a, NEW r,
           \A f \in DOMAIN PoolState \ Reserved : f \in DOMAIN r /\ r[f] # Garbage,
           r.discriminator = Discriminator.pool_state,
           a = PoolPda(r.base_mint, r.quote_mint), r.bump = Bump(a)
    PROVE  Whole(a, Pack(PoolState, WithZeros(r)))
  <1> DEFINE v == WithZeros(r)
  <1>1. \A f \in DOMAIN PoolState : v[f] # Garbage /\ (f \notin Reserved => v[f] = r[f])
    BY ZerosAre
  <1> HIDE DEF v
  <1>2. /\ Holds(PoolState, Pack(PoolState, v))
        /\ \A f \in DOMAIN PoolState : Pack(PoolState, v)[PoolState[f]] = v[f]
    BY <1>1, PoolNames, PackedIsHeld
  <1>3. {"discriminator", "base_mint", "quote_mint", "bump"} \subseteq DOMAIN PoolState \ Reserved
    BY PoolNames DEF Reserved
  <1>4. /\ Pack(PoolState, v)[PoolState.discriminator] = r.discriminator
        /\ Pack(PoolState, v)[PoolState.base_mint] = r.base_mint
        /\ Pack(PoolState, v)[PoolState.quote_mint] = r.quote_mint
        /\ Pack(PoolState, v)[PoolState.bump] = r.bump
    BY <1>1, <1>2, <1>3
  <1> QED  BY <1>2, <1>4 DEF Whole, PoolBytes, v

(* What makes the record written a proposal.                               *)
LEMMA ProposalWritten ==
    ASSUME NEW a, NEW r,
           \A f \in DOMAIN AdminRotationProposal \ Reserved : f \in DOMAIN r /\ r[f] # Garbage,
           r.discriminator = Discriminator.admin_rotation_proposal,
           a = ProposalPda(r.pool), r.bump = Bump(a)
    PROVE  Whole(a, Pack(AdminRotationProposal, WithZeros(r)))
  <1> DEFINE v == WithZeros(r)
             t == AdminRotationProposal
  <1>1. \A f \in DOMAIN t : v[f] # Garbage /\ (f \notin Reserved => v[f] = r[f])
    BY ZerosAre
  <1> HIDE DEF v
  <1>2. Holds(t, Pack(t, v)) /\ \A f \in DOMAIN t : Pack(t, v)[t[f]] = v[f]
    BY <1>1, ProposalNames, PackedIsHeld
  <1>3. {"discriminator", "pool", "bump"} \subseteq DOMAIN t \ Reserved
    BY ProposalNames DEF Reserved
  <1>4. /\ Pack(t, v)[t.discriminator] = r.discriminator
        /\ Pack(t, v)[t.pool] = r.pool /\ Pack(t, v)[t.bump] = r.bump
    BY <1>1, <1>2, <1>3
  <1> QED  BY <1>2, <1>4 DEF Whole, ProposalBytes, v

(* What makes the record written a marker.                                 *)
LEMMA MarkerWritten ==
    ASSUME NEW a, NEW r,
           \A f \in DOMAIN QuoteNonceMarker \ Reserved : f \in DOMAIN r /\ r[f] # Garbage,
           r.discriminator = Discriminator.quote_nonce_marker,
           a = MarkerPda(r.pool, r.nonce), r.bump = Bump(a)
    PROVE  Whole(a, Pack(QuoteNonceMarker, WithZeros(r)))
  <1> DEFINE v == WithZeros(r)
             t == QuoteNonceMarker
  <1>1. \A f \in DOMAIN t : v[f] # Garbage /\ (f \notin Reserved => v[f] = r[f])
    BY ZerosAre
  <1> HIDE DEF v
  <1>2. Holds(t, Pack(t, v)) /\ \A f \in DOMAIN t : Pack(t, v)[t[f]] = v[f]
    BY <1>1, MarkerNames, PackedIsHeld
  <1>3. {"discriminator", "pool", "nonce", "bump"} \subseteq DOMAIN t \ Reserved
    BY MarkerNames DEF Reserved
  <1>4. /\ Pack(t, v)[t.discriminator] = r.discriminator /\ Pack(t, v)[t.pool] = r.pool
        /\ Pack(t, v)[t.nonce] = r.nonce /\ Pack(t, v)[t.bump] = r.bump
    BY <1>1, <1>2, <1>3
  <1> QED  BY <1>2, <1>4 DEF Whole, MarkerBytes, v

(* Changing a field of a pool that says nothing of its address.            *)
LEMMA PoolEdited ==
    ASSUME AllWhole(accounts), NEW a, LoadsPool(a), NEW field, NEW value, value # Garbage,
           field \notin {"discriminator", "base_mint", "quote_mint", "bump"}
    PROVE  Whole(a, Pack(PoolState, WithZeros([PoolAt(a) EXCEPT ![field] = value])))
  <1> DEFINE pool == PoolAt(a)
             r == [pool EXCEPT ![field] = value]
  <1>1. PoolBytes(a, accounts[a])  BY LoadedIsPool
  <1>2. /\ DOMAIN pool = DOMAIN PoolState
        /\ \A f \in DOMAIN PoolState : pool[f] = accounts[a][PoolState[f]] /\ pool[f] # Garbage
    BY <1>1, HeldIsRead DEF PoolBytes, PoolAt
  <1>3. {"discriminator", "base_mint", "quote_mint", "bump"} \subseteq DOMAIN PoolState
    BY PoolNames
  <1>4. /\ pool.discriminator = Discriminator.pool_state
        /\ a = PoolPda(pool.base_mint, pool.quote_mint) /\ pool.bump = Bump(a)
    BY <1>1, <1>2, <1>3 DEF PoolBytes
  <1> HIDE DEF pool
  <1>5. \A f \in DOMAIN PoolState : f \in DOMAIN r /\ r[f] # Garbage  BY <1>2
  <1>6. /\ r.discriminator = pool.discriminator /\ r.base_mint = pool.base_mint
        /\ r.quote_mint = pool.quote_mint /\ r.bump = pool.bump
    BY <1>2, <1>3
  <1> HIDE DEF r
  <1>7. Whole(a, Pack(PoolState, WithZeros(r)))  BY <1>4, <1>5, <1>6, PoolWritten
  <1> QED  BY <1>7 DEF r, pool

----------------------------------------------------------------------------
(* Handlers. *)

(* set_paused writes one field of a pool.                                  *)
LEMMA SetPausedKeepsWhole ==
    ASSUME AllWhole(accounts), NEW ix, NEW o \in SetPaused(ix)
    PROVE  AllWhole(o.accounts)
  <1> DEFINE p == IF Read(ix.data, PausedArg.paused) = 0 THEN 0 ELSE 1
             a == Key(ix, 2)
  <1>1. LoadsPool(a)  BY DEF SetPaused, Outcome, FromAdmin
  <1>2. o.accounts = Written(a, Pack(PoolState, WithZeros([PoolAt(a) EXCEPT !["paused"] = p])), accounts)
    BY DEF SetPaused, Outcome, Stored
  <1>3. p # Garbage  BY WireValues
  <1> HIDE DEF p, a
  <1>4. Whole(a, Pack(PoolState, WithZeros([PoolAt(a) EXCEPT !["paused"] = p])))
    BY <1>1, <1>3, PoolEdited
  <1> QED  BY <1>2, <1>4, WrittenIsWhole

(* So do rotate_oracle_signer and rotate_quote_signer, ...                 *)
LEMMA RotateSignerKeepsWhole ==
    ASSUME AllWhole(accounts), NEW ix, Read(ix.data, KeyArg.key) # Garbage,
           NEW field \in {"authorized_oracle_signer", "authorized_quote_signer"}, NEW event,
           NEW o \in RotateSigner(ix, field, event)
    PROVE  AllWhole(o.accounts)
  <1> DEFINE new == Read(ix.data, KeyArg.key)
             a == Key(ix, 2)
  <1>1. LoadsPool(a)  BY DEF RotateSigner, Outcome, FromAdmin
  <1>2. o.accounts = Written(a, Pack(PoolState, WithZeros([PoolAt(a) EXCEPT ![field] = new])), accounts)
    BY DEF RotateSigner, Outcome, Stored
  <1> HIDE DEF new, a
  <1>3. Whole(a, Pack(PoolState, WithZeros([PoolAt(a) EXCEPT ![field] = new])))
    <2>1. new # Garbage  BY DEF new
    <2> QED  BY <1>1, <2>1, PoolEdited
  <1> QED  BY <1>2, <1>3, WrittenIsWhole

(* ... rotate_admin, ...                                                   *)
LEMMA RotateAdminKeepsWhole ==
    ASSUME AllWhole(accounts), NEW ix, Read(ix.data, KeyArg.key) # Garbage,
           NEW o \in RotateAdmin(ix)
    PROVE  AllWhole(o.accounts)
  <1> DEFINE new == Read(ix.data, KeyArg.key)
             a == Key(ix, 2)
  <1>1. LoadsPool(a)  BY DEF RotateAdmin, Outcome, FromAdmin
  <1>2. o.accounts = Written(a, Pack(PoolState, WithZeros([PoolAt(a) EXCEPT !["admin"] = new])), accounts)
    BY DEF RotateAdmin, Outcome, Stored
  <1> HIDE DEF new, a
  <1>3. Whole(a, Pack(PoolState, WithZeros([PoolAt(a) EXCEPT !["admin"] = new])))
    <2>1. new # Garbage  BY DEF new
    <2> QED  BY <1>1, <2>1, PoolEdited
  <1> QED  BY <1>2, <1>3, WrittenIsWhole

(* ... and accept_admin, which closes the proposal as well.                *)
LEMMA AcceptAdminKeepsWhole ==
    ASSUME AllWhole(accounts), NEW ix, Key(ix, 1) # Garbage, NEW o \in AcceptAdmin(ix)
    PROVE  AllWhole(o.accounts)
  <1> DEFINE new == Key(ix, 1)
             a == Key(ix, 2)
             c == Closed(Key(ix, 3))
  <1>1. LoadsPool(a)  BY DEF AcceptAdmin, Outcome
  <1>2. o.accounts = Written(a, Pack(PoolState, WithZeros([PoolAt(a) EXCEPT !["admin"] = new])), c)
    BY DEF AcceptAdmin, Outcome
  <1>3. AllWhole(c)  BY ClosedIsWhole
  <1> HIDE DEF new, a, c
  <1>4. Whole(a, Pack(PoolState, WithZeros([PoolAt(a) EXCEPT !["admin"] = new])))
    <2>1. new # Garbage  BY DEF new
    <2> QED  BY <1>1, <2>1, PoolEdited
  <1> QED  BY <1>2, <1>3, <1>4, WrittenIsWhole

(* cancel_admin_proposal and close_expired_nonce close an account and      *)
(* write none, admin_withdraw_inventory does not touch the accounts of the *)
(* program.                                                                *)
LEMMA ClosingKeepsWhole ==
    ASSUME AllWhole(accounts), NEW ix,
           NEW o \in Withdraw(ix) \cup CloseExpiredNonce(ix) \cup CancelAdminProposal(ix)
    PROVE  AllWhole(o.accounts)
  <1>1. CASE o \in Withdraw(ix)
    <2>1. o.accounts = accounts  BY <1>1 DEF Withdraw, Outcome
    <2> QED  BY <2>1
  <1>2. CASE o \in CloseExpiredNonce(ix)
    <2>1. o.accounts = Closed(Key(ix, 3))  BY <1>2 DEF CloseExpiredNonce, Outcome
    <2> QED  BY <2>1, ClosedIsWhole
  <1>3. CASE o \in CancelAdminProposal(ix)
    <2>1. o.accounts = Closed(Key(ix, 3))  BY <1>3 DEF CancelAdminProposal, Outcome
    <2> QED  BY <2>1, ClosedIsWhole
  <1> QED  BY <1>1, <1>2, <1>3

(* A new proposal is whole.                                                *)
LEMMA ProposeAdminKeepsWhole ==
    ASSUME WireInv, NEW ix, Read(ix.data, KeyArg.key) # Garbage,
           Key(ix, 1) # Garbage, Key(ix, 2) # Garbage,
           Bump(ProposalPda(Key(ix, 2))) # Garbage, NEW o \in ProposeAdmin(ix)
    PROVE  AllWhole(o.accounts)
  <1> DEFINE new == Read(ix.data, KeyArg.key)
             k == Key(ix, 1)
             a == Key(ix, 2)
             pda == ProposalPda(a)
             r == [discriminator |-> Discriminator.admin_rotation_proposal, pool |-> a,
                   proposed_by |-> k, new_admin |-> new, created_slot |-> slot,
                   bump |-> Bump(pda)]
  <1>1. o.accounts = Written(pda, Pack(AdminRotationProposal, WithZeros(r)), accounts)
    BY DEF ProposeAdmin, Outcome, Stored
  <1>2. /\ new # Garbage /\ k # Garbage /\ a # Garbage /\ Bump(pda) # Garbage
        /\ slot # Garbage /\ Discriminator.admin_rotation_proposal # Garbage
    BY WireValues DEF WireInv, Discriminator
  <1>3. AllWhole(accounts)  BY DEF WireInv
  <1> HIDE DEF new, k, a
  <1>4. \A f \in DOMAIN AdminRotationProposal \ Reserved : f \in DOMAIN r /\ r[f] # Garbage
    BY <1>2, ProposalNames DEF Reserved
  <1>5. /\ r.discriminator = Discriminator.admin_rotation_proposal
        /\ pda = ProposalPda(r.pool) /\ r.bump = Bump(pda)
    OBVIOUS
  <1> HIDE DEF r, pda
  <1>6. Whole(pda, Pack(AdminRotationProposal, WithZeros(r)))
    BY <1>4, <1>5, ProposalWritten
  <1> QED  BY <1>1, <1>3, <1>6, WrittenIsWhole

(* A new pool is whole.                                                    *)
LEMMA InitPoolKeepsWhole ==
    ASSUME WireInv, NEW ix,
           \A f \in DOMAIN InitPoolArgs : Read(ix.data, InitPoolArgs[f]) # Garbage,
           \A i \in {1, 3, 4, 5, 6} : Key(ix, i) # Garbage,
           Bump(Key(ix, 5)) # Garbage, Bump(Key(ix, 6)) # Garbage,
           Bump(PoolPda(Key(ix, 3), Key(ix, 4))) # Garbage, NEW o \in InitPool(ix)
    PROVE  AllWhole(o.accounts)
  <1> DEFINE args == Unpack(InitPoolArgs, ix.data)
             pda == PoolPda(Key(ix, 3), Key(ix, 4))
             new == [discriminator |-> Discriminator.pool_state, admin |-> Key(ix, 1),
                     base_mint |-> Key(ix, 3), quote_mint |-> Key(ix, 4),
                     base_vault |-> Key(ix, 5), quote_vault |-> Key(ix, 6),
                     last_oracle_update_slot |-> slot, oracle_nonce |-> 0,
                     bump |-> Bump(pda), base_vault_bump |-> Bump(Key(ix, 5)),
                     quote_vault_bump |-> Bump(Key(ix, 6)), paused |-> 0]
             r == Plus(args, new)
  <1>1. o.accounts = Written(pda, Pack(PoolState, WithZeros(r)), accounts)
    BY DEF InitPool, Outcome, Stored
  <1>2. DOMAIN args = DOMAIN InitPoolArgs /\ \A f \in DOMAIN args : args[f] # Garbage
    BY DEF Unpack
  <1>3. DOMAIN args =
        {"authorized_oracle_signer", "authorized_quote_signer", "fair_value", "spread_bps",
         "depth_coef_bps", "size_unit", "max_depth_bps", "depth_reserved",
         "target_base_bps", "skew_coef_bps", "max_skew_offset_bps", "skew_reserved",
         "current_mode_ttl"}
    <2>1. DOMAIN InitPoolArgs = DOMAIN Table(InitHead) \cup DOMAIN Table(Depth)
                                \cup DOMAIN Table(Skew) \cup DOMAIN Table(InitTail)
      BY InitPoolArgsAre DEF IsPriced
    <2> QED  BY <1>2, <2>1, InitHeadIs, DepthIs, SkewIs, InitTailIs
  <1>4. /\ slot # Garbage /\ 0 # Garbage /\ Discriminator.pool_state # Garbage
        /\ Key(ix, 1) # Garbage /\ Key(ix, 3) # Garbage /\ Key(ix, 4) # Garbage
        /\ Key(ix, 5) # Garbage /\ Key(ix, 6) # Garbage
    BY WireValues DEF WireInv, Discriminator
  <1>5. /\ DOMAIN new =
            {"discriminator", "admin", "base_mint", "quote_mint", "base_vault", "quote_vault",
             "last_oracle_update_slot", "oracle_nonce", "bump", "base_vault_bump",
             "quote_vault_bump", "paused"}
        /\ \A f \in DOMAIN new : new[f] # Garbage
    BY <1>4
  <1>6. /\ new.discriminator = Discriminator.pool_state
        /\ pda = PoolPda(new.base_mint, new.quote_mint) /\ new.bump = Bump(pda)
    OBVIOUS
  <1>7. AllWhole(accounts)  BY DEF WireInv
  <1> HIDE DEF args, new, pda
  <1>8. DOMAIN r = DOMAIN args \cup DOMAIN new  BY DEF Plus
  <1>9. /\ \A f \in DOMAIN r : r[f] # Garbage
        /\ \A f \in DOMAIN new \ DOMAIN args : r[f] = new[f]
    BY <1>2, <1>5 DEF Plus
  <1> HIDE DEF r
  <1>10. DOMAIN PoolState \ Reserved \subseteq DOMAIN args \cup DOMAIN new
    BY <1>3, <1>5, PoolNames DEF Reserved
  <1>11. {"discriminator", "base_mint", "quote_mint", "bump"} \subseteq DOMAIN new \ DOMAIN args
    BY <1>3, <1>5
  <1>12. /\ r.discriminator = Discriminator.pool_state
         /\ pda = PoolPda(r.base_mint, r.quote_mint) /\ r.bump = Bump(pda)
    BY <1>6, <1>9, <1>11
  <1>13. Whole(pda, Pack(PoolState, WithZeros(r)))
    BY <1>8, <1>9, <1>10, <1>12, PoolWritten
  <1> QED  BY <1>1, <1>7, <1>13, WrittenIsWhole

(* New values, all proper, for fields of a table other than those kept.    *)
Spares(t, kept, new) ==
    \A p \in DOMAIN new : new[p] # Garbage /\ \E f \in DOMAIN t \ kept : p = t[f]

(* Writing over whole fields of a table keeps the others.                  *)
LEMMA OverlayIs ==
    ASSUME NEW t, WellLaid(t), NEW b, Holds(t, b), NEW kept, NEW new, Spares(t, kept, new)
    PROVE  /\ Holds(t, Overlay(b, new))
           /\ \A f \in DOMAIN t \cap kept : Overlay(b, new)[t[f]] = b[t[f]]
  <1> DEFINE after == Overlay(b, new)
             covered(p) == \E q \in DOMAIN new : p[1] < q[1] + q[2] /\ q[1] < p[1] + p[2]
             stay == {p \in DOMAIN b : ~ covered(p)}
  <1> USE DEF Spares
  <1>1. after = [p \in stay \cup DOMAIN new |-> IF p \in DOMAIN new THEN new[p] ELSE b[p]]
    BY DEF Overlay
  <1>2. DOMAIN b = Range(t) /\ \A f \in DOMAIN t : t[f] \in Range(t)  BY DEF Holds, Range
  <1>3. ASSUME NEW p \in Range(t), covered(p) PROVE p \in DOMAIN new
    <2>1. PICK q \in DOMAIN new : p[1] < q[1] + q[2] /\ q[1] < p[1] + p[2]  BY <1>3
    <2>2. PICK f \in DOMAIN t : p = t[f]  BY DEF Range
    <2>3. PICK g \in DOMAIN t : q = t[g]  OBVIOUS
    <2>4. /\ t[f][1] \in Nat /\ t[f][2] \in Nat /\ t[g][1] \in Nat /\ t[g][2] \in Nat
      BY DEF WellLaid
    <2>5. ~ Apart(t[f], t[g])  BY <2>1, <2>2, <2>3, <2>4 DEF Apart
    <2>6. f = g  BY <2>5 DEF WellLaid
    <2> QED  BY <2>2, <2>3, <2>6
  <1>4. DOMAIN new \subseteq Range(t)  BY <1>2
  <1> HIDE DEF covered
  <1>5. stay \cup DOMAIN new = Range(t)  BY <1>2, <1>3, <1>4
  <1> HIDE DEF stay, after
  <1>6. /\ DOMAIN after = Range(t)
        /\ \A p \in Range(t) : after[p] = IF p \in DOMAIN new THEN new[p] ELSE b[p]
    BY <1>1, <1>5
  <1>7. ASSUME NEW f \in DOMAIN t PROVE after[t[f]] # Garbage
    BY <1>2, <1>6 DEF Holds
  <1>8. ASSUME NEW f \in DOMAIN t \cap kept PROVE after[t[f]] = b[t[f]]
    <2>1. ASSUME t[f] \in DOMAIN new PROVE FALSE
      <3>1. PICK g \in DOMAIN t \ kept : t[f] = t[g]  BY <2>1
      <3>2. t[f][1] \in Nat /\ t[f][2] \in Nat \ {0}  BY DEF WellLaid
      <3>3. ~ Apart(t[f], t[g])  BY <3>1, <3>2 DEF Apart
      <3>4. f # g  OBVIOUS
      <3> QED  BY <3>3, <3>4 DEF WellLaid
    <2> QED  BY <1>2, <1>6, <2>1
  <1> QED  BY <1>6, <1>7, <1>8 DEF Holds, after

(* The fields that say which account a pool is.                            *)
Identity == {"discriminator", "base_mint", "quote_mint", "bump"}

(* Where a priced field lies in the arguments of update_oracle and in a    *)
(* pool: 232 bytes apart, so that one copy moves all ten.                  *)
LEMMA PricesAlign ==
    ASSUME NEW f \in DOMAIN EncodeUpdateOracle,
           NEW x, x = EncodeUpdateOracle[f][1], NEW w, w = EncodeUpdateOracle[f][2],
           x + w <= 46
    PROVE  /\ x \in Nat /\ w \in Nat /\ EncodeUpdateOracle[f] = <<x, w>>
           /\ f \in DOMAIN PoolState \ Identity
           /\ PoolState[f] = <<x + 232, w>>
  <1> DEFINE t == EncodeUpdateOracle
  <1>1. /\ WellLaid(t)
        /\ DOMAIN t = DOMAIN Table(UpdateHead) \cup DOMAIN Table(Depth)
                        \cup DOMAIN Table(Skew) \cup DOMAIN Table(UpdateTail)
        /\ \A g \in DOMAIN Table(UpdateHead) : t[g] = Table(UpdateHead)[g]
        /\ \A g \in DOMAIN Table(Depth) : t[g] = <<10 + Table(Depth)[g][1], Table(Depth)[g][2]>>
        /\ \A g \in DOMAIN Table(Skew) : t[g] = <<10 + 20 + Table(Skew)[g][1], Table(Skew)[g][2]>>
        /\ \A g \in DOMAIN Table(UpdateTail) :
                t[g] = <<10 + 36 + Table(UpdateTail)[g][1], Table(UpdateTail)[g][2]>>
    BY UpdateOracleArgsAre DEF IsPriced
  <1>2. /\ \A g \in DOMAIN Table(PoolHead) : PoolState[g] = Table(PoolHead)[g]
        /\ \A g \in DOMAIN Table(Depth) :
                PoolState[g] = <<242 + Table(Depth)[g][1], Table(Depth)[g][2]>>
        /\ \A g \in DOMAIN Table(Skew) :
                PoolState[g] = <<242 + 20 + Table(Skew)[g][1], Table(Skew)[g][2]>>
    BY PoolStateIs DEF IsPriced
  <1>3. t[f] = <<x, w>> /\ x \in Nat /\ w \in Nat \ {0}  BY <1>1 DEF WellLaid
  <1>4. CASE f \in DOMAIN Table(UpdateHead)
    <2>1. CASE f = "fair_value"
      <3>1. t[f] = <<0, 8>>  BY <1>1, <1>4, <2>1, UpdateHeadIs
      <3>2. PoolState[f] = <<232, 8>>  BY <1>2, <2>1, PoolHeadIs
      <3> QED  BY <1>3, <2>1, <3>1, <3>2, PoolNames DEF Identity
    <2>2. CASE f = "spread_bps"
      <3>1. t[f] = <<8, 2>>  BY <1>1, <1>4, <2>2, UpdateHeadIs
      <3>2. PoolState[f] = <<240, 2>>  BY <1>2, <2>2, PoolHeadIs
      <3> QED  BY <1>3, <2>2, <3>1, <3>2, PoolNames DEF Identity
    <2> QED  BY <1>4, <2>1, <2>2, UpdateHeadIs
  <1>5. CASE f \in DOMAIN Table(Depth)
    <2>1. WellLaid(Table(Depth))  BY DepthIs, TableWellLaid
    <2>2. Table(Depth)[f][1] \in Nat /\ Table(Depth)[f][2] \in Nat  BY <1>5, <2>1 DEF WellLaid
    <2>3. x = 10 + Table(Depth)[f][1] /\ w = Table(Depth)[f][2]  BY <1>1, <1>3, <1>5
    <2>4. PoolState[f] = <<242 + Table(Depth)[f][1], Table(Depth)[f][2]>>  BY <1>2, <1>5
    <2>5. f \in DOMAIN PoolState \ Identity  BY <1>5, DepthIs, PoolNames DEF Identity
    <2> QED  BY <1>3, <2>2, <2>3, <2>4, <2>5
  <1>6. CASE f \in DOMAIN Table(Skew)
    <2>1. WellLaid(Table(Skew))  BY SkewIs, TableWellLaid
    <2>2. Table(Skew)[f][1] \in Nat /\ Table(Skew)[f][2] \in Nat  BY <1>6, <2>1 DEF WellLaid
    <2>3. x = 30 + Table(Skew)[f][1] /\ w = Table(Skew)[f][2]  BY <1>1, <1>3, <1>6
    <2>4. PoolState[f] = <<262 + Table(Skew)[f][1], Table(Skew)[f][2]>>  BY <1>2, <1>6
    <2>5. f \in DOMAIN PoolState \ Identity  BY <1>6, SkewIs, PoolNames DEF Identity
    <2> QED  BY <1>3, <2>2, <2>3, <2>4, <2>5
  <1>7. CASE f \in DOMAIN Table(UpdateTail)
    <2>1. WellLaid(Table(UpdateTail))  BY UpdateTailIs, TableWellLaid
    <2>2. Table(UpdateTail)[f][1] \in Nat /\ Table(UpdateTail)[f][2] \in Nat \ {0}
      BY <1>7, <2>1 DEF WellLaid
    <2>3. x = 46 + Table(UpdateTail)[f][1] /\ w = Table(UpdateTail)[f][2]  BY <1>1, <1>3, <1>7
    <2> QED  BY <2>2, <2>3
  <1> QED  BY <1>1, <1>4, <1>5, <1>6, <1>7

(* What update_oracle copies over falls on priced fields of a pool.        *)
LEMMA CopiedIs ==
    ASSUME NEW b, Holds(EncodeUpdateOracle, b), NEW p \in DOMAIN Copied(b, 46, 232)
    PROVE  /\ Copied(b, 46, 232)[p] # Garbage
           /\ \E f \in DOMAIN PoolState \ Identity : p = PoolState[f]
  <1> DEFINE moved == {q \in DOMAIN b : q[1] + q[2] <= 46}
  <1>1. Copied(b, 46, 232) = [r \in {<<q[1] + 232, q[2]>> : q \in moved} |->
                                b[<<r[1] - 232, r[2]>>]]
    BY DEF Copied
  <1>2. PICK q \in DOMAIN b : q[1] + q[2] <= 46 /\ p = <<q[1] + 232, q[2]>>  BY <1>1
  <1>3. PICK f \in DOMAIN EncodeUpdateOracle : q = EncodeUpdateOracle[f]
    BY DEF Holds, Range
  <1>4. /\ q[1] \in Nat /\ q[2] \in Nat /\ q = <<q[1], q[2]>>
        /\ f \in DOMAIN PoolState \ Identity /\ PoolState[f] = <<q[1] + 232, q[2]>>
    BY <1>2, <1>3, PricesAlign
  <1>5. Copied(b, 46, 232)[p] = b[<<p[1] - 232, p[2]>>]  BY <1>1
  <1>6. <<p[1] - 232, p[2]>> = q  BY <1>2, <1>4
  <1>7. b[q] # Garbage  BY <1>3 DEF Holds
  <1> QED  BY <1>2, <1>4, <1>5, <1>6, <1>7

(* What it writes over after that: the slot, the nonce, the lifetime.      *)
LEMMA StampIs ==
    ASSUME NEW v, v.last_oracle_update_slot # Garbage, v.oracle_nonce # Garbage,
           v.current_mode_ttl # Garbage,
           NEW t, t = Restrict(ZeroCopy,
                        {"last_oracle_update_slot", "oracle_nonce", "current_mode_ttl"}),
           NEW p \in DOMAIN Pack(t, v)
    PROVE  Pack(t, v)[p] # Garbage /\ \E f \in DOMAIN PoolState \ Identity : p = PoolState[f]
  <1>1. /\ DOMAIN t = {"last_oracle_update_slot", "oracle_nonce", "current_mode_ttl"}
        /\ t.last_oracle_update_slot = <<278, 8>> /\ t.oracle_nonce = <<286, 8>>
        /\ t.current_mode_ttl = <<294, 1>>
    BY DEF Restrict, ZeroCopy
  <1>2. WellLaid(t)  BY <1>1 DEF WellLaid, Apart
  <1>3. PICK f \in DOMAIN t : p = t[f]
    <2>1. DOMAIN Pack(t, v) = Range(t)  BY <1>2, PackIs
    <2> QED  BY <2>1 DEF Range
  <1>4. Pack(t, v)[p] = v[f]  BY <1>2, <1>3, PackIs
  <1>5. \A g \in DOMAIN Table(PoolTail) :
            PoolState[g] = <<242 + 36 + Table(PoolTail)[g][1], Table(PoolTail)[g][2]>>
    BY PoolStateIs DEF IsPriced
  <1>6. f \in DOMAIN Table(PoolTail)  BY <1>1, <1>3, PoolTailIs
  <1>7. PoolState[f] = t[f]
    <2>1. CASE f = "last_oracle_update_slot"  BY <1>1, <1>5, <1>6, <2>1, PoolTailIs
    <2>2. CASE f = "oracle_nonce"  BY <1>1, <1>5, <1>6, <2>2, PoolTailIs
    <2>3. CASE f = "current_mode_ttl"  BY <1>1, <1>5, <1>6, <2>3, PoolTailIs
    <2> QED  BY <1>1, <1>3, <2>1, <2>2, <2>3
  <1>8. f \in DOMAIN PoolState \ Identity  BY <1>1, <1>3, PoolNames DEF Identity
  <1>9. v[f] # Garbage  BY <1>1, <1>3
  <1> QED  BY <1>3, <1>4, <1>7, <1>8, <1>9

(* Only a pool is as long as update_oracle asks.                           *)
LEMMA LongIsPool ==
    ASSUME NEW a, NEW b, Whole(a, b), Extent(DOMAIN b) >= 331
    PROVE  PoolBytes(a, b)
  <1>1. ASSUME ProposalBytes(a, b) PROVE FALSE
    <2>1. Extent(DOMAIN b) = Size(AdminRotationProposal)  BY <1>1 DEF ProposalBytes, Holds, Size
    <2> QED  BY <2>1, ProposalNames
  <1>2. ASSUME MarkerBytes(a, b) PROVE FALSE
    <2>1. Extent(DOMAIN b) = Size(QuoteNonceMarker)  BY <1>2 DEF MarkerBytes, Holds, Size
    <2> QED  BY <2>1, MarkerNames
  <1> QED  BY <1>1, <1>2 DEF Whole

(* Written over where it is not Identity, a pool stays whole.              *)
LEMMA OverlaidPool ==
    ASSUME NEW a, NEW b, PoolBytes(a, b), NEW new, Spares(PoolState, Identity, new)
    PROVE  PoolBytes(a, Overlay(b, new))
  <1>1. /\ Holds(PoolState, Overlay(b, new))
        /\ \A f \in DOMAIN PoolState \cap Identity :
             Overlay(b, new)[PoolState[f]] = b[PoolState[f]]
    <2>1. WellLaid(PoolState) /\ Holds(PoolState, b)  BY PoolNames DEF PoolBytes
    <2> QED  BY <2>1, OverlayIs
  <1>2. Identity \subseteq DOMAIN PoolState  BY PoolNames DEF Identity
  <1>3. /\ Overlay(b, new)[PoolState.discriminator] = b[PoolState.discriminator]
        /\ Overlay(b, new)[PoolState.base_mint] = b[PoolState.base_mint]
        /\ Overlay(b, new)[PoolState.quote_mint] = b[PoolState.quote_mint]
        /\ Overlay(b, new)[PoolState.bump] = b[PoolState.bump]
    BY <1>1, <1>2 DEF Identity
  <1> QED  BY <1>1, <1>3 DEF PoolBytes

(* update_oracle, which neither decodes the account nor looks at its       *)
(* discriminator, leaves a whole pool.                                     *)
LEMMA UpdateOracleKeepsWhole ==
    ASSUME WireInv, NEW ix, Holds(EncodeUpdateOracle, ix.data), NEW o \in UpdateOracle(ix)
    PROVE  AllWhole(o.accounts)
  <1> DEFINE a == Key(ix, 2)
             data == accounts[a]
             args == Unpack(UpdateOracleArgs, ix.data)
             stamp == [last_oracle_update_slot |-> slot, oracle_nonce |-> args.oracle_nonce,
                       current_mode_ttl |-> args.current_mode_ttl]
             t == Restrict(ZeroCopy,
                    {"last_oracle_update_slot", "oracle_nonce", "current_mode_ttl"})
             priced == Overlay(data, Copied(ix.data, 46, 232))
  <1>1. a \in DOMAIN accounts /\ Extent(DOMAIN data) >= 331
    BY DEF UpdateOracle, Outcome
  <1>2. o.accounts = Written(a, Repriced(data, ix.data, args), accounts)
    BY DEF UpdateOracle, Outcome
  <1>3. Repriced(data, ix.data, args) = Overlay(priced, Pack(t, stamp))
    <2>1. ZeroCopy.fair_value[1] = 232  BY DEF ZeroCopy
    <2>2. Repriced(data, ix.data, args) =
            Overlay(Overlay(data, Copied(ix.data, 46, ZeroCopy.fair_value[1])), Pack(t, stamp))
      BY DEF Repriced
    <2> QED  BY <2>1, <2>2
  <1>4. AllWhole(accounts) /\ slot # Garbage  BY WireValues DEF WireInv
  <1>5. Whole(a, data)  BY <1>1, <1>4 DEF AllWhole
  <1>6. PoolBytes(a, data)  BY <1>1, <1>5, LongIsPool
  <1>7. args.oracle_nonce # Garbage /\ args.current_mode_ttl # Garbage
    <2>1. /\ \A g \in DOMAIN Table(UpdateTail) : EncodeUpdateOracle[g] =
                <<10 + 36 + Table(UpdateTail)[g][1], Table(UpdateTail)[g][2]>>
          /\ DOMAIN Table(UpdateTail) \subseteq DOMAIN EncodeUpdateOracle
      BY UpdateOracleArgsAre DEF IsPriced
    <2>2. /\ EncodeUpdateOracle.oracle_nonce = <<46, 8>>
          /\ EncodeUpdateOracle.current_mode_ttl = <<54, 1>>
          /\ {"oracle_nonce", "current_mode_ttl"} \subseteq DOMAIN EncodeUpdateOracle
      BY <2>1, UpdateTailIs
    <2>3. Read(ix.data, <<46, 8>>) # Garbage /\ Read(ix.data, <<54, 1>>) # Garbage
      BY <2>2, HeldIsRead DEF Holds
    <2>4. /\ args.oracle_nonce = Read(ix.data, <<46, 8>>)
          /\ args.current_mode_ttl = Read(ix.data, <<54, 1>>)
      BY DEF Unpack, UpdateOracleArgs
    <2> QED  BY <2>3, <2>4
  <1> HIDE DEF a, data, args
  <1>8. PoolBytes(a, priced)
    <2>1. Spares(PoolState, Identity, Copied(ix.data, 46, 232))  BY CopiedIs DEF Spares
    <2> QED  BY <1>6, <2>1, OverlaidPool
  <1>9. Spares(PoolState, Identity, Pack(t, stamp))
    <2>1. /\ stamp.last_oracle_update_slot # Garbage /\ stamp.oracle_nonce # Garbage
          /\ stamp.current_mode_ttl # Garbage
      BY <1>4, <1>7
    <2> HIDE DEF stamp
    <2> QED  BY <2>1, StampIs DEF Spares
  <1> HIDE DEF priced, t, stamp
  <1>10. PoolBytes(a, Overlay(priced, Pack(t, stamp)))  BY <1>8, <1>9, OverlaidPool
  <1> QED  BY <1>2, <1>3, <1>4, <1>10, WrittenIsWhole DEF Whole

(* A swap that is priced by a quote leaves a whole marker for its nonce.   *)
LEMMA ExecuteSwapKeepsWhole ==
    ASSUME WireInv, NEW ix, NEW quote, quote = Unpack(ExecuteSwapArgs(TRUE), ix.data),
           Read(ix.data, <<17, 1>>) = 1 =>
                /\ quote.nonce # Garbage /\ quote.expiry_slot # Garbage
                /\ Bump(MarkerPda(Key(ix, 2), quote.nonce)) # Garbage,
           Key(ix, 2) # Garbage, NEW o \in ExecuteSwap(ix)
    PROVE  AllWhole(o.accounts)
  <1> DEFINE some == Read(ix.data, <<17, 1>>) = 1
             args == Unpack(ExecuteSwapArgs(some), ix.data)
             a == Key(ix, 2)
             marker == MarkerPda(a, args.nonce)
             r == [discriminator |-> Discriminator.quote_nonce_marker, pool |-> a,
                   nonce |-> args.nonce, expiry_slot |-> args.expiry_slot,
                   bump |-> Bump(marker)]
  <1>1. \/ o.accounts = accounts
        \/ some /\ o.accounts = Written(marker, Pack(QuoteNonceMarker, WithZeros(r)), accounts)
    BY DEF ExecuteSwap, Outcome, Stored
  <1>2. AllWhole(accounts)  BY DEF WireInv
  <1>3. CASE some /\ o.accounts = Written(marker, Pack(QuoteNonceMarker, WithZeros(r)), accounts)
    <2>1. args = quote
      <3>1. some = TRUE  BY <1>3
      <3> HIDE DEF some
      <3> QED  BY <3>1
    <2> HIDE DEF args
    <2>2. /\ args.nonce # Garbage /\ args.expiry_slot # Garbage /\ Bump(marker) # Garbage
      BY <1>3, <2>1
    <2>3. a # Garbage /\ Discriminator.quote_nonce_marker # Garbage
      BY WireValues DEF Discriminator
    <2> HIDE DEF a, some
    <2>4. \A f \in DOMAIN QuoteNonceMarker \ Reserved : f \in DOMAIN r /\ r[f] # Garbage
      BY <2>2, <2>3, MarkerNames DEF Reserved
    <2>5. /\ r.discriminator = Discriminator.quote_nonce_marker
          /\ marker = MarkerPda(r.pool, r.nonce) /\ r.bump = Bump(marker)
      OBVIOUS
    <2> HIDE DEF r, marker
    <2>6. Whole(marker, Pack(QuoteNonceMarker, WithZeros(r)))  BY <2>4, <2>5, MarkerWritten
    <2> QED  BY <1>2, <1>3, <2>6, WrittenIsWhole
  <1> QED  BY <1>1, <1>2, <1>3

----------------------------------------------------------------------------
(* Calls. *)

(* The tag the SDK writes selects the handler it means.                    *)
LEMMA DispatchIs ==
    ASSUME NEW name \in DOMAIN InstructionTag, NEW ix, ix.tag = InstructionTag[name]
    PROVE  Dispatch[ix.tag + 1] = name
  BY DEF InstructionTag, Dispatch

(* What the SDK builds for a name.                                         *)
LEMMA InstructionIs ==
    ASSUME NEW name \in DOMAIN InstructionTag, NEW named, NEW table, NEW args,
           NEW ix, ix = Instruction(name, named, table, args)
    PROVE  /\ Dispatch[ix.tag + 1] = name
           /\ ix.data = Pack(table, WithZeros(args))
           /\ name = "init_pool" =>
                /\ Key(ix, 1) = named.admin /\ Key(ix, 2) = named.poolState
                /\ Key(ix, 3) = named.baseMint /\ Key(ix, 4) = named.quoteMint
                /\ Key(ix, 5) = named.baseVault /\ Key(ix, 6) = named.quoteVault
           /\ name = "execute_swap" => Key(ix, 2) = named.poolState
           /\ name = "propose_admin" =>
                Key(ix, 1) = named.admin /\ Key(ix, 2) = named.poolState
           /\ name = "accept_admin" => Key(ix, 1) = named.newAdmin
  <1>1. ix.tag = InstructionTag[name] /\ ix.data = Pack(table, WithZeros(args))
    BY DEF Instruction
  <1>2. Dispatch[ix.tag + 1] = name  BY <1>1, DispatchIs
  <1>3. ASSUME NEW spec, NEW i \in DOMAIN spec,
               ix.keys = [j \in DOMAIN spec |-> <<named[spec[j][1]], spec[j][2]>>]
        PROVE  Key(ix, i) = named[spec[i][1]]
    BY <1>3 DEF Key
  <1>4. name \in DOMAIN TradeSpecs => ix.keys = [j \in DOMAIN TradeSpecs[name] |->
            <<named[TradeSpecs[name][j][1]], TradeSpecs[name][j][2]>>]
    BY DEF Instruction
  <1>5. name \notin DOMAIN TradeSpecs => ix.keys = [j \in DOMAIN AdminSpecs[name] |->
            <<named[AdminSpecs[name][j][1]], AdminSpecs[name][j][2]>>]
    BY DEF Instruction
  <1>6. CASE name = "init_pool"
    <2>1. TradeSpecs[name] = << <<"admin", SW>>, <<"poolState", W>>, <<"baseMint", R>>,
            <<"quoteMint", R>>, <<"baseVault", W>>, <<"quoteVault", W>>,
            <<"tokenProgram", R>>, <<"systemProgram", R>>, <<"rent", R>> >>
          /\ name \in DOMAIN TradeSpecs
      BY <1>6 DEF TradeSpecs
    <2>2. \A i \in 1 .. 9 : Key(ix, i) = named[TradeSpecs[name][i][1]]
      <3>1. DOMAIN TradeSpecs[name] = 1 .. 9  BY <2>1
      <3>2. \A i \in DOMAIN TradeSpecs[name] : Key(ix, i) = named[TradeSpecs[name][i][1]]
        BY <1>3, <1>4, <2>1, Zenon
      <3> QED  BY <3>1, <3>2, Zenon
    <2> QED  BY <1>1, <1>2, <1>6, <2>1, <2>2
  <1>7. CASE name = "execute_swap"
    <2>1. name \in DOMAIN TradeSpecs /\ 2 \in DOMAIN TradeSpecs[name]
          /\ TradeSpecs[name][2] = <<"poolState", W>>
      BY <1>7 DEF TradeSpecs
    <2> QED  BY <1>1, <1>2, <1>3, <1>4, <1>7, <2>1
  <1>8. CASE name = "propose_admin"
    <2>1. /\ name \notin DOMAIN TradeSpecs /\ {1, 2} \subseteq DOMAIN AdminSpecs[name]
          /\ AdminSpecs[name][1] = <<"admin", SW>> /\ AdminSpecs[name][2] = <<"poolState", R>>
      BY <1>8 DEF TradeSpecs, AdminSpecs
    <2> QED  BY <1>1, <1>2, <1>3, <1>5, <1>8, <2>1
  <1>9. CASE name = "accept_admin"
    <2>1. /\ name \notin DOMAIN TradeSpecs /\ 1 \in DOMAIN AdminSpecs[name]
          /\ AdminSpecs[name][1] = <<"newAdmin", SW>>
      BY <1>9 DEF TradeSpecs, AdminSpecs
    <2> QED  BY <1>1, <1>2, <1>3, <1>5, <1>9, <2>1
  <1> QED  BY <1>1, <1>2, <1>6, <1>7, <1>8, <1>9

(* A transaction whose outcomes keep every account whole does so.          *)
LEMMA SubmitKeepsWhole ==
    ASSUME WireInv, NEW asked, NEW ix, Submit(asked, ix),
           \A o \in ProcessInstruction(ix) : AllWhole(o.accounts)
    PROVE  WireInv'
  <1>1. slot' = slot  BY DEF Submit
  <1>2. (\E o \in ProcessInstruction(ix) : accounts' = o.accounts) \/ accounts' = accounts
    BY DEF Submit
  <1>3. AllWhole(accounts')  BY <1>2 DEF WireInv
  <1> QED  BY <1>1, <1>3 DEF WireInv, AllWhole

(* Arguments that are all there are encoded in full.                       *)
LEMMA ArgumentsHeld ==
    ASSUME NEW t, WellLaid(t), NEW args,
           \A f \in DOMAIN t \ Reserved : f \in DOMAIN args /\ args[f] # Garbage
    PROVE  Holds(t, Pack(t, WithZeros(args)))
  <1>1. \A f \in DOMAIN t : WithZeros(args)[f] # Garbage  BY ZerosAre
  <1> QED  BY <1>1, PackedIsHeld

(* The addresses a caller names.                                           *)
LEMMA NamedIs ==
    ASSUME NEW by \in Keys
    PROVE  /\ Named(by).admin = by /\ Named(by).newAdmin = by
           /\ Named(by).poolState = ThePool
           /\ Named(by).baseMint = BaseMint /\ Named(by).quoteMint = QuoteMint
           /\ Named(by).baseVault = DeriveVault(ThePool, BaseMint)
           /\ Named(by).quoteVault = DeriveVault(ThePool, QuoteMint)
           /\ by # Garbage /\ ThePool # Garbage /\ Bump(ThePool) # Garbage
           /\ BaseMint # Garbage /\ QuoteMint # Garbage
           /\ \A mint \in {BaseMint, QuoteMint} :
                DeriveVault(ThePool, mint) # Garbage /\ Bump(DeriveVault(ThePool, mint)) # Garbage
           /\ Bump(DeriveAdminProposal(ThePool)) # Garbage
  <1>1. /\ Named(by).admin = by /\ Named(by).newAdmin = by
        /\ Named(by).poolState = ThePool
        /\ Named(by).baseMint = BaseMint /\ Named(by).quoteMint = QuoteMint
        /\ Named(by).baseVault = DeriveVault(ThePool, BaseMint)
        /\ Named(by).quoteVault = DeriveVault(ThePool, QuoteMint)
    BY DEF Named
  <1>2. by # Garbage /\ BaseMint # Garbage /\ QuoteMint # Garbage  BY WireValues
  <1>3. /\ ThePool # Garbage /\ Bump(ThePool) # Garbage
        /\ \A mint \in {BaseMint, QuoteMint} :
                DeriveVault(ThePool, mint) # Garbage /\ Bump(DeriveVault(ThePool, mint)) # Garbage
        /\ Bump(DeriveAdminProposal(ThePool)) # Garbage
    BY WireValues
  <1> QED  BY <1>1, <1>2, <1>3

(* createInitPoolIx names the pool's own address and writes all arguments; *)
(* without two mints in order there is no pool.                            *)
LEMMA CallInitPoolKeeps ==
    ASSUME WireInv, NEW by \in Keys, NEW mints \in MintPairs,
           NEW oracle \in Keys \cup {ZeroKey},
           NEW quote \in Keys \cup {ZeroKey}, NEW price \in Prices,
           CallInitPool(by, mints, oracle, quote, price)
    PROVE  WireInv'
  <1> DEFINE args == Plus(price, [authorized_oracle_signer |-> oracle,
                                  authorized_quote_signer |-> quote])
             ix == Instruction("init_pool", ForMints(by, mints), EncodeInitPool, args)
  <1>1. Submit(<<"init_pool", by, mints, oracle, quote, price>>, ix)  BY DEF CallInitPool
  <1>2. /\ Dispatch[ix.tag + 1] = "init_pool"
        /\ ix.data = Pack(EncodeInitPool, WithZeros(args))
        /\ Key(ix, 1) = by /\ Key(ix, 2) = DerivePoolState(mints[1], mints[2])
        /\ Key(ix, 3) = mints[1] /\ Key(ix, 4) = mints[2]
        /\ Key(ix, 5) = DeriveVault(DerivePoolState(mints[1], mints[2]), mints[1])
        /\ Key(ix, 6) = DeriveVault(DerivePoolState(mints[1], mints[2]), mints[2])
    <2>1. "init_pool" \in DOMAIN InstructionTag  BY DEF InstructionTag
    <2>2. /\ ForMints(by, mints).admin = by
          /\ ForMints(by, mints).poolState = DerivePoolState(mints[1], mints[2])
          /\ ForMints(by, mints).baseMint = mints[1] /\ ForMints(by, mints).quoteMint = mints[2]
          /\ ForMints(by, mints).baseVault
                = DeriveVault(DerivePoolState(mints[1], mints[2]), mints[1])
          /\ ForMints(by, mints).quoteVault
                = DeriveVault(DerivePoolState(mints[1], mints[2]), mints[2])
      BY DEF ForMints, Named
    <2> HIDE DEF args
    <2> QED  BY <2>1, <2>2, InstructionIs
  <1>3. Holds(EncodeInitPool, Pack(EncodeInitPool, WithZeros(args)))
    <2>1. /\ DOMAIN price = {"fair_value", "spread_bps", "depth_coef_bps", "size_unit",
                "max_depth_bps", "target_base_bps", "skew_coef_bps", "max_skew_offset_bps",
                "current_mode_ttl"}
          /\ \A f \in DOMAIN price : price[f] # Garbage
      BY WireValues
    <2>2. oracle # Garbage /\ quote # Garbage  BY WireValues
    <2>3. /\ DOMAIN args = DOMAIN price \cup {"authorized_oracle_signer", "authorized_quote_signer"}
          /\ \A f \in DOMAIN args : args[f] # Garbage
      BY <2>1, <2>2 DEF Plus
    <2>4. /\ WellLaid(EncodeInitPool)
          /\ DOMAIN EncodeInitPool = DOMAIN Table(InitHead) \cup DOMAIN Table(Depth)
                                \cup DOMAIN Table(Skew) \cup DOMAIN Table(InitTail)
      BY InitPoolArgsAre DEF IsPriced
    <2>5. DOMAIN EncodeInitPool \ Reserved \subseteq DOMAIN args
      BY <2>1, <2>3, <2>4, InitHeadIs, DepthIs, SkewIs, InitTailIs DEF Reserved
    <2> HIDE DEF args
    <2> QED  BY <2>3, <2>4, <2>5, ArgumentsHeld
  <1> HIDE DEF ix
  <1>4. \A f \in DOMAIN InitPoolArgs : Read(ix.data, InitPoolArgs[f]) # Garbage
    BY <1>2, <1>3, InitPoolArgsAre, HeldIsRead DEF Holds
  <1>5. ProcessInstruction(ix) = InitPool(ix)  BY <1>2 DEF ProcessInstruction
  <1>6. ASSUME mints = <<BaseMint, QuoteMint>>, NEW o \in InitPool(ix)
        PROVE  AllWhole(o.accounts)
    <2>1. mints[1] = BaseMint /\ mints[2] = QuoteMint  BY <1>6
    <2>2. DerivePoolState(mints[1], mints[2]) = ThePool
          /\ PoolPda(Key(ix, 3), Key(ix, 4)) = ThePool
      BY <1>2, <2>1 DEF PoolPda, ThePool, DerivePoolState
    <2>3. /\ \A i \in {1, 3, 4, 5, 6} : Key(ix, i) # Garbage
          /\ Bump(Key(ix, 5)) # Garbage /\ Bump(Key(ix, 6)) # Garbage
          /\ Bump(PoolPda(Key(ix, 3), Key(ix, 4))) # Garbage
      BY <1>2, <2>1, <2>2, NamedIs
    <2> QED  BY <1>4, <2>3, InitPoolKeepsWhole
  <1>7. ASSUME mints # <<BaseMint, QuoteMint>>
        PROVE  InitPool(ix) = {}
    <2>1. \/ mints[1] = QuoteMint /\ mints[2] = BaseMint
          \/ mints[2] = ZeroKey
      BY <1>7 DEF MintPairs
    <2>2. ~ (/\ {Key(ix, 3), Key(ix, 4)} \subseteq DOMAIN MintOrder
             /\ MintOrder[Key(ix, 3)] < MintOrder[Key(ix, 4)])
      BY <1>2, <2>1, WireMints
    <2> QED  BY <2>2 DEF InitPool, Outcome
  <1>8. \A o \in InitPool(ix) : AllWhole(o.accounts)  BY <1>6, <1>7
  <1> QED  BY <1>1, <1>5, <1>8, SubmitKeepsWhole

(* createUpdateOracleIx, also with the address of another account for the  *)
(* pool's.                                                                 *)
LEMMA CallUpdateOracleKeeps ==
    ASSUME WireInv, NEW by \in Keys, NEW right \in BOOLEAN, NEW price \in Prices,
           NEW nonce \in Nat, CallUpdateOracle(by, right, price, nonce)
    PROVE  WireInv'
  <1> DEFINE args == Plus(price, [oracle_nonce |-> nonce])
             named == IF right THEN Named(by)
                      ELSE [Named(by) EXCEPT !.poolState = DeriveAdminProposal(ThePool)]
             ix == Instruction("update_oracle", named, EncodeUpdateOracle, args)
  <1>1. Submit(<<"update_oracle", by, right, price, nonce>>, ix)  BY Zenon DEF CallUpdateOracle
  <1> HIDE DEF named
  <1>2. /\ Dispatch[ix.tag + 1] = "update_oracle"
        /\ ix.data = Pack(EncodeUpdateOracle, WithZeros(args))
    <2>1. "update_oracle" \in DOMAIN InstructionTag  BY DEF InstructionTag
    <2> HIDE DEF args
    <2> QED  BY <2>1, InstructionIs
  <1>3. Holds(EncodeUpdateOracle, Pack(EncodeUpdateOracle, WithZeros(args)))
    <2>1. /\ DOMAIN price = {"fair_value", "spread_bps", "depth_coef_bps", "size_unit",
                "max_depth_bps", "target_base_bps", "skew_coef_bps", "max_skew_offset_bps",
                "current_mode_ttl"}
          /\ \A f \in DOMAIN price : price[f] # Garbage
      BY WireValues
    <2>2. nonce # Garbage  BY WireValues
    <2>3. /\ DOMAIN args = DOMAIN price \cup {"oracle_nonce"}
          /\ \A f \in DOMAIN args : args[f] # Garbage
      BY <2>1, <2>2 DEF Plus
    <2>4. /\ WellLaid(EncodeUpdateOracle)
          /\ DOMAIN EncodeUpdateOracle = DOMAIN Table(UpdateHead) \cup DOMAIN Table(Depth)
                                \cup DOMAIN Table(Skew) \cup DOMAIN Table(UpdateTail)
      BY UpdateOracleArgsAre DEF IsPriced
    <2>5. DOMAIN EncodeUpdateOracle \ Reserved \subseteq DOMAIN args
      BY <2>1, <2>3, <2>4, UpdateHeadIs, DepthIs, SkewIs, UpdateTailIs DEF Reserved
    <2> HIDE DEF args
    <2> QED  BY <2>3, <2>4, <2>5, ArgumentsHeld
  <1> HIDE DEF ix
  <1>4. Holds(EncodeUpdateOracle, ix.data)  BY <1>2, <1>3
  <1>5. ProcessInstruction(ix) = UpdateOracle(ix)  BY <1>2 DEF ProcessInstruction
  <1>6. \A o \in UpdateOracle(ix) : AllWhole(o.accounts)  BY <1>4, UpdateOracleKeepsWhole
  <1> QED  BY <1>1, <1>5, <1>6, SubmitKeepsWhole

(* createSetPausedIx.                                                      *)
LEMMA CallSetPausedKeeps ==
    ASSUME WireInv, NEW by \in Keys, NEW p \in BOOLEAN, CallSetPaused(by, p)
    PROVE  WireInv'
  <1> DEFINE args == [paused |-> IF p THEN 1 ELSE 0]
             ix == Instruction("set_paused", Named(by), EncodePaused, args)
  <1>1. Submit(<<"set_paused", by, p>>, ix)  BY Zenon DEF CallSetPaused
  <1> HIDE DEF args
  <1>2. Dispatch[ix.tag + 1] = "set_paused"
    <2>1. "set_paused" \in DOMAIN InstructionTag  BY DEF InstructionTag
    <2> QED  BY <2>1, InstructionIs
  <1> HIDE DEF ix
  <1>3. ProcessInstruction(ix) = SetPaused(ix)  BY <1>2 DEF ProcessInstruction
  <1>4. \A o \in SetPaused(ix) : AllWhole(o.accounts)  BY SetPausedKeepsWhole DEF WireInv
  <1> QED  BY <1>1, <1>3, <1>4, SubmitKeepsWhole

(* The calls that carry a key: both rotations of a signer, that of the     *)
(* admin, and the proposal of a new one.                                   *)
LEMMA CallWithKeyKeeps ==
    ASSUME WireInv, NEW by \in Keys, NEW key \in Keys \cup {ZeroKey},
           NEW name \in {"rotate_oracle_signer", "rotate_quote_signer", "rotate_admin",
                         "propose_admin"},
           CallWithKey(name, by, key)
    PROVE  WireInv'
  <1> DEFINE args == [key |-> key]
             ix == Instruction(name, Named(by), EncodeKey, args)
  <1>1. Submit(<<name, by, key>>, ix)  BY DEF CallWithKey
  <1>2. /\ Dispatch[ix.tag + 1] = name
        /\ ix.data = Pack(EncodeKey, WithZeros(args))
        /\ name = "propose_admin" => Key(ix, 1) = by /\ Key(ix, 2) = ThePool
    <2>1. name \in DOMAIN InstructionTag  BY DEF InstructionTag
    <2> HIDE DEF args
    <2> QED  BY <2>1, InstructionIs, NamedIs
  <1>3. Holds(KeyArg, Pack(KeyArg, WithZeros(args)))
    <2>1. key # Garbage  BY WireValues
    <2>2. \A f \in DOMAIN KeyArg \ Reserved : f \in DOMAIN args /\ args[f] # Garbage
      BY <2>1, KeyArgIs
    <2> HIDE DEF args
    <2> QED  BY <2>2, KeyArgIs, ArgumentsHeld
  <1> HIDE DEF ix, args
  <1>4. Read(ix.data, KeyArg.key) # Garbage
    <2>1. Holds(KeyArg, ix.data) /\ "key" \in DOMAIN KeyArg  BY <1>2, <1>3, KeyArgIs
    <2> QED  BY <2>1, HeldIsRead
  <1>5. AllWhole(accounts)  BY DEF WireInv
  <1>6. \A o \in ProcessInstruction(ix) : AllWhole(o.accounts)
    <2>1. CASE name = "rotate_oracle_signer"
      <3>1. ProcessInstruction(ix) =
                RotateSigner(ix, "authorized_oracle_signer", "OracleSignerRotated")
        BY <1>2, <2>1 DEF ProcessInstruction
      <3> QED  BY <1>4, <1>5, <3>1, RotateSignerKeepsWhole
    <2>2. CASE name = "rotate_quote_signer"
      <3>1. ProcessInstruction(ix) =
                RotateSigner(ix, "authorized_quote_signer", "QuoteSignerRotated")
        BY <1>2, <2>2 DEF ProcessInstruction
      <3> QED  BY <1>4, <1>5, <3>1, RotateSignerKeepsWhole
    <2>3. CASE name = "rotate_admin"
      <3>1. ProcessInstruction(ix) = RotateAdmin(ix)  BY <1>2, <2>3 DEF ProcessInstruction
      <3> QED  BY <1>4, <1>5, <3>1, RotateAdminKeepsWhole
    <2>4. CASE name = "propose_admin"
      <3>1. ProcessInstruction(ix) = ProposeAdmin(ix)  BY <1>2, <2>4 DEF ProcessInstruction
      <3>2. Key(ix, 1) = by /\ Key(ix, 2) = ThePool  BY <1>2, <2>4
      <3>3. ProposalPda(ThePool) = DeriveAdminProposal(ThePool)
        BY DEF ProposalPda, DeriveAdminProposal
      <3>4. /\ Key(ix, 1) # Garbage /\ Key(ix, 2) # Garbage
            /\ Bump(ProposalPda(Key(ix, 2))) # Garbage
        BY <3>2, <3>3, NamedIs
      <3> QED  BY <1>4, <3>1, <3>4, ProposeAdminKeepsWhole
    <2> QED  BY <2>1, <2>2, <2>3, <2>4
  <1> QED  BY <1>1, <1>6, SubmitKeepsWhole

(* createAdminWithdrawInventoryIx.                                         *)
LEMMA CallWithdrawKeeps ==
    ASSUME WireInv, NEW by \in Keys, NEW base, NEW quote, CallWithdraw(by, base, quote)
    PROVE  WireInv'
  <1> DEFINE args == [withdraw_base_amount |-> base, withdraw_quote_amount |-> quote]
             ix == Instruction("admin_withdraw_inventory", Named(by), EncodeWithdraw, args)
  <1>1. Submit(<<"admin_withdraw_inventory", by, base, quote>>, ix)  BY DEF CallWithdraw
  <1>2. Dispatch[ix.tag + 1] = "admin_withdraw_inventory"
    <2>1. "admin_withdraw_inventory" \in DOMAIN InstructionTag  BY DEF InstructionTag
    <2> HIDE DEF args
    <2> QED  BY <2>1, InstructionIs
  <1> HIDE DEF ix
  <1>3. ProcessInstruction(ix) = Withdraw(ix)  BY <1>2 DEF ProcessInstruction
  <1>4. \A o \in Withdraw(ix) : AllWhole(o.accounts)  BY ClosingKeepsWhole DEF WireInv
  <1> QED  BY <1>1, <1>3, <1>4, SubmitKeepsWhole

(* createAcceptAdminIx and createCancelAdminProposalIx.                    *)
LEMMA CallProposalKeeps ==
    ASSUME WireInv, NEW by \in Keys, NEW name \in {"accept_admin", "cancel_admin_proposal"},
           CallProposal(name, by)
    PROVE  WireInv'
  <1> DEFINE ix == Instruction(name, Named(by), NoArgs, << >>)
  <1>1. Submit(<<name, by>>, ix)  BY DEF CallProposal
  <1>2. Dispatch[ix.tag + 1] = name /\ (name = "accept_admin" => Key(ix, 1) = by)
    <2>1. name \in DOMAIN InstructionTag  BY DEF InstructionTag
    <2> QED  BY <2>1, InstructionIs, NamedIs
  <1> HIDE DEF ix
  <1>3. AllWhole(accounts)  BY DEF WireInv
  <1>4. \A o \in ProcessInstruction(ix) : AllWhole(o.accounts)
    <2>1. CASE name = "accept_admin"
      <3>1. ProcessInstruction(ix) = AcceptAdmin(ix)  BY <1>2, <2>1 DEF ProcessInstruction
      <3>2. Key(ix, 1) # Garbage  BY <1>2, <2>1, NamedIs
      <3> QED  BY <1>3, <3>1, <3>2, AcceptAdminKeepsWhole
    <2>2. CASE name = "cancel_admin_proposal"
      <3>1. ProcessInstruction(ix) = CancelAdminProposal(ix)
        BY <1>2, <2>2 DEF ProcessInstruction
      <3> QED  BY <1>3, <3>1, ClosingKeepsWhole
    <2> QED  BY <2>1, <2>2
  <1> QED  BY <1>1, <1>4, SubmitKeepsWhole

(* createCloseExpiredNonceIx.                                              *)
LEMMA CallCloseExpiredNonceKeeps ==
    ASSUME WireInv, NEW by \in Keys, NEW nonce, CallCloseExpiredNonce(by, nonce)
    PROVE  WireInv'
  <1> DEFINE named ==
                Plus(Named(by), [quoteNonceMarker |-> DeriveQuoteNonceMarker(ThePool, nonce)])
             ix == Instruction("close_expired_nonce", named, NoArgs, << >>)
  <1>1. Submit(<<"close_expired_nonce", by, nonce>>, ix)  BY DEF CallCloseExpiredNonce
  <1>2. Dispatch[ix.tag + 1] = "close_expired_nonce"
    <2>1. "close_expired_nonce" \in DOMAIN InstructionTag  BY DEF InstructionTag
    <2> HIDE DEF named
    <2> QED  BY <2>1, InstructionIs
  <1> HIDE DEF ix
  <1>3. ProcessInstruction(ix) = CloseExpiredNonce(ix)  BY <1>2 DEF ProcessInstruction
  <1>4. \A o \in CloseExpiredNonce(ix) : AllWhole(o.accounts)
    BY ClosingKeepsWhole DEF WireInv
  <1> QED  BY <1>1, <1>3, <1>4, SubmitKeepsWhole

(* A swap under a quote carries its nonce and expiry.                      *)
LEMMA CallWithQuoteKeeps ==
    ASSUME WireInv, NEW by \in Keys, NEW side \in Sides, NEW input, NEW q \in Quotes,
           CallExecuteSwap(by, side, input, q)
    PROVE  WireInv'
  <1> DEFINE offer == SignedQuoteArg(q)
             args == Plus(SwapArgs(side, input, 1), offer)
             t == EncodeExecuteSwap(TRUE)
             swapIx == Instruction("execute_swap", Named(by), t, args)
             marker == <<DeriveQuoteNonceMarker(ThePool, q.nonce), W>>
             ix == QuotedSwap(by, side, input, q)
  <1>1. Submit(<<"execute_swap", by, side, input, q>>, ix)
    <2>1. q # NoAccount  BY WireValues
    <2> QED  BY <2>1 DEF CallExecuteSwap
  <1> HIDE DEF ix
  <1>2. offer.nonce = q.nonce /\ offer.expiry_slot = q.expiry_slot /\ "some" \notin DOMAIN offer
        /\ {"nonce", "expiry_slot"} \subseteq DOMAIN offer
    BY DEF SignedQuoteArg, Plus, Terms
  <1> HIDE DEF offer
  <1>3. args.some = 1 /\ args.nonce = q.nonce /\ args.expiry_slot = q.expiry_slot
        /\ {"some", "nonce", "expiry_slot"} \subseteq DOMAIN args
    BY <1>2 DEF Plus, SwapArgs
  <1> HIDE DEF args
  <1>4. /\ Dispatch[swapIx.tag + 1] = "execute_swap" /\ Key(swapIx, 2) = ThePool
        /\ swapIx.data = Pack(t, WithZeros(args))
    <2>1. "execute_swap" \in DOMAIN InstructionTag  BY DEF InstructionTag
    <2> HIDE DEF t
    <2> QED  BY <2>1, InstructionIs, NamedIs
  <1>5. swapIx.keys \in Seq(Range(swapIx.keys)) /\ 2 \in DOMAIN swapIx.keys
    <2>1. TradeSpecs["execute_swap"] = << <<"user", SW>>, <<"poolState", W>>,
            <<"baseVault", W>>, <<"quoteVault", W>>, <<"userBaseAta", W>>,
            <<"userQuoteAta", W>>, <<"tokenProgram", R>>, <<"systemProgram", R>>,
            <<"instructionsSysvar", R>> >> /\ "execute_swap" \in DOMAIN TradeSpecs
      BY DEF TradeSpecs
    <2>2. DOMAIN TradeSpecs["execute_swap"] = 1 .. 9  BY <2>1
    <2>3. swapIx.keys = [i \in 1 .. 9 |-> <<Named(by)[TradeSpecs["execute_swap"][i][1]],
                                            TradeSpecs["execute_swap"][i][2]>>]
      BY <2>1, <2>2 DEF Instruction
    <2> HIDE DEF swapIx
    <2> QED  BY <2>3 DEF Range
  <1>6. swapIx = [tag |-> swapIx.tag, data |-> swapIx.data, keys |-> swapIx.keys,
                  before |-> swapIx.before]
    BY DEF Instruction
  <1>7. ix.tag = swapIx.tag /\ ix.data = swapIx.data /\ ix.keys = Append(swapIx.keys, marker)
    <2>1. ix = [swapIx EXCEPT !.before = <<VerifyIx(q)>>, !.keys = Append(@, marker)]
      BY Zenon DEF ix, QuotedSwap, args, offer
    <2> HIDE DEF swapIx, marker
    <2> QED  BY <1>6, <2>1
  <1> HIDE DEF swapIx, marker
  <1>8. Key(ix, 2) = ThePool
    <2>1. Append(swapIx.keys, marker)[2] = swapIx.keys[2]  BY <1>5
    <2> QED  BY <1>4, <1>7, <2>1 DEF Key
  <1>9. Read(ix.data, <<99, 8>>) = q.expiry_slot /\ Read(ix.data, <<107, 8>>) = q.nonce
    <2>1. WellLaid(t) /\ {"expiry_slot", "nonce"} \subseteq DOMAIN t
          /\ t.expiry_slot = <<99, 8>> /\ t.nonce = <<107, 8>>
      BY SwapEncodingIs
    <2> DEFINE v == WithZeros(args)
    <2>2. v.expiry_slot = q.expiry_slot /\ v.nonce = q.nonce
      BY <1>3 DEF WithZeros, Reserved
    <2> HIDE DEF v, t
    <2>3. /\ DOMAIN Pack(t, v) = Range(t)
          /\ \A f \in DOMAIN t : t[f] \in Range(t) /\ Pack(t, v)[t[f]] = v[f]
      BY <2>1, PackIs
    <2>4. /\ t.expiry_slot \in DOMAIN Pack(t, v) /\ Pack(t, v)[t.expiry_slot] = q.expiry_slot
          /\ t.nonce \in DOMAIN Pack(t, v) /\ Pack(t, v)[t.nonce] = q.nonce
      BY <2>1, <2>2, <2>3
    <2>5. ix.data = Pack(t, v)  BY <1>4, <1>7 DEF v
    <2> QED  BY <2>1, <2>4, <2>5 DEF Read
  <1>10. PICK quote : quote = Unpack(ExecuteSwapArgs(TRUE), ix.data)  OBVIOUS
  <1>11. quote.nonce = q.nonce /\ quote.expiry_slot = q.expiry_slot
    BY <1>9, <1>10, SwapArgsAre DEF Unpack
  <1>12. /\ q.nonce # Garbage /\ q.expiry_slot # Garbage
         /\ Bump(DeriveQuoteNonceMarker(ThePool, q.nonce)) # Garbage
    <2>1. q.nonce \in Nat /\ q.expiry_slot \in Nat /\ Garbage \notin Nat  BY WireValues
    <2>2. DeriveQuoteNonceMarker(ThePool, q.nonce) \in
            {DeriveQuoteNonceMarker(ThePool, p.nonce) : p \in Quotes}
      OBVIOUS
    <2>3. Garbage # Bump(DeriveQuoteNonceMarker(ThePool, q.nonce))
      BY <2>2, WireValues, Zenon
    <2> QED  BY <2>1, <2>3
  <1>13. MarkerPda(Key(ix, 2), quote.nonce) = DeriveQuoteNonceMarker(ThePool, q.nonce)
    BY <1>8, <1>11 DEF MarkerPda, DeriveQuoteNonceMarker
  <1>14. ProcessInstruction(ix) = ExecuteSwap(ix)  BY <1>4, <1>7 DEF ProcessInstruction
  <1>15. \A o \in ExecuteSwap(ix) : AllWhole(o.accounts)
    <2>1. quote.nonce # Garbage /\ quote.expiry_slot # Garbage  BY <1>11, <1>12
    <2>2. Bump(MarkerPda(Key(ix, 2), quote.nonce)) # Garbage  BY <1>12, <1>13
    <2>3. Key(ix, 2) # Garbage  BY <1>8, NamedIs
    <2> QED  BY <1>10, <2>1, <2>2, <2>3, ExecuteSwapKeepsWhole, Zenon
  <1> QED  BY <1>1, <1>14, <1>15, SubmitKeepsWhole

(* createExecuteSwapIx, with a quote and without.                          *)
LEMMA CallExecuteSwapKeeps ==
    ASSUME WireInv, NEW by \in Keys, NEW side \in Sides, NEW input,
           NEW q \in Quotes \cup {NoAccount}, CallExecuteSwap(by, side, input, q)
    PROVE  WireInv'
  <1>1. CASE q \in Quotes  BY <1>1, CallWithQuoteKeeps
  <1>2. CASE q = NoAccount
    <2> DEFINE t == EncodeExecuteSwap(FALSE)
               args == SwapArgs(side, input, 0)
               ix == Swap(by, side, input)
    <2>1. Submit(<<"execute_swap", by, side, input, q>>, ix)  BY <1>2 DEF CallExecuteSwap
    <2>2. ix = Instruction("execute_swap", Named(by), t, args)  BY DEF Swap
    <2>3. args.some = 0 /\ "some" \in DOMAIN args  BY DEF SwapArgs
    <2>4. WellLaid(t) /\ "some" \in DOMAIN t /\ t.some = <<17, 1>>  BY SwapEncodingIs
    <2> HIDE DEF t, args, ix
    <2>5. /\ Dispatch[ix.tag + 1] = "execute_swap" /\ Key(ix, 2) = ThePool
          /\ ix.data = Pack(t, WithZeros(args))
      <3>1. "execute_swap" \in DOMAIN InstructionTag  BY DEF InstructionTag
      <3> QED  BY <2>2, <3>1, InstructionIs, NamedIs
    <2>6. Read(ix.data, <<17, 1>>) # 1
      <3>1. WithZeros(args).some = 0  BY <2>3 DEF WithZeros, Reserved
      <3>2. PICK v : v = WithZeros(args)  OBVIOUS
      <3>3. t.some \in DOMAIN Pack(t, v) /\ Pack(t, v)[t.some] = v.some
        BY <2>4, PackIs
      <3> QED  BY <2>4, <2>5, <3>1, <3>2, <3>3 DEF Read
    <2>7. PICK quote : quote = Unpack(ExecuteSwapArgs(TRUE), ix.data)  OBVIOUS
    <2>8. ProcessInstruction(ix) = ExecuteSwap(ix)  BY <2>5 DEF ProcessInstruction
    <2>9. \A o \in ExecuteSwap(ix) : AllWhole(o.accounts)
      <3>1. Key(ix, 2) # Garbage  BY <2>5, NamedIs
      <3> QED  BY <2>6, <2>7, <3>1, ExecuteSwapKeepsWhole, Zenon
    <2> QED  BY <2>1, <2>8, <2>9, SubmitKeepsWhole
  <1> QED  BY <1>1, <1>2

----------------------------------------------------------------------------
(* Runs of the program. *)

(* Before the pool exists there is no account.                             *)
LEMMA WireInvInit == Init => WireInv
  <1> SUFFICES ASSUME Init PROVE WireInv  OBVIOUS
  <1>1. slot \in Nat  BY WireConstants DEF Init
  <1>2. DOMAIN accounts = {}  BY DEF Init
  <1> QED  BY <1>1, <1>2 DEF WireInv, AllWhole

(* Every call keeps the invariant, whatever its outcome.                   *)
LEMMA WireInvStep == WireInv /\ [Next]_vars => WireInv'
  <1> SUFFICES ASSUME WireInv, [Next]_vars PROVE WireInv'  OBVIOUS
  <1>1. CASE Tick  BY <1>1 DEF Tick, WireInv, AllWhole
  <1>2. ASSUME NEW by \in Keys, NEW m \in MintPairs, NEW o \in Keys \cup {ZeroKey},
               NEW q \in Keys \cup {ZeroKey}, NEW p \in Prices, CallInitPool(by, m, o, q, p)
        PROVE  WireInv'
    BY <1>2, CallInitPoolKeeps
  <1>3. ASSUME NEW by \in Keys, NEW right \in BOOLEAN, NEW p \in Prices,
               NEW n \in 0 .. MaxNonce, CallUpdateOracle(by, right, p, n)
        PROVE  WireInv'
    <2>1. n \in Nat  BY WireConstants
    <2> QED  BY <1>3, <2>1, CallUpdateOracleKeeps
  <1>4. ASSUME NEW by \in Keys, NEW p \in BOOLEAN, CallSetPaused(by, p)
        PROVE  WireInv'
    BY <1>4, CallSetPausedKeeps
  <1>5. ASSUME NEW by \in Keys, NEW key \in Keys \cup {ZeroKey},
               NEW name \in {"rotate_oracle_signer", "rotate_quote_signer", "rotate_admin",
                             "propose_admin"},
               CallWithKey(name, by, key)
        PROVE  WireInv'
    BY <1>5, CallWithKeyKeeps
  <1>6. ASSUME NEW by \in Keys, NEW b \in Amounts, NEW q \in Amounts, CallWithdraw(by, b, q)
        PROVE  WireInv'
    BY <1>6, CallWithdrawKeeps
  <1>7. ASSUME NEW by \in Keys, NEW name \in {"accept_admin", "cancel_admin_proposal"},
               CallProposal(name, by)
        PROVE  WireInv'
    BY <1>7, CallProposalKeeps
  <1>8. ASSUME NEW by \in Keys, NEW side \in Sides, NEW input \in Amounts,
               NEW q \in Quotes \cup {NoAccount}, CallExecuteSwap(by, side, input, q)
        PROVE  WireInv'
    BY <1>8, CallExecuteSwapKeeps
  <1>9. ASSUME NEW by \in Keys, NEW n, CallCloseExpiredNonce(by, n)
        PROVE  WireInv'
    BY <1>9, CallCloseExpiredNonceKeeps
  <1>10. CASE UNCHANGED vars  BY <1>10 DEF vars, WireInv, AllWhole
  <1> QED
    BY <1>1, <1>2, <1>3, <1>4, <1>5, <1>6, <1>7, <1>8, <1>9, <1>10, Zenon DEF Next

(* In every reachable state every account the program owns is whole.       *)
THEOREM AccountsWhole == Spec => []WireInv
  BY WireInvInit, WireInvStep, PTL DEF Spec

(* AccountsIntact: every account the program owns decodes as one of its    *)
(* three types, in full, at the address its own contents derive - whatever *)
(* calls are made, by whom, with which arguments, and although             *)
(* update_oracle writes at offsets without looking at the type.            *)
THEOREM AccountsStayIntact == Spec => []AccountsIntact
  <1>1. WireInv => AccountsIntact  BY WholeIsIntact DEF WireInv
  <1> QED  BY <1>1, AccountsWhole, PTL
=============================================================================
