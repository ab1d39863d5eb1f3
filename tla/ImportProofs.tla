---------------------------- MODULE ImportProofs ----------------------------
(***************************************************************************)
(* Theorems about Import and References, for any set of bullets, any texts *)
(* and any documents.                                                      *)
(***************************************************************************)
EXTENDS Import, SequenceTheorems, FiniteSetTheorems, WellFoundedInduction, TLAPS

Group == Rem \union {Nil}

LEMMA ConstantFacts ==
  /\ Nil \notin Rem /\ Nil \notin Text /\ Blank \notin Text
  /\ \A t \in Text : t.begins \subseteq Title /\ t.refs \subseteq Title
BY ReferencesAssumption, ImportAssumption DEF ReferencesAssumption

----------------------------------------------------------------------------
(* Sequences and maxima.                                                    *)

\* A sequence without its element at i.
LEMMA RemoveAtPlaces ==
  ASSUME NEW S, NEW s \in Seq(S), NEW i \in 1..Len(s)
  PROVE /\ RemoveAt(s, i) \in Seq(S)
        /\ Len(RemoveAt(s, i)) = Len(s) - 1
        /\ \A j \in 1..Len(s) - 1 : RemoveAt(s, i)[j] = s[IF j < i THEN j ELSE j + 1]
<1> DEFINE a == SubSeq(s, 1, i - 1)
           b == SubSeq(s, i + 1, Len(s))
<1>1. /\ a \in Seq(S) /\ Len(a) = i - 1
      /\ \A j \in 1..i - 1 : a[j] = s[j]
  OBVIOUS
<1>2. /\ b \in Seq(S) /\ Len(b) = Len(s) - i
      /\ \A j \in 1..Len(s) - i : b[j] = s[i + j]
  OBVIOUS
<1>3. RemoveAt(s, i) = a \o b
  BY DEF RemoveAt
<1> HIDE DEF a, b
<1>0. Len(a) + Len(b) = Len(s) - 1 /\ Len(a) \in Nat /\ Len(s) \in Nat
  BY <1>1, <1>2
<1>4. /\ a \o b \in Seq(S) /\ Len(a \o b) = Len(a) + Len(b)
      /\ \A j \in 1..Len(a) + Len(b) : (a \o b)[j] = IF j <= Len(a) THEN a[j] ELSE b[j - Len(a)]
  BY <1>1, <1>2, ConcatProperties
<1>5. ASSUME NEW j \in 1..Len(s) - 1
      PROVE  (a \o b)[j] = s[IF j < i THEN j ELSE j + 1]
  <2>0. (a \o b)[j] = IF j <= Len(a) THEN a[j] ELSE b[j - Len(a)]
    BY <1>0, <1>4
  <2>1. CASE j < i
    <3>1. j \in 1..i - 1 /\ j <= Len(a)
      BY <1>1, <2>1
    <3> QED BY <1>1, <2>0, <2>1, <3>1
  <2>2. CASE ~ (j < i)
    <3>1. j - Len(a) \in 1..Len(s) - i /\ i + (j - Len(a)) = j + 1 /\ ~ (j <= Len(a))
      BY <1>1, <2>2
    <3>2. b[j - Len(a)] = s[j + 1]
      BY <1>2, <3>1
    <3>3. (a \o b)[j] = s[j + 1]
      BY <2>0, <3>1, <3>2
    <3>4. ~ (j < i)
      BY <2>2
    <3> QED BY <3>3, <3>4
  <2> QED BY <2>1, <2>2
<1> QED BY <1>0, <1>3, <1>4, <1>5

\* t is the sequence s with x put in at i.
IsInserted(S, s, i, x, t) ==
  /\ t \in Seq(S)
  /\ Len(t) = Len(s) + 1
  /\ \A j \in 1..Len(s) + 1 : j < i => t[j] = s[j]
  /\ t[i] = x
  /\ \A j \in 1..Len(s) + 1 : i < j => t[j] = s[j - 1]

\* A sequence with x put in at i.
LEMMA InsertAtPlaces ==
  ASSUME NEW S, NEW s \in Seq(S), NEW x \in S, NEW i \in 1..Len(s) + 1
  PROVE  IsInserted(S, s, i, x, InsertAt(s, i, x))
<1> DEFINE a == SubSeq(s, 1, i - 1)
           b == SubSeq(s, i, Len(s))
           c == a \o <<x>>
<1>1. /\ a \in Seq(S) /\ Len(a) = i - 1
      /\ \A j \in 1..i - 1 : a[j] = s[j]
  OBVIOUS
<1>2. /\ b \in Seq(S) /\ Len(b) = Len(s) + 1 - i
      /\ \A j \in 1..Len(s) + 1 - i : b[j] = s[i + j - 1]
  OBVIOUS
<1>3. InsertAt(s, i, x) = c \o b
  BY DEF InsertAt
<1> HIDE DEF a, b
<1>4. /\ c \in Seq(S) /\ Len(c) = i
      /\ \A j \in 1..i : c[j] = IF j < i THEN s[j] ELSE x
  BY <1>1
<1> HIDE DEF c
<1>0. Len(c) + Len(b) = Len(s) + 1 /\ Len(c) \in Nat /\ Len(s) \in Nat
  BY <1>2, <1>4
<1>5. /\ c \o b \in Seq(S) /\ Len(c \o b) = Len(c) + Len(b)
      /\ \A j \in 1..Len(c) + Len(b) : (c \o b)[j] = IF j <= Len(c) THEN c[j] ELSE b[j - Len(c)]
  BY <1>2, <1>4, ConcatProperties
<1>6. ASSUME NEW j \in 1..Len(s) + 1
      PROVE  (c \o b)[j] = IF j < i THEN s[j] ELSE IF j = i THEN x ELSE s[j - 1]
  <2>0. (c \o b)[j] = IF j <= Len(c) THEN c[j] ELSE b[j - Len(c)]
    BY <1>0, <1>5
  <2>1. CASE j <= i
    <3>1. j \in 1..i /\ j <= Len(c)
      BY <1>4, <2>1
    <3> QED BY <1>4, <2>0, <2>1, <3>1
  <2>2. CASE ~ (j <= i)
    <3>1. j - Len(c) \in 1..Len(s) + 1 - i /\ i + (j - Len(c)) - 1 = j - 1 /\ ~ (j <= Len(c))
      BY <1>4, <2>2
    <3>2. b[j - Len(c)] = s[j - 1]
      BY <1>2, <3>1
    <3>3. (c \o b)[j] = s[j - 1]
      BY <2>0, <3>1, <3>2
    <3>4. ~ (j < i) /\ j # i
      BY <2>2
    <3> QED BY <3>3, <3>4
  <2> QED BY <2>1, <2>2
<1> QED BY <1>0, <1>3, <1>5, <1>6 DEF IsInserted

\* A set of numbers with an upper bound has a greatest one.
LEMMA Longest ==
  ASSUME NEW m \in Nat, NEW K, K \subseteq 0..m, K # {}
  PROVE  \E i \in K : \A j \in K : j <= i
<1> DEFINE Up(i) == {j \in K : i <= j}
           T == {Up(i) : i \in K}
<1>1. IsFiniteSet(K)
  BY FS_Interval, FS_Subset, 0 \in Int, m \in Int
<1>2. IsWellFoundedOn(StrictSubsetOrdering(K), SUBSET K)
  BY <1>1, FS_StrictSubsetOrderingWellFounded, FS_FiniteSubsetsOfFinite
<1>3. T \subseteq SUBSET K /\ T # {}
  OBVIOUS
<1>4. PICK t \in T : \A u \in T : ~ (<<u, t>> \in StrictSubsetOrdering(K))
  BY <1>2, <1>3, WFMin
<1>5. PICK i \in K : t = Up(i)
  BY <1>4
<1>6. ASSUME NEW j \in K, i < j
      PROVE  FALSE
  <2>0. K \subseteq Int /\ i \in Up(i) /\ i \notin Up(j)
    BY <1>5, <1>6
  <2>1. Up(j) \subseteq Up(i) /\ Up(j) # Up(i)
    <3>1. \A k \in Up(j) : k \in Up(i)
      BY <1>6, <2>0
    <3> QED BY <2>0, <3>1
  <2>2. <<Up(j), t>> \in StrictSubsetOrdering(K)
    BY <1>5, <2>1 DEF StrictSubsetOrdering
  <2> QED BY <1>4, <2>2
<1> QED BY <1>6

----------------------------------------------------------------------------
(* Lists of bullets.                                                        *)

\* No bullet is in two places.
Lists(K) ==
  /\ K \in [Group -> Seq(Rem)]
  /\ \A p, q \in Group : \A i \in DOMAIN K[p], j \in DOMAIN K[q] :
       K[p][i] = K[q][j] => p = q /\ i = j

Before(K, p, x, y) == \E a, b \in DOMAIN K[p] : a < b /\ K[p][a] = x /\ K[p][b] = y

\* Bullets other than X are where they were, in the same order.
SameButFor(K, J, X) ==
  \A p \in Group : \A x \in Rem \ X :
    /\ x \in ToSet(J[p]) <=> x \in ToSet(K[p])
    /\ \A y \in Rem \ X : Before(K, p, x, y) => Before(J, p, x, y)

\* r is in no list, or in that of p.
Absent(K, r) == \A q \in Group : r \notin ToSet(K[q])
OnlyIn(K, r, p) == \A q \in Group : r \in ToSet(K[q]) <=> q = p

\* At most the list of p has changed.
OnlyAt(K, J, p) == \A q \in Group \ {p} : J[q] = K[q]

LEMMA SameTwice ==
  ASSUME NEW K, NEW J, NEW H, NEW X, SameButFor(K, J, X), SameButFor(J, H, X)
  PROVE  SameButFor(K, H, X)
BY DEF SameButFor

\* A bullet is taken out of its list.
LEMMA ListRemoved ==
  ASSUME NEW K, Lists(K), NEW p \in Group, NEW i \in DOMAIN K[p], NEW J,
         J = [K EXCEPT ![p] = RemoveAt(@, i)]
  PROVE  /\ Lists(J)
         /\ SameButFor(K, J, {K[p][i]})
         /\ Absent(J, K[p][i])
         /\ OnlyAt(K, J, p)
<1> DEFINE s == K[p]
           From(j) == IF j < i THEN j ELSE j + 1
           To(j) == IF j < i THEN j ELSE j - 1
<1>1. s \in Seq(Rem) /\ i \in 1..Len(s) /\ Len(s) \in Nat /\ i \in Int
  BY DEF Lists
<1>2. /\ J[p] \in Seq(Rem) /\ Len(J[p]) = Len(s) - 1
      /\ \A j \in 1..Len(s) - 1 : J[p][j] = s[From(j)]
  <2>1. J[p] = RemoveAt(s, i)
    BY DEF Lists
  <2>2. /\ RemoveAt(s, i) \in Seq(Rem)
        /\ Len(RemoveAt(s, i)) = Len(s) - 1
        /\ \A j \in 1..Len(s) - 1 : RemoveAt(s, i)[j] = s[From(j)]
    BY <1>1, RemoveAtPlaces, Zenon
  <2> QED BY <2>1, <2>2, Zenon
<1>3. \A q \in Group \ {p} : J[q] = K[q]
  BY DEF Lists
<1>4. DOMAIN J[p] = 1..Len(s) - 1
  BY <1>1, <1>2
<1>5. \A j \in DOMAIN J[p] : From(j) \in DOMAIN s /\ From(j) # i
  BY <1>1, <1>4
<1>6. \A j \in DOMAIN s \ {i} : To(j) \in DOMAIN J[p] /\ From(To(j)) = j
  BY <1>1, <1>4
<1>7. \A j \in DOMAIN s \ {i} : J[p][To(j)] = s[j]
  BY <1>2, <1>4, <1>6
<1>8. \A j, k \in DOMAIN J[p] : From(j) = From(k) => j = k
  BY <1>1, <1>4
<1>9. \A j, k \in DOMAIN s \ {i} : j < k => To(j) < To(k)
  BY <1>1
<1> HIDE DEF From, To
<1>10. \A j \in DOMAIN J[p] : J[p][j] = s[From(j)]
  BY <1>2, <1>4
<1>11. J \in [Group -> Seq(Rem)]
  BY <1>2, <1>3 DEF Lists
<1>12. Lists(J)
  <2> SUFFICES ASSUME NEW q1 \in Group, NEW q2 \in Group,
                      NEW j \in DOMAIN J[q1], NEW k \in DOMAIN J[q2], J[q1][j] = J[q2][k]
               PROVE  q1 = q2 /\ j = k
    BY <1>11 DEF Lists
  <2>1. CASE q1 = p /\ q2 = p
    BY <1>5, <1>8, <1>10, <2>1 DEF Lists
  <2>2. CASE q1 = p /\ q2 # p
    BY <1>3, <1>5, <1>10, <2>2 DEF Lists
  <2>3. CASE q1 # p /\ q2 = p
    BY <1>3, <1>5, <1>10, <2>3 DEF Lists
  <2>4. CASE q1 # p /\ q2 # p
    BY <1>3, <2>4 DEF Lists
  <2> QED BY <2>1, <2>2, <2>3, <2>4
<1>13. Absent(J, s[i])
  <2> SUFFICES ASSUME NEW q \in Group, NEW j \in DOMAIN J[q], J[q][j] = s[i]
               PROVE  FALSE
    BY DEF ToSet, Absent
  <2> QED BY <1>1, <1>3, <1>5, <1>10 DEF Lists
<1>14. SameButFor(K, J, {s[i]})
  <2> SUFFICES ASSUME NEW q \in Group, NEW x \in Rem \ {s[i]}
               PROVE  /\ x \in ToSet(J[q]) <=> x \in ToSet(K[q])
                      /\ \A y \in Rem \ {s[i]} : Before(K, q, x, y) => Before(J, q, x, y)
    BY DEF SameButFor
  <2>1. CASE q # p
    BY <1>3, <2>1 DEF Before
  <2>2. CASE q = p
    <3>1. x \in ToSet(J[q]) => x \in ToSet(K[q])
      BY <1>5, <1>10, <2>2 DEF ToSet
    <3>2. x \in ToSet(K[q]) => x \in ToSet(J[q])
      <4> SUFFICES ASSUME NEW j \in DOMAIN s, s[j] = x
                   PROVE  x \in ToSet(J[p])
        BY <2>2 DEF ToSet
      <4> QED BY <1>6, <1>7 DEF ToSet
    <3>3. ASSUME NEW y \in Rem \ {s[i]}, Before(K, q, x, y)
          PROVE  Before(J, q, x, y)
      <4>1. PICK a, b \in DOMAIN s : a < b /\ s[a] = x /\ s[b] = y
        BY <2>2, <3>3 DEF Before
      <4>2. To(a) \in DOMAIN J[p] /\ To(b) \in DOMAIN J[p] /\ To(a) < To(b)
        BY <1>6, <1>9, <4>1
      <4>3. J[p][To(a)] = x /\ J[p][To(b)] = y
        BY <1>7, <4>1
      <4> QED BY <2>2, <4>2, <4>3 DEF Before
    <3> QED BY <3>1, <3>2, <3>3
  <2> QED BY <2>1, <2>2
<1> QED BY <1>3, <1>12, <1>13, <1>14 DEF OnlyAt

\* A bullet that is in no list is put into one.
LEMMA ListInserted ==
  ASSUME NEW K, Lists(K), NEW r \in Rem, Absent(K, r),
         NEW p \in Group, NEW n \in 1..Len(K[p]) + 1, NEW J,
         J = [K EXCEPT ![p] = InsertAt(@, n, r)]
  PROVE  /\ Lists(J)
         /\ SameButFor(K, J, {r})
         /\ OnlyIn(J, r, p)
         /\ n = Len(K[p]) + 1 => \A x \in ToSet(K[p]) : Before(J, p, x, r)
<1> DEFINE s == K[p]
           From(j) == IF j < n THEN j ELSE j - 1
           To(j) == IF j < n THEN j ELSE j + 1
<1>1. s \in Seq(Rem) /\ Len(s) \in Nat /\ n \in Int
  BY DEF Lists
<1>2. /\ J[p] \in Seq(Rem) /\ Len(J[p]) = Len(s) + 1
      /\ \A j \in 1..Len(s) + 1 : j < n => J[p][j] = s[j]
      /\ J[p][n] = r
      /\ \A j \in 1..Len(s) + 1 : n < j => J[p][j] = s[j - 1]
  <2>1. J[p] = InsertAt(s, n, r)
    BY DEF Lists
  <2>2. IsInserted(Rem, s, n, r, InsertAt(s, n, r))
    BY <1>1, InsertAtPlaces
  <2> QED BY <2>1, <2>2 DEF IsInserted
<1>3. \A q \in Group \ {p} : J[q] = K[q]
  BY DEF Lists
<1>4. DOMAIN J[p] = 1..Len(s) + 1 /\ DOMAIN s = 1..Len(s)
  BY <1>1, <1>2
<1>5. \A j \in DOMAIN J[p] \ {n} : From(j) \in DOMAIN s /\ J[p][j] = s[From(j)]
  BY <1>1, <1>2, <1>4
<1>6. n \in DOMAIN J[p] /\ J[p][n] = r
  BY <1>1, <1>2, <1>4
<1>7. \A j \in DOMAIN s : To(j) \in DOMAIN J[p] \ {n} /\ From(To(j)) = j
  BY <1>1, <1>4
<1>8. \A j, k \in DOMAIN J[p] \ {n} : From(j) = From(k) => j = k
  BY <1>1, <1>4
<1>9. \A j, k \in DOMAIN s : j < k => To(j) < To(k)
  BY <1>1
<1>10. n = Len(s) + 1 => \A j \in DOMAIN s : To(j) < n
  BY <1>1, <1>4
<1> HIDE DEF From, To
<1>11. \A j \in DOMAIN s : J[p][To(j)] = s[j]
  BY <1>5, <1>7
<1>12. J \in [Group -> Seq(Rem)]
  BY <1>2, <1>3 DEF Lists
<1>13. \A q \in Group : \A j \in DOMAIN J[q] : J[q][j] = r <=> q = p /\ j = n
  BY <1>3, <1>5, <1>6 DEF ToSet, Absent
<1>14. Lists(J)
  <2> SUFFICES ASSUME NEW q1 \in Group, NEW q2 \in Group,
                      NEW j \in DOMAIN J[q1], NEW k \in DOMAIN J[q2], J[q1][j] = J[q2][k]
               PROVE  q1 = q2 /\ j = k
    BY <1>12 DEF Lists
  <2>1. CASE J[q1][j] = r
    BY <1>13, <2>1
  <2>2. CASE J[q1][j] # r
    <3>1. CASE q1 = p /\ q2 = p
      BY <1>5, <1>6, <1>8, <2>2, <3>1 DEF Lists
    <3>2. CASE q1 = p /\ q2 # p
      BY <1>3, <1>5, <1>6, <2>2, <3>2 DEF Lists
    <3>3. CASE q1 # p /\ q2 = p
      BY <1>3, <1>5, <1>6, <2>2, <3>3 DEF Lists
    <3>4. CASE q1 # p /\ q2 # p
      BY <1>3, <3>4 DEF Lists
    <3> QED BY <3>1, <3>2, <3>3, <3>4
  <2> QED BY <2>1, <2>2
<1>15. OnlyIn(J, r, p)
  BY <1>6, <1>13 DEF ToSet, OnlyIn
<1>16. SameButFor(K, J, {r})
  <2> SUFFICES ASSUME NEW q \in Group, NEW x \in Rem \ {r}
               PROVE  /\ x \in ToSet(J[q]) <=> x \in ToSet(K[q])
                      /\ \A y \in Rem \ {r} : Before(K, q, x, y) => Before(J, q, x, y)
    BY DEF SameButFor
  <2>1. CASE q # p
    BY <1>3, <2>1 DEF Before
  <2>2. CASE q = p
    <3>1. x \in ToSet(J[q]) => x \in ToSet(K[q])
      BY <1>5, <1>6, <2>2 DEF ToSet
    <3>2. x \in ToSet(K[q]) => x \in ToSet(J[q])
      <4> SUFFICES ASSUME NEW j \in DOMAIN s, s[j] = x
                   PROVE  x \in ToSet(J[p])
        BY <2>2 DEF ToSet
      <4> QED BY <1>7, <1>11 DEF ToSet
    <3>3. ASSUME NEW y \in Rem \ {r}, Before(K, q, x, y)
          PROVE  Before(J, q, x, y)
      <4>1. PICK a, b \in DOMAIN s : a < b /\ s[a] = x /\ s[b] = y
        BY <2>2, <3>3 DEF Before
      <4>2. To(a) \in DOMAIN J[p] /\ To(b) \in DOMAIN J[p] /\ To(a) < To(b)
        BY <1>7, <1>9, <4>1
      <4>3. J[p][To(a)] = x /\ J[p][To(b)] = y
        BY <1>11, <4>1
      <4> QED BY <2>2, <4>2, <4>3 DEF Before
    <3> QED BY <3>1, <3>2, <3>3
  <2> QED BY <2>1, <2>2
<1>17. ASSUME n = Len(s) + 1, NEW x \in ToSet(s)
       PROVE  Before(J, p, x, r)
  <2>1. PICK j \in DOMAIN s : s[j] = x
    BY <1>17 DEF ToSet
  <2>2. To(j) \in DOMAIN J[p] /\ To(j) < n /\ J[p][To(j)] = x
    BY <1>7, <1>10, <1>11, <1>17, <2>1
  <2> QED BY <1>6, <2>2 DEF Before
<1> QED BY <1>14, <1>15, <1>16, <1>17

\* The end of a list is one of its places.
LEMMA AppendIsInsert ==
  ASSUME NEW s \in Seq(Rem), NEW r \in Rem
  PROVE  Append(s, r) = InsertAt(s, Len(s) + 1, r)
<1>1. Len(s) \in Nat /\ Len(s) + 1 \in 1..Len(s) + 1
  OBVIOUS
<1>2. IsInserted(Rem, s, Len(s) + 1, r, InsertAt(s, Len(s) + 1, r))
  BY <1>1, InsertAtPlaces
<1>3. /\ Append(s, r) \in Seq(Rem) /\ Len(Append(s, r)) = Len(s) + 1
      /\ \A j \in 1..Len(s) + 1 : Append(s, r)[j] = IF j < Len(s) + 1 THEN s[j] ELSE r
  BY <1>1
<1>4. \A j \in 1..Len(s) + 1 : Append(s, r)[j] = InsertAt(s, Len(s) + 1, r)[j]
  BY <1>1, <1>2, <1>3 DEF IsInserted
<1> QED BY <1>2, <1>3, <1>4, SeqEqual DEF IsInserted

----------------------------------------------------------------------------
(* Links.                                                                   *)

Contents == [Rem -> Text \union {Nil}]

Refs(T, s) == IF T[s] = Nil THEN {} ELSE T[s].refs

\* Bullets other than X refer to what the contents T say, and to bullets there.
LinksFit(T, L, X) ==
  \A s \in Rem \ X : L[s] \in [Refs(T, s) -> There(T) \union {Nil}]

\* NamedIsLinked for the contents T, the links L and the history S.
NamedLead(T, L, S, X) ==
  \A s, x \in There(T) \ X :
    LET u == T[x].title IN u \in T[s].refs /\ u \in T[x].begins /\ u \notin S[s] => L[s][u] # Nil

\* Links of bullets other than X lead in M where they lead in L, and those that
\* lead nowhere may come to lead to one of X.
LinksKept(T, L, M, X) ==
  \A s \in Rem \ X : \A u \in DOMAIN L[s] :
    /\ u \in DOMAIN M[s]
    /\ L[s][u] # Nil => M[s][u] = L[s][u]
    /\ L[s][u] = Nil => M[s][u] \in {Nil} \union {x \in There(T) : x \in X /\ T[x].title = u}

Cleared(S, r) == [s \in Rem |-> IF s = r THEN {} ELSE S[s]]

\* What the sync of one bullet does.
LEMMA SyncedStep ==
  ASSUME NEW T \in Contents, NEW L, NEW S, NEW r \in There(T), LinksFit(T, L, {r}),
         NEW M \in Synced(T, L, r)
  PROVE  /\ LinksFit(T, M, {})
         /\ NamedLead(T, L, S, {r}) => NamedLead(T, M, Cleared(S, r), {})
         /\ LinksKept(T, L, M, {r})
<1> DEFINE Found(u) == IF BeginWith(T, u) = {} THEN {Nil} ELSE BeginWith(T, u)
           Resolved(f) == [u \in DOMAIN f |-> IF f[u] = Nil /\ u = T[r].title THEN r ELSE f[u]]
<1>1. PICK f \in [T[r].refs -> Rem \union {Nil}] :
        /\ \A u \in DOMAIN f : f[u] \in Found(u)
        /\ M = [s \in Rem |-> Resolved(IF s = r THEN f ELSE L[s])]
  BY DEF Synced
<1>2. r \in Rem /\ T[r] # Nil /\ There(T) \subseteq Rem /\ Nil \notin Rem
  BY ConstantFacts DEF There
<1>3. \A u \in DOMAIN f : f[u] \in There(T) \union {Nil}
  BY <1>1 DEF BeginWith
<1>4. M[r] = Resolved(f) /\ \A s \in Rem \ {r} : M[s] = Resolved(L[s])
  BY <1>1, <1>2
<1>0. \A g : /\ DOMAIN Resolved(g) = DOMAIN g
             /\ \A u \in DOMAIN g :
                  Resolved(g)[u] = IF g[u] = Nil /\ u = T[r].title THEN r ELSE g[u]
  OBVIOUS
<1>5. DOMAIN f = Refs(T, r)
  BY <1>2 DEF Refs
<1>6. ASSUME NEW g, NEW s \in Rem, g \in [Refs(T, s) -> There(T) \union {Nil}]
      PROVE  Resolved(g) \in [Refs(T, s) -> There(T) \union {Nil}]
  BY <1>6
<1>7. f \in [Refs(T, r) -> There(T) \union {Nil}]
  BY <1>3, <1>5
<1> HIDE DEF Resolved
<1>8. LinksFit(T, M, {})
  <2> SUFFICES ASSUME NEW s \in Rem PROVE M[s] \in [Refs(T, s) -> There(T) \union {Nil}]
    BY DEF LinksFit
  <2>1. CASE s = r
    BY <1>4, <1>6, <1>7, <2>1
  <2>2. CASE s # r
    BY <1>4, <1>6, <2>2 DEF LinksFit
  <2> QED BY <2>1, <2>2
<1>9. ASSUME NamedLead(T, L, S, {r})
      PROVE  NamedLead(T, M, Cleared(S, r), {})
  <2> SUFFICES ASSUME NEW s \in There(T), NEW x \in There(T), T[x].title \in T[s].refs,
                      T[x].title \in T[x].begins, T[x].title \notin Cleared(S, r)[s]
               PROVE  M[s][T[x].title] # Nil
    BY DEF NamedLead
  <2> DEFINE u == T[x].title
  <2>1. u \in Refs(T, s) /\ s \in Rem /\ x \in Rem
    BY <1>2 DEF Refs, There
  <2>2. CASE s = r
    <3>1. u \in DOMAIN f /\ x \in BeginWith(T, u)
      BY <1>5, <2>1, <2>2 DEF BeginWith
    <3>2. f[u] \in BeginWith(T, u) /\ f[u] # Nil
      BY <1>1, <1>2, <3>1 DEF BeginWith
    <3> QED BY <1>0, <1>4, <2>2, <3>1, <3>2
  <2>3. CASE s # r
    <3>1. u \in DOMAIN L[s] /\ M[s][u] = IF L[s][u] = Nil /\ u = T[r].title THEN r ELSE L[s][u]
      <4>1. L[s] \in [Refs(T, s) -> There(T) \union {Nil}]
        BY <2>1, <2>3 DEF LinksFit
      <4> QED BY <1>0, <1>4, <2>1, <2>3, <4>1
    <3>2. CASE x = r
      BY <1>2, <3>1, <3>2
    <3>3. CASE x # r
      BY <1>2, <1>9, <2>1, <2>3, <3>1, <3>3 DEF NamedLead, Cleared
    <3> QED BY <3>2, <3>3
  <2> QED BY <2>2, <2>3
<1>10. LinksKept(T, L, M, {r})
  BY <1>0, <1>2, <1>4 DEF LinksKept
<1> QED BY <1>8, <1>9, <1>10

\* The same, where there may be no bullet to save.
LEMMA SavedStep ==
  ASSUME NEW T \in Contents, NEW Ls, NEW S, NEW r, r = Nil \/ r \in There(T),
         NEW M \in Saved(T, Ls, r)
  PROVE  \E L \in Ls :
           LinksFit(T, L, {r}) =>
             /\ LinksFit(T, M, {})
             /\ NamedLead(T, L, S, {r}) => NamedLead(T, M, Cleared(S, r), {})
             /\ LinksKept(T, L, M, {r})
<1>1. CASE r = Nil
  <2>1. M \in Ls
    BY <1>1 DEF Saved
  <2>2. Rem \ {r} = Rem /\ There(T) \ {r} = There(T) /\ There(T) \subseteq Rem
    BY <1>1, ConstantFacts DEF There
  <2>3. LinksFit(T, M, {r}) => LinksFit(T, M, {})
    BY <2>2 DEF LinksFit
  <2>4. NamedLead(T, M, S, {r}) => NamedLead(T, M, Cleared(S, r), {})
    <3>1. \A s \in There(T) : Cleared(S, r)[s] = S[s]
      BY <2>2 DEF Cleared
    <3> QED BY <2>2, <3>1 DEF NamedLead
  <2>5. LinksKept(T, M, M, {r})
    BY DEF LinksKept
  <2> QED BY <2>1, <2>3, <2>4, <2>5
<1>2. CASE r # Nil
  <2>1. r \in There(T)
    BY <1>2
  <2>2. PICK L \in Ls : M \in Synced(T, L, r)
    BY <1>2 DEF Saved
  <2> QED BY <2>1, <2>2, SyncedStep
<1> QED BY <1>1, <1>2

\* What an operation does to the links: L and S are what they are before r
\* and the parents are saved.
LEMMA SaveFacts ==
  ASSUME NEW T \in Contents, NEW L, NEW S, NEW r, r = Nil \/ r \in There(T),
         NEW p \in Group, NEW q \in Group, LinksFit(T, L, {r}), Save(T, L, S, r, p, q)
  PROVE  /\ text' = T
         /\ LinksFit(T, link', {})
         /\ NamedLead(T, L, S, {r}) => NamedLead(T, link', lost', {})
         /\ LinksKept(T, L, link', {r} \union {s \in There(T) : T[s].list})
         /\ S \in [Rem -> SUBSET Title] => lost' \in [Rem -> SUBSET Title]
<1> DEFINE a == Again(T, p)
           b == Again(T, q)
           S1 == Cleared(S, r)
           S2 == Cleared(S1, a)
           S3 == Cleared(S2, b)
           X == {r} \union {s \in There(T) : T[s].list}
<1>1. /\ a = Nil \/ (a \in There(T) /\ T[a].list)
      /\ b = Nil \/ (b \in There(T) /\ T[b].list)
  BY DEF Again, There, Group
<1>2. link' \in Saved(T, Saved(T, Saved(T, {L}, r), a), b)
  BY DEF Save
<1> HIDE DEF a, b
<1>3. PICK L2 \in Saved(T, Saved(T, {L}, r), a) :
        LinksFit(T, L2, {b}) =>
          /\ LinksFit(T, link', {})
          /\ NamedLead(T, L2, S2, {b}) => NamedLead(T, link', S3, {})
          /\ LinksKept(T, L2, link', {b})
  BY <1>1, <1>2, SavedStep
<1>4. PICK L1 \in Saved(T, {L}, r) :
        LinksFit(T, L1, {a}) =>
          /\ LinksFit(T, L2, {})
          /\ NamedLead(T, L1, S1, {a}) => NamedLead(T, L2, S2, {})
          /\ LinksKept(T, L1, L2, {a})
  BY <1>1, SavedStep
<1>5. /\ LinksFit(T, L1, {})
      /\ NamedLead(T, L, S, {r}) => NamedLead(T, L1, S1, {})
      /\ LinksKept(T, L, L1, {r})
  <2> DEFINE Ls == {L}
  <2>0. L1 \in Saved(T, Ls, r)
    BY <1>4
  <2> HIDE DEF Ls
  <2>1. PICK L0 \in Ls :
          LinksFit(T, L0, {r}) =>
            /\ LinksFit(T, L1, {})
            /\ NamedLead(T, L0, S, {r}) => NamedLead(T, L1, S1, {})
            /\ LinksKept(T, L0, L1, {r})
    BY <2>0, SavedStep
  <2>2. L0 = L
    BY <2>1 DEF Ls
  <2> QED BY <2>1, <2>2
<1>6. \A M, R, x : /\ LinksFit(T, M, {}) => LinksFit(T, M, {x})
                   /\ NamedLead(T, M, R, {}) => NamedLead(T, M, R, {x})
  BY DEF LinksFit, NamedLead
<1>7. /\ LinksFit(T, L2, {})
      /\ NamedLead(T, L1, S1, {}) => NamedLead(T, L2, S2, {})
      /\ LinksKept(T, L1, L2, {a})
  BY <1>4, <1>5, <1>6
<1>8. /\ LinksFit(T, link', {})
      /\ NamedLead(T, L2, S2, {}) => NamedLead(T, link', S3, {})
      /\ LinksKept(T, L2, link', {b})
  BY <1>3, <1>6, <1>7
<1>9. lost' = S3
  <2>1. lost' = [s \in Rem |-> IF s \in {r, a, b} THEN {} ELSE S[s]]
    BY DEF Save, a, b
  <2> QED BY <2>1 DEF Cleared
<1>10. LinksKept(T, L, link', X)
  <2> SUFFICES ASSUME NEW s \in Rem \ X, NEW u \in DOMAIN L[s]
               PROVE  /\ u \in DOMAIN link'[s]
                      /\ L[s][u] # Nil => link'[s][u] = L[s][u]
                      /\ L[s][u] = Nil =>
                           link'[s][u] \in {Nil} \union {x \in There(T) : x \in X /\ T[x].title = u}
    BY DEF LinksKept
  <2>1. s \in Rem \ {r} /\ s \in Rem \ {a} /\ s \in Rem \ {b}
    BY <1>1, ConstantFacts
  <2>2. /\ u \in DOMAIN L1[s]
        /\ L[s][u] # Nil => L1[s][u] = L[s][u]
        /\ L[s][u] = Nil => L1[s][u] = Nil \/ (r \in There(T) /\ L1[s][u] = r /\ T[r].title = u)
    BY <1>5, <2>1 DEF LinksKept
  <2>3. /\ u \in DOMAIN L2[s]
        /\ L1[s][u] # Nil => L2[s][u] = L1[s][u]
        /\ L1[s][u] = Nil => L2[s][u] = Nil \/ (a \in There(T) /\ L2[s][u] = a /\ T[a].title = u)
    BY <1>7, <2>1, <2>2 DEF LinksKept
  <2>4. /\ u \in DOMAIN link'[s]
        /\ L2[s][u] # Nil => link'[s][u] = L2[s][u]
        /\ L2[s][u] = Nil => link'[s][u] = Nil \/ (b \in There(T) /\ link'[s][u] = b /\ T[b].title = u)
    BY <1>8, <2>1, <2>3 DEF LinksKept
  <2>5. /\ r \in There(T) => r \in X /\ r # Nil
        /\ a \in There(T) => a \in X /\ a # Nil
        /\ b \in There(T) => b \in X /\ b # Nil
    BY <1>1, ConstantFacts DEF There
  <2> HIDE DEF X
  <2> QED BY <2>2, <2>3, <2>4, <2>5
<1>11. S \in [Rem -> SUBSET Title] => S3 \in [Rem -> SUBSET Title]
  BY DEF Cleared
<1>12. text' = T
  BY DEF Save
<1> QED BY <1>5, <1>7, <1>8, <1>9, <1>10, <1>11, <1>12

----------------------------------------------------------------------------
(* The parts of TypeOK, and the operations on them.                         *)

\* A bullet is in a list if and only if it is there, and has bullets below it
\* only then.
ListsFit(T, K) ==
  /\ Lists(K)
  /\ \A r \in Rem : T[r] = Nil => K[r] = <<>>
  /\ \A r \in Rem : T[r] # Nil <=> \E p \in Group : r \in ToSet(K[p])

RestFits ==
  /\ text \in Contents
  /\ lost \in [Rem -> SUBSET Title]
  /\ There(text) \subseteq used /\ used \subseteq Rem
  /\ doc \in Docs \union {<<>>} /\ line \in 0..Len(doc)
  /\ stack \in Seq([id : Rem, level : Nat])
  /\ DOMAIN made \subseteq 1..line
  /\ moved \subseteq Rem

LEMMA TypeParts ==
  TypeOK <=> RestFits /\ ListsFit(text, kids) /\ LinksFit(text, link, {})
<1>1. LinksFit(text, link, {}) <=>
        \A r \in Rem : link[r] \in [IF text[r] = Nil THEN {} ELSE text[r].refs -> There(text) \union {Nil}]
  BY DEF LinksFit, Refs
<1>2. ListsFit(text, kids) <=>
        /\ kids \in [Group -> Seq(Rem)]
        /\ \A p, q \in Group : \A i \in DOMAIN kids[p], j \in DOMAIN kids[q] :
             kids[p][i] = kids[q][j] => p = q /\ i = j
        /\ \A r \in Rem : /\ text[r] = Nil => kids[r] = <<>>
                          /\ text[r] # Nil <=> \E p \in Group : r \in ToSet(kids[p])
  BY DEF ListsFit, Lists
<1> QED BY <1>1, <1>2 DEF TypeOK, RestFits, Contents, Group

LEMMA EmptyList ==
  ASSUME NEW s \in Seq(Rem), ToSet(s) = {}
  PROVE  s = <<>>
<1>1. Len(s) \in Nat /\ DOMAIN s = 1..Len(s)
  OBVIOUS
<1>2. DOMAIN s = {}
  BY DEF ToSet
<1>3. Len(s) = 0
  <2>1. CASE Len(s) >= 1
    <3>1. 1 \in DOMAIN s
      BY <1>1, <2>1
    <3> QED BY <1>2, <3>1
  <2> QED BY <1>1, <2>1
<1> QED BY <1>3

\* Where a bullet is, and what is left without it.
LEMMA ParentFacts ==
  ASSUME TypeOK, NEW r \in Rem, text[r] # Nil
  PROVE  /\ Parent(r) \in Group
         /\ Place(r) \in DOMAIN kids[Parent(r)] /\ kids[Parent(r)][Place(r)] = r
         /\ Parent(r) = Nil \/ Parent(r) \in There(text)
         /\ Lists(Taken(r))
         /\ SameButFor(kids, Taken(r), {r})
         /\ Absent(Taken(r), r)
         /\ OnlyAt(kids, Taken(r), Parent(r))
<1> DEFINE p == Parent(r)
           i == Place(r)
<1>1. ListsFit(text, kids) /\ Lists(kids)
  BY TypeParts DEF ListsFit
<1>2. p \in Group /\ r \in ToSet(kids[p])
  <2>1. \E q \in Rem \union {Nil} : r \in ToSet(kids[q])
    BY <1>1 DEF ListsFit, Group
  <2> QED BY <2>1 DEF Parent, Group
<1>3. i \in DOMAIN kids[p] /\ kids[p][i] = r
  <2>1. \E j \in DOMAIN kids[p] : kids[p][j] = r
    BY <1>2 DEF ToSet
  <2> QED BY <2>1 DEF Place
<1>4. p = Nil \/ p \in There(text)
  <2> SUFFICES ASSUME p \in Rem, text[p] = Nil PROVE FALSE
    BY <1>2 DEF Group, There
  <2>1. kids[p] = <<>>
    BY <1>1 DEF ListsFit
  <2> QED BY <1>2, <2>1 DEF ToSet
<1>5. Taken(r) = [kids EXCEPT ![p] = RemoveAt(@, i)]
  BY DEF Taken
<1> HIDE DEF p, i
<1>6. /\ Lists(Taken(r))
      /\ SameButFor(kids, Taken(r), {kids[p][i]})
      /\ Absent(Taken(r), kids[p][i])
      /\ OnlyAt(kids, Taken(r), p)
  BY <1>1, <1>2, <1>3, <1>5, ListRemoved
<1> QED BY <1>2, <1>3, <1>4, <1>6 DEF p, i

\* A bullet r goes to the list of q, from another list or for the first time.
LEMMA Rearranged ==
  ASSUME NEW T, NEW K, ListsFit(T, K), NEW U, NEW J, NEW r \in Rem, NEW q \in Group,
         Lists(J), SameButFor(K, J, {r}), OnlyIn(J, r, q),
         \A x \in Rem \ {r} : U[x] = Nil <=> T[x] = Nil,
         U[r] # Nil, q = Nil \/ U[q] # Nil, K[r] = <<>> \/ T[r] # Nil
  PROVE  ListsFit(U, J)
<1>1. ASSUME NEW x \in Rem, U[x] = Nil
      PROVE  J[x] = <<>>
  <2>1. x # r /\ x # q /\ K[x] = <<>> /\ x \in Group
    BY <1>1, ConstantFacts DEF ListsFit, Group
  <2>2. ToSet(J[x]) = {}
    <3>1. J[x] \in Seq(Rem) /\ ToSet(J[x]) \subseteq Rem /\ ToSet(K[x]) = {}
      BY <2>1 DEF Lists, ToSet
    <3> QED BY <2>1, <3>1 DEF SameButFor, OnlyIn
  <2> QED BY <2>1, <2>2, EmptyList DEF Lists
<1>2. ASSUME NEW x \in Rem
      PROVE  U[x] # Nil <=> \E p \in Group : x \in ToSet(J[p])
  <2>1. CASE x = r
    BY <2>1 DEF OnlyIn
  <2>2. CASE x # r
    BY <2>2 DEF ListsFit, SameButFor
  <2> QED BY <2>1, <2>2
<1> QED BY <1>1, <1>2 DEF ListsFit

\* There are no cycles: of any bullets one is not below another of them.
Rooted(T, K) ==
  \A S \in SUBSET There(T) : S # {} => \E x \in S : \A p \in S : x \notin ToSet(K[p])

\* It is enough to look at sets with a bullet r and the one that r goes under.
LEMMA RootedStep ==
  ASSUME NEW T, NEW K, Rooted(T, K), NEW U, NEW J, NEW r \in Rem, NEW q \in Group,
         SameButFor(K, J, {r}), OnlyIn(J, r, q), There(U) \subseteq There(T) \union {r},
         \A S \in SUBSET There(U) :
           r \in S /\ q \in S => \E x \in S : \A p \in S : x \notin ToSet(J[p])
  PROVE  Rooted(U, J)
<1> SUFFICES ASSUME NEW S \in SUBSET There(U), S # {}
             PROVE  \E x \in S : \A p \in S : x \notin ToSet(J[p])
  BY DEF Rooted
<1>1. S \subseteq Rem /\ S \subseteq Group
  BY DEF There, Group
<1>2. CASE r \notin S
  <2>1. PICK x \in S : \A p \in S : x \notin ToSet(K[p])
    BY <1>2 DEF Rooted
  <2> QED BY <1>1, <1>2, <2>1 DEF SameButFor
<1>3. CASE r \in S /\ q \notin S
  BY <1>1, <1>3 DEF OnlyIn
<1>4. CASE r \in S /\ q \in S
  BY <1>4
<1> QED BY <1>2, <1>3, <1>4

\* The branch of r is what is below r, and no list outside it has more of it
\* than r.
LEMMA BranchFacts ==
  ASSUME TypeOK, NEW r \in Rem, text[r] # Nil
  PROVE  /\ r \in Branch(r) /\ Branch(r) \subseteq There(text)
         /\ \A x \in Branch(r) : ToSet(kids[x]) \subseteq Branch(r)
         /\ \A x \in Branch(r) \ {r} : \A p \in Group : x \in ToSet(kids[p]) => p \in Branch(r)
<1> DEFINE Closed == {S \in SUBSET There(text) :
                        r \in S /\ \A x \in S : ToSet(kids[x]) \subseteq S}
           B == Branch(r)
<1>1. B = {x \in There(text) : \A S \in Closed : x \in S}
  BY DEF Branch
<1>2. ListsFit(text, kids) /\ There(text) \subseteq Rem /\ r \in There(text)
  BY TypeParts DEF There
<1>3. \A x \in There(text) : x \in Group /\ ToSet(kids[x]) \subseteq There(text)
  <2> SUFFICES ASSUME NEW x \in There(text), NEW y \in ToSet(kids[x])
               PROVE  y \in There(text)
    BY <1>2 DEF Group
  <2>1. x \in Group /\ y \in Rem
    BY <1>2 DEF ListsFit, Lists, Group, ToSet
  <2> QED BY <1>2, <2>1 DEF ListsFit, There
<1> HIDE DEF B
<1>4. r \in B /\ B \subseteq There(text)
  BY <1>1, <1>2
<1>5. ASSUME NEW x \in B
      PROVE  ToSet(kids[x]) \subseteq B
  BY <1>1, <1>3, <1>5
<1>6. ASSUME NEW x \in B \ {r}, NEW p \in Group, x \in ToSet(kids[p]), p \notin B
      PROVE  FALSE
  <2>1. \A y \in B : x \notin ToSet(kids[y])
    <3> SUFFICES ASSUME NEW y \in B, NEW i \in DOMAIN kids[y], kids[y][i] = x
                 PROVE  FALSE
      BY DEF ToSet
    <3>1. PICK j \in DOMAIN kids[p] : kids[p][j] = x
      BY <1>6 DEF ToSet
    <3>2. y \in Group /\ y # p
      BY <1>2, <1>4, <1>6 DEF Group
    <3> QED BY <1>2, <3>1, <3>2 DEF ListsFit, Lists
  <2>2. B \ {x} \in Closed
    BY <1>4, <1>5, <1>6, <2>1
  <2> QED BY <1>1, <1>6, <2>2
<1> QED BY <1>4, <1>5, <1>6 DEF B

----------------------------------------------------------------------------
(* What each operation of the outline does.                                 *)

\* The body of LinksStay.
LinksStep ==
  \A s \in There(text) : \A u \in DOMAIN link[s] :
    LET x == link[s][u] IN
    text'[s] = text[s] /\ ~text[s].list /\ x # Nil =>
      IF text'[x] # Nil THEN link'[s][u] = x
      ELSE link'[s][u] \in {Nil} \union {p \in There(text) : text[p].list /\ text[p].title = u}

LinksGood ==
  /\ text' \in Contents
  /\ LinksFit(text', link', {})
  /\ NamedLead(text, link, lost, {}) => NamedLead(text', link', lost', {})
  /\ lost' \in [Rem -> SUBSET Title]
  /\ LinksStep

\* The links when at most one text has changed.
LEMMA SaveKeeps ==
  ASSUME TypeOK, NEW T \in Contents, NEW r, NEW p \in Group, NEW q \in Group,
         \A s \in Rem \ {r} : T[s] = text[s],
         r = Nil \/ (r \in There(T) /\ T[r] # text[r]),
         Save(T, link, lost, r, p, q)
  PROVE  LinksGood /\ text' = T
<1> DEFINE X == {r} \union {s \in There(T) : T[s].list}
<1>1. RestFits /\ LinksFit(text, link, {})
  BY TypeParts
<1>2. There(text) \subseteq There(T)
  <2> SUFFICES ASSUME NEW s \in Rem, text[s] # Nil PROVE s \in There(T)
    BY DEF There
  <2>1. CASE s = r
    BY <2>1, ConstantFacts
  <2>2. CASE s # r
    BY <2>2 DEF There
  <2> QED BY <2>1, <2>2
<1>3. LinksFit(T, link, {r})
  <2> SUFFICES ASSUME NEW s \in Rem \ {r}
               PROVE  link[s] \in [Refs(T, s) -> There(T) \union {Nil}]
    BY DEF LinksFit
  <2>1. Refs(T, s) = Refs(text, s)
    BY DEF Refs
  <2>2. link[s] \in [Refs(text, s) -> There(text) \union {Nil}]
    BY <1>1 DEF LinksFit
  <2> QED BY <1>2, <2>1, <2>2
<1>4. NamedLead(text, link, lost, {}) => NamedLead(T, link, lost, {r})
  <2>1. \A s \in There(T) \ {r} : s \in There(text) /\ T[s] = text[s]
    BY DEF There
  <2> QED BY <2>1 DEF NamedLead
<1>5. /\ text' = T
      /\ LinksFit(T, link', {})
      /\ NamedLead(T, link, lost, {r}) => NamedLead(T, link', lost', {})
      /\ LinksKept(T, link, link', X)
      /\ lost \in [Rem -> SUBSET Title] => lost' \in [Rem -> SUBSET Title]
  <2>1. r = Nil \/ r \in There(T)
    OBVIOUS
  <2> QED BY <1>3, <2>1, SaveFacts
<1>6. LinksStep
  <2> SUFFICES ASSUME NEW s \in There(text), NEW u \in DOMAIN link[s], T[s] = text[s],
                      ~text[s].list, link[s][u] # Nil
               PROVE  T[link[s][u]] # Nil /\ link'[s][u] = link[s][u]
    BY <1>5 DEF LinksStep
  <2>1. s \in Rem /\ s \notin X
    BY <1>2, ConstantFacts DEF There
  <2>2. link'[s][u] = link[s][u]
    BY <1>5, <2>1 DEF LinksKept
  <2>3. link[s] \in [Refs(text, s) -> There(text) \union {Nil}]
    BY <1>1, <2>1 DEF LinksFit
  <2>4. link[s][u] \in There(T)
    BY <1>2, <2>3
  <2> QED BY <2>2, <2>4 DEF There
<1> QED BY <1>1, <1>4, <1>5, <1>6 DEF LinksGood, RestFits

LEMMA CreateFacts ==
  ASSUME TypeOK, Rooted(text, kids), NEW r \in Rem, NEW p \in Group, NEW t \in Text, CreateRem(r, p, t)
  PROVE  /\ LinksGood /\ ListsFit(text', kids') /\ Rooted(text', kids')
         /\ text' = [text EXCEPT ![r] = t] /\ used' = used \union {r}
         /\ r \notin used
         /\ SameButFor(kids, kids', {r})
         /\ OnlyIn(kids', r, p)
         /\ \A x \in ToSet(kids[p]) : Before(kids', p, x, r)
<1> DEFINE T == [text EXCEPT ![r] = t]
<1>1. RestFits /\ ListsFit(text, kids) /\ Lists(kids)
  BY TypeParts DEF ListsFit
<1>2. r \notin used /\ text[r] = Nil /\ used' = used \union {r}
  BY <1>1 DEF CreateRem, RestFits, There
<1>3. /\ T \in Contents /\ T[r] = t /\ t # Nil
      /\ \A s \in Rem \ {r} : T[s] = text[s]
  BY <1>1, ConstantFacts DEF RestFits, Contents
<1>4. LinksGood /\ text' = T
  <2>1. r \in There(T) /\ T[r] # text[r]
    BY <1>2, <1>3 DEF There
  <2>2. Save(T, link, lost, r, p, Nil) /\ Nil \in Group
    BY DEF CreateRem, Group
  <2> HIDE DEF T
  <2> QED BY <1>3, <2>1, <2>2, SaveKeeps
<1>5. Absent(kids, r)
  BY <1>1, <1>2 DEF ListsFit, Absent
<1>6. kids' = [kids EXCEPT ![p] = InsertAt(@, Len(kids[p]) + 1, r)]
  BY <1>1, AppendIsInsert DEF CreateRem, Lists
<1>7. Len(kids[p]) + 1 \in 1..Len(kids[p]) + 1
  <2>1. kids[p] \in Seq(Rem)
    BY <1>1 DEF Lists
  <2> QED BY <2>1
<1>8. /\ Lists(kids')
      /\ SameButFor(kids, kids', {r})
      /\ OnlyIn(kids', r, p)
      /\ \A x \in ToSet(kids[p]) : Before(kids', p, x, r)
  BY <1>1, <1>5, <1>6, <1>7, ListInserted
<1>9. ListsFit(text', kids')
  <2>1. p = Nil \/ text'[p] # Nil
    BY <1>3, <1>4 DEF CreateRem, Group
  <2>2. \A x \in Rem \ {r} : text'[x] = Nil <=> text[x] = Nil
    BY <1>3, <1>4
  <2>3. text'[r] # Nil /\ kids[r] = <<>>
    BY <1>1, <1>2, <1>3, <1>4 DEF ListsFit
  <2> QED BY <1>1, <1>8, <2>1, <2>2, <2>3, Rearranged
<1>10. Rooted(text', kids')
  <2>1. p # r /\ ToSet(kids'[r]) = {} /\ There(text') \subseteq There(text) \union {r}
    <3>1. p # r
      BY <1>2, ConstantFacts DEF CreateRem, Group
    <3>2. kids[r] = <<>> /\ kids'[r] = kids[r]
      BY <1>1, <1>2, <1>6, <3>1 DEF ListsFit, Lists, Group
    <3> QED BY <1>3, <1>4, <3>1, <3>2 DEF ToSet, There
  <2>2. ASSUME NEW S \in SUBSET There(text'), r \in S, p \in S
        PROVE  \E x \in S : \A q \in S : x \notin ToSet(kids'[q])
    <3>1. S \ {r} \in SUBSET There(text) /\ S \ {r} # {} /\ S \subseteq Group
      BY <2>1, <2>2 DEF There, Group
    <3>2. PICK x \in S \ {r} : \A q \in S \ {r} : x \notin ToSet(kids[q])
      BY <3>1 DEF Rooted
    <3>3. x \in Rem
      BY <3>1, <3>2 DEF There
    <3> QED BY <1>8, <2>1, <3>1, <3>2, <3>3 DEF SameButFor
  <2> QED BY <1>8, <2>1, <2>2, RootedStep
<1> QED BY <1>2, <1>4, <1>8, <1>9, <1>10

LEMMA UpdateFacts ==
  ASSUME TypeOK, Rooted(text, kids), NEW r \in Rem, NEW t \in Text, UpdateRem(r, t)
  PROVE  /\ LinksGood /\ ListsFit(text', kids') /\ Rooted(text', kids')
         /\ \A x \in Rem : text'[x] = Nil <=> text[x] = Nil
<1> DEFINE T == [text EXCEPT ![r] = t]
<1>1. RestFits /\ ListsFit(text, kids)
  BY TypeParts
<1>2. text[r] # Nil /\ text[r] # t /\ kids' = kids
  BY DEF UpdateRem
<1>3. /\ T \in Contents /\ T[r] = t /\ t # Nil
      /\ \A s \in Rem \ {r} : T[s] = text[s]
  BY <1>1, ConstantFacts DEF RestFits, Contents
<1>4. LinksGood /\ text' = T
  <2>1. r \in There(T) /\ T[r] # text[r]
    BY <1>2, <1>3 DEF There
  <2>2. Save(T, link, lost, r, Parent(r), Nil) /\ Nil \in Group /\ Parent(r) \in Group
    BY <1>2, ParentFacts DEF UpdateRem, Group
  <2> HIDE DEF T
  <2> QED BY <1>3, <2>1, <2>2, SaveKeeps
<1>5. \A x \in Rem : text'[x] = Nil <=> text[x] = Nil
  BY <1>2, <1>3, <1>4
<1>6. ListsFit(text', kids')
  BY <1>1, <1>2, <1>5 DEF ListsFit
<1>7. Rooted(text', kids')
  <2>1. There(text') = There(text)
    BY <1>5 DEF There
  <2> QED BY <1>2, <2>1 DEF Rooted
<1> QED BY <1>4, <1>5, <1>6, <1>7

\* An indent and an outdent put r into the list of q.
LEMMA MovedFacts ==
  ASSUME TypeOK, NEW r \in Rem, text[r] # Nil, NEW q \in Group, q = Nil \/ text[q] # Nil,
         NEW n \in 1..Len(Taken(r)[q]) + 1,
         kids' = [Taken(r) EXCEPT ![q] = InsertAt(@, n, r)], text' = text
  PROVE  ListsFit(text', kids') /\ SameButFor(kids, kids', {r}) /\ OnlyIn(kids', r, q)
<1>1. ListsFit(text, kids)
  BY TypeParts
<1>2. /\ Lists(Taken(r)) /\ SameButFor(kids, Taken(r), {r})
      /\ Absent(Taken(r), r)
  BY ParentFacts
<1>3. /\ Lists(kids')
      /\ SameButFor(Taken(r), kids', {r})
      /\ OnlyIn(kids', r, q)
  BY <1>2, ListInserted
<1>4. SameButFor(kids, kids', {r})
  BY <1>2, <1>3, SameTwice
<1>5. ListsFit(text', kids')
  BY <1>1, <1>3, <1>4, Rearranged
<1> QED BY <1>3, <1>4, <1>5

LEMMA IndentFacts ==
  ASSUME TypeOK, Rooted(text, kids), NEW r \in Rem, IndentRem(r)
  PROVE  /\ LinksGood /\ ListsFit(text', kids') /\ Rooted(text', kids')
         /\ text' = text /\ SameButFor(kids, kids', {r})
<1> DEFINE p == Parent(r)
           q == kids[p][Place(r) - 1]
<1>1. RestFits /\ ListsFit(text, kids) /\ Lists(kids)
  BY TypeParts DEF ListsFit
<1>2. text[r] # Nil /\ Place(r) > 1
  BY DEF IndentRem
<1>3. p \in Group /\ Place(r) \in DOMAIN kids[p] /\ Lists(Taken(r))
  BY <1>2, ParentFacts
<1>12. r \in ToSet(kids[p])
  BY <1>2, ParentFacts DEF ToSet
<1>4. q \in Rem /\ q \in ToSet(kids[p]) /\ q # r
  <2>1. kids[p] \in Seq(Rem)
    BY <1>1, <1>3 DEF Lists
  <2>2. Place(r) - 1 \in DOMAIN kids[p] /\ Place(r) - 1 # Place(r)
    BY <1>2, <1>3, <2>1
  <2>3. q # r
    <3>1. kids[p][Place(r)] = r
      BY <1>2, ParentFacts
    <3> QED BY <1>1, <1>3, <2>2, <3>1 DEF Lists
  <2> QED BY <2>1, <2>2, <2>3 DEF ToSet
<1>5. q \in Group /\ text[q] # Nil
  BY <1>1, <1>3, <1>4 DEF ListsFit, Group
<1>6. kids' = [Taken(r) EXCEPT ![q] = Append(@, r)] /\ Save(text, link, lost, Nil, p, q)
  BY DEF IndentRem
<1> HIDE DEF p, q
<1>7. LinksGood /\ text' = text
  BY <1>1, <1>3, <1>5, <1>6, SaveKeeps DEF RestFits
<1>8. /\ Taken(r)[q] \in Seq(Rem)
      /\ Len(Taken(r)[q]) + 1 \in 1..Len(Taken(r)[q]) + 1
  <2>1. Taken(r)[q] \in Seq(Rem)
    BY <1>3, <1>5 DEF Lists
  <2> QED BY <2>1
<1>9. kids' = [Taken(r) EXCEPT ![q] = InsertAt(@, Len(Taken(r)[q]) + 1, r)]
  BY <1>6, <1>8, AppendIsInsert
<1>10. ListsFit(text', kids') /\ SameButFor(kids, kids', {r}) /\ OnlyIn(kids', r, q)
  BY <1>2, <1>5, <1>7, <1>8, <1>9, MovedFacts
<1>11. ASSUME NEW S \in SUBSET There(text), r \in S, q \in S
       PROVE  \E x \in S : \A o \in S : x \notin ToSet(kids'[o])
  <2>1. PICK x \in S : \A o \in S : x \notin ToSet(kids[o])
    BY <1>11 DEF Rooted
  <2>2. S \subseteq Rem /\ S \subseteq Group
    BY DEF There, Group
  <2>3. CASE x # r
    BY <1>10, <2>1, <2>2, <2>3 DEF SameButFor
  <2>4. CASE x = r
    <3>1. p \notin S
      BY <1>12, <2>1, <2>4
    <3>2. \A o \in S : q \notin ToSet(kids[o])
      <4> SUFFICES ASSUME NEW o \in S, q \in ToSet(kids[o]) PROVE o = p
        BY <3>1
      <4> QED BY <1>1, <1>3, <1>4, <2>2 DEF Lists, ToSet
    <3> QED BY <1>4, <1>10, <1>11, <2>2, <3>2 DEF SameButFor
  <2> QED BY <2>3, <2>4
<1>13. Rooted(text', kids')
  BY <1>5, <1>7, <1>10, <1>11, RootedStep
<1> QED BY <1>7, <1>10, <1>13

LEMMA OutdentFacts ==
  ASSUME TypeOK, Rooted(text, kids), NEW r \in Rem, OutdentRem(r)
  PROVE  /\ LinksGood /\ ListsFit(text', kids') /\ Rooted(text', kids')
         /\ text' = text /\ SameButFor(kids, kids', {r})
<1> DEFINE p == Parent(r)
           q == Parent(p)
           n == Place(p) + 1
<1>1. RestFits /\ ListsFit(text, kids) /\ Lists(kids)
  BY TypeParts DEF ListsFit
<1>2. text[r] # Nil /\ p # Nil
  BY DEF OutdentRem
<1>3. p \in Rem /\ text[p] # Nil /\ p \in Group
  BY <1>2, ParentFacts DEF There, Group
<1>4. q \in Group /\ (q = Nil \/ text[q] # Nil) /\ Place(p) \in DOMAIN kids[q]
  BY <1>3, ParentFacts DEF There
<1>5. kids' = [Taken(r) EXCEPT ![q] = InsertAt(@, n, r)] /\ Save(text, link, lost, Nil, p, Nil)
  BY DEF OutdentRem
<1>6. r \in ToSet(kids[p]) /\ (q # Nil => p \in ToSet(kids[q]))
  BY <1>2, <1>3, <1>4, ParentFacts DEF ToSet
<1>7. p # q /\ p # r
  <2>1. \A x \in There(text) : x \notin ToSet(kids[x])
    <3> SUFFICES ASSUME NEW x \in There(text) PROVE x \notin ToSet(kids[x])
      OBVIOUS
    <3>1. {x} \in SUBSET There(text) /\ {x} # {}
      OBVIOUS
    <3> QED BY <3>1 DEF Rooted
  <2> QED BY <1>2, <1>3, <1>6, <2>1 DEF There
<1>8. n \in 1..Len(Taken(r)[q]) + 1
  <2>1. kids[q] \in Seq(Rem) /\ Taken(r)[q] = kids[q]
    <3>1. OnlyAt(kids, Taken(r), p)
      BY <1>2, ParentFacts
    <3> QED BY <1>1, <1>4, <1>7, <3>1 DEF Lists, OnlyAt
  <2>2. Place(p) \in 1..Len(kids[q]) /\ Len(kids[q]) \in Nat
    BY <1>4, <2>1
  <2> QED BY <2>1, <2>2
<1> HIDE DEF p, q, n
<1>9. LinksGood /\ text' = text
  BY <1>1, <1>3, <1>5, SaveKeeps DEF RestFits, Group
<1>10. ListsFit(text', kids') /\ SameButFor(kids, kids', {r}) /\ OnlyIn(kids', r, q)
  BY <1>2, <1>4, <1>5, <1>8, <1>9, MovedFacts
<1>11. ASSUME NEW S \in SUBSET There(text), r \in S, q \in S
       PROVE  \E x \in S : \A o \in S : x \notin ToSet(kids'[o])
  <2>1. S \subseteq Rem /\ S \subseteq Group /\ q # Nil
    BY <1>11, ConstantFacts DEF There, Group
  <2>2. S \union {p} \in SUBSET There(text) /\ S \union {p} # {}
    BY <1>3 DEF There
  <2>3. PICK x \in S \union {p} : \A o \in S \union {p} : x \notin ToSet(kids[o])
    BY <2>2 DEF Rooted
  <2>4. x # r /\ x # p
    BY <1>6, <1>11, <2>1, <2>3
  <2> QED BY <1>10, <2>1, <2>3, <2>4 DEF SameButFor
<1>12. Rooted(text', kids')
  BY <1>4, <1>9, <1>10, <1>11, RootedStep
<1> QED BY <1>9, <1>10, <1>12

\* The contents, links and history of a deletion, before a parent is saved.
LEMMA DeleteFacts ==
  ASSUME TypeOK, Rooted(text, kids), NEW r \in Rem, DeleteRem(r)
  PROVE  /\ LinksGood /\ ListsFit(text', kids') /\ Rooted(text', kids')
         /\ text[r] # Nil
         /\ \A x \in Rem : text'[x] = IF x \in Branch(r) THEN Nil ELSE text[x]
         /\ SameButFor(kids, kids', Branch(r))
<1> DEFINE gone == Branch(r)
           T == [x \in Rem |-> IF x \in gone THEN Nil ELSE text[x]]
           L == Without(link, gone)
           S == LostWith(gone)
           X == {Nil} \union {s \in There(T) : T[s].list}
<1>1. RestFits /\ ListsFit(text, kids) /\ Lists(kids) /\ LinksFit(text, link, {})
  BY TypeParts DEF ListsFit
<1>2. text[r] # Nil
  BY DEF DeleteRem
<1>3. /\ r \in gone /\ gone \subseteq There(text) /\ Nil \notin gone
      /\ \A x \in gone : ToSet(kids[x]) \subseteq gone
      /\ \A x \in gone \ {r} : \A p \in Group : x \in ToSet(kids[p]) => p \in gone
  BY <1>2, BranchFacts, ConstantFacts DEF There
<1>4. /\ Lists(Taken(r)) /\ SameButFor(kids, Taken(r), {r}) /\ Absent(Taken(r), r)
      /\ Parent(r) \in Group
  BY <1>2, ParentFacts
<1>5. /\ kids' = [p \in Rem \union {Nil} |-> IF p \in gone THEN <<>> ELSE Taken(r)[p]]
      /\ Save(T, L, S, Nil, Parent(r), Nil)
  BY DEF DeleteRem
<1> HIDE DEF gone
<1>6. T \in Contents /\ \A x \in Rem : T[x] = IF x \in gone THEN Nil ELSE text[x]
  BY <1>1 DEF RestFits, Contents
<1>7. There(T) = There(text) \ gone
  BY <1>6 DEF There
<1>8. \A s \in Rem : /\ s \in gone => L[s] = [u \in {} |-> Nil] /\ S[s] = {}
                     /\ s \notin gone =>
                          /\ L[s] = [u \in DOMAIN link[s] |->
                                       IF link[s][u] \in gone THEN Nil ELSE link[s][u]]
                          /\ S[s] = lost[s] \union {u \in DOMAIN link[s] : link[s][u] \in gone}
  BY DEF Without, LostWith
<1>9. \A s \in Rem : /\ link[s] \in [Refs(text, s) -> There(text) \union {Nil}]
                     /\ s \notin gone => Refs(T, s) = Refs(text, s)
  BY <1>1, <1>6 DEF LinksFit, Refs
<1>10. S \in [Rem -> SUBSET Title]
  <2>1. \A s \in Rem : Refs(text, s) \subseteq Title
    BY <1>1, ConstantFacts DEF RestFits, Contents, Refs
  <2>2. ASSUME NEW s \in Rem
        PROVE  S[s] \in SUBSET Title
    BY <1>1, <1>8, <1>9, <2>1 DEF RestFits
  <2> QED BY <2>2 DEF LostWith
<1> HIDE DEF T, L, S
<1>11. LinksFit(T, L, {Nil})
  <2> SUFFICES ASSUME NEW s \in Rem
               PROVE  L[s] \in [Refs(T, s) -> There(T) \union {Nil}]
    BY DEF LinksFit
  <2>1. CASE s \in gone
    BY <1>6, <1>8, <2>1 DEF Refs
  <2>2. CASE s \notin gone
    <3> DEFINE cut(u) == IF link[s][u] \in gone THEN Nil ELSE link[s][u]
    <3>1. L[s] = [u \in DOMAIN link[s] |-> cut(u)]
      BY <1>8, <2>2
    <3>2. DOMAIN link[s] = Refs(T, s)
      BY <1>9, <2>2
    <3>3. \A u \in DOMAIN link[s] : cut(u) \in There(T) \union {Nil}
      BY <1>7, <1>9, <2>2
    <3> HIDE DEF cut
    <3> QED BY <3>1, <3>2, <3>3
  <2> QED BY <2>1, <2>2
<1>12. NamedLead(text, link, lost, {}) => NamedLead(T, L, S, {Nil})
  <2> SUFFICES ASSUME NamedLead(text, link, lost, {}), NEW s \in There(T), NEW x \in There(T),
                      T[x].title \in T[s].refs, T[x].title \in T[x].begins, T[x].title \notin S[s]
               PROVE  L[s][T[x].title] # Nil
    BY DEF NamedLead
  <2> DEFINE u == T[x].title
  <2>1. /\ s \in There(text) /\ x \in There(text) /\ s \in Rem /\ s \notin gone
        /\ T[s] = text[s] /\ T[x] = text[x]
    BY <1>6, <1>7 DEF There
  <2>2. u \in DOMAIN link[s]
    BY <1>9, <2>1 DEF Refs, There
  <2>3. u \notin lost[s] /\ link[s][u] \notin gone
    BY <1>8, <2>1, <2>2
  <2>4. link[s][u] # Nil
    BY <2>1, <2>3 DEF NamedLead
  <2> QED BY <1>8, <2>1, <2>2, <2>3, <2>4
<1>13. /\ text' = T
       /\ LinksFit(T, link', {})
       /\ NamedLead(T, L, S, {Nil}) => NamedLead(T, link', lost', {})
       /\ LinksKept(T, L, link', X)
       /\ S \in [Rem -> SUBSET Title] => lost' \in [Rem -> SUBSET Title]
  BY <1>4, <1>5, <1>6, <1>11, SaveFacts DEF Group
<1>14. LinksStep
  <2> SUFFICES ASSUME NEW s \in There(text), NEW u \in DOMAIN link[s], T[s] = text[s],
                      ~text[s].list, link[s][u] # Nil
               PROVE  IF T[link[s][u]] # Nil THEN link'[s][u] = link[s][u]
                      ELSE link'[s][u] \in {Nil} \union {p \in There(text) : text[p].list /\ text[p].title = u}
    BY <1>13 DEF LinksStep
  <2>1. s \in Rem /\ s \notin gone /\ s \notin X
    BY <1>3, <1>6, ConstantFacts DEF There
  <2>2. link[s][u] \in There(text) /\ link[s][u] \in Rem
    BY <1>9, <2>1 DEF There
  <2>3. u \in DOMAIN L[s] /\ L[s][u] = IF link[s][u] \in gone THEN Nil ELSE link[s][u]
    <3>1. L[s] = [v \in DOMAIN link[s] |-> IF link[s][v] \in gone THEN Nil ELSE link[s][v]]
      BY <1>8, <2>1
    <3> QED BY <3>1
  <2>4. CASE link[s][u] \in gone
    <3>1. T[link[s][u]] = Nil
      BY <1>6, <2>2, <2>4
    <3>2. link'[s][u] \in {Nil} \union {p \in There(T) : p \in X /\ T[p].title = u}
      BY <1>13, <2>1, <2>3, <2>4 DEF LinksKept
    <3>3. \A p \in There(T) : p \in There(text) /\ T[p] = text[p] /\ p # Nil
      BY <1>6, <1>7, ConstantFacts DEF There
    <3> QED BY <3>1, <3>2, <3>3
  <2>5. CASE link[s][u] \notin gone
    <3>1. T[link[s][u]] # Nil
      BY <1>6, <2>2, <2>5 DEF There
    <3>2. link'[s][u] = link[s][u]
      BY <1>13, <2>1, <2>3, <2>5 DEF LinksKept
    <3> QED BY <3>1, <3>2
  <2> QED BY <2>4, <2>5
<1>15. LinksGood
  BY <1>6, <1>10, <1>12, <1>13, <1>14 DEF LinksGood
<1>16. \A p \in Group : kids'[p] = IF p \in gone THEN <<>> ELSE Taken(r)[p]
  BY <1>5 DEF Group
<1>17. \A p \in Group : ToSet(kids'[p]) = IF p \in gone THEN {} ELSE ToSet(kids[p]) \ {r}
  <2> SUFFICES ASSUME NEW p \in Group
               PROVE  ToSet(kids'[p]) = IF p \in gone THEN {} ELSE ToSet(kids[p]) \ {r}
    OBVIOUS
  <2>1. CASE p \in gone
    BY <1>16, <2>1 DEF ToSet
  <2>2. CASE p \notin gone
    <3>1. ToSet(kids[p]) \subseteq Rem /\ ToSet(Taken(r)[p]) \subseteq Rem
      BY <1>1, <1>4 DEF Lists, ToSet
    <3> QED BY <1>4, <1>16, <2>2, <3>1 DEF SameButFor, Absent
  <2> QED BY <2>1, <2>2
<1>18. Lists(kids')
  <2>1. kids' \in [Group -> Seq(Rem)]
    BY <1>4, <1>5 DEF Lists, Group
  <2>2. ASSUME NEW p \in Group, NEW q \in Group, NEW i \in DOMAIN kids'[p], NEW j \in DOMAIN kids'[q],
               kids'[p][i] = kids'[q][j]
        PROVE  p = q /\ i = j
    <3>1. p \notin gone /\ q \notin gone
      BY <1>16
    <3> QED BY <1>4, <1>16, <2>2, <3>1 DEF Lists
  <2> QED BY <2>1, <2>2 DEF Lists
<1>19. SameButFor(kids, kids', gone)
  <2> SUFFICES ASSUME NEW p \in Group, NEW x \in Rem \ gone
               PROVE  /\ x \in ToSet(kids'[p]) <=> x \in ToSet(kids[p])
                      /\ \A y \in Rem \ gone : Before(kids, p, x, y) => Before(kids', p, x, y)
    BY DEF SameButFor
  <2>1. CASE p \in gone
    <3>1. x \notin ToSet(kids[p])
      BY <1>3, <2>1
    <3> QED BY <1>17, <2>1, <3>1 DEF Before, ToSet
  <2>2. CASE p \notin gone
    <3>1. x # r /\ \A y \in Rem \ gone : y # r
      BY <1>3
    <3>2. \A y \in Rem \ gone : Before(kids, p, x, y) => Before(Taken(r), p, x, y)
      BY <1>4, <3>1 DEF SameButFor
    <3>3. \A y : Before(Taken(r), p, x, y) => Before(kids', p, x, y)
      BY <1>16, <2>2 DEF Before
    <3> QED BY <1>17, <2>2, <3>1, <3>2, <3>3
  <2> QED BY <2>1, <2>2
<1>20. ListsFit(T, kids')
  <2>1. ASSUME NEW x \in Rem, T[x] = Nil
        PROVE  kids'[x] = <<>>
    <3>1. CASE x \in gone
      BY <1>16, <3>1 DEF Group
    <3>2. CASE x \notin gone
      <4>1. kids[x] = <<>> /\ x \in Group
        BY <1>1, <1>6, <2>1, <3>2 DEF ListsFit, Group
      <4>3. ToSet(kids[x]) = {}
        BY <4>1 DEF ToSet
      <4>2. ToSet(kids'[x]) = {} /\ kids'[x] \in Seq(Rem)
        BY <1>17, <1>18, <3>2, <4>1, <4>3 DEF Lists
      <4> QED BY <4>2, EmptyList
    <3> QED BY <3>1, <3>2
  <2>2. ASSUME NEW x \in Rem, T[x] # Nil
        PROVE  \E p \in Group : x \in ToSet(kids'[p])
    <3>1. x \notin gone /\ text[x] # Nil
      BY <1>6, <2>2
    <3>2. PICK p \in Group : x \in ToSet(kids[p])
      BY <1>1, <3>1 DEF ListsFit
    <3> QED BY <1>19, <3>1, <3>2 DEF SameButFor
  <2>3. ASSUME NEW x \in Rem, NEW p \in Group, x \in ToSet(kids'[p])
        PROVE  T[x] # Nil
    <3>1. p \notin gone /\ x \in ToSet(kids[p]) /\ x # r
      BY <1>17, <2>3
    <3>2. x \notin gone
      BY <1>3, <3>1
    <3> QED BY <1>1, <1>6, <3>1, <3>2 DEF ListsFit
  <2> QED BY <1>18, <2>1, <2>2, <2>3 DEF ListsFit
<1>21. Rooted(T, kids')
  <2> SUFFICES ASSUME NEW A \in SUBSET There(T), A # {}
               PROVE  \E x \in A : \A p \in A : x \notin ToSet(kids'[p])
    BY DEF Rooted
  <2>1. PICK x \in A : \A p \in A : x \notin ToSet(kids[p])
    BY <1>7 DEF Rooted
  <2>2. A \subseteq Rem \ gone /\ A \subseteq Group
    BY <1>7 DEF There, Group
  <2> QED BY <1>19, <2>1, <2>2 DEF SameButFor
<1> QED BY <1>2, <1>6, <1>13, <1>15, <1>19, <1>20, <1>21 DEF gone

----------------------------------------------------------------------------
(* The import.                                                              *)

Entry == [id : Rem, level : Nat]

\* s is what is left of the stack, its first i entries, for a line at level n.
IsPopped(n, s, i) ==
  /\ s \in Seq(Entry) /\ Len(s) = i /\ i \in 0..Len(stack)
  /\ \A j \in 1..i : s[j] = stack[j]
  /\ i # 0 => stack[i].level < n
  /\ \A j \in 1..Len(stack) : stack[j].level < n => j <= i
  /\ Over(s) = IF i = 0 THEN Nil ELSE stack[i].id

LEMMA PoppedFacts ==
  ASSUME TypeOK, NEW n \in Nat
  PROVE  \E i \in 0..Len(stack) : IsPopped(n, Popped(n), i)
<1> DEFINE Keep == {i \in 0..Len(stack) : i = 0 \/ stack[i].level < n}
           k == CHOOSE i \in Keep : \A j \in Keep : j <= i
           s == Popped(n)
<1>1. stack \in Seq(Entry) /\ Len(stack) \in Nat
  BY TypeParts DEF RestFits, Entry
<1>2. 0 \in Keep /\ Keep \subseteq 0..Len(stack)
  BY <1>1
<1>3. \E i \in Keep : \A j \in Keep : j <= i
  <2> HIDE DEF Keep
  <2> QED BY <1>1, <1>2, Longest
<1>4. k \in Keep /\ \A j \in Keep : j <= k
  <2> HIDE DEF Keep
  <2> QED BY <1>3
<1>5. s = SubSeq(stack, 1, k)
  BY DEF Popped
<1>6. \A j \in 1..Len(stack) : stack[j].level < n => j \in Keep
  BY <1>1
<1>7. k \in 0..Len(stack) /\ (k # 0 => stack[k].level < n)
  BY <1>4
<1> HIDE DEF k, Keep
<1>8. s \in Seq(Entry) /\ Len(s) = k /\ \A j \in 1..k : s[j] = stack[j]
  BY <1>1, <1>5, <1>7
<1>9. Over(s) = IF k = 0 THEN Nil ELSE stack[k].id
  <2>1. CASE k = 0
    <3>1. s = <<>>
      BY <1>8, <2>1
    <3> QED BY <2>1, <3>1 DEF Over
  <2>2. CASE k # 0
    <3>1. s # <<>> /\ Last(s) = stack[k]
      BY <1>7, <1>8, <2>2 DEF Last
    <3> QED BY <2>2, <3>1 DEF Over
  <2> QED BY <2>1, <2>2
<1>10. \A j \in 1..Len(stack) : stack[j].level < n => j <= k
  BY <1>4, <1>6
<1> QED BY <1>7, <1>8, <1>9, <1>10 DEF IsPopped

LEMMA LineFacts ==
  ASSUME TypeOK
  PROVE  /\ doc \in Seq([indent : Nat, text : Text \union {Blank}])
         /\ \A i \in 1..Len(doc) : Level(doc[i]) \in Nat /\ doc[i].text \in Text \union {Blank}
         /\ Running => line \in Nat /\ line + 1 \in 1..Len(doc)
<1> DEFINE L == [indent : Nat, text : Text \union {Blank}]
<1>1. doc \in Seq(L) /\ line \in 0..Len(doc)
  <2>1. doc \in Docs \/ doc = <<>>
    BY TypeParts DEF RestFits
  <2>2. \A d \in Docs : d \in Seq(L)
    BY ImportAssumption
  <2> HIDE DEF L
  <2>3. doc \in Seq(L)
    BY <2>1, <2>2, EmptySeq
  <2> QED BY <2>3, TypeParts DEF RestFits
<1>2. \A i \in 1..Len(doc) : doc[i] \in L
  <2> HIDE DEF L
  <2> QED BY <1>1
<1>3. \A l \in [indent : Nat, text : Text \union {Blank}] : Level(l) \in Nat /\ l.text \in Text \union {Blank}
  BY DEF Level
<1>4. Len(doc) \in Nat
  BY <1>1
<1> QED BY <1>1, <1>2, <1>3, <1>4 DEF Running

\* One line of the import: i entries of the stack stay, and the bullet of the
\* last of them gets the new one.
LineAdded(r, i) ==
  LET n == Level(doc[line + 1]) IN
  \E s : /\ IsPopped(n, s, i)
         /\ stack' = Append(s, [id |-> r, level |-> n])
         /\ OnlyIn(kids', r, Over(s))
         /\ \A x \in ToSet(kids[Over(s)]) : Before(kids', Over(s), x, r)

LEMMA ImportLineFacts ==
  ASSUME TypeOK, Rooted(text, kids), NEW r \in Rem, ImportLine(r)
  PROVE  /\ LinksGood /\ ListsFit(text', kids') /\ Rooted(text', kids')
         /\ text' = [text EXCEPT ![r] = doc[line + 1].text] /\ doc[line + 1].text \in Text
         /\ used' = used \union {r} /\ r \notin used
         /\ SameButFor(kids, kids', {r})
         /\ \E i \in 0..Len(stack) : LineAdded(r, i)
<1> DEFINE n == Level(doc[line + 1])
           t == doc[line + 1].text
           s == Popped(n)
<1>1. n \in Nat /\ t \in Text
  BY LineFacts DEF ImportLine
<1>2. CreateRem(r, Over(s), t) /\ stack' = Append(s, [id |-> r, level |-> n])
  BY DEF ImportLine
<1>3. PICK i \in 0..Len(stack) : IsPopped(n, s, i)
  BY <1>1, PoppedFacts
<1>4. Over(s) \in Group
  <2>1. stack \in Seq(Entry) /\ Len(stack) \in Nat
    BY TypeParts DEF RestFits, Entry
  <2>2. i # 0 => stack[i] \in Entry
    BY <1>3, <2>1
  <2> QED BY <1>3, <2>2 DEF IsPopped, Entry, Group
<1> HIDE DEF n, t, s
<1>5. /\ LinksGood /\ ListsFit(text', kids') /\ Rooted(text', kids')
      /\ text' = [text EXCEPT ![r] = t] /\ used' = used \union {r}
      /\ r \notin used
      /\ SameButFor(kids, kids', {r})
      /\ OnlyIn(kids', r, Over(s))
      /\ \A x \in ToSet(kids[Over(s)]) : Before(kids', Over(s), x, r)
  BY <1>1, <1>2, <1>4, CreateFacts
<1>6. LineAdded(r, i)
  BY <1>2, <1>3, <1>5 DEF LineAdded, n
<1> QED BY <1>1, <1>5, <1>6 DEF t

----------------------------------------------------------------------------
(* Types.                                                                   *)

\* What a step does to links.
LinksStepOK == LinksGood \/ UNCHANGED <<text, link, lost>>

LEMMA RestStep ==
  ASSUME TypeOK, LinksGood, There(text') \subseteq used', used' \subseteq Rem,
         UNCHANGED job, moved' \subseteq Rem, ListsFit(text', kids')
  PROVE  TypeOK'
<1>1. RestFits
  BY TypeParts
<1>2. RestFits'
  BY <1>1 DEF RestFits, LinksGood, job
<1>3. ListsFit(text, kids)' /\ LinksFit(text, link, {})'
  BY DEF LinksGood
<1> QED BY <1>2, <1>3, TypeParts, PTL

LEMMA TypeStep ==
  ASSUME TypeOK, Rooted(text, kids), [Next]_vars
  PROVE  TypeOK' /\ Rooted(text', kids') /\ LinksStepOK
<1>1. RestFits /\ ListsFit(text, kids) /\ LinksFit(text, link, {})
  BY TypeParts
<1>2. ASSUME UNCHANGED <<text, link, lost, kids, used, stack, made, moved>>,
             doc' \in Docs \union {<<>>}, line' \in 0..Len(doc'), line <= line'
      PROVE  TypeOK' /\ Rooted(text', kids') /\ LinksStepOK
  <2>1. RestFits'
    <3>1. line \in Int /\ line' \in Int
      <4>1. line \in 0..Len(doc)
        BY <1>1 DEF RestFits
      <4> QED BY <1>2, <4>1
    <3>2. DOMAIN made \subseteq 1..line'
      BY <1>1, <1>2, <3>1 DEF RestFits
    <3> QED BY <1>1, <1>2, <3>2 DEF RestFits
  <2>2. ListsFit(text, kids)' /\ LinksFit(text, link, {})'
    BY <1>1, <1>2
  <2>3. TypeOK'
    BY <2>1, <2>2, TypeParts, PTL
  <2> QED BY <1>2, <2>3 DEF LinksStepOK
<1>3. CASE UNCHANGED vars
  <2>1. line \in 0..Len(doc) /\ Len(doc) \in Nat
    BY <1>1, LineFacts DEF RestFits
  <2> QED BY <1>1, <1>2, <1>3, <2>1 DEF vars, job, RestFits
<1>4. ASSUME NEW d \in Docs, StartImport(d)
      PROVE  TypeOK' /\ Rooted(text', kids') /\ LinksStepOK
  <2>1. line = 0 /\ Len(d) \in Nat
    BY <1>1, <1>4, ImportAssumption DEF RestFits, StartImport
  <2> QED BY <1>2, <1>4, <2>1 DEF StartImport
<1>5. CASE SkipBlank \/ ImportFails
  <2>1. line \in Nat /\ line + 1 \in 1..Len(doc) /\ Len(doc) \in Nat
    BY <1>5, LineFacts DEF SkipBlank, ImportFails
  <2> QED BY <1>1, <1>2, <1>5, <2>1 DEF RestFits, SkipBlank, ImportFails
<1>6. ASSUME NEW r \in Rem, ImportLine(r)
      PROVE  TypeOK' /\ Rooted(text', kids') /\ LinksStepOK
  <2>1. /\ LinksGood /\ ListsFit(text', kids') /\ Rooted(text', kids')
        /\ text' = [text EXCEPT ![r] = doc[line + 1].text]
        /\ used' = used \union {r}
    BY <1>6, ImportLineFacts
  <2>2. PICK i \in 0..Len(stack) : LineAdded(r, i)
    BY <1>6, ImportLineFacts
  <2>3. stack' \in Seq(Entry)
    <3>1. PICK s : /\ IsPopped(Level(doc[line + 1]), s, i)
                   /\ stack' = Append(s, [id |-> r, level |-> Level(doc[line + 1])])
      BY <2>2 DEF LineAdded
    <3>2. [id |-> r, level |-> Level(doc[line + 1])] \in Entry
      BY <1>6, LineFacts DEF ImportLine, Entry
    <3> QED BY <3>1, <3>2 DEF IsPopped
  <2>4. line' \in 0..Len(doc') /\ DOMAIN made' \subseteq 1..line' /\ doc' = doc /\ moved' = moved
    <3>1. line \in Nat /\ line + 1 \in 1..Len(doc) /\ Len(doc) \in Nat
      BY <1>6, LineFacts DEF ImportLine
    <3>2. DOMAIN made' = DOMAIN made \union {line + 1} /\ line' = line + 1
      BY <1>6 DEF ImportLine
    <3> QED BY <1>1, <1>6, <3>1, <3>2 DEF RestFits, ImportLine
  <2>5. There(text') \subseteq used' /\ used' \subseteq Rem
    BY <1>1, <2>1 DEF RestFits, There
  <2>6. RestFits'
    BY <1>1, <2>1, <2>3, <2>4, <2>5 DEF RestFits, LinksGood, Entry
  <2>7. LinksFit(text, link, {})' /\ ListsFit(text, kids)'
    BY <2>1 DEF LinksGood
  <2>8. TypeOK'
    BY <2>6, <2>7, TypeParts, PTL
  <2> QED BY <2>1, <2>8 DEF LinksStepOK
<1>7. ASSUME NEW r \in Rem, NEW p \in Group, NEW t \in Text, CreateOther(r, p, t)
      PROVE  TypeOK' /\ Rooted(text', kids') /\ LinksStepOK
  <2>1. /\ LinksGood /\ ListsFit(text', kids') /\ Rooted(text', kids')
        /\ text' = [text EXCEPT ![r] = t]
        /\ used' = used \union {r}
    BY <1>7, CreateFacts DEF CreateOther
  <2>2. There(text') \subseteq used' /\ used' \subseteq Rem /\ moved' \subseteq Rem
    BY <1>1, <1>7, <2>1 DEF RestFits, There, CreateOther
  <2> QED BY <1>7, <2>1, <2>2, RestStep DEF LinksStepOK, CreateOther
<1>8. ASSUME NEW r \in Rem, NEW t \in Text, UpdateRem(r, t)
      PROVE  TypeOK' /\ Rooted(text', kids') /\ LinksStepOK
  <2>1. /\ LinksGood /\ ListsFit(text', kids') /\ Rooted(text', kids')
        /\ \A x \in Rem : text'[x] = Nil <=> text[x] = Nil
    BY <1>8, UpdateFacts
  <2>2. There(text') \subseteq used' /\ used' \subseteq Rem /\ moved' \subseteq Rem
    BY <1>1, <1>8, <2>1 DEF RestFits, There, UpdateRem
  <2> QED BY <1>8, <2>1, <2>2, RestStep DEF LinksStepOK, UpdateRem
<1>9. ASSUME NEW r \in Rem, DeleteRem(r)
      PROVE  TypeOK' /\ Rooted(text', kids') /\ LinksStepOK
  <2>1. /\ LinksGood /\ ListsFit(text', kids') /\ Rooted(text', kids')
        /\ \A x \in Rem : text'[x] = IF x \in Branch(r) THEN Nil ELSE text[x]
    BY <1>9, DeleteFacts
  <2>2. There(text') \subseteq used' /\ used' \subseteq Rem /\ moved' \subseteq Rem
    BY <1>1, <1>9, <2>1 DEF RestFits, There, DeleteRem
  <2> QED BY <1>9, <2>1, <2>2, RestStep DEF LinksStepOK, DeleteRem
<1>10. ASSUME NEW r \in Rem, IndentRem(r) \/ OutdentRem(r)
       PROVE  TypeOK' /\ Rooted(text', kids') /\ LinksStepOK
  <2>1. LinksGood /\ ListsFit(text', kids') /\ Rooted(text', kids') /\ text' = text
    BY <1>10, IndentFacts, OutdentFacts
  <2>2. There(text') \subseteq used' /\ used' \subseteq Rem /\ moved' \subseteq Rem
    BY <1>1, <1>10, <2>1 DEF RestFits, IndentRem, OutdentRem
  <2> QED BY <1>10, <2>1, <2>2, RestStep DEF LinksStepOK, IndentRem, OutdentRem
<1> QED BY <1>3, <1>4, <1>5, <1>6, <1>7, <1>8, <1>9, <1>10 DEF Next, Group

----------------------------------------------------------------------------
(* The lines of the import.                                                 *)

\* A bullet is made of one line.
MadeOnce ==
  /\ \A k \in DOMAIN made : made[k] \in used
  /\ \A k, l \in DOMAIN made : made[k] = made[l] => k = l

\* Line k is at place a of the stack.
OnStack(k, a) == made[k] = stack[a].id

\* The stack is made of lines, in their order, each at its level, and each line
\* has after it, or is, one on the stack that is indented no more.
Frontier ==
  /\ \A a \in DOMAIN stack : \E k \in DOMAIN made : OnStack(k, a) /\ stack[a].level = Level(doc[k])
  /\ \A a, b \in DOMAIN stack : \A k, l \in DOMAIN made :
       a < b /\ OnStack(k, a) /\ OnStack(l, b) => k < l
  /\ \A k \in DOMAIN made : \E a \in DOMAIN stack, l \in DOMAIN made :
       OnStack(l, a) /\ k <= l /\ Level(doc[l]) <= Level(doc[k])

\* Of the lines I of the document d, those before i that are indented less.
Less(d, I, i) == {j \in I : j < i /\ Level(d[j]) < Level(d[i])}

\* k is the last of the lines K, or 0 when there is none.
IsLast(K, k) == IF K = {} THEN k = 0 ELSE k \in K /\ \A j \in K : j <= k

LineOverRight == \A i : IsLast(Less(doc, DOMAIN made, i), LineOver(i))

LEMMA LineOverIsLast ==
  ASSUME TypeOK
  PROVE  LineOverRight
<1> SUFFICES ASSUME NEW i
             PROVE  IsLast(Less(doc, DOMAIN made, i), LineOver(i))
  BY DEF LineOverRight
<1> DEFINE K == Less(doc, DOMAIN made, i)
<1>1. line \in Nat /\ K \subseteq 0..line
  <2>1. line \in 0..Len(doc) /\ DOMAIN made \subseteq 1..line
    BY TypeParts DEF RestFits
  <2>2. Len(doc) \in Nat
    BY LineFacts
  <2> QED BY <2>1, <2>2 DEF Less
<1>2. LineOver(i) = IF K = {} THEN 0 ELSE CHOOSE j \in K : \A k \in K : k <= j
  BY DEF LineOver, Less
<1> HIDE DEF K
<1>3. K # {} => \E j \in K : \A k \in K : k <= j
  BY <1>1, Longest
<1> QED BY <1>2, <1>3 DEF IsLast, K

LEMMA LastIsOne ==
  ASSUME NEW m \in Nat, NEW K, K \subseteq 0..m, NEW k, NEW l, IsLast(K, k), IsLast(K, l)
  PROVE  k = l
<1>1. CASE K = {}
  BY <1>1 DEF IsLast
<1>2. CASE K # {}
  <2>1. k \in K /\ l \in K /\ k <= l /\ l <= k
    BY <1>2 DEF IsLast
  <2>2. k \in Int /\ l \in Int
    BY <2>1
  <2> QED BY <2>1, <2>2
<1> QED BY <1>1, <1>2

\* The line that a line belongs under does not change.
LEMMA LineOverStays ==
  ASSUME TypeOK, TypeOK', NEW i \in DOMAIN made, doc' = doc,
         \A j \in DOMAIN made \union DOMAIN made' : j < i => (j \in DOMAIN made <=> j \in DOMAIN made')
  PROVE  LineOver(i)' = LineOver(i) /\ LineOver(i) \in {0} \union {j \in DOMAIN made : j < i}
<1>1. Less(doc, DOMAIN made, i)' = Less(doc, DOMAIN made, i)
  BY DEF Less
<1>2. IsLast(Less(doc, DOMAIN made, i), LineOver(i))
  BY LineOverIsLast DEF LineOverRight
<1>3. IsLast(Less(doc, DOMAIN made, i), LineOver(i))'
  <2>1. LineOverRight'
    BY LineOverIsLast, PTL
  <2> QED BY <2>1 DEF LineOverRight
<1>4. line \in Nat /\ Less(doc, DOMAIN made, i) \subseteq 0..line
  <2>1. line \in 0..Len(doc) /\ DOMAIN made \subseteq 1..line
    BY TypeParts DEF RestFits
  <2>2. Len(doc) \in Nat
    BY LineFacts
  <2> QED BY <2>1, <2>2 DEF Less
<1>5. LineOver(i)' = LineOver(i)
  BY <1>1, <1>2, <1>3, <1>4, LastIsOne
<1> QED BY <1>2, <1>5 DEF IsLast, Less

\* What NestingKept says of one line.
NestAt(i) ==
  made[i] \notin moved /\ text[made[i]] # Nil =>
    LET p == IF LineOver(i) = 0 THEN Nil ELSE made[LineOver(i)] IN
    /\ made[i] \in ToSet(kids[p])
    /\ \A j \in DOMAIN made :
         j < i /\ made[j] \in ToSet(kids[p]) \ moved => Before(kids, p, made[j], made[i])

Nested == \A i \in DOMAIN made : NestAt(i)

LEMMA NestingIs == NestingKept <=> Nested
BY DEF NestingKept, Nested, NestAt, Before

\* A step that leaves all bullets but X where they are keeps a line nested, if
\* X is deleted, or moved, or not made by the import.
LEMMA NestStays ==
  ASSUME TypeOK, TypeOK', MadeOnce, NEW i \in DOMAIN made, i \in DOMAIN made', NestAt(i), doc' = doc,
         \A j \in DOMAIN made : j \in DOMAIN made' /\ made'[j] = made[j],
         \A j \in DOMAIN made' : j < i => j \in DOMAIN made,
         moved \subseteq moved', NEW X, SameButFor(kids, kids', X),
         \A x \in used : text[x] = Nil => text'[x] = Nil,
         \A x \in X \intersect used : text'[x] = Nil \/ x \in moved'
  PROVE  NestAt(i)'
<1> DEFINE p == IF LineOver(i) = 0 THEN Nil ELSE made[LineOver(i)]
           q == IF LineOver(i)' = 0 THEN Nil ELSE made'[LineOver(i)']
<1>1. LineOver(i)' = LineOver(i) /\ LineOver(i) \in {0} \union {j \in DOMAIN made : j < i}
  BY LineOverStays
<1>2. used \subseteq Rem /\ p \in Group /\ q = p
  <2>1. used \subseteq Rem
    BY TypeParts DEF RestFits
  <2> QED BY <1>1, <2>1 DEF MadeOnce, Group
<1>3. NestAt(i)' <=>
        (made'[i] \notin moved' /\ text'[made'[i]] # Nil =>
           /\ made'[i] \in ToSet(kids'[q])
           /\ \A j \in DOMAIN made' :
                j < i /\ made'[j] \in ToSet(kids'[q]) \ moved' => Before(kids', q, made'[j], made'[i]))
  BY DEF NestAt, Before
<1>4. NestAt(i) <=>
        (made[i] \notin moved /\ text[made[i]] # Nil =>
           /\ made[i] \in ToSet(kids[p])
           /\ \A j \in DOMAIN made :
                j < i /\ made[j] \in ToSet(kids[p]) \ moved => Before(kids, p, made[j], made[i]))
  BY DEF NestAt
<1>5. ListsFit(text', kids')
  <2>1. ListsFit(text, kids)'
    BY TypeParts, PTL
  <2> QED BY <2>1
<1> HIDE DEF p, q
<1> SUFFICES ASSUME made[i] \notin moved', text'[made[i]] # Nil
             PROVE  /\ made[i] \in ToSet(kids'[p])
                    /\ \A j \in DOMAIN made :
                         j < i /\ made[j] \in ToSet(kids'[p]) \ moved' => Before(kids', p, made[j], made[i])
  BY <1>2, <1>3
<1>6. made[i] \in Rem \ X /\ made[i] \notin moved /\ text[made[i]] # Nil
  BY <1>2 DEF MadeOnce
<1>7. made[i] \in ToSet(kids'[p])
  BY <1>2, <1>4, <1>6 DEF SameButFor
<1>8. ASSUME NEW j \in DOMAIN made, j < i, made[j] \in ToSet(kids'[p]) \ moved'
      PROVE  Before(kids', p, made[j], made[i])
  <2>1. made[j] \in Rem /\ text'[made[j]] # Nil
    BY <1>2, <1>5, <1>8 DEF MadeOnce, ListsFit
  <2>2. made[j] \in Rem \ X /\ made[j] \in ToSet(kids[p]) \ moved
    BY <1>2, <1>8, <2>1 DEF MadeOnce, SameButFor
  <2> QED BY <1>2, <1>4, <1>6, <1>8, <2>2 DEF SameButFor
<1> QED BY <1>7, <1>8

\* What a line finds on the stack is the line that it belongs under.
LEMMA LineAddedFacts ==
  ASSUME TypeOK, TypeOK', MadeOnce, Frontier, NEW r \in Rem, r \notin used,
         NEW m, m = line + 1,
         NEW i \in 0..Len(stack), LineAdded(r, i), Running, doc' = doc,
         made' = [k \in DOMAIN made \union {m} |-> IF k = m THEN r ELSE made[k]]
  PROVE  /\ Frontier'
         /\ LineOver(m)' = 0 => i = 0
         /\ LineOver(m)' # 0 =>
              /\ i # 0 /\ LineOver(m)' \in DOMAIN made
              /\ made[LineOver(m)'] = stack[i].id
<1> DEFINE n == Level(doc[m])
           K == Less(doc, DOMAIN made', m)
<1>1. /\ line \in Nat /\ m \in Nat /\ n \in Nat /\ DOMAIN made \subseteq 1..line
      /\ m \notin DOMAIN made /\ DOMAIN made' = DOMAIN made \union {m}
      /\ \A k \in DOMAIN made : k < m /\ k \in Nat
  <2>1. line \in Nat /\ m \in 1..Len(doc) /\ Level(doc[m]) \in Nat
    BY LineFacts
  <2>2. DOMAIN made \subseteq 1..line
    BY TypeParts DEF RestFits
  <2> QED BY <2>1, <2>2
<1>2. made'[m] = r /\ \A k \in DOMAIN made : made'[k] = made[k] /\ made[k] # r
  BY <1>1 DEF MadeOnce
<1>3. PICK s : /\ IsPopped(n, s, i)
               /\ stack' = Append(s, [id |-> r, level |-> n])
  BY DEF LineAdded
<1>4. stack \in Seq(Entry) /\ Len(stack) \in Nat /\ DOMAIN stack = 1..Len(stack) /\ i \in Nat
  <2>1. stack \in Seq(Entry)
    BY TypeParts DEF RestFits, Entry
  <2> QED BY <2>1
<1>5. /\ i # 0 => stack[i].level < n
      /\ \A j \in 1..Len(stack) : stack[j].level < n => j <= i
  BY <1>3 DEF IsPopped
<1>6. /\ DOMAIN stack' = 1..i + 1
      /\ \A a \in 1..i : a \in DOMAIN stack /\ stack'[a] = stack[a]
      /\ stack'[i + 1] = [id |-> r, level |-> n]
  <2>1. s \in Seq(Entry) /\ Len(s) = i /\ \A a \in 1..i : s[a] = stack[a]
    BY <1>3 DEF IsPopped
  <2>2. [id |-> r, level |-> n] \in Entry
    BY <1>1 DEF Entry
  <2>3. /\ stack' \in Seq(Entry) /\ Len(stack') = i + 1
        /\ \A a \in 1..i + 1 : stack'[a] = IF a < i + 1 THEN s[a] ELSE [id |-> r, level |-> n]
    BY <1>3, <1>4, <2>1, <2>2
  <2>4. i + 1 \in 1..i + 1 /\ \A a \in 1..i : a \in 1..i + 1 /\ a < i + 1 /\ a \in 1..Len(stack)
    BY <1>4
  <2> QED BY <1>4, <2>1, <2>3, <2>4
<1>7. \A a \in DOMAIN stack : \E k \in DOMAIN made : OnStack(k, a) /\ stack[a].level = Level(doc[k])
  BY DEF Frontier
<1>8. \A a, b \in DOMAIN stack : \A k, l \in DOMAIN made :
        a < b /\ OnStack(k, a) /\ OnStack(l, b) => k < l
  BY DEF Frontier
<1>9. \A k \in DOMAIN made : \E a \in DOMAIN stack, l \in DOMAIN made :
        OnStack(l, a) /\ k <= l /\ Level(doc[l]) <= Level(doc[k])
  BY DEF Frontier
<1>10. \A k \in DOMAIN made : Level(doc[k]) \in Nat
  <2>1. \A k \in DOMAIN made : k \in 1..Len(doc)
    <3>1. line \in 0..Len(doc) /\ DOMAIN made \subseteq 1..line /\ Len(doc) \in Nat
      BY TypeParts, LineFacts DEF RestFits
    <3> QED BY <3>1
  <2> QED BY <2>1, LineFacts
<1>11. \A k, l \in DOMAIN made : \A a \in DOMAIN stack : OnStack(k, a) /\ OnStack(l, a) => k = l
  BY DEF MadeOnce, OnStack
<1> HIDE DEF n
<1>12. \A k \in DOMAIN made' : \A a \in DOMAIN stack' :
         OnStack(k, a)' <=> \/ k \in DOMAIN made /\ a \in 1..i /\ OnStack(k, a)
                            \/ k = m /\ a = i + 1
  <2> SUFFICES ASSUME NEW k \in DOMAIN made', NEW a \in DOMAIN stack'
               PROVE  made'[k] = stack'[a].id <=> \/ k \in DOMAIN made /\ a \in 1..i /\ OnStack(k, a)
                                                  \/ k = m /\ a = i + 1
    BY DEF OnStack
  <2>1. CASE a \in 1..i
    <3>1. stack'[a] = stack[a] /\ a # i + 1 /\ a \in DOMAIN stack
      BY <1>4, <1>6, <2>1
    <3>2. stack[a].id # r
      BY <1>2, <1>7, <3>1 DEF OnStack
    <3> QED BY <1>1, <1>2, <2>1, <3>1, <3>2 DEF OnStack
  <2>2. CASE a = i + 1
    <3>1. stack'[a].id = r /\ a \notin 1..i
      BY <1>4, <1>6, <2>2
    <3> QED BY <1>1, <1>2, <2>2, <3>1
  <2> QED BY <1>4, <1>6, <2>1, <2>2
<1>13. Frontier'
  <2>1. ASSUME NEW a \in DOMAIN stack'
        PROVE  \E k \in DOMAIN made' : OnStack(k, a)' /\ stack'[a].level = Level(doc[k])
    <3>1. CASE a \in 1..i
      <4>1. PICK k \in DOMAIN made : OnStack(k, a) /\ stack[a].level = Level(doc[k])
        BY <1>6, <1>7, <3>1
      <4>2. k \in DOMAIN made' /\ OnStack(k, a)'
        BY <1>1, <1>12, <3>1, <4>1
      <4> QED BY <1>6, <3>1, <4>1, <4>2
    <3>2. CASE a = i + 1
      <4>1. m \in DOMAIN made' /\ OnStack(m, a)' /\ stack'[a].level = Level(doc[m])
        BY <1>1, <1>6, <1>12, <3>2 DEF n
      <4> QED BY <4>1
    <3> QED BY <1>4, <1>6, <3>1, <3>2
  <2>2. ASSUME NEW a \in DOMAIN stack', NEW b \in DOMAIN stack', NEW k \in DOMAIN made', NEW l \in DOMAIN made',
               a < b, OnStack(k, a)', OnStack(l, b)'
        PROVE  k < l
    <3>1. k \in DOMAIN made /\ a \in 1..i /\ OnStack(k, a)
      BY <1>4, <1>6, <1>12, <2>2
    <3>2. CASE l = m
      BY <1>1, <3>1, <3>2
    <3>3. CASE l # m
      <4>1. l \in DOMAIN made /\ b \in 1..i /\ OnStack(l, b)
        BY <1>12, <2>2, <3>3
      <4> QED BY <1>6, <1>8, <2>2, <3>1, <4>1
    <3> QED BY <3>2, <3>3
  <2>3. ASSUME NEW k \in DOMAIN made'
        PROVE  \E a \in DOMAIN stack', l \in DOMAIN made' :
                 OnStack(l, a)' /\ k <= l /\ Level(doc[l]) <= Level(doc[k])
    <3>1. m \in DOMAIN made' /\ i + 1 \in DOMAIN stack' /\ OnStack(m, i + 1)'
      BY <1>1, <1>4, <1>6, <1>12
    <3>2. CASE k = m
      BY <1>1, <3>1, <3>2 DEF n
    <3>3. CASE k # m
      <4>1. PICK a \in DOMAIN stack, l \in DOMAIN made :
              OnStack(l, a) /\ k <= l /\ Level(doc[l]) <= Level(doc[k])
        BY <1>1, <1>9, <3>3
      <4>2. CASE a \in 1..i
        <5>1. l \in DOMAIN made' /\ a \in DOMAIN stack' /\ OnStack(l, a)'
          BY <1>1, <1>4, <1>6, <1>12, <4>1, <4>2
        <5> QED BY <4>1, <5>1
      <4>3. CASE a \notin 1..i
        <5>1. PICK h \in DOMAIN made : OnStack(h, a) /\ stack[a].level = Level(doc[h])
          BY <1>7
        <5>2. h = l
          BY <1>11, <4>1, <5>1
        <5>3. ~ (stack[a].level < n)
          BY <1>4, <1>5, <4>3
        <5>4. k \in DOMAIN made
          BY <1>1, <3>3
        <5>5. Level(doc[m]) <= Level(doc[k]) /\ k <= m
          BY <1>1, <1>10, <4>1, <5>1, <5>2, <5>3, <5>4 DEF n
        <5> QED BY <3>1, <5>5
      <4> QED BY <4>2, <4>3
    <3> QED BY <3>2, <3>3
  <2>4. \A a \in DOMAIN stack' : \E k \in DOMAIN made' :
          made'[k] = stack'[a].id /\ stack'[a].level = Level(doc'[k])
    BY <2>1 DEF OnStack
  <2>5. \A a, b \in DOMAIN stack' : \A k, l \in DOMAIN made' :
          a < b /\ made'[k] = stack'[a].id /\ made'[l] = stack'[b].id => k < l
    BY <2>2 DEF OnStack
  <2>6. \A k \in DOMAIN made' : \E a \in DOMAIN stack', l \in DOMAIN made' :
          made'[l] = stack'[a].id /\ k <= l /\ Level(doc'[l]) <= Level(doc'[k])
    <3> SUFFICES ASSUME NEW k \in DOMAIN made'
                 PROVE  \E a \in DOMAIN stack', l \in DOMAIN made' :
                          made'[l] = stack'[a].id /\ k <= l /\ Level(doc'[l]) <= Level(doc'[k])
      OBVIOUS
    <3>1. PICK a \in DOMAIN stack', l \in DOMAIN made' :
            OnStack(l, a)' /\ k <= l /\ Level(doc[l]) <= Level(doc[k])
      BY <2>3
    <3>2. made'[l] = stack'[a].id
      BY <3>1 DEF OnStack
    <3> QED BY <3>1, <3>2
  <2> QED BY <2>4, <2>5, <2>6 DEF Frontier, OnStack
<1>14. K = {k \in DOMAIN made : Level(doc[k]) < n}
  BY <1>1 DEF Less, n
<1>15. IsLast(K, LineOver(m)')
  <2>1. LineOverRight'
    BY LineOverIsLast, PTL
  <2> QED BY <2>1 DEF LineOverRight
<1>16. CASE i = 0
  <2>1. K = {}
    <3> SUFFICES ASSUME NEW k \in DOMAIN made, Level(doc[k]) < n PROVE FALSE
      BY <1>14
    <3>1. PICK a \in DOMAIN stack, l \in DOMAIN made :
            OnStack(l, a) /\ k <= l /\ Level(doc[l]) <= Level(doc[k])
      BY <1>9
    <3>2. stack[a].level = Level(doc[l])
      BY <1>7, <1>11, <3>1
    <3>3. stack[a].level < n
      BY <1>1, <1>10, <3>1, <3>2
    <3> QED BY <1>4, <1>5, <1>16, <3>3
  <2> QED BY <1>13, <1>15, <1>16, <2>1 DEF IsLast
<1>17. CASE i # 0
  <2>1. i \in DOMAIN stack
    BY <1>4, <1>17
  <2>2. PICK k \in DOMAIN made : OnStack(k, i) /\ stack[i].level = Level(doc[k])
    BY <1>7, <2>1
  <2>3. k \in K /\ k \in Nat
    BY <1>1, <1>5, <1>14, <1>17, <2>2
  <2>4. ASSUME NEW j \in K
        PROVE  j <= k
    <3>1. PICK a \in DOMAIN stack, l \in DOMAIN made :
            OnStack(l, a) /\ j <= l /\ Level(doc[l]) <= Level(doc[j])
      BY <1>9, <1>14
    <3>2. PICK h \in DOMAIN made : OnStack(h, a) /\ stack[a].level = Level(doc[h])
      BY <1>7
    <3>3. h = l /\ j \in DOMAIN made /\ Level(doc[j]) < n
      BY <1>11, <1>14, <3>1, <3>2
    <3>4. stack[a].level < n
      BY <1>1, <1>10, <3>1, <3>2, <3>3
    <3>5. a <= i
      BY <1>4, <1>5, <3>4
    <3>6. l <= k
      <4>1. CASE a = i
        BY <1>1, <1>11, <2>2, <3>1, <4>1
      <4>2. CASE a # i
        <5>1. a < i
          BY <1>4, <3>5, <4>2
        <5>2. l < k
          BY <1>8, <2>1, <2>2, <3>1, <5>1
        <5> QED BY <1>1, <5>2
      <4> QED BY <4>1, <4>2
    <3> QED BY <1>1, <2>3, <3>1, <3>3, <3>6
  <2>5. IsLast(K, k)
    BY <2>3, <2>4 DEF IsLast
  <2>6. K \subseteq 0..m
    <3>1. K \subseteq DOMAIN made
      BY <1>14
    <3> HIDE DEF K
    <3>2. \A x \in K : x \in 0..m
      BY <1>1, <3>1
    <3> QED BY <3>2
  <2>7. LineOver(m)' = k
    <3> HIDE DEF K
    <3> QED BY <1>1, <1>15, <2>5, <2>6, LastIsOne
  <2>8. k # 0
    BY <1>1
  <2> QED BY <1>13, <1>17, <2>2, <2>7, <2>8 DEF OnStack
<1> QED BY <1>16, <1>17

\* The import of a line keeps what is known of the lines.
LEMMA ImportLineKeeps ==
  ASSUME TypeOK, TypeOK', Rooted(text, kids), MadeOnce, Frontier, NestingKept,
         NEW r \in Rem, ImportLine(r)
  PROVE  MadeOnce' /\ Frontier' /\ NestingKept'
<1>1. PICK m : m = line + 1
  OBVIOUS
<1>2. /\ r \notin used /\ used' = used \union {r}
      /\ SameButFor(kids, kids', {r})
      /\ text' = [text EXCEPT ![r] = doc[m].text] /\ doc[m].text \in Text
  BY <1>1, ImportLineFacts
<1>3. PICK i \in 0..Len(stack) : LineAdded(r, i)
  BY ImportLineFacts
<1>4. /\ Running /\ doc' = doc /\ moved' = moved
      /\ made' = [k \in DOMAIN made \union {m} |-> IF k = m THEN r ELSE made[k]]
  BY <1>1 DEF ImportLine
<1>5. /\ Frontier'
      /\ LineOver(m)' = 0 => i = 0
      /\ LineOver(m)' # 0 =>
           /\ i # 0 /\ LineOver(m)' \in DOMAIN made
           /\ made[LineOver(m)'] = stack[i].id
  BY <1>1, <1>2, <1>3, <1>4, LineAddedFacts
<1>6. /\ m \notin DOMAIN made /\ DOMAIN made' = DOMAIN made \union {m}
      /\ made'[m] = r /\ \A k \in DOMAIN made : made'[k] = made[k] /\ made[k] # r /\ k < m /\ ~ (m < k)
  <2>1. line \in Nat /\ DOMAIN made \subseteq 1..line
    BY <1>4, TypeParts, LineFacts DEF RestFits
  <2>2. m \notin DOMAIN made /\ \A k \in DOMAIN made : k < m /\ ~ (m < k)
    BY <1>1, <2>1
  <2> QED BY <1>2, <1>4, <2>2 DEF MadeOnce
<1>7. MadeOnce'
  BY <1>2, <1>6 DEF MadeOnce
<1>8. ASSUME NEW k \in DOMAIN made
      PROVE  NestAt(k)'
  <2>1. NestAt(k) /\ k \in DOMAIN made'
    BY <1>6, NestingIs DEF Nested
  <2>2. \A j \in DOMAIN made : j \in DOMAIN made' /\ made'[j] = made[j]
    BY <1>6
  <2>3. \A j \in DOMAIN made' : j < k => j \in DOMAIN made
    BY <1>6
  <2>4. /\ \A x \in used : text[x] = Nil => text'[x] = Nil
        /\ \A x \in {r} \intersect used : text'[x] = Nil \/ x \in moved'
    <3>1. used \subseteq Rem /\ text \in Contents
      BY TypeParts DEF RestFits
    <3> QED BY <1>2, <3>1 DEF Contents
  <2> QED BY <1>2, <1>4, <2>1, <2>2, <2>3, <2>4, NestStays
<1>9. NestAt(m)'
  <2> DEFINE q == IF LineOver(m)' = 0 THEN Nil ELSE made'[LineOver(m)']
  <2>1. PICK s : /\ IsPopped(Level(doc[line + 1]), s, i)
                 /\ OnlyIn(kids', r, Over(s))
                 /\ \A x \in ToSet(kids[Over(s)]) : Before(kids', Over(s), x, r)
    BY <1>3 DEF LineAdded
  <2>2. q = Over(s)
    BY <1>5, <1>6, <2>1 DEF IsPopped
  <2>3. q \in Group
    BY <1>5, <1>6, <1>7, TypeParts DEF MadeOnce, RestFits, Group
  <2>4. ASSUME NEW j \in DOMAIN made', j < m, made'[j] \in ToSet(kids'[q])
        PROVE  Before(kids', q, made'[j], made'[m])
    <3>1. j \in DOMAIN made /\ made'[j] = made[j] /\ made[j] \in Rem \ {r}
      <4>1. j \in DOMAIN made
        <5>1. m \in Int
          BY <1>1, <1>4, LineFacts
        <5> QED BY <1>6, <2>4, <5>1
      <4> QED BY <1>6, <4>1, TypeParts DEF MadeOnce, RestFits
    <3>2. made[j] \in ToSet(kids[q])
      BY <1>2, <2>3, <2>4, <3>1 DEF SameButFor
    <3> QED BY <1>6, <2>1, <2>2, <3>1, <3>2
  <2>5. made'[m] \in ToSet(kids'[q])
    BY <1>6, <2>1, <2>2, <2>3 DEF OnlyIn
  <2> QED BY <2>4, <2>5 DEF NestAt, Before
<1>10. NestingKept'
  <2>1. Nested'
    BY <1>6, <1>8, <1>9 DEF Nested
  <2> QED BY <2>1, NestingIs, PTL
<1> QED BY <1>5, <1>7, <1>10

\* What others do while the import runs keeps it too.
LEMMA OthersKeep ==
  ASSUME TypeOK, TypeOK', MadeOnce, Frontier, NestingKept,
         UNCHANGED <<doc, stack, made>>, used \subseteq used', moved \subseteq moved',
         NEW X, SameButFor(kids, kids', X),
         \A x \in used : text[x] = Nil => text'[x] = Nil,
         \A x \in X \intersect used : text'[x] = Nil \/ x \in moved'
  PROVE  MadeOnce' /\ Frontier' /\ NestingKept'
<1>1. MadeOnce' /\ Frontier'
  BY DEF MadeOnce, Frontier, OnStack
<1>2. ASSUME NEW k \in DOMAIN made
      PROVE  NestAt(k)'
  <2>1. NestAt(k)
    BY NestingIs DEF Nested
  <2> QED BY <2>1, NestStays
<1>3. NestingKept'
  <2>1. Nested'
    BY <1>2 DEF Nested
  <2> QED BY <2>1, NestingIs, PTL
<1> QED BY <1>1, <1>3

----------------------------------------------------------------------------
(* The inductive invariant.                                                 *)

\* NamedIsLinked in the form that the operations keep.
LEMMA NamedIs == NamedIsLinked <=> NamedLead(text, link, lost, {})
BY DEF NamedIsLinked, NamedLead

Inv ==
  /\ TypeOK
  /\ Rooted(text, kids)
  /\ NamedIsLinked
  /\ MadeOnce
  /\ Frontier
  /\ NestingKept

LEMMA InitInv == Init => Inv
<1> SUFFICES ASSUME Init PROVE Inv
  OBVIOUS
<1>1. There(text) = {} /\ used = {} /\ DOMAIN made = {} /\ stack = <<>> /\ doc = <<>> /\ line = 0
  BY DEF Init, There
<1>2. ListsFit(text, kids)
  <2>1. \A p \in Group : kids[p] = <<>>
    BY DEF Init, Group
  <2>2. kids \in [Group -> Seq(Rem)]
    <3>1. <<>> \in Seq(Rem)
      BY EmptySeq
    <3> QED BY <3>1 DEF Init, Group
  <2>3. \A r \in Rem : text[r] = Nil /\ r \in Group
    BY DEF Init, Group
  <2> QED BY <2>1, <2>2, <2>3 DEF ListsFit, Lists, ToSet
<1>3. LinksFit(text, link, {})
  <2>1. \A r \in Rem : text[r] = Nil /\ link[r] = [u \in {} |-> Nil]
    BY DEF Init
  <2> QED BY <2>1 DEF LinksFit, Refs
<1>4. RestFits
  <2>1. stack \in Seq([id : Rem, level : Nat])
    BY <1>1, EmptySeq
  <2>2. text \in Contents /\ lost \in [Rem -> SUBSET Title] /\ moved \subseteq Rem
    BY DEF Init, Contents
  <2>3. line \in 0..Len(doc)
    BY <1>1
  <2> QED BY <1>1, <2>1, <2>2, <2>3 DEF RestFits
<1>5. TypeOK
  BY <1>2, <1>3, <1>4, TypeParts
<1>6. MadeOnce /\ Frontier /\ NestingKept /\ NamedIsLinked /\ Rooted(text, kids)
  BY <1>1 DEF MadeOnce, Frontier, NestingKept, NamedIsLinked, Rooted
<1> QED BY <1>5, <1>6 DEF Inv

LEMMA NextInv == Inv /\ [Next]_vars => Inv'
<1> SUFFICES ASSUME Inv, [Next]_vars PROVE Inv'
  OBVIOUS
<1>1. /\ TypeOK /\ Rooted(text, kids) /\ NamedIsLinked /\ MadeOnce /\ Frontier /\ NestingKept
  BY DEF Inv
<1>2. TypeOK' /\ Rooted(text, kids)' /\ LinksStepOK
  BY <1>1, TypeStep
<1>3. NamedIsLinked'
  <2>1. NamedLead(text, link, lost, {})'
    <3>1. NamedLead(text, link, lost, {})
      BY <1>1, NamedIs
    <3> QED BY <1>2, <3>1 DEF LinksStepOK, LinksGood
  <2> QED BY <2>1, NamedIs, PTL
<1>4. used \subseteq Rem /\ There(text) \subseteq used /\ text \in Contents
  BY <1>1, TypeParts DEF RestFits
<1>5. MadeOnce' /\ Frontier' /\ NestingKept'
  <2>1. CASE UNCHANGED vars \/ SkipBlank \/ ImportFails
    <3>1. UNCHANGED <<doc, stack, made, used, moved, kids, text>>
      BY <2>1 DEF vars, job, SkipBlank, ImportFails
    <3>2. SameButFor(kids, kids', {})
      BY <3>1 DEF SameButFor
    <3> QED BY <1>1, <1>2, <3>1, <3>2, OthersKeep
  <2>2. ASSUME NEW d \in Docs, StartImport(d)
        PROVE  MadeOnce' /\ Frontier' /\ NestingKept'
    <3>1. DOMAIN made = {} /\ made' = made /\ stack' = stack
      <4>1. doc = <<>>
        BY <2>2 DEF StartImport
      <4>2. line \in 0..Len(doc) /\ Len(doc) = 0 /\ DOMAIN made \subseteq 1..line
        BY <1>1, <4>1, TypeParts, EmptySeq DEF RestFits
      <4> QED BY <2>2, <4>2 DEF StartImport
    <3> QED BY <1>1, <3>1 DEF MadeOnce, Frontier, NestingKept
  <2>3. ASSUME NEW r \in Rem, ImportLine(r)
        PROVE  MadeOnce' /\ Frontier' /\ NestingKept'
    BY <1>1, <1>2, <2>3, ImportLineKeeps
  <2>4. ASSUME NEW r \in Rem, NEW p \in Group, NEW t \in Text, CreateOther(r, p, t)
        PROVE  MadeOnce' /\ Frontier' /\ NestingKept'
    <3>1. UNCHANGED <<doc, stack, made, moved>> /\ CreateRem(r, p, t)
      BY <2>4 DEF CreateOther, job
    <3>2. /\ r \notin used /\ used' = used \union {r}
          /\ text' = [text EXCEPT ![r] = t]
          /\ SameButFor(kids, kids', {r})
      BY <1>1, <3>1, CreateFacts
    <3>3. /\ \A x \in used : text[x] = Nil => text'[x] = Nil
          /\ \A x \in {r} \intersect used : text'[x] = Nil \/ x \in moved'
      BY <1>4, <3>2 DEF Contents
    <3> QED BY <1>1, <1>2, <3>1, <3>2, <3>3, OthersKeep
  <2>5. ASSUME NEW r \in Rem, NEW t \in Text, UpdateRem(r, t)
        PROVE  MadeOnce' /\ Frontier' /\ NestingKept'
    <3>1. UNCHANGED <<doc, stack, made, moved, kids, used>>
      BY <2>5 DEF UpdateRem, job
    <3>2. \A x \in Rem : text'[x] = Nil <=> text[x] = Nil
      BY <1>1, <2>5, UpdateFacts
    <3>3. SameButFor(kids, kids', {})
      BY <3>1 DEF SameButFor
    <3> QED BY <1>1, <1>2, <1>4, <3>1, <3>2, <3>3, OthersKeep
  <2>6. ASSUME NEW r \in Rem, DeleteRem(r)
        PROVE  MadeOnce' /\ Frontier' /\ NestingKept'
    <3>1. UNCHANGED <<doc, stack, made, moved, used>>
      BY <2>6 DEF DeleteRem, job
    <3>2. /\ \A x \in Rem : text'[x] = IF x \in Branch(r) THEN Nil ELSE text[x]
          /\ SameButFor(kids, kids', Branch(r))
      BY <1>1, <2>6, DeleteFacts
    <3>3. /\ \A x \in used : text[x] = Nil => text'[x] = Nil
          /\ \A x \in Branch(r) \intersect used : text'[x] = Nil \/ x \in moved'
      BY <1>4, <3>2
    <3> QED BY <1>1, <1>2, <3>1, <3>2, <3>3, OthersKeep
  <2>7. ASSUME NEW r \in Rem, IndentRem(r) \/ OutdentRem(r)
        PROVE  MadeOnce' /\ Frontier' /\ NestingKept'
    <3>1. UNCHANGED <<doc, stack, made, used>> /\ moved' = moved \union {r}
      BY <2>7 DEF IndentRem, OutdentRem, job
    <3>2. text' = text /\ SameButFor(kids, kids', {r})
      BY <1>1, <2>7, IndentFacts, OutdentFacts
    <3> QED BY <1>1, <1>2, <3>1, <3>2, OthersKeep
  <2> QED BY <2>1, <2>2, <2>3, <2>4, <2>5, <2>6, <2>7 DEF Next, Group
<1> QED BY <1>2, <1>3, <1>5 DEF Inv

LEMMA Invariance == Spec => []Inv
BY InitInv, NextInv, PTL DEF Spec

----------------------------------------------------------------------------
\* Whatever is imported, created, edited, deleted, indented and outdented, in
\* any order, a bullet that exists is in exactly one list, once, under a bullet
\* that exists or at the root, and each reference of a text is stored with a
\* target that exists or none.
THEOREM TypeCorrect == Spec => []TypeOK
BY Invariance, PTL DEF Inv

\* A bullet is always among the backlinks of each bullet whose title it names,
\* resolved or not.
THEOREM BacklinksAreComplete == Spec => []BacklinksComplete
<1>1. Inv => BacklinksComplete
  <2> SUFFICES ASSUME Inv, NEW s \in There(text), NEW x \in There(text),
                      text[x].title \in text[s].refs
               PROVE  s \in Backlinks(x)
    BY DEF BacklinksComplete
  <2>1. LinksFit(text, link, {}) /\ s \in Rem /\ Refs(text, s) = text[s].refs
    BY TypeParts DEF Inv, There, Refs
  <2>2. DOMAIN link[s] = text[s].refs
    BY <2>1 DEF LinksFit
  <2> QED BY <2>2 DEF Backlinks
<1> QED BY <1>1, Invariance, PTL

\* Whichever of two bullets is written first, a reference leads somewhere if
\* there is a bullet of that title that begins with it, but for a reference
\* whose target was deleted: what each save does, with the saves of parents that
\* follow it, resolves every reference that can be.
THEOREM NamedAreLinked == Spec => []NamedIsLinked
BY Invariance, PTL DEF Inv

\* No save of a bullet takes a reference of another away from where it leads.
THEOREM LinksAreKept == Spec => LinksStay
<1>1. Inv /\ [Next]_vars => [LinksStep]_<<text, link>>
  <2> SUFFICES ASSUME Inv, [Next]_vars PROVE LinksStep \/ UNCHANGED <<text, link>>
    OBVIOUS
  <2>1. LinksStepOK
    BY TypeStep DEF Inv
  <2> QED BY <2>1 DEF LinksStepOK, LinksGood
<1> QED BY <1>1, Invariance, PTL DEF Spec, LinksStay, LinksStep

\* Whatever others do between the lines, a bullet that the import made stays
\* under the bullet of the line its line belongs under, after those of earlier
\* lines there, until it is itself moved.
THEOREM NestingIsKept == Spec => []NestingKept
BY Invariance, PTL DEF Inv
=============================================================================
