---------------------------- MODULE Reply_proofs ----------------------------
(***************************************************************************)
(* For replies of any length, cut into tokens anywhere: what is said is    *)
(* what the model wrote, each symbol once and in its order, in messages    *)
(* whose numbers do not fall; and of the sentences of a message one opens  *)
(* with a hesitation, at most.                                             *)
(***************************************************************************)
EXTENDS Reply, SequenceTheorems, FiniteSetTheorems, WellFoundedInduction, TLAPS

(******************************** Induction ********************************)

(* The induction is the least element of a set of natural numbers: sets     *)
(* and functions take the place of the predicates and operators of the      *)
(* library's induction theorems.                                            *)
LEMMA LeastNat ==
  ASSUME NEW T \in SUBSET Nat, T # {}
  PROVE  \E x \in T : \A y \in T : x <= y
<1>1. PICK x \in T : \A y \in T : ~ (<<y, x>> \in OpToRel(<, Nat))
  BY NatLessThanWellFounded, WFMin, Zenon
<1>2. \A y \in T : ~ (y < x)
  BY <1>1 DEF OpToRel
<1> QED
  BY <1>2

LEMMA InductionUpTo ==
  ASSUME NEW n \in Nat, NEW T, 0 \in T, \A i \in 1 .. n : i - 1 \in T => i \in T
  PROVE  0 .. n \subseteq T
<1> SUFFICES ASSUME ~(0 .. n \subseteq T) PROVE FALSE
  OBVIOUS
<1>1. PICK x \in (0 .. n) \ T : \A y \in (0 .. n) \ T : x <= y
  <2>1. (0 .. n) \ T # {} /\ (0 .. n) \ T \in SUBSET Nat
    OBVIOUS
  <2> QED
    BY <2>1, LeastNat
<1>2. x \in 1 .. n /\ x - 1 \in T
  BY <1>1
<1> QED
  BY <1>1, <1>2

(* A function that is computed step by step exists.                         *)
LEMMA Recursion ==
  ASSUME NEW D, NEW base \in D, NEW n \in Nat, NEW step \in [1 .. n -> [D -> D]]
  PROVE  \E f \in [0 .. n -> D] : f[0] = base /\ \A i \in 1 .. n : f[i] = step[i][f[i - 1]]
<1> DEFINE Good(m) == \E f \in [0 .. m -> D] :
                        f[0] = base /\ \A i \in 1 .. m : f[i] = step[i][f[i - 1]]
           T == {m \in 0 .. n : Good(m)}
<1>1. 0 \in T
  <2>1. /\ [i \in 0 .. 0 |-> base] \in [0 .. 0 -> D]
        /\ [i \in 0 .. 0 |-> base][0] = base
        /\ 1 .. 0 = {}
    OBVIOUS
  <2>2. Good(0)
    BY <2>1
  <2> QED
    BY <2>2
<1>2. ASSUME NEW m \in 1 .. n, m - 1 \in T PROVE m \in T
  <2>1. PICK f \in [0 .. m - 1 -> D] :
          f[0] = base /\ \A i \in 1 .. m - 1 : f[i] = step[i][f[i - 1]]
    BY <1>2
  <2> DEFINE g == [i \in 0 .. m |-> IF i = m THEN step[m][f[m - 1]] ELSE f[i]]
  <2>2. step[m][f[m - 1]] \in D
    <3>1. f[m - 1] \in D /\ step[m] \in [D -> D]
      BY <1>2
    <3> QED
      BY <3>1
  <2>3. g \in [0 .. m -> D] /\ g[0] = base
    BY <2>1, <2>2
  <2>4. ASSUME NEW i \in 1 .. m PROVE g[i] = step[i][g[i - 1]]
    <3>1. i - 1 \in 0 .. m /\ i \in 0 .. m /\ i - 1 # m
      BY <1>2
    <3>2. g[i - 1] = f[i - 1] /\ g[i] = IF i = m THEN step[m][f[m - 1]] ELSE f[i]
      BY <3>1
    <3>3. i = m \/ i \in 1 .. m - 1
      BY <1>2
    <3> QED
      BY <2>1, <3>2, <3>3
  <2>5. Good(m)
    <3> HIDE DEF g
    <3> QED
      BY <2>3, <2>4
  <2> HIDE DEF Good
  <2>6. m \in 0 .. n
    OBVIOUS
  <2> QED
    BY <2>5, <2>6
<1> HIDE DEF T
<1>3. 0 .. n \subseteq T
  BY <1>1, <1>2, InductionUpTo
<1>4. n \in T
  BY <1>3
<1> QED
  BY <1>4 DEF T

(* The least and the largest of a set of places.                            *)
LEMMA MinOf ==
  ASSUME NEW s \in SUBSET Nat, s # {}
  PROVE  Min(s) \in s /\ \A y \in s : Min(s) <= y
<1>1. \E x \in s : \A y \in s : x <= y
  BY LeastNat
<1> QED
  BY <1>1 DEF Min

LEMMA MaxOf ==
  ASSUME NEW m \in Nat, NEW s \in SUBSET (1 .. m), s # {}
  PROVE  Max(s) \in s /\ \A y \in s : y <= Max(s)
<1> DEFINE T == {m - x : x \in s}
<1>1. T \in SUBSET Nat /\ T # {}
  <2>1. \A x \in s : m - x \in Nat
    OBVIOUS
  <2>2. PICK x \in s : TRUE
    OBVIOUS
  <2>3. m - x \in T
    OBVIOUS
  <2> QED
    BY <2>1, <2>3
<1>2. PICK t \in T : \A y \in T : t <= y
  BY <1>1, LeastNat
<1>3. PICK x \in s : t = m - x
  OBVIOUS
<1>4. \A y \in s : x >= y
  <2> SUFFICES ASSUME NEW y \in s PROVE x >= y
    OBVIOUS
  <2>1. m - y \in T /\ x \in Nat /\ y \in Nat
    OBVIOUS
  <2>2. m - x <= m - y
    BY <1>2, <1>3, <2>1
  <2> QED
    BY <2>1, <2>2
<1>5. Max(s) \in s /\ \A y \in s : Max(s) >= y
  BY <1>4 DEF Max
<1> DEFINE x1 == Max(s)
<1>6. x1 \in s /\ \A y \in s : x1 >= y
  BY <1>5
<1> HIDE DEF x1, T
<1>7. \A y \in s : y <= x1
  BY <1>6
<1> QED
  BY <1>6, <1>7 DEF x1

(********************************** Texts **********************************)

(* Texts of symbols of S, in the order of their places.                     *)
Texts(S) == {t \in Seq(S) : Rising(t)}
Symbols == STRING \X Nat
Before(t, u) == \A c \in Range(t), d \in Range(u) : c[2] < d[2]

LEMMA FunctionIsSeq ==
  ASSUME NEW S, NEW n \in Nat, NEW f \in [1 .. n -> S]
  PROVE  f \in Seq(S) /\ Len(f) = n
<1>1. f \in UNION {[1 .. m -> S] : m \in Nat}
  OBVIOUS
<1>2. f \in Seq(S)
  BY <1>1, SeqDef
<1>3. DOMAIN f = 1 .. Len(f) /\ Len(f) \in Nat
  BY <1>2
<1>4. 1 .. n = 1 .. Len(f)
  BY <1>3
<1> QED
  BY <1>2, <1>3, <1>4

LEMMA TextRange ==
  ASSUME NEW S, NEW t \in Seq(S)
  PROVE  /\ Len(t) \in Nat /\ DOMAIN t = 1 .. Len(t) /\ Range(t) \subseteq S /\ t \in Seq(Range(t))
         /\ \A i \in 1 .. Len(t) : t[i] \in Range(t)
<1>1. Len(t) \in Nat /\ DOMAIN t = 1 .. Len(t) /\ \A i \in 1 .. Len(t) : t[i] \in S
  OBVIOUS
<1>2. t = [i \in 1 .. Len(t) |-> t[i]]
  OBVIOUS
<1>3. \A i \in 1 .. Len(t) : t[i] \in Range(t)
  BY <1>1 DEF Range
<1>4. t \in [1 .. Len(t) -> Range(t)]
  BY <1>2, <1>3
<1>5. t \in Seq(Range(t))
  BY <1>1, <1>4, FunctionIsSeq
<1>6. Range(t) \subseteq S
  BY <1>1 DEF Range
<1> QED
  BY <1>1, <1>3, <1>5, <1>6

LEMMA TextOwn ==
  ASSUME NEW S, NEW t \in Texts(S)
  PROVE  t \in Texts(Range(t)) /\ Range(t) \subseteq S
  BY TextRange DEF Texts

LEMMA TextWider ==
  ASSUME NEW S, NEW T, S \subseteq T, NEW t \in Texts(S)
  PROVE  t \in Texts(T) /\ t \in Seq(T)
  BY DEF Texts

LEMMA EmptyText ==
  ASSUME NEW S
  PROVE  <<>> \in Texts(S) /\ Range(<<>>) = {} /\ Len(<<>>) = 0
<1>1. <<>> \in Seq(S) /\ DOMAIN <<>> = {} /\ Len(<<>>) = 0
  OBVIOUS
<1> QED
  BY <1>1 DEF Texts, Rising, Range

(* A part of a text.                                                        *)
LEMMA PartOf ==
  ASSUME NEW S, NEW t \in Texts(S), NEW m \in Nat \ {0}, NEW n \in Int, n <= Len(t)
  PROVE  /\ SubSeq(t, m, n) \in Texts(S) /\ Range(SubSeq(t, m, n)) \subseteq Range(t)
         /\ Len(SubSeq(t, m, n)) = IF m <= n THEN n - m + 1 ELSE 0
         /\ \A i \in 1 .. Len(SubSeq(t, m, n)) : SubSeq(t, m, n)[i] = t[m + i - 1]
<1>1. /\ t \in Seq(S) /\ Len(t) \in Nat /\ DOMAIN t = 1 .. Len(t)
      /\ \A i, j \in 1 .. Len(t) : i < j => t[i][2] < t[j][2]
      /\ \A i \in 1 .. Len(t) : t[i] \in S
  BY DEF Texts, Rising
<1> DEFINE u == SubSeq(t, m, n)
           k == IF m <= n THEN n - m + 1 ELSE 0
<1>2. /\ k \in Nat /\ u = [i \in 1 .. k |-> t[m + i - 1]]
      /\ \A i \in 1 .. k : m + i - 1 \in 1 .. Len(t)
  <2>1. \A i \in 1 .. k : m + i - 1 \in 1 .. Len(t)
    BY <1>1
  <2>2. k \in Nat /\ 1 .. k = 1 .. (n - m + 1)
    OBVIOUS
  <2>3. u = [i \in 1 .. (n - m + 1) |-> t[m + i - 1]]
    BY <1>1
  <2> QED
    BY <2>1, <2>2, <2>3
<1> HIDE DEF u
<1>3. u \in Seq(S) /\ Len(u) = k /\ DOMAIN u = 1 .. k /\ \A i \in 1 .. k : u[i] = t[m + i - 1]
  <2>1. \A i \in 1 .. k : t[m + i - 1] \in S
    BY <1>1, <1>2
  <2>2. u \in [1 .. k -> S]
    BY <1>2, <2>1
  <2>3. u \in Seq(S) /\ Len(u) = k
    BY <1>2, <2>2, FunctionIsSeq
  <2> QED
    BY <1>2, <2>3
<1> HIDE DEF k
<1>4. Rising(u)
  <2> SUFFICES ASSUME NEW i \in 1 .. k, NEW j \in 1 .. k, i < j PROVE u[i][2] < u[j][2]
    BY <1>3 DEF Rising
  <2>1. m + i - 1 < m + j - 1
    BY <1>2
  <2> QED
    BY <1>1, <1>2, <1>3, <2>1
<1>5. Range(u) \subseteq Range(t)
  BY <1>1, <1>2, <1>3 DEF Range
<1> QED
  BY <1>3, <1>4, <1>5 DEF Texts, u, k

(* Two texts, one behind the other.                                         *)
LEMMA Joined ==
  ASSUME NEW S, S \subseteq Symbols, NEW t \in Texts(S), NEW u \in Texts(S), Before(t, u)
  PROVE  t \o u \in Texts(S) /\ Range(t \o u) = Range(t) \cup Range(u)
<1> DEFINE m == Len(t)
           n == Len(u)
           w == t \o u
<1>1. /\ t \in Seq(S) /\ m \in Nat /\ DOMAIN t = 1 .. m /\ Rising(t)
      /\ u \in Seq(S) /\ n \in Nat /\ DOMAIN u = 1 .. n /\ Rising(u)
  BY DEF Texts
<1>2. /\ w \in Seq(S) /\ DOMAIN w = 1 .. m + n
      /\ \A i \in 1 .. m : w[i] = t[i]
      /\ \A i \in m + 1 .. m + n : w[i] = u[i - m]
  BY <1>1
<1> HIDE DEF w, m, n
<1>3. \A i \in 1 .. m + n : i \in 1 .. m \/ (i \in m + 1 .. m + n /\ i - m \in 1 .. n)
  BY <1>1
<1>4. Rising(w)
  <2> SUFFICES ASSUME NEW i \in 1 .. m + n, NEW j \in 1 .. m + n, i < j PROVE w[i][2] < w[j][2]
    BY <1>2 DEF Rising
  <2>1. CASE j \in 1 .. m
    <3>1. i \in 1 .. m
      BY <1>1, <2>1
    <3> QED
      BY <1>1, <1>2, <2>1, <3>1 DEF Rising
  <2>2. CASE i \in 1 .. m /\ j \in m + 1 .. m + n
    <3>1. t[i] \in Range(t) /\ u[j - m] \in Range(u)
      BY <1>1, <1>3, <2>2 DEF Range
    <3> QED
      BY <1>2, <2>2, <3>1 DEF Before
  <2>3. CASE i \in m + 1 .. m + n /\ j \in m + 1 .. m + n
    <3>1. i - m \in 1 .. n /\ j - m \in 1 .. n /\ i - m < j - m
      BY <1>1, <2>3
    <3>2. u[i - m][2] < u[j - m][2]
      BY <1>1, <3>1 DEF Rising
    <3>3. w[i] = u[i - m] /\ w[j] = u[j - m]
      BY <1>2, <2>3
    <3> QED
      BY <3>2, <3>3
  <2> QED
    BY <1>3, <2>1, <2>2, <2>3
<1>5. Range(w) \subseteq Range(t) \cup Range(u)
  BY <1>1, <1>2, <1>3 DEF Range
<1>6. Range(t) \subseteq Range(w)
  <2>1. \A i \in 1 .. m : i \in 1 .. m + n
    BY <1>1
  <2> QED
    BY <1>1, <1>2, <2>1 DEF Range
<1>7. Range(u) \subseteq Range(w)
  <2>1. \A i \in 1 .. n : i + m \in m + 1 .. m + n /\ i + m \in 1 .. m + n /\ (i + m) - m = i
    BY <1>1
  <2>2. \A i \in 1 .. n : u[i] = w[i + m] /\ i + m \in DOMAIN w
    BY <1>2, <2>1
  <2> QED
    BY <1>1, <2>2 DEF Range
<1> QED
  BY <1>2, <1>4, <1>5, <1>6, <1>7 DEF Texts, w

(*************************** Taking symbols out ****************************)

KeptOf(t, P) ==
  CHOOSE kept : kept = [i \in 0 .. Len(t) |->
    IF i = 0 THEN <<>> ELSE IF i \in P THEN kept[i - 1] ELSE Append(kept[i - 1], t[i])]

LEMMA WithoutIsKept == \A t, P : Without(t, P) = KeptOf(t, P)[Len(t)]
  BY DEF Without, KeptOf

LEMMA KeptStep ==
  ASSUME NEW S, NEW t \in Seq(S), NEW P
  PROVE  /\ KeptOf(t, P)[0] = <<>>
         /\ \A i \in 1 .. Len(t) :
              KeptOf(t, P)[i] = IF i \in P THEN KeptOf(t, P)[i - 1]
                                ELSE Append(KeptOf(t, P)[i - 1], t[i])
<1> DEFINE n == Len(t)
           more(i, k) == IF i \in P THEN k ELSE Append(k, t[i])
           step == [i \in 1 .. n |-> [k \in Seq(S) |-> more(i, k)]]
           Eq(k) == k = [i \in 0 .. n |-> IF i = 0 THEN <<>>
                            ELSE IF i \in P THEN k[i - 1] ELSE Append(k[i - 1], t[i])]
<1>1. n \in Nat /\ <<>> \in Seq(S)
  OBVIOUS
<1>2. step \in [1 .. n -> [Seq(S) -> Seq(S)]]
  <2>1. ASSUME NEW i \in 1 .. n, NEW k \in Seq(S) PROVE more(i, k) \in Seq(S)
    <3>1. t[i] \in S
      OBVIOUS
    <3> QED
      BY <3>1, AppendProperties
  <2> HIDE DEF more
  <2> QED
    BY <2>1
<1> HIDE DEF step
<1>3. PICK f \in [0 .. n -> Seq(S)] : f[0] = <<>> /\ \A i \in 1 .. n : f[i] = step[i][f[i - 1]]
  <2> DEFINE D == Seq(S)
             base == <<>>
  <2>1. base \in D /\ n \in Nat /\ step \in [1 .. n -> [D -> D]]
    BY <1>1, <1>2
  <2> HIDE DEF n, D, base
  <2>2. \E f \in [0 .. n -> D] : f[0] = base /\ \A i \in 1 .. n : f[i] = step[i][f[i - 1]]
    BY <2>1, Recursion
  <2> QED
    BY <2>2 DEF D, base
<1>4. \A i \in 1 .. n : f[i] = more(i, f[i - 1])
  <2> SUFFICES ASSUME NEW i \in 1 .. n PROVE f[i] = more(i, f[i - 1])
    OBVIOUS
  <2>1. f[i - 1] \in Seq(S)
    BY <1>1
  <2>2. step[i][f[i - 1]] = more(i, f[i - 1])
    BY <2>1 DEF step
  <2> QED
    BY <1>3, <2>2
<1>5. Eq(f)
  <2> DEFINE g == [i \in 0 .. n |-> IF i = 0 THEN <<>>
                        ELSE IF i \in P THEN f[i - 1] ELSE Append(f[i - 1], t[i])]
  <2>1. f = [i \in 0 .. n |-> f[i]]
    BY <1>3
  <2>2. ASSUME NEW i \in 0 .. n PROVE f[i] = g[i]
    <3>1. i = 0 \/ i \in 1 .. n
      BY <1>1
    <3> QED
      BY <1>3, <1>4, <3>1
  <2>3. f = g
    BY <2>1, <2>2
  <2> QED
    BY <2>3
<1>6. Eq(KeptOf(t, P))
  <2>1. \E k : Eq(k)
    BY <1>5
  <2> HIDE DEF Eq
  <2>2. Eq(CHOOSE k : Eq(k))
    BY <2>1
  <2>3. KeptOf(t, P) = CHOOSE k : Eq(k)
    BY DEF Eq, KeptOf
  <2> QED
    BY <2>2, <2>3
<1> DEFINE K == KeptOf(t, P)
<1> HIDE DEF K
<1>7. K = [i \in 0 .. n |-> IF i = 0 THEN <<>>
                 ELSE IF i \in P THEN K[i - 1] ELSE Append(K[i - 1], t[i])]
  BY <1>6 DEF K
<1>8. K[0] = <<>>
  BY <1>1, <1>7
<1>9. ASSUME NEW i \in 1 .. n
      PROVE  K[i] = IF i \in P THEN K[i - 1] ELSE Append(K[i - 1], t[i])
  <2>1. i \in 0 .. n /\ i # 0
    BY <1>1
  <2> QED
    BY <1>7, <2>1
<1> QED
  BY <1>8, <1>9 DEF K

(* Whatever is taken out, the rest is a text, in the same order.            *)
LEMMA WithoutText ==
  ASSUME NEW S, S \subseteq Symbols, NEW t \in Texts(S), NEW P
  PROVE  Without(t, P) \in Texts(S) /\ Range(Without(t, P)) \subseteq Range(t)
<1> DEFINE n == Len(t)
           R == Range(t)
           K == KeptOf(t, P)
           Good(i) == /\ K[i] \in Texts(R)
                      /\ \A c \in Range(K[i]), j \in i + 1 .. n : c[2] < t[j][2]
           U == {i \in 0 .. n : Good(i)}
<1>1. /\ n \in Nat /\ DOMAIN t = 1 .. n /\ t \in Seq(R) /\ R \subseteq S /\ R \subseteq Symbols
      /\ \A i \in 1 .. n : t[i] \in R
      /\ \A i, j \in 1 .. n : i < j => t[i][2] < t[j][2]
  <2>1. t \in Seq(S) /\ Rising(t)
    BY DEF Texts
  <2>2. n \in Nat /\ DOMAIN t = 1 .. n /\ t \in Seq(R) /\ R \subseteq S
        /\ \A i \in 1 .. n : t[i] \in R
    BY <2>1, TextRange
  <2> QED
    BY <2>1, <2>2 DEF Rising
<1>2. /\ K[0] = <<>>
      /\ \A i \in 1 .. n : K[i] = IF i \in P THEN K[i - 1] ELSE Append(K[i - 1], t[i])
  BY <1>1, KeptStep
<1> HIDE DEF K, n, R
<1>3. 0 \in U
  BY <1>1, <1>2, EmptyText
<1>4. ASSUME NEW i \in 1 .. n, i - 1 \in U
      PROVE  i \in U
  <2>1. /\ K[i - 1] \in Texts(R)
        /\ \A c \in Range(K[i - 1]), j \in i .. n : c[2] < t[j][2]
    BY <1>1, <1>4
  <2>2. i \in i .. n /\ \A j \in i + 1 .. n : j \in i .. n /\ i < j /\ j \in 1 .. n
    BY <1>1
  <2>3. CASE i \in P
    <3>1. K[i] = K[i - 1]
      BY <1>2, <2>3
    <3> QED
      BY <1>1, <2>1, <2>2, <3>1
  <2>4. CASE i \notin P
    <3> DEFINE k == K[i - 1]
               one == <<t[i]>>
    <3>1. K[i] = k \o one
      <4>1. k \in Seq(R) /\ t[i] \in R
        BY <1>1, <2>1 DEF Texts
      <4> QED
        BY <1>2, <2>4, <4>1, AppendIsConcat
    <3>2. one \in Texts(R) /\ Range(one) = {t[i]}
      <4>1. one \in Seq(R) /\ DOMAIN one = 1 .. 1 /\ one[1] = t[i]
        BY <1>1
      <4>2. Rising(one)
        BY <4>1 DEF Rising
      <4>3. Range(one) = {t[i]}
        BY <4>1 DEF Range
      <4> QED
        BY <4>1, <4>2, <4>3 DEF Texts
    <3>3. Before(k, one)
      BY <2>1, <2>2, <3>2 DEF Before
    <3> HIDE DEF k, one
    <3>4. K[i] \in Texts(R) /\ Range(K[i]) = Range(k) \cup {t[i]}
      BY <1>1, <2>1, <3>1, <3>2, <3>3, Joined DEF k
    <3>5. ASSUME NEW c \in Range(K[i]), NEW j \in i + 1 .. n PROVE c[2] < t[j][2]
      BY <1>1, <2>1, <2>2, <3>4 DEF k
    <3> QED
      BY <1>1, <3>4, <3>5
  <2> QED
    BY <2>3, <2>4
<1> HIDE DEF U
<1>5. 0 .. n \subseteq U
  BY <1>1, <1>3, <1>4, InductionUpTo
<1>6. K[n] \in Texts(R)
  BY <1>1, <1>5 DEF U
<1>7. Without(t, P) \in Texts(R)
  BY <1>6, WithoutIsKept DEF K, n
<1> QED
  BY <1>1, <1>7, TextOwn, TextWider DEF R

(***************************** Parts of a text *****************************)

LEMMA SuffixIs ==
  ASSUME NEW S, NEW t \in Texts(S), NEW k \in 1 .. Len(t) + 1
  PROVE  /\ From(t, k) \in Texts(S) /\ Len(From(t, k)) = Len(t) - k + 1
         /\ \A i \in 1 .. Len(t) - k + 1 : From(t, k)[i] = t[k + i - 1]
<1>1. Len(t) \in Nat
  BY DEF Texts
<1>2. k \in Nat \ {0} /\ Len(t) \in Int /\ Len(t) <= Len(t)
  BY <1>1
<1>3. (IF k <= Len(t) THEN Len(t) - k + 1 ELSE 0) = Len(t) - k + 1
  BY <1>1
<1> QED
  BY <1>2, <1>3, PartOf DEF From

LEMMA PrefixText ==
  ASSUME NEW S, NEW t \in Texts(S), NEW k \in 0 .. Len(t)
  PROVE  /\ UpTo(t, k) \in Texts(S) /\ Len(UpTo(t, k)) = k
         /\ \A i \in 1 .. k : UpTo(t, k)[i] = t[i]
<1>1. Len(t) \in Nat
  BY DEF Texts
<1>2. 1 \in Nat \ {0} /\ k \in Int /\ k <= Len(t) /\ (IF 1 <= k THEN k - 1 + 1 ELSE 0) = k
  BY <1>1
<1>3. /\ UpTo(t, k) \in Texts(S) /\ Len(UpTo(t, k)) = k
      /\ \A i \in 1 .. k : UpTo(t, k)[i] = t[1 + i - 1]
  BY <1>2, PartOf DEF UpTo
<1>4. \A i \in 1 .. k : 1 + i - 1 = i
  BY <1>1
<1> QED
  BY <1>3, <1>4

(* What is in front of a place comes before what is behind it.              *)
LEMMA FrontBeforeRest ==
  ASSUME NEW S, NEW t \in Texts(S), NEW k \in 0 .. Len(t), NEW l \in k + 1 .. Len(t) + 1
  PROVE  Before(UpTo(t, k), From(t, l))
<1>1. Len(t) \in Nat /\ DOMAIN t = 1 .. Len(t) /\ \A i, j \in 1 .. Len(t) : i < j => t[i][2] < t[j][2]
  BY DEF Texts, Rising
<1> DEFINE u == UpTo(t, k)
           v == From(t, l)
<1>2. /\ u \in Seq(S) /\ DOMAIN u = 1 .. k /\ \A i \in 1 .. k : u[i] = t[i]
      /\ v \in Seq(S) /\ DOMAIN v = 1 .. Len(t) - l + 1
      /\ \A i \in 1 .. Len(t) - l + 1 : v[i] = t[l + i - 1]
  <2>1. l \in 1 .. Len(t) + 1
    BY <1>1
  <2>2. u \in Texts(S) /\ Len(u) = k /\ \A i \in 1 .. k : u[i] = t[i]
    BY PrefixText
  <2>3. /\ v \in Texts(S) /\ Len(v) = Len(t) - l + 1
        /\ \A i \in 1 .. Len(t) - l + 1 : v[i] = t[l + i - 1]
    BY <2>1, SuffixIs
  <2>4. u \in Seq(S) /\ v \in Seq(S)
    BY <2>2, <2>3 DEF Texts
  <2>5. DOMAIN u = 1 .. Len(u) /\ DOMAIN v = 1 .. Len(v)
    BY <2>4
  <2> QED
    BY <2>2, <2>3, <2>4, <2>5
<1> HIDE DEF u, v
<1>3. ASSUME NEW i \in 1 .. k, NEW j \in 1 .. Len(t) - l + 1 PROVE u[i][2] < v[j][2]
  <2>1. i \in 1 .. Len(t) /\ l + j - 1 \in 1 .. Len(t) /\ i < l + j - 1
    BY <1>1
  <2> QED
    BY <1>1, <1>2, <2>1
<1>4. Before(u, v)
  BY <1>2, <1>3 DEF Before, Range
<1> QED
  BY <1>4 DEF u, v

LEMMA SuffixOfSuffix ==
  ASSUME NEW S, NEW t \in Texts(S), NEW k \in 1 .. Len(t) + 1,
         NEW l \in 1 .. Len(From(t, k)) + 1
  PROVE  From(From(t, k), l) = From(t, k + l - 1) /\ k + l - 1 \in k .. Len(t) + 1
<1>1. Len(t) \in Nat
  BY DEF Texts
<1> DEFINE u == From(t, k)
           v == From(u, l)
           w == From(t, k + l - 1)
<1>2. /\ u \in Texts(S) /\ Len(u) = Len(t) - k + 1
      /\ \A i \in 1 .. Len(t) - k + 1 : u[i] = t[k + i - 1]
  BY SuffixIs
<1>3. k + l - 1 \in k .. Len(t) + 1 /\ k + l - 1 \in 1 .. Len(t) + 1
  BY <1>1, <1>2
<1>4. /\ v \in Texts(S) /\ Len(v) = Len(u) - l + 1
      /\ \A i \in 1 .. Len(u) - l + 1 : v[i] = u[l + i - 1]
  BY <1>2, SuffixIs
<1>5. /\ w \in Texts(S) /\ Len(w) = Len(t) - (k + l - 1) + 1
      /\ \A i \in 1 .. Len(t) - (k + l - 1) + 1 : w[i] = t[(k + l - 1) + i - 1]
  BY <1>3, SuffixIs
<1> HIDE DEF u, v, w
<1>6. Len(v) = Len(w) /\ Len(v) = Len(t) - k - l + 2
  BY <1>1, <1>2, <1>4, <1>5
<1>7. ASSUME NEW i \in 1 .. Len(v) PROVE v[i] = w[i]
  <2>1. i \in 1 .. Len(u) - l + 1 /\ l + i - 1 \in 1 .. Len(t) - k + 1
        /\ i \in 1 .. Len(t) - (k + l - 1) + 1
        /\ k + (l + i - 1) - 1 = (k + l - 1) + i - 1
    BY <1>1, <1>2, <1>6, l \in 1 .. Len(u) + 1 DEF u
  <2>2. v[i] = u[l + i - 1] /\ u[l + i - 1] = t[k + (l + i - 1) - 1]
    BY <1>2, <1>4, <2>1
  <2>3. w[i] = t[(k + l - 1) + i - 1]
    BY <1>5, <2>1
  <2> QED
    BY <2>1, <2>2, <2>3
<1>8. v \in Seq(S) /\ w \in Seq(S)
  BY <1>4, <1>5 DEF Texts
<1>9. v = w
  BY <1>6, <1>7, <1>8, SeqEqual
<1> QED
  BY <1>3, <1>9 DEF u, v, w

LEMMA WholeText ==
  ASSUME NEW S, NEW t \in Texts(S)
  PROVE  /\ From(t, 1) = t
         /\ From(t, Len(t) + 1) = <<>>
         /\ t = <<>> <=> Len(t) = 0
         /\ t # <<>> => Tail(t) = From(t, 2) /\ 2 \in 1 .. Len(t) + 1
<1>1. t \in Seq(S) /\ Len(t) \in Nat
  BY DEF Texts
<1>2. From(t, 1) = t
  BY <1>1 DEF From
<1>3. From(t, Len(t) + 1) = <<>>
  BY <1>1 DEF From
<1>4. t = <<>> <=> Len(t) = 0
  BY <1>1
<1>5. ASSUME t # <<>> PROVE Tail(t) = From(t, 2) /\ 2 \in 1 .. Len(t) + 1
  BY <1>1, <1>5 DEF From
<1> QED
  BY <1>2, <1>3, <1>4, <1>5

LEMMA PlacesIn ==
  ASSUME NEW S, NEW t \in Texts(S), NEW ks
  PROVE  /\ Len(t) \in Nat
         /\ Places(t, ks) \in SUBSET (1 .. Len(t)) /\ Others(t, ks) \in SUBSET (1 .. Len(t))
         /\ Places(t, ks) # {} => /\ Min(Places(t, ks)) \in Places(t, ks)
                                  /\ Max(Places(t, ks)) \in Places(t, ks)
         /\ Others(t, ks) # {} => /\ Min(Others(t, ks)) \in Others(t, ks)
                                  /\ Max(Others(t, ks)) \in Others(t, ks)
                                  /\ \A i \in Others(t, ks) : Min(Others(t, ks)) <= i
<1>1. Len(t) \in Nat /\ DOMAIN t = 1 .. Len(t)
  BY DEF Texts
<1>2. Places(t, ks) \in SUBSET (1 .. Len(t)) /\ Others(t, ks) \in SUBSET (1 .. Len(t))
  BY <1>1 DEF Places, Others
<1>3. SUBSET (1 .. Len(t)) \subseteq SUBSET Nat
  OBVIOUS
<1> QED
  BY <1>1, <1>2, <1>3, MinOf, MaxOf

(* Dropping symbols at the front leaves a suffix.                           *)
LEMMA DropAllIs ==
  ASSUME NEW S, NEW t \in Texts(S), NEW ks
  PROVE  \E k \in 1 .. Len(t) + 1 :
           /\ DropAll(t, ks) = From(t, k)
           /\ \A i \in 1 .. k - 1 : Kind(t[i]) \in ks
           /\ k <= Len(t) => Kind(t[k]) \notin ks
<1>1. Len(t) \in Nat /\ DOMAIN t = 1 .. Len(t)
  BY DEF Texts
<1>2. CASE Others(t, ks) = {}
  <2>1. DropAll(t, ks) = From(t, Len(t) + 1)
    BY <1>2, WholeText DEF DropAll
  <2>2. \A i \in 1 .. Len(t) : Kind(t[i]) \in ks
    BY <1>1, <1>2 DEF Others
  <2>3. Len(t) + 1 \in 1 .. Len(t) + 1 /\ (Len(t) + 1) - 1 = Len(t) /\ ~(Len(t) + 1 <= Len(t))
    BY <1>1
  <2> QED
    BY <2>1, <2>2, <2>3
<1>3. CASE Others(t, ks) # {}
  <2> DEFINE k == Min(Others(t, ks))
  <2>1. k \in Others(t, ks) /\ \A i \in Others(t, ks) : k <= i
    BY <1>3, PlacesIn
  <2>2. DropAll(t, ks) = From(t, k)
    BY <1>3 DEF DropAll
  <2> HIDE DEF k
  <2>3. k \in 1 .. Len(t) /\ Kind(t[k]) \notin ks
    BY <1>1, <2>1 DEF Others
  <2>4. ASSUME NEW i \in 1 .. k - 1 PROVE Kind(t[i]) \in ks
    <3>1. i \in 1 .. Len(t) /\ ~(k <= i)
      BY <1>1, <2>3
    <3> QED
      BY <1>1, <2>1, <3>1 DEF Others
  <2>5. k \in 1 .. Len(t) + 1
    BY <1>1, <2>3
  <2> QED
    BY <2>2, <2>3, <2>4, <2>5
<1> QED
  BY <1>2, <1>3

LEMMA DropAllText ==
  ASSUME NEW S, NEW t \in Texts(S), NEW ks
  PROVE  DropAll(t, ks) \in Texts(S)
<1>1. PICK k \in 1 .. Len(t) + 1 : DropAll(t, ks) = From(t, k)
  BY DropAllIs
<1> QED
  BY <1>1, SuffixIs

LEMMA LeadBlankText ==
  ASSUME NEW S, NEW t \in Texts(S)
  PROVE  LeadBlank(t) \in Texts(S)
  BY DropAllText DEF LeadBlank

LEMMA LeadBlankFirst ==
  ASSUME NEW S, NEW t \in Texts(S), LeadBlank(t) # <<>>
  PROVE  Kind(LeadBlank(t)[1]) \notin Blank
<1>1. PICK k \in 1 .. Len(t) + 1 : /\ LeadBlank(t) = From(t, k)
                                   /\ k <= Len(t) => Kind(t[k]) \notin Blank
  BY DropAllIs DEF LeadBlank
<1>2. /\ From(t, k) \in Texts(S) /\ Len(From(t, k)) = Len(t) - k + 1
      /\ \A i \in 1 .. Len(t) - k + 1 : From(t, k)[i] = t[k + i - 1]
  BY SuffixIs
<1>3. Len(From(t, k)) # 0
  BY <1>1, <1>2, WholeText
<1>4. Len(t) \in Nat
  BY DEF Texts
<1>5. k <= Len(t) /\ 1 \in 1 .. Len(t) - k + 1 /\ k + 1 - 1 = k
  BY <1>2, <1>3, <1>4
<1>6. From(t, k)[1] = t[k]
  BY <1>2, <1>5
<1> QED
  BY <1>1, <1>5, <1>6

LEMMA LeadBlankTwice ==
  ASSUME NEW S, NEW t \in Texts(S)
  PROVE  LeadBlank(LeadBlank(t)) = LeadBlank(t)
<1> DEFINE s == LeadBlank(t)
<1>1. s \in Texts(S) /\ (s # <<>> => Kind(s[1]) \notin Blank)
  BY LeadBlankText, LeadBlankFirst
<1> HIDE DEF s
<1>2. PICK l \in 1 .. Len(s) + 1 : /\ LeadBlank(s) = From(s, l)
                                   /\ \A i \in 1 .. l - 1 : Kind(s[i]) \in Blank
  BY <1>1, DropAllIs DEF LeadBlank
<1>3. Len(s) \in Nat
  BY <1>1 DEF Texts
<1>4. l = 1
  <2> SUFFICES ASSUME l # 1 PROVE FALSE
    OBVIOUS
  <2>1. 1 \in 1 .. l - 1 /\ Len(s) # 0
    BY <1>3
  <2> QED
    BY <1>1, <1>2, <2>1, WholeText
<1>5. LeadBlank(s) = s
  BY <1>1, <1>2, <1>4, WholeText
<1> QED
  BY <1>5 DEF s

(* A word is not among what is dropped in front of it.                      *)
LEMMA WordStays ==
  ASSUME NEW S, NEW t \in Texts(S), NEW k \in 1 .. Len(t) + 1, Has(t, {"word"}),
         \A i \in 1 .. k - 1 : Kind(t[i]) # "word"
  PROVE  Has(From(t, k), {"word"})
<1>1. Len(t) \in Nat /\ DOMAIN t = 1 .. Len(t)
  BY DEF Texts
<1>2. PICK j \in 1 .. Len(t) : Kind(t[j]) = "word"
  BY <1>1 DEF Has, Places
<1>3. j >= k
  BY <1>1, <1>2
<1>4. /\ From(t, k) \in Texts(S) /\ Len(From(t, k)) = Len(t) - k + 1
      /\ \A i \in 1 .. Len(t) - k + 1 : From(t, k)[i] = t[k + i - 1]
  BY SuffixIs
<1>5. j - k + 1 \in 1 .. Len(t) - k + 1 /\ k + (j - k + 1) - 1 = j
  BY <1>1, <1>3
<1>6. From(t, k)[j - k + 1] = t[j]
  BY <1>4, <1>5
<1>7. DOMAIN From(t, k) = 1 .. Len(t) - k + 1
  BY <1>4 DEF Texts
<1> QED
  BY <1>2, <1>5, <1>6, <1>7 DEF Has, Places

LEMMA WordBehind ==
  ASSUME NEW S, NEW t \in Texts(S), NEW ks, "word" \notin ks, Has(t, {"word"})
  PROVE  Has(DropAll(t, ks), {"word"})
<1>1. PICK k \in 1 .. Len(t) + 1 : /\ DropAll(t, ks) = From(t, k)
                                   /\ \A i \in 1 .. k - 1 : Kind(t[i]) \in ks
  BY DropAllIs
<1>2. \A i \in 1 .. k - 1 : Kind(t[i]) # "word"
  BY <1>1
<1> QED
  BY <1>1, <1>2, WordStays

LEMMA WordBehindBlank ==
  ASSUME NEW S, NEW t \in Texts(S), Has(t, {"word"})
  PROVE  Has(LeadBlank(t), {"word"})
<1>1. "word" \notin Blank
  BY DEF Blank
<1> QED
  BY <1>1, WordBehind DEF LeadBlank

(* One symbol and the blanks behind it.                                     *)
LEMMA DropLeadIs ==
  ASSUME NEW S, NEW t \in Texts(S), NEW ks
  PROVE  LET s == LeadBlank(t) IN
         IF s # <<>> /\ Kind(s[1]) \in ks
         THEN /\ DropLead(t, ks) = LeadBlank(Tail(s))
              /\ \E k \in 2 .. Len(s) + 1 : /\ DropLead(t, ks) = From(s, k)
                                            /\ \A i \in 2 .. k - 1 : Kind(s[i]) \in Blank
         ELSE DropLead(t, ks) = t
<1> DEFINE s == LeadBlank(t)
<1>1. s \in Texts(S)
  BY LeadBlankText
<1>2. ASSUME s # <<>> /\ Kind(s[1]) \in ks
      PROVE  /\ DropLead(t, ks) = LeadBlank(Tail(s))
             /\ \E k \in 2 .. Len(s) + 1 : /\ DropLead(t, ks) = From(s, k)
                                           /\ \A i \in 2 .. k - 1 : Kind(s[i]) \in Blank
  <2>1. DropLead(t, ks) = LeadBlank(Tail(s))
    BY <1>2 DEF DropLead
  <2> HIDE DEF s
  <2>2. Tail(s) = From(s, 2) /\ 2 \in 1 .. Len(s) + 1 /\ Len(s) \in Nat
    BY <1>1, <1>2, WholeText DEF Texts
  <2>3. /\ From(s, 2) \in Texts(S) /\ Len(From(s, 2)) = Len(s) - 2 + 1
        /\ \A i \in 1 .. Len(s) - 2 + 1 : From(s, 2)[i] = s[2 + i - 1]
    BY <1>1, <2>2, SuffixIs
  <2>4. PICK l \in 1 .. Len(From(s, 2)) + 1 :
          /\ LeadBlank(From(s, 2)) = From(From(s, 2), l)
          /\ \A i \in 1 .. l - 1 : Kind(From(s, 2)[i]) \in Blank
    BY <2>3, DropAllIs DEF LeadBlank
  <2>5. From(From(s, 2), l) = From(s, 2 + l - 1)
    BY <1>1, <2>2, SuffixOfSuffix
  <2>6. l + 1 \in 2 .. Len(s) + 1 /\ 2 + l - 1 = l + 1
    BY <2>2, <2>3
  <2>7. ASSUME NEW i \in 2 .. (l + 1) - 1 PROVE Kind(s[i]) \in Blank
    <3>1. i - 1 \in 1 .. l - 1 /\ i - 1 \in 1 .. Len(s) - 2 + 1 /\ 2 + (i - 1) - 1 = i
      BY <2>2, <2>3
    <3> QED
      BY <2>3, <2>4, <3>1
  <2> QED
    BY <2>1, <2>2, <2>4, <2>5, <2>6, <2>7
<1>3. ASSUME ~(s # <<>> /\ Kind(s[1]) \in ks)
      PROVE  DropLead(t, ks) = t
  BY <1>3 DEF DropLead
<1> QED
  BY <1>2, <1>3

(***************************** Leading fillers *****************************)

EndOf(s, lo) == {From(s, k) : k \in lo .. Len(s) + 1}

LEMMA EndOfEnd ==
  ASSUME NEW S, NEW s \in Texts(S), NEW lo \in {1, 2}, NEW u \in EndOf(s, lo), NEW ks
  PROVE  u \in Texts(S) /\ DropAll(u, ks) \in EndOf(s, lo) /\ LeadBlank(u) \in EndOf(s, lo)
<1>1. Len(s) \in Nat
  BY DEF Texts
<1>2. PICK k \in lo .. Len(s) + 1 : u = From(s, k)
  BY DEF EndOf
<1>3. k \in 1 .. Len(s) + 1
  BY <1>1
<1>4. u \in Texts(S)
  BY <1>2, <1>3, SuffixIs
<1>5. ASSUME NEW q PROVE DropAll(u, q) \in EndOf(s, lo)
  <2>1. PICK l \in 1 .. Len(u) + 1 : DropAll(u, q) = From(u, l)
    BY <1>4, DropAllIs
  <2>2. From(u, l) = From(s, k + l - 1) /\ k + l - 1 \in k .. Len(s) + 1
    BY <1>2, <1>3, <2>1, SuffixOfSuffix
  <2>3. k + l - 1 \in lo .. Len(s) + 1
    BY <1>1, <2>2
  <2> QED
    BY <2>1, <2>2, <2>3 DEF EndOf
<1> QED
  BY <1>4, <1>5 DEF LeadBlank

LEMMA WordIsSpeakable ==
  ASSUME NEW t, Has(t, {"word"})
  PROVE  IsSpeakable(t) /\ t # <<>>
<1>1. PICK i \in DOMAIN t : Kind(t[i]) = "word"
  BY DEF Has, Places
<1>2. "word" \notin Blank \cup {"end", "comma", "dots", "dash", "quote", "lbr", "rbr"}
  BY DEF Blank
<1>3. t # <<>>
  BY <1>1
<1> QED
  BY <1>1, <1>2, <1>3 DEF IsSpeakable

(* Dropping one filler goes past the first symbol, and past no word.        *)
LEMMA DropFillerIs ==
  ASSUME NEW S, NEW t \in Texts(S), LeadBlank(t) # <<>>, Kind(LeadBlank(t)[1]) = "filler"
  PROVE  /\ DropLead(t, {"filler"}) \in EndOf(LeadBlank(t), 2)
         /\ Has(t, {"word"}) => Has(DropLead(t, {"filler"}), {"word"})
<1> DEFINE s == LeadBlank(t)
<1>1. s \in Texts(S)
  BY LeadBlankText
<1>2. PICK k \in 2 .. Len(s) + 1 : /\ DropLead(t, {"filler"}) = From(s, k)
                                   /\ \A i \in 2 .. k - 1 : Kind(s[i]) \in Blank
  BY DropLeadIs
<1>3. ASSUME Has(t, {"word"}) PROVE Has(From(s, k), {"word"})
  <2>1. Has(s, {"word"}) /\ Kind(s[1]) = "filler"
    BY <1>3, WordBehindBlank
  <2> HIDE DEF s
  <2>2. \A i \in 1 .. k - 1 : i = 1 \/ i \in 2 .. k - 1
    BY <1>1 DEF Texts
  <2>3. \A i \in 1 .. k - 1 : Kind(s[i]) # "word"
    BY <1>2, <2>1, <2>2 DEF Blank
  <2>4. k \in 1 .. Len(s) + 1
    BY <1>1 DEF Texts
  <2> QED
    BY <1>1, <2>1, <2>3, <2>4, WordStays
<1> QED
  BY <1>2, <1>3 DEF EndOf

LEMMA HesitatesIs ==
  ASSUME NEW S, NEW t \in Texts(S), Hesitates(t)
  PROVE  LeadBlank(t) # <<>> /\ Kind(LeadBlank(t)[1]) = "filler"
<1> DEFINE s == LeadBlank(t)
<1>1. s \in Texts(S) /\ LeadBlank(s) = s
  BY LeadBlankText, LeadBlankTwice
<1>2. DropLead(s, {"filler"}) # s
  BY DEF Hesitates
<1> HIDE DEF s
<1>3. s # <<>> /\ Kind(s[1]) \in {"filler"}
  BY <1>1, <1>2, DropLeadIs
<1> QED
  BY <1>3 DEF s

(* What strip_leading_filler leaves does not hesitate, but if the text had  *)
(* more than the hesitation it took off.                                    *)
LEMMA StripLeadingFillerIs ==
  ASSUME NEW S, NEW t \in Texts(S)
  PROVE  /\ StripLeadingFiller(t) \in Texts(S)
         /\ Hesitates(StripLeadingFiller(t)) /\ Has(StripLeadingFiller(t), {"word"}) =>
              \E k \in 2 .. Len(LeadBlank(t)) : StripLeadingFiller(t) = From(LeadBlank(t), k)
<1> DEFINE s == LeadBlank(t)
           a == IF Hesitates(t) THEN DropLead(t, {"filler"}) ELSE t
           lo == IF Hesitates(t) THEN 2 ELSE 1
           out1 == LeadBlank(DropAll(LeadBlank(a), {"dots"}))
<1>1. s \in Texts(S) /\ LeadBlank(s) = s /\ Len(s) \in Nat
  BY LeadBlankText, LeadBlankTwice DEF Texts
<1>2. /\ a \in Texts(S) /\ LeadBlank(a) \in EndOf(s, lo) /\ lo \in {1, 2}
      /\ Has(t, {"word"}) => Has(a, {"word"})
  <2>1. CASE Hesitates(t)
    <3>1. LeadBlank(t) # <<>> /\ Kind(LeadBlank(t)[1]) = "filler"
      BY <2>1, HesitatesIs
    <3>2. a \in EndOf(s, 2) /\ (Has(t, {"word"}) => Has(a, {"word"})) /\ lo = 2
      BY <2>1, <3>1, DropFillerIs
    <3> HIDE DEF s, a, lo
    <3>3. a \in Texts(S) /\ LeadBlank(a) \in EndOf(s, 2)
      BY <1>1, <3>2, EndOfEnd
    <3> QED
      BY <3>2, <3>3
  <2>2. CASE ~Hesitates(t)
    <3>1. a = t /\ lo = 1
      BY <2>2
    <3>2. s = From(s, 1) /\ 1 \in 1 .. Len(s) + 1
      BY <1>1, WholeText
    <3>3. s \in EndOf(s, 1)
      BY <3>2 DEF EndOf
    <3> QED
      BY <3>1, <3>3
  <2> QED
    BY <2>1, <2>2
<1> HIDE DEF lo, a
<1>3. out1 \in EndOf(s, lo) /\ out1 \in Texts(S)
  <2> HIDE DEF s
  <2>1. DropAll(LeadBlank(a), {"dots"}) \in EndOf(s, lo)
    BY <1>1, <1>2, EndOfEnd
  <2>2. LeadBlank(DropAll(LeadBlank(a), {"dots"})) \in EndOf(s, lo)
    BY <1>1, <1>2, <2>1, EndOfEnd
  <2> QED
    BY <1>1, <1>2, <2>2, EndOfEnd
<1>4. Has(t, {"word"}) => IsSpeakable(out1)
  <2> SUFFICES ASSUME Has(t, {"word"}) PROVE IsSpeakable(out1)
    OBVIOUS
  <2>1. Has(LeadBlank(a), {"word"}) /\ LeadBlank(a) \in Texts(S)
    BY <1>2, WordBehindBlank, LeadBlankText
  <2>2. /\ Has(DropAll(LeadBlank(a), {"dots"}), {"word"})
        /\ DropAll(LeadBlank(a), {"dots"}) \in Texts(S)
    BY <2>1, WordBehind, DropAllText
  <2>3. Has(out1, {"word"})
    BY <2>2, WordBehindBlank
  <2> QED
    BY <2>3, WordIsSpeakable
<1>5. StripLeadingFiller(t) = IF IsSpeakable(out1) THEN out1 ELSE t
  BY DEF StripLeadingFiller, a
<1> HIDE DEF out1
<1>6. CASE ~IsSpeakable(out1)
  BY <1>4, <1>5, <1>6
<1>7. CASE IsSpeakable(out1)
  <2>1. StripLeadingFiller(t) = out1
    BY <1>5, <1>7
  <2>2. ASSUME Hesitates(out1), Has(out1, {"word"})
        PROVE  \E k \in 2 .. Len(s) : out1 = From(s, k)
    <3>1. PICK k \in lo .. Len(s) + 1 : out1 = From(s, k)
      BY <1>3 DEF EndOf
    <3>2. k # Len(s) + 1
      BY <1>1, <2>2, <3>1, WordIsSpeakable, WholeText
    <3>3. k # 1
      <4> SUFFICES ASSUME k = 1 PROVE FALSE
        OBVIOUS
      <4>1. out1 = s /\ lo = 1
        BY <1>1, <1>2, <3>1, WholeText
      <4>2. Hesitates(t)
        BY <1>1, <2>2, <4>1 DEF Hesitates
      <4> QED
        BY <4>1, <4>2 DEF lo
    <3>4. k \in 2 .. Len(s)
      BY <1>1, <1>2, <3>2, <3>3
    <3> QED
      BY <3>1, <3>4
  <2> QED
    BY <1>3, <2>1, <2>2
<1> QED
  BY <1>6, <1>7

LEMMA KeepOneFillerText ==
  ASSUME NEW S, S \subseteq Symbols, NEW t \in Texts(S)
  PROVE  /\ KeepOneFiller(t)[1] \in Texts(S)
         /\ ~KeepOneFiller(t)[2] => KeepOneFiller(t)[1] = StripLeadingFiller(t)
<1>1. \A P : Without(LeadBlank(t), P) \in Texts(S)
  BY LeadBlankText, WithoutText
<1>2. StripLeadingFiller(t) \in Texts(S)
  BY StripLeadingFillerIs
<1> QED
  BY <1>1, <1>2 DEF KeepOneFiller

(************************* The inductive invariant *************************)

Arrived == Range(UpTo(text, got))

(* What the message walk will still pass on of its line: after the line     *)
(* itself went out, its break and what is behind it.                        *)
Coming == IF mpc \in {"advance", "break"} THEN From(buf, Min(LineEnds)) ELSE buf

(* The line comes after what the sentence walk holds.                       *)
WalkInv ==
  /\ text \in Replies /\ got \in 0 .. Len(text) /\ index \in Nat
  /\ buf \in Texts(Arrived) /\ sbuf \in Texts(Arrived)
  /\ mpc \in {"advance", "break"} => LineEnds # {}
  /\ Before(sbuf, Coming)

Sentence == [message : 0 .. index, piece : Texts(Arrived), said : Texts(Arrived)]

(* What was said is in order, and until the tail is said all that is held   *)
(* comes after it.                                                          *)
SaidInv ==
  /\ out \in Seq(Sentence)
  /\ ended # "clean" => \A i \in DOMAIN out : /\ Before(out[i].said, sbuf)
                                              /\ Before(out[i].said, Coming)
  /\ \A i, j \in DOMAIN out : i < j => /\ out[i].message <= out[j].message
                                       /\ Before(out[i].said, out[j].said)

(* A message with a hesitation has spent its filler.                        *)
Opens(s) == Hesitates(s.said) /\ Has(s.said, {"word"})
Shortened(s) == \E k \in 2 .. Len(LeadBlank(s.piece)) : s.said = From(LeadBlank(s.piece), k)
Counted == {i \in DOMAIN out : Opens(out[i]) /\ ~Shortened(out[i])}
FillerInv ==
  /\ spent \subseteq 0 .. index
  /\ \A i \in Counted : KeepOne /\ out[i].message \in spent
  /\ \A i, j \in Counted : out[i].message = out[j].message => i = j

(* In a fence no more is held than may grow into its end.                   *)
StateInv ==
  /\ {midline, emitted, line_open, in_fence} \subseteq BOOLEAN
  /\ mpc \in {"scan", "advance", "break", "end"}
  /\ spc \in {"await", "scan"} /\ ended \in {"no", "clean", "failed"}
  /\ Asking /\ in_fence => Len(sbuf) < Fence

IInv == WalkInv /\ SaidInv /\ FillerInv /\ StateInv

(******************************* One sentence ******************************)

LEMMA StageText ==
  ASSUME NEW S, S \subseteq Symbols, NEW t \in Texts(S)
  PROVE  StripStageDirections(t) \in Texts(S)
<1>1. ASSUME NEW u \in Texts(S) PROVE Trim(u) \in Texts(S)
  <2>1. CASE Others(u, Blank) = {}
    BY <2>1, EmptyText DEF Trim
  <2>2. CASE Others(u, Blank) # {}
    <3> DEFINE a == Min(Others(u, Blank))
               b == Max(Others(u, Blank))
    <3>1. a \in 1 .. Len(u) /\ b \in 1 .. Len(u) /\ Len(u) \in Nat
      BY <2>2, PlacesIn
    <3>2. Trim(u) = SubSeq(u, a, b)
      BY <2>2 DEF Trim
    <3> HIDE DEF a, b
    <3>3. a \in Nat \ {0} /\ b \in Int /\ b <= Len(u)
      BY <3>1
    <3> QED
      BY <3>2, <3>3, PartOf
  <2> QED
    BY <2>1, <2>2
<1>2. ASSUME NEW u \in Texts(S) PROVE DropUnclosed(u) \in Texts(S)
  <2> DEFINE k == Max(Places(u, {"lbr"}))
  <2>1. CASE DropUnclosed(u) = u
    BY <1>2, <2>1
  <2>2. CASE DropUnclosed(u) # u
    <3>1. Places(u, {"lbr"}) # {} /\ DropUnclosed(u) = UpTo(u, k - 1)
      BY <2>2 DEF DropUnclosed
    <3>2. k \in 1 .. Len(u) /\ Len(u) \in Nat
      BY <1>2, <3>1, PlacesIn
    <3> HIDE DEF k
    <3>3. k - 1 \in 0 .. Len(u)
      BY <3>2
    <3> QED
      BY <1>2, <3>1, <3>3, PrefixText
  <2> QED
    BY <2>1, <2>2
<1>3. ASSUME NEW u \in Texts(S)
      PROVE  DropBrackets(u) \in Texts(S) /\ DropEmphases(u) \in Texts(S)
  BY <1>3, WithoutText DEF DropBrackets, DropEmphases, WithoutSpans
<1>4. DropUnclosed(DropEmphases(DropBrackets(t))) \in Texts(S)
  BY <1>2, <1>3
<1> QED
  BY <1>1, <1>4, DropAllText DEF StripStageDirections

LEMMA ReasoningText ==
  ASSUME NEW S, NEW t \in Texts(S)
  PROVE  StripReasoning(t) \in Texts(S)
<1>1. CASE Has(t, {"unthink"})
  <2> DEFINE k == Min(Places(t, {"unthink"}))
  <2>1. k \in 1 .. Len(t) /\ Len(t) \in Nat
    BY <1>1, PlacesIn DEF Has
  <2>2. StripReasoning(t) = From(t, k + 1)
    BY <1>1 DEF StripReasoning
  <2> HIDE DEF k
  <2>3. k + 1 \in 1 .. Len(t) + 1
    BY <2>1
  <2> QED
    BY <2>2, <2>3, SuffixIs
<1>2. CASE ~Has(t, {"unthink"}) /\ Has(t, {"think"})
  <2> DEFINE k == Min(Places(t, {"think"}))
  <2>1. k \in 1 .. Len(t) /\ Len(t) \in Nat
    BY <1>2, PlacesIn DEF Has
  <2>2. StripReasoning(t) = UpTo(t, k - 1)
    BY <1>2 DEF StripReasoning
  <2> HIDE DEF k
  <2>3. k - 1 \in 0 .. Len(t)
    BY <2>1
  <2> QED
    BY <2>2, <2>3, PrefixText
<1>3. CASE ~Has(t, {"unthink"}) /\ ~Has(t, {"think"})
  BY <1>3 DEF StripReasoning
<1> QED
  BY <1>1, <1>2, <1>3

(* Cleaning a piece leaves a text of its symbols.                           *)
LEMMA CleanText ==
  ASSUME NEW S, S \subseteq Symbols, NEW t \in Texts(S)
  PROVE  CleanPiece(t) \in Texts(S)
<1> DEFINE a == StripReasoning(t)
           b == StripDataObjects(a)
           c == CutOpenObject(b)
           d == StripStageDirections(c)
<1>1. a \in Texts(S)
  BY ReasoningText
<1>2. b \in Texts(S)
  <2> HIDE DEF a
  <2> QED
    BY <1>1, WithoutText DEF StripDataObjects
<1>3. c \in Texts(S)
  <2> HIDE DEF a, b
  <2>1. \A P : Without(b, P) \in Texts(S)
    BY <1>2, WithoutText
  <2> QED
    BY <2>1 DEF CutOpenObject
<1>4. d \in Texts(S)
  <2> HIDE DEF a, b, c
  <2> QED
    BY <1>3, StageText
<1>5. CleanPiece(t) = LET said == IF KeepOne THEN d ELSE StripLeadingFiller(d)
                      IN IF IsSpeakable(said) THEN said ELSE <<>>
  BY DEF CleanPiece
<1> HIDE DEF d
<1>6. StripLeadingFiller(d) \in Texts(S) /\ <<>> \in Texts(S)
  BY <1>4, StripLeadingFillerIs, EmptyText
<1> QED
  BY <1>4, <1>5, <1>6

(* What the sentence of a piece is.                                         *)
LEMMA SentenceIs ==
  ASSUME NEW S, S \subseteq Symbols, NEW t \in Texts(S), Say(t)
  PROVE  \/ out' = out /\ spent' = spent
         \/ \E s \in [message : {index}, piece : Texts(S), said : Texts(S)] :
              /\ out' = Append(out, s)
              /\ \/ spent' = spent /\ (~Opens(s) \/ Shortened(s))
                 \/ KeepOne /\ index \notin spent /\ spent' = spent \cup {index}
<1> DEFINE c == CleanPiece(t)
<1>1. c \in Texts(S)
  BY CleanText
<1>2. CASE c = <<>>
  BY <1>2 DEF Say
<1>3. CASE c # <<>>
  <2> DEFINE s == [message |-> index, piece |-> c, said |-> Budget(c)[1]]
  <2>1. out' = Append(out, s) /\ spent' = IF Budget(c)[2] THEN spent \cup {index} ELSE spent
    BY <1>3 DEF Say
  <2> HIDE DEF c
  <2>2. /\ StripLeadingFiller(c) \in Texts(S) /\ KeepOneFiller(c)[1] \in Texts(S)
        /\ ~KeepOneFiller(c)[2] => KeepOneFiller(c)[1] = StripLeadingFiller(c)
    BY <1>1, StripLeadingFillerIs, KeepOneFillerText
  <2>3. Budget(c)[1] \in Texts(S)
    BY <2>2 DEF Budget
  <2>4. /\ s \in [message : {index}, piece : Texts(S), said : Texts(S)]
        /\ s.said = Budget(c)[1] /\ s.piece = c
    BY <1>1, <2>3
  <2> HIDE DEF s
  <2>5. Budget(c)[1] = StripLeadingFiller(c) => ~Opens(s) \/ Shortened(s)
    BY <1>1, <2>4, StripLeadingFillerIs DEF Opens, Shortened
  <2>6. CASE ~KeepOne \/ index \in spent
    <3>1. Budget(c)[1] = StripLeadingFiller(c) /\ ~Budget(c)[2]
      BY <2>6 DEF Budget
    <3> QED
      BY <2>1, <2>4, <2>5, <3>1
  <2>7. CASE KeepOne /\ index \notin spent
    <3>1. Budget(c) = KeepOneFiller(c)
      BY <2>7 DEF Budget
    <3>2. CASE KeepOneFiller(c)[2]
      BY <2>1, <2>4, <2>7, <3>1, <3>2
    <3>3. CASE ~KeepOneFiller(c)[2]
      BY <2>1, <2>2, <2>4, <2>5, <3>1, <3>3
    <3> QED
      BY <3>2, <3>3
  <2> QED
    BY <2>6, <2>7
<1> QED
  BY <1>2, <1>3

(************************** What every step keeps **************************)

LEMMA ArrivedIs ==
  ASSUME WalkInv
  PROVE  /\ text \in Texts(Symbols) /\ Len(text) \in Nat /\ got \in 0 .. Len(text)
         /\ Arrived \subseteq Symbols
         /\ \A c \in Arrived : c[2] \in 1 .. got
         /\ \A i \in 1 .. got : text[i] \in Arrived
         /\ \A i \in 1 .. Len(text) : text[i] \in Symbols /\ text[i][2] = i
<1>1. text \in Seq(Symbols) /\ DOMAIN text = 1 .. Len(text) /\ Len(text) \in Nat
      /\ got \in 0 .. Len(text) /\ \A i \in 1 .. Len(text) : text[i][2] = i
  BY ReplyAssumption DEF WalkInv, Symbols
<1>2. Rising(text)
  BY <1>1 DEF Rising
<1>3. text \in Texts(Symbols)
  BY <1>1, <1>2 DEF Texts
<1>4. UpTo(text, got) \in Texts(Symbols) /\ Len(UpTo(text, got)) = got
      /\ \A i \in 1 .. got : UpTo(text, got)[i] = text[i]
  BY <1>1, <1>3, PrefixText
<1>5. DOMAIN UpTo(text, got) = 1 .. got
  BY <1>4 DEF Texts
<1>6. Arrived = {text[i] : i \in 1 .. got}
  BY <1>4, <1>5 DEF Arrived, Range
<1>7. \A i \in 1 .. got : i \in 1 .. Len(text)
  BY <1>1
<1>8. \A i \in 1 .. Len(text) : text[i] \in Symbols
  BY <1>1
<1> QED
  BY <1>1, <1>3, <1>6, <1>7, <1>8

LEMMA ComingIs ==
  ASSUME WalkInv
  PROVE  Coming \in Texts(Range(buf)) /\ Range(Coming) \subseteq Range(buf) /\ buf \in Texts(Range(buf))
<1>1. buf \in Texts(Range(buf)) /\ Len(buf) \in Nat
  BY TextOwn DEF WalkInv, Texts
<1>2. CASE mpc \in {"advance", "break"}
  <2> DEFINE m == Min(LineEnds)
  <2>1. LineEnds # {} /\ Coming = From(buf, m)
    BY <1>2 DEF WalkInv, Coming
  <2>2. m \in 1 .. Len(buf)
    BY <1>1, <2>1, PlacesIn DEF LineEnds
  <2> HIDE DEF m
  <2>3. m \in 1 .. Len(buf) + 1
    BY <1>1, <2>2
  <2>4. Coming \in Texts(Range(buf))
    BY <1>1, <2>1, <2>3, SuffixIs
  <2> QED
    BY <1>1, <2>4, TextOwn
<1>3. CASE mpc \notin {"advance", "break"}
  BY <1>1, <1>3 DEF Coming
<1> QED
  BY <1>2, <1>3

(* A step that says nothing keeps the order of what was said, if what is    *)
(* held afterwards was held before, or has only now arrived.                *)
LEMMA QuietStep ==
  ASSUME IInv, out' = out, spent' = spent, Arrived \subseteq Arrived',
         index' \in Nat, index <= index', ended # "clean",
         \A d \in Range(sbuf') \cup Range(Coming') :
           \/ d \in Range(sbuf) \cup Range(Coming)
           \/ d[2] > got /\ d[2] \in Nat
  PROVE  SaidInv' /\ FillerInv'
<1>1. /\ out \in Seq(Sentence) /\ index \in Nat /\ WalkInv
      /\ \A i \in DOMAIN out : Before(out[i].said, sbuf) /\ Before(out[i].said, Coming)
      /\ \A i, j \in DOMAIN out : i < j => /\ out[i].message <= out[j].message
                                           /\ Before(out[i].said, out[j].said)
  BY DEF IInv, SaidInv, WalkInv
<1>2. Sentence \subseteq Sentence'
  <2>1. \A t \in Texts(Arrived) : t \in Texts(Arrived')
    BY TextWider
  <2>2. 0 .. index \subseteq 0 .. index'
    BY <1>1
  <2> QED
    BY <2>1, <2>2 DEF Sentence
<1>3. out \in Seq(Sentence')
  BY <1>1, <1>2
<1>4. ASSUME NEW i \in DOMAIN out
      PROVE  Before(out[i].said, sbuf') /\ Before(out[i].said, Coming')
  <2>1. out[i].said \in Texts(Arrived)
    <3>1. out[i] \in Sentence
      BY <1>1
    <3> QED
      BY <3>1 DEF Sentence
  <2>2. \A c \in Range(out[i].said) : c[2] \in 1 .. got
    BY <1>1, <2>1, TextOwn, ArrivedIs
  <2>3. got \in Nat
    BY <1>1, ArrivedIs
  <2>4. ASSUME NEW c \in Range(out[i].said), NEW d \in Range(sbuf') \cup Range(Coming')
        PROVE  c[2] < d[2]
    <3>1. CASE d \in Range(sbuf) \cup Range(Coming)
      BY <1>1, <3>1 DEF Before
    <3>2. CASE d[2] > got /\ d[2] \in Nat
      BY <2>2, <2>3, <3>2
    <3> QED
      BY <3>1, <3>2
  <2> QED
    BY <2>4 DEF Before
<1>5. SaidInv'
  BY <1>1, <1>3, <1>4 DEF SaidInv
<1>6. Counted' = Counted
  BY DEF Counted
<1>7. FillerInv'
  <2>1. 0 .. index \subseteq 0 .. index'
    BY <1>1
  <2> QED
    BY <1>6, <2>1 DEF IInv, FillerInv
<1> QED
  BY <1>5, <1>7

(* A sentence is said: a front of what was held.                            *)
LEMMA SayStep ==
  ASSUME IInv, NEW p \in Texts(Arrived), Say(p), Range(p) \subseteq Range(sbuf),
         Arrived' = Arrived, index' = index, ended # "clean",
         Range(sbuf') \subseteq Range(sbuf), Range(Coming') \subseteq Range(Coming),
         ended' # "clean" => Before(p, sbuf')
  PROVE  SaidInv' /\ FillerInv'
<1>1. /\ out \in Seq(Sentence) /\ index \in Nat /\ WalkInv /\ Before(sbuf, Coming)
      /\ \A i \in DOMAIN out : Before(out[i].said, sbuf) /\ Before(out[i].said, Coming)
      /\ \A i, j \in DOMAIN out : i < j => /\ out[i].message <= out[j].message
                                           /\ Before(out[i].said, out[j].said)
  BY DEF IInv, SaidInv, WalkInv
<1>2. CASE out' = out /\ spent' = spent
  <2>1. index' \in Nat /\ index <= index' /\ Arrived \subseteq Arrived'
    BY <1>1
  <2>2. \A d \in Range(sbuf') \cup Range(Coming') : d \in Range(sbuf) \cup Range(Coming)
    OBVIOUS
  <2> QED
    BY <1>2, <2>1, <2>2, QuietStep
<1>3. ASSUME NEW s \in [message : {index}, piece : Texts(Range(p)), said : Texts(Range(p))],
             out' = Append(out, s),
             \/ spent' = spent /\ (~Opens(s) \/ Shortened(s))
             \/ KeepOne /\ index \notin spent /\ spent' = spent \cup {index}
      PROVE  SaidInv' /\ FillerInv'
  <2> DEFINE n == Len(out)
  <2>1. s.message = index /\ s.said \in Texts(Range(p)) /\ s.piece \in Texts(Range(p))
    BY <1>3
  <2>2. Range(s.said) \subseteq Range(p)
    BY <2>1, TextOwn
  <2>3. Range(p) \subseteq Arrived
    BY TextOwn
  <2>4. s \in Sentence
    <3>1. s.said \in Texts(Arrived) /\ s.piece \in Texts(Arrived)
      BY <2>1, <2>3, TextWider
    <3>2. s = [message |-> s.message, piece |-> s.piece, said |-> s.said] /\ index \in 0 .. index
      BY <1>1, <1>3
    <3> QED
      BY <2>1, <3>1, <3>2 DEF Sentence
  <2>5. Sentence' = Sentence
    BY DEF Sentence
  <2>6. /\ n \in Nat /\ DOMAIN out = 1 .. n /\ out' \in Seq(Sentence) /\ DOMAIN out' = 1 .. n + 1
        /\ \A i \in 1 .. n : out'[i] = out[i]
        /\ out'[n + 1] = s
    BY <1>1, <1>3, <2>4
  <2> HIDE DEF n
  <2>7. \A i \in 1 .. n + 1 : i \in 1 .. n \/ i = n + 1
    BY <2>6
  <2>8. \A i \in 1 .. n : /\ out[i].message \in 0 .. index
                          /\ Before(out[i].said, s.said)
    <3>1. \A i \in 1 .. n : out[i] \in Sentence
      BY <1>1, <2>6
    <3> QED
      BY <1>1, <2>2, <2>6, <3>1 DEF Before, Sentence
  <2>9. ended' # "clean" => Before(s.said, sbuf') /\ Before(s.said, Coming')
    BY <1>1, <2>2 DEF Before
  <2>10. \A i \in 1 .. n : Before(out[i].said, sbuf') /\ Before(out[i].said, Coming')
    BY <1>1, <2>6 DEF Before
  <2>11. ASSUME NEW i \in 1 .. n + 1, NEW j \in 1 .. n + 1, i < j
         PROVE  out'[i].message <= out'[j].message /\ Before(out'[i].said, out'[j].said)
    <3>1. i \in 1 .. n
      BY <2>6, <2>11
    <3>2. CASE j \in 1 .. n
      BY <1>1, <2>6, <2>11, <3>1, <3>2
    <3>3. CASE j = n + 1
      BY <1>1, <2>1, <2>6, <2>8, <3>1, <3>3
    <3> QED
      BY <2>7, <3>2, <3>3
  <2>12. SaidInv'
    BY <2>5, <2>6, <2>7, <2>9, <2>10, <2>11 DEF SaidInv
  <2>13. /\ spent \subseteq 0 .. index
         /\ \A i \in Counted : KeepOne /\ out[i].message \in spent
         /\ \A i, j \in Counted : out[i].message = out[j].message => i = j
    BY DEF IInv, FillerInv
  <2>14. /\ Counted' \subseteq Counted \cup {n + 1}
         /\ n + 1 \in Counted' => Opens(s) /\ ~Shortened(s)
         /\ \A i \in Counted : i \in 1 .. n
    BY <2>6, <2>7 DEF Counted
  <2>15. spent' \subseteq 0 .. index' /\ spent \subseteq spent'
    <3>1. index \in 0 .. index /\ 0 .. index' = 0 .. index
      BY <1>1
    <3>2. spent' = spent \/ spent' = spent \cup {index}
      BY <1>3
    <3> QED
      BY <2>13, <3>1, <3>2
  <2>16. ASSUME n + 1 \in Counted'
         PROVE  KeepOne /\ index \notin spent /\ index \in spent'
    BY <1>3, <2>14, <2>16
  <2>17. \A i \in Counted' : KeepOne /\ out'[i].message \in spent'
    BY <2>1, <2>6, <2>13, <2>14, <2>15, <2>16
  <2>18. ASSUME NEW i \in Counted', NEW j \in Counted', out'[i].message = out'[j].message
         PROVE  i = j
    <3>1. CASE i \in Counted /\ j \in Counted
      BY <2>6, <2>13, <2>14, <2>18, <3>1
    <3>2. CASE i = n + 1 /\ j \in Counted
      BY <2>1, <2>6, <2>13, <2>14, <2>16, <2>18, <3>2
    <3>3. CASE i \in Counted /\ j = n + 1
      BY <2>1, <2>6, <2>13, <2>14, <2>16, <2>18, <3>3
    <3> QED
      BY <2>14, <3>1, <3>2, <3>3
  <2>19. FillerInv'
    BY <2>15, <2>17, <2>18 DEF FillerInv
  <2> QED
    BY <2>12, <2>19
<1>4. p \in Texts(Range(p)) /\ Range(p) \subseteq Symbols
  BY <1>1, TextOwn, ArrivedIs
<1> QED
  BY <1>2, <1>3, <1>4, SentenceIs

(* A piece goes to the sentence walk, behind what it holds.                 *)
LEMMA PassStep ==
  ASSUME IInv, NEW p \in Texts(Range(Coming)), Pass(p), text' = text, got' = got,
         buf' \in Texts(Range(buf)), mpc' \in {"advance", "break"} => LineEnds' # {},
         Range(Coming') \subseteq Range(Coming), Before(p, Coming'),
         index' \in Nat, index <= index', ended # "clean"
  PROVE  WalkInv' /\ SaidInv' /\ FillerInv'
<1>1. /\ WalkInv /\ Before(sbuf, Coming) /\ sbuf \in Texts(Arrived) /\ buf \in Texts(Arrived)
      /\ text \in Replies /\ got \in 0 .. Len(text)
  BY DEF IInv, WalkInv
<1>2. Arrived' = Arrived /\ Arrived \subseteq Symbols
  BY <1>1, ArrivedIs DEF Arrived
<1>3. /\ Range(Coming) \subseteq Range(buf) /\ Range(buf) \subseteq Arrived
      /\ Range(p) \subseteq Range(Coming) /\ p \in Texts(Arrived)
  <2>1. Range(Coming) \subseteq Range(buf) /\ Range(buf) \subseteq Arrived
    BY <1>1, ComingIs, TextOwn
  <2>2. Range(p) \subseteq Range(Coming)
    BY TextOwn
  <2> QED
    BY <2>1, <2>2, TextWider
<1>4. buf' \in Texts(Arrived)
  BY <1>3, TextWider
<1>5. sbuf' = sbuf \o p /\ out' = out /\ spent' = spent
  BY DEF Pass
<1>6. Before(sbuf, p)
  BY <1>1, <1>3 DEF Before
<1>7. sbuf' \in Texts(Arrived) /\ Range(sbuf') = Range(sbuf) \cup Range(p)
  BY <1>1, <1>2, <1>3, <1>5, <1>6, Joined
<1>8. Before(sbuf', Coming')
  BY <1>1, <1>7 DEF Before
<1>9. WalkInv'
  BY <1>1, <1>2, <1>4, <1>7, <1>8 DEF WalkInv
<1>10. \A d \in Range(sbuf') \cup Range(Coming') : d \in Range(sbuf) \cup Range(Coming)
  BY <1>3, <1>7
<1>11. SaidInv' /\ FillerInv'
  BY <1>2, <1>5, <1>10, QuietStep
<1> QED
  BY <1>9, <1>11

(* The sentence walk only takes from what it holds.                         *)
LEMMA CutWalk ==
  ASSUME WalkInv, UNCHANGED <<text, got, walkVars>>, sbuf' \in Texts(Range(sbuf))
  PROVE  /\ WalkInv' /\ Coming' = Coming /\ Arrived' = Arrived /\ index' = index
         /\ Range(sbuf') \subseteq Range(sbuf) /\ index' \in Nat /\ index <= index'
         /\ sbuf \in Texts(Arrived) /\ sbuf \in Texts(Range(sbuf)) /\ Range(sbuf) \subseteq Symbols
<1>1. /\ text' = text /\ got' = got /\ buf' = buf /\ index' = index /\ mpc' = mpc
  BY DEF walkVars
<1>2. Arrived' = Arrived /\ LineEnds' = LineEnds
  BY <1>1 DEF Arrived, LineEnds
<1>3. Coming' = Coming
  BY <1>1, <1>2 DEF Coming
<1>4. /\ sbuf \in Texts(Arrived) /\ sbuf \in Texts(Range(sbuf)) /\ Range(sbuf) \subseteq Arrived
      /\ Arrived \subseteq Symbols /\ index \in Nat
  BY TextOwn, ArrivedIs DEF WalkInv
<1>5. sbuf' \in Texts(Arrived) /\ Range(sbuf') \subseteq Range(sbuf)
  BY <1>4, TextWider, TextOwn
<1>6. WalkInv'
  BY <1>1, <1>2, <1>3, <1>5 DEF WalkInv, Before
<1> QED
  BY <1>1, <1>2, <1>3, <1>4, <1>5, <1>6

(* A line with its break: the line, the break and what is behind it.        *)
LEMMA LineIs ==
  ASSUME WalkInv, LineEnds # {}
  PROVE  /\ Min(LineEnds) \in 1 .. Len(buf)
         /\ Line \in Texts(Range(buf)) /\ Rest \in Texts(Range(buf))
         /\ Break \in Texts(Range(From(buf, Min(LineEnds))))
         /\ Range(Break) \subseteq Range(From(buf, Min(LineEnds)))
         /\ Range(Rest) \subseteq Range(From(buf, Min(LineEnds)))
         /\ Range(From(buf, Min(LineEnds))) \subseteq Range(buf)
         /\ Before(Line, From(buf, Min(LineEnds))) /\ Before(Break, Rest)
<1> DEFINE m == Min(LineEnds)
           f == From(buf, m)
<1>1. buf \in Texts(Range(buf)) /\ Len(buf) \in Nat /\ Range(buf) \subseteq Symbols
  BY TextOwn, ArrivedIs DEF WalkInv, Texts
<1>2. m \in 1 .. Len(buf)
  BY <1>1, PlacesIn DEF LineEnds
<1>3. Line = UpTo(buf, m - 1) /\ Break = <<buf[m]>> /\ Rest = From(buf, m + 1)
  BY DEF Line, Break, Rest
<1> HIDE DEF m
<1>4. m - 1 \in 0 .. Len(buf) /\ m \in 1 .. Len(buf) + 1 /\ m + 1 \in 1 .. Len(buf) + 1
      /\ m \in (m - 1) + 1 .. Len(buf) + 1
  BY <1>1, <1>2
<1>5. Line \in Texts(Range(buf)) /\ Rest \in Texts(Range(buf)) /\ Before(Line, f)
  BY <1>1, <1>3, <1>4, PrefixText, SuffixIs, FrontBeforeRest
<1>6. /\ f \in Texts(Range(buf)) /\ Len(f) = Len(buf) - m + 1
      /\ \A i \in 1 .. Len(buf) - m + 1 : f[i] = buf[m + i - 1]
  BY <1>1, <1>4, SuffixIs
<1>7. f \in Texts(Range(f)) /\ Range(f) \subseteq Range(buf)
  BY <1>6, TextOwn
<1>8. 1 \in 1 .. Len(f) /\ m + 1 - 1 = m /\ 1 \in 1 .. Len(buf) - m + 1
      /\ 2 \in 1 .. Len(f) + 1 /\ m + 2 - 1 = m + 1 /\ 2 \in 1 + 1 .. Len(f) + 1
  BY <1>1, <1>2, <1>6
<1>9. From(f, 2) = Rest
  BY <1>1, <1>3, <1>4, <1>6, <1>8, SuffixOfSuffix
<1> HIDE DEF f
<1>10. f[1] = buf[m] /\ f[1] \in Range(f)
  <2>1. f[1] = buf[m]
    BY <1>6, <1>8
  <2>2. DOMAIN f = 1 .. Len(f)
    BY <1>7 DEF Texts
  <2> QED
    BY <1>8, <2>1, <2>2 DEF Range
<1>11. Rest \in Texts(Range(f)) /\ Range(Rest) \subseteq Range(f)
  <2>1. Rest \in Texts(Range(f))
    BY <1>7, <1>8, <1>9, SuffixIs
  <2> QED
    BY <2>1, TextOwn
<1>12. UpTo(f, 1) \in Texts(Range(f)) /\ Len(UpTo(f, 1)) = 1 /\ UpTo(f, 1)[1] = f[1]
       /\ Before(UpTo(f, 1), From(f, 2))
  <2>1. 1 \in 0 .. Len(f) /\ 1 \in 1 .. 1
    BY <1>8
  <2> QED
    BY <1>7, <1>8, <2>1, PrefixText, FrontBeforeRest
<1>13. Break = UpTo(f, 1)
  <2>1. UpTo(f, 1) \in Seq(Range(f)) /\ Break \in Seq(Range(f)) /\ Len(Break) = 1
    BY <1>3, <1>10, <1>12 DEF Texts
  <2>2. \A i \in 1 .. 1 : Break[i] = UpTo(f, 1)[i]
    BY <1>3, <1>10, <1>12
  <2> QED
    BY <1>12, <2>1, <2>2, SeqEqual
<1>14. Break \in Texts(Range(f)) /\ Range(Break) \subseteq Range(f) /\ Before(Break, Rest)
  BY <1>9, <1>12, <1>13, TextOwn
<1> QED
  BY <1>2, <1>5, <1>7, <1>11, <1>14 DEF f, m

(******************************** The steps ********************************)

Order == WalkInv /\ SaidInv /\ FillerInv

LEMMA InitOrder == Init => IInv
<1> SUFFICES ASSUME Init PROVE IInv
  OBVIOUS
<1>1. /\ text \in Replies /\ got = 0 /\ index = 0 /\ buf = <<>> /\ sbuf = <<>> /\ out = <<>>
      /\ mpc = "scan" /\ spent = {}
  BY DEF Init
<1>2. Len(text) \in Nat
  BY <1>1, ReplyAssumption
<1>3. buf \in Texts(Arrived) /\ sbuf \in Texts(Arrived) /\ Range(sbuf) = {}
  BY <1>1, EmptyText
<1>4. WalkInv
  BY <1>1, <1>2, <1>3 DEF WalkInv, Before
<1>5. SaidInv
  BY <1>1 DEF SaidInv
<1>6. FillerInv
  BY <1>1 DEF FillerInv, Counted
<1>7. StateInv
  BY DEF Init, StateInv
<1> QED
  BY <1>4, <1>5, <1>6, <1>7 DEF IInv

LEMMA DeltaStep ==
  ASSUME IInv, NEW n \in 1 .. Len(text) - got, Delta(n)
  PROVE  Order'
<1>1. /\ WalkInv /\ buf \in Texts(Arrived) /\ sbuf \in Texts(Arrived) /\ Before(sbuf, Coming)
      /\ text \in Replies /\ index \in Nat
  BY DEF IInv, WalkInv
<1>2. /\ text \in Texts(Symbols) /\ Len(text) \in Nat /\ got \in 0 .. Len(text)
      /\ Arrived \subseteq Symbols
      /\ \A c \in Arrived : c[2] \in 1 .. got
      /\ \A i \in 1 .. got : text[i] \in Arrived
      /\ \A i \in 1 .. Len(text) : text[i] \in Symbols /\ text[i][2] = i
  BY <1>1, ArrivedIs
<1> DEFINE new == SubSeq(text, got + 1, got + n)
<1>3. /\ text' = text /\ got' = got + n /\ buf' = buf \o new /\ index' = index /\ mpc' = mpc
      /\ sbuf' = sbuf /\ spent' = spent /\ out' = out /\ ended = "no" /\ mpc = "scan"
      /\ got + n <= Len(text)
  BY DEF Delta, Undecided, Asking, cutVars
<1>4. Coming = buf /\ Coming' = buf'
  BY <1>3 DEF Coming
<1>5. UpTo(text, got') \in Texts(Symbols) /\ Len(UpTo(text, got')) = got'
      /\ \A i \in 1 .. got' : UpTo(text, got')[i] = text[i]
  <2>1. got' \in 0 .. Len(text)
    BY <1>2, <1>3
  <2> QED
    BY <1>2, <2>1, PrefixText
<1>6. Arrived' = {text[i] : i \in 1 .. got'}
  <2>1. DOMAIN UpTo(text, got') = 1 .. got'
    BY <1>5 DEF Texts
  <2> QED
    BY <1>3, <1>5, <2>1 DEF Arrived, Range
<1>7. Arrived \subseteq Arrived'
  <2>1. UpTo(text, got) \in Texts(Symbols) /\ Len(UpTo(text, got)) = got
        /\ \A i \in 1 .. got : UpTo(text, got)[i] = text[i]
    BY <1>2, PrefixText
  <2>2. DOMAIN UpTo(text, got) = 1 .. got
    BY <2>1 DEF Texts
  <2>3. \A i \in 1 .. got : i \in 1 .. got'
    BY <1>2, <1>3
  <2> QED
    BY <1>6, <2>1, <2>2, <2>3 DEF Arrived, Range
<1>8. /\ new \in Texts(Symbols) /\ Len(new) = n
      /\ \A i \in 1 .. n : new[i] = text[got + 1 + i - 1]
  <2>1. got + 1 \in Nat \ {0} /\ got + n \in Int /\ got + n <= Len(text)
        /\ (IF got + 1 <= got + n THEN got + n - (got + 1) + 1 ELSE 0) = n
    BY <1>2, <1>3
  <2> QED
    BY <1>2, <2>1, PartOf
<1> HIDE DEF new
<1>9. \A i \in 1 .. n : got + 1 + i - 1 = got + i /\ got + i \in 1 .. got' /\ got + i \in 1 .. Len(text)
  BY <1>2, <1>3
<1>10. Range(new) = {text[got + i] : i \in 1 .. n}
  <2>1. DOMAIN new = 1 .. n
    BY <1>8 DEF Texts
  <2>2. \A i \in 1 .. n : new[i] = text[got + i]
    BY <1>8, <1>9
  <2> QED
    BY <2>1, <2>2 DEF Range
<1>11. Range(new) \subseteq Arrived' /\ \A d \in Range(new) : d[2] > got /\ d[2] \in Nat
  <2>1. \A i \in 1 .. n : text[got + i] \in Arrived' /\ text[got + i][2] = got + i /\ got + i > got
    BY <1>2, <1>6, <1>9
  <2> QED
    BY <1>2, <1>10, <2>1
<1>12. new \in Texts(Arrived') /\ buf \in Texts(Arrived') /\ sbuf \in Texts(Arrived')
       /\ Arrived' \subseteq Symbols
  <2>1. new \in Texts(Arrived')
    BY <1>8, <1>11, TextOwn, TextWider
  <2>2. Arrived' \subseteq Symbols
    <3>1. \A i \in 1 .. got' : i \in 1 .. Len(text)
      BY <1>2, <1>3
    <3> QED
      BY <1>2, <1>6, <3>1
  <2> QED
    BY <1>1, <1>7, <2>1, <2>2, TextWider
<1>13. Before(buf, new) /\ Before(sbuf, new)
  <2>1. Range(buf) \subseteq Arrived /\ Range(sbuf) \subseteq Arrived
    BY <1>1, TextOwn
  <2>2. \A c \in Arrived, d \in Range(new) : c[2] < d[2]
    BY <1>2, <1>11
  <2> QED
    BY <2>1, <2>2 DEF Before
<1>14. buf' \in Texts(Arrived') /\ Range(buf') = Range(buf) \cup Range(new)
  BY <1>3, <1>12, <1>13, Joined
<1>15. Before(sbuf', Coming')
  BY <1>1, <1>3, <1>4, <1>13, <1>14 DEF Before
<1>16. WalkInv'
  <2>1. got' \in 0 .. Len(text')
    BY <1>2, <1>3
  <2> QED
    BY <1>1, <1>3, <1>12, <1>14, <1>15, <2>1 DEF WalkInv
<1>17. \A d \in Range(sbuf') \cup Range(Coming') : \/ d \in Range(sbuf) \cup Range(Coming)
                                                   \/ d[2] > got /\ d[2] \in Nat
  BY <1>3, <1>4, <1>11, <1>14
<1>18. SaidInv' /\ FillerInv'
  <2>1. index' \in Nat /\ index <= index' /\ ended # "clean"
    BY <1>1, <1>3
  <2> QED
    BY <1>3, <1>7, <1>17, <2>1, QuietStep
<1> QED
  BY <1>16, <1>18 DEF Order

LEMMA WalkStep ==
  ASSUME IInv, Walk \/ StreamEnds
  PROVE  Order'
<1>1. WalkInv /\ index \in Nat /\ buf \in Texts(Range(buf)) /\ Range(<<>>) = {}
      /\ Before(sbuf, Coming) /\ <<>> \in Texts(Range(buf)) /\ Coming \in Texts(Range(buf))
  BY ComingIs, EmptyText DEF IInv, WalkInv
<1>2. CASE PassOpenLine \/ StreamEnds
  <2>1. /\ Pass(buf) /\ text' = text /\ got' = got /\ buf' = <<>> /\ mpc = "scan"
        /\ mpc' \in {"scan", "end"} /\ index' = index /\ ended = "no"
    BY <1>2 DEF PassOpenLine, StreamEnds, Undecided, Asking
  <2>2. Coming = buf /\ Coming' = <<>>
    BY <2>1 DEF Coming
  <2>3. buf \in Texts(Range(Coming)) /\ buf' \in Texts(Range(buf)) /\ Before(buf, Coming')
        /\ Range(Coming') \subseteq Range(Coming)
    BY <1>1, <2>1, <2>2 DEF Before
  <2>4. WalkInv' /\ SaidInv' /\ FillerInv'
    BY <1>1, <2>1, <2>3, PassStep
  <2> QED
    BY <2>4 DEF Order
<1>3. CASE EndOpenLine \/ Advance \/ BreakLine
  <2>1. /\ Pass(Break) /\ text' = text /\ got' = got /\ buf' = Rest /\ mpc' = "scan"
        /\ index' \in {index, index + 1} /\ ended = "no" /\ mpc \in {"scan", "advance", "break"}
        /\ LineEnds # {}
    BY <1>1, <1>3 DEF EndOpenLine, Advance, BreakLine, Asking, WalkInv
  <2> DEFINE f == From(buf, Min(LineEnds))
  <2>2. /\ Rest \in Texts(Range(buf)) /\ Break \in Texts(Range(f)) /\ Range(Rest) \subseteq Range(f)
        /\ Range(f) \subseteq Range(buf) /\ Before(Break, Rest)
    BY <1>1, <2>1, LineIs
  <2>3. (Coming = f \/ Coming = buf) /\ Coming' = Rest
    BY <2>1 DEF Coming
  <2> HIDE DEF f
  <2>4. Break \in Texts(Range(Coming)) /\ Range(Coming') \subseteq Range(Coming)
    BY <2>2, <2>3, TextWider
  <2>5. index' \in Nat /\ index <= index' /\ Before(Break, Coming') /\ buf' \in Texts(Range(buf))
    BY <1>1, <2>1, <2>2, <2>3
  <2>6. WalkInv' /\ SaidInv' /\ FillerInv'
    BY <2>1, <2>4, <2>5, PassStep
  <2> QED
    BY <2>6 DEF Order
<1>4. CASE WholeLine
  <2>1. /\ Pass(StraySep(Line)) /\ text' = text /\ got' = got /\ buf' = buf /\ mpc' = "break"
        /\ index' = index /\ ended = "no" /\ mpc = "scan" /\ LineEnds # {}
    BY <1>4 DEF WholeLine, Asking
  <2> DEFINE f == From(buf, Min(LineEnds))
  <2>2. /\ Line \in Texts(Range(buf)) /\ Range(f) \subseteq Range(buf) /\ Before(Line, f)
    BY <1>1, <2>1, LineIs
  <2>3. Coming = buf /\ Coming' = f /\ LineEnds' = LineEnds
    BY <2>1 DEF Coming, LineEnds
  <2> HIDE DEF f
  <2>4. StraySep(Line) \in Texts(Range(buf)) /\ Range(StraySep(Line)) \subseteq Range(Line)
    <3>1. Range(buf) \subseteq Symbols
      BY <1>1, ArrivedIs, TextOwn DEF WalkInv
    <3> QED
      BY <2>2, <3>1, WithoutText DEF StraySep
  <2>5. Before(StraySep(Line), Coming')
    BY <2>2, <2>3, <2>4 DEF Before
  <2>6. WalkInv' /\ SaidInv' /\ FillerInv'
    BY <1>1, <2>1, <2>2, <2>3, <2>4, <2>5, PassStep
  <2> QED
    BY <2>6 DEF Order
<1>5. CASE Separator
  <2>1. /\ text' = text /\ got' = got /\ buf' = buf /\ mpc' = "advance" /\ mpc = "scan"
        /\ index' = index /\ ended = "no" /\ ended' = "no" /\ LineEnds # {}
        /\ \/ sbuf' = sbuf /\ out' = out /\ spent' = spent
           \/ Say(sbuf) /\ sbuf' = <<>>
    BY <1>5 DEF Separator, Asking
  <2> DEFINE f == From(buf, Min(LineEnds))
  <2>2. Range(f) \subseteq Range(buf)
    BY <1>1, <2>1, LineIs
  <2>3. Coming = buf /\ Coming' = f /\ LineEnds' = LineEnds /\ Arrived' = Arrived
    BY <2>1 DEF Coming, LineEnds, Arrived
  <2> HIDE DEF f
  <2>4. sbuf \in Texts(Arrived) /\ <<>> \in Texts(Arrived) /\ sbuf' \in Texts(Arrived)
        /\ Range(sbuf') \subseteq Range(sbuf) /\ Range(Coming') \subseteq Range(Coming)
    BY <1>1, <2>1, <2>2, <2>3, EmptyText DEF WalkInv
  <2>5. WalkInv'
    BY <1>1, <2>1, <2>3, <2>4 DEF WalkInv, Before
  <2>6. SaidInv' /\ FillerInv'
    <3>1. CASE sbuf' = sbuf /\ out' = out /\ spent' = spent
      <4>1. \A d \in Range(sbuf') \cup Range(Coming') : d \in Range(sbuf) \cup Range(Coming)
        BY <2>4
      <4>2. index' \in Nat /\ index <= index' /\ Arrived \subseteq Arrived' /\ ended # "clean"
        BY <1>1, <2>1, <2>3
      <4> QED
        BY <3>1, <4>1, <4>2, QuietStep
    <3>2. CASE Say(sbuf) /\ sbuf' = <<>>
      <4>1. Before(sbuf, sbuf')
        BY <1>1, <3>2 DEF Before
      <4> QED
        BY <2>1, <2>3, <2>4, <3>2, <4>1, SayStep
    <3> QED
      BY <2>1, <3>1, <3>2
  <2> QED
    BY <2>5, <2>6 DEF Order
<1> QED
  BY <1>2, <1>3, <1>4, <1>5 DEF Walk

LEMMA HeldIs ==
  ASSUME WalkInv
  PROVE  Held \in Texts(Range(sbuf)) /\ Range(Held) \subseteq Range(sbuf) /\ Len(Held) \in Nat
         /\ DOMAIN Held = 1 .. Len(Held)
<1>1. sbuf \in Texts(Range(sbuf)) /\ Range(sbuf) \subseteq Symbols
  BY TextOwn, ArrivedIs DEF WalkInv
<1>2. Held \in Texts(Range(sbuf)) /\ Range(Held) \subseteq Range(sbuf)
  BY <1>1, WithoutText DEF Held
<1> QED
  BY <1>2 DEF Texts

(* A piece of the held text is said and the walk goes on behind it.         *)
LEMMA CutAway ==
  ASSUME IInv, NEW k \in 0 .. Len(Held), NEW l \in k + 1 .. Len(Held) + 1,
         Say(UpTo(Held, k)), sbuf' = From(Held, l),
         UNCHANGED <<text, got, walkVars>>, ended # "clean"
  PROVE  Order'
<1>1. WalkInv
  BY DEF IInv
<1>2. Held \in Texts(Range(sbuf)) /\ Len(Held) \in Nat
  BY <1>1, HeldIs
<1>3. l \in 1 .. Len(Held) + 1
  BY <1>2
<1>4. sbuf' \in Texts(Range(sbuf)) /\ UpTo(Held, k) \in Texts(Range(sbuf))
      /\ Before(UpTo(Held, k), sbuf')
  BY <1>2, <1>3, SuffixIs, PrefixText, FrontBeforeRest
<1>5. /\ WalkInv' /\ Coming' = Coming /\ Arrived' = Arrived /\ index' = index
      /\ Range(sbuf') \subseteq Range(sbuf) /\ sbuf \in Texts(Arrived)
  BY <1>1, <1>4, CutWalk
<1>6. UpTo(Held, k) \in Texts(Arrived) /\ Range(UpTo(Held, k)) \subseteq Range(sbuf)
  BY <1>4, <1>5, TextOwn, TextWider
<1>7. SaidInv' /\ FillerInv'
  BY <1>4, <1>5, <1>6, SayStep
<1> QED
  BY <1>5, <1>7 DEF Order

(* The walk drops something of what it holds, and says nothing.             *)
LEMMA CutQuiet ==
  ASSUME IInv, sbuf' \in Texts(Range(sbuf)), out' = out, spent' = spent,
         UNCHANGED <<text, got, walkVars>>, ended # "clean"
  PROVE  Order'
<1>1. WalkInv
  BY DEF IInv
<1>2. /\ WalkInv' /\ Coming' = Coming /\ Arrived' = Arrived
      /\ Range(sbuf') \subseteq Range(sbuf) /\ index' \in Nat /\ index <= index'
  BY <1>1, CutWalk
<1>3. \A d \in Range(sbuf') \cup Range(Coming') : d \in Range(sbuf) \cup Range(Coming)
  BY <1>2
<1>4. Arrived \subseteq Arrived'
  BY <1>2
<1>5. SaidInv' /\ FillerInv'
  BY <1>2, <1>3, <1>4, QuietStep
<1> QED
  BY <1>2, <1>5 DEF Order

LEMMA MarkerIs ==
  ASSUME NEW S, NEW t \in Texts(S), NEW P \in SUBSET Markers(t, 1), P # {}
  PROVE  /\ Min(P) \in P /\ Min(P) - 1 \in 0 .. Len(t) /\ Len(t) \in Nat
         /\ Min(P) + Fence \in (Min(P) - 1) + 1 .. Len(t) + 1
         /\ Min(P) + Fence \in 1 .. Len(t) + 1
<1>1. Len(t) \in Nat
  BY DEF Texts
<1>2. P \in SUBSET Nat
  BY <1>1 DEF Markers
<1>3. Min(P) \in P
  BY <1>2, MinOf
<1> DEFINE m == Min(P)
<1>4. m \in 1 .. Len(t) /\ m + Fence - 1 <= Len(t)
  BY <1>3 DEF Markers, MarkerAt
<1> HIDE DEF m
<1>5. m - 1 \in 0 .. Len(t) /\ m + Fence \in (m - 1) + 1 .. Len(t) + 1 /\ m + Fence \in 1 .. Len(t) + 1
  BY <1>1, <1>4 DEF Fence
<1> QED
  BY <1>1, <1>3, <1>5 DEF m

(* What may grow into a marker is shorter than one.                         *)
LEMMA MarkerTailIs ==
  ASSUME NEW S, NEW t \in Texts(S)
  PROVE  MarkerTail(t) \in Texts(S) /\ Len(MarkerTail(t)) < Fence
<1> DEFINE P == {i \in 1 .. Len(t) + 1 : /\ Len(t) - i + 1 < Fence
                                         /\ Others(From(t, i), {"tick"}) = {}}
           m == Min(P)
<1>1. Len(t) \in Nat
  BY DEF Texts
<1>2. Len(t) + 1 \in P
  <2>1. From(t, Len(t) + 1) = <<>> /\ Len(t) + 1 \in 1 .. Len(t) + 1
    BY <1>1, WholeText
  <2>2. Others(<<>>, {"tick"}) = {}
    BY DEF Others
  <2>3. Len(t) - (Len(t) + 1) + 1 < Fence
    BY <1>1 DEF Fence
  <2> QED
    BY <2>1, <2>2, <2>3
<1>3. P \in SUBSET Nat
  BY <1>1
<1>4. m \in P
  BY <1>2, <1>3, MinOf
<1>5. m \in 1 .. Len(t) + 1 /\ Len(t) - m + 1 < Fence
  BY <1>4
<1>6. MarkerTail(t) = From(t, m)
  BY DEF MarkerTail
<1> HIDE DEF m
<1> QED
  BY <1>5, <1>6, SuffixIs

LEMMA CutStep ==
  ASSUME IInv, Cut
  PROVE  Order'
<1>1. /\ WalkInv /\ sbuf \in Texts(Range(sbuf)) /\ Held \in Texts(Range(sbuf))
      /\ Len(Held) \in Nat /\ DOMAIN Held = 1 .. Len(Held)
  BY HeldIs, TextOwn DEF IInv, WalkInv
<1>2. CASE LeaveFence
  <2>1. /\ out' = out /\ spent' = spent /\ UNCHANGED <<text, got, walkVars>> /\ ended # "clean"
        /\ Markers(sbuf, 1) # {} /\ sbuf' = From(sbuf, Min(Markers(sbuf, 1)) + Fence)
    BY <1>2 DEF LeaveFence, Reading
  <2>2. Min(Markers(sbuf, 1)) + Fence \in 1 .. Len(sbuf) + 1
    BY <1>1, <2>1, MarkerIs
  <2>3. sbuf' \in Texts(Range(sbuf))
    BY <1>1, <2>1, <2>2, SuffixIs
  <2> QED
    BY <2>1, <2>3, CutQuiet
<1>3. CASE HoldFence
  <2>1. /\ out' = out /\ spent' = spent /\ UNCHANGED <<text, got, walkVars>> /\ ended # "clean"
        /\ sbuf' = MarkerTail(sbuf)
    BY <1>3 DEF HoldFence, Reading
  <2>2. sbuf' \in Texts(Range(sbuf))
    BY <1>1, <2>1, MarkerTailIs
  <2> QED
    BY <2>1, <2>2, CutQuiet
<1>4. CASE AskForMore
  <2>1. /\ out' = out /\ spent' = spent /\ UNCHANGED <<text, got, walkVars>> /\ ended # "clean"
        /\ sbuf' = Held
    BY <1>4 DEF AskForMore, Prose, Reading
  <2> QED
    BY <1>1, <2>1, CutQuiet
<1>5. CASE EnterFence
  <2> DEFINE m == Min(Fences)
  <2>1. /\ Say(UpTo(Held, m - 1)) /\ sbuf' = From(Held, m + Fence) /\ Fences # {}
        /\ UNCHANGED <<text, got, walkVars>> /\ ended # "clean"
    BY <1>5 DEF EnterFence, Prose, Reading
  <2>2. m - 1 \in 0 .. Len(Held) /\ m + Fence \in (m - 1) + 1 .. Len(Held) + 1
    <3>1. Fences \in SUBSET Markers(Held, 1)
      BY DEF Fences
    <3> HIDE DEF m
    <3> QED
      BY <1>1, <2>1, <3>1, MarkerIs DEF m
  <2> HIDE DEF m
  <2> QED
    BY <2>1, <2>2, CutAway
<1>6. ASSUME NEW i \in 1 .. Len(Held), CutAt(i), ended # "clean"
      PROVE  Order'
  <2>1. /\ Say(UpTo(Held, i)) /\ sbuf' = From(Held, i + 1) /\ UNCHANGED <<text, got, walkVars>>
    BY <1>6 DEF CutAt
  <2>2. i \in 0 .. Len(Held) /\ i + 1 \in i + 1 .. Len(Held) + 1
    BY <1>1
  <2> QED
    BY <1>6, <2>1, <2>2, CutAway
<1>7. Hard \in SUBSET (1 .. Len(Held)) /\ Soft \in SUBSET (1 .. Len(Held))
  BY <1>1 DEF Hard, Soft, Readable
<1>8. CASE CutHard
  <2>1. CutAt(Min(Hard)) /\ Hard # {} /\ ended # "clean"
    BY <1>8 DEF CutHard, Prose, Reading
  <2>2. Hard \in SUBSET Nat
    BY <1>1, <1>7
  <2>3. Min(Hard) \in 1 .. Len(Held)
    BY <1>7, <2>1, <2>2, MinOf
  <2> QED
    BY <1>6, <2>1, <2>3
<1>9. CASE CutSoft
  <2>1. CutAt(Max(Soft)) /\ Soft # {} /\ ended # "clean"
    BY <1>9 DEF CutSoft, SoftCut, Prose, Reading
  <2>2. Max(Soft) \in 1 .. Len(Held)
    BY <1>1, <1>7, <2>1, MaxOf
  <2> QED
    BY <1>6, <2>1, <2>2
<1> QED
  BY <1>2, <1>3, <1>4, <1>5, <1>8, <1>9 DEF Cut

LEMMA TailStep ==
  ASSUME IInv, SayTail
  PROVE  Order'
<1>1. /\ UNCHANGED <<text, got, walkVars>> /\ sbuf' = sbuf /\ ended # "clean" /\ ended' = "clean"
      /\ (out' = out /\ spent' = spent) \/ Say(sbuf)
  BY DEF SayTail, Asking
<1>2. WalkInv /\ sbuf' \in Texts(Range(sbuf))
  BY <1>1, TextOwn DEF IInv, WalkInv
<1>3. CASE out' = out /\ spent' = spent
  BY <1>1, <1>2, <1>3, CutQuiet
<1>4. CASE Say(sbuf)
  <2>1. /\ WalkInv' /\ Coming' = Coming /\ Arrived' = Arrived /\ index' = index
        /\ Range(sbuf') \subseteq Range(sbuf) /\ sbuf \in Texts(Arrived)
    BY <1>1, <1>2, CutWalk
  <2>2. SaidInv' /\ FillerInv'
    BY <1>1, <1>4, <2>1, SayStep
  <2> QED
    BY <2>1, <2>2 DEF Order
<1> QED
  BY <1>1, <1>3, <1>4

LEMMA StillStep ==
  ASSUME IInv, StreamFails \/ UNCHANGED vars
  PROVE  Order'
<1>1. /\ text' = text /\ got' = got /\ buf' = buf /\ index' = index /\ mpc' = mpc
      /\ sbuf' = sbuf /\ out' = out /\ spent' = spent
      /\ (ended' # "clean" => ended # "clean")
  <2>1. CASE StreamFails
    BY <2>1 DEF StreamFails, Undecided, Asking, walkVars, cutVars
  <2>2. CASE UNCHANGED vars
    BY <2>2 DEF vars, walkVars, cutVars
  <2> QED
    BY <2>1, <2>2
<1>2. Arrived' = Arrived /\ Coming' = Coming /\ LineEnds' = LineEnds /\ Sentence' = Sentence
      /\ Counted' = Counted
  BY <1>1 DEF Arrived, Coming, LineEnds, Sentence, Counted
<1>3. WalkInv'
  BY <1>1, <1>2 DEF IInv, WalkInv
<1>4. SaidInv' /\ FillerInv'
  BY <1>1, <1>2 DEF IInv, SaidInv, FillerInv
<1> QED
  BY <1>3, <1>4 DEF Order

LEMMA StateStep ==
  ASSUME IInv, [Next]_vars
  PROVE  StateInv'
<1>1. StateInv /\ WalkInv
  BY DEF IInv
<1>2. CASE \E n \in 1 .. Len(text) - got : Delta(n)
  <2>1. PICK n \in 1 .. Len(text) - got : Delta(n)
    BY <1>2
  <2>2. midline' \in BOOLEAN
    BY <1>1, <2>1 DEF Delta, StateInv
  <2> QED
    BY <1>1, <2>1, <2>2 DEF Delta, StateInv, cutVars, Asking
<1>3. CASE StreamFails \/ UNCHANGED vars
  BY <1>1, <1>3 DEF StreamFails, StateInv, vars, walkVars, cutVars, Asking
<1>4. CASE StreamEnds \/ Walk
  <2>1. StateInv /\ (PassOpenLine \/ EndOpenLine \/ Advance \/ WholeLine \/ BreakLine \/ StreamEnds
                     \/ Separator)
    BY <1>1, <1>4 DEF Walk
  <2>2. CASE Separator
    BY <2>1, <2>2 DEF Separator, StateInv, Asking
  <2>3. CASE PassOpenLine \/ EndOpenLine \/ WholeLine \/ StreamEnds
    BY <2>1, <2>3 DEF PassOpenLine, EndOpenLine, WholeLine, StreamEnds, Pass, StateInv, Asking
  <2>4. CASE Advance \/ BreakLine
    BY <2>1, <2>4 DEF Advance, BreakLine, Pass, StateInv, Asking
  <2> QED
    BY <2>1, <2>2, <2>3, <2>4
<1>5. CASE SayTail
  BY <1>1, <1>5 DEF SayTail, StateInv, Asking, walkVars
<1>6. CASE HoldFence
  <2>1. sbuf' = MarkerTail(sbuf)
    BY <1>6 DEF HoldFence
  <2>2. Len(sbuf') < Fence
    BY <1>1, <2>1, MarkerTailIs DEF WalkInv
  <2> QED
    BY <1>1, <1>6, <2>2 DEF HoldFence, StateInv, walkVars
<1>7. CASE LeaveFence \/ EnterFence \/ AskForMore \/ CutHard \/ CutSoft
  <2>1. /\ UNCHANGED <<midline, walkVars, ended>>
        /\ \/ spc = "scan" /\ spc' = spc /\ in_fence' \in BOOLEAN
           \/ spc' = "await" /\ in_fence' = FALSE
    BY <1>1, <1>7 DEF LeaveFence, EnterFence, AskForMore, CutHard, CutSoft, CutAt, Prose, Reading, StateInv
  <2> QED
    BY <1>1, <2>1 DEF StateInv, walkVars, Asking
<1> QED
  BY <1>2, <1>3, <1>4, <1>5, <1>6, <1>7 DEF Next, Cut

LEMMA StepOrder ==
  ASSUME IInv, [Next]_vars
  PROVE  IInv'
<1>1. Order'
  <2>1. CASE \E n \in 1 .. Len(text) - got : Delta(n)
    BY <2>1, DeltaStep
  <2>2. CASE StreamFails \/ UNCHANGED vars
    BY <2>2, StillStep
  <2>3. CASE StreamEnds \/ Walk
    BY <2>3, WalkStep
  <2>4. CASE SayTail
    BY <2>4, TailStep
  <2>5. CASE Cut
    BY <2>5, CutStep
  <2> QED
    BY <2>1, <2>2, <2>3, <2>4, <2>5 DEF Next
<1>2. StateInv'
  BY StateStep
<1> QED
  BY <1>1, <1>2 DEF Order, IInv

(******************************** Theorems *********************************)

(* What the two walks hold is in order and comes after what was said, and a *)
(* message with a hesitation has spent its filler: in every reachable state.*)
THEOREM Inductive == Spec => []IInv
<1>1. Init => IInv
  BY InitOrder
<1>2. IInv /\ [Next]_vars => IInv'
  BY StepOrder
<1> QED
  BY <1>1, <1>2, PTL DEF Spec

(* The kinds of the walks' state: a message number never falls behind what  *)
(* was said or spent, what is held are symbols of the reply, and a fence    *)
(* that waits holds less than a marker.                                     *)
THEOREM TypeCorrect == Spec => []TypeOK
<1>1. ASSUME IInv PROVE TypeOK
  <2>1. /\ WalkInv /\ SaidInv /\ FillerInv /\ StateInv
        /\ got \in 0 .. Len(text) /\ index \in Nat /\ spent \subseteq 0 .. index
    BY <1>1 DEF IInv, WalkInv, FillerInv
  <2>2. Range(buf) \cup Range(sbuf) \subseteq Range(text)
    <3>1. Range(buf) \subseteq Arrived /\ Range(sbuf) \subseteq Arrived
      BY <2>1, TextOwn DEF WalkInv
    <3>2. Arrived \subseteq Range(text)
      <4>1. text \in Texts(Range(text)) /\ got \in 0 .. Len(text)
        BY <2>1, ArrivedIs, TextOwn
      <4>2. UpTo(text, got) \in Texts(Range(text))
        BY <4>1, PrefixText
      <4> QED
        BY <4>2, TextOwn DEF Arrived
    <3> QED
      BY <3>1, <3>2
  <2>3. \A i \in DOMAIN out : out[i].message \in 0 .. index
    <3>1. \A i \in DOMAIN out : out[i] \in Sentence
      BY <2>1 DEF SaidInv
    <3> QED
      BY <3>1 DEF Sentence
  <2> QED
    BY <2>1, <2>2, <2>3 DEF TypeOK, StateInv
<1> QED
  BY <1>1, Inductive, PTL

(* Whatever the reply and however it is cut: what is said has arrived, each *)
(* symbol is said once and in its order, and no sentence goes into a        *)
(* message before that of an earlier one.                                   *)
THEOREM InOrder == Spec => []SaidInOrder
<1>1. ASSUME IInv PROVE SaidInOrder
  <2>1. /\ \A i \in DOMAIN out : out[i] \in Sentence
        /\ \A i, j \in DOMAIN out : i < j => /\ out[i].message <= out[j].message
                                             /\ Before(out[i].said, out[j].said)
    BY <1>1 DEF IInv, SaidInv
  <2>2. \A i \in DOMAIN out : Rising(out[i].said) /\ Range(out[i].said) \subseteq Arrived
    <3>1. \A i \in DOMAIN out : out[i].said \in Texts(Arrived)
      BY <2>1 DEF Sentence
    <3> QED
      BY <3>1, TextOwn DEF Texts
  <2> QED
    BY <2>1, <2>2 DEF SaidInOrder, Before, Arrived
<1> QED
  BY <1>1, Inductive, PTL

(* In the voice style one sentence of a message opens with a hesitation at  *)
(* most, in writing none, but for those the model opened with more than     *)
(* one.                                                                     *)
THEOREM OneFiller == Spec => []OneFillerEach
<1>1. ASSUME IInv PROVE OneFillerEach
  <2>1. /\ \A i \in Counted : KeepOne
        /\ \A i, j \in Counted : out[i].message = out[j].message => i = j
    BY <1>1 DEF IInv, FillerInv
  <2>2. \A m : Hesitant(m) \ Repeated \subseteq {i \in Counted : out[i].message = m}
    BY DEF Hesitant, Repeated, Counted, Opens, Shortened
  <2> SUFFICES ASSUME NEW m \in 0 .. index
               PROVE  Cardinality(Hesitant(m) \ Repeated) <= Allowed
    BY DEF OneFillerEach
  <2> DEFINE H == Hesitant(m) \ Repeated
  <2>3. H \subseteq {i \in Counted : out[i].message = m}
    BY <2>2
  <2> HIDE DEF H
  <2>4. CASE H = {}
    <3>1. Cardinality(H) = 0
      BY <2>4, FS_EmptySet
    <3> QED
      BY <3>1 DEF Allowed, H
  <2>5. CASE H # {}
    <3>1. PICK i : H = {i}
      BY <2>1, <2>3, <2>5
    <3>2. Cardinality(H) = 1
      BY <3>1, FS_Singleton
    <3>3. KeepOne
      BY <2>1, <2>3, <2>5
    <3> QED
      BY <3>2, <3>3 DEF Allowed, H
  <2> QED
    BY <2>4, <2>5
<1> QED
  BY <1>1, Inductive, PTL

=============================================================================
