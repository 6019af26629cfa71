----------------------------- MODULE ReportProofs ------------------------------
(***************************************************************************)
(* Theorems about Report and CommandLine for every width of the types,     *)
(* every buffer, every line and every list of commands.                    *)
(***************************************************************************)
EXTENDS Report, FiniteSetTheorems, SequenceTheorems, TLAPS

------------------------------------------------------------------------------
(* Induction: a set with 0 and with every successor holds all of Nat.      *)

LEMMA LeastOf ==
  ASSUME NEW S, S \subseteq Nat, S # {}
  PROVE  \E x \in S : \A z \in S : ~(z < x)
<1> DEFINE R == {ss \in Nat \X Nat : ss[1] < ss[2]}
<1>1. OpToRel(<, Nat) = R
  BY DEF OpToRel
<1>2. IsWellFoundedOn(R, Nat)
  BY <1>1, NatLessThanWellFounded
<1> HIDE DEF R
<1>3. PICK x \in S : \A z \in S : ~(<<z, x>> \in R)
  BY <1>2, WFMin
<1>4. QED
  BY <1>3 DEF R

LEMMA Induct ==
  ASSUME NEW S, 0 \in S, \A m \in Nat : m \in S => m + 1 \in S
  PROVE  Nat \subseteq S
<1>1. SUFFICES ASSUME Nat \ S # {} PROVE FALSE
  OBVIOUS
<1>2. PICK x \in Nat \ S : \A z \in Nat \ S : ~(z < x)
  BY <1>1, LeastOf
<1>3. x - 1 \in Nat /\ x - 1 < x
  BY <1>2
<1>4. QED
  BY <1>2, <1>3

------------------------------------------------------------------------------
(* Digits: x is what r digits of s make of a number m in front of them,    *)
(* step by step.                                                           *)

Makes(g, m, s, r) ==
  /\ g \in [0..Len(s) -> Int] /\ g[0] = m
  /\ \A k \in 1..Len(s) : g[k] = g[k - 1] * r + s[k]

Gives(m, s, r, x) == \E g : Makes(g, m, s, r) /\ g[Len(s)] = x

LEMMA Sequences ==
  /\ \A s \in Seq(Int) : Len(s) \in Nat /\ \A k \in 1..Len(s) : s[k] \in Int
  /\ \A s \in Seq(Int), d \in Int :
       /\ Append(s, d) \in Seq(Int) /\ Len(Append(s, d)) = Len(s) + 1
       /\ \A k \in 1..Len(s) : Append(s, d)[k] = s[k]
       /\ Append(s, d)[Len(s) + 1] = d
  /\ <<>> \in Seq(Int) /\ Len(<<>>) = 0
OBVIOUS

LEMMA GivesNothing == ASSUME NEW m \in Int, NEW r PROVE Gives(m, <<>>, r, m)
<1> DEFINE g == [k \in 0..0 |-> m]
<1>1. Makes(g, m, <<>>, r) /\ g[Len(<<>>)] = m
  BY DEF Makes
<1>2. QED
  BY <1>1 DEF Gives

LEMMA GivesMore ==
  ASSUME NEW m \in Int, NEW r \in Int, NEW s \in Seq(Int), NEW d \in Int, NEW x \in Int,
         Gives(m, s, r, x)
  PROVE  Gives(m, Append(s, d), r, x * r + d)
<1>1. PICK g : Makes(g, m, s, r) /\ g[Len(s)] = x
  BY DEF Gives
<1> DEFINE L == Len(s)
           z == x * r + d
           h == [k \in 0..(L + 1) |-> IF k = L + 1 THEN z ELSE g[k]]
           t == Append(s, d)
<1>2. L \in Nat /\ t \in Seq(Int) /\ Len(t) = L + 1 /\ (\A k \in 1..L : t[k] = s[k]) /\ t[L + 1] = d
  OBVIOUS
<1>3. z \in Int
  OBVIOUS
<1> HIDE DEF z
<1>4. /\ g \in [0..L -> Int] /\ g[0] = m /\ g[L] = x
      /\ \A k \in 1..L : g[k] = g[k - 1] * r + s[k]
  BY <1>1 DEF Makes
<1> HIDE DEF L, t
<1>5. h \in [0..(L + 1) -> Int] /\ h[0] = m /\ h[L + 1] = z
  BY <1>2, <1>3, <1>4
<1>6. \A k \in 1..(L + 1) : h[k] = h[k - 1] * r + t[k]
  <2>1. h[L] = x
    BY <1>2, <1>4
  <2>2. h[L + 1] = h[(L + 1) - 1] * r + t[L + 1]
    <3>1. (L + 1) - 1 = L
      BY <1>2
    <3>2. QED
      BY <2>1, <3>1, <1>2, <1>5, Zenon DEF z
  <2>3. \A k \in 1..L : h[k] = h[k - 1] * r + t[k]
    <3>1. ASSUME NEW k \in 1..L PROVE h[k] = h[k - 1] * r + t[k]
      <4>1. h[k] = g[k] /\ h[k - 1] = g[k - 1]
        BY <1>2
      <4>2. g[k] = g[k - 1] * r + s[k] /\ t[k] = s[k]
        BY <1>2, <1>4, Zenon
      <4>3. QED
        BY <4>1, <4>2, Zenon
    <3>2. QED
      BY <3>1
  <2>4. \A k \in 1..(L + 1) : k \in 1..L \/ k = L + 1
    BY <1>2
  <2>5. QED
    BY <2>2, <2>3, <2>4, Zenon
<1>7. Makes(h, m, t, r) /\ h[Len(t)] = z
  BY <1>2, <1>5, <1>6, Zenon DEF Makes
<1>8. QED
  BY <1>7, Zenon DEF Gives, t, z

LEMMA GivesFirst ==
  ASSUME NEW m \in Int, NEW r \in Int, NEW s \in Seq(Int), NEW d \in Int, NEW x,
         Gives(m * r + d, s, r, x)
  PROVE  Gives(m, <<d>> \o s, r, x)
<1>1. PICK g : Makes(g, m * r + d, s, r) /\ g[Len(s)] = x
  BY DEF Gives
<1> DEFINE L == Len(s)
           z == m * r + d
           h == [k \in 0..(L + 1) |-> IF k = 0 THEN m ELSE g[k - 1]]
           t == <<d>> \o s
<1>2. L \in Nat /\ t \in Seq(Int) /\ Len(t) = L + 1
  OBVIOUS
<1>3. t[1] = d /\ \A k \in 2..(L + 1) : t[k] = s[k - 1]
  OBVIOUS
<1> HIDE DEF z
<1>4. /\ g \in [0..L -> Int] /\ g[0] = z /\ g[L] = x
      /\ \A k \in 1..L : g[k] = g[k - 1] * r + s[k]
  BY <1>1 DEF Makes, z
<1> HIDE DEF L, t
<1>5. h \in [0..(L + 1) -> Int] /\ h[0] = m /\ h[L + 1] = x
  BY <1>2, <1>4
<1>6. \A k \in 1..(L + 1) : h[k] = h[k - 1] * r + t[k]
  <2>1. h[1] = h[1 - 1] * r + t[1]
    <3>1. h[1] = z /\ h[1 - 1] = m
      BY <1>2, <1>4
    <3>2. QED
      BY <3>1, <1>3, Zenon DEF z
  <2>2. ASSUME NEW k \in 2..(L + 1) PROVE h[k] = h[k - 1] * r + t[k]
    <3>1. k - 1 \in 1..L /\ k - 1 \in 0..(L + 1) /\ k - 1 # 0 /\ k \in 0..(L + 1) /\ k # 0
      BY <1>2
    <3>2. h[k] = g[k - 1] /\ h[k - 1] = g[k - 1 - 1]
      BY <3>1, Zenon
    <3>3. g[k - 1] = g[k - 1 - 1] * r + s[k - 1]
      BY <3>1, <1>4, Zenon
    <3>4. QED
      BY <3>2, <3>3, <1>3, Zenon
  <2>3. \A k \in 1..(L + 1) : k = 1 \/ k \in 2..(L + 1)
    BY <1>2
  <2>4. QED
    BY <2>1, <2>2, <2>3, Zenon
<1>7. Makes(h, m, t, r) /\ h[Len(t)] = x
  BY <1>2, <1>5, <1>6, Zenon DEF Makes
<1>8. QED
  BY <1>7, Zenon DEF Gives, t

LEMMA MakesOne ==
  ASSUME NEW s \in Seq(Int), NEW r, NEW m, NEW g, NEW h, Makes(g, m, s, r), Makes(h, m, s, r)
  PROVE  g = h
<1> DEFINE S == {k \in Nat : k \in 0..Len(s) => g[k] = h[k]}
<1>1. 0 \in S
  BY DEF Makes
<1>2. ASSUME NEW k \in Nat, k \in S PROVE k + 1 \in S
  <2>1. SUFFICES ASSUME k + 1 \in 0..Len(s) PROVE g[k + 1] = h[k + 1]
    OBVIOUS
  <2>2. k \in 0..Len(s) /\ k + 1 \in 1..Len(s) /\ (k + 1) - 1 = k
    BY <2>1
  <2>3. g[k] = h[k]
    BY <1>2, <2>2
  <2>4. /\ g[k + 1] = g[(k + 1) - 1] * r + s[k + 1]
        /\ h[k + 1] = h[(k + 1) - 1] * r + s[k + 1]
    BY <2>2, Zenon DEF Makes
  <2>5. g[(k + 1) - 1] = h[(k + 1) - 1]
    BY <2>2, <2>3
  <2>6. QED
    BY <2>4, <2>5, Zenon
<1>3. Nat \subseteq S
  <2> HIDE DEF S
  <2>1. QED
    BY <1>1, <1>2, Induct
<1>4. \A k \in 0..Len(s) : g[k] = h[k]
  BY <1>3
<1>5. QED
  BY <1>4 DEF Makes

(* What Denoted, defined by recursion, is.                                 *)
LEMMA Denotes ==
  ASSUME NEW s \in Seq(Int), NEW r \in Int, NEW x, Gives(0, s, r, x)
  PROVE  Denoted(s, r) = x
<1> DEFINE Eq(h) == h = [k \in 0..Len(s) |-> IF k = 0 THEN 0 ELSE h[k - 1] * r + s[k]]
           v == CHOOSE h : Eq(h)
<1>1. PICK g : Makes(g, 0, s, r) /\ g[Len(s)] = x
  BY DEF Gives
<1>2. Eq(g)
  BY <1>1 DEF Makes
<1>3. Eq(v)
  BY <1>2, Zenon
<1>4. Makes(v, 0, s, r)
  <2> HIDE DEF v
  <2> DEFINE L == Len(s)
  <2>1. L \in Nat
    OBVIOUS
  <2>2. \A k \in 0..L : v[k] = IF k = 0 THEN 0 ELSE v[k - 1] * r + s[k]
    BY <1>3
  <2>3. v[0] = 0
    BY <2>2, <2>1
  <2>4. \A k \in 1..L : v[k] = v[k - 1] * r + s[k]
    BY <2>2, <2>1
  <2>5. \A k \in 0..L : v[k] \in Int
    <3> DEFINE S == {k \in Nat : k \in 0..L => v[k] \in Int}
    <3>1. 0 \in S
      BY <2>3
    <3>2. ASSUME NEW k \in Nat, k \in S PROVE k + 1 \in S
      <4>1. SUFFICES ASSUME k + 1 \in 0..L PROVE v[k + 1] \in Int
        OBVIOUS
      <4>2. k \in 0..L /\ k + 1 \in 1..L /\ (k + 1) - 1 = k
        BY <2>1, <4>1
      <4>3. v[k] \in Int
        BY <3>2, <4>2
      <4>4. v[k + 1] = v[(k + 1) - 1] * r + s[k + 1]
        BY <2>4, <4>2, Zenon
      <4>5. s[k + 1] \in Int
        BY <4>2
      <4>6. v[(k + 1) - 1] * r \in Int
        BY <4>2, <4>3
      <4>7. QED
        BY <4>4, <4>5, <4>6
    <3>3. Nat \subseteq S
      <4> HIDE DEF S
      <4>1. QED
        BY <3>1, <3>2, Induct
    <3>4. QED
      BY <3>3, <2>1
  <2>6. v \in [0..L -> Int]
    BY <1>3, <2>5
  <2>7. QED
    BY <2>3, <2>4, <2>6, Zenon DEF Makes
<1>5. v = g
  <2> HIDE DEF v
  <2>1. QED
    BY <1>1, <1>4, MakesOne
<1>6. Denoted(s, r) = v[Len(s)]
  BY Zenon DEF Denoted
<1>7. QED
  BY <1>1, <1>5, <1>6

(* The largest numbers of k digits. *)
Nines(k, r) == [d \in 1..k |-> r - 1]

LEMMA NinesMore ==
  ASSUME NEW k \in Nat, NEW r \in Nat \ {0}
  PROVE  /\ Nines(0, r) = <<>> /\ Nines(k, r) \in Seq(Int)
         /\ Nines(k + 1, r) = Append(Nines(k, r), r - 1)
BY DEF Nines

LEMMA NinesGive ==
  ASSUME NEW r \in Nat \ {0}
  PROVE  \A k \in Nat : \E x \in Nat : Gives(0, Nines(k, r), r, x)
<1> DEFINE S == {k \in Nat : \E x \in Nat : Gives(0, Nines(k, r), r, x)}
<1>1. 0 \in S
  BY NinesMore, GivesNothing
<1>2. ASSUME NEW k \in Nat, k \in S PROVE k + 1 \in S
  <2>1. PICK x \in Nat : Gives(0, Nines(k, r), r, x)
    BY <1>2
  <2>2. /\ Nines(k, r) \in Seq(Int) /\ Nines(k + 1, r) = Append(Nines(k, r), r - 1)
        /\ r \in Int /\ r - 1 \in Int /\ x \in Int /\ 0 \in Int
    BY <1>2, NinesMore
  <2>3. Gives(0, Append(Nines(k, r), r - 1), r, x * r + (r - 1))
    BY <2>1, <2>2, GivesMore, Zenon
  <2>4. x * r \in Nat /\ r - 1 \in Nat
    OBVIOUS
  <2>5. x * r + (r - 1) \in Nat
    BY <2>4
  <2>6. k + 1 \in Nat
    OBVIOUS
  <2>7. QED
    BY <2>2, <2>3, <2>5, <2>6
<1> HIDE DEF S
<1>3. Nat \subseteq S
  BY <1>1, <1>2, Induct
<1>4. QED
  BY <1>3 DEF S

LEMMA LargestMore ==
  ASSUME NEW k \in Nat, NEW r \in Nat \ {0}
  PROVE  /\ Largest(0, r) = 0 /\ Largest(k, r) \in Nat
         /\ Largest(k + 1, r) = Largest(k, r) * r + (r - 1)
<1>1. r \in Int /\ r - 1 \in Int /\ 0 \in Int
  OBVIOUS
<1>2. \A c \in Nat : Largest(c, r) = Denoted(Nines(c, r), r)
  BY DEF Largest, Nines
<1>3. Denoted(<<>>, r) = 0
  BY <1>1, GivesNothing, Denotes, Sequences, Zenon
<1>4. PICK x \in Nat : Gives(0, Nines(k, r), r, x)
  BY NinesGive
<1>5. Nines(k, r) \in Seq(Int) /\ Nines(k + 1, r) = Append(Nines(k, r), r - 1) /\ x \in Int
  BY NinesMore
<1>6. Denoted(Nines(k, r), r) = x
  BY <1>1, <1>4, <1>5, Denotes, Zenon
<1>7. Gives(0, Append(Nines(k, r), r - 1), r, x * r + (r - 1))
  BY <1>1, <1>4, <1>5, GivesMore, Zenon
<1>8. Denoted(Append(Nines(k, r), r - 1), r) = x * r + (r - 1)
  BY <1>1, <1>5, <1>7, Denotes, Sequences, Zenon
<1>9. Nines(0, r) = <<>> /\ 0 \in Nat /\ k + 1 \in Nat
  BY NinesMore
<1>10. QED
  BY <1>2, <1>3, <1>5, <1>6, <1>8, <1>9, Zenon

(* Digits taken from v, the last one first, leave w. *)
Took(f, s, v, w) ==
  /\ f \in [0..Len(s) -> Int] /\ f[0] = v /\ f[Len(s)] = w
  /\ \A k \in 1..Len(s) : f[k - 1] = f[k] * 10 + s[k]

Leaves(s, v, w) == \E f : Took(f, s, v, w)

LEMMA LeavesAll == ASSUME NEW v \in Int PROVE Leaves(<<>>, v, v)
<1> DEFINE f == [k \in 0..0 |-> v]
<1>1. Took(f, <<>>, v, v)
  BY DEF Took
<1>2. QED
  BY <1>1 DEF Leaves

LEMMA LeavesLess ==
  ASSUME NEW v, NEW s \in Seq(Int), NEW w \in Int, NEW d \in Int, NEW q \in Int,
         w = q * 10 + d, Leaves(s, v, w)
  PROVE  Leaves(Append(s, d), v, q)
<1>1. PICK f : Took(f, s, v, w)
  BY DEF Leaves
<1> DEFINE L == Len(s)
           t == Append(s, d)
           h == [k \in 0..(L + 1) |-> IF k = L + 1 THEN q ELSE f[k]]
<1>2. L \in Nat /\ t \in Seq(Int) /\ Len(t) = L + 1 /\ (\A k \in 1..L : t[k] = s[k]) /\ t[L + 1] = d
  OBVIOUS
<1>3. /\ f \in [0..L -> Int] /\ f[0] = v /\ f[L] = w
      /\ \A k \in 1..L : f[k - 1] = f[k] * 10 + s[k]
  BY <1>1 DEF Took
<1> HIDE DEF L, t
<1>4. h \in [0..(L + 1) -> Int] /\ h[0] = v /\ h[L + 1] = q
  BY <1>2, <1>3
<1>5. \A k \in 1..(L + 1) : h[k - 1] = h[k] * 10 + t[k]
  <2>1. h[(L + 1) - 1] = h[L + 1] * 10 + t[L + 1]
    <3>1. (L + 1) - 1 = L /\ h[L] = w
      BY <1>2, <1>3
    <3>2. QED
      BY <3>1, <1>2, <1>4, Zenon
  <2>2. ASSUME NEW k \in 1..L PROVE h[k - 1] = h[k] * 10 + t[k]
    <3>1. h[k] = f[k] /\ h[k - 1] = f[k - 1]
      BY <1>2
    <3>2. f[k - 1] = f[k] * 10 + s[k] /\ t[k] = s[k]
      BY <1>2, <1>3, Zenon
    <3>3. QED
      BY <3>1, <3>2, Zenon
  <2>3. \A k \in 1..(L + 1) : k \in 1..L \/ k = L + 1
    BY <1>2
  <2>4. QED
    BY <2>1, <2>2, <2>3, Zenon
<1>6. Took(h, t, v, q)
  BY <1>2, <1>4, <1>5, Zenon DEF Took
<1>7. QED
  BY <1>6, Zenon DEF Leaves, t

LEMMA Shorter ==
  \A s \in Seq(Int) : s # <<>> =>
    /\ Len(s) - 1 \in Nat /\ Len(s) = (Len(s) - 1) + 1
    /\ SubSeq(s, 1, Len(s) - 1) \in Seq(Int)
    /\ Len(SubSeq(s, 1, Len(s) - 1)) = Len(s) - 1
    /\ \A k \in 1..(Len(s) - 1) : SubSeq(s, 1, Len(s) - 1)[k] = s[k]
<1> SUFFICES ASSUME NEW s \in Seq(Int), s # <<>>
             PROVE  /\ Len(s) - 1 \in Nat /\ Len(s) = (Len(s) - 1) + 1
                    /\ SubSeq(s, 1, Len(s) - 1) \in Seq(Int)
                    /\ Len(SubSeq(s, 1, Len(s) - 1)) = Len(s) - 1
                    /\ \A k \in 1..(Len(s) - 1) : SubSeq(s, 1, Len(s) - 1)[k] = s[k]
  OBVIOUS
<1>1. Len(s) \in Nat /\ Len(s) > 0
  OBVIOUS
<1>2. Len(s) - 1 \in Nat /\ Len(s) = (Len(s) - 1) + 1
  BY <1>1
<1>3. Len(SubSeq(s, 1, Len(s) - 1)) = Len(s) - 1
  <2> DEFINE m == Len(s) - 1
  <2>1. m \in Nat /\ 1 \in 1..(Len(s) + 1) /\ m \in (1 - 1)..Len(s)
    BY <1>1
  <2>2. Len(SubSeq(s, 1, m)) = IF 1 <= m THEN (m - 1) + 1 ELSE 0
    <3> HIDE DEF m
    <3>1. Len(SubSeq(s, 1, m)) = m - 1 + 1
      BY <2>1, SubSeqProperties
    <3>2. QED
      BY <2>1, <3>1
  <2>3. QED
    <3> HIDE DEF m
    <3>1. Len(SubSeq(s, 1, m)) = m
      BY <2>1, <2>2
    <3>2. QED
      BY <3>1 DEF m
<1>4. \A k \in 1..(Len(s) - 1) : SubSeq(s, 1, Len(s) - 1)[k] = s[k]
  BY <1>1
<1>5. SubSeq(s, 1, Len(s) - 1) \in Seq(Int)
  BY <1>1
<1>6. QED
  BY <1>2, <1>3, <1>4, <1>5

LEMMA LeavesMore ==
  ASSUME NEW v, NEW s \in Seq(Int), s # <<>>, NEW w, Leaves(s, v, w)
  PROVE  Leaves(SubSeq(s, 1, Len(s) - 1), v, w * 10 + s[Len(s)])
<1>1. PICK f : Took(f, s, v, w)
  BY DEF Leaves
<1> DEFINE L == Len(s) - 1
           t == SubSeq(s, 1, L)
           h == [k \in 0..L |-> f[k]]
<1>2. /\ L \in Nat /\ Len(s) = L + 1
      /\ t \in Seq(Int) /\ Len(t) = L /\ (\A k \in 1..L : t[k] = s[k])
  BY Shorter, Zenon
<1>3. /\ f \in [0..(L + 1) -> Int] /\ f[0] = v /\ f[L + 1] = w
      /\ \A k \in 1..(L + 1) : f[k - 1] = f[k] * 10 + s[k]
  BY <1>1, <1>2, Zenon DEF Took
<1>4. f[L] = w * 10 + s[Len(s)]
  <2>1. L + 1 \in 1..(L + 1) /\ (L + 1) - 1 = L
    BY <1>2
  <2>2. f[(L + 1) - 1] = f[L + 1] * 10 + s[L + 1]
    BY <1>3, <2>1, Zenon
  <2>3. QED
    BY <2>1, <2>2, <1>2, <1>3, Zenon
<1> HIDE DEF L, t
<1>5. h \in [0..L -> Int] /\ h[0] = v /\ h[L] = f[L]
  BY <1>2, <1>3
<1>6. \A k \in 1..L : h[k - 1] = h[k] * 10 + t[k]
  <2>1. ASSUME NEW k \in 1..L PROVE h[k - 1] = h[k] * 10 + t[k]
    <3>1. h[k] = f[k] /\ h[k - 1] = f[k - 1] /\ k \in 1..(L + 1)
      BY <1>2
    <3>2. f[k - 1] = f[k] * 10 + s[k] /\ t[k] = s[k]
      BY <3>1, <1>2, <1>3, Zenon
    <3>3. QED
      BY <3>1, <3>2, Zenon
  <2>2. QED
    BY <2>1
<1>7. Took(h, t, v, w * 10 + s[Len(s)])
  BY <1>2, <1>4, <1>5, <1>6, Zenon DEF Took
<1>8. QED
  BY <1>7, Zenon DEF Leaves, t, L


------------------------------------------------------------------------------
(* The numbers shown. *)

(* The digits an int may have. *)
Width == CHOOSE k \in 0..TmpSize : IntMax + 1 <= Largest(k, 10) /\ k + 2 <= NumBuf

Items ==
  {it \in [fn : {"int_to_str", "addr_to_str"}, value : Int, meant : Int, fits : BOOLEAN] :
     /\ it.fits => it.value = it.meant
     /\ it.fn = "int_to_str" => it.value \in Least..IntMax
     /\ it.fn = "addr_to_str" => it.value \in 0..Largest(HexDigits, 16)}

Reading == {"copy", "word", "spaces", "letters", "exec", "strcmp", "done", "isr"}
Between == {"next", "end"}

Sign(v)    == IF v < 0 THEN <<Minus>> ELSE <<>>
Size(v)    == IF v < 0 THEN -v ELSE v
Decimal(s) == s \in Seq(Int) /\ \A k \in 1..Len(s) : s[k] \in 0..9

(* The digits taken so far: there is room for as many as the rest has, and *)
(* the first digit of the number is not 0.                                 *)
InDigits ==
  /\ item.fn = "int_to_str" /\ item.value # 0 /\ text = Sign(item.value)
  /\ Decimal(tmp) /\ Len(tmp) <= Width /\ n \in Nat /\ n <= Largest(Width - Len(tmp), 10)
  /\ Leaves(tmp, Size(item.value), n)
  /\ n = 0 => tmp # <<>> /\ tmp[Len(tmp)] # 0

(* The digits s written back so far. *)
Written(s) ==
  /\ Decimal(s) /\ text = Sign(item.value) \o s
  /\ Len(s) + Len(tmp) <= Width
  /\ \E x \in Nat : Gives(0, s, 10, x) /\ Leaves(tmp, Size(item.value), x)
  /\ s = <<>> => tmp # <<>> /\ tmp[Len(tmp)] # 0
  /\ s # <<>> => s[1] # 0

InReverse ==
  /\ item.fn = "int_to_str" /\ item.value # 0
  /\ Decimal(tmp) /\ \E s : Written(s)

(* The least int after a negation that wrapped: its digits are unknown,    *)
(* their number is not.                                                    *)
Wrapped ==
  /\ item.fn = "int_to_str" /\ item.value = Least /\ text = <<Minus>>
  /\ tmp \in Seq(Int) /\ Len(tmp) <= Width
  /\ n \in Int /\ n <= 0 /\ -n <= Largest(Width - Len(tmp), 10)

WrittenBack ==
  /\ item.fn = "int_to_str" /\ item.value = Least
  /\ text \in Seq(Int) /\ tmp \in Seq(Int)
  /\ Len(tmp) <= Width /\ Len(text) + Len(tmp) <= Width + 1

InAddress ==
  /\ item.fn = "addr_to_str" /\ tmp = <<>>
  /\ text \in Seq(Int) /\ Len(text) <= HexDigits
  /\ n \in Nat /\ n <= Largest(HexDigits - Len(text), 16)
  /\ Gives(n, text, 16, item.value)

(* The text is complete. *)
IsShown ==
  IF item.fn = "addr_to_str"
  THEN Len(Body) = HexDigits /\ Denoted(Body, 16) = item.value
  ELSE (item.value # Least => DecimalOf(item.value)) /\ Len(text) <= NumBuf

NumInv ==
  /\ todo \in Seq(Items) /\ item \in Items
  /\ pc \in Reading \cup Between \cup {"int_to_str", "digits", "reverse", "addr_to_str"}
  /\ pc \in Reading \cup Between \cup {"int_to_str"} => tmp = <<>>
  /\ pc \in Reading \cup {"int_to_str"} => text = <<>>
  /\ pc \in Between => text = <<>> \/ IsShown
  /\ pc = "int_to_str" => item.fn = "int_to_str" /\ n = item.value
  /\ pc = "digits" => InDigits \/ Wrapped
  /\ pc = "reverse" => InReverse \/ WrittenBack
  /\ pc = "addr_to_str" => InAddress

LEMMA WidthIs ==
  /\ Width \in 0..TmpSize /\ IntMax + 1 <= Largest(Width, 10) /\ Width + 2 <= NumBuf
  /\ TmpSize \in Nat /\ NumBuf \in Nat /\ HexDigits \in Nat /\ IntMax \in Nat
<1>1. \E k \in 0..TmpSize : IntMax + 1 <= Largest(k, 10) /\ k + 2 <= NumBuf
  BY NumberAssumption
<1>2. Width \in 0..TmpSize /\ IntMax + 1 <= Largest(Width, 10) /\ Width + 2 <= NumBuf
  BY <1>1, Zenon DEF Width
<1>3. IntMax \in Nat
  BY ReportAssumption DEF IntMax
<1>4. QED
  BY <1>2, <1>3, NumberAssumption

LEMMA AsIntIs ==
  ASSUME NEW u \in Nat
  PROVE  AsInt(u) \in Least..IntMax /\ (u <= IntMax => AsInt(u) = u)
<1> DEFINE w == u % UintWord
<1>1. UintWord \in Nat /\ UintWord > 0 /\ UintWord = 2 * (IntMax + 1) /\ IntMax \in Nat
  BY ReportAssumption DEF IntMax
<1>2. w \in 0..(UintWord - 1) /\ (u < UintWord => w = u)
  BY <1>1
<1> HIDE DEF w
<1>3. AsInt(u) = IF w > IntMax THEN w - UintWord ELSE w
  BY Zenon DEF AsInt, w
<1>4. QED
  BY <1>1, <1>2, <1>3 DEF Least

(* What the commands and the exceptions have to show. *)
LEMMA NumItem ==
  ASSUME NEW v \in Least..IntMax, NEW m \in Int, m <= IntMax => v = m
  PROVE  Num(v, m) \in Items
<1>1. IntMax \in Nat
  BY WidthIs
<1> DEFINE fits == m <= IntMax
<1>2. v \in Int /\ fits \in BOOLEAN /\ (fits => v = m)
  BY <1>1
<1>3. Num(v, m) = [fn |-> "int_to_str", value |-> v, meant |-> m, fits |-> fits]
  BY Zenon DEF Num
<1> HIDE DEF fits
<1>4. QED
  BY <1>2, <1>3 DEF Items

LEMMA NumbersAreItems ==
  /\ \A total \in Pages, free \in Pages : free <= total => MemNumbers(total, free) \in Seq(Items)
  /\ \A sectors \in Sectors : DiskNumbers(sectors) \in Seq(Items)
  /\ \A addr \in Addresses : <<Addr(addr)>> \in Seq(Items)
  /\ \A num \in Codes, code \in Codes : <<Num(num, num), Num(code, code)>> \in Seq(Items)
<1>1. ASSUME NEW total \in Pages, NEW free \in Pages, free <= total
      PROVE  MemNumbers(total, free) \in Seq(Items)
  <2> DEFINE bytes == total * PageSize
             v     == (bytes % UintWord) \div MB
             m     == bytes \div MB
             first == [Num(v, m) EXCEPT !.fits = bytes < UintWord]
  <2>1. total \in Nat /\ free \in Nat /\ bytes \in Nat /\ total - free \in Nat
    BY <1>1, NumberAssumption
  <2>2. UintWord \in Nat /\ UintWord > 0 /\ UintWord = 2 * (IntMax + 1) /\ IntMax \in Nat
        /\ MB \in Nat /\ MB >= 2
    BY ReportAssumption, NumberAssumption DEF IntMax
  <2>3. v \in 0..IntMax /\ m \in Nat /\ (bytes < UintWord => v = m)
    <3> HIDE DEF bytes
    <3>1. bytes % UintWord \in 0..(UintWord - 1) /\ (bytes < UintWord => bytes % UintWord = bytes)
      BY <2>1, <2>2
    <3> DEFINE w == bytes % UintWord
    <3> HIDE DEF w
    <3>2. w \in 0..(UintWord - 1) /\ (bytes < UintWord => w = bytes)
      BY <3>1 DEF w
    <3>3. w \div MB \in Nat /\ 2 * (w \div MB) <= w
      <4> DEFINE q == w \div MB
                 e == w % MB
      <4>1. w \in Nat
        BY <2>2, <3>2
      <4>2. q \in Nat /\ e \in 0..(MB - 1) /\ w = MB * q + e
        BY <4>1, <2>2
      <4> HIDE DEF q, e
      <4>3. 2 * q <= MB * q
        BY <4>2, <2>2
      <4>4. MB * q \in Nat
        BY <4>2, <2>2
      <4>5. 2 * q <= w
        <5> DEFINE z == MB * q
        <5> HIDE DEF z
        <5>1. z \in Nat /\ 2 * q <= z /\ w = z + e
          BY <4>2, <4>3, <4>4 DEF z
        <5>2. QED
          BY <5>1, <4>1, <4>2
      <4>6. QED
        BY <4>2, <4>5 DEF q
    <3>4. w \div MB \in 0..IntMax
      BY <3>2, <3>3, <2>2
    <3>5. bytes \div MB \in Nat
      BY <2>1, <2>2
    <3>6. QED
      BY <3>2, <3>4, <3>5 DEF w
  <2>4. first \in Items
    <3> HIDE DEF v, m, bytes
    <3>1. first = [fn |-> "int_to_str", value |-> v, meant |-> m, fits |-> bytes < UintWord]
      BY DEF Num
    <3>2. (bytes < UintWord) \in BOOLEAN /\ v \in Int /\ m \in Int
          /\ v \in Least..IntMax
      BY <2>1, <2>2, <2>3 DEF Least
    <3>3. QED
      BY <3>1, <3>2, <2>3 DEF Items
  <2>5. Num(AsInt(free), free) \in Items /\ Num(AsInt(total - free), total - free) \in Items
    <3>1. \A u \in Nat : Num(AsInt(u), u) \in Items
      BY AsIntIs, NumItem
    <3>2. QED
      BY <2>1, <3>1
  <2>6. MemNumbers(total, free)
          = <<first, Num(AsInt(free), free), Num(AsInt(total - free), total - free)>>
    BY DEF MemNumbers
  <2> HIDE DEF first
  <2>7. QED
    BY <2>4, <2>5, <2>6
<1>2. ASSUME NEW sectors \in Sectors PROVE DiskNumbers(sectors) \in Seq(Items)
  <2>1. sectors \in Nat /\ (sectors * SectorSize) \div MB \in Nat
    <3> DEFINE bytes == sectors * SectorSize
    <3>1. bytes \in Nat /\ sectors \in Nat
      BY NumberAssumption
    <3> HIDE DEF bytes
    <3>2. bytes \div MB \in Nat
      BY <3>1, NumberAssumption
    <3>3. QED
      BY <3>1, <3>2 DEF bytes
  <2>2. \A u \in Nat : Num(AsInt(u), u) \in Items
    BY AsIntIs, NumItem
  <2>3. QED
    BY <2>1, <2>2 DEF DiskNumbers
<1>3. ASSUME NEW addr \in Addresses PROVE <<Addr(addr)>> \in Seq(Items)
  <2>1. addr \in 0..Largest(HexDigits, 16) /\ addr \in Int
    BY NumberAssumption, LargestMore
  <2>2. Addr(addr) \in Items
    BY <2>1 DEF Addr, Items
  <2>3. QED
    BY <2>2
<1>4. ASSUME NEW num \in Codes, NEW code \in Codes
      PROVE  <<Num(num, num), Num(code, code)>> \in Seq(Items)
  <2>1. \A c \in Codes : Num(c, c) \in Items
    BY NumItem, NumberAssumption
  <2>2. QED
    BY <2>1
<1>5. QED
  BY <1>1, <1>2, <1>3, <1>4


LEMMA SameSeq ==
  \A s \in Seq(Int), t \in Seq(Int) :
    Len(s) = Len(t) /\ (\A k \in 1..Len(s) : s[k] = t[k]) => s = t
BY SeqEqual

LEMMA Associative ==
  \A s \in Seq(Int), t \in Seq(Int), u \in Seq(Int) : (s \o t) \o u = s \o (t \o u)
BY ConcatAssociative

LEMMA WithoutLast ==
  \A s \in Seq(Int), e \in Int :
    SubSeq(Append(s, e), 1, Len(Append(s, e)) - 1) = s
<1> SUFFICES ASSUME NEW s \in Seq(Int), NEW e \in Int
             PROVE  SubSeq(Append(s, e), 1, Len(Append(s, e)) - 1) = s
  OBVIOUS
<1> DEFINE t == Append(s, e)
           r == SubSeq(t, 1, Len(t) - 1)
<1>1. t \in Seq(Int) /\ t # <<>> /\ Len(t) - 1 = Len(s) /\ \A k \in 1..Len(s) : t[k] = s[k]
  OBVIOUS
<1> HIDE DEF t
<1>2. r \in Seq(Int) /\ Len(r) = Len(t) - 1 /\ \A k \in 1..(Len(t) - 1) : r[k] = t[k]
  BY <1>1, Shorter, Zenon
<1>3. r = s
  <2> HIDE DEF r
  <2>1. Len(r) = Len(s) /\ \A k \in 1..Len(s) : r[k] = s[k]
    BY <1>1, <1>2
  <2>2. QED
    BY <1>2, <2>1
<1>4. QED
  BY <1>3 DEF t

LEMMA Signed ==
  \A s \in Seq(Int) :
    /\ <<Minus>> \o s \in Seq(Int) /\ Head(<<Minus>> \o s) = Minus /\ Tail(<<Minus>> \o s) = s
    /\ Len(<<Minus>> \o s) = Len(s) + 1 /\ <<>> \o s = s
<1> SUFFICES ASSUME NEW s \in Seq(Int)
             PROVE  /\ <<Minus>> \o s \in Seq(Int) /\ Head(<<Minus>> \o s) = Minus
                    /\ Tail(<<Minus>> \o s) = s
                    /\ Len(<<Minus>> \o s) = Len(s) + 1 /\ <<>> \o s = s
  OBVIOUS
<1> DEFINE t == <<Minus>> \o s
<1>1. /\ t \in Seq(Int) /\ Len(t) = Len(s) + 1 /\ t[1] = Minus
      /\ \A k \in 2..(Len(s) + 1) : t[k] = s[k - 1]
  BY DEF Minus
<1>2. <<>> \o s = s
  OBVIOUS
<1> HIDE DEF t
<1>3. Len(s) \in Nat
  OBVIOUS
<1>4. t # <<>> /\ Head(t) = Minus
  BY <1>1, <1>3
<1>5. Tail(t) \in Seq(Int) /\ Len(Tail(t)) = Len(s) /\ \A k \in 1..Len(s) : Tail(t)[k] = t[k + 1]
  BY <1>1, <1>3, <1>4
<1>6. \A k \in 1..Len(s) : t[k + 1] = s[k]
  <2>1. ASSUME NEW k \in 1..Len(s) PROVE t[k + 1] = s[k]
    <3>1. k + 1 \in 2..(Len(s) + 1) /\ (k + 1) - 1 = k
      BY <1>3
    <3>2. t[k + 1] = s[(k + 1) - 1]
      BY <1>1, <3>1, Zenon
    <3>3. QED
      BY <3>1, <3>2, Zenon
  <2>2. QED
    BY <2>1
<1>7. Tail(t) = s
  <2> DEFINE u == Tail(t)
  <2>1. u \in Seq(Int) /\ Len(u) = Len(s) /\ \A k \in 1..Len(s) : u[k] = s[k]
    BY <1>5, <1>6, Zenon
  <2> HIDE DEF u
  <2>2. u = s
    BY <2>1, SameSeq, Zenon
  <2>3. QED
    BY <2>2 DEF u
<1>8. QED
  BY <1>1, <1>2, <1>4, <1>7 DEF t

LEMMA AppendSigned ==
  \A s \in Seq(Int), v \in Int, d \in Int :
    /\ Sign(v) \o s \in Seq(Int)
    /\ Append(Sign(v) \o s, d) = Sign(v) \o Append(s, d)
<1> SUFFICES ASSUME NEW s \in Seq(Int), NEW v \in Int, NEW d \in Int
             PROVE  /\ Sign(v) \o s \in Seq(Int)
                    /\ Append(Sign(v) \o s, d) = Sign(v) \o Append(s, d)
  OBVIOUS
<1>1. Sign(v) \in Seq(Int)
  BY DEF Sign, Minus
<1>2. ASSUME NEW u \in Seq(Int)
      PROVE  u \o s \in Seq(Int) /\ Append(u \o s, d) = u \o Append(s, d)
  <2>1. u \o s \in Seq(Int) /\ <<d>> \in Seq(Int)
    OBVIOUS
  <2>2. Append(u \o s, d) = (u \o s) \o <<d>> /\ Append(s, d) = s \o <<d>>
    BY <2>1, AppendIsConcat
  <2>3. (u \o s) \o <<d>> = u \o (s \o <<d>>)
    BY <2>1, Associative, Zenon
  <2>4. QED
    BY <2>1, <2>2, <2>3, Zenon
<1>3. QED
  BY <1>1, <1>2, Zenon

(* A complete text of decimal digits. *)
LEMMA DecimalText ==
  ASSUME NEW v \in Int, NEW s, Decimal(s), s # <<>>, s[1] = 0 => Len(s) = 1,
         Gives(0, s, 10, Size(v)), text' = Append(Sign(v) \o s, EndOfText)
  PROVE  DecimalOf(v)'
<1> DEFINE digits == IF v < 0 THEN Tail(Body') ELSE Body'
<1>1. s \in Seq(Int) /\ \A k \in 1..Len(s) : s[k] \in 0..9
  BY Zenon DEF Decimal
<1>2. EndOfText \in Int /\ Sign(v) \o s \in Seq(Int)
  BY <1>1, AppendSigned DEF EndOfText
<1>3. Body' = Sign(v) \o s
  BY <1>2, WithoutLast, Zenon DEF Body
<1>4. digits = s
  <2>1. CASE v < 0
    BY <2>1, <1>1, <1>3, Signed, Zenon DEF Sign
  <2>2. CASE ~(v < 0)
    BY <2>2, <1>1, <1>3, Signed, Zenon DEF Sign
  <2>3. QED
    BY <2>1, <2>2, Zenon
<1>5. v < 0 => Head(text') = Minus
  <2> SUFFICES ASSUME v < 0 PROVE Head(text') = Minus
    OBVIOUS
  <2> DEFINE t == <<Minus>> \o s
  <2>1. text' = Append(t, EndOfText)
    BY Zenon DEF Sign
  <2>2. t \in Seq(Int) /\ Head(t) = Minus /\ Len(t) = Len(s) + 1 /\ Len(s) \in Nat
    BY <1>1, Signed
  <2> HIDE DEF t
  <2>3. QED
    BY <2>1, <2>2, <1>2
<1>6. Denoted(s, 10) = IF v < 0 THEN -v ELSE v
  <2>1. 10 \in Int
    OBVIOUS
  <2>2. QED
    BY <1>1, <2>1, Denotes, Zenon DEF Size
<1> HIDE DEF digits
<1>7. /\ v < 0 => Head(text') = Minus
      /\ digits # <<>> /\ \A k \in 1..Len(digits) : digits[k] \in 0..9
      /\ digits[1] = 0 => Len(digits) = 1
      /\ Denoted(digits, 10) = IF v < 0 THEN -v ELSE v
  BY <1>1, <1>4, <1>5, <1>6, Zenon
<1>8. QED
  BY <1>7, Zenon DEF DecimalOf, digits


LEMMA Kept ==
  ASSUME NumInv, UNCHANGED numVars, pc' = pc \/ (pc \in Reading /\ pc' \in Reading \cup {"end"})
  PROVE  NumInv'
<1>1. UNCHANGED <<todo, item, n, tmp, text>>
  BY DEF numVars
<1>2. /\ (InDigits => InDigits') /\ (InReverse => InReverse')
      /\ (Wrapped => Wrapped') /\ (WrittenBack => WrittenBack')
      /\ (InAddress => InAddress') /\ (IsShown => IsShown')
  BY <1>1, Zenon DEF InDigits, InReverse, Written, Wrapped, WrittenBack, InAddress, IsShown,
                     Body, DecimalOf
<1>3. \A w \in Reading \cup {"end"} :
        /\ w # "int_to_str" /\ w # "digits" /\ w # "reverse" /\ w # "addr_to_str"
        /\ w \in Reading \cup Between
        /\ w \in Between => w \notin Reading
  BY DEF Reading, Between
<1>4. CASE pc' = pc
  BY <1>1, <1>2, <1>4, Zenon DEF NumInv
<1>5. CASE pc \in Reading /\ pc' \in Reading \cup {"end"}
  BY <1>1, <1>2, <1>3, <1>5, Zenon DEF NumInv
<1>6. QED
  BY <1>4, <1>5

LEMMA LineSteps ==
  ASSUME Line PROVE pc \in Reading /\ pc' \in Reading /\ UNCHANGED numVars
BY DEF Line, shell_exec, shell_exec_args, Copy, Word, Spaces, Letters, Exec, strcmp, Reading

(* A command or an exception hands over what it has to show. *)
LEMMA ShowsStep ==
  ASSUME NumInv, pc \in Reading, NEW items \in Seq(Items), Shows(items)
  PROVE  NumInv'
<1>1. /\ tmp = <<>> /\ text = <<>> /\ item \in Items
  BY DEF NumInv
<1>2. /\ todo' = items /\ pc' = "next" /\ item' = item /\ tmp' = tmp /\ text' = text
  BY DEF Shows
<1>3. QED
  BY <1>1, <1>2 DEF NumInv, Reading, Between

LEMMA NextNumberStep == ASSUME NumInv, NextNumber PROVE NumInv'
<1>1. CASE todo # <<>> /\ item' = Head(todo) /\ todo' = Tail(todo)
           /\ n' = Head(todo).value /\ tmp' = <<>> /\ text' = <<>> /\ pc' = Head(todo).fn
  <2>1. Head(todo) \in Items /\ Tail(todo) \in Seq(Items)
    BY <1>1 DEF NumInv
  <2>2. /\ item'.fn \in {"int_to_str", "addr_to_str"} /\ item'.value \in Int
        /\ item'.fn = "addr_to_str" => item'.value \in 0..Largest(HexDigits, 16)
    BY <1>1, <2>1 DEF Items
  <2>3. pc' = item'.fn /\ n' = item'.value /\ item' \in Items /\ todo' \in Seq(Items)
    BY <1>1, <2>1
  <2>4. CASE pc' = "int_to_str"
    BY <1>1, <2>3, <2>4 DEF NumInv, Reading, Between
  <2>5. CASE pc' = "addr_to_str"
    <3>1. Gives(n', <<>>, 16, item'.value)
      BY <2>2, <2>3, GivesNothing
    <3>2. Len(<<>>) = 0 /\ <<>> \in Seq(Int) /\ HexDigits - 0 = HexDigits /\ 0 <= HexDigits
      BY NumberAssumption
    <3>3. n' \in Nat /\ n' <= Largest(HexDigits, 16)
      <4>1. item'.fn = "addr_to_str"
        BY <2>3, <2>5
      <4>2. QED
        BY <2>2, <2>3, <4>1, LargestMore, NumberAssumption
    <3>4. InAddress'
      BY <1>1, <2>3, <2>5, <3>1, <3>2, <3>3, Zenon DEF InAddress
    <3>5. QED
      BY <1>1, <2>3, <2>5, <3>4 DEF NumInv, Reading, Between
  <2>6. QED
    BY <2>2, <2>3, <2>4, <2>5
<1>2. CASE todo = <<>> /\ pc' = "end" /\ UNCHANGED numVars
  <2>1. pc = "next"
    BY DEF NextNumber
  <2>2. tmp = <<>> /\ (text = <<>> \/ IsShown) /\ item \in Items /\ todo \in Seq(Items)
    BY <2>1 DEF NumInv, Between
  <2>3. IsShown => IsShown'
    BY <1>2, Zenon DEF IsShown, numVars, Body, DecimalOf
  <2>4. UNCHANGED <<todo, item, tmp, text>>
    BY <1>2 DEF numVars
  <2>5. QED
    BY <1>2, <2>2, <2>3, <2>4 DEF NumInv, Reading, Between
<1>3. QED
  BY <1>1, <1>2, Zenon DEF NextNumber

LEMMA ItemParts ==
  ASSUME NumInv
  PROVE  /\ item \in Items /\ item.value \in Int /\ item.fn \in {"int_to_str", "addr_to_str"}
         /\ item.fits => item.value = item.meant
         /\ item.fn = "int_to_str" => item.value \in Least..IntMax
         /\ Size(item.value) \in Nat /\ IntMax \in Nat
         /\ item.fn = "int_to_str" => Size(item.value) <= IntMax + 1
<1>1. item \in Items
  BY DEF NumInv
<1>2. /\ item.value \in Int /\ item.fn \in {"int_to_str", "addr_to_str"}
      /\ item.fits => item.value = item.meant
      /\ item.fn = "int_to_str" => item.value \in Least..IntMax
  BY <1>1, Zenon DEF Items
<1>3. IntMax \in Nat
  BY WidthIs
<1>4. QED
  BY <1>1, <1>2, <1>3 DEF Size, Least

LEMMA IntToStrStep == ASSUME NumInv, int_to_str PROVE NumInv'
<1> DEFINE v == item.value
<1>1. /\ item.fn = "int_to_str" /\ n = v /\ tmp = <<>> /\ text = <<>>
      /\ UNCHANGED <<lineVars, todo, item, tmp>> /\ todo \in Seq(Items)
  BY DEF int_to_str, NumInv
<1>2. /\ v \in Int /\ item \in Items /\ Size(v) \in Nat /\ Size(v) <= IntMax + 1
      /\ IntMax \in Nat
  BY <1>1, ItemParts
<1>3. CASE n = 0 /\ text' = <<0, EndOfText>> /\ pc' = "next" /\ UNCHANGED n
  <2> DEFINE s == <<0>>
  <2>1. s \in Seq(Int) /\ s # <<>> /\ Len(s) = 1 /\ s[1] = 0 /\ \A k \in 1..Len(s) : s[k] \in 0..9
    OBVIOUS
  <2>2. Decimal(s)
    BY <2>1, Zenon DEF Decimal
  <2>3. Size(v) = 0 /\ Sign(v) = <<>>
    BY <1>1, <1>3 DEF Size, Sign
  <2>4. Gives(0, s, 10, Size(v))
    <3>1. Gives(0, <<>>, 10, 0)
      BY GivesNothing
    <3>2. Gives(0, Append(<<>>, 0), 10, 0 * 10 + 0)
      <4>1. 0 \in Int /\ 10 \in Int /\ <<>> \in Seq(Int)
        OBVIOUS
      <4>2. QED
        BY <3>1, <4>1, GivesMore, Zenon
    <3>3. Append(<<>>, 0) = s /\ 0 * 10 + 0 = 0
      OBVIOUS
    <3>4. QED
      BY <2>3, <3>2, <3>3, Zenon
  <2>5. text' = Append(Sign(v) \o s, EndOfText)
    <3>1. <<0, EndOfText>> = Append(<<>> \o s, EndOfText)
      BY DEF EndOfText
    <3>2. QED
      BY <1>3, <2>3, <3>1, Zenon
  <2>6. DecimalOf(v)'
    <3> HIDE DEF s
    <3>1. s[1] = 0 => Len(s) = 1
      BY <2>1, Zenon
    <3>2. DecimalOf(v)'
      BY <1>1, <1>2, <2>1, <2>2, <2>4, <2>5, <3>1, DecimalText, Zenon
    <3>3. QED
      BY <3>2
  <2>7. Len(text') <= NumBuf
    <3>1. Len(<<0, EndOfText>>) <= 2
      OBVIOUS
    <3>2. NumBuf >= 2 /\ NumBuf \in Nat
      BY WidthIs
    <3>3. Len(text') \in Nat /\ Len(text') <= 2
      BY <1>3, <3>1 DEF EndOfText
    <3>4. QED
      BY <3>2, <3>3
  <2>8. IsShown'
    <3>1. item'.fn # "addr_to_str" /\ item'.value = v
      BY <1>1
    <3>2. QED
      BY <2>6, <2>7, <3>1, Zenon DEF IsShown, DecimalOf, Body
  <2>9. QED
    BY <1>1, <1>2, <1>3, <2>8 DEF NumInv, Reading, Between
<1>4. ASSUME n # 0, text' = Sign(v), n' = Size(v), pc' = "digits" PROVE NumInv'
  <2>1. Decimal(<<>>)
    BY DEF Decimal
  <2>2. /\ Width \in Nat /\ Width - 0 = Width /\ 0 <= Width
        /\ IntMax + 1 <= Largest(Width, 10) /\ Largest(Width, 10) \in Nat
    BY WidthIs, LargestMore
  <2>3. Leaves(<<>>, Size(v), n')
    BY <1>2, <1>4, LeavesAll
  <2>4. n' \in Nat /\ n' <= Largest(Width, 10) /\ n' # 0 /\ v # 0
    BY <1>1, <1>2, <1>4, <2>2 DEF Size
  <2>5. Len(<<>>) = 0
    OBVIOUS
  <2>6. InDigits'
    BY <1>1, <1>4, <2>1, <2>2, <2>3, <2>4, <2>5, Zenon DEF InDigits
  <2>7. QED
    BY <1>1, <1>2, <1>4, <2>6 DEF NumInv, Reading, Between
<1>5. CASE n < 0 /\ text' = <<Minus>> /\ n' = -n /\ pc' = "digits"
  BY <1>1, <1>2, <1>4, <1>5 DEF Sign, Size
<1>6. CASE n > 0 /\ pc' = "digits" /\ UNCHANGED <<n, text>>
  BY <1>1, <1>2, <1>4, <1>6 DEF Sign, Size
<1>7. CASE n = Least /\ text' = <<Minus>> /\ pc' = "digits" /\ UNCHANGED n
  <2>1. /\ Width \in Nat /\ Width - 0 = Width /\ 0 <= Width
        /\ IntMax + 1 <= Largest(Width, 10) /\ Largest(Width, 10) \in Nat
    BY WidthIs, LargestMore
  <2>2. Len(<<>>) = 0 /\ <<>> \in Seq(Int)
    OBVIOUS
  <2>3. n' \in Int /\ n' <= 0 /\ -n' <= Largest(Width, 10) /\ v = Least
    BY <1>1, <1>2, <1>7, <2>1 DEF Least
  <2>4. Wrapped'
    BY <1>1, <1>7, <2>1, <2>2, <2>3, Zenon DEF Wrapped
  <2>5. QED
    BY <1>1, <1>2, <1>7, <2>4 DEF NumInv, Reading, Between
<1>8. QED
  BY <1>3, <1>5, <1>6, <1>7, Zenon DEF int_to_str


(* m has one digit more than m \div r, of the numbers up to the largest.   *)
LEMMA OneDigitLess ==
  ASSUME NEW m \in Nat, NEW k \in Nat, NEW r \in Nat \ {0}, m > 0, m <= Largest(k, r)
  PROVE  /\ k > 0 /\ k - 1 \in Nat /\ m \div r <= Largest(k - 1, r)
         /\ m \div r \in Nat /\ m % r \in 0..(r - 1) /\ m = (m \div r) * r + (m % r)
<1>1. k > 0
  <2>1. Largest(0, r) = 0
    BY LargestMore
  <2>2. k # 0
    BY <2>1
  <2>3. QED
    BY <2>2
<1> DEFINE q == m \div r
           e == m % r
           c == Largest(k - 1, r)
<1>2. k - 1 \in Nat /\ (k - 1) + 1 = k
  BY <1>1
<1>3. c \in Nat /\ Largest(k, r) = c * r + (r - 1)
  <2>1. c \in Nat /\ Largest((k - 1) + 1, r) = c * r + (r - 1)
    BY <1>2, LargestMore, Zenon
  <2>2. QED
    BY <1>2, <2>1
<1>4. q \in Nat /\ e \in 0..(r - 1) /\ m = q * r + e
  OBVIOUS
<1> HIDE DEF q, e, c
<1>5. q <= c
  <2>1. SUFFICES ASSUME q >= c + 1 PROVE FALSE
    BY <1>3, <1>4
  <2>2. q * r >= (c + 1) * r
    BY <1>3, <1>4, <2>1
  <2>3. (c + 1) * r = c * r + r
    BY <1>3
  <2> DEFINE x == q * r
             z == c * r
  <2>4. x \in Nat /\ z \in Nat
    BY <1>3, <1>4
  <2>5. m = x + e /\ x >= z + r /\ m <= z + (r - 1)
    BY <1>3, <1>4, <2>2, <2>3
  <2> HIDE DEF x, z
  <2>6. QED
    BY <2>4, <2>5, <1>4
<1>6. QED
  BY <1>1, <1>2, <1>4, <1>5 DEF q, e, c

LEMMA DigitsStep == ASSUME NumInv, InDigits, Digits PROVE NumInv'
<1> DEFINE v == item.value
<1>1. /\ InDigits /\ UNCHANGED <<lineVars, todo, item, text>> /\ todo \in Seq(Items)
      /\ item \in Items /\ v \in Int /\ Size(v) \in Nat
  BY ItemParts DEF Digits, NumInv
<1>2. /\ item.fn = "int_to_str" /\ v # 0 /\ text = Sign(v)
      /\ Decimal(tmp) /\ Len(tmp) <= Width /\ n \in Nat /\ n <= Largest(Width - Len(tmp), 10)
      /\ Leaves(tmp, Size(v), n)
      /\ n = 0 => tmp # <<>> /\ tmp[Len(tmp)] # 0
  BY <1>1, Zenon DEF InDigits
<1>3. tmp \in Seq(Int) /\ (\A k \in 1..Len(tmp) : tmp[k] \in 0..9) /\ Len(tmp) \in Nat
      /\ Width \in Nat
  BY <1>2, WidthIs DEF Decimal
<1>4. CASE n > 0 /\ tmp' = Append(tmp, n % 10) /\ n' = n \div 10 /\ UNCHANGED pc
  <2> DEFINE L == Len(tmp)
             d == n % 10
             q == n \div 10
             t == Append(tmp, d)
  <2>1. Width - L \in Nat
    BY <1>2, <1>3
  <2>2. /\ Width - L > 0 /\ q <= Largest((Width - L) - 1, 10)
        /\ q \in Nat /\ d \in 0..9 /\ n = q * 10 + d
    <3>1. 10 \in Nat \ {0} /\ n > 0
      BY <1>4
    <3>2. /\ Width - L > 0 /\ q <= Largest((Width - L) - 1, 10)
          /\ q \in Nat /\ d \in 0..(10 - 1) /\ n = q * 10 + d
      BY <1>2, <2>1, <3>1, OneDigitLess, Zenon
    <3>3. QED
      BY <3>2
  <2> HIDE DEF L, d, q
  <2>3. t \in Seq(Int) /\ Len(t) = L + 1 /\ (\A k \in 1..L : t[k] = tmp[k]) /\ t[L + 1] = d
    BY <1>3, <2>2 DEF L
  <2>4. Decimal(t)
    <3>1. \A k \in 1..(L + 1) : t[k] \in 0..9
      BY <1>3, <2>2, <2>3 DEF L
    <3>2. QED
      BY <2>3, <3>1, Zenon DEF Decimal
  <2>5. Leaves(t, Size(v), q)
    <3>1. n \in Int /\ q \in Int /\ d \in Int
      BY <1>2, <2>2
    <3>2. QED
      BY <1>2, <1>3, <2>2, <3>1, LeavesLess, Zenon
  <2>6. Len(t) <= Width /\ Width - Len(t) = (Width - L) - 1
    BY <1>2, <1>3, <2>2, <2>3 DEF L
  <2>7. q = 0 => t # <<>> /\ t[Len(t)] # 0
    <3>1. SUFFICES ASSUME q = 0 PROVE t # <<>> /\ t[Len(t)] # 0
      OBVIOUS
    <3>2. d # 0
      BY <1>4, <2>2, <3>1
    <3>3. t[Len(t)] = d
      BY <2>3, Zenon
    <3>4. t # <<>>
      BY <2>3, <1>3 DEF L
    <3>5. QED
      BY <3>2, <3>3, <3>4
  <2>8. tmp' = t /\ n' = q /\ item' = item /\ text' = text
    BY <1>1, <1>4 DEF d, q
  <2> HIDE DEF t
  <2>9. n' \in Nat /\ n' <= Largest(Width - Len(t), 10)
    BY <2>2, <2>6, <2>8, Zenon
  <2>10. InDigits'
    BY <1>2, <2>4, <2>5, <2>6, <2>7, <2>8, <2>9, Zenon DEF InDigits
  <2>11. pc' = "digits"
    BY <1>4 DEF Digits
  <2>12. QED
    BY <1>1, <2>8, <2>10, <2>11 DEF NumInv, Reading, Between
<1>5. ASSUME n = 0, pc' = "reverse", UNCHANGED <<n, tmp>> PROVE NumInv'
  <2>1. Decimal(<<>>)
    BY DEF Decimal
  <2>2. Gives(0, <<>>, 10, 0) /\ Leaves(tmp, Size(v), 0) /\ 0 \in Nat
    BY <1>2, <1>5, GivesNothing
  <2>3. text = Sign(v) \o <<>>
    BY <1>2 DEF Sign
  <2>4. Len(<<>>) + Len(tmp) <= Width
    BY <1>2, <1>3
  <2>5. Written(<<>>)'
    BY <1>1, <1>2, <1>5, <2>1, <2>2, <2>3, <2>4, Zenon DEF Written
  <2>6. InReverse'
    BY <1>1, <1>2, <1>5, <2>5, Zenon DEF InReverse
  <2>7. QED
    BY <1>1, <1>5, <2>6 DEF NumInv, Reading, Between
<1>6. ~(n < 0) /\ (n <= 0 => n = 0)
  BY <1>2
<1>7. QED
  BY <1>4, <1>5, <1>6, Zenon DEF Digits

LEMMA WrappedStep == ASSUME NumInv, Wrapped, Digits PROVE NumInv'
<1>1. /\ item.fn = "int_to_str" /\ item.value = Least /\ text = <<Minus>>
      /\ tmp \in Seq(Int) /\ Len(tmp) <= Width /\ Len(tmp) \in Nat /\ Width \in Nat
      /\ n \in Int /\ n <= 0 /\ -n <= Largest(Width - Len(tmp), 10)
      /\ UNCHANGED <<lineVars, todo, item, text>> /\ todo \in Seq(Items) /\ item \in Items
  BY ItemParts, WidthIs DEF Digits, NumInv, Wrapped
<1>2. CASE n < 0 /\ tmp' = Append(tmp, -((-n) % 10)) /\ n' = -((-n) \div 10) /\ UNCHANGED pc
  <2> DEFINE m == -n
             L == Len(tmp)
             d == m % 10
             q == m \div 10
             t == Append(tmp, -d)
  <2>1. m \in Nat /\ m > 0 /\ m <= Largest(Width - L, 10) /\ Width - L \in Nat
    BY <1>1, <1>2
  <2> HIDE DEF m
  <2>2. Width - L > 0 /\ q <= Largest((Width - L) - 1, 10) /\ q \in Nat /\ d \in 0..(10 - 1)
    <3>1. 10 \in Nat \ {0}
      OBVIOUS
    <3>2. QED
      BY <2>1, <3>1, OneDigitLess, Zenon
  <2>3. tmp' = t /\ n' = -q
    BY <1>2 DEF m
  <2> HIDE DEF q, d
  <2>4. t \in Seq(Int) /\ Len(t) = L + 1
    BY <1>1, <2>2
  <2> HIDE DEF t
  <2>5. Len(t) <= Width /\ Width - Len(t) = (Width - L) - 1
    BY <1>1, <2>2, <2>4
  <2>6. n' \in Int /\ n' <= 0 /\ -n' = q
    BY <2>2, <2>3
  <2>7. Wrapped'
    BY <1>1, <2>2, <2>3, <2>4, <2>5, <2>6, Zenon DEF Wrapped
  <2>8. pc' = "digits"
    BY <1>2 DEF Digits
  <2>9. QED
    BY <1>1, <2>3, <2>7, <2>8 DEF NumInv, Reading, Between
<1>3. CASE n <= 0 /\ pc' = "reverse" /\ UNCHANGED <<n, tmp>>
  <2>1. <<Minus>> \in Seq(Int) /\ Len(<<Minus>>) <= 1 /\ Len(<<Minus>>) \in Nat
    BY DEF Minus
  <2>2. text \in Seq(Int) /\ Len(text) + Len(tmp) <= Width + 1
    <3>1. text \in Seq(Int) /\ Len(text) <= 1 /\ Len(text) \in Nat
      BY <1>1, <2>1, Zenon
    <3>2. QED
      BY <1>1, <3>1
  <2>3. WrittenBack'
    BY <1>1, <1>3, <2>2, Zenon DEF WrittenBack
  <2>4. QED
    BY <1>1, <1>3, <2>3 DEF NumInv, Reading, Between
<1>4. ~(n > 0)
  BY <1>1
<1>5. QED
  BY <1>2, <1>3, <1>4, Zenon DEF Digits

LEMMA ReverseStep == ASSUME NumInv, InReverse, Reverse PROVE NumInv'
<1> DEFINE v == item.value
<1>1. /\ InReverse /\ UNCHANGED <<lineVars, todo, item, n>> /\ todo \in Seq(Items)
      /\ item \in Items /\ v \in Int /\ Size(v) \in Nat
  BY ItemParts DEF Reverse, NumInv
<1>2. PICK s : Written(s)
  BY <1>1, Zenon DEF InReverse
<1>3. PICK x \in Nat : Gives(0, s, 10, x) /\ Leaves(tmp, Size(v), x)
  BY <1>2, Zenon DEF Written
<1>4. /\ item.fn = "int_to_str" /\ v # 0 /\ Decimal(tmp) /\ Decimal(s)
      /\ text = Sign(v) \o s /\ Len(s) + Len(tmp) <= Width
      /\ s = <<>> => tmp # <<>> /\ tmp[Len(tmp)] # 0
      /\ s # <<>> => s[1] # 0
  BY <1>1, <1>2, Zenon DEF InReverse, Written
<1>5. /\ tmp \in Seq(Int) /\ (\A k \in 1..Len(tmp) : tmp[k] \in 0..9) /\ Len(tmp) \in Nat
      /\ s \in Seq(Int) /\ (\A k \in 1..Len(s) : s[k] \in 0..9) /\ Len(s) \in Nat
      /\ Width \in Nat /\ Width + 2 <= NumBuf /\ NumBuf \in Nat
  BY <1>4, WidthIs DEF Decimal
<1>6. CASE tmp # <<>> /\ text' = Append(text, tmp[Len(tmp)])
           /\ tmp' = SubSeq(tmp, 1, Len(tmp) - 1) /\ UNCHANGED pc
  <2> DEFINE d == tmp[Len(tmp)]
             t == Append(s, d)
             u == SubSeq(tmp, 1, Len(tmp) - 1)
  <2>1. d \in 0..9 /\ d \in Int
    <3>1. Len(tmp) \in 1..Len(tmp)
      BY <1>5, <1>6
    <3>2. QED
      BY <1>5, <3>1
  <2>2. /\ u \in Seq(Int) /\ Len(u) = Len(tmp) - 1 /\ \A k \in 1..(Len(tmp) - 1) : u[k] = tmp[k]
    BY <1>5, <1>6, Shorter, Zenon
  <2> HIDE DEF u
  <2>3. Decimal(u)
    <3>1. ASSUME NEW k \in 1..Len(u) PROVE u[k] \in 0..9
      <4>1. k \in 1..(Len(tmp) - 1) /\ k \in 1..Len(tmp)
        BY <1>5, <2>2
      <4>2. QED
        BY <1>5, <2>2, <4>1, Zenon
    <3>2. QED
      BY <2>2, <3>1, Zenon DEF Decimal
  <2>4. t \in Seq(Int) /\ Len(t) = Len(s) + 1 /\ (\A k \in 1..Len(s) : t[k] = s[k])
        /\ t[Len(s) + 1] = d
    BY <1>5, <2>1
  <2>5. Decimal(t)
    <3> HIDE DEF t, d
    <3>1. ASSUME NEW k \in 1..(Len(s) + 1) PROVE t[k] \in 0..9
      <4>1. k \in 1..Len(s) \/ k = Len(s) + 1
        BY <1>5
      <4>2. QED
        BY <1>5, <2>1, <2>4, <4>1, Zenon
    <3>2. QED
      BY <2>4, <3>1, Zenon DEF Decimal
  <2>6. Gives(0, t, 10, x * 10 + d) /\ Leaves(u, Size(v), x * 10 + d) /\ x * 10 + d \in Nat
    <3>1. 0 \in Int /\ 10 \in Int /\ x \in Int
      OBVIOUS
    <3>2. Gives(0, t, 10, x * 10 + d)
      BY <1>3, <1>5, <2>1, <3>1, GivesMore, Zenon
    <3>3. Leaves(u, Size(v), x * 10 + d)
      BY <1>3, <1>5, <1>6, LeavesMore, Zenon DEF u
    <3>4. x * 10 + d \in Nat
      <4> HIDE DEF d
      <4>1. QED
        BY <2>1
    <3>5. QED
      BY <3>2, <3>3, <3>4
  <2>7. Len(t) + Len(u) <= Width
    <3> HIDE DEF t
    <3>1. QED
      BY <1>4, <1>5, <2>2, <2>4
  <2>8. t # <<>> /\ t[1] # 0
    <3>1. t # <<>>
      BY <2>4, <1>5
    <3>2. CASE s = <<>>
      <4>1. t = <<d>>
        BY <3>2
      <4>2. d # 0
        BY <1>4, <3>2
      <4>3. QED
        BY <3>1, <4>1, <4>2
    <3>3. CASE s # <<>>
      <4>1. 1 \in 1..Len(s)
        BY <1>5, <3>3
      <4>2. t[1] = s[1]
        BY <2>4, <4>1, Zenon
      <4>3. QED
        BY <1>4, <3>1, <3>3, <4>2
    <3>4. QED
      BY <3>2, <3>3
  <2>9. text' = Sign(v) \o t
    BY <1>1, <1>4, <1>5, <1>6, <2>1, AppendSigned, Zenon
  <2>10. tmp' = u /\ item' = item /\ pc' = "reverse"
    BY <1>1, <1>6 DEF u, Reverse
  <2> HIDE DEF t, d
  <2>11. PICK w : w = t
    OBVIOUS
  <2>12. Written(w)'
    <3>1. \E z \in Nat : Gives(0, t, 10, z) /\ Leaves(u, Size(v), z)
      BY <2>6, Zenon
    <3>2. QED
      <4>1. text' = Sign(item'.value) \o t /\ Len(t) + Len(tmp') <= Width
        BY <2>7, <2>9, <2>10, Zenon
      <4>2. \E z \in Nat : Gives(0, t, 10, z) /\ Leaves(tmp', Size(item'.value), z)
        BY <3>1, <2>10, Zenon
      <4>3. t = <<>> => tmp' # <<>> /\ tmp'[Len(tmp')] # 0
        BY <2>8
      <4>4. QED
        BY <2>5, <2>8, <2>11, <4>1, <4>2, <4>3, Zenon DEF Written
  <2>13. InReverse'
    BY <1>4, <2>3, <2>10, <2>12, Zenon DEF InReverse
  <2>14. QED
    BY <1>1, <2>10, <2>13 DEF NumInv, Reading, Between
<1>7. CASE tmp = <<>> /\ text' = Append(text, EndOfText) /\ pc' = "next" /\ UNCHANGED tmp
  <2>1. s # <<>> /\ s[1] # 0
    BY <1>4, <1>7
  <2>2. Size(v) = x
    <3>1. PICK f : Took(f, <<>>, Size(v), x)
      BY <1>3, <1>7 DEF Leaves
    <3>2. f[0] = Size(v) /\ f[Len(<<>>)] = x
      BY <3>1, Zenon DEF Took
    <3>3. QED
      BY <3>2
  <2>3. text' = Append(Sign(v) \o s, EndOfText) /\ Gives(0, s, 10, Size(v))
    BY <1>3, <1>4, <1>7, <2>2
  <2>4. DecimalOf(v)'
    BY <1>1, <1>4, <2>1, <2>3, DecimalText, Zenon
  <2>5. Len(text') <= NumBuf
    <3>1. Len(Sign(v) \o s) <= Len(s) + 1 /\ Sign(v) \o s \in Seq(Int)
      <4>1. CASE v < 0
        <5>1. Sign(v) \o s = <<Minus>> \o s
          BY <4>1, Zenon DEF Sign
        <5>2. Len(<<Minus>> \o s) = Len(s) + 1 /\ <<Minus>> \o s \in Seq(Int)
          BY <1>5, Signed, Zenon
        <5>3. QED
          BY <5>1, <5>2, <1>5
      <4>2. CASE ~(v < 0)
        <5>1. Sign(v) \o s = s
          BY <4>2, <1>5, Signed, Zenon DEF Sign
        <5>2. QED
          BY <5>1, <1>5
      <4>3. QED
        BY <4>1, <4>2
    <3> DEFINE w == Sign(v) \o s
    <3> HIDE DEF w
    <3>2. Len(Append(w, EndOfText)) = Len(w) + 1 /\ Len(w) \in Nat /\ Len(w) <= Len(s) + 1
      BY <3>1 DEF w, EndOfText
    <3>3. text' = Append(w, EndOfText)
      BY <2>3 DEF w
    <3>4. Len(s) <= Width
      BY <1>4, <1>5
    <3>5. QED
      BY <1>5, <3>2, <3>3, <3>4
  <2>6. item'.fn # "addr_to_str" /\ item'.value = v
    BY <1>1, <1>4
  <2>7. IsShown'
    BY <2>4, <2>5, <2>6, Zenon DEF IsShown, DecimalOf, Body
  <2>8. QED
    BY <1>1, <1>7, <2>7 DEF NumInv, Reading, Between
<1>8. QED
  BY <1>6, <1>7, Zenon DEF Reverse

LEMMA WrittenBackStep == ASSUME NumInv, WrittenBack, Reverse PROVE NumInv'
<1>1. /\ item.fn = "int_to_str" /\ item.value = Least
      /\ text \in Seq(Int) /\ tmp \in Seq(Int)
      /\ Len(tmp) <= Width /\ Len(text) + Len(tmp) <= Width + 1
      /\ Len(text) \in Nat /\ Len(tmp) \in Nat
      /\ UNCHANGED <<lineVars, todo, item, n>> /\ todo \in Seq(Items) /\ item \in Items
  BY ItemParts DEF Reverse, NumInv, WrittenBack
<1>2. Width \in Nat /\ Width + 2 <= NumBuf /\ NumBuf \in Nat
  BY WidthIs
<1>3. CASE /\ tmp # <<>> /\ text' = Append(text, tmp[Len(tmp)])
           /\ tmp' = SubSeq(tmp, 1, Len(tmp) - 1) /\ UNCHANGED pc
  <2> DEFINE d == tmp[Len(tmp)]
             u == SubSeq(tmp, 1, Len(tmp) - 1)
             t == Append(text, d)
  <2>1. d \in Int
    BY <1>1, <1>3
  <2>2. u \in Seq(Int) /\ Len(u) = Len(tmp) - 1
    BY <1>1, <1>3, Shorter, Zenon
  <2>3. tmp' = u /\ text' = t /\ pc' = "reverse"
    BY <1>3 DEF Reverse
  <2> HIDE DEF d, u
  <2>4. t \in Seq(Int) /\ Len(t) = Len(text) + 1
    BY <1>1, <2>1
  <2> HIDE DEF t
  <2>5. Len(u) <= Width /\ Len(t) + Len(u) <= Width + 1
    BY <1>1, <1>2, <2>2, <2>4
  <2>6. WrittenBack'
    BY <1>1, <2>2, <2>3, <2>4, <2>5, Zenon DEF WrittenBack
  <2>7. QED
    BY <1>1, <2>3, <2>6 DEF NumInv, Reading, Between
<1>4. CASE tmp = <<>> /\ text' = Append(text, EndOfText) /\ pc' = "next" /\ UNCHANGED tmp
  <2>1. Len(text') = Len(text) + 1
    BY <1>1, <1>4 DEF EndOfText
  <2>2. Len(text') <= NumBuf
    BY <1>1, <1>2, <2>1
  <2>3. item'.fn # "addr_to_str" /\ item'.value = Least
    BY <1>1
  <2>4. IsShown'
    BY <2>2, <2>3, Zenon DEF IsShown
  <2>5. QED
    BY <1>1, <1>4, <2>4 DEF NumInv, Reading, Between
<1>5. QED
  BY <1>3, <1>4, Zenon DEF Reverse


LEMMA LargestIsNat == \A k \in Nat : Largest(k, 16) \in Nat
<1>1. 16 \in Nat \ {0}
  OBVIOUS
<1>2. QED
  BY <1>1, LargestMore, Zenon

LEMMA AddressStep == ASSUME NumInv, addr_to_str PROVE NumInv'
<1> DEFINE v == item.value
           L == Len(text)
<1>1. /\ InAddress /\ UNCHANGED <<lineVars, todo, item, tmp>> /\ todo \in Seq(Items)
      /\ item \in Items /\ v \in Int /\ pc = "addr_to_str"
  BY ItemParts DEF addr_to_str, NumInv
<1>2. /\ item.fn = "addr_to_str" /\ tmp = <<>>
      /\ text \in Seq(Int) /\ L <= HexDigits /\ L \in Nat
      /\ n \in Nat /\ n <= Largest(HexDigits - L, 16)
      /\ Gives(n, text, 16, v) /\ HexDigits \in Nat
  BY <1>1, NumberAssumption DEF InAddress
<1>3. HexDigits - L \in Nat
  BY <1>2
<1>4. CASE L < HexDigits /\ text' = <<n % 16>> \o text /\ n' = n \div 16 /\ UNCHANGED pc
  <2> DEFINE d == n % 16
             q == n \div 16
             t == <<d>> \o text
  <2>1. /\ q <= Largest((HexDigits - L) - 1, 16) /\ q \in Nat /\ d \in Nat /\ n = q * 16 + d
    <3>1. CASE n > 0
      <4>1. 16 \in Nat \ {0}
        OBVIOUS
      <4>2. /\ q <= Largest((HexDigits - L) - 1, 16) /\ q \in Nat
            /\ d \in 0..(16 - 1) /\ n = q * 16 + d
        BY <1>2, <1>3, <3>1, <4>1, OneDigitLess, Zenon
      <4>3. QED
        BY <4>2
    <3>2. CASE n = 0
      <4>1. q = 0 /\ d = 0 /\ 0 = 0 * 16 + 0
        BY <3>2
      <4>2. (HexDigits - L) - 1 \in Nat
        BY <1>2, <1>4
      <4>3. Largest((HexDigits - L) - 1, 16) \in Nat
        BY <4>2, LargestIsNat, Zenon
      <4>4. QED
        BY <3>2, <4>1, <4>3
    <3>3. QED
      BY <1>2, <3>1, <3>2
  <2>2. text' = t /\ n' = q /\ item' = item /\ tmp' = tmp /\ pc' = pc
    BY <1>1, <1>4
  <2> HIDE DEF d, q
  <2>3. t \in Seq(Int) /\ Len(t) = L + 1
    BY <1>2, <2>1
  <2> HIDE DEF t
  <2>4. Len(t) <= HexDigits /\ HexDigits - Len(t) = (HexDigits - L) - 1
    <3> HIDE DEF L
    <3>1. QED
      BY <1>2, <1>4, <2>3
  <2>5. Gives(q, t, 16, v)
    <3>1. q \in Int /\ d \in Int /\ 16 \in Int
      BY <2>1
    <3>2. Gives(q * 16 + d, text, 16, v)
      BY <1>2, <2>1
    <3>3. QED
      BY <1>2, <3>1, <3>2, GivesFirst, Zenon DEF t
  <2>6. n' \in Nat /\ n' <= Largest(HexDigits - Len(t), 16)
    BY <2>1, <2>2, <2>4, Zenon
  <2>7. InAddress'
    BY <1>2, <2>2, <2>3, <2>4, <2>5, <2>6, Zenon DEF InAddress
  <2>8. QED
    BY <1>1, <1>2, <2>2, <2>7 DEF NumInv, Reading, Between
<1>5. CASE L = HexDigits /\ text' = Append(text, EndOfText) /\ pc' = "next" /\ UNCHANGED n
  <2>1. Body' = text
    <3>1. EndOfText \in Int
      BY DEF EndOfText
    <3>2. QED
      BY <1>2, <1>5, <3>1, WithoutLast, Zenon DEF Body
  <2>2. n = 0
    <3>1. HexDigits - L = 0
      BY <1>2, <1>5
    <3>2. Largest(0, 16) = 0
      BY LargestMore
    <3>3. n <= 0
      BY <1>2, <3>1, <3>2, Zenon
    <3>4. QED
      BY <1>2, <3>3
  <2>3. Denoted(text, 16) = v
    <3>1. 16 \in Int
      OBVIOUS
    <3>2. QED
      BY <1>2, <2>2, <3>1, Denotes, Zenon
  <2>4. Len(Body') = HexDigits
    BY <1>5, <2>1
  <2>5. IsShown'
    BY <1>1, <1>2, <2>1, <2>3, <2>4, Zenon DEF IsShown
  <2>6. QED
    BY <1>1, <1>2, <1>5, <2>5 DEF NumInv, Reading, Between
<1>6. QED
  BY <1>4, <1>5, Zenon DEF addr_to_str

LEMMA NumInit == Init => NumInv
<1>1. Largest(HexDigits, 16) \in Nat
  BY LargestIsNat, NumberAssumption, Zenon
<1>2. Addr(0) \in Items
  BY <1>1 DEF Addr, Items
<1>3. QED
  BY <1>2 DEF Init, NumInv, Reading, Between

LEMMA NumStep == NumInv /\ [Next]_vars => NumInv'
<1> SUFFICES ASSUME NumInv, [Next]_vars PROVE NumInv'
  OBVIOUS
<1>1. CASE Line
  BY <1>1, LineSteps, Kept
<1>2. CASE mem
  <2>1. PICK total \in Pages, free \in Pages : free <= total /\ Shows(MemNumbers(total, free))
    BY <1>2 DEF mem
  <2>2. pc \in Reading
    BY <1>2 DEF mem, Reading
  <2>3. QED
    BY <2>1, <2>2, NumbersAreItems, ShowsStep
<1>3. CASE disk
  <2>1. PICK sectors \in Sectors : Shows(DiskNumbers(sectors))
    BY <1>3 DEF disk
  <2>2. pc \in Reading
    BY <1>3 DEF disk, Reading
  <2>3. QED
    BY <2>1, <2>2, NumbersAreItems, ShowsStep
<1>4. CASE isr_handler
  <2>1. pc \in Reading
    BY <1>4 DEF isr_handler, Reading
  <2>2. CASE \E addr \in Addresses : Shows(<<Addr(addr)>>)
    BY <2>1, <2>2, NumbersAreItems, ShowsStep
  <2>3. CASE \E num \in Codes, code \in Codes : Shows(<<Num(num, num), Num(code, code)>>)
    BY <2>1, <2>3, NumbersAreItems, ShowsStep
  <2>4. QED
    BY <1>4, <2>2, <2>3 DEF isr_handler
<1>5. CASE Digits
  BY <1>5, DigitsStep, WrappedStep DEF Digits, NumInv
<1>6. CASE Reverse
  BY <1>6, ReverseStep, WrittenBackStep DEF Reverse, NumInv
<1>7. CASE UNCHANGED vars
  BY <1>7, Kept DEF vars
<1>8. QED
  BY <1>1, <1>2, <1>3, <1>4, <1>5, <1>6, <1>7, IntToStrStep, AddressStep, NextNumberStep,
     Zenon DEF Next, Number

LEMMA NumInvariant == Spec => []NumInv
BY NumInit, NumStep, PTL DEF Spec

(* Whatever number is shown, its text denotes it, in the fewest decimal    *)
(* digits or in all hexadecimal ones, the least int excepted, whose        *)
(* negation is undefined; it is the number that was meant wherever the     *)
(* types hold it; and no digit, the least int's included, is written       *)
(* behind tmp or the caller's buffer, for every width of the types         *)
(* (fb.c:215-235, shell.c:61-85, idt.c:41-64).                             *)
THEOREM NumbersAreShown == Spec => []NumberShown
<1>1. NumInv => NumberShown
  <2> SUFFICES ASSUME NumInv PROVE NumberShown
    OBVIOUS
  <2>1. Width \in 0..TmpSize /\ Width + 2 <= NumBuf /\ TmpSize \in Nat /\ NumBuf \in Nat
    BY WidthIs
  <2>2. Len(<<>>) = 0
    OBVIOUS
  <2>3. item.fits => item.value = item.meant
    BY ItemParts
  <2>4. CASE pc \in Reading \cup Between \cup {"int_to_str"}
    <3>1. Len(tmp) <= TmpSize
      BY <2>1, <2>2, <2>4 DEF NumInv
    <3>2. text = <<>> \/ IsShown
      BY <2>4 DEF NumInv, Reading, Between
    <3>3. item.fn = "int_to_str" => Len(text) <= NumBuf
      <4>1. CASE text = <<>>
        BY <2>1, <2>2, <4>1
      <4>2. CASE IsShown
        BY <4>2 DEF IsShown
      <4>3. QED
        BY <3>2, <4>1, <4>2
    <3>4. text # <<>> => IF item.fn = "addr_to_str"
                         THEN Len(Body) = HexDigits /\ Denoted(Body, 16) = item.value
                         ELSE item.value # Least => DecimalOf(item.value)
      BY <3>2, Zenon DEF IsShown
    <3>5. QED
      BY <2>3, <3>1, <3>3, <3>4, Zenon DEF NumberShown
  <2>5. CASE pc = "digits"
    <3>1. (InDigits \/ Wrapped) /\ pc \notin {"next", "end"} /\ item.value \in Int
      BY <2>5, ItemParts DEF NumInv
    <3>2. text = Sign(item.value) /\ Len(tmp) <= Width /\ Len(tmp) \in Nat
      <4>1. CASE InDigits
        BY <4>1 DEF InDigits, Decimal
      <4>2. CASE Wrapped
        <5>1. item.value < 0 /\ Len(tmp) <= Width /\ Len(tmp) \in Nat
          BY <4>2, WidthIs DEF Wrapped, Least
        <5>2. QED
          BY <4>2, <5>1, Zenon DEF Wrapped, Sign
      <4>3. QED
        BY <3>1, <4>1, <4>2
    <3>3. Len(text) <= 1
      <4>1. Len(<<Minus>>) <= 1 /\ Len(<<>>) <= 1
        BY DEF Minus
      <4>2. QED
        BY <3>2, <4>1, Zenon DEF Sign
    <3>4. Len(text) \in Nat
      BY <3>1, <3>2 DEF Sign, Minus
    <3>5. Len(tmp) <= TmpSize /\ Len(text) <= NumBuf
      BY <2>1, <3>2, <3>3, <3>4
    <3>6. QED
      BY <3>1, <3>5, Zenon DEF NumberShown
  <2>6. CASE pc = "reverse"
    <3>1. (InReverse \/ WrittenBack) /\ pc \notin {"next", "end"} /\ item.value \in Int
      BY <2>6, ItemParts DEF NumInv
    <3>2. CASE InReverse
      <4>1. PICK s : Written(s)
        BY <3>2 DEF InReverse
      <4>2. /\ text = Sign(item.value) \o s /\ Len(s) + Len(tmp) <= Width
            /\ s \in Seq(Int) /\ tmp \in Seq(Int)
        BY <3>2, <4>1, Zenon DEF Written, Decimal, InReverse
      <4>3. Len(<<Minus>> \o s) = Len(s) + 1 /\ <<>> \o s = s /\ Len(s) \in Nat /\ Len(tmp) \in Nat
        BY <4>2, Signed
      <4>4. Len(text) = Len(s) + 1 \/ Len(text) = Len(s)
        BY <4>2, <4>3, Zenon DEF Sign
      <4>5. Len(tmp) <= TmpSize /\ Len(text) <= NumBuf
        BY <2>1, <4>2, <4>3, <4>4
      <4>6. QED
        BY <3>1, <4>5, Zenon DEF NumberShown
    <3>3. CASE WrittenBack
      <4>1. PICK L : L = Len(text)
        OBVIOUS
      <4>2. /\ Len(tmp) \in Nat /\ L \in Nat
            /\ Len(tmp) <= Width /\ L + Len(tmp) <= Width + 1
        BY <3>3, <4>1 DEF WrittenBack
      <4>3. Len(tmp) <= TmpSize /\ Len(text) <= NumBuf
        BY <2>1, <4>1, <4>2
      <4>4. QED
        BY <3>1, <4>3, Zenon DEF NumberShown
    <3>4. QED
      BY <3>1, <3>2, <3>3
  <2>7. CASE pc = "addr_to_str"
    <3>1. tmp = <<>> /\ item.fn # "int_to_str" /\ pc \notin {"next", "end"}
      BY <2>7 DEF NumInv, InAddress
    <3>2. Len(tmp) <= TmpSize
      BY <2>1, <2>2, <3>1
    <3>3. QED
      BY <3>1, <3>2, Zenon DEF NumberShown
  <2>8. QED
    BY <2>4, <2>5, <2>6, <2>7 DEF NumInv
<1>2. QED
  BY <1>1, NumInvariant, PTL


------------------------------------------------------------------------------
(* Strings. *)

LEMMA Slice ==
  \A s \in Seq(Chars), m \in Nat \ {0}, w \in Nat :
    m <= w + 1 /\ w <= Len(s) =>
      /\ SubSeq(s, m, w) \in Seq(Chars) /\ Len(SubSeq(s, m, w)) = (w - m) + 1
      /\ \A k \in 1..((w - m) + 1) : SubSeq(s, m, w)[k] = s[(m + k) - 1]
<1> SUFFICES ASSUME NEW s \in Seq(Chars), NEW m \in Nat \ {0}, NEW w \in Nat,
                    m <= w + 1, w <= Len(s)
             PROVE  /\ SubSeq(s, m, w) \in Seq(Chars) /\ Len(SubSeq(s, m, w)) = (w - m) + 1
                    /\ \A k \in 1..((w - m) + 1) : SubSeq(s, m, w)[k] = s[(m + k) - 1]
  OBVIOUS
<1>1. \A k \in m..w : s[k] \in Chars
  OBVIOUS
<1>2. /\ SubSeq(s, m, w) \in Seq(Chars)
      /\ Len(SubSeq(s, m, w)) = IF m <= w THEN (w - m) + 1 ELSE 0
      /\ \A k \in 1..((w - m) + 1) : SubSeq(s, m, w)[k] = s[(m + k) - 1]
  <2>1. m \in Int /\ w \in Int
    OBVIOUS
  <2>2. /\ SubSeq(s, m, w) \in Seq(Chars)
        /\ Len(SubSeq(s, m, w)) = IF m <= w THEN w - m + 1 ELSE 0
        /\ \A k \in 1..(w - m + 1) : SubSeq(s, m, w)[k] = s[m + k - 1]
    BY <1>1, <2>1, SubSeqProperties
  <2>3. \A k \in 1..(w - m + 1) : m + k - 1 = (m + k) - 1
    OBVIOUS
  <2>4. QED
    BY <2>2, <2>3
<1>3. (IF m <= w THEN (w - m) + 1 ELSE 0) = (w - m) + 1
  OBVIOUS
<1>4. QED
  BY <1>2, <1>3, Zenon

LEMMA SameString ==
  \A s \in Seq(Chars), t \in Seq(Chars) :
    Len(s) = Len(t) /\ (\A k \in 1..Len(s) : s[k] = t[k]) => s = t
BY SeqEqual

(* CString(s) stops in front of the first NUL. *)
Stops(s, m) ==
  /\ m \in 0..Len(s) /\ \A i \in 1..m : s[i] # NUL
  /\ m < Len(s) => s[m + 1] = NUL

LEMMA StopsOnce ==
  ASSUME NEW s \in Seq(Chars), NEW m, NEW k, Stops(s, m), Stops(s, k)
  PROVE  m = k
<1>1. m \in 0..Len(s) /\ k \in 0..Len(s) /\ Len(s) \in Nat
  BY DEF Stops
<1>2. ASSUME m < k PROVE FALSE
  <2>1. m < Len(s) /\ m + 1 \in 1..k
    BY <1>1, <1>2
  <2>2. QED
    BY <2>1, Zenon DEF Stops
<1>3. ASSUME k < m PROVE FALSE
  <2>1. k < Len(s) /\ k + 1 \in 1..m
    BY <1>1, <1>3
  <2>2. QED
    BY <2>1, Zenon DEF Stops
<1>4. QED
  BY <1>1, <1>2, <1>3

LEMMA CStringIs ==
  ASSUME NEW s \in Seq(Chars), NEW m, Stops(s, m)
  PROVE  CString(s) = SubSeq(s, 1, m)
<1> DEFINE c == CHOOSE k \in 0..Len(s) :
                  /\ \A i \in 1..k : s[i] # NUL
                  /\ k < Len(s) => s[k + 1] = NUL
<1>1. \E k \in 0..Len(s) : (\A i \in 1..k : s[i] # NUL) /\ (k < Len(s) => s[k + 1] = NUL)
  BY Zenon DEF Stops
<1>2. Stops(s, c)
  BY <1>1, Zenon DEF Stops
<1>3. c = m
  <2> HIDE DEF c
  <2>1. QED
    BY <1>2, StopsOnce
<1>4. CString(s) = SubSeq(s, 1, c)
  BY Zenon DEF CString
<1>5. QED
  BY <1>3, <1>4, Zenon

LEMMA StopsSomewhere == \A s \in Seq(Chars) : \E m : Stops(s, m)
<1> SUFFICES ASSUME NEW s \in Seq(Chars) PROVE \E m : Stops(s, m)
  OBVIOUS
<1> DEFINE S == {m \in Nat : m <= Len(s) /\ (m < Len(s) => s[m + 1] = NUL)}
<1>1. Len(s) \in S
  OBVIOUS
<1>2. PICK m \in S : \A z \in S : ~(z < m)
  <2> HIDE DEF S
  <2>1. S # {}
    BY <1>1
  <2>2. S \subseteq Nat
    BY DEF S
  <2>3. QED
    BY <2>1, <2>2, LeastOf
<1>3. \A i \in 1..m : s[i] # NUL
  <2>1. SUFFICES ASSUME NEW i \in 1..m, s[i] = NUL PROVE FALSE
    OBVIOUS
  <2>2. i - 1 \in Nat /\ (i - 1) + 1 = i /\ i - 1 < m /\ i - 1 <= Len(s) /\ m \in Nat
    <3>1. m \in Nat /\ m <= Len(s) /\ Len(s) \in Nat
      OBVIOUS
    <3>2. QED
      BY <3>1
  <2>3. i - 1 \in S
    BY <2>1, <2>2
  <2>4. QED
    BY <1>2, <2>2, <2>3
<1>4. Stops(s, m)
  BY <1>3 DEF Stops
<1>5. QED
  BY <1>4

(* What shell_exec has to work on: the first k characters of the line,     *)
(* with no NUL among them, when it ends there or the buffer is full.       *)
LEMMA CopiedIs ==
  ASSUME NEW s \in Seq(Chars), NEW k \in 0..Len(s), k < BufSize,
         \A i \in 1..k : s[i] # NUL,
         (k < Len(s) => s[k + 1] = NUL) \/ k = BufSize - 1
  PROVE  Copied(CString(s)) = SubSeq(s, 1, k)
<1>1. PICK m : Stops(s, m)
  BY StopsSomewhere
<1>2. CString(s) = SubSeq(s, 1, m) /\ m \in 0..Len(s) /\ Len(s) \in Nat /\ BufSize \in Nat
  BY <1>1, CStringIs, LineAssumption DEF Stops
<1> DEFINE c == SubSeq(s, 1, m)
<1>3. c \in Seq(Chars) /\ Len(c) = m /\ \A i \in 1..m : c[i] = s[i]
  <2>1. 1 \in Nat \ {0} /\ m \in Nat /\ 1 <= m + 1 /\ m <= Len(s) /\ (m - 1) + 1 = m
        /\ \A i \in 1..m : (1 + i) - 1 = i
    BY <1>2
  <2>2. c \in Seq(Chars) /\ Len(c) = (m - 1) + 1 /\ \A i \in 1..((m - 1) + 1) : c[i] = s[(1 + i) - 1]
    BY <2>1, Slice, Zenon
  <2>3. QED
    BY <2>1, <2>2
<1>4. k <= m
  <2>1. SUFFICES ASSUME m < k PROVE FALSE
    BY <1>2
  <2>2. m < Len(s) /\ m + 1 \in 1..k
    BY <1>2, <2>1
  <2>3. QED
    BY <1>1, <2>2 DEF Stops
<1> HIDE DEF c
<1> DEFINE w == IF Len(c) < BufSize THEN Len(c) ELSE BufSize - 1
<1>5. w = k
  <2>1. CASE k < Len(s) => s[k + 1] = NUL
    <3>1. Stops(s, k)
      BY <2>1, <1>2 DEF Stops
    <3>2. m = k
      BY <1>1, <3>1, StopsOnce
    <3>3. QED
      BY <1>3, <3>2
  <2>2. CASE k = BufSize - 1
    BY <1>2, <1>3, <1>4, <2>2
  <2>3. QED
    BY <2>1, <2>2
<1>6. Copied(CString(s)) = SubSeq(c, 1, w)
  BY <1>2, Zenon DEF Copied, c
<1>7. SubSeq(c, 1, k) = SubSeq(s, 1, k)
  <2> DEFINE u == SubSeq(c, 1, k)
             v == SubSeq(s, 1, k)
  <2>1. 1 \in Nat \ {0} /\ k \in Nat /\ 1 <= k + 1 /\ k <= Len(s) /\ k <= Len(c) /\ (k - 1) + 1 = k
        /\ \A i \in 1..k : (1 + i) - 1 = i /\ i \in 1..m
    BY <1>2, <1>3, <1>4
  <2>2. u \in Seq(Chars) /\ Len(u) = (k - 1) + 1 /\ \A i \in 1..((k - 1) + 1) : u[i] = c[(1 + i) - 1]
    BY <1>3, <2>1, Slice, Zenon
  <2>3. v \in Seq(Chars) /\ Len(v) = (k - 1) + 1 /\ \A i \in 1..((k - 1) + 1) : v[i] = s[(1 + i) - 1]
    BY <2>1, Slice, Zenon
  <2> HIDE DEF u, v
  <2>4. Len(u) = Len(v) /\ \A i \in 1..Len(u) : u[i] = v[i]
    BY <1>3, <2>1, <2>2, <2>3
  <2>5. u = v
    BY <2>2, <2>3, <2>4, SameString, Zenon
  <2>6. QED
    BY <2>5 DEF u, v
<1>8. QED
  BY <1>5, <1>6, <1>7, Zenon


------------------------------------------------------------------------------
(* Words.  Places are counted from 0, as in buf. *)

IsStart(t, q) == q \in 0..(Len(t) - 1) /\ t[q + 1] # Space /\ (q = 0 \/ t[q] = Space)

EndsAt(t, q, e) ==
  /\ e \in (q + 1)..Len(t) /\ \A i \in q..(e - 1) : t[i + 1] # Space
  /\ e < Len(t) => t[e + 1] = Space

(* The starts in front of P, in order. *)
Enumerates(s, t, P) ==
  /\ s \in Seq(Nat) /\ Len(s) <= MaxArgs
  /\ \A m \in 1..Len(s) : IsStart(t, s[m]) /\ s[m] < P
  /\ \A q \in Nat : IsStart(t, q) /\ q < P => \E m \in 1..Len(s) : s[m] = q
  /\ \A m \in 1..Len(s) : \A k \in 1..Len(s) : m < k => s[m] < s[k]

LEMMA Counted ==
  ASSUME NEW k \in Nat, NEW f, NEW T, f \in [1..k -> T],
         \A x \in T : \E m \in 1..k : f[m] = x,
         \A m \in 1..k : \A i \in 1..k : m < i => f[m] # f[i]
  PROVE  IsFiniteSet(T) /\ Cardinality(T) = k
<1>1. IsFiniteSet(1..k) /\ Cardinality(1..k) = k
  BY FS_Interval
<1>2. \A m \in 1..k : \A i \in 1..k : f[m] = f[i] => m = i
  <2>1. \A m \in 1..k : \A i \in 1..k : m < i \/ i < m \/ m = i
    OBVIOUS
  <2>2. QED
    BY <2>1, Zenon
<1>3. DOMAIN f = 1..k
  OBVIOUS
<1>4. f \in Bijection(1..k, T)
  BY <1>2, <1>3, Zenon DEF Bijection, Injection, Surjection, IsInjective
<1>5. ExistsBijection(1..k, T)
  BY <1>4, Zenon DEF ExistsBijection
<1>6. QED
  BY <1>1, <1>5, FS_Bijection, Zenon

LEMMA EndsOnce ==
  ASSUME NEW t \in Seq(Chars), NEW q \in Nat, NEW d, NEW e, EndsAt(t, q, d), EndsAt(t, q, e)
  PROVE  d = e
<1>1. /\ d \in (q + 1)..Len(t) /\ e \in (q + 1)..Len(t) /\ Len(t) \in Nat
      /\ \A i \in q..(e - 1) : t[i + 1] # Space
      /\ \A i \in q..(d - 1) : t[i + 1] # Space
      /\ d < Len(t) => t[d + 1] = Space
      /\ e < Len(t) => t[e + 1] = Space
  BY DEF EndsAt
<1>2. ASSUME d < e PROVE FALSE
  <2>1. d < Len(t) /\ d \in q..(e - 1)
    BY <1>1, <1>2
  <2>2. QED
    BY <1>1, <2>1, Zenon
<1>3. ASSUME e < d PROVE FALSE
  <2>1. e < Len(t) /\ e \in q..(d - 1)
    BY <1>1, <1>3
  <2>2. QED
    BY <1>1, <2>1, Zenon
<1>4. QED
  BY <1>1, <1>2, <1>3

(* Argv cuts out the words that start where s says. *)
LEMMA ArgvIs ==
  ASSUME NEW t \in Seq(Chars), NEW P \in Nat, NEW s, Enumerates(s, t, P),
         Len(s) = MaxArgs \/ P >= Len(t)
  PROVE  /\ Argv(t) = [k \in 1..Len(s) |-> Argv(t)[k]]
         /\ \A k \in 1..Len(s) : \A e : EndsAt(t, s[k], e) => Argv(t)[k] = SubSeq(t, s[k] + 1, e)
<1> DEFINE starts == {i \in 1..Len(t) : t[i] # Space /\ (i = 1 \/ t[i - 1] = Space)}
           Stop(i) == CHOOSE e \in i..Len(t) : /\ \A j_1 \in i..e : t[j_1] # Space
                                               /\ e < Len(t) => t[e + 1] = Space
           Upto(i) == {x \in starts : x <= i}
           Start(k) == CHOOSE i \in starts : Cardinality(Upto(i)) = k
           argc == IF Cardinality(starts) < MaxArgs THEN Cardinality(starts) ELSE MaxArgs
<1>1. /\ s \in Seq(Nat) /\ Len(s) <= MaxArgs /\ MaxArgs \in Nat /\ Len(t) \in Nat /\ Len(s) \in Nat
      /\ \A m \in 1..Len(s) : IsStart(t, s[m]) /\ s[m] < P /\ s[m] \in Nat
      /\ \A q \in Nat : IsStart(t, q) /\ q < P => \E m \in 1..Len(s) : s[m] = q
      /\ \A m \in 1..Len(s) : \A k \in 1..Len(s) : m < k => s[m] < s[k]
  BY LineAssumption DEF Enumerates
<1>2. \A q \in Nat : IsStart(t, q) <=> q + 1 \in starts
  <2>1. SUFFICES ASSUME NEW q \in Nat PROVE IsStart(t, q) <=> q + 1 \in starts
    OBVIOUS
  <2>2. /\ q \in 0..(Len(t) - 1) <=> q + 1 \in 1..Len(t)
        /\ q = 0 <=> q + 1 = 1
        /\ (q + 1) - 1 = q
    BY <1>1
  <2>3. QED
    BY <2>2, Zenon DEF IsStart
<1>3. starts \subseteq 1..Len(t) /\ IsFiniteSet(starts) /\ Cardinality(starts) \in Nat
  <2>1. starts \subseteq 1..Len(t)
    OBVIOUS
  <2>2. IsFiniteSet(1..Len(t))
    BY <1>1, FS_Interval
  <2>3. IsFiniteSet(starts)
    BY <2>1, <2>2, FS_Subset
  <2>4. QED
    BY <2>1, <2>3, FS_CardinalityType
<1> HIDE DEF starts
<1>4. \A i \in starts : i - 1 \in Nat /\ IsStart(t, i - 1) /\ i \in Nat
  <2>1. SUFFICES ASSUME NEW i \in starts
                 PROVE  i - 1 \in Nat /\ IsStart(t, i - 1) /\ i \in Nat
    OBVIOUS
  <2>2. i \in 1..Len(t)
    BY <1>3
  <2>3. i - 1 \in Nat /\ (i - 1) + 1 = i /\ i \in Nat
    BY <2>2
  <2>4. IsStart(t, i - 1) <=> (i - 1) + 1 \in starts
    BY <1>2, <2>3, Zenon
  <2>5. QED
    BY <2>3, <2>4
<1>0. \A m \in 1..Len(s) : s[m] \in Nat /\ s[m] + 1 \in starts
  BY <1>1, <1>2, Zenon
<1>5. ASSUME NEW k \in 1..Len(s)
      PROVE  /\ s[k] + 1 \in starts /\ IsFiniteSet(Upto(s[k] + 1))
             /\ Cardinality(Upto(s[k] + 1)) = k
  <2> DEFINE f == [m \in 1..k |-> s[m] + 1]
             T == Upto(s[k] + 1)
  <2>1. s[k] + 1 \in starts /\ k \in Nat
    BY <1>0, <1>1
  <2>2. \A m \in 1..k : m \in 1..Len(s) /\ s[m] \in Nat /\ s[m] + 1 \in starts
                        /\ (m < k \/ m = k)
    <3>1. \A m \in 1..k : m \in 1..Len(s) /\ (m < k \/ m = k)
      BY <1>1
    <3>2. QED
      BY <1>0, <3>1
  <2>3. \A m \in 1..k : s[m] + 1 <= s[k] + 1
    <3>1. \A m \in 1..k : s[m] < s[k] \/ s[m] = s[k]
      BY <1>1, <2>2
    <3>2. QED
      BY <1>1, <2>2, <3>1
  <2>4. f \in [1..k -> T]
    BY <2>2, <2>3
  <2>5. \A x \in T : \E m \in 1..k : f[m] = x
    <3>1. SUFFICES ASSUME NEW x \in T PROVE \E m \in 1..k : f[m] = x
      OBVIOUS
    <3>2. x \in starts /\ x <= s[k] + 1 /\ x - 1 \in Nat /\ IsStart(t, x - 1) /\ x \in Nat
      BY <1>4
    <3>3. x - 1 < P
      BY <1>1, <3>2
    <3>4. PICK m \in 1..Len(s) : s[m] = x - 1
      BY <1>1, <3>2, <3>3, Zenon
    <3>5. m \in 1..k
      <4>1. SUFFICES ASSUME k < m PROVE FALSE
        BY <1>1
      <4>2. s[k] < s[m]
        BY <1>1, <4>1
      <4>3. QED
        BY <1>1, <3>2, <3>4, <4>2
    <3>6. s[m] + 1 = x
      BY <3>2, <3>4
    <3>7. QED
      BY <3>5, <3>6
  <2>6. \A m \in 1..k : \A i \in 1..k : m < i => f[m] # f[i]
    <3>1. SUFFICES ASSUME NEW m \in 1..k, NEW i \in 1..k, m < i PROVE s[m] + 1 # s[i] + 1
      OBVIOUS
    <3>2. s[m] < s[i] /\ s[m] \in Nat /\ s[i] \in Nat
      BY <1>1, <2>2, <3>1
    <3>3. QED
      BY <3>2
  <2> HIDE DEF f, T
  <2>7. IsFiniteSet(T) /\ Cardinality(T) = k
    BY <2>1, <2>4, <2>5, <2>6, Counted
  <2>8. QED
    BY <2>1, <2>7 DEF T
<1>6. ASSUME NEW h \in starts, NEW i \in starts, Cardinality(Upto(h)) = Cardinality(Upto(i))
      PROVE  h = i
  <2>1. h \in Nat /\ i \in Nat
    BY <1>4
  <2>2. IsFiniteSet(Upto(h)) /\ IsFiniteSet(Upto(i))
    <3>1. Upto(h) \subseteq starts /\ Upto(i) \subseteq starts
      OBVIOUS
    <3>2. QED
      BY <1>3, <3>1, FS_Subset
  <2>3. CASE h < i
    <3>1. Upto(h) \subseteq Upto(i) /\ i \in Upto(i) /\ i \notin Upto(h)
      <4>1. \A x \in starts : x <= h => x <= i
        BY <1>4, <2>1, <2>3
      <4>2. i <= i /\ ~(i <= h)
        BY <2>1, <2>3
      <4>3. QED
        BY <4>1, <4>2
    <3>2. QED
      BY <1>6, <2>2, <3>1, FS_Subset
  <2>4. CASE i < h
    <3>1. Upto(i) \subseteq Upto(h) /\ h \in Upto(h) /\ h \notin Upto(i)
      <4>1. \A x \in starts : x <= i => x <= h
        BY <1>4, <2>1, <2>4
      <4>2. h <= h /\ ~(h <= i)
        BY <2>1, <2>4
      <4>3. QED
        BY <4>1, <4>2
    <3>2. QED
      BY <1>6, <2>2, <3>1, FS_Subset
  <2>5. QED
    BY <2>1, <2>3, <2>4
<1>7. ASSUME NEW k \in 1..Len(s) PROVE Start(k) = s[k] + 1
  <2>1. \E i \in starts : Cardinality(Upto(i)) = k
    BY <1>5
  <2>2. Start(k) \in starts /\ Cardinality(Upto(Start(k))) = k
    BY <2>1, Zenon
  <2> HIDE DEF Start
  <2>3. QED
    BY <1>5, <1>6, <2>2
<1>8. argc = Len(s)
  <2>1. CASE Len(s) = MaxArgs
    <3>1. Cardinality(Upto(s[Len(s)] + 1)) = Len(s)
      <4>1. Len(s) \in 1..Len(s)
        BY <1>1, <2>1, LineAssumption
      <4>2. QED
        BY <1>5, <4>1, Zenon
    <3>2. Upto(s[Len(s)] + 1) \subseteq starts
      OBVIOUS
    <3>3. Cardinality(Upto(s[Len(s)] + 1)) <= Cardinality(starts)
      BY <1>3, <3>2, FS_Subset
    <3>4. Len(s) <= Cardinality(starts)
      BY <3>1, <3>3, Zenon
    <3>5. QED
      BY <1>1, <1>3, <2>1, <3>4
  <2>2. CASE P >= Len(t)
    <3> DEFINE f == [m \in 1..Len(s) |-> s[m] + 1]
    <3>1. f \in [1..Len(s) -> starts]
      BY <1>0
    <3>2. \A x \in starts : \E m \in 1..Len(s) : f[m] = x
      <4>1. SUFFICES ASSUME NEW x \in starts PROVE \E m \in 1..Len(s) : f[m] = x
        OBVIOUS
      <4>2. x - 1 \in Nat /\ IsStart(t, x - 1) /\ x \in Nat /\ x \in 1..Len(t)
        BY <1>3, <1>4
      <4>3. x - 1 < P
        BY <1>1, <2>2, <4>2
      <4>4. PICK m \in 1..Len(s) : s[m] = x - 1
        BY <1>1, <4>2, <4>3, Zenon
      <4>5. s[m] + 1 = x
        BY <4>2, <4>4
      <4>6. QED
        BY <4>5
    <3>3. \A m \in 1..Len(s) : \A i \in 1..Len(s) : m < i => f[m] # f[i]
      BY <1>1
    <3> HIDE DEF f
    <3>4. Cardinality(starts) = Len(s)
      <4>1. PICK L \in Nat : L = Len(s)
        BY <1>1
      <4>2. /\ f \in [1..L -> starts] /\ \A x \in starts : \E m \in 1..L : f[m] = x
            /\ \A m \in 1..L : \A i \in 1..L : m < i => f[m] # f[i]
        BY <3>1, <3>2, <3>3, <4>1, Zenon
      <4>3. Cardinality(starts) = L
        BY <4>2, Counted
      <4>4. QED
        BY <4>1, <4>3
    <3>5. QED
      BY <1>1, <1>3, <3>4
  <2>3. QED
    BY <2>1, <2>2
<1>9. Argv(t) = [k \in 1..argc |-> SubSeq(t, Start(k), Stop(Start(k)))]
  BY Zenon DEF Argv, starts
<1>10. Argv(t) = [k \in 1..Len(s) |-> SubSeq(t, s[k] + 1, Stop(s[k] + 1))]
  <2> HIDE DEF argc, Start, Stop
  <2>1. \A k \in 1..Len(s) : SubSeq(t, Start(k), Stop(Start(k))) = SubSeq(t, s[k] + 1, Stop(s[k] + 1))
    BY <1>7, Zenon
  <2>2. Argv(t) = [k \in 1..Len(s) |-> SubSeq(t, Start(k), Stop(Start(k)))]
    BY <1>8, <1>9, Zenon
  <2>3. QED
    BY <2>1, <2>2
<1>11. ASSUME NEW k \in 1..Len(s), NEW e, EndsAt(t, s[k], e) PROVE Stop(s[k] + 1) = e
  <2> DEFINE d == Stop(s[k] + 1)
  <2>1. s[k] \in Nat /\ e \in (s[k] + 1)..Len(t) /\ (e < Len(t) => t[e + 1] = Space)
    BY <1>1, <1>11 DEF EndsAt
  <2>2. \A i \in (s[k] + 1)..e : t[i] # Space
    <3>1. ASSUME NEW i \in (s[k] + 1)..e PROVE t[i] # Space
      <4>1. i - 1 \in s[k]..(e - 1) /\ (i - 1) + 1 = i
        BY <2>1
      <4>2. t[(i - 1) + 1] # Space
        BY <1>11, <4>1, Zenon DEF EndsAt
      <4>3. QED
        BY <4>1, <4>2
    <3>2. QED
      BY <3>1
  <2>3. /\ d \in (s[k] + 1)..Len(t) /\ (\A i \in (s[k] + 1)..d : t[i] # Space)
        /\ d < Len(t) => t[d + 1] = Space
    BY <2>1, <2>2, Zenon
  <2> HIDE DEF d
  <2>4. \A i \in s[k]..(d - 1) : t[i + 1] # Space
    <3>1. ASSUME NEW i \in s[k]..(d - 1) PROVE t[i + 1] # Space
      <4>1. i + 1 \in (s[k] + 1)..d
        BY <2>1, <2>3
      <4>2. QED
        BY <2>3, <4>1, Zenon
    <3>2. QED
      BY <3>1
  <2>5. EndsAt(t, s[k], d)
    BY <2>3, <2>4, Zenon DEF EndsAt
  <2>6. d = e
    BY <1>11, <2>1, <2>5, EndsOnce
  <2>7. QED
    BY <2>6 DEF d
<1>12. QED
  <2> HIDE DEF Stop
  <2>1. ASSUME NEW k \in 1..Len(s), NEW e, EndsAt(t, s[k], e)
        PROVE  Argv(t)[k] = SubSeq(t, s[k] + 1, e)
    <3>1. Argv(t)[k] = SubSeq(t, s[k] + 1, Stop(s[k] + 1))
      BY <1>10
    <3>2. QED
      BY <1>11, <2>1, <3>1, Zenon
  <2>2. Argv(t) = [k \in 1..Len(s) |-> Argv(t)[k]]
    BY <1>10
  <2>3. QED
    BY <2>1, <2>2


(* The word at q ends in the buffer, where the pointer has passed.         *)
IsWord(t, q, e) ==
  /\ EndsAt(t, q, e) /\ e <= p /\ buf[e] = NUL
  /\ \A i \in q..(e - 1) : buf[i] = t[i + 1]

IsText(t) ==
  /\ t \in Seq(Chars) /\ Len(t) < BufSize
  /\ \A i \in 1..Len(t) : t[i] # NUL

LEMMA WordIs ==
  ASSUME NEW t, IsText(t), buf \in [0..(BufSize - 1) -> Chars],
         NEW q \in Nat, NEW e, IsWord(t, q, e)
  PROVE  WordAt(q) = SubSeq(t, q + 1, e)
<1> DEFINE u == SubSeq(Buffer, q + 1, BufSize)
           v == SubSeq(t, q + 1, e)
           w == SubSeq(u, 1, e - q)
<1>1. /\ t \in Seq(Chars) /\ Len(t) < BufSize /\ Len(t) \in Nat /\ BufSize \in Nat
      /\ \A i \in 1..Len(t) : t[i] # NUL
      /\ e \in (q + 1)..Len(t) /\ buf[e] = NUL
      /\ \A i \in q..(e - 1) : buf[i] = t[i + 1]
  BY LineAssumption DEF IsText, IsWord, EndsAt
<1>2. Buffer \in Seq(Chars) /\ Len(Buffer) = BufSize /\ \A k \in 1..BufSize : Buffer[k] = buf[k - 1]
  <2>1. \A k \in 1..BufSize : buf[k - 1] \in Chars
    BY <1>1
  <2>2. QED
    BY <1>1, <2>1 DEF Buffer
<1>3. /\ u \in Seq(Chars) /\ Len(u) = (BufSize - (q + 1)) + 1
      /\ \A k \in 1..((BufSize - (q + 1)) + 1) : u[k] = Buffer[((q + 1) + k) - 1]
  <2>1. q + 1 \in Nat \ {0} /\ q + 1 <= BufSize + 1 /\ BufSize <= Len(Buffer)
    BY <1>1, <1>2
  <2>2. QED
    BY <1>1, <1>2, <2>1, Slice, Zenon
<1>4. /\ v \in Seq(Chars) /\ Len(v) = (e - (q + 1)) + 1
      /\ \A k \in 1..((e - (q + 1)) + 1) : v[k] = t[((q + 1) + k) - 1]
  <2>1. q + 1 \in Nat \ {0} /\ q + 1 <= e + 1 /\ e <= Len(t) /\ e \in Nat
    BY <1>1
  <2>2. QED
    BY <1>1, <2>1, Slice, Zenon
<1> HIDE DEF u, v
<1>5. \A k \in 1..(e - q) : u[k] = t[q + k] /\ v[k] = t[q + k] /\ u[k] # NUL
  <2>1. ASSUME NEW k \in 1..(e - q) PROVE u[k] = t[q + k] /\ v[k] = t[q + k] /\ u[k] # NUL
    <3>1. /\ k \in 1..((BufSize - (q + 1)) + 1) /\ k \in 1..((e - (q + 1)) + 1)
          /\ ((q + 1) + k) - 1 = q + k /\ q + k \in 1..BufSize /\ q + k \in 1..Len(t)
          /\ (q + k) - 1 \in q..(e - 1) /\ ((q + k) - 1) + 1 = q + k
      BY <1>1
    <3>2. u[k] = Buffer[q + k] /\ v[k] = t[q + k]
      <4>1. u[k] = Buffer[((q + 1) + k) - 1] /\ v[k] = t[((q + 1) + k) - 1]
        BY <1>3, <1>4, <3>1, Zenon
      <4>2. QED
        BY <3>1, <4>1
    <3>3. Buffer[q + k] = buf[(q + k) - 1]
      BY <1>2, <3>1, Zenon
    <3>4. buf[(q + k) - 1] = t[q + k]
      <4>1. buf[(q + k) - 1] = t[((q + k) - 1) + 1]
        BY <1>1, <3>1, Zenon
      <4>2. QED
        BY <3>1, <4>1
    <3>5. QED
      BY <1>1, <3>1, <3>2, <3>3, <3>4, Zenon
  <2>2. QED
    BY <2>1
<1>6. Stops(u, e - q)
  <2>1. e - q \in 0..Len(u) /\ e - q < Len(u) /\ (e - q) + 1 \in 1..((BufSize - (q + 1)) + 1)
        /\ ((q + 1) + ((e - q) + 1)) - 1 = e + 1 /\ e + 1 \in 1..BufSize /\ (e + 1) - 1 = e
    BY <1>1, <1>3
  <2>2. u[(e - q) + 1] = Buffer[((q + 1) + ((e - q) + 1)) - 1]
    BY <1>3, <2>1, Zenon
  <2>3. Buffer[e + 1] = buf[(e + 1) - 1]
    BY <1>2, <2>1, Zenon
  <2>4. u[(e - q) + 1] = NUL
    BY <1>1, <2>1, <2>2, <2>3
  <2>5. QED
    BY <1>5, <2>1, <2>4, Zenon DEF Stops
<1>7. WordAt(q) = w
  BY <1>3, <1>6, CStringIs, Zenon DEF WordAt, u
<1>8. w = v
  <2>1. /\ w \in Seq(Chars) /\ Len(w) = e - q
        /\ \A k \in 1..(e - q) : w[k] = u[k]
    <3>1. 1 \in Nat \ {0} /\ e - q \in Nat /\ 1 <= (e - q) + 1 /\ e - q <= Len(u)
          /\ ((e - q) - 1) + 1 = e - q /\ \A k \in 1..(e - q) : (1 + k) - 1 = k
      BY <1>1, <1>3
    <3>2. /\ w \in Seq(Chars) /\ Len(w) = ((e - q) - 1) + 1
          /\ \A k \in 1..(((e - q) - 1) + 1) : w[k] = u[(1 + k) - 1]
      BY <1>3, <3>1, Slice, Zenon
    <3> HIDE DEF w
    <3>3. QED
      BY <3>1, <3>2
  <2> HIDE DEF w
  <2>2. (e - (q + 1)) + 1 = e - q
    BY <1>1
  <2>3. Len(w) = Len(v) /\ \A k \in 1..Len(w) : w[k] = v[k]
    BY <1>4, <1>5, <2>1, <2>2, Zenon
  <2>4. QED
    BY <1>4, <2>1, <2>3, SameString, Zenon
<1>9. QED
  BY <1>7, <1>8, Zenon DEF v


------------------------------------------------------------------------------
(* The walk through the line. *)

Parsing == {"word", "spaces", "letters", "exec", "strcmp", "done"}

Text == Copied(CString(line))

LineTypes ==
  /\ line \in Lines /\ buf \in [0..(BufSize - 1) -> Chars] /\ argv \in Seq(Nat)
  /\ j \in 0..(BufSize - 1) /\ p \in 0..(BufSize - 1)
  /\ a \in 0..(BufSize - 1) /\ b \in Nat /\ cmd \in Nat

InCopy ==
  /\ j <= Len(line) /\ p = 0 /\ argv = <<>>
  /\ \A i \in 1..j : line[i] # NUL /\ buf[i - 1] = line[i]

Pointers(t) == IsText(t) /\ j = Len(t) /\ p <= Len(t) /\ buf[Len(t)] = NUL

AheadFrom(t, from) == \A i \in from..(Len(t) - 1) : buf[i] = t[i + 1]

CutOut(t, m) == \E e : IsWord(t, argv[m], e)

BetweenWords(t) ==
  /\ Enumerates(argv, t, p) /\ \A m \in 1..Len(argv) : CutOut(t, m)
  /\ AheadFrom(t, p)
  /\ p = 0 \/ t[p] = Space \/ p = Len(t)

InWord(t) ==
  /\ argv # <<>> /\ Enumerates(argv, t, p + 1)
  /\ \A m \in 1..(Len(argv) - 1) : CutOut(t, m)
  /\ AheadFrom(t, argv[Len(argv)])
  /\ \A i \in argv[Len(argv)]..(p - 1) : t[i + 1] # Space

AllCut(t) ==
  /\ Enumerates(argv, t, p) /\ \A m \in 1..Len(argv) : CutOut(t, m)
  /\ Len(argv) = MaxArgs \/ p = Len(t)

(* strcmp has found the names in front of cmd to be others, and the first  *)
(* b characters of this one to be those of the word.                       *)
Compared(t) ==
  /\ argv # <<>> /\ cmd \in 1..Len(Names) /\ b \in 0..Len(Names[cmd]) /\ a = argv[1] + b
  /\ \E e : /\ IsWord(t, argv[1], e) /\ a <= e
            /\ \A k \in 1..(cmd - 1) : Names[k] # SubSeq(t, argv[1] + 1, e)
            /\ \A i \in 1..b : Names[cmd][i] = t[argv[1] + i]

Chosen(t) ==
  \/ argv = <<>> /\ cmd = 0
  \/ /\ argv # <<>>
     /\ \E e : /\ IsWord(t, argv[1], e)
               /\ \A k \in 1..Len(Names) : Names[k] = SubSeq(t, argv[1] + 1, e) <=> cmd = k

LineInv ==
  /\ LineTypes
  /\ pc = "copy" => InCopy
  /\ pc \in Parsing => Pointers(Text)
  /\ pc \in {"word", "spaces"} => BetweenWords(Text)
  /\ pc = "spaces" => Len(argv) < MaxArgs
  /\ pc = "letters" => InWord(Text)
  /\ pc \in {"exec", "strcmp", "done"} => AllCut(Text)
  /\ pc \in {"copy", "word", "spaces", "letters", "exec"} => cmd = 0 /\ a = 0
  /\ pc = "strcmp" => Compared(Text)
  /\ pc = "done" => Chosen(Text)

LEMMA LineInit == Init => LineInv
<1> SUFFICES ASSUME Init PROVE LineInv
  OBVIOUS
<1>1. /\ line \in Lines /\ buf \in Leftovers /\ j = 0 /\ p = 0 /\ argv = <<>>
      /\ cmd = 0 /\ a = 0 /\ b = 0 /\ pc \in {"copy", "isr"}
  BY DEF Init, CommandLineInit
<1>2. line \in Seq(Chars) /\ buf \in [0..(BufSize - 1) -> Chars] /\ BufSize \in Nat \ {0}
  BY <1>1, LineAssumption
<1>3. LineTypes /\ InCopy
  BY <1>1, <1>2 DEF LineTypes, InCopy
<1>4. QED
  BY <1>1, <1>3 DEF LineInv, Parsing

LEMMA CopyStep == ASSUME LineInv, Copy PROVE LineInv'
<1>1. /\ LineTypes /\ InCopy /\ cmd = 0 /\ a = 0
      /\ UNCHANGED <<line, p, argv, cmd, a, b>>
  BY DEF LineInv, Copy
<1>2. /\ line \in Lines /\ line \in Seq(Chars) /\ buf \in [0..(BufSize - 1) -> Chars]
      /\ j \in 0..(BufSize - 1) /\ BufSize \in Nat \ {0} /\ j <= Len(line) /\ Len(line) \in Nat
      /\ p = 0 /\ argv = <<>> /\ b \in Nat
      /\ \A i \in 1..j : line[i] # NUL /\ buf[i - 1] = line[i]
      /\ NUL \in Chars /\ MaxArgs \in Nat \ {0}
  BY <1>1, LineAssumption DEF LineTypes, InCopy
<1>3. CASE Char(line, j) # NUL /\ j < BufSize - 1
           /\ buf' = [buf EXCEPT ![j] = Char(line, j)] /\ j' = j + 1 /\ UNCHANGED pc
  <2>1. j < Len(line) /\ line[j + 1] # NUL /\ Char(line, j) = line[j + 1]
    BY <1>2, <1>3 DEF Char
  <2>2. j + 1 \in 1..Len(line) /\ j + 1 \in 0..(BufSize - 1)
    BY <1>2, <1>3, <2>1
  <2>3. line[j + 1] \in Chars
    BY <1>2, <2>2
  <2>4. buf' = [buf EXCEPT ![j] = line[j + 1]]
    BY <1>3, <2>1, Zenon
  <2>5. buf' \in [0..(BufSize - 1) -> Chars] /\ buf'[j] = line[j + 1]
        /\ \A i \in 0..(j - 1) : buf'[i] = buf[i]
    BY <1>2, <2>3, <2>4
  <2>6. \A i \in 1..(j + 1) : line[i] # NUL /\ buf'[i - 1] = line[i]
    <3>1. ASSUME NEW i \in 1..j PROVE line[i] # NUL /\ buf'[i - 1] = line[i]
      <4>1. i - 1 \in 0..(j - 1)
        BY <1>2
      <4>2. buf'[i - 1] = buf[i - 1] /\ buf[i - 1] = line[i] /\ line[i] # NUL
        BY <1>2, <2>5, <4>1
      <4>3. QED
        BY <4>2
    <3>2. (j + 1) - 1 = j /\ \A i \in 1..(j + 1) : i \in 1..j \/ i = j + 1
      BY <1>2
    <3>3. line[j + 1] # NUL /\ buf'[(j + 1) - 1] = line[j + 1]
      BY <2>1, <2>5, <3>2
    <3>4. QED
      BY <3>1, <3>2, <3>3, Zenon
  <2>7. InCopy'
    <3>1. j' <= Len(line')
      BY <1>1, <1>3, <2>2
    <3>2. \A i \in 1..j' : line'[i] # NUL /\ buf'[i - 1] = line'[i]
      BY <1>1, <1>3, <2>6, Zenon
    <3>3. p' = 0 /\ argv' = <<>>
      BY <1>1, <1>2
    <3>4. QED
      BY <3>1, <3>2, <3>3, Zenon DEF InCopy
  <2>8. LineTypes'
    BY <1>1, <1>2, <1>3, <2>2, <2>5 DEF LineTypes
  <2>9. pc' = "copy" /\ cmd' = 0 /\ a' = 0
    BY <1>1, <1>3 DEF Copy
  <2>10. QED
    BY <2>7, <2>8, <2>9 DEF LineInv, Parsing
<1>4. CASE ~(Char(line, j) # NUL /\ j < BufSize - 1)
           /\ buf' = [buf EXCEPT ![j] = NUL] /\ pc' = "word" /\ UNCHANGED j
  <2>1. PICK t : t = SubSeq(line, 1, j)
    OBVIOUS
  <2>2. /\ t \in Seq(Chars) /\ Len(t) = j /\ \A i \in 1..j : t[i] = line[i]
    <3>1. 1 \in Nat \ {0} /\ j \in Nat /\ 1 <= j + 1 /\ j <= Len(line) /\ (j - 1) + 1 = j
          /\ line \in Seq(Chars) /\ \A i \in 1..j : (1 + i) - 1 = i
      BY <1>2
    <3>2. t \in Seq(Chars) /\ Len(t) = (j - 1) + 1 /\ \A i \in 1..((j - 1) + 1) : t[i] = line[(1 + i) - 1]
      BY <2>1, <3>1, Slice, Zenon
    <3>3. QED
      BY <3>1, <3>2
  <2>3. Text = t
    <3>1. (j < Len(line) => line[j + 1] = NUL) \/ j = BufSize - 1
      BY <1>2, <1>4 DEF Char
    <3>2. j \in 0..Len(line) /\ j < BufSize /\ \A i \in 1..j : line[i] # NUL
      BY <1>2
    <3>3. Copied(CString(line)) = SubSeq(line, 1, j)
      BY <1>2, <3>1, <3>2, CopiedIs
    <3>4. QED
      BY <2>1, <3>3, Zenon DEF Text
  <2>4. Text' = t
    BY <1>1, <2>3, Zenon DEF Text
  <2>5. IsText(t)
    <3>1. \A i \in 1..j : t[i] # NUL
      BY <1>2, <2>2, Zenon
    <3>2. Len(t) < BufSize
      BY <1>2, <2>2
    <3>3. QED
      BY <2>2, <3>1, <3>2, Zenon DEF IsText
  <2>6. buf' \in [0..(BufSize - 1) -> Chars] /\ buf'[j] = NUL
        /\ \A i \in 0..(j - 1) : buf'[i] = buf[i]
    BY <1>2, <1>4
  <2>7. Pointers(t)'
    BY <1>1, <1>2, <1>4, <2>2, <2>5, <2>6 DEF Pointers, IsText
  <2>8. AheadFrom(t, 0)'
    <3>1. ASSUME NEW i \in 0..(j - 1) PROVE buf'[i] = t[i + 1]
      <4>1. i + 1 \in 1..j /\ (i + 1) - 1 = i
        BY <1>2
      <4>2. buf[(i + 1) - 1] = line[i + 1] /\ t[i + 1] = line[i + 1]
        BY <1>2, <2>2, <4>1, Zenon
      <4>3. QED
        BY <2>6, <4>1, <4>2
    <3>2. QED
      BY <2>2, <3>1, Zenon DEF AheadFrom
  <2>9. Enumerates(<<>>, t, 0)
    <3>1. <<>> \in Seq(Nat) /\ Len(<<>>) <= MaxArgs /\ \A m \in 1..Len(<<>>) : FALSE
      BY <1>2
    <3>2. \A q \in Nat : ~(q < 0)
      OBVIOUS
    <3>3. QED
      BY <3>1, <3>2, Zenon DEF Enumerates
  <2>10. p' = 0 /\ argv' = <<>> /\ \A m \in 1..Len(<<>>) : FALSE
    BY <1>1, <1>2
  <2>11. BetweenWords(t)'
    BY <2>8, <2>9, <2>10, Zenon DEF BetweenWords
  <2>12. LineTypes'
    BY <1>1, <1>2, <1>4, <2>6 DEF LineTypes
  <2>13. cmd' = 0 /\ a' = 0
    BY <1>1
  <2>14. QED
    BY <1>4, <2>4, <2>7, <2>11, <2>12, <2>13 DEF LineInv, Parsing
<1>5. QED
  BY <1>3, <1>4, Zenon DEF Copy


(* At the end of the text the pointer finds the NUL, and nowhere before.   *)
LEMMA AtPointer ==
  ASSUME LineTypes, NEW t, Pointers(t), NEW from \in Nat, from <= p, AheadFrom(t, from)
  PROVE  /\ buf[p] = NUL => p = Len(t)
         /\ buf[p] # NUL => p < Len(t) /\ p + 1 \in 1..Len(t) /\ p + 1 \in 0..(BufSize - 1)
         /\ p < Len(t) => buf[p] = t[p + 1] /\ t[p + 1] # NUL
<1>1. /\ t \in Seq(Chars) /\ Len(t) \in Nat /\ Len(t) < BufSize /\ p <= Len(t) /\ p \in Nat
      /\ \A i \in 1..Len(t) : t[i] # NUL
      /\ \A i \in from..(Len(t) - 1) : buf[i] = t[i + 1]
      /\ buf[Len(t)] = NUL /\ BufSize \in Nat
  BY LineAssumption DEF LineTypes, Pointers, IsText, AheadFrom
<1>2. p < Len(t) => p \in from..(Len(t) - 1) /\ p + 1 \in 1..Len(t) /\ p + 1 \in 0..(BufSize - 1)
  BY <1>1
<1>3. p < Len(t) \/ p = Len(t)
  BY <1>1
<1>4. p < Len(t) => buf[p] = t[p + 1] /\ t[p + 1] # NUL
  BY <1>1, <1>2, Zenon
<1>5. QED
  BY <1>1, <1>2, <1>3, <1>4, Zenon

LEMMA WordStep == ASSUME LineInv, Word PROVE LineInv'
<1>1. PICK t : t = Text
  OBVIOUS
<1>2. /\ LineTypes /\ Pointers(t) /\ BetweenWords(t) /\ cmd = 0 /\ a = 0 /\ pc = "word"
      /\ UNCHANGED lineVars
      /\ pc' = IF buf[p] # NUL /\ Len(argv) < MaxArgs THEN "spaces" ELSE "exec"
  BY <1>1, Zenon DEF LineInv, Word, Parsing
<1>3. LineTypes' /\ Pointers(t)' /\ Text' = t /\ cmd' = 0 /\ a' = 0
  BY <1>1, <1>2, Zenon DEF lineVars, LineTypes, Pointers, Text
<1>4. BetweenWords(t)'
  BY <1>2, Zenon DEF lineVars, BetweenWords, AheadFrom, CutOut, IsWord
<1>5. CASE buf[p] # NUL /\ Len(argv) < MaxArgs
  <2>1. pc' = "spaces" /\ Len(argv') < MaxArgs
    BY <1>2, <1>5 DEF lineVars
  <2>2. QED
    BY <1>3, <1>4, <2>1 DEF LineInv, Parsing
<1>6. CASE ~(buf[p] # NUL /\ Len(argv) < MaxArgs)
  <2>1. pc' = "exec"
    BY <1>2, <1>6
  <2>2. Len(argv) = MaxArgs \/ p = Len(t)
    <3>1. AheadFrom(t, p) /\ p <= p /\ p \in Nat /\ Enumerates(argv, t, p)
      BY <1>2 DEF BetweenWords, LineTypes
    <3>2. Len(argv) <= MaxArgs /\ Len(argv) \in Nat /\ MaxArgs \in Nat
      BY <3>1, LineAssumption DEF Enumerates
    <3>3. buf[p] = NUL => p = Len(t)
      BY <1>2, <3>1, AtPointer, Zenon
    <3>4. QED
      BY <1>6, <3>2, <3>3
  <2>3. AllCut(t)'
    BY <1>2, <1>4, <2>2, Zenon DEF AllCut, BetweenWords, lineVars
  <2>4. QED
    BY <1>3, <2>1, <2>3 DEF LineInv, Parsing
<1>7. QED
  BY <1>5, <1>6, Zenon

(* A word that has ended stays one as the pointer goes on. *)
LEMMA StaysWord ==
  ASSUME NEW t, NEW q, NEW e, IsWord(t, q, e), p \in Nat, p' \in Nat, p <= p', UNCHANGED buf
  PROVE  IsWord(t, q, e)'
<1>1. e \in Int /\ e <= p
  BY DEF IsWord, EndsAt
<1>2. e <= p'
  BY <1>1
<1>3. QED
  BY <1>2, Zenon DEF IsWord

LEMMA SpacesStep == ASSUME LineInv, Spaces PROVE LineInv'
<1>1. PICK t : t = Text
  OBVIOUS
<1>2. /\ LineTypes /\ Pointers(t) /\ BetweenWords(t) /\ cmd = 0 /\ a = 0 /\ pc = "spaces"
      /\ UNCHANGED <<line, buf, j, cmd, a, b>> /\ Len(argv) < MaxArgs
  BY <1>1, Zenon DEF LineInv, Spaces, Parsing
<1>3. Text' = t /\ cmd' = 0 /\ a' = 0
  BY <1>1, <1>2, Zenon DEF Text
<1>4. /\ t \in Seq(Chars) /\ Len(t) \in Nat /\ Len(t) < BufSize /\ p \in Nat /\ p <= Len(t)
      /\ Enumerates(argv, t, p) /\ AheadFrom(t, p) /\ (p = 0 \/ t[p] = Space \/ p = Len(t))
      /\ \A m \in 1..Len(argv) : CutOut(t, m)
      /\ argv \in Seq(Nat) /\ Len(argv) \in Nat /\ MaxArgs \in Nat /\ NUL # Space
  BY <1>2, LineAssumption DEF BetweenWords, Pointers, LineTypes, IsText
<1>5. /\ buf[p] = NUL => p = Len(t)
      /\ buf[p] # NUL => p < Len(t) /\ p + 1 \in 1..Len(t) /\ p + 1 \in 0..(BufSize - 1)
      /\ p < Len(t) => buf[p] = t[p + 1] /\ t[p + 1] # NUL
  <2>1. p <= p
    BY <1>4
  <2>2. QED
    BY <1>2, <1>4, <2>1, AtPointer, Zenon
<1>6. CASE buf[p] = Space /\ p' = p + 1 /\ UNCHANGED <<pc, argv>>
  <2>1. p < Len(t) /\ t[p + 1] = Space /\ p + 1 \in 1..Len(t) /\ p + 1 \in 0..(BufSize - 1)
    BY <1>4, <1>5, <1>6, Zenon
  <2>2. LineTypes'
    BY <1>2, <1>6, <2>1, Zenon DEF LineTypes
  <2>3. Pointers(t)'
    <3>1. p + 1 <= Len(t)
      BY <1>4, <2>1
    <3>2. QED
      BY <1>2, <1>6, <3>1, Zenon DEF Pointers
  <2>4. Enumerates(argv, t, p + 1)
    <3>1. \A q \in Nat : q < p + 1 => q < p \/ q = p
      BY <1>4
    <3>2. ~IsStart(t, p)
      BY <2>1, Zenon DEF IsStart
    <3>3. \A m \in 1..Len(argv) : argv[m] < p => argv[m] < p + 1
      BY <1>4
    <3>4. QED
      BY <1>4, <3>1, <3>2, <3>3, Zenon DEF Enumerates
  <2>5. \A m \in 1..Len(argv) : CutOut(t, m)'
    <3>1. p \in Nat /\ p' \in Nat /\ p <= p' /\ UNCHANGED buf
      BY <1>2, <1>4, <1>6
    <3>2. QED
      BY <1>4, <1>6, <3>1, StaysWord, Zenon DEF CutOut
  <2>6. AheadFrom(t, p)'
    <3>1. \A i \in (p + 1)..(Len(t) - 1) : i \in p..(Len(t) - 1)
      BY <1>4
    <3>2. QED
      BY <1>2, <1>4, <1>6, <3>1, Zenon DEF AheadFrom
  <2>7. BetweenWords(t)'
    BY <1>6, <2>1, <2>4, <2>5, <2>6, Zenon DEF BetweenWords
  <2>8. pc' = "spaces" /\ Len(argv') < MaxArgs
    BY <1>2, <1>6
  <2>9. QED
    BY <1>3, <2>2, <2>3, <2>7, <2>8 DEF LineInv, Parsing
<1>7. CASE buf[p] = NUL /\ pc' = "exec" /\ UNCHANGED <<p, argv>>
  <2>1. LineTypes' /\ Pointers(t)'
    BY <1>2, <1>7, Zenon DEF LineTypes, Pointers
  <2>2. \A m \in 1..Len(argv') : CutOut(t, m)'
    BY <1>2, <1>4, <1>7, Zenon DEF CutOut, IsWord
  <2>3. AllCut(t)'
    BY <1>4, <1>5, <1>7, <2>2, Zenon DEF AllCut
  <2>4. QED
    BY <1>3, <1>7, <2>1, <2>3 DEF LineInv, Parsing
<1>8. CASE /\ buf[p] \notin {Space, NUL} /\ argv' = Append(argv, p)
           /\ pc' = "letters" /\ UNCHANGED p
  <2>1. p < Len(t) /\ t[p + 1] # Space /\ p \in 0..(Len(t) - 1) /\ p # Len(t)
    <3>1. p < Len(t) /\ buf[p] = t[p + 1] /\ buf[p] # Space
      BY <1>5, <1>8, Zenon
    <3>2. QED
      BY <1>4, <3>1
  <2>2. IsStart(t, p)
    BY <1>4, <2>1, Zenon DEF IsStart
  <2>3. PICK L \in Nat : L = Len(argv)
    BY <1>4
  <2>4. /\ argv' \in Seq(Nat) /\ Len(argv') = L + 1 /\ argv'[L + 1] = p
        /\ \A m \in 1..L : argv'[m] = argv[m]
    BY <1>4, <1>8, <2>3
  <2>5. \A m \in 1..(L + 1) : m \in 1..L \/ m = L + 1
    BY <2>3
  <2>6. \A m \in 1..L : IsStart(t, argv[m]) /\ argv[m] < p /\ argv[m] < p + 1
    <3>1. \A m \in 1..L : IsStart(t, argv[m]) /\ argv[m] < p
      BY <1>4, <2>3, Zenon DEF Enumerates
    <3>2. \A m \in 1..L : argv[m] < p => argv[m] < p + 1
      BY <1>4, <2>3
    <3>3. QED
      BY <3>1, <3>2, Zenon
  <2>7. Enumerates(argv', t, p + 1)
    <3>1. L + 1 <= MaxArgs
      BY <1>2, <1>4, <2>3
    <3>2. p < p + 1 /\ L + 1 \in 1..(L + 1) /\ \A m \in 1..L : m \in 1..(L + 1)
      BY <1>4, <2>3
    <3>3. \A m \in 1..(L + 1) : IsStart(t, argv'[m]) /\ argv'[m] < p + 1
      BY <2>2, <2>4, <2>5, <2>6, <3>2, Zenon
    <3>4. \A q \in Nat : IsStart(t, q) /\ q < p + 1 => \E m \in 1..(L + 1) : argv'[m] = q
      <4>1. \A q \in Nat : q < p + 1 => q < p \/ q = p
        BY <1>4
      <4>2. \A q \in Nat : IsStart(t, q) /\ q < p => \E m \in 1..L : argv[m] = q
        BY <1>4, <2>3, Zenon DEF Enumerates
      <4>3. ASSUME NEW q \in Nat, IsStart(t, q), q < p + 1
            PROVE  \E m \in 1..(L + 1) : argv'[m] = q
        <5>1. CASE q < p
          <6>1. PICK m \in 1..L : argv[m] = q
            BY <4>2, <4>3, <5>1, Zenon
          <6>2. argv'[m] = q /\ m \in 1..(L + 1)
            BY <2>4, <3>2, <6>1, Zenon
          <6>3. QED
            BY <6>2, Zenon
        <5>2. CASE q = p
          BY <2>4, <3>2, <5>2, Zenon
        <5>3. QED
          BY <4>1, <4>3, <5>1, <5>2, Zenon
      <4>4. QED
        BY <4>3, Zenon
    <3>5. \A m \in 1..(L + 1) : \A k \in 1..(L + 1) : m < k => argv'[m] < argv'[k]
      <4>1. \A m \in 1..(L + 1) : \A k \in 1..(L + 1) :
              m < k => m \in 1..L /\ (k \in 1..L \/ k = L + 1)
        BY <2>3
      <4>2. \A m \in 1..L : \A k \in 1..L : m < k => argv[m] < argv[k]
        BY <1>4, <2>3, Zenon DEF Enumerates
      <4>3. QED
        BY <2>4, <2>6, <4>1, <4>2, Zenon
    <3>6. QED
      BY <2>4, <3>1, <3>3, <3>4, <3>5, Zenon DEF Enumerates
  <2>8. ASSUME NEW m \in 1..L PROVE CutOut(t, m)'
    <3>1. PICK e : IsWord(t, argv[m], e)
      BY <1>4, <2>3, Zenon DEF CutOut
    <3>2. argv'[m] = argv[m] /\ p' = p /\ buf' = buf
      BY <1>2, <1>8, <2>4, Zenon
    <3>3. QED
      BY <3>1, <3>2, Zenon DEF CutOut, IsWord
  <2>9. InWord(t)'
    <3>1. (L + 1) - 1 = L /\ \A i \in p..(p - 1) : FALSE
      BY <1>4, <2>3
    <3>2. argv' # <<>>
      BY <1>4, <1>8
    <3>3. AheadFrom(t, p)'
      BY <1>2, <1>4, <1>8, Zenon DEF AheadFrom
    <3>4. argv'[Len(argv')] = p
      BY <2>4, Zenon
    <3>5. AheadFrom(t, argv[Len(argv)])'
      BY <3>3, <3>4, <1>8, Zenon DEF AheadFrom
    <3>6. \A m \in 1..(Len(argv') - 1) : CutOut(t, m)'
      BY <2>4, <2>8, <3>1, Zenon
    <3>7. QED
      BY <1>8, <2>7, <3>1, <3>2, <3>4, <3>5, <3>6, Zenon DEF InWord
  <2>10. LineTypes' /\ Pointers(t)'
    BY <1>2, <1>8, <2>4, Zenon DEF LineTypes, Pointers
  <2>11. QED
    BY <1>3, <1>8, <2>9, <2>10 DEF LineInv, Parsing
<1>9. QED
  BY <1>6, <1>7, <1>8, Zenon DEF Spaces

LEMMA LettersStep == ASSUME LineInv, Letters PROVE LineInv'
<1>1. PICK t : t = Text
  OBVIOUS
<1>2. /\ LineTypes /\ Pointers(t) /\ InWord(t) /\ cmd = 0 /\ a = 0 /\ pc = "letters"
      /\ UNCHANGED <<line, j, argv, cmd, a, b>>
  BY <1>1, Zenon DEF LineInv, Letters, Parsing
<1>3. Text' = t /\ cmd' = 0 /\ a' = 0
  BY <1>1, <1>2, Zenon DEF Text
<1>4. PICK L \in Nat : L = Len(argv)
  BY <1>2 DEF LineTypes
<1>5. PICK q : q = argv[L]
  OBVIOUS
<1>6. /\ t \in Seq(Chars) /\ Len(t) \in Nat /\ Len(t) < BufSize /\ p \in Nat /\ p <= Len(t)
      /\ buf \in [0..(BufSize - 1) -> Chars] /\ NUL \in Chars /\ BufSize \in Nat
      /\ Enumerates(argv, t, p + 1) /\ AheadFrom(t, q) /\ argv # <<>>
      /\ \A m \in 1..(L - 1) : CutOut(t, m)
      /\ \A i \in q..(p - 1) : t[i + 1] # Space
      /\ argv \in Seq(Nat) /\ NUL # Space /\ buf[Len(t)] = NUL
  BY <1>2, <1>4, <1>5, LineAssumption DEF InWord, Pointers, LineTypes, IsText
<1>7. L \in 1..L /\ q \in Nat /\ IsStart(t, q) /\ q < p + 1 /\ q <= p
  <2>1. L \in 1..L
    BY <1>4, <1>6
  <2>2. q \in Nat /\ IsStart(t, q) /\ q < p + 1
    BY <1>4, <1>5, <1>6, <2>1 DEF Enumerates
  <2>3. QED
    BY <1>6, <2>1, <2>2
<1>8. q \in 0..(Len(t) - 1) /\ t[q + 1] # Space
  BY <1>7 DEF IsStart
<1>9. /\ buf[p] = NUL => p = Len(t)
      /\ buf[p] # NUL => p < Len(t) /\ p + 1 \in 1..Len(t) /\ p + 1 \in 0..(BufSize - 1)
      /\ p < Len(t) => buf[p] = t[p + 1] /\ t[p + 1] # NUL
  BY <1>2, <1>6, <1>7, AtPointer, Zenon
<1>10. /\ \A x \in Nat : IsStart(t, x) /\ x < p + 1 => \E m \in 1..L : argv[m] = x
       /\ \A m \in 1..L : IsStart(t, argv[m]) /\ argv[m] < p + 1 /\ argv[m] \in Nat
       /\ \A m \in 1..L : \A k \in 1..L : m < k => argv[m] < argv[k]
       /\ L <= MaxArgs
  BY <1>4, <1>6 DEF Enumerates
<1>11. CASE buf[p] \notin {Space, NUL} /\ p' = p + 1 /\ UNCHANGED <<pc, buf>>
  <2>1. /\ p < Len(t) /\ t[p + 1] # Space /\ p + 1 \in 0..(BufSize - 1) /\ p + 1 <= Len(t)
        /\ p + 1 # 0
    BY <1>6, <1>9, <1>11
  <2>2. LineTypes' /\ Pointers(t)'
    BY <1>2, <1>11, <2>1, Zenon DEF LineTypes, Pointers
  <2>3. Enumerates(argv, t, (p + 1) + 1)
    <3>1. \A x \in Nat : x < (p + 1) + 1 => x < p + 1 \/ x = p + 1
      BY <1>6
    <3>2. ~IsStart(t, p + 1)
      BY <2>1, Zenon DEF IsStart
    <3>3. \A m \in 1..L : argv[m] < (p + 1) + 1
      BY <1>6, <1>10
    <3>4. QED
      BY <1>4, <1>6, <1>10, <3>1, <3>2, <3>3, Zenon DEF Enumerates
  <2>4. \A m \in 1..(L - 1) : CutOut(t, m)'
    <3>1. p \in Nat /\ p' \in Nat /\ p <= p' /\ UNCHANGED buf
      BY <1>6, <1>11
    <3>2. UNCHANGED argv
      BY <1>2
    <3>3. QED
      BY <1>6, <3>1, <3>2, StaysWord, Zenon DEF CutOut
  <2>5. \A i \in q..((p + 1) - 1) : t[i + 1] # Space
    <3>1. \A i \in q..((p + 1) - 1) : i \in q..(p - 1) \/ i = p
      BY <1>6, <1>7
    <3>2. QED
      BY <1>6, <2>1, <3>1, Zenon
  <2>6. AheadFrom(t, q)'
    BY <1>6, <1>11, Zenon DEF AheadFrom
  <2>7. InWord(t)'
    <3>1. argv' = argv /\ argv[Len(argv)] = q /\ Len(argv) = L
      BY <1>2, <1>4, <1>5, Zenon
    <3>2. QED
      BY <1>6, <1>11, <2>3, <2>4, <2>5, <2>6, <3>1, Zenon DEF InWord, AheadFrom
  <2>8. pc' = "letters"
    BY <1>2, <1>11
  <2>9. QED
    BY <1>3, <2>2, <2>7, <2>8 DEF LineInv, Parsing
<1>12. CASE /\ buf[p] = Space /\ buf' = [buf EXCEPT ![p] = NUL] /\ p' = p + 1
            /\ pc' = "word"
  <2>1. p < Len(t) /\ t[p + 1] = Space /\ p + 1 \in 0..(BufSize - 1)
    BY <1>6, <1>9, <1>12, Zenon
  <2>2. p # q /\ q < p /\ p + 1 <= Len(t)
    <3>1. p # q
      BY <1>8, <2>1, Zenon
    <3>2. QED
      BY <1>6, <1>7, <2>1, <3>1
  <2>3. /\ buf' \in [0..(BufSize - 1) -> Chars] /\ buf'[p] = NUL
        /\ \A i \in 0..(BufSize - 1) : i # p => buf'[i] = buf[i]
        /\ buf'[Len(t)] = NUL
    BY <1>6, <1>12
  <2>4. LineTypes' /\ Pointers(t)'
    BY <1>2, <1>12, <2>1, <2>2, <2>3, Zenon DEF LineTypes, Pointers
  <2>0. PICK d : d = p
    OBVIOUS
  <2>5. IsWord(t, q, d)'
    <3>1. d \in (q + 1)..Len(t) /\ d <= p + 1
      BY <1>6, <1>7, <2>0, <2>1, <2>2
    <3>2. EndsAt(t, q, d)
      BY <1>6, <2>0, <2>1, <3>1, Zenon DEF EndsAt
    <3>3. \A i \in q..(d - 1) : i \in q..(Len(t) - 1) /\ i # p /\ i \in 0..(BufSize - 1)
      BY <1>6, <1>7, <2>0, <2>1
    <3>4. \A i \in q..(d - 1) : buf'[i] = t[i + 1]
      BY <1>6, <2>3, <3>3, Zenon DEF AheadFrom
    <3>5. d <= p' /\ buf'[d] = NUL
      BY <1>12, <2>0, <2>3, <3>1, Zenon
    <3>6. QED
      BY <3>2, <3>4, <3>5, Zenon DEF IsWord
  <2>6. ASSUME NEW m \in 1..(L - 1) PROVE CutOut(t, m)'
    <3>1. PICK e : IsWord(t, argv[m], e)
      BY <1>6, Zenon DEF CutOut
    <3>2. m \in 1..L /\ argv[m] \in Nat
      BY <1>10
    <3>3. /\ e \in (argv[m] + 1)..Len(t) /\ e <= p /\ buf[e] = NUL
          /\ \A i \in argv[m]..(e - 1) : buf[i] = t[i + 1]
      BY <3>1, Zenon DEF IsWord, EndsAt
    <3>4. e <= p + 1 /\ e \in 0..(BufSize - 1)
          /\ \A i \in argv[m]..(e - 1) : i # p /\ i \in 0..(BufSize - 1)
      BY <1>6, <3>2, <3>3
    <3>5. buf'[e] = NUL /\ \A i \in argv[m]..(e - 1) : buf'[i] = t[i + 1]
      BY <2>3, <3>3, <3>4, Zenon
    <3>6. argv' = argv /\ e <= p'
      BY <1>2, <1>12, <3>4, Zenon
    <3>7. QED
      BY <3>1, <3>5, <3>6, Zenon DEF CutOut, IsWord
  <2>7. \A m \in 1..L : CutOut(t, m)'
    <3>1. \A m \in 1..L : m \in 1..(L - 1) \/ m = L
      BY <1>4
    <3>2. CutOut(t, L)'
      BY <1>2, <1>5, <2>5, Zenon DEF CutOut
    <3>3. QED
      BY <2>6, <3>1, <3>2, Zenon
  <2>8. BetweenWords(t)'
    <3>1. argv' = argv /\ Len(argv) = L
      BY <1>2, <1>4, Zenon
    <3>2. \A i \in p'..(Len(t) - 1) : buf'[i] = t[i + 1]
      <4>1. \A i \in (p + 1)..(Len(t) - 1) : i \in q..(Len(t) - 1) /\ i # p /\ i \in 0..(BufSize - 1)
        BY <1>6, <1>7
      <4>2. QED
        BY <1>6, <1>12, <2>3, <4>1, Zenon DEF AheadFrom
    <3>3. QED
      BY <1>6, <1>12, <2>1, <2>7, <3>1, <3>2, Zenon DEF BetweenWords, AheadFrom
  <2>9. QED
    BY <1>3, <1>12, <2>4, <2>8 DEF LineInv, Parsing
<1>13. CASE buf[p] = NUL /\ pc' = "word" /\ UNCHANGED <<p, buf>>
  <2>1. LineTypes' /\ Pointers(t)'
    BY <1>2, <1>13, Zenon DEF LineTypes, Pointers
  <2>2. p = Len(t) /\ p \in (q + 1)..Len(t)
    <3>1. p = Len(t)
      BY <1>9, <1>13, Zenon
    <3>2. QED
      BY <1>6, <1>8, <3>1
  <2>3. IsWord(t, q, p)
    <3>1. EndsAt(t, q, p)
      BY <1>6, <2>2 DEF EndsAt
    <3>2. \A i \in q..(p - 1) : i \in q..(Len(t) - 1)
      BY <2>2
    <3>3. \A i \in q..(p - 1) : buf[i] = t[i + 1]
      BY <1>6, <3>2, Zenon DEF AheadFrom
    <3>4. p <= p
      BY <1>6
    <3>5. QED
      BY <1>13, <3>1, <3>3, <3>4, Zenon DEF IsWord
  <2>4. \A m \in 1..L : CutOut(t, m)
    <3>1. \A m \in 1..L : m \in 1..(L - 1) \/ m = L
      BY <1>4
    <3>2. QED
      BY <1>5, <1>6, <2>3, <3>1, Zenon DEF CutOut
  <2>5. Enumerates(argv, t, p)
    <3>1. ASSUME NEW m \in 1..L PROVE argv[m] < p
      <4>1. argv[m] \in 0..(Len(t) - 1)
        BY <1>10, Zenon DEF IsStart
      <4>2. QED
        BY <2>2, <4>1, <1>6
    <3>2. \A x \in Nat : x < p => x < p + 1
      BY <1>6
    <3>3. QED
      BY <1>4, <1>6, <1>10, <3>1, <3>2, Zenon DEF Enumerates
  <2>6. AheadFrom(t, p)
    <3>1. \A i \in p..(Len(t) - 1) : FALSE
      BY <1>6, <2>2
    <3>2. QED
      BY <3>1, Zenon DEF AheadFrom
  <2>7. BetweenWords(t)
    BY <1>4, <2>2, <2>4, <2>5, <2>6, Zenon DEF BetweenWords
  <2>8. BetweenWords(t)'
    BY <1>2, <1>13, <2>7, Zenon DEF BetweenWords, AheadFrom, CutOut, IsWord
  <2>9. QED
    BY <1>3, <1>13, <2>1, <2>8 DEF LineInv, Parsing
<1>14. QED
  BY <1>11, <1>12, <1>13, Zenon DEF Letters

LEMMA ExecStep == ASSUME LineInv, Exec PROVE LineInv'
<1>1. PICK t : t = Text
  OBVIOUS
<1>2. /\ LineTypes /\ Pointers(t) /\ AllCut(t) /\ cmd = 0 /\ a = 0 /\ pc = "exec"
      /\ UNCHANGED <<line, buf, j, p, argv>>
  BY <1>1, Zenon DEF LineInv, Exec, Parsing
<1>3. Text' = t /\ Pointers(t)' /\ AllCut(t)'
  BY <1>1, <1>2, Zenon DEF Text, Pointers, AllCut, CutOut, IsWord
<1>4. CASE argv = <<>> /\ pc' = "done" /\ UNCHANGED <<cmd, a, b>>
  <2>1. LineTypes'
    BY <1>2, <1>4, Zenon DEF LineTypes
  <2>2. Chosen(t)'
    BY <1>2, <1>4, Zenon DEF Chosen
  <2>3. QED
    BY <1>3, <1>4, <2>1, <2>2 DEF LineInv, Parsing
<1>5. CASE argv # <<>> /\ pc' = "strcmp" /\ cmd' = 1 /\ a' = argv[1] /\ b' = 0
  <2>1. argv \in Seq(Nat) /\ 1 \in 1..Len(argv) /\ 1 \in 1..Len(Names) /\ Len(Names[1]) \in Nat
        /\ 0 \in 0..Len(Names[1])
    BY <1>2, <1>5, NamesAssumption DEF LineTypes
  <2>2. PICK e : IsWord(t, argv[1], e)
    BY <1>2, <2>1, Zenon DEF AllCut, CutOut
  <2>3. argv[1] <= e /\ argv[1] \in 0..(BufSize - 1) /\ argv[1] = argv[1] + 0
    <3>1. argv[1] \in Nat /\ e \in (argv[1] + 1)..Len(t) /\ Len(t) \in Nat /\ Len(t) < BufSize
      BY <1>2, <2>1, <2>2 DEF IsWord, EndsAt, Pointers, IsText
    <3>2. QED
      BY <3>1, LineAssumption
  <2>4. LineTypes'
    BY <1>2, <1>5, <2>3 DEF LineTypes
  <2>5. \A k \in 1..(1 - 1) : FALSE
    OBVIOUS
  <2>6. \A i \in 1..0 : FALSE
    OBVIOUS
  <2>7. /\ IsWord(t, argv[1], e)' /\ a' <= e
        /\ \A k \in 1..(cmd' - 1) : Names[k] # SubSeq(t, argv'[1] + 1, e)
        /\ \A i \in 1..b' : Names[cmd'][i] = t[argv'[1] + i]
    <3>1. IsWord(t, argv[1], e)' /\ a' <= e
      BY <1>2, <1>5, <2>2, <2>3, Zenon DEF IsWord
    <3>2. QED
      BY <1>5, <2>5, <2>6, <3>1, Zenon
  <2>8. Compared(t)'
    BY <1>2, <1>5, <2>1, <2>3, <2>7, Zenon DEF Compared
  <2>9. QED
    BY <1>3, <1>5, <2>4, <2>8 DEF LineInv, Parsing
<1>6. QED
  BY <1>4, <1>5, Zenon DEF Exec

LEMMA StrcmpStep == ASSUME LineInv, strcmp PROVE LineInv'
<1>1. PICK t : t = Text
  OBVIOUS
<1>2. /\ LineTypes /\ Pointers(t) /\ AllCut(t) /\ Compared(t) /\ pc = "strcmp"
      /\ UNCHANGED <<line, buf, j, p, argv>>
  BY <1>1, Zenon DEF LineInv, strcmp, Parsing
<1>3. Text' = t /\ Pointers(t)' /\ AllCut(t)'
  BY <1>1, <1>2, Zenon DEF Text, Pointers, AllCut, CutOut, IsWord
<1>4. PICK e : /\ IsWord(t, argv[1], e) /\ a <= e
               /\ \A k \in 1..(cmd - 1) : Names[k] # SubSeq(t, argv[1] + 1, e)
               /\ \A i \in 1..b : Names[cmd][i] = t[argv[1] + i]
  BY <1>2, Zenon DEF Compared
<1>5. PICK q : q = argv[1]
  OBVIOUS
<1>6. PICK name : name = Names[cmd]
  OBVIOUS
<1>7. PICK w : w = SubSeq(t, q + 1, e)
  OBVIOUS
<1>8. PICK c : c = Char(name, b)
  OBVIOUS
<1>9. /\ argv # <<>> /\ argv \in Seq(Nat) /\ cmd \in 1..Len(Names) /\ Len(Names) \in Nat
      /\ name \in Seq(Chars) /\ Len(name) \in Nat
      /\ \A i \in 1..Len(name) : name[i] # NUL
      /\ b \in 0..Len(name) /\ a = q + b /\ q \in Nat
  <2>1. argv # <<>> /\ argv \in Seq(Nat) /\ cmd \in 1..Len(Names) /\ Len(Names) \in Nat
    BY <1>2, NamesAssumption DEF Compared, LineTypes
  <2>2. b \in 0..Len(name) /\ a = q + b
    BY <1>2, <1>5, <1>6, Zenon DEF Compared
  <2>3. q \in Nat
    BY <1>5, <2>1
  <2>4. name \in Seq(Chars) /\ \A i \in 1..Len(name) : name[i] # NUL
    BY <1>6, <2>1, NamesAssumption
  <2>5. QED
    BY <2>1, <2>2, <2>3, <2>4
<1>10. /\ t \in Seq(Chars) /\ Len(t) \in Nat /\ Len(t) < BufSize /\ BufSize \in Nat
       /\ \A i \in 1..Len(t) : t[i] # NUL
       /\ e \in (q + 1)..Len(t) /\ buf[e] = NUL
       /\ \A i \in q..(e - 1) : buf[i] = t[i + 1]
  BY <1>2, <1>4, <1>5, LineAssumption DEF Pointers, IsText, IsWord, EndsAt
<1>11. /\ w \in Seq(Chars) /\ Len(w) = e - q
       /\ \A k \in 1..(e - q) : w[k] = t[q + k]
  <2>1. q + 1 \in Nat \ {0} /\ q + 1 <= e + 1 /\ e <= Len(t) /\ e \in Nat
        /\ (e - (q + 1)) + 1 = e - q /\ \A k \in 1..(e - q) : ((q + 1) + k) - 1 = q + k
    BY <1>9, <1>10
  <2>2. /\ w \in Seq(Chars) /\ Len(w) = (e - (q + 1)) + 1
        /\ \A k \in 1..((e - (q + 1)) + 1) : w[k] = t[((q + 1) + k) - 1]
    BY <1>7, <1>10, <2>1, Slice, Zenon
  <2>3. QED
    BY <2>1, <2>2
(* What strcmp sees in the buffer and in the name. *)
<1>12. /\ a < e => /\ buf[a] = w[b + 1] /\ buf[a] = t[(q + b) + 1] /\ buf[a] # NUL
                   /\ a + 1 <= e /\ a + 1 \in 0..(BufSize - 1) /\ b + 1 \in 1..(e - q)
       /\ a = e => buf[a] = NUL /\ b = e - q
       /\ a < e \/ a = e
  <2>1. a < e => /\ a \in q..(e - 1) /\ a + 1 \in 1..Len(t) /\ b + 1 \in 1..(e - q)
                 /\ q + (b + 1) = a + 1 /\ (q + b) + 1 = a + 1
                 /\ a + 1 <= e /\ a + 1 \in 0..(BufSize - 1)
    BY <1>9, <1>10
  <2>2. (a = e => b = e - q) /\ (a < e \/ a = e)
    BY <1>4, <1>9, <1>10
  <2>3. a < e => w[b + 1] = t[q + (b + 1)] /\ buf[a] = t[a + 1] /\ t[a + 1] # NUL
    BY <1>10, <1>11, <2>1, Zenon
  <2>4. QED
    BY <1>10, <2>1, <2>2, <2>3, Zenon
<1>13. /\ b < Len(name) => /\ c = name[b + 1] /\ c # NUL
                           /\ b + 1 \in 1..Len(name) /\ b + 1 \in 0..Len(name)
       /\ b = Len(name) => c = NUL
       /\ b < Len(name) \/ b = Len(name)
  <2>1. /\ b < Len(name) => b + 1 \in 1..Len(name) /\ b + 1 \in 0..Len(name)
        /\ b = Len(name) => ~(b < Len(name))
        /\ b < Len(name) \/ b = Len(name)
    BY <1>9
  <2>2. QED
    BY <1>8, <1>9, <2>1, Zenon DEF Char
<1>14. (name = w => buf[a] = c) /\ (buf[a] = NUL /\ c = NUL => name = w)
  <2>1. ASSUME name = w PROVE buf[a] = c
    <3>1. Len(name) = e - q
      BY <1>11, <2>1, Zenon
    <3>2. CASE a < e
      <4>1. b < Len(name)
        BY <1>9, <1>10, <3>1, <3>2
      <4>2. QED
        BY <1>12, <1>13, <2>1, <3>2, <4>1, Zenon
    <3>3. CASE a = e
      BY <1>12, <1>13, <3>1, <3>3, Zenon
    <3>4. QED
      BY <1>12, <3>2, <3>3, Zenon
  <2>2. ASSUME buf[a] = NUL, c = NUL PROVE name = w
    <3>1. b = e - q /\ b = Len(name)
      BY <1>12, <1>13, <2>2, Zenon
    <3>2. \A i \in 1..b : name[i] = t[q + i] /\ w[i] = t[q + i]
      BY <1>4, <1>5, <1>6, <1>11, <3>1, Zenon
    <3>3. Len(name) = Len(w) /\ \A i \in 1..Len(name) : name[i] = w[i]
      BY <1>11, <3>1, <3>2, Zenon
    <3>4. QED
      BY <1>9, <1>11, <3>3, SameString, Zenon
  <2>3. QED
    BY <2>1, <2>2, Zenon
<1>15. /\ q \in 0..(BufSize - 1) /\ q <= e /\ IsWord(t, q, e)' /\ argv'[1] = q
  BY <1>2, <1>4, <1>5, <1>9, <1>10 DEF IsWord
<1>16. CASE /\ buf[a] # NUL /\ buf[a] = c /\ a' = a + 1 /\ b' = b + 1
            /\ UNCHANGED <<pc, cmd>>
  <2>1. a < e /\ b < Len(name)
    BY <1>12, <1>13, <1>16, Zenon
  <2>2. a + 1 \in 0..(BufSize - 1) /\ a + 1 <= e /\ b + 1 \in Nat /\ b + 1 \in 0..Len(name)
        /\ a + 1 = q + (b + 1)
    BY <1>9, <1>12, <1>13, <2>1
  <2>3. LineTypes'
    BY <1>2, <1>16, <2>2, Zenon DEF LineTypes
  <2>4. \A i \in 1..(b + 1) : name[i] = t[q + i]
    <3>1. name[b + 1] = t[(q + b) + 1] /\ (q + b) + 1 = q + (b + 1)
      <4>1. name[b + 1] = t[(q + b) + 1]
        BY <1>12, <1>13, <1>16, <2>1, Zenon
      <4>2. QED
        BY <1>9, <4>1
    <3>2. \A i \in 1..(b + 1) : i \in 1..b \/ i = b + 1
      BY <1>9
    <3>3. \A i \in 1..b : name[i] = t[q + i]
      BY <1>4, <1>5, <1>6, Zenon
    <3>4. QED
      BY <3>1, <3>2, <3>3, Zenon
  <2>5. /\ IsWord(t, argv[1], e)' /\ a' <= e
        /\ \A k \in 1..(cmd' - 1) : Names[k] # SubSeq(t, argv'[1] + 1, e)
        /\ \A i \in 1..b' : Names[cmd'][i] = t[argv'[1] + i]
    <3>1. IsWord(t, argv[1], e)'
      BY <1>15, Zenon DEF IsWord
    <3>2. QED
      BY <1>4, <1>5, <1>6, <1>15, <1>16, <2>2, <2>4, <3>1, Zenon
  <2>6. Compared(t)'
    <3>1. argv' # <<>> /\ cmd' \in 1..Len(Names) /\ b' \in 0..Len(Names[cmd']) /\ a' = argv'[1] + b'
      BY <1>2, <1>6, <1>9, <1>15, <1>16, <2>2, Zenon
    <3>2. QED
      BY <2>5, <3>1, Zenon DEF Compared
  <2>7. pc' = "strcmp"
    BY <1>2, <1>16
  <2>8. QED
    BY <1>3, <2>3, <2>6, <2>7 DEF LineInv, Parsing
<1>17. CASE buf[a] = NUL /\ c = NUL /\ pc' = "done" /\ UNCHANGED <<cmd, a, b>>
  <2>1. LineTypes'
    BY <1>2, <1>17, Zenon DEF LineTypes
  <2>2. name = w
    BY <1>14, <1>17, Zenon
  <2>3. \A k \in 1..Len(Names) : Names[k] = w <=> cmd = k
    BY <1>6, <1>9, <2>2, NamesAssumption, Zenon
  <2>4. \A k \in 1..Len(Names) : Names[k] = SubSeq(t, argv'[1] + 1, e) <=> cmd' = k
    BY <1>7, <1>15, <1>17, <2>3, Zenon
  <2>5. IsWord(t, argv[1], e)' /\ argv' # <<>>
    BY <1>2, <1>9, <1>15, Zenon DEF IsWord
  <2>6. Chosen(t)'
    BY <2>4, <2>5, Zenon DEF Chosen
  <2>7. QED
    BY <1>3, <1>17, <2>1, <2>6 DEF LineInv, Parsing
<1>18. CASE buf[a] # c
  <2>1. name # w
    BY <1>14, <1>18, Zenon
  <2>2. \A k \in 1..cmd : Names[k] # w
    <3>1. \A k \in 1..cmd : k \in 1..(cmd - 1) \/ k = cmd
      BY <1>9
    <3>2. QED
      BY <1>4, <1>5, <1>6, <1>7, <2>1, <3>1, Zenon
  <2>3. CASE /\ cmd < Len(Names) /\ cmd' = cmd + 1 /\ a' = argv[1] /\ b' = 0 /\ UNCHANGED pc
    <3>1. /\ cmd + 1 \in 1..Len(Names) /\ cmd + 1 \in Nat /\ (cmd + 1) - 1 = cmd /\ q = q + 0
          /\ \A i \in 1..0 : FALSE
      BY <1>9, <2>3
    <3>2. Names[cmd + 1] \in Seq(Chars)
      BY <3>1, NamesAssumption
    <3>3. 0 \in 0..Len(Names[cmd + 1])
      BY <3>2
    <3>4. LineTypes'
      BY <1>2, <1>5, <1>15, <2>3, <3>1 DEF LineTypes
    <3>5. /\ IsWord(t, argv[1], e)' /\ a' <= e
          /\ \A k \in 1..(cmd' - 1) : Names[k] # SubSeq(t, argv'[1] + 1, e)
          /\ \A i \in 1..b' : Names[cmd'][i] = t[argv'[1] + i]
      <4>1. IsWord(t, argv[1], e)' /\ a' <= e
        BY <1>5, <1>15, <2>3, Zenon DEF IsWord
      <4>2. cmd' - 1 = cmd
        BY <2>3, <3>1
      <4>3. QED
        BY <1>7, <1>15, <2>2, <2>3, <3>1, <4>1, <4>2, Zenon
    <3>6. Compared(t)'
      <4>1. argv' # <<>> /\ cmd' \in 1..Len(Names) /\ b' \in 0..Len(Names[cmd']) /\ a' = argv'[1] + b'
        BY <1>2, <1>5, <1>9, <1>15, <2>3, <3>1, <3>3, Zenon
      <4>2. QED
        BY <3>5, <4>1, Zenon DEF Compared
    <3>7. pc' = "strcmp"
      BY <1>2, <2>3
    <3>8. QED
      BY <1>3, <3>4, <3>6, <3>7 DEF LineInv, Parsing
  <2>4. CASE cmd = Len(Names) /\ cmd' = 0 /\ pc' = "done" /\ UNCHANGED <<a, b>>
    <3>1. 0 \in Nat /\ \A k \in 1..Len(Names) : 0 # k
      OBVIOUS
    <3>2. LineTypes'
      BY <1>2, <2>4, <3>1, Zenon DEF LineTypes
    <3>3. \A k \in 1..Len(Names) : Names[k] = SubSeq(t, argv'[1] + 1, e) <=> cmd' = k
      BY <1>7, <1>15, <2>2, <2>4, <3>1, Zenon
    <3>4. IsWord(t, argv[1], e)' /\ argv' # <<>>
      BY <1>2, <1>9, <1>15, Zenon DEF IsWord
    <3>5. Chosen(t)'
      BY <3>3, <3>4, Zenon DEF Chosen
    <3>6. QED
      BY <1>3, <2>4, <3>2, <3>5 DEF LineInv, Parsing
  <2>5. QED
    BY <1>6, <1>8, <1>18, <2>3, <2>4, Zenon DEF strcmp
<1>19. QED
  BY <1>6, <1>8, <1>16, <1>17, <1>18, Zenon DEF strcmp

LEMMA LineKept ==
  ASSUME LineInv, UNCHANGED lineVars, pc' \notin Parsing, pc' # "copy"
  PROVE  LineInv'
<1>1. LineTypes'
  BY Zenon DEF LineInv, LineTypes, lineVars
<1>2. QED
  BY <1>1 DEF LineInv, Parsing

LEMMA LineStep == LineInv /\ NumInv /\ [Next]_vars => LineInv'
<1> SUFFICES ASSUME LineInv, NumInv, [Next]_vars PROVE LineInv'
  OBVIOUS
<1>1. CASE Line
  BY <1>1, CopyStep, WordStep, SpacesStep, LettersStep, ExecStep, StrcmpStep
  DEF Line, shell_exec, shell_exec_args
<1>2. CASE mem \/ disk \/ isr_handler
  <2>1. UNCHANGED lineVars /\ pc' = "next"
    BY <1>2 DEF mem, disk, isr_handler, Shows
  <2>2. QED
    BY <2>1, LineKept DEF Parsing
<1>3. CASE NextNumber
  <2>1. UNCHANGED lineVars
    BY <1>3 DEF NextNumber
  <2>2. pc' \in {"int_to_str", "addr_to_str", "end"}
    <3>1. CASE todo # <<>> /\ pc' = Head(todo).fn
      <4>1. Head(todo) \in Items
        BY <3>1 DEF NumInv
      <4>2. QED
        BY <3>1, <4>1 DEF Items
    <3>2. QED
      BY <1>3, <3>1 DEF NextNumber
  <2>3. QED
    BY <2>1, <2>2, LineKept DEF Parsing
<1>4. CASE Number
  <2>1. UNCHANGED lineVars /\ pc' \in {"digits", "reverse", "addr_to_str", "next"}
    BY <1>4 DEF Number, int_to_str, Digits, Reverse, addr_to_str
  <2>2. QED
    BY <2>1, LineKept DEF Parsing
<1>5. CASE UNCHANGED vars
  <2>1. UNCHANGED lineVars /\ pc' = pc
    BY <1>5 DEF vars
  <2>2. PICK t : t = Text
    OBVIOUS
  <2>3. Text' = t
    BY <2>1, <2>2, Zenon DEF lineVars, Text
  <2>4. /\ LineTypes' = LineTypes /\ InCopy' = InCopy /\ Pointers(t)' = Pointers(t)
        /\ BetweenWords(t)' = BetweenWords(t)
        /\ InWord(t)' = InWord(t) /\ AllCut(t)' = AllCut(t)
    BY <2>1 DEF lineVars, LineTypes, InCopy, Pointers, BetweenWords, InWord, AllCut,
                AheadFrom, CutOut, IsWord
  <2>5. Compared(t)' = Compared(t) /\ Chosen(t)' = Chosen(t)
    BY <2>1 DEF lineVars, Compared, Chosen, IsWord
  <2>6. UNCHANGED <<argv, cmd, a>>
    BY <2>1 DEF lineVars
  <2>7. QED
    BY <2>1, <2>2, <2>3, <2>4, <2>5, <2>6 DEF LineInv
<1>6. QED
  BY <1>1, <1>2, <1>3, <1>4, <1>5 DEF Next

LEMMA LineInvariant == Spec => []LineInv
<1>1. Init => LineInv
  BY LineInit
<1>2. LineInv /\ NumInv /\ [Next]_vars => LineInv'
  BY LineStep
<1>3. Spec => []NumInv
  BY NumInvariant
<1>4. QED
  BY <1>1, <1>2, <1>3, PTL DEF Spec

(* Whatever the line and whatever an earlier command left in buf, the walk *)
(* cuts out the words Argv names, in order and up to MaxArgs of them,      *)
(* every pointer stays inside buf, and strcmp picks the command whose name *)
(* the first word is, for every size of buf and argv and every list of     *)
(* names (shell.c:14-31, string.c:3-9).                                    *)
THEOREM LineIsParsed == Spec => []ParsedRight
<1>1. LineInv => ParsedRight
  <2> SUFFICES ASSUME LineInv PROVE ParsedRight
    OBVIOUS
  <2>1. /\ LineTypes /\ j < BufSize /\ p < BufSize /\ a < BufSize
        /\ buf \in [0..(BufSize - 1) -> Chars] /\ argv \in Seq(Nat) /\ p \in Nat
    BY LineAssumption DEF LineInv, LineTypes
  <2>2. PICK t : t = Text
    OBVIOUS
  <2>3. ASSUME NEW q \in Nat, NEW e, IsWord(t, q, e), IsText(t)
        PROVE  WordAt(q) = SubSeq(t, q + 1, e)
    BY <2>1, <2>3, WordIs, Zenon
  <2>4. CASE pc \in {"exec", "strcmp", "done"}
    <3>1. /\ AllCut(t) /\ IsText(t) /\ p <= Len(t) /\ t \in Seq(Chars) /\ Len(t) \in Nat
          /\ Enumerates(argv, t, p)
      BY <2>2, <2>4 DEF LineInv, Parsing, Pointers, IsText, AllCut
    <3>2. Len(argv) = MaxArgs \/ p >= Len(t)
      BY <3>1 DEF AllCut
    <3>3. /\ Argv(t) = [k \in 1..Len(argv) |-> Argv(t)[k]]
          /\ \A k \in 1..Len(argv) : \A e : EndsAt(t, argv[k], e) =>
               Argv(t)[k] = SubSeq(t, argv[k] + 1, e)
      <4>1. PICK s : s = argv
        OBVIOUS
      <4>2. t \in Seq(Chars) /\ p \in Nat /\ Enumerates(s, t, p)
            /\ (Len(s) = MaxArgs \/ p >= Len(t))
        BY <2>1, <3>1, <3>2, <4>1, Zenon
      <4>3. /\ Argv(t) = [k \in 1..Len(s) |-> Argv(t)[k]]
            /\ \A k \in 1..Len(s) : \A e : EndsAt(t, s[k], e) =>
                 Argv(t)[k] = SubSeq(t, s[k] + 1, e)
        BY <4>2, ArgvIs
      <4>4. QED
        BY <4>1, <4>3, Zenon
    <3>4. ASSUME NEW k \in 1..Len(argv) PROVE WordAt(argv[k]) = Argv(t)[k]
      <4>1. PICK e : IsWord(t, argv[k], e)
        BY <3>1, Zenon DEF AllCut, CutOut
      <4>2. argv[k] \in Nat
        BY <2>1
      <4>3. WordAt(argv[k]) = SubSeq(t, argv[k] + 1, e)
        BY <2>3, <3>1, <4>1, <4>2, Zenon
      <4>4. EndsAt(t, argv[k], e)
        BY <4>1, Zenon DEF IsWord
      <4>5. QED
        BY <3>3, <4>3, <4>4, Zenon
    <3>5. [k \in 1..Len(argv) |-> WordAt(argv[k])] = Argv(t)
      BY <3>3, <3>4, Zenon
    <3>6. ASSUME pc = "done", NEW k \in 1..Len(Names)
          PROVE  (argv # <<>> /\ WordAt(argv[1]) = Names[k]) <=> cmd = k
      <4>1. Chosen(t)
        BY <2>2, <3>6, Zenon DEF LineInv
      <4>2. CASE argv = <<>> /\ cmd = 0
        <5>1. cmd # k
          BY <4>2
        <5>2. QED
          BY <4>2, <5>1, Zenon
      <4>3. CASE argv # <<>>
        <5>1. PICK e : /\ IsWord(t, argv[1], e)
                       /\ \A m \in 1..Len(Names) : Names[m] = SubSeq(t, argv[1] + 1, e) <=> cmd = m
          BY <4>1, <4>3, Zenon DEF Chosen
        <5>2. argv[1] \in Nat
          BY <2>1, <4>3
        <5>3. WordAt(argv[1]) = SubSeq(t, argv[1] + 1, e)
          BY <2>3, <3>1, <5>1, <5>2, Zenon
        <5>4. QED
          BY <4>3, <5>1, <5>3, Zenon
      <4>4. QED
        BY <4>1, <4>2, <4>3, Zenon DEF Chosen
    <3>7. QED
      BY <2>1, <2>2, <3>5, <3>6, Zenon DEF ParsedRight, Text
  <2>5. CASE pc \notin {"exec", "strcmp", "done"}
    <3>1. pc # "done"
      BY <2>5
    <3>2. QED
      BY <2>1, <2>5, <3>1, Zenon DEF ParsedRight
  <2>6. QED
    BY <2>4, <2>5, Zenon
<1>2. QED
  BY <1>1, LineInvariant, PTL

================================================================================
