----------------------------- MODULE ConsoleProofs -----------------------------
(***************************************************************************)
(* Theorems about Console for every size of the screen, every set of       *)
(* characters, colours and themes, every keyboard map and every bound on   *)
(* the line.                                                               *)
(*                                                                         *)
(* What still has to be done, todo, is a sequence of operations; what the  *)
(* state must satisfy depends on how far it has come.  A judgement         *)
(* Leads(T, s, a, b) says that the sequence s takes phase a to phase b,    *)
(* when every operation takes one phase to the next as the set of triples  *)
(* T allows.  Each function of fb.c and each command is judged once, and   *)
(* the judgements are put together as the functions call each other.       *)
(***************************************************************************)
EXTENDS Console, FiniteSetTheorems, SequenceTheorems, TLAPS

------------------------------------------------------------------------------
(* Sequences of operations. *)

Operation ==
  [op : {"erase", "draw", "room", "advance", "home", "down", "back", "black", "clear",
         "unmask", "reset"}]
    \cup [op : {"put"}, at : Nat, ch : Char]
    \cup [op : {"theme"}, theme : {Themes[t] : t \in DOMAIN Themes}]

Leads(T, s, a, b) ==
  /\ s \in Seq(Operation)
  /\ \E h : /\ h[1] = a /\ h[Len(s) + 1] = b
            /\ \A k \in 1..Len(s) : <<h[k], s[k], h[k + 1]>> \in T

LEMMA LeadsNowhere ==
  ASSUME NEW T, NEW a
  PROVE  Leads(T, <<>>, a, a)
<1> DEFINE h == [k \in {1} |-> a]
<1>1. h[1] = a /\ Len(<<>>) + 1 = 1 /\ 1..Len(<<>>) = {} /\ <<>> \in Seq(Operation)
  OBVIOUS
<1> HIDE DEF h
<1>2. QED
  BY <1>1, Zenon DEF Leads

LEMMA LeadsStays ==
  ASSUME NEW T, NEW a, NEW b, Leads(T, <<>>, a, b)
  PROVE  a = b
<1>1. Len(<<>>) + 1 = 1
  OBVIOUS
<1>2. QED
  BY <1>1, Zenon DEF Leads

LEMMA LeadsOne ==
  ASSUME NEW T, NEW a, NEW b, NEW o \in Operation, <<a, o, b>> \in T
  PROVE  Leads(T, <<o>>, a, b)
<1> DEFINE h == [k \in {1, 2} |-> IF k = 1 THEN a ELSE b]
           s == <<o>>
<1>1. h[1] = a /\ h[2] = b /\ s \in Seq(Operation) /\ s[1] = o /\ Len(s) + 1 = 2
      /\ \A k \in 1..Len(s) : k = 1 /\ k + 1 = 2
  OBVIOUS
<1> HIDE DEF h, s
<1>2. \A k \in 1..Len(s) : <<h[k], s[k], h[k + 1]>> \in T
  BY <1>1, Zenon
<1>3. Leads(T, s, a, b)
  BY <1>1, <1>2, Zenon DEF Leads
<1>4. QED
  BY <1>3 DEF s

LEMMA LeadsJoin ==
  ASSUME NEW T, NEW s, NEW t, NEW a, NEW b, NEW c, Leads(T, s, a, b), Leads(T, t, b, c)
  PROVE  Leads(T, s \o t, a, c)
<1>1. PICK g : /\ g[1] = a /\ g[Len(s) + 1] = b
               /\ \A k \in 1..Len(s) : <<g[k], s[k], g[k + 1]>> \in T
  BY Zenon DEF Leads
<1>2. PICK h : /\ h[1] = b /\ h[Len(t) + 1] = c
               /\ \A k \in 1..Len(t) : <<h[k], t[k], h[k + 1]>> \in T
  BY Zenon DEF Leads
<1>3. s \in Seq(Operation) /\ t \in Seq(Operation)
  BY Zenon DEF Leads
<1> DEFINE u == s \o t
<1>4. /\ u \in Seq(Operation) /\ Len(u) = Len(s) + Len(t) /\ Len(s) \in Nat /\ Len(t) \in Nat
      /\ \A k \in 1..Len(s) : u[k] = s[k]
      /\ \A k \in 1..Len(u) : k > Len(s) => u[k] = t[k - Len(s)]
  BY <1>3
<1> HIDE DEF u
<1> DEFINE f == [k \in 1..(Len(u) + 1) |-> IF k <= Len(s) THEN g[k] ELSE h[k - Len(s)]]
<1>5. /\ \A k \in 1..(Len(s) + 1) : f[k] = g[k]
      /\ \A k \in 1..(Len(u) + 1) : k > Len(s) => f[k] = h[k - Len(s)]
  <2>1. \A k \in 1..Len(s) : f[k] = g[k]
    BY <1>4
  <2>2. \A k \in 1..(Len(u) + 1) : k > Len(s) => f[k] = h[k - Len(s)]
    BY <1>4
  <2>3. f[Len(s) + 1] = g[Len(s) + 1]
    <3>1. Len(s) + 1 \in 1..(Len(u) + 1) /\ Len(s) + 1 > Len(s) /\ (Len(s) + 1) - Len(s) = 1
      BY <1>4
    <3>2. f[Len(s) + 1] = h[1]
      BY <2>2, <3>1
    <3>3. QED
      BY <1>1, <1>2, <3>2
  <2> HIDE DEF f
  <2>4. \A k \in 1..(Len(s) + 1) : k \in 1..Len(s) \/ k = Len(s) + 1
    BY <1>4
  <2>5. QED
    BY <2>1, <2>2, <2>3, <2>4, Zenon
<1> HIDE DEF f
<1>6. f[1] = a
  BY <1>1, <1>4, <1>5
<1>7. f[Len(u) + 1] = c
  <2>1. Len(u) + 1 \in 1..(Len(u) + 1) /\ Len(u) + 1 > Len(s) /\ (Len(u) + 1) - Len(s) = Len(t) + 1
    BY <1>4
  <2>2. QED
    BY <1>2, <1>5, <2>1
<1>8. ASSUME NEW k \in 1..Len(u) PROVE <<f[k], u[k], f[k + 1]>> \in T
  <2>1. CASE k <= Len(s)
    <3>1. k \in 1..Len(s) /\ k \in 1..(Len(s) + 1) /\ k + 1 \in 1..(Len(s) + 1)
      BY <1>4, <2>1
    <3>2. QED
      BY <1>1, <1>4, <1>5, <3>1, Zenon
  <2>2. CASE k > Len(s)
    <3>1. /\ k \in 1..(Len(u) + 1) /\ k + 1 \in 1..(Len(u) + 1) /\ k + 1 > Len(s)
          /\ k - Len(s) \in 1..Len(t) /\ (k + 1) - Len(s) = (k - Len(s)) + 1
      BY <1>4, <2>2
    <3>2. f[k] = h[k - Len(s)] /\ f[k + 1] = h[(k + 1) - Len(s)] /\ u[k] = t[k - Len(s)]
      BY <1>4, <1>5, <2>2, <3>1, Zenon
    <3>3. <<h[k - Len(s)], t[k - Len(s)], h[(k - Len(s)) + 1]>> \in T
      BY <1>2, <3>1, Zenon
    <3>4. QED
      BY <3>1, <3>2, <3>3, Zenon
  <2>3. QED
    BY <1>4, <2>1, <2>2
<1>9. Leads(T, u, a, c)
  BY <1>4, <1>6, <1>7, <1>8, Zenon DEF Leads
<1>10. QED
  BY <1>9 DEF u

LEMMA LeadsOn ==
  ASSUME NEW T, NEW s, NEW a, NEW c, Leads(T, s, a, c), s # <<>>
  PROVE  /\ Head(s) \in Operation /\ s \in Seq(Operation)
         /\ \E b : <<a, Head(s), b>> \in T /\ Leads(T, Tail(s), b, c)
<1>1. PICK h : /\ h[1] = a /\ h[Len(s) + 1] = c
               /\ \A k \in 1..Len(s) : <<h[k], s[k], h[k + 1]>> \in T
  BY Zenon DEF Leads
<1>2. s \in Seq(Operation)
  BY Zenon DEF Leads
<1> DEFINE t == Tail(s)
<1>3. /\ t \in Seq(Operation) /\ Len(t) = Len(s) - 1 /\ Len(s) \in Nat /\ Len(s) >= 1
      /\ \A k \in 1..Len(t) : t[k] = s[k + 1]
      /\ Head(s) = s[1] /\ s[1] \in Operation
  BY <1>2
<1> HIDE DEF t
<1> DEFINE f == [k \in 1..Len(s) |-> h[k + 1]]
<1>4. \A k \in 1..Len(s) : f[k] = h[k + 1]
  OBVIOUS
<1> HIDE DEF f
<1>5. f[1] = h[2] /\ f[Len(t) + 1] = c
  <2>1. 1 \in 1..Len(s) /\ 1 + 1 = 2 /\ Len(t) + 1 = Len(s) /\ Len(s) \in 1..Len(s)
    BY <1>3
  <2>2. f[1] = h[1 + 1] /\ f[Len(s)] = h[Len(s) + 1]
    BY <1>4, <2>1, Zenon
  <2>3. QED
    BY <1>1, <2>1, <2>2
<1>6. ASSUME NEW k \in 1..Len(t) PROVE <<f[k], t[k], f[k + 1]>> \in T
  <2>1. k \in 1..Len(s) /\ k + 1 \in 1..Len(s)
    BY <1>3
  <2>2. QED
    BY <1>1, <1>3, <1>4, <2>1, Zenon
<1>7. Leads(T, t, h[2], c)
  BY <1>3, <1>5, <1>6, Zenon DEF Leads
<1>8. <<a, s[1], h[2]>> \in T
  <2>1. 1 \in 1..Len(s) /\ 1 + 1 = 2
    BY <1>3
  <2>2. QED
    BY <1>1, <2>1, Zenon
<1>9. QED
  BY <1>2, <1>3, <1>7, <1>8, Zenon DEF t

LEMMA Grows ==
  ASSUME NEW a \in Nat, NEW b \in Nat, NEW c \in Nat, a <= b
  PROVE  a * c <= b * c /\ a * c \in Nat /\ b * c \in Nat
<1>1. b - a \in Nat
  OBVIOUS
<1>2. (b - a) * c \in Nat /\ (b - a) * c = b * c - a * c
  BY <1>1
<1>3. a * c \in Nat /\ b * c \in Nat
  OBVIOUS
<1>4. QED
  BY <1>2, <1>3

LEMMA Division ==
  \A x \in Nat : \A d \in Nat \ {0} :
    /\ x \div d \in Nat /\ x % d \in 0..(d - 1)
    /\ x = (x \div d) * d + (x % d)
OBVIOUS

LEMMA DivisionIs ==
  ASSUME NEW x \in Nat, NEW d \in Nat \ {0}, NEW q \in Nat, NEW r \in 0..(d - 1), x = q * d + r
  PROVE  x \div d = q /\ x % d = r
<1>1. /\ x \div d \in Nat /\ x % d \in 0..(d - 1)
      /\ x = (x \div d) * d + (x % d)
  BY Division
<1> DEFINE v == x \div d
           t == x % d
<1>2. v \in Nat
  BY <1>1
<1>3. t \in 0..(d - 1) /\ v * d + t = q * d + r
  BY <1>1
<1> HIDE DEF v, t
<1>4. ASSUME v < q PROVE FALSE
  <2>1. (v + 1) * d <= q * d /\ (v + 1) * d = v * d + d /\ v * d \in Nat /\ q * d \in Nat
    BY <1>2, <1>4, Grows
  <2>2. QED
    BY <1>3, <2>1
<1>5. ASSUME q < v PROVE FALSE
  <2>1. (q + 1) * d <= v * d /\ (q + 1) * d = q * d + d /\ v * d \in Nat /\ q * d \in Nat
    BY <1>2, <1>5, Grows
  <2>2. QED
    BY <1>3, <2>1
<1>6. v = q
  <2>1. ~(v < q) /\ ~(q < v)
    BY <1>4, <1>5
  <2>2. QED
    BY <1>2, <2>1
<1>7. q * d \in Nat
  OBVIOUS
<1>8. t = r
  BY <1>3, <1>6, <1>7
<1>9. QED
  BY <1>6, <1>8 DEF v, t

LEMMA RemainderSteps ==
  ASSUME NEW j \in Nat, NEW d \in Nat \ {0}
  PROVE  (j + 1) % d = IF (j % d) + 1 = d THEN 0 ELSE (j % d) + 1
<1> DEFINE q == j \div d
           r == j % d
<1>1. q \in Nat /\ r \in 0..(d - 1) /\ j = q * d + r
  BY Division
<1> HIDE DEF q, r
<1>2. CASE r + 1 = d
  <2>1. j + 1 \in Nat /\ q + 1 \in Nat /\ 0 \in 0..(d - 1) /\ j + 1 = (q + 1) * d + 0
    BY <1>1, <1>2
  <2>2. (j + 1) % d = 0
    BY <2>1, DivisionIs
  <2>3. QED
    BY <1>2, <2>2 DEF r
<1>3. CASE r + 1 # d
  <2>1. j + 1 \in Nat /\ r + 1 \in 0..(d - 1) /\ j + 1 = q * d + (r + 1)
    BY <1>1, <1>3
  <2>2. (j + 1) % d = r + 1
    BY <1>1, <2>1, DivisionIs
  <2>3. QED
    BY <1>3, <2>2 DEF r
<1>4. QED
  BY <1>2, <1>3

(* The same sequence several times. *)
LEMMA LeadsAgain ==
  ASSUME NEW T, NEW s, NEW a, NEW n \in Nat, Leads(T, s, a, a), s # <<>>
  PROVE  Leads(T, [k \in 1..(n * Len(s)) |-> s[((k - 1) % Len(s)) + 1]], a, a)
<1> DEFINE L == Len(s)
           M == n * L
           u == [k \in 1..M |-> s[((k - 1) % L) + 1]]
<1>1. PICK h : /\ h[1] = a /\ h[L + 1] = a
               /\ \A k \in 1..L : <<h[k], s[k], h[k + 1]>> \in T
  BY Zenon DEF Leads
<1>2. s \in Seq(Operation)
  BY Zenon DEF Leads
<1>3. L \in Nat /\ L >= 1 /\ \A k \in 1..L : s[k] \in Operation
  BY <1>2
<1>4. M \in Nat
  BY <1>3
<1> HIDE DEF M, L
<1> DEFINE p(k) == ((k - 1) % L) + 1
<1>5. \A k \in Nat \ {0} : /\ p(k) \in 1..L
                           /\ p(k + 1) = IF p(k) = L THEN 1 ELSE p(k) + 1
  <2>1. SUFFICES ASSUME NEW k \in Nat \ {0}
                 PROVE  p(k) \in 1..L /\ p(k + 1) = IF p(k) = L THEN 1 ELSE p(k) + 1
    OBVIOUS
  <2>2. PICK j \in Nat : j = k - 1
    BY <2>1
  <2>3. (j % L) \in 0..(L - 1) /\ (j + 1) % L = IF (j % L) + 1 = L THEN 0 ELSE (j % L) + 1
    <3>1. L \in Nat \ {0}
      BY <1>3
    <3>2. QED
      BY <3>1, RemainderSteps, Division
  <2>4. p(k) = (j % L) + 1 /\ p(k + 1) = ((j + 1) % L) + 1
    <3>1. k - 1 = j /\ (k + 1) - 1 = j + 1
      BY <2>1, <2>2
    <3>2. QED
      BY <3>1
  <2>5. PICK x \in Int : x = j % L
    BY <2>3
  <2>6. PICK y \in Int : y = (j + 1) % L
    BY <2>3, <2>5
  <2>7. x \in 0..(L - 1) /\ (y = IF x + 1 = L THEN 0 ELSE x + 1) /\ p(k) = x + 1 /\ p(k + 1) = y + 1
    BY <2>3, <2>4, <2>5, <2>6
  <2> HIDE DEF p
  <2>8. QED
    BY <1>3, <2>7
<1>6. p(1) = 1
  BY <1>3, SMTT(30)
<1> DEFINE f == [k \in 1..(M + 1) |-> h[p(k)]]
<1>7. \A k \in 1..(M + 1) : f[k] = h[p(k)]
  OBVIOUS
<1>8. /\ u \in Seq(Operation) /\ Len(u) = M
      /\ \A k \in 1..M : u[k] = s[p(k)]
  <2>1. \A k \in 1..M : k \in Nat \ {0}
    BY <1>4
  <2>2. \A k \in 1..M : s[p(k)] \in Operation
    BY <1>3, <1>5, <2>1, Zenon
  <2>3. u = [k \in 1..M |-> s[p(k)]]
    OBVIOUS
  <2> HIDE DEF p, u
  <2>4. QED
    BY <1>4, <2>2, <2>3
<1>9. p(M + 1) = 1
  <2>1. (M + 1) - 1 = M
    BY <1>4
  <2>2. M % L = 0
    <3>1. \A x \in Nat, y \in Nat \ {0} : (x * y) % y = 0
      OBVIOUS
    <3>2. QED
      BY <1>3, <3>1 DEF M
  <2>3. QED
    BY <2>1, <2>2
<1> HIDE DEF f, p, u
<1>10. f[1] = a /\ f[Len(u) + 1] = a
  <2>1. 1 \in 1..(M + 1) /\ M + 1 \in 1..(M + 1)
    BY <1>4
  <2>2. QED
    BY <1>1, <1>6, <1>7, <1>8, <1>9, <2>1, Zenon
<1>11. ASSUME NEW k \in 1..Len(u) PROVE <<f[k], u[k], f[k + 1]>> \in T
  <2>1. k \in 1..M /\ k \in Nat \ {0} /\ k \in 1..(M + 1) /\ k + 1 \in 1..(M + 1)
    BY <1>4, <1>8
  <2>2. f[k] = h[p(k)] /\ u[k] = s[p(k)] /\ f[k + 1] = h[p(k + 1)]
    BY <1>7, <1>8, <2>1, Zenon
  <2>3. p(k) \in 1..L /\ p(k + 1) = IF p(k) = L THEN 1 ELSE p(k) + 1
    BY <1>5, <2>1, Zenon
  <2>4. h[p(k + 1)] = h[p(k) + 1]
    BY <1>1, <2>3, Zenon
  <2>5. QED
    BY <1>1, <2>2, <2>3, <2>4, Zenon
<1>12. Leads(T, u, a, a)
  BY <1>8, <1>10, <1>11, Zenon DEF Leads
<1>13. QED
  BY <1>12 DEF u, M, L

------------------------------------------------------------------------------
(* The phases of the terminal's functions.  At rest and in front of a      *)
(* character the cells from the cursor on are blank; the character is then *)
(* at the cursor (ink), or somewhere in the cursor's row (row), until the  *)
(* cursor has moved on.  The cursor block is shown at rest only.           *)

Phase == {"blank", "rest", "open", "ready", "ink", "row", "fresh"}

Turns(a, o, b) ==
  \/ o.op = "black" /\ a = "blank" /\ b = "rest"
  \/ o.op = "erase" /\ a = "rest" /\ b = "open"
  \/ o.op = "room" /\ a = "open" /\ b = "ready"
  \/ o.op = "put" /\ a = "ready" /\ b = "ink" /\ o.at = 0
  \/ o.op = "put" /\ a \in {"ready", "row"} /\ b = "row"
  \/ o.op = "advance" /\ a = "ink" /\ b = "open"
  \/ o.op = "home" /\ a \in {"ready", "row"} /\ b = "row"
  \/ o.op = "down" /\ a \in {"open", "row"} /\ b = "fresh"
  \/ o.op = "home" /\ a = "fresh" /\ b = "rest"
  \/ o.op = "draw" /\ a \in {"open", "fresh", "rest"} /\ b = "rest"
  \/ o.op \in {"back", "clear", "theme", "unmask", "reset"} /\ a = "rest" /\ b = "rest"

Calm == {x \in Phase \X Operation \X Phase : Turns(x[1], x[2], x[3])}

LEMMA CalmIs ==
  \A a, b \in Phase, o \in Operation : <<a, o, b>> \in Calm <=> Turns(a, o, b)
BY DEF Calm

LEMMA OpsTyped ==
  /\ \A name \in {"erase", "draw", "room", "advance", "home", "down", "back", "black", "clear",
                  "unmask", "reset"} : Op(name) \in Operation /\ Op(name).op = name
  /\ \A i \in Nat, c \in Char :
       Put(i, c) \in Operation /\ Put(i, c).op = "put" /\ Put(i, c).at = i /\ Put(i, c).ch = c
BY DEF Operation, Op, Put

LEMMA CalmOps ==
  /\ Leads(Calm, <<Op("erase")>>, "rest", "open")
  /\ Leads(Calm, <<Op("draw")>>, "open", "rest")
  /\ Leads(Calm, <<Op("draw")>>, "rest", "rest")
  /\ Leads(Calm, <<Op("draw")>>, "fresh", "rest")
  /\ Leads(Calm, <<Op("room")>>, "open", "ready")
  /\ Leads(Calm, <<Op("home")>>, "ready", "row")
  /\ Leads(Calm, <<Op("home")>>, "row", "row")
  /\ Leads(Calm, <<Op("home")>>, "fresh", "rest")
  /\ Leads(Calm, <<Op("down")>>, "row", "fresh")
  /\ Leads(Calm, <<Op("down")>>, "open", "fresh")
  /\ Leads(Calm, <<Op("black")>>, "blank", "rest")
  /\ Leads(Calm, <<Op("back")>>, "rest", "rest")
  /\ Leads(Calm, <<Op("clear")>>, "rest", "rest")
  /\ Leads(Calm, <<Op("unmask")>>, "rest", "rest")
  /\ Leads(Calm, <<Op("reset")>>, "rest", "rest")
<1>1. \A a \in Phase, b \in Phase, o \in Operation :
        Turns(a, o, b) => Leads(Calm, <<o>>, a, b)
  BY CalmIs, LeadsOne
<1>2. \A n \in {"erase", "draw", "room", "home", "down", "back", "black", "clear", "unmask", "reset"} :
        \A a \in Phase, b \in Phase :
          Turns(a, Op(n), b) => Leads(Calm, <<Op(n)>>, a, b)
  BY <1>1, OpsTyped
<1>3. /\ Turns("rest", Op("erase"), "open") /\ Turns("open", Op("draw"), "rest")
      /\ Turns("rest", Op("draw"), "rest") /\ Turns("fresh", Op("draw"), "rest")
      /\ Turns("open", Op("room"), "ready") /\ Turns("ready", Op("home"), "row")
      /\ Turns("row", Op("home"), "row") /\ Turns("fresh", Op("home"), "rest")
      /\ Turns("row", Op("down"), "fresh") /\ Turns("open", Op("down"), "fresh")
      /\ Turns("blank", Op("black"), "rest") /\ Turns("rest", Op("back"), "rest")
      /\ Turns("rest", Op("clear"), "rest") /\ Turns("rest", Op("unmask"), "rest")
      /\ Turns("rest", Op("reset"), "rest")
  BY OpsTyped DEF Turns
<1>4. {"blank", "rest", "open", "ready", "ink", "row", "fresh"} \subseteq Phase
  BY DEF Phase
<1>5. QED
  BY <1>2, <1>3, <1>4

LEMMA Listed ==
  /\ \A x, y : <<x>> \o <<y>> = <<x, y>>
  /\ \A x, y, z : (<<x>> \o <<y>>) \o <<z>> = <<x, y, z>>
<1>1. ASSUME NEW x, NEW y PROVE <<x>> \o <<y>> = <<x, y>>
  <2> DEFINE T == {x, y}
             s == <<x>> \o <<y>>
             t == <<x, y>>
  <2>1. s \in Seq(T) /\ t \in Seq(T)
    OBVIOUS
  <2>2. Len(s) = Len(t) /\ \A k \in 1..Len(s) : s[k] = t[k]
    OBVIOUS
  <2> HIDE DEF s, t
  <2>3. s = t
    BY <2>1, <2>2, SeqEqual
  <2>4. QED
    BY <2>3 DEF s, t
<1>2. ASSUME NEW x, NEW y, NEW z PROVE (<<x>> \o <<y>>) \o <<z>> = <<x, y, z>>
  <2> DEFINE T == {x, y, z}
             s == <<x, y>> \o <<z>>
             t == <<x, y, z>>
  <2>1. s \in Seq(T) /\ t \in Seq(T)
    OBVIOUS
  <2>2. Len(s) = Len(t) /\ \A k \in 1..Len(s) : s[k] = t[k]
    OBVIOUS
  <2> HIDE DEF s, t
  <2>3. s = t
    BY <2>1, <2>2, SeqEqual
  <2>4. QED
    BY <1>1, <2>3, Zenon DEF s, t
<1>3. QED
  BY <1>1, <1>2

(* The middle of fb_print: room, put, advance for every character. *)
Printing(text) ==
  [k \in 1..(3 * Len(text)) |->
     CASE k % 3 = 1 -> Op("room")
       [] k % 3 = 2 -> Put(0, text[(k + 1) \div 3])
       [] k % 3 = 0 -> Op("advance")]

LEMMA PrintingIs ==
  ASSUME NEW text \in Seq(Char)
  PROVE  /\ Printing(text) \in Seq(Operation) /\ Len(Printing(text)) = 3 * Len(text)
         /\ \A k \in 1..(3 * Len(text)) :
              \/ k % 3 = 1 /\ (k + 1) % 3 = 2 /\ Printing(text)[k] = Op("room")
              \/ /\ k % 3 = 2 /\ (k + 1) % 3 = 0 /\ (k + 1) \div 3 \in 1..Len(text)
                 /\ Printing(text)[k] = Put(0, text[(k + 1) \div 3])
                 /\ text[(k + 1) \div 3] \in Char
              \/ k % 3 = 0 /\ (k + 1) % 3 = 1 /\ Printing(text)[k] = Op("advance")
<1> DEFINE L == Len(text)
           m == Printing(text)
<1>1. L \in Nat /\ \A i \in 1..L : text[i] \in Char
  OBVIOUS
<1> HIDE DEF L
<1>2. ASSUME NEW k \in 1..(3 * L)
      PROVE  /\ m[k] \in Operation
             /\ \/ k % 3 = 1 /\ (k + 1) % 3 = 2 /\ m[k] = Op("room")
                \/ /\ k % 3 = 2 /\ (k + 1) % 3 = 0 /\ (k + 1) \div 3 \in 1..L
                   /\ m[k] = Put(0, text[(k + 1) \div 3])
                   /\ text[(k + 1) \div 3] \in Char
                \/ k % 3 = 0 /\ (k + 1) % 3 = 1 /\ m[k] = Op("advance")
  <2>1. m[k] = CASE k % 3 = 1 -> Op("room")
                 [] k % 3 = 2 -> Put(0, text[(k + 1) \div 3])
                 [] k % 3 = 0 -> Op("advance")
    BY DEF Printing, L
  <2> HIDE DEF m
  <2>2. \/ k % 3 = 1 /\ (k + 1) % 3 = 2
        \/ k % 3 = 2 /\ (k + 1) % 3 = 0 /\ (k + 1) \div 3 \in 1..L
        \/ k % 3 = 0 /\ (k + 1) % 3 = 1
    BY <1>1
  <2>3. CASE k % 3 = 1 /\ (k + 1) % 3 = 2
    <3>1. m[k] = Op("room")
      BY <2>1, <2>3
    <3>2. QED
      BY <2>3, <3>1, OpsTyped
  <2>4. CASE k % 3 = 2 /\ (k + 1) % 3 = 0 /\ (k + 1) \div 3 \in 1..L
    <3>1. m[k] = Put(0, text[(k + 1) \div 3])
      BY <2>1, <2>4
    <3>2. text[(k + 1) \div 3] \in Char
      BY <1>1, <2>4
    <3>3. m[k] \in Operation
      BY <3>1, <3>2, OpsTyped
    <3>4. QED
      BY <2>4, <3>1, <3>2, <3>3
  <2>5. CASE k % 3 = 0 /\ (k + 1) % 3 = 1
    <3>1. m[k] = Op("advance")
      BY <2>1, <2>5
    <3>2. QED
      BY <2>5, <3>1, OpsTyped
  <2>6. QED
    BY <2>2, <2>3, <2>4, <2>5
<1>3. m \in Seq(Operation) /\ Len(m) = 3 * L
  <2>1. 3 * L \in Nat
    BY <1>1
  <2>2. m = [k \in 1..(3 * L) |-> m[k]]
    BY DEF Printing, L
  <2> HIDE DEF m
  <2>3. \A k \in 1..(3 * L) : m[k] \in Operation
    BY <1>2
  <2>4. QED
    BY <2>1, <2>2, <2>3
<1>4. QED
  BY <1>2, <1>3 DEF L

LEMMA PrintIs ==
  ASSUME NEW text
  PROVE  fb_print(text) = (<<Op("erase")>> \o Printing(text)) \o <<Op("draw")>>
BY Zenon DEF fb_print, Printing

LEMMA CalmPrint ==
  ASSUME NEW text \in Seq(Char)
  PROVE  Leads(Calm, fb_print(text), "rest", "rest")
<1> DEFINE m == Printing(text)
           L == Len(text)
           h == [k \in 1..(3 * L + 1) |-> CASE k % 3 = 1 -> "open"
                                            [] k % 3 = 2 -> "ready"
                                            [] k % 3 = 0 -> "ink"]
<1>1. /\ m \in Seq(Operation) /\ Len(m) = 3 * L /\ L \in Nat
      /\ \A k \in 1..(3 * L) :
              \/ k % 3 = 1 /\ (k + 1) % 3 = 2 /\ m[k] = Op("room")
              \/ /\ k % 3 = 2 /\ (k + 1) % 3 = 0 /\ (k + 1) \div 3 \in 1..L
                 /\ m[k] = Put(0, text[(k + 1) \div 3])
                 /\ text[(k + 1) \div 3] \in Char
              \/ k % 3 = 0 /\ (k + 1) % 3 = 1 /\ m[k] = Op("advance")
  BY PrintingIs
<1> HIDE DEF m, L
<1>2. \A k \in 1..(3 * L + 1) : /\ k % 3 = 1 => h[k] = "open"
                                /\ k % 3 = 2 => h[k] = "ready"
                                /\ k % 3 = 0 => h[k] = "ink"
  OBVIOUS
<1> HIDE DEF h
<1>3. h[1] = "open" /\ h[Len(m) + 1] = "open"
  <2>1. 1 \in 1..(3 * L + 1) /\ 3 * L + 1 \in 1..(3 * L + 1) /\ 1 % 3 = 1 /\ (3 * L + 1) % 3 = 1
    BY <1>1
  <2>2. QED
    BY <1>1, <1>2, <2>1
<1>4. ASSUME NEW k \in 1..Len(m) PROVE <<h[k], m[k], h[k + 1]>> \in Calm
  <2>1. k \in 1..(3 * L) /\ k \in 1..(3 * L + 1) /\ k + 1 \in 1..(3 * L + 1)
    BY <1>1
  <2>2. {"open", "ready", "ink"} \subseteq Phase
    BY DEF Phase
  <2>3. CASE k % 3 = 1 /\ (k + 1) % 3 = 2 /\ m[k] = Op("room")
    <3>1. h[k] = "open" /\ h[k + 1] = "ready"
      BY <1>2, <2>1, <2>3
    <3>2. Turns("open", Op("room"), "ready") /\ Op("room") \in Operation
      BY OpsTyped DEF Turns
    <3>3. QED
      BY <2>2, <2>3, <3>1, <3>2, CalmIs
  <2>4. CASE k % 3 = 2 /\ (k + 1) % 3 = 0 /\ m[k] = Put(0, text[(k + 1) \div 3])
             /\ text[(k + 1) \div 3] \in Char
    <3>1. h[k] = "ready" /\ h[k + 1] = "ink"
      BY <1>2, <2>1, <2>4
    <3>2. Turns("ready", m[k], "ink") /\ m[k] \in Operation
      BY <2>4, OpsTyped DEF Turns
    <3>3. QED
      BY <2>2, <3>1, <3>2, CalmIs
  <2>5. CASE k % 3 = 0 /\ (k + 1) % 3 = 1 /\ m[k] = Op("advance")
    <3>1. h[k] = "ink" /\ h[k + 1] = "open"
      BY <1>2, <2>1, <2>5
    <3>2. Turns("ink", Op("advance"), "open") /\ Op("advance") \in Operation
      BY OpsTyped DEF Turns
    <3>3. QED
      BY <2>2, <2>5, <3>1, <3>2, CalmIs
  <2>6. QED
    BY <1>1, <2>1, <2>3, <2>4, <2>5
<1>5. Leads(Calm, m, "open", "open")
  BY <1>1, <1>3, <1>4, Zenon DEF Leads
<1>6. Leads(Calm, (<<Op("erase")>> \o m) \o <<Op("draw")>>, "rest", "rest")
  <2>1. Leads(Calm, <<Op("erase")>> \o m, "rest", "open")
    BY <1>5, CalmOps, LeadsJoin
  <2>2. QED
    BY <2>1, CalmOps, LeadsJoin
<1>7. QED
  BY <1>6, PrintIs DEF m

LEMMA CalmPrintln ==
  ASSUME NEW text \in Seq(Char)
  PROVE  Leads(Calm, fb_println(text), "rest", "rest")
<1> DEFINE m == [k \in 1..Len(text) |-> Put(k - 1, text[k])]
           h == [k \in 1..(Len(text) + 1) |-> IF k = 1 THEN "ready" ELSE "row"]
<1>1. m \in Seq(Operation) /\ Len(m) = Len(text) /\ \A k \in 1..Len(text) : m[k] \in Operation /\ m[k].op = "put"
  <2>1. \A k \in 1..Len(text) : Put(k - 1, text[k]) \in Operation /\ Put(k - 1, text[k]).op = "put"
    <3>1. \A k \in 1..Len(text) : k - 1 \in Nat /\ text[k] \in Char
      OBVIOUS
    <3>2. QED
      BY <3>1, OpsTyped
  <2>2. \A k \in 1..Len(text) : m[k] = Put(k - 1, text[k])
    OBVIOUS
  <2>3. m \in Seq(Operation) /\ Len(m) = Len(text)
    BY <2>1
  <2>4. QED
    BY <2>1, <2>2, <2>3, Zenon
<1>2. /\ h[1] = "ready" /\ Len(text) \in Nat
      /\ \A k \in 1..Len(text) : h[k] \in {"ready", "row"} /\ h[k + 1] = "row"
      /\ h[Len(text) + 1] \in {"ready", "row"}
  OBVIOUS
<1> HIDE DEF m, h
<1>3. ASSUME NEW k \in 1..Len(m) PROVE <<h[k], m[k], h[k + 1]>> \in Calm
  <2>1. Turns(h[k], m[k], h[k + 1]) /\ m[k] \in Operation
    BY <1>1, <1>2 DEF Turns
  <2>2. h[k] \in Phase /\ h[k + 1] \in Phase
    BY <1>1, <1>2 DEF Phase
  <2>3. QED
    BY <2>1, <2>2, CalmIs
<1>4. PICK e \in {"ready", "row"} : Leads(Calm, m, "ready", e)
  BY <1>1, <1>2, <1>3, Zenon DEF Leads
<1> DEFINE start == <<Op("erase"), Op("room")>>
           end == <<Op("home"), Op("down"), Op("draw")>>
<1>5. Leads(Calm, start, "rest", "ready")
  <2>1. Leads(Calm, <<Op("erase")>> \o <<Op("room")>>, "rest", "ready")
    BY CalmOps, LeadsJoin
  <2>2. QED
    BY <2>1, Listed, Zenon
<1>6. Leads(Calm, end, e, "rest")
  <2>1. Leads(Calm, <<Op("home")>>, e, "row")
    BY CalmOps
  <2>2. Leads(Calm, <<Op("home")>> \o <<Op("down")>>, e, "fresh")
    BY <2>1, CalmOps, LeadsJoin
  <2>3. Leads(Calm, (<<Op("home")>> \o <<Op("down")>>) \o <<Op("draw")>>, e, "rest")
    BY <2>2, CalmOps, LeadsJoin
  <2>4. QED
    BY <2>3, Listed, Zenon
<1> HIDE DEF start, end
<1>7. Leads(Calm, (start \o m) \o end, "rest", "rest")
  <2>1. Leads(Calm, start \o m, "rest", e)
    BY <1>4, <1>5, LeadsJoin
  <2>2. QED
    BY <1>6, <2>1, LeadsJoin
<1>8. fb_println(text) = (start \o m) \o end
  BY Zenon DEF fb_println, start, m, end
<1>9. QED
  BY <1>7, <1>8

------------------------------------------------------------------------------
(* Words.  Whatever the line is, the arguments are strings without a NUL.  *)

LEMMA LeastOf ==
  ASSUME NEW S, S \subseteq Nat, S # {}
  PROVE  \E x \in S : \A z \in S : ~(z < x)
<1> DEFINE R == {ss \in Nat \X Nat : ss[1] < ss[2]}
<1>1. OpToRel(<, Nat) = R
  BY DEF OpToRel
<1>2. IsWellFoundedOn(R, Nat)
  BY <1>1, NatLessThanWellFounded
<1> HIDE DEF R
<1>3. PICK x \in S : \A z \in S : ~(<<z, x>> \in R)
  BY <1>2, WFMin
<1>4. QED
  BY <1>3 DEF R

LEMMA Slice ==
  ASSUME NEW A, NEW s \in Seq(A), NEW m \in Nat \ {0}, NEW w \in Nat, m <= w + 1, w <= Len(s),
         NEW B, \A k \in m..w : s[k] \in B
  PROVE  SubSeq(s, m, w) \in Seq(B)
<1>1. m \in Int /\ w \in Int
  OBVIOUS
<1>2. QED
  BY <1>1, SubSeqProperties

LEMMA CStringTyped ==
  ASSUME NEW s \in Seq(Char \cup {NUL})
  PROVE  CString(s) \in Seq(Char)
<1> DEFINE S == {m \in Nat : m <= Len(s) /\ (m < Len(s) => s[m + 1] = NUL)}
           P(k) == /\ \A i \in 1..k : s[i] # NUL
                   /\ k < Len(s) => s[k + 1] = NUL
           c == CHOOSE k \in 0..Len(s) : P(k)
<1>1. Len(s) \in S /\ Len(s) \in Nat
  OBVIOUS
<1>2. PICK m \in S : \A z \in S : ~(z < m)
  <2> HIDE DEF S
  <2>1. S # {}
    BY <1>1
  <2>2. S \subseteq Nat
    BY DEF S
  <2>3. QED
    BY <2>1, <2>2, LeastOf
<1>3. m \in Nat /\ m <= Len(s) /\ (m < Len(s) => s[m + 1] = NUL)
  OBVIOUS
<1>4. \A i \in 1..m : s[i] # NUL
  <2>1. SUFFICES ASSUME NEW i \in 1..m, s[i] = NUL PROVE FALSE
    OBVIOUS
  <2>2. i - 1 \in Nat /\ (i - 1) + 1 = i /\ i - 1 < m /\ i - 1 <= Len(s)
    BY <1>1, <1>3
  <2>3. i - 1 \in S
    BY <2>1, <2>2
  <2>4. QED
    BY <1>2, <2>2, <2>3
<1>5. \E k \in 0..Len(s) : P(k)
  <2>1. m \in 0..Len(s)
    BY <1>1, <1>3
  <2>2. QED
    BY <1>3, <1>4, <2>1
<1>6. c \in 0..Len(s) /\ \A i \in 1..c : s[i] # NUL
  BY <1>5, Zenon
<1>7. CString(s) = SubSeq(s, 1, c)
  BY Zenon DEF CString
<1> HIDE DEF c
<1>8. \A i \in 1..c : s[i] \in Char
  BY <1>1, <1>6
<1>9. c \in Nat /\ c <= Len(s) /\ 1 <= c + 1 /\ 1 \in Nat \ {0}
  BY <1>1, <1>6
<1>10. SubSeq(s, 1, c) \in Seq(Char)
  BY <1>8, <1>9, Slice
<1>11. QED
  BY <1>7, <1>10

LEMMA CopiedTyped ==
  ASSUME NEW s \in Seq(Char)
  PROVE  Copied(s) \in Seq(Char)
<1> DEFINE w == IF Len(s) < BufSize THEN Len(s) ELSE BufSize - 1
<1>1. w \in Nat /\ w <= Len(s) /\ 1 <= w + 1 /\ 1 \in Nat \ {0}
  BY ShellAssumption
<1>2. \A k \in 1..w : s[k] \in Char
  BY <1>1
<1>3. Copied(s) = SubSeq(s, 1, w)
  BY Zenon DEF Copied
<1> HIDE DEF w
<1>4. SubSeq(s, 1, w) \in Seq(Char)
  BY <1>1, <1>2, Slice
<1>5. QED
  BY <1>3, <1>4

(* In a finite set of numbers there is a k-th.                             *)
LEMMA Ranked ==
  ASSUME NEW S, S \subseteq Nat, IsFiniteSet(S), NEW k \in Nat, 1 <= k, k <= Cardinality(S)
  PROVE  \E i \in S : Cardinality({x \in S : x <= i}) = k
<1> DEFINE Upto(i) == {x \in S : x <= i}
           R == {n \in Nat : n < 1 \/ n > Cardinality(S) \/ \E i \in S : Cardinality(Upto(i)) = n}
<1>1. Cardinality(S) \in Nat
  BY FS_CardinalityType
<1>2. SUFFICES ASSUME Nat \ R # {} PROVE FALSE
  BY <1>1
<1>3. PICK n \in Nat \ R : \A z \in Nat \ R : ~(z < n)
  <2> HIDE DEF R
  <2>1. QED
    BY <1>2, LeastOf
<1>4. n \in Nat /\ n >= 1 /\ n <= Cardinality(S) /\ \A i \in S : Cardinality(Upto(i)) # n
  <2> HIDE DEF Upto
  <2>1. n \in Nat /\ ~(n < 1) /\ ~(n > Cardinality(S)) /\ ~(\E i \in S : Cardinality(Upto(i)) = n)
    BY Zenon
  <2>2. QED
    BY <1>1, <2>1
<1>5. n - 1 \in R /\ n - 1 \in Nat
  BY <1>3, <1>4
<1> HIDE DEF R
<1>6. \E T : /\ T \subseteq S /\ Cardinality(T) = n - 1 /\ IsFiniteSet(T)
             /\ \A x \in T : \A y \in S \ T : x < y
  <2>1. CASE n = 1
    <3>1. Cardinality({}) = n - 1 /\ IsFiniteSet({})
      BY <2>1, FS_EmptySet
    <3>2. QED
      BY <3>1
  <2>2. CASE n # 1
    <3>1. PICK i \in S : Cardinality(Upto(i)) = n - 1
      BY <1>1, <1>4, <1>5, <2>2 DEF R
    <3>2. Upto(i) \subseteq S
      OBVIOUS
    <3>3. IsFiniteSet(Upto(i))
      BY <3>2, FS_Subset
    <3>4. \A x \in Upto(i) : \A y \in S \ Upto(i) : x < y
      OBVIOUS
    <3> HIDE DEF Upto
    <3>5. QED
      BY <3>1, <3>2, <3>3, <3>4
  <2>3. QED
    BY <2>1, <2>2
<1>7. PICK T : /\ T \subseteq S /\ Cardinality(T) = n - 1 /\ IsFiniteSet(T)
               /\ \A x \in T : \A y \in S \ T : x < y
  BY <1>6
<1>8. S \ T # {}
  <2>1. SUFFICES ASSUME S = T PROVE FALSE
    BY <1>7
  <2>2. QED
    BY <1>1, <1>4, <1>7, <2>1
<1>9. PICK i \in S \ T : \A z \in S \ T : ~(z < i)
  BY <1>8, LeastOf
<1>10. Upto(i) = T \cup {i}
  <2>1. \A x \in S \ T : x <= i => x = i
    BY <1>9
  <2>2. i <= i /\ \A x \in T : x <= i
    BY <1>7, <1>9
  <2>3. QED
    BY <1>7, <1>9, <2>1, <2>2
<1>11. Cardinality(T \cup {i}) = Cardinality(T) + 1
  BY <1>7, <1>9, FS_AddElement
<1>12. QED
  BY <1>4, <1>7, <1>9, <1>10, <1>11

LEMMA ArgvTyped ==
  ASSUME NEW s \in Seq(Char)
  PROVE  Argv(s) \in Seq(Seq(Char))
<1> DEFINE starts == {i \in 1..Len(s) : s[i] # Space /\ (i = 1 \/ s[i - 1] = Space)}
           P(i, e) == /\ \A j \in i..e : s[j] # Space
                      /\ e < Len(s) => s[e + 1] = Space
           Stop(i) == CHOOSE e \in i..Len(s) : P(i, e)
           Start(k) == CHOOSE i \in starts : Cardinality({j \in starts : j <= i}) = k
           argc == IF Cardinality(starts) < MaxArgs THEN Cardinality(starts) ELSE MaxArgs
<1>1. Argv(s) = [k \in 1..argc |-> SubSeq(s, Start(k), Stop(Start(k)))]
  BY Zenon DEF Argv
<1>2. starts \subseteq 1..Len(s) /\ IsFiniteSet(starts) /\ Cardinality(starts) \in Nat
      /\ starts \subseteq Nat /\ Len(s) \in Nat
  <2>1. starts \subseteq 1..Len(s) /\ Len(s) \in Nat
    OBVIOUS
  <2>2. IsFiniteSet(1..Len(s))
    BY FS_Interval
  <2>3. IsFiniteSet(starts)
    BY <2>1, <2>2, FS_Subset
  <2> HIDE DEF starts
  <2>4. starts \subseteq Nat
    BY <2>1
  <2>5. QED
    BY <2>1, <2>3, <2>4, FS_CardinalityType
<1>3. \A i \in starts : s[i] # Space /\ i \in 1..Len(s)
  OBVIOUS
<1>4. ASSUME NEW i \in starts PROVE Stop(i) \in i..Len(s)
  <2> DEFINE S == {e \in Nat : i <= e /\ e <= Len(s) /\ (e < Len(s) => s[e + 1] = Space)}
  <2>1. i \in 1..Len(s) /\ s[i] # Space /\ Len(s) \in Nat
    BY <1>2, <1>3
  <2> HIDE DEF starts
  <2>2. Len(s) \in S
    BY <2>1
  <2>3. PICK m \in S : \A z \in S : ~(z < m)
    <3> HIDE DEF S
    <3>1. S # {}
      BY <2>2
    <3>2. S \subseteq Nat
      BY DEF S
    <3>3. QED
      BY <3>1, <3>2, LeastOf
  <2>4. m \in Nat /\ i <= m /\ m <= Len(s) /\ (m < Len(s) => s[m + 1] = Space)
    OBVIOUS
  <2>5. \A j \in i..m : s[j] # Space
    <3>1. SUFFICES ASSUME NEW j \in i..m, s[j] = Space PROVE FALSE
      OBVIOUS
    <3>2. j # i /\ j - 1 \in Nat /\ (j - 1) + 1 = j /\ i <= j - 1 /\ j - 1 < m /\ j - 1 <= Len(s)
      BY <2>1, <2>4, <3>1
    <3>3. j - 1 \in S
      BY <3>1, <3>2
    <3>4. QED
      BY <2>3, <3>2, <3>3
  <2>6. \E e \in i..Len(s) : P(i, e)
    <3>1. m \in i..Len(s)
      BY <2>1, <2>4
    <3>2. QED
      BY <2>4, <2>5, <3>1
  <2> HIDE DEF P
  <2>7. QED
    BY <2>6, Zenon
<1> HIDE DEF Stop, P
<1>5. argc \in Nat /\ argc <= Cardinality(starts)
  <2>1. MaxArgs \in Nat
    BY DEF MaxArgs
  <2> HIDE DEF starts
  <2>2. QED
    BY <1>2, <2>1
<1>6. ASSUME NEW k \in 1..argc PROVE Start(k) \in starts
  <2> HIDE DEF starts, argc
  <2>1. k \in Nat /\ 1 <= k /\ k <= Cardinality(starts)
    BY <1>2, <1>5
  <2>2. \E i \in starts : Cardinality({x \in starts : x <= i}) = k
    BY <1>2, <2>1, Ranked
  <2>3. QED
    BY <2>2, Zenon
<1> HIDE DEF Start, argc, starts
<1>7. ASSUME NEW k \in 1..argc PROVE SubSeq(s, Start(k), Stop(Start(k))) \in Seq(Char)
  <2>1. PICK i \in starts : i = Start(k)
    BY <1>6
  <2>2. PICK e \in i..Len(s) : e = Stop(i)
    BY <1>4
  <2>3. i \in Nat \ {0} /\ e \in Nat /\ i <= e + 1 /\ e <= Len(s) /\ \A j \in i..e : s[j] \in Char
    BY <1>2
  <2>4. SubSeq(s, i, e) \in Seq(Char)
    BY <2>3, Slice
  <2>5. QED
    BY <2>1, <2>2, <2>4
<1> DEFINE f == [k \in 1..argc |-> SubSeq(s, Start(k), Stop(Start(k)))]
<1>8. f \in [1..argc -> Seq(Char)]
  BY <1>7
<1> HIDE DEF f
<1>9. f \in Seq(Seq(Char))
  BY <1>5, <1>8
<1>10. QED
  BY <1>1, <1>9 DEF f

LEMMA ArgsTyped ==
  ASSUME NEW s \in Seq(Char \cup {NUL})
  PROVE  Argv(Copied(CString(s))) \in Seq(Seq(Char))
BY CStringTyped, CopiedTyped, ArgvTyped

------------------------------------------------------------------------------
(* Commands.  What takes the printing functions and the single operations  *)
(* of a command from phase a back to a, by way of b, takes every command   *)
(* there.                                                                  *)

PrintsLead(T, a, b) ==
  \A text \in Seq(Char) :
    /\ Leads(T, fb_print(text), a, b) /\ Leads(T, fb_print(text), b, b)
    /\ Leads(T, fb_println(text), a, a) /\ Leads(T, fb_println(text), b, a)

OthersLead(T, a) ==
  /\ Leads(T, <<Op("clear")>>, a, a) /\ Leads(T, <<Op("reset")>>, a, a)
  /\ \A t \in DOMAIN Themes : Leads(T, <<[op |-> "theme", theme |-> Themes[t]]>>, a, a)

LEMMA SaySomething == Say # <<>>
<1> DEFINE m == [k \in 1..Len(<<Text>>) |-> Put(k - 1, <<Text>>[k])]
           x == <<Op("erase"), Op("room")>>
           y == <<Op("home"), Op("down"), Op("draw")>>
<1>1. Say = (x \o m) \o y
  BY Zenon DEF Say, fb_println
<1>2. x \in Seq({x[1], x[2]}) /\ Len(x) > 0 /\ y \in Seq({y[1], y[2], y[3]})
  OBVIOUS
<1>3. m \in Seq({m[1]}) /\ Len(m) \in Nat
  OBVIOUS
<1> DEFINE A == {x[1], x[2], m[1], y[1], y[2], y[3]}
<1>4. x \in Seq(A) /\ m \in Seq(A) /\ y \in Seq(A)
  OBVIOUS
<1> HIDE DEF x, m, y, A
<1>5. x \o m \in Seq(A) /\ Len(x \o m) > 0
  BY <1>2, <1>3, <1>4
<1>6. Len((x \o m) \o y) > 0
  BY <1>4, <1>5
<1>7. Len(<<>>) = 0
  OBVIOUS
<1>8. QED
  BY <1>1, <1>6, <1>7

LEMMA TextTyped == <<Text>> \in Seq(Char) /\ <<Space>> \in Seq(Char) /\ <<>> \in Seq(Char)
                   /\ Prompt \in Seq(Char) /\ Text \in Char \ {Space} /\ Space \in Char
BY ShellAssumption, TerminalAssumption DEF Prompt

LEMMA SaysLead ==
  ASSUME NEW T, NEW a, NEW b, PrintsLead(T, a, b)
  PROVE  /\ Leads(T, fb_print(<<Text>>), a, b) /\ Leads(T, fb_print(<<Text>>), b, b)
         /\ Leads(T, Say, a, a) /\ Leads(T, Say, b, a)
         /\ \A n \in Nat : Leads(T, Lines(n), a, a)
<1>1. /\ Leads(T, fb_print(<<Text>>), a, b) /\ Leads(T, fb_print(<<Text>>), b, b)
      /\ Leads(T, Say, a, a) /\ Leads(T, Say, b, a)
  BY TextTyped, Zenon DEF PrintsLead, Say
<1>2. ASSUME NEW n \in Nat PROVE Leads(T, Lines(n), a, a)
  <2>1. Leads(T, [k \in 1..(n * Len(Say)) |-> Say[((k - 1) % Len(Say)) + 1]], a, a)
    BY <1>1, SaySomething, LeadsAgain
  <2>2. QED
    BY <2>1, Zenon DEF Lines
<1>3. QED
  BY <1>1, <1>2

LEMMA ReportsLead ==
  ASSUME NEW T, NEW a, NEW b, PrintsLead(T, a, b)
  PROVE  Leads(T, MemReport, a, a) /\ Leads(T, DiskReport, a, a)
<1> DEFINE x == fb_print(<<Text>>)
<1>1. Leads(T, x, a, b) /\ Leads(T, x, b, b) /\ Leads(T, Say, a, a) /\ Leads(T, Say, b, a)
  BY SaysLead
<1> HIDE DEF x
<1>2. \A s, t, u, v, w : Leads(T, s, u, v) /\ Leads(T, t, v, w) => Leads(T, s \o t, u, w)
  BY LeadsJoin
<1>3. Leads(T, MemReport, a, a)
  <2>1. Leads(T, x \o x, a, b)
    BY <1>1, <1>2, Zenon
  <2>2. Leads(T, (x \o x) \o Say, a, a)
    BY <1>1, <1>2, <2>1, Zenon
  <2>3. Leads(T, ((x \o x) \o Say) \o x, a, b)
    BY <1>1, <1>2, <2>2, Zenon
  <2>4. Leads(T, (((x \o x) \o Say) \o x) \o Say, a, a)
    BY <1>1, <1>2, <2>3, Zenon
  <2>5. Leads(T, ((((x \o x) \o Say) \o x) \o Say) \o x, a, b)
    BY <1>1, <1>2, <2>4, Zenon
  <2>6. Leads(T, (((((x \o x) \o Say) \o x) \o Say) \o x) \o Say, a, a)
    BY <1>1, <1>2, <2>5, Zenon
  <2>7. QED
    BY <2>6, Zenon DEF MemReport, x
<1>4. Leads(T, DiskReport, a, a)
  <2>1. Leads(T, x \o Say, a, a)
    BY <1>1, <1>2, Zenon
  <2>2. Leads(T, (x \o Say) \o x, a, b)
    BY <1>1, <1>2, <2>1, Zenon
  <2>3. Leads(T, ((x \o Say) \o x) \o x, a, b)
    BY <1>1, <1>2, <2>2, Zenon
  <2>4. Leads(T, (((x \o Say) \o x) \o x) \o x, a, b)
    BY <1>1, <1>2, <2>3, Zenon
  <2>5. Leads(T, ((((x \o Say) \o x) \o x) \o x) \o x, a, b)
    BY <1>1, <1>2, <2>4, Zenon
  <2>6. Leads(T, (((((x \o Say) \o x) \o x) \o x) \o x) \o Say, a, a)
    BY <1>1, <1>2, <2>5, Zenon
  <2>7. QED
    BY <2>6, Zenon DEF DiskReport, x
<1>5. QED
  BY <1>3, <1>4

LEMMA ThemeLeads ==
  ASSUME NEW T, NEW a, NEW b, PrintsLead(T, a, b), OthersLead(T, a),
         NEW argv \in Seq(Seq(Char))
  PROVE  Leads(T, ThemeScript(argv), a, a)
<1>1. CASE Len(argv) # 2
  <2>1. ThemeScript(argv) = Say
    BY <1>1, Zenon DEF ThemeScript
  <2>2. QED
    BY <2>1, SaysLead
<1>2. CASE Len(argv) = 2 /\ argv[2] = <<HelpFlag>>
  <2>1. ThemeScript(argv) = Lines(9)
    BY <1>2, Zenon DEF ThemeScript
  <2>2. QED
    BY <2>1, SaysLead
<1>3. CASE Len(argv) = 2 /\ argv[2] # <<HelpFlag>> /\ \E t \in DOMAIN Themes : argv[2] = <<t>>
  <2>1. PICK t \in DOMAIN Themes : argv[2] = <<t>>
    BY <1>3
  <2>2. argv[2][1] = t
    BY <2>1
  <2>3. ThemeScript(argv) = <<[op |-> "theme", theme |-> Themes[argv[2][1]]]>>
    BY <1>3, Zenon DEF ThemeScript
  <2>4. QED
    BY <2>1, <2>2, <2>3, Zenon DEF OthersLead
<1>4. CASE Len(argv) = 2 /\ argv[2] # <<HelpFlag>> /\ ~\E t \in DOMAIN Themes : argv[2] = <<t>>
  <2>1. ThemeScript(argv) = fb_print(<<Text>>) \o fb_println(argv[2])
    BY <1>4, Zenon DEF ThemeScript
  <2>2. argv[2] \in Seq(Char)
    <3>1. \A k \in 1..Len(argv) : argv[k] \in Seq(Char)
      OBVIOUS
    <3>2. Len(argv) = 2 => 2 \in 1..Len(argv)
      OBVIOUS
    <3>3. QED
      BY <1>4, <3>1, <3>2, Zenon
  <2>3. Leads(T, fb_println(argv[2]), b, a)
    BY <2>2, Zenon DEF PrintsLead
  <2>4. QED
    BY <2>1, <2>3, SaysLead, LeadsJoin
<1>5. QED
  BY <1>1, <1>2, <1>3, <1>4, Zenon

LEMMA CommandsLead ==
  ASSUME NEW T, NEW a, NEW b, PrintsLead(T, a, b), OthersLead(T, a),
         NEW argv \in Seq(Seq(Char))
  PROVE  Leads(T, shell_exec_args(argv), a, a)
<1>1. \A s : Leads(T, s, a, a) => Leads(T, Alone(argv, s), a, a)
  BY SaysLead DEF Alone
<1>2. /\ Leads(T, Alone(argv, Lines(6)), a, a) /\ Leads(T, Alone(argv, <<Op("clear")>>), a, a)
      /\ Leads(T, Alone(argv, MemReport), a, a) /\ Leads(T, Alone(argv, DiskReport), a, a)
      /\ Leads(T, ThemeScript(argv), a, a) /\ Leads(T, Alone(argv, <<Op("reset")>>), a, a)
  <2>1. Leads(T, Lines(6), a, a)
    BY SaysLead
  <2>2. Leads(T, MemReport, a, a) /\ Leads(T, DiskReport, a, a)
    BY ReportsLead
  <2>3. Leads(T, ThemeScript(argv), a, a)
    BY ThemeLeads
  <2>4. Leads(T, <<Op("clear")>>, a, a) /\ Leads(T, <<Op("reset")>>, a, a)
    BY DEF OthersLead
  <2>5. QED
    BY <1>1, <2>1, <2>2, <2>3, <2>4, Zenon
<1>3. CASE argv = <<>>
  <2>1. shell_exec_args(argv) = <<>>
    BY <1>3, Zenon DEF shell_exec_args
  <2>2. QED
    BY <2>1, LeadsNowhere
<1>4. CASE argv # <<>>
  <2> DEFINE other == fb_print(<<Text>>) \o fb_print(argv[1]) \o Say
  <2>1. argv[1] \in Seq(Char)
    BY <1>4
  <2>2. Leads(T, other, a, a)
    <3>1. Leads(T, fb_print(argv[1]), b, b)
      BY <2>1, Zenon DEF PrintsLead
    <3>2. Leads(T, fb_print(<<Text>>) \o fb_print(argv[1]), a, b)
      BY <3>1, SaysLead, LeadsJoin
    <3>3. Leads(T, (fb_print(<<Text>>) \o fb_print(argv[1])) \o Say, a, a)
      BY <3>2, SaysLead, LeadsJoin
    <3>4. QED
      BY <3>3
  <2>3. \/ shell_exec_args(argv) = Alone(argv, Lines(6))
        \/ shell_exec_args(argv) = Alone(argv, <<Op("clear")>>)
        \/ shell_exec_args(argv) = Alone(argv, MemReport)
        \/ shell_exec_args(argv) = Alone(argv, DiskReport)
        \/ shell_exec_args(argv) = ThemeScript(argv)
        \/ shell_exec_args(argv) = Alone(argv, <<Op("reset")>>)
        \/ shell_exec_args(argv) = other
    <3> DEFINE a1 == Alone(argv, Lines(6))
               a2 == Alone(argv, <<Op("clear")>>)
               a3 == Alone(argv, MemReport)
               a4 == Alone(argv, DiskReport)
               a5 == ThemeScript(argv)
               a6 == Alone(argv, <<Op("reset")>>)
               w == argv[1]
    <3>1. shell_exec_args(argv) = CASE w = <<Help>>   -> a1
                                    [] w = <<Clear>>  -> a2
                                    [] w = <<Mem>>    -> a3
                                    [] w = <<Disk>>   -> a4
                                    [] w = <<Theme>>  -> a5
                                    [] w = <<Reboot>> -> a6
                                    [] OTHER -> other
      BY <1>4 DEF shell_exec_args
    <3> HIDE DEF a1, a2, a3, a4, a5, a6, w, other
    <3>2. \/ shell_exec_args(argv) = a1 \/ shell_exec_args(argv) = a2
          \/ shell_exec_args(argv) = a3 \/ shell_exec_args(argv) = a4
          \/ shell_exec_args(argv) = a5 \/ shell_exec_args(argv) = a6
          \/ shell_exec_args(argv) = other
      BY <3>1
    <3>3. QED
      BY <3>2, Zenon DEF a1, a2, a3, a4, a5, a6
  <2> HIDE DEF other
  <2>4. QED
    BY <1>2, <2>2, <2>3, Zenon
<1>5. QED
  BY <1>3, <1>4

LEMMA CalmCommands == PrintsLead(Calm, "rest", "rest") /\ OthersLead(Calm, "rest")
<1>1. PrintsLead(Calm, "rest", "rest")
  BY CalmPrint, CalmPrintln DEF PrintsLead
<1>2. ASSUME NEW t \in DOMAIN Themes
      PROVE  Leads(Calm, <<[op |-> "theme", theme |-> Themes[t]]>>, "rest", "rest")
  <2> DEFINE o == [op |-> "theme", theme |-> Themes[t]]
  <2>1. o \in Operation /\ o.op = "theme"
    BY DEF Operation
  <2> HIDE DEF o
  <2>2. Turns("rest", o, "rest") /\ "rest" \in Phase
    BY <2>1 DEF Turns, Phase
  <2>3. <<"rest", o, "rest">> \in Calm
    BY <2>1, <2>2, CalmIs
  <2>4. Leads(Calm, <<o>>, "rest", "rest")
    BY <2>1, <2>3, LeadsOne
  <2>5. QED
    BY <2>4 DEF o
<1>3. QED
  BY <1>1, <1>2, CalmOps DEF OthersLead

(* What kernel_main prints, and what Enter does. *)
EnterScript(s) ==
  <<Op("erase"), Op("down"), Op("home")>> \o shell_exec(s) \o fb_print(Prompt) \o <<Op("draw")>>

LEMMA CalmMain ==
  ASSUME NEW identified \in BOOLEAN
  PROVE  Leads(Calm, kernel_main(identified), "blank", "rest")
<1> DEFINE x == IF identified THEN <<>> ELSE Say
<1>1. Leads(Calm, Say, "rest", "rest") /\ Leads(Calm, fb_print(Prompt), "rest", "rest")
  BY CalmCommands, SaysLead, CalmPrint, TextTyped
<1>2. Leads(Calm, x, "rest", "rest")
  BY <1>1, LeadsNowhere
<1> HIDE DEF x
<1>3. Leads(Calm, <<Op("black")>> \o x, "blank", "rest")
  BY <1>2, CalmOps, LeadsJoin
<1>4. Leads(Calm, (<<Op("black")>> \o x) \o Say, "blank", "rest")
  BY <1>1, <1>3, LeadsJoin
<1>5. Leads(Calm, ((<<Op("black")>> \o x) \o Say) \o Say, "blank", "rest")
  BY <1>1, <1>4, LeadsJoin
<1>6. Leads(Calm, (((<<Op("black")>> \o x) \o Say) \o Say) \o fb_print(Prompt), "blank", "rest")
  BY <1>1, <1>5, LeadsJoin
<1>7. Leads(Calm, ((((<<Op("black")>> \o x) \o Say) \o Say) \o fb_print(Prompt)) \o <<Op("unmask")>>, "blank", "rest")
  BY <1>6, CalmOps, LeadsJoin
<1>8. QED
  BY <1>7, Zenon DEF kernel_main, x

LEMMA CalmEnter ==
  ASSUME NEW s \in Seq(Char \cup {NUL})
  PROVE  Leads(Calm, EnterScript(s), "rest", "rest")
<1> DEFINE x == <<Op("erase"), Op("down"), Op("home")>>
<1>1. Leads(Calm, x, "rest", "rest")
  <2>1. Leads(Calm, <<Op("erase")>> \o <<Op("down")>>, "rest", "fresh")
    BY CalmOps, LeadsJoin
  <2>2. Leads(Calm, (<<Op("erase")>> \o <<Op("down")>>) \o <<Op("home")>>, "rest", "rest")
    BY <2>1, CalmOps, LeadsJoin
  <2>3. QED
    BY <2>2, Listed, Zenon
<1> HIDE DEF x
<1>2. Leads(Calm, shell_exec(s), "rest", "rest")
  <2>1. Argv(Copied(CString(s))) \in Seq(Seq(Char))
    BY ArgsTyped
  <2>2. Leads(Calm, shell_exec_args(Argv(Copied(CString(s)))), "rest", "rest")
    BY <2>1, CalmCommands, CommandsLead
  <2>3. QED
    BY <2>2, Zenon DEF shell_exec
<1>3. Leads(Calm, x \o shell_exec(s), "rest", "rest")
  BY <1>1, <1>2, LeadsJoin
<1>4. Leads(Calm, (x \o shell_exec(s)) \o fb_print(Prompt), "rest", "rest")
  BY <1>3, CalmPrint, TextTyped, LeadsJoin
<1>5. Leads(Calm, ((x \o shell_exec(s)) \o fb_print(Prompt)) \o <<Op("draw")>>, "rest", "rest")
  BY <1>4, CalmOps, LeadsJoin
<1>6. QED
  BY <1>5, Zenon DEF EnterScript, x

------------------------------------------------------------------------------
(* Types, and the place of the cursor.  These hold whenever the ticks of   *)
(* the timer come.                                                         *)

Picture == [Rows -> [Cols -> Image]]
Buffer == [BufRows -> [Cols -> Char \cup {NUL}]]
FineTheme == {t \in [fg : Color, bg : Color] : t.fg \notin {t.bg, FB_BLACK}}

TermTyped ==
  /\ pix \in Picture /\ screen_buf \in Buffer
  /\ cur_row \in 0..fb_rows /\ cur_col \in Cols
  /\ theme \in FineTheme

InPlace(m) ==
  /\ cur_row = fb_rows => cur_col = 0
  /\ m \in {"ready", "ink", "row"} => cur_row \in Rows

LEMMA Sizes ==
  /\ fb_rows \in Nat /\ fb_rows >= 1 /\ fb_cols \in Nat /\ fb_cols >= 1
  /\ 0 \in Rows /\ 0 \in Cols /\ Rows \subseteq Nat /\ Cols \subseteq Nat
  /\ BufRows \subseteq Rows
  /\ \A r \in Int : r \in Rows <=> 0 <= r /\ r < fb_rows
  /\ \A c \in Int : c \in Cols <=> 0 <= c /\ c < fb_cols
  /\ SCREEN_MAX_ROWS \in Nat /\ SCREEN_MAX_ROWS >= 1
BY TerminalAssumption DEF Rows, Cols, BufRows

LEMMA ImageTyped ==
  /\ \A k \in Color : Fill(k) \in Image
  /\ \A c \in Char, x \in Color, y \in Color : Glyph(c, x, y) \in Image
  /\ FB_WHITE \in Color /\ FB_BLACK \in Color
BY TerminalAssumption DEF Image, Glyph, Fill

LEMMA FillTyped ==
  ASSUME NEW q \in Picture, NEW row, NEW col, NEW k \in Color
  PROVE  FillCursor(q, row, col, k) \in Picture
<1>1. Fill(k) \in Image
  BY ImageTyped
<1> DEFINE f == Fill(k)
<1> HIDE DEF f
<1>2. ASSUME row \in Rows, col \in Cols
      PROVE  [q EXCEPT ![row][col] = f] \in Picture
  BY <1>1, <1>2 DEF Picture, f
<1>3. QED
  BY <1>2 DEF FillCursor, f

LEMMA ScrollTyped ==
  ASSUME TermTyped, NEW row \in 0..(fb_rows + 1), ScrollTo(row)
  PROVE  pix' \in Picture /\ screen_buf' \in Buffer /\ cur_row' \in Rows
<1>1. CASE row < fb_rows
  BY <1>1, Sizes DEF TermTyped, ScrollTo
<1>2. CASE ~(row < fb_rows)
  <2>1. cur_row' = fb_rows - 1 /\ pix' = ScrolledPix /\ screen_buf' = ScrolledBuf
    BY <1>2 DEF ScrollTo
  <2>2. cur_row' \in Rows
    BY <2>1, Sizes
  <2>3. [c \in Cols |-> Fill(FB_BLACK)] \in [Cols -> Image] /\ [c \in Cols |-> NUL] \in [Cols -> Char \cup {NUL}]
    BY ImageTyped
  <2> DEFINE black == [c \in Cols |-> Fill(FB_BLACK)]
             none == [c \in Cols |-> NUL]
  <2> HIDE DEF black, none
  <2>4. pix' \in Picture
    <3>1. pix' = [r \in Rows |-> IF r + 1 \in Rows THEN pix[r + 1] ELSE black]
      BY <2>1, Zenon DEF ScrolledPix, black
    <3>2. QED
      BY <2>3, <3>1 DEF TermTyped, Picture, black
  <2>5. screen_buf' \in Buffer
    <3>1. screen_buf' = [r \in BufRows |-> IF r + 1 \in BufRows THEN screen_buf[r + 1] ELSE none]
      BY <2>1, Zenon DEF ScrolledBuf, none
    <3>2. QED
      BY <2>3, <3>1 DEF TermTyped, Buffer, none
  <2>6. QED
    BY <2>2, <2>4, <2>5
<1>3. QED
  BY <1>1, <1>2

LEMMA FineThemes ==
  /\ \A t \in DOMAIN Themes : Themes[t] \in FineTheme
  /\ [fg |-> FB_WHITE, bg |-> FB_BLACK] \in FineTheme
BY ShellAssumption, ThemesAssumption, TerminalAssumption DEF FineTheme

LEMMA CalmTurns ==
  ASSUME NEW a, NEW o, NEW b, <<a, o, b>> \in Calm
  PROVE  a \in Phase /\ o \in Operation /\ b \in Phase /\ Turns(a, o, b)
BY DEF Calm

LEMMA PutTyped ==
  ASSUME NEW o \in Operation, o.op = "put"
  PROVE  o.at \in Nat /\ o.ch \in Char
BY DEF Operation

LEMMA ThemeTyped ==
  ASSUME NEW o \in Operation, o.op = "theme"
  PROVE  o.theme \in FineTheme
BY FineThemes DEF Operation

LEMMA DoPlaced ==
  ASSUME TermTyped, NEW a, NEW o, NEW b, <<a, o, b>> \in Calm, InPlace(a), Do(o)
  PROVE  TermTyped' /\ InPlace(b)'
<1>1. /\ a \in Phase /\ o \in Operation /\ b \in Phase /\ Turns(a, o, b)
      /\ pix \in Picture /\ screen_buf \in Buffer
      /\ cur_row \in 0..fb_rows /\ cur_col \in Cols
      /\ theme \in FineTheme /\ theme.fg \in Color /\ theme.bg \in Color
      /\ cur_row = fb_rows => cur_col = 0
      /\ a \in {"ready", "ink", "row"} => cur_row \in Rows
  BY CalmTurns DEF TermTyped, InPlace, FineTheme
<1>2. CASE o.op = "erase" /\ fb_erase_cursor
  <2>1. /\ pix' = FillCursor(pix, cur_row, cur_col, theme.bg)
        /\ UNCHANGED <<screen_buf, cur_row, cur_col, theme>>
    BY <1>2 DEF fb_erase_cursor
  <2>2. pix' \in Picture
    BY <1>1, <2>1, FillTyped
  <2>3. b = "open"
    BY <1>1, <1>2 DEF Turns
  <2>4. QED
    BY <1>1, <2>1, <2>2, <2>3 DEF TermTyped, InPlace
<1>3. CASE o.op = "draw" /\ fb_draw_cursor
  <2>1. /\ pix' = FillCursor(pix, cur_row, cur_col, theme.fg)
        /\ UNCHANGED <<screen_buf, cur_row, cur_col, theme>>
    BY <1>3 DEF fb_draw_cursor
  <2>2. pix' \in Picture
    BY <1>1, <2>1, FillTyped
  <2>3. b = "rest"
    BY <1>1, <1>3 DEF Turns
  <2>4. QED
    BY <1>1, <2>1, <2>2, <2>3 DEF TermTyped, InPlace
<1>4. CASE o.op = "room" /\ MakeRoom
  <2>1. ScrollTo(cur_row) /\ UNCHANGED <<cur_col, theme>>
    BY <1>4 DEF MakeRoom
  <2>2. cur_row \in 0..(fb_rows + 1)
    BY <1>1, Sizes
  <2>3. pix' \in Picture /\ screen_buf' \in Buffer /\ cur_row' \in Rows
    BY <2>1, <2>2, ScrollTyped
  <2>4. cur_row' \in 0..fb_rows /\ cur_row' # fb_rows
    BY <2>3, Sizes
  <2>5. QED
    BY <1>1, <2>1, <2>3, <2>4 DEF TermTyped, InPlace
<1>5. CASE o.op = "put" /\ fb_draw_char(o.at, o.ch)
  <2>1. o.at \in Nat /\ o.ch \in Char
    BY <1>1, <1>5, PutTyped
  <2>2. PICK i \in Nat : i = o.at
    BY <2>1
  <2>3. PICK c \in Char : c = o.ch
    BY <2>1
  <2> DEFINE g == Glyph(c, theme.fg, theme.bg)
             col == cur_col + i
  <2>4. g \in Image
    BY <1>1, ImageTyped
  <2>5. /\ pix' = IF cur_row \in Rows /\ col \in Cols THEN [pix EXCEPT ![cur_row][col] = g] ELSE pix
        /\ screen_buf' = IF cur_row \in BufRows /\ col \in Cols
                         THEN [screen_buf EXCEPT ![cur_row][col] = c] ELSE screen_buf
        /\ UNCHANGED <<cur_row, cur_col, theme>>
    BY <1>5, <2>2, <2>3, Zenon DEF fb_draw_char
  <2> HIDE DEF g, col
  <2>6. pix' \in Picture
    BY <1>1, <2>4, <2>5 DEF Picture
  <2>7. screen_buf' \in Buffer
    BY <1>1, <2>5 DEF Buffer
  <2>8. b \in {"ink", "row"} /\ cur_row \in Rows
    BY <1>1, <1>5 DEF Turns
  <2>9. QED
    BY <1>1, <2>5, <2>6, <2>7, <2>8 DEF TermTyped, InPlace
<1>6. CASE o.op = "advance" /\ Advance
  <2>1. a = "ink" /\ b = "open" /\ cur_row \in Rows
    BY <1>1, <1>6 DEF Turns
  <2>2. UNCHANGED <<pix, screen_buf, theme>>
        /\ \/ cur_col + 1 < fb_cols /\ cur_col' = cur_col + 1 /\ cur_row' = cur_row
           \/ cur_col + 1 >= fb_cols /\ cur_col' = 0 /\ cur_row' = cur_row + 1
    BY <1>6 DEF Advance
  <2>3. cur_row' \in 0..fb_rows /\ cur_col' \in Cols /\ (cur_row' = fb_rows => cur_col' = 0)
    <3>1. cur_row \in Int /\ 0 <= cur_row /\ cur_row < fb_rows /\ cur_col \in Int /\ 0 <= cur_col
      BY <1>1, <2>1, Sizes
    <3>2. CASE cur_col + 1 < fb_cols /\ cur_col' = cur_col + 1 /\ cur_row' = cur_row
      BY <3>1, <3>2, Sizes
    <3>3. CASE cur_col + 1 >= fb_cols /\ cur_col' = 0 /\ cur_row' = cur_row + 1
      BY <3>1, <3>3, Sizes
    <3>4. QED
      BY <2>2, <3>2, <3>3
  <2>4. QED
    BY <1>1, <2>1, <2>2, <2>3 DEF TermTyped, InPlace
<1>7. CASE o.op = "home" /\ Home
  <2>1. cur_col' = 0 /\ UNCHANGED <<pix, screen_buf, cur_row, theme>>
    BY <1>7 DEF Home
  <2>2. b \in {"ready", "ink", "row"} => a \in {"ready", "ink", "row"}
    BY <1>1, <1>7 DEF Turns
  <2>3. QED
    BY <1>1, <2>1, <2>2, Sizes DEF TermTyped, InPlace
<1>8. CASE o.op = "down" /\ Down
  <2>1. ScrollTo(cur_row + 1) /\ UNCHANGED <<cur_col, theme>>
    BY <1>8 DEF Down
  <2>2. cur_row + 1 \in 0..(fb_rows + 1)
    BY <1>1, Sizes
  <2>3. pix' \in Picture /\ screen_buf' \in Buffer /\ cur_row' \in Rows
    BY <2>1, <2>2, ScrollTyped
  <2>4. cur_row' \in 0..fb_rows /\ cur_row' # fb_rows
    BY <2>3, Sizes
  <2>5. QED
    BY <1>1, <2>1, <2>3, <2>4 DEF TermTyped, InPlace
<1>9. CASE o.op = "back" /\ fb_backspace
  <2>1. b = "rest"
    BY <1>1, <1>9 DEF Turns
  <2>2. CASE UNCHANGED termVars
    BY <1>1, <2>1, <2>2 DEF TermTyped, InPlace, termVars
  <2>3. CASE /\ cur_col > 0
             /\ cur_col' = cur_col - 1
             /\ pix' = FillCursor(FillCursor(pix, cur_row, cur_col, theme.bg),
                                  cur_row, cur_col - 1, theme.fg)
             /\ screen_buf' = IF cur_row \in BufRows
                              THEN [screen_buf EXCEPT ![cur_row][cur_col - 1] = NUL]
                              ELSE screen_buf
             /\ UNCHANGED <<cur_row, theme>>
    <3>1. pix' \in Picture
      <4>1. FillCursor(pix, cur_row, cur_col, theme.bg) \in Picture
        BY <1>1, FillTyped
      <4>2. QED
        BY <1>1, <2>3, <4>1, FillTyped
    <3>2. screen_buf' \in Buffer
      BY <1>1, <2>3 DEF Buffer
    <3>3. cur_col' \in Cols /\ cur_row' \in 0..fb_rows /\ (cur_row' = fb_rows => cur_col' = 0)
      BY <1>1, <2>3, Sizes
    <3>4. QED
      BY <1>1, <2>1, <2>3, <3>1, <3>2, <3>3 DEF TermTyped, InPlace
  <2>4. QED
    BY <1>9, <2>2, <2>3 DEF fb_backspace
<1>10. CASE o.op = "black" /\ fb_clear(FB_BLACK)
  <2>1. b = "rest"
    BY <1>1, <1>10 DEF Turns
  <2>2. pix' \in Picture
    <3>1. pix' = [r \in Rows |-> [c \in Cols |-> Fill(FB_BLACK)]]
      BY <1>10 DEF fb_clear
    <3>2. QED
      BY <3>1, ImageTyped DEF Picture
  <2>3. UNCHANGED <<screen_buf, cur_row, cur_col, theme>>
    BY <1>10 DEF fb_clear
  <2>4. QED
    BY <1>1, <2>1, <2>2, <2>3 DEF TermTyped, InPlace
<1>11. CASE o.op = "clear" /\ fb_clear_screen
  <2>1. b = "rest"
    BY <1>1, <1>11 DEF Turns
  <2>2. pix' \in Picture
    <3>1. pix' = [r \in Rows |-> [c \in Cols |-> Fill(theme.bg)]]
      BY <1>11 DEF fb_clear_screen
    <3>2. QED
      BY <1>1, <3>1, ImageTyped DEF Picture
  <2>3. screen_buf' \in Buffer
    BY <1>11 DEF fb_clear_screen, NoText, Buffer
  <2>4. cur_row' = 0 /\ cur_col' = 0 /\ UNCHANGED theme
    BY <1>11 DEF fb_clear_screen
  <2>5. QED
    BY <1>1, <2>1, <2>2, <2>3, <2>4, Sizes DEF TermTyped, InPlace
<1>12. CASE o.op = "theme" /\ fb_update_theme(o.theme)
  <2>1. b = "rest" /\ o.theme \in FineTheme
    BY <1>1, <1>12, ThemeTyped DEF Turns
  <2>2. PICK t \in FineTheme : t = o.theme
    BY <2>1
  <2>3. t.fg \in Color /\ t.bg \in Color
    BY DEF FineTheme
  <2>4. /\ theme' = t /\ UNCHANGED <<screen_buf, cur_row, cur_col>>
        /\ pix' = FillCursor(Redrawn(t.fg, t.bg), cur_row, cur_col, t.fg)
    BY <1>12, <2>2 DEF fb_update_theme
  <2>5. Redrawn(t.fg, t.bg) \in Picture
    <3> DEFINE cell(r, c) == IF r \in BufRows /\ screen_buf[r][c] # NUL
                             THEN Glyph(screen_buf[r][c], t.fg, t.bg) ELSE Fill(t.bg)
    <3>1. ASSUME NEW r \in Rows, NEW c \in Cols PROVE cell(r, c) \in Image
      <4>1. CASE r \in BufRows /\ screen_buf[r][c] # NUL
        <5>1. screen_buf[r][c] \in Char
          BY <1>1, <4>1 DEF Buffer
        <5>2. QED
          BY <2>3, <4>1, <5>1, ImageTyped
      <4>2. CASE ~(r \in BufRows /\ screen_buf[r][c] # NUL)
        <5>1. cell(r, c) = Fill(t.bg)
          BY <4>2
        <5>2. QED
          BY <2>3, <5>1, ImageTyped
      <4>3. QED
        BY <4>1, <4>2
    <3>2. Redrawn(t.fg, t.bg) = [r \in Rows |-> [c \in Cols |-> cell(r, c)]]
      BY Zenon DEF Redrawn
    <3> HIDE DEF cell
    <3>3. QED
      BY <3>1, <3>2 DEF Picture
  <2>6. pix' \in Picture
    BY <2>3, <2>4, <2>5, FillTyped
  <2>7. QED
    BY <1>1, <2>1, <2>2, <2>4, <2>6 DEF TermTyped, InPlace
<1>13. QED
  BY <1>2, <1>3, <1>4, <1>5, <1>6, <1>7, <1>8, <1>9, <1>10, <1>11, <1>12 DEF Do

------------------------------------------------------------------------------
(* The inductive invariant of the whole console, and what a step of it     *)
(* does to the sequence still to do.                                       *)

KeysTyped ==
  /\ line \in Seq(Char \cup {NUL}) /\ Len(line) <= MaxLine
  /\ in_handler \in BOOLEAN /\ unmasked \in BOOLEAN /\ shift \in BOOLEAN /\ stopped \in BOOLEAN
  /\ in_handler => unmasked /\ todo # <<>>

Underway(m) == Leads(Calm, todo, m, "rest") /\ InPlace(m)

ConInv == TermTyped /\ KeysTyped /\ \E m \in Phase : Underway(m)

LEMMA StartTyped ==
  ASSUME TermInit
  PROVE  TermTyped /\ InPlace("blank")
<1>1. Black \in Picture /\ NoText \in Buffer
  BY ImageTyped DEF Black, NoText, Picture, Buffer
<1>2. QED
  BY <1>1, FineThemes, Sizes DEF TermInit, TermTyped, InPlace

LEMMA StartUnderway ==
  ASSUME NEW identified \in BOOLEAN, todo = kernel_main(identified), InPlace("blank")
  PROVE  \E m \in Phase : Underway(m)
<1>1. Underway("blank") /\ "blank" \in Phase
  BY CalmMain DEF Underway, Phase
<1>2. QED
  BY <1>1

LEMMA ConInit == ConsoleInit => ConInv
<1> SUFFICES ASSUME ConsoleInit PROVE ConInv
  OBVIOUS
<1>1. TermTyped /\ InPlace("blank")
  BY StartTyped DEF ConsoleInit
<1>2. \E m \in Phase : Underway(m)
  BY <1>1, StartUnderway DEF ConsoleInit
<1>3. KeysTyped
  <2>1. <<>> \in Seq(Char \cup {NUL}) /\ Len(<<>>) = 0 /\ 0 <= MaxLine
    BY ConsoleAssumption
  <2>2. QED
    BY <2>1 DEF KeysTyped, ConsoleInit
<1>4. QED
  BY <1>1, <1>2, <1>3 DEF ConInv

LEMMA ResetStep ==
  ASSUME Reset
  PROVE  /\ TermInit' /\ TermTyped' /\ InPlace("blank")' /\ KeysTyped'
         /\ \E identified \in BOOLEAN : todo' = kernel_main(identified)
<1>1. TermInit'
  BY DEF Reset, TermInit
<1>2. TermTyped' /\ InPlace("blank")'
  <2>1. Black \in Picture /\ NoText \in Buffer
    BY ImageTyped DEF Black, NoText, Picture, Buffer
  <2>2. QED
    BY <2>1, FineThemes, Sizes DEF Reset, TermTyped, InPlace
<1>3. KeysTyped'
  <2>1. <<>> \in Seq(Char \cup {NUL}) /\ Len(<<>>) = 0 /\ 0 <= MaxLine
    BY ConsoleAssumption
  <2>2. QED
    BY <2>1 DEF KeysTyped, Reset
<1>4. QED
  BY <1>1, <1>2, <1>3 DEF Reset

(* A step that is not a reset takes the first operation.                   *)
Proceeds(m, b) ==
  /\ todo # <<>> /\ <<m, Head(todo), b>> \in Calm
  /\ Leads(Calm, Tail(todo), b, "rest") /\ todo' = Tail(todo)
  /\ in_handler' = (in_handler /\ Tail(todo) # <<>>)
  /\ UNCHANGED keyVars
  /\ \/ Do(Head(todo)) /\ UNCHANGED unmasked
     \/ Head(todo).op = "unmask" /\ unmasked' = TRUE /\ UNCHANGED termVars /\ m = "rest" /\ b = "rest"

LEMMA ContinueStep ==
  ASSUME NEW m \in Phase, Leads(Calm, todo, m, "rest"), Continue
  PROVE  Reset \/ \E b \in Phase : Proceeds(m, b)
<1>1. todo # <<>>
  BY DEF Continue
<1>2. PICK b : <<m, Head(todo), b>> \in Calm /\ Leads(Calm, Tail(todo), b, "rest")
  <2>1. PICK s : s = todo
    OBVIOUS
  <2>2. Leads(Calm, s, m, "rest") /\ s # <<>>
    BY <1>1, <2>1
  <2>3. \E b : <<m, Head(s), b>> \in Calm /\ Leads(Calm, Tail(s), b, "rest")
    BY <2>2, LeadsOn
  <2>4. QED
    BY <2>1, <2>3
<1>3. b \in Phase /\ Turns(m, Head(todo), b)
  BY <1>2, CalmTurns
<1>4. Head(todo).op = "unmask" => m = "rest" /\ b = "rest"
  BY <1>3 DEF Turns
<1>5. QED
  BY <1>1, <1>2, <1>3, <1>4, Zenon DEF Continue, Proceeds

LEMMA ProceedsTyped ==
  ASSUME TermTyped, KeysTyped, NEW m \in Phase, NEW b \in Phase, Proceeds(m, b), InPlace(m)
  PROVE  TermTyped' /\ KeysTyped' /\ Underway(b)'
<1>1. TermTyped' /\ InPlace(b)'
  <2>1. CASE Do(Head(todo))
    BY <2>1, DoPlaced DEF Proceeds
  <2>2. CASE UNCHANGED termVars /\ m = "rest" /\ b = "rest"
    BY <2>2 DEF termVars, TermTyped, InPlace
  <2>3. QED
    BY <2>1, <2>2 DEF Proceeds
<1>2. KeysTyped'
  <2>1. /\ todo' = Tail(todo) /\ in_handler' = (in_handler /\ Tail(todo) # <<>>)
        /\ line' = line /\ shift' = shift /\ stopped' = stopped
        /\ unmasked' = unmasked \/ unmasked' = TRUE
    BY DEF Proceeds, keyVars
  <2>2. in_handler' \in BOOLEAN /\ unmasked' \in BOOLEAN /\ (in_handler' => unmasked' /\ todo' # <<>>)
    BY <2>1 DEF KeysTyped
  <2>3. QED
    BY <2>1, <2>2 DEF KeysTyped
<1>3. Leads(Calm, todo', b, "rest")
  BY DEF Proceeds
<1>4. QED
  BY <1>1, <1>2, <1>3 DEF Underway

KeysFine(l, h, t) ==
  /\ l \in Seq(Char \cup {NUL}) /\ Len(l) <= MaxLine
  /\ h \in BOOLEAN /\ t \in BOOLEAN

(* What a key leaves to do starts and ends at rest.                        *)
LEMMA KeyStep ==
  ASSUME KeysTyped, NEW code \in Keys, keyboard_handler(code)
  PROVE  /\ KeysTyped' /\ Leads(Calm, todo', "rest", "rest")
         /\ UNCHANGED <<termVars, unmasked>> /\ todo = <<>> /\ unmasked
<1>1. /\ line \in Seq(Char \cup {NUL}) /\ Len(line) <= MaxLine /\ Len(line) \in Nat
      /\ MaxLine \in Nat
  BY ConsoleAssumption, ShellAssumption DEF KeysTyped
<1>2. unmasked /\ todo = <<>> /\ UNCHANGED <<termVars, unmasked>>
  BY DEF keyboard_handler
<1>0. KeysFine(line, shift, stopped)
  BY Zenon DEF KeysTyped, KeysFine
<1> DEFINE Left(s) == Handle(s) /\ Leads(Calm, s, "rest", "rest")
           Goal == KeysTyped' /\ Leads(Calm, todo', "rest", "rest")
<1>3. ASSUME NEW s, Left(s), KeysFine(line', shift', stopped')
      PROVE  Goal
  <2>1. todo' = s /\ in_handler' = (s # <<>>)
    BY <1>3 DEF Handle
  <2>2. in_handler' \in BOOLEAN /\ (in_handler' => todo' # <<>>) /\ unmasked' = TRUE
    BY <1>2, <2>1 DEF KeysTyped
  <2>3. Leads(Calm, todo', "rest", "rest")
    BY <1>3, <2>1
  <2>4. KeysTyped'
    BY <1>3, <2>2, Zenon DEF KeysTyped, KeysFine
  <2>5. QED
    BY <2>3, <2>4
<1> HIDE DEF Goal
<1>4. Leads(Calm, <<>>, "rest", "rest")
  BY LeadsNowhere
<1>5. ASSUME stopped /\ Handle(<<>>) /\ UNCHANGED keyVars PROVE Goal
  <2>1. Left(<<>>) /\ line' = line /\ shift' = shift /\ stopped' = stopped
    BY <1>4, <1>5 DEF keyVars
  <2>2. QED
    BY <1>0, <1>3, <2>1, Zenon
<1>6. ASSUME ~stopped /\ ShiftKey(code) PROVE Goal
  <2>1. Left(<<>>) /\ line' = line /\ (shift' = TRUE \/ shift' = FALSE) /\ stopped' = stopped
    BY <1>4, <1>6 DEF ShiftKey
  <2>2. KeysFine(line, TRUE, stopped) /\ KeysFine(line, FALSE, stopped)
    BY <1>0, Zenon DEF KeysFine
  <2>3. QED
    BY <1>3, <2>1, <2>2, Zenon
<1>7. ASSUME ~stopped /\ OtherRelease(code) PROVE Goal
  <2>1. Left(<<>>) /\ line' = line /\ shift' = shift /\ stopped' = stopped
    BY <1>4, <1>7 DEF OtherRelease, keyVars
  <2>2. QED
    BY <1>0, <1>3, <2>1, Zenon
<1>8. ASSUME ~stopped /\ EnterKey(code) PROVE Goal
  <2>1. Handle(EnterScript(line)) /\ line' = <<>> /\ shift' = shift /\ stopped' = stopped
    BY <1>8, Zenon DEF EnterKey, EnterScript
  <2>2. Left(EnterScript(line))
    BY <1>1, <2>1, CalmEnter
  <2>3. <<>> \in Seq(Char \cup {NUL}) /\ Len(<<>>) <= MaxLine
    BY <1>1
  <2>4. KeysFine(<<>>, shift, stopped)
    BY <1>0, <1>8, <2>3, Zenon DEF KeysFine
  <2>5. KeysFine(line', shift', stopped')
    BY <2>1, <2>4, Zenon
  <2>6. QED
    BY <1>3, <2>2, <2>5
<1>9. ASSUME ~stopped /\ BackspaceKey(code) PROVE Goal
  <2>1. shift' = shift /\ stopped' = stopped
    BY <1>9 DEF BackspaceKey
  <2>2. ASSUME Len(line) > 0 /\ line' = SubSeq(line, 1, Len(line) - 1) /\ Handle(<<Op("back")>>) PROVE Goal
    <3>1. line' \in Seq(Char \cup {NUL}) /\ Len(line') <= MaxLine
      <4>1. PICK s \in Seq(Char \cup {NUL}) : s = line
        BY <1>1
      <4>2. SubSeq(s, 1, Len(s) - 1) \in Seq(Char \cup {NUL}) /\ Len(SubSeq(s, 1, Len(s) - 1)) <= Len(s)
        BY <1>1, <2>2, <4>1
      <4>3. QED
        BY <1>1, <2>2, <4>1, <4>2
    <3>2. Left(<<Op("back")>>)
      BY <2>2, CalmOps
    <3>3. KeysFine(line', shift, stopped)
      BY <1>0, <1>9, <3>1, Zenon DEF KeysFine
    <3>4. KeysFine(line', shift', stopped')
      BY <2>1, <3>3, Zenon
    <3>5. QED
      BY <1>3, <3>2, <3>4
  <2>3. ASSUME Len(line) = 0 /\ UNCHANGED line /\ Handle(<<>>) PROVE Goal
    <3>1. Left(<<>>) /\ line' = line
      BY <1>4, <2>3
    <3>2. QED
      BY <1>0, <1>3, <2>1, <3>1, Zenon
  <2>4. QED
    BY <1>9, <2>2, <2>3 DEF BackspaceKey
<1>10. ASSUME ~stopped /\ TypeKey(code) PROVE Goal
  <2> DEFINE c == IF shift THEN uppercase_map[code] ELSE scancode_map[code]
             s == IF c = NUL THEN <<>> ELSE <<c>>
             full == Len(line) >= BufSize /\ c # NUL
  <2>1. code \in DOMAIN scancode_map /\ Len(line) < MaxLine /\ Store(c) /\ Handle(fb_print(s))
    BY <1>10, Zenon DEF TypeKey
  <2>2. c \in Char \cup {NUL}
    BY <2>1, ConsoleAssumption
  <2>3. s \in Seq(Char)
    <3>1. CASE c = NUL
      BY <3>1
    <3>2. CASE c # NUL
      BY <2>2, <3>2
    <3>3. QED
      BY <3>1, <3>2
  <2> HIDE DEF c, s
  <2>4. Left(fb_print(s))
    BY <2>1, <2>3, CalmPrint
  <2>5. line' = Append(line, c) /\ stopped' = full /\ shift' = shift
    BY <2>1, Zenon DEF Store
  <2>6. Append(line, c) \in Seq(Char \cup {NUL}) /\ Len(Append(line, c)) = Len(line) + 1
    BY <1>1, <2>2
  <2>7. Len(Append(line, c)) <= MaxLine /\ full \in BOOLEAN
    BY <1>1, <2>1, <2>6
  <2> HIDE DEF full
  <2>8. KeysFine(Append(line, c), shift, full)
    BY <1>0, <2>6, <2>7, Zenon DEF KeysFine
  <2>9. KeysFine(line', shift', stopped')
    BY <2>5, <2>8, Zenon
  <2>10. QED
    BY <1>3, <2>4, <2>9
<1>11. Goal
  BY <1>5, <1>6, <1>7, <1>8, <1>9, <1>10 DEF keyboard_handler
<1>12. QED
  BY <1>2, <1>11 DEF Goal

LEMMA TickTyped ==
  ASSUME TermTyped, timer_handler
  PROVE  /\ TermTyped'
         /\ UNCHANGED <<screen_buf, cur_row, cur_col, theme, todo, in_handler, unmasked, keyVars>>
<1>1. /\ pix \in Picture /\ theme.fg \in Color /\ theme.bg \in Color
  BY DEF TermTyped, FineTheme
<1>2. /\ \/ pix' = FillCursor(pix, cur_row, cur_col, theme.fg)
         \/ pix' = FillCursor(pix, cur_row, cur_col, theme.bg)
      /\ UNCHANGED <<screen_buf, cur_row, cur_col, theme, todo, in_handler, unmasked, keyVars>>
  BY DEF timer_handler, fb_draw_cursor, fb_erase_cursor
<1>3. pix' \in Picture
  BY <1>1, <1>2, FillTyped
<1>4. QED
  BY <1>2, <1>3 DEF TermTyped

LEMMA ConStep == ConInv /\ [ConsoleNext]_conVars => ConInv'
<1> SUFFICES ASSUME ConInv, [ConsoleNext]_conVars PROVE ConInv'
  OBVIOUS
<1>1. TermTyped /\ KeysTyped
  BY DEF ConInv
<1>2. PICK m \in Phase : Leads(Calm, todo, m, "rest") /\ InPlace(m)
  BY DEF ConInv, Underway
<1>3. ASSUME Continue PROVE ConInv'
  <2>1. ASSUME Reset PROVE ConInv'
    <3>1. TermTyped' /\ InPlace("blank")' /\ KeysTyped'
      BY <2>1, ResetStep
    <3>2. PICK identified \in BOOLEAN : todo' = kernel_main(identified)
      BY <2>1, ResetStep
    <3>3. Leads(Calm, todo', "blank", "rest") /\ "blank" \in Phase
      BY <3>2, CalmMain DEF Phase
    <3>4. QED
      BY <3>1, <3>3 DEF ConInv, Underway
  <2>2. ASSUME NEW b \in Phase, Proceeds(m, b) PROVE ConInv'
    <3>1. TermTyped' /\ KeysTyped' /\ Underway(b)'
      BY <1>1, <1>2, <2>2, ProceedsTyped
    <3>2. QED
      BY <3>1 DEF ConInv
  <2>3. QED
    BY <1>2, <1>3, <2>1, <2>2, ContinueStep
<1>4. ASSUME timer_handler PROVE ConInv'
  <2>1. /\ TermTyped'
        /\ UNCHANGED <<screen_buf, cur_row, cur_col, theme, todo, in_handler, unmasked, keyVars>>
    BY <1>1, <1>4, TickTyped
  <2>2. KeysTyped' /\ Leads(Calm, todo', m, "rest") /\ InPlace(m)'
    BY <1>1, <1>2, <2>1 DEF KeysTyped, InPlace, keyVars
  <2>3. QED
    BY <2>1, <2>2 DEF ConInv, Underway
<1>5. ASSUME NEW code \in Keys, keyboard_handler(code) PROVE ConInv'
  <2>1. KeysTyped' /\ Leads(Calm, todo', "rest", "rest") /\ UNCHANGED termVars /\ todo = <<>>
    BY <1>1, <1>5, KeyStep
  <2>2. m = "rest"
    BY <1>2, <2>1, LeadsStays
  <2>3. TermTyped' /\ InPlace("rest")'
    BY <1>1, <1>2, <2>1, <2>2 DEF TermTyped, InPlace, termVars
  <2>4. QED
    BY <1>2, <2>1, <2>2, <2>3 DEF ConInv, Underway
<1>6. ASSUME UNCHANGED conVars PROVE ConInv'
  <2>1. TermTyped' /\ KeysTyped' /\ Leads(Calm, todo', m, "rest") /\ InPlace(m)'
    BY <1>1, <1>2, <1>6 DEF TermTyped, KeysTyped, InPlace, conVars, termVars, keyVars
  <2>2. QED
    BY <2>1 DEF ConInv, Underway
<1>7. QED
  BY <1>3, <1>4, <1>5, <1>6 DEF ConsoleNext

LEMMA ConInvariant == ConsoleSpec => []ConInv
BY ConInit, ConStep, PTL DEF ConsoleSpec

(* The ticks that come while nothing is printed are among all ticks.       *)
LEMMA QuietIsConsole == QuietSpec => ConsoleSpec
<1>1. [QuietNext]_conVars => [ConsoleNext]_conVars
  BY DEF QuietNext, ConsoleNext
<1>2. QED
  BY <1>1, PTL DEF QuietSpec, ConsoleSpec

(* The screen, the cursor, the theme and the line stay what they are,      *)
(* whatever is typed, printed and scrolled and whenever a tick comes: no   *)
(* command puts a NUL on the screen, no function takes the cursor further  *)
(* than the row behind the last (fb.c:79, 140-143, 159-164).               *)
THEOREM ConsoleIsTyped == ConsoleSpec => []ConsoleTypeOK
<1>1. ConInv => ConsoleTypeOK
  <2> SUFFICES ASSUME ConInv PROVE ConsoleTypeOK
    OBVIOUS
  <2>1. /\ pix \in [Rows -> [Cols -> Image]]
        /\ screen_buf \in [BufRows -> [Cols -> Char \cup {NUL}]]
        /\ cur_row \in 0..fb_rows /\ cur_col \in Cols
        /\ theme \in [fg : Color, bg : Color]
    BY DEF ConInv, TermTyped, Picture, Buffer, FineTheme
  <2>2. /\ line \in Seq(Char \cup {NUL}) /\ Len(line) <= MaxLine
        /\ in_handler \in BOOLEAN /\ unmasked \in BOOLEAN /\ shift \in BOOLEAN /\ stopped \in BOOLEAN
        /\ in_handler => unmasked /\ ~AtRest
    BY Zenon DEF ConInv, KeysTyped, AtRest
  <2>3. {in_handler, unmasked, shift, stopped} \subseteq BOOLEAN
    BY <2>2, Zenon
  <2>4. QED
    BY <2>1, <2>2, <2>3, Zenon DEF ConsoleTypeOK
<1>2. QED
  BY <1>1, ConInvariant, PTL

(* On every screen the cursor leaves the cells at one place only, behind   *)
(* the last one, because every character is printed behind a scroll        *)
(* (fb.c:79, 140-143, 159-164, 171-175).                                   *)
THEOREM CursorIsLostOnlyAtEnd == ConsoleSpec => []CursorLostOnlyAtEnd
<1>1. ConInv => CursorLostOnlyAtEnd
  <2> SUFFICES ASSUME ConInv PROVE CursorLostOnlyAtEnd
    OBVIOUS
  <2>1. /\ cur_row \in 0..fb_rows /\ cur_col \in Cols
        /\ cur_row = fb_rows => cur_col = 0
    BY DEF ConInv, TermTyped, Underway, InPlace
  <2>2. cur_row \in Rows \/ cur_row = fb_rows
    BY <2>1, Sizes
  <2>3. QED
    BY <2>1, <2>2 DEF CursorLostOnlyAtEnd, CursorOnScreen
<1>2. QED
  BY <1>1, ConInvariant, PTL

------------------------------------------------------------------------------
(* What the screen shows.  Here the ticks matter: one that falls into the  *)
(* printing of a message erases a character of it, so these hold for       *)
(* QuietSpec.                                                              *)

Blank(r, c) == (r \in BufRows => screen_buf[r][c] = NUL) /\ pix[r][c].ch = Space

(* In reading order, from a cell on.                                       *)
BlankFrom(row, col) ==
  \A r \in Rows, c \in Cols : r > row \/ (r = row /\ c >= col) => Blank(r, c)

NoBlock == \A r \in Rows, c \in Cols : pix[r][c] # Fill(theme.fg)

Kept(r, c) == IF r \in BufRows /\ screen_buf[r][c] # NUL THEN screen_buf[r][c] ELSE Space

Remembered ==
  fb_rows <= SCREEN_MAX_ROWS => \A r \in Rows, c \in Cols : pix[r][c].ch = Kept(r, c)

Clean(m) ==
  /\ m = "blank" => pix = Black /\ screen_buf = NoText
  /\ m = "rest" => CursorAlone /\ BlankFrom(cur_row, cur_col)
  /\ m \in {"open", "ready"} => NoBlock /\ BlankFrom(cur_row, cur_col)
  /\ m = "ink" => NoBlock /\ BlankFrom(cur_row, cur_col + 1)
  /\ m = "row" => NoBlock /\ BlankFrom(cur_row + 1, 0)
  /\ m = "fresh" => NoBlock /\ BlankFrom(cur_row, 0)

LEMMA Images ==
  /\ \A k \in Color : Fill(k).ch = Space
  /\ \A x \in Color, y \in Color : Fill(x) = Fill(y) => x = y
  /\ \A c \in Char, x \in Color, y \in Color : Glyph(c, x, y).ch = c
  /\ \A c \in Char, x \in Color, y \in Color : x # y => Glyph(c, x, y) # Fill(x)
<1>1. \A k \in Color : Fill(k).ch = Space /\ Fill(k).ink = k
  BY DEF Fill
<1>2. \A x \in Color, y \in Color : Fill(x) = Fill(y) => x = y
  BY <1>1
<1>3. ASSUME NEW c \in Char, NEW x \in Color, NEW y \in Color
      PROVE  Glyph(c, x, y).ch = c /\ (x # y => Glyph(c, x, y) # Fill(x))
  <2>1. CASE c = Space
    <3>1. Glyph(c, x, y) = Fill(y)
      BY <2>1 DEF Glyph
    <3>2. QED
      BY <1>1, <1>2, <2>1, <3>1
  <2>2. CASE c # Space
    <3>1. Glyph(c, x, y) = [ch |-> c, ink |-> x, paper |-> y]
      BY <2>2 DEF Glyph
    <3>2. Glyph(c, x, y).ch = c
      BY <3>1
    <3>3. QED
      BY <1>1, <2>2, <3>2
  <2>3. QED
    BY <2>1, <2>2
<1>4. QED
  BY <1>1, <1>2, <1>3

LEMMA Filled ==
  ASSUME NEW q \in Picture, NEW row, NEW col, NEW k
  PROVE  \A r \in Rows, c \in Cols :
           FillCursor(q, row, col, k)[r][c] = IF r = row /\ c = col THEN Fill(k) ELSE q[r][c]
<1> DEFINE f == Fill(k)
<1> HIDE DEF f
<1>1. CASE row \in Rows /\ col \in Cols
  <2>1. FillCursor(q, row, col, k) = [q EXCEPT ![row][col] = f]
    BY <1>1 DEF FillCursor, f
  <2>2. \A r \in Rows, c \in Cols :
          [q EXCEPT ![row][col] = f][r][c] = IF r = row /\ c = col THEN f ELSE q[r][c]
    BY <1>1 DEF Picture
  <2>3. QED
    BY <2>1, <2>2 DEF f
<1>2. CASE ~(row \in Rows /\ col \in Cols)
  <2>1. FillCursor(q, row, col, k) = q
    BY <1>2 DEF FillCursor
  <2>2. QED
    BY <1>2, <2>1
<1>3. QED
  BY <1>1, <1>2

LEMMA ThemeFacts ==
  ASSUME NEW t \in FineTheme
  PROVE  /\ t.fg \in Color /\ t.bg \in Color /\ t.fg # t.bg /\ FB_BLACK \in Color /\ t.fg # FB_BLACK
         /\ Fill(t.bg) # Fill(t.fg) /\ Fill(FB_BLACK) # Fill(t.fg)
         /\ Fill(t.bg).ch = Space /\ Fill(t.fg).ch = Space /\ Fill(FB_BLACK).ch = Space
         /\ \A c \in Char : Glyph(c, t.fg, t.bg) # Fill(t.fg) /\ Glyph(c, t.fg, t.bg).ch = c
<1>1. t.fg \in Color /\ t.bg \in Color /\ t.fg # t.bg /\ FB_BLACK \in Color /\ t.fg # FB_BLACK
  BY TerminalAssumption DEF FineTheme
<1>2. QED
  BY <1>1, Images

LEMMA BlankFewer ==
  ASSUME TermTyped
  PROVE  /\ BlankFrom(cur_row, cur_col) => BlankFrom(cur_row + 1, 0)
         /\ BlankFrom(cur_row, 0) => BlankFrom(cur_row, cur_col)
         /\ BlankFrom(cur_row, cur_col) => BlankFrom(cur_row, cur_col + 1)
         /\ BlankFrom(cur_row, cur_col + 1) => BlankFrom(cur_row + 1, 0)
<1>1. cur_row \in Nat /\ cur_col \in Nat
  BY Sizes DEF TermTyped
<1>2. \A r \in Rows, c \in Cols :
        /\ r > cur_row + 1 \/ (r = cur_row + 1 /\ c >= 0) => r > cur_row
        /\ c >= cur_col + 1 => c >= cur_col
        /\ c >= cur_col => c >= 0
  BY <1>1, Sizes
<1>3. QED
  BY <1>2, Zenon DEF BlankFrom

(* Erasing or drawing the block where nothing is remembered.               *)
LEMMA BlockClean ==
  ASSUME TermTyped, Remembered, BlankFrom(cur_row, cur_col), CursorAlone,
         NEW k \in {theme.fg, theme.bg},
         pix' = FillCursor(pix, cur_row, cur_col, k),
         UNCHANGED <<screen_buf, cur_row, cur_col, theme>>
  PROVE  /\ CursorAlone' /\ BlankFrom(cur_row, cur_col)' /\ Remembered'
         /\ k = theme.bg => NoBlock'
<1>1. /\ pix \in Picture /\ theme \in FineTheme /\ cur_row \in Nat /\ cur_col \in Nat
      /\ screen_buf' = screen_buf /\ cur_row' = cur_row /\ cur_col' = cur_col /\ theme' = theme
  BY Sizes DEF TermTyped
<1>2. /\ Fill(theme.bg) # Fill(theme.fg)
      /\ Fill(theme.bg).ch = Space /\ Fill(theme.fg).ch = Space
  BY <1>1, ThemeFacts
<1>3. \A r \in Rows, c \in Cols :
        pix'[r][c] = IF r = cur_row /\ c = cur_col THEN Fill(k) ELSE pix[r][c]
  BY <1>1, Filled
<1>4. \A r \in Rows, c \in Cols : pix[r][c] = Fill(theme.fg) => r = cur_row /\ c = cur_col
  BY DEF CursorAlone, CursorCell
<1>5. CursorAlone'
  BY <1>1, <1>3, <1>4 DEF CursorAlone, CursorCell
<1>6. k = theme.bg => NoBlock'
  <2>1. ASSUME k = theme.bg, NEW r \in Rows, NEW c \in Cols PROVE pix'[r][c] # Fill(theme.fg)
    BY <1>2, <1>3, <1>4, <2>1
  <2>2. QED
    BY <1>1, <2>1 DEF NoBlock
<1>7. Fill(k).ch = Space
  BY <1>2
<1>8. ASSUME NEW r \in Rows, NEW c \in Cols, Blank(r, c) PROVE Blank(r, c)'
  BY <1>1, <1>3, <1>7, <1>8 DEF Blank
<1>9. BlankFrom(cur_row, cur_col)'
  BY <1>1, <1>8 DEF BlankFrom
<1>10. Remembered'
  <2>1. ASSUME fb_rows <= SCREEN_MAX_ROWS, NEW r \in Rows, NEW c \in Cols
        PROVE  pix'[r][c].ch = Kept(r, c)
    <3>1. pix[r][c].ch = Kept(r, c)
      BY <2>1 DEF Remembered
    <3>2. CASE r = cur_row /\ c = cur_col
      <4>1. Blank(r, c)
        BY <1>1, <3>2 DEF BlankFrom
      <4>2. pix'[r][c].ch = Space /\ Kept(r, c) = Space
        BY <1>3, <1>7, <3>2, <4>1 DEF Blank, Kept
      <4>3. QED
        BY <4>2
    <3>3. CASE ~(r = cur_row /\ c = cur_col)
      BY <1>3, <3>1, <3>3
    <3>4. QED
      BY <3>2, <3>3
  <2>2. QED
    BY <1>1, <2>1 DEF Remembered, Kept
<1>11. QED
  BY <1>5, <1>6, <1>9, <1>10

LEMMA NoBlockAlone == NoBlock => CursorAlone
BY DEF NoBlock, CursorAlone

(* Making room brings in a blank row.                                      *)
LEMMA ScrollClean ==
  ASSUME TermTyped, NEW row \in 0..(fb_rows + 1), NEW col \in Nat, ScrollTo(row), theme' = theme,
         NoBlock, BlankFrom(row, col), Remembered
  PROVE  NoBlock' /\ BlankFrom(cur_row, col)' /\ Remembered'
<1>1. /\ pix \in Picture /\ screen_buf \in Buffer /\ theme \in FineTheme
  BY DEF TermTyped
<1>2. CASE row < fb_rows
  <2>1. cur_row' = row /\ pix' = pix /\ screen_buf' = screen_buf /\ theme' = theme
    BY <1>2 DEF ScrollTo
  <2>2. QED
    BY <2>1 DEF NoBlock, BlankFrom, Blank, Remembered, Kept
<1>3. CASE ~(row < fb_rows)
  <2>1. cur_row' = fb_rows - 1 /\ pix' = ScrolledPix /\ screen_buf' = ScrolledBuf
    BY <1>3 DEF ScrollTo
  <2>2. \A r \in Rows, c \in Cols :
          pix'[r][c] = IF r + 1 \in Rows THEN pix[r + 1][c] ELSE Fill(FB_BLACK)
    BY <2>1 DEF ScrolledPix
  <2>3. \A r \in BufRows, c \in Cols :
          screen_buf'[r][c] = IF r + 1 \in BufRows THEN screen_buf[r + 1][c] ELSE NUL
    BY <2>1 DEF ScrolledBuf
  <2>4. NoBlock'
    <3>1. ASSUME NEW r \in Rows, NEW c \in Cols PROVE pix'[r][c] # Fill(theme.fg)
      BY <1>1, <2>2, ThemeFacts DEF NoBlock
    <3>2. QED
      BY <3>1 DEF NoBlock
  <2>5. ASSUME NEW r \in Rows, NEW c \in Cols, r >= fb_rows - 1 PROVE Blank(r, c)'
    <3>1. r + 1 \notin Rows /\ r + 1 \notin BufRows
      BY <2>5, Sizes
    <3>2. pix'[r][c] = Fill(FB_BLACK) /\ (r \in BufRows => screen_buf'[r][c] = NUL)
      BY <2>2, <2>3, <3>1
    <3>3. QED
      BY <1>1, <3>2, ThemeFacts DEF Blank
  <2>6. BlankFrom(cur_row, col)'
    <3>1. fb_rows - 1 \in Nat
      BY Sizes
    <3>2. \A r \in Rows : r > fb_rows - 1 \/ r = fb_rows - 1 => r >= fb_rows - 1
      BY Sizes
    <3>3. QED
      BY <2>1, <2>5, <3>2 DEF BlankFrom
  <2>7. Remembered'
    <3>1. ASSUME fb_rows <= SCREEN_MAX_ROWS, NEW r \in Rows, NEW c \in Cols
          PROVE  pix'[r][c].ch = Kept(r, c)'
      <4>1. BufRows = Rows
        <5>1. \A x \in Rows : x < SCREEN_MAX_ROWS
          BY <3>1, Sizes
        <5>2. QED
          BY <5>1 DEF BufRows
      <4>2. CASE r + 1 \in Rows
        <5>1. pix[r + 1][c].ch = Kept(r + 1, c)
          BY <3>1, <4>2 DEF Remembered
        <5>2. pix'[r][c] = pix[r + 1][c] /\ screen_buf'[r][c] = screen_buf[r + 1][c]
          BY <2>2, <2>3, <4>1, <4>2
        <5>3. QED
          BY <4>1, <4>2, <5>1, <5>2 DEF Kept
      <4>3. CASE r + 1 \notin Rows
        <5>1. pix'[r][c] = Fill(FB_BLACK) /\ screen_buf'[r][c] = NUL
          BY <2>2, <2>3, <4>1, <4>3
        <5>2. QED
          BY <1>1, <5>1, ThemeFacts DEF Kept
      <4>4. QED
        BY <4>2, <4>3
    <3>2. QED
      BY <3>1 DEF Remembered
  <2>8. QED
    BY <2>4, <2>6, <2>7
<1>4. QED
  BY <1>2, <1>3

(* A character is remembered as it is shown, and only in the cursor's row. *)
LEMMA PutClean ==
  ASSUME TermTyped, NoBlock, Remembered, cur_row \in Rows, NEW i \in Nat, NEW c \in Char,
         fb_draw_char(i, c)
  PROVE  /\ NoBlock' /\ Remembered'
         /\ BlankFrom(cur_row + 1, 0) => BlankFrom(cur_row + 1, 0)'
         /\ i = 0 /\ BlankFrom(cur_row, cur_col) => BlankFrom(cur_row, cur_col + 1)'
<1> DEFINE g == Glyph(c, theme.fg, theme.bg)
           col == cur_col + i
<1>1. /\ pix \in Picture /\ screen_buf \in Buffer /\ theme \in FineTheme
      /\ cur_row \in Nat /\ cur_col \in Nat /\ c # NUL
  BY Sizes, TerminalAssumption DEF TermTyped
<1>2. /\ pix' = IF cur_row \in Rows /\ col \in Cols THEN [pix EXCEPT ![cur_row][col] = g] ELSE pix
      /\ screen_buf' = IF cur_row \in BufRows /\ col \in Cols
                       THEN [screen_buf EXCEPT ![cur_row][col] = c] ELSE screen_buf
      /\ UNCHANGED <<cur_row, cur_col, theme>>
  BY Zenon DEF fb_draw_char
<1>3. g # Fill(theme.fg) /\ g.ch = c
  BY <1>1, ThemeFacts
<1> HIDE DEF g
<1>4. \A r \in Rows, x \in Cols :
        pix'[r][x] = IF r = cur_row /\ x = col THEN g ELSE pix[r][x]
  BY <1>1, <1>2 DEF Picture
<1>5. \A r \in BufRows, x \in Cols :
        screen_buf'[r][x] = IF r = cur_row /\ x = col THEN c ELSE screen_buf[r][x]
  BY <1>1, <1>2 DEF Buffer
<1>6. NoBlock'
  <2>1. ASSUME NEW r \in Rows, NEW x \in Cols PROVE pix'[r][x] # Fill(theme.fg)
    BY <1>3, <1>4 DEF NoBlock
  <2>2. QED
    BY <1>2, <2>1 DEF NoBlock
<1>7. ASSUME NEW r \in Rows, NEW x \in Cols, r # cur_row \/ x # col, Blank(r, x) PROVE Blank(r, x)'
  BY <1>4, <1>5, <1>7 DEF Blank
<1>8. ASSUME BlankFrom(cur_row + 1, 0) PROVE BlankFrom(cur_row + 1, 0)'
  <2>1. ASSUME NEW r \in Rows, NEW x \in Cols, r > cur_row + 1 \/ (r = cur_row + 1 /\ x >= 0)
        PROVE  Blank(r, x)'
    <3>1. Blank(r, x)
      BY <1>8, <2>1 DEF BlankFrom
    <3>2. r # cur_row
      BY <1>1, <2>1, Sizes
    <3>3. QED
      BY <1>7, <3>1, <3>2
  <2>2. cur_row' = cur_row
    BY <1>2
  <2>3. QED
    BY <2>1, <2>2 DEF BlankFrom
<1>9. ASSUME i = 0, BlankFrom(cur_row, cur_col) PROVE BlankFrom(cur_row, cur_col + 1)'
  <2>1. ASSUME NEW r \in Rows, NEW x \in Cols, r > cur_row \/ (r = cur_row /\ x >= cur_col + 1)
        PROVE  Blank(r, x)'
    <3>1. x >= cur_col + 1 => x >= cur_col
      BY <1>1, Sizes
    <3>2. Blank(r, x)
      BY <1>9, <2>1, <3>1 DEF BlankFrom
    <3>3. r # cur_row \/ x # col
      BY <1>1, <1>9, <2>1, Sizes
    <3>4. QED
      BY <1>7, <3>2, <3>3
  <2>2. cur_row' = cur_row /\ cur_col' = cur_col
    BY <1>2
  <2>3. QED
    BY <2>1, <2>2 DEF BlankFrom
<1>10. Remembered'
  <2>1. ASSUME fb_rows <= SCREEN_MAX_ROWS, NEW r \in Rows, NEW x \in Cols
        PROVE  pix'[r][x].ch = Kept(r, x)'
    <3>1. pix[r][x].ch = Kept(r, x)
      BY <2>1 DEF Remembered
    <3>2. r \in BufRows
      BY <2>1, Sizes DEF BufRows
    <3>3. CASE r = cur_row /\ x = col
      <4>1. pix'[r][x] = g /\ screen_buf'[r][x] = c
        BY <1>4, <1>5, <3>2, <3>3
      <4>2. Kept(r, x)' = c
        BY <1>1, <3>2, <4>1 DEF Kept
      <4>3. QED
        BY <1>3, <4>1, <4>2
    <3>4. CASE ~(r = cur_row /\ x = col)
      <4>1. pix'[r][x] = pix[r][x] /\ screen_buf'[r][x] = screen_buf[r][x]
        BY <1>4, <1>5, <3>2, <3>4
      <4>2. QED
        BY <3>1, <3>2, <4>1 DEF Kept
    <3>5. QED
      BY <3>3, <3>4
  <2>2. QED
    BY <2>1 DEF Remembered
<1>11. QED
  BY <1>6, <1>8, <1>9, <1>10

LEMMA BackClean ==
  ASSUME TermTyped, InPlace("rest"), CursorAlone, BlankFrom(cur_row, cur_col), Remembered,
         fb_backspace
  PROVE  CursorAlone' /\ BlankFrom(cur_row, cur_col)' /\ Remembered'
<1>1. /\ pix \in Picture /\ screen_buf \in Buffer /\ theme \in FineTheme
      /\ cur_row \in Nat /\ cur_col \in Cols /\ cur_col \in Nat
      /\ cur_row \in 0..fb_rows /\ (cur_row = fb_rows => cur_col = 0)
  BY Sizes DEF TermTyped, InPlace
<1>2. CASE UNCHANGED termVars
  BY <1>2 DEF termVars, CursorAlone, CursorCell, BlankFrom, Blank, Remembered, Kept
<1>3. CASE cur_col > 0 /\ ~UNCHANGED termVars
  <2> DEFINE col == cur_col - 1
             q == FillCursor(pix, cur_row, cur_col, theme.bg)
  <2>1. /\ cur_col' = col /\ cur_row' = cur_row /\ theme' = theme
        /\ pix' = FillCursor(q, cur_row, col, theme.fg)
        /\ screen_buf' = IF cur_row \in BufRows
                         THEN [screen_buf EXCEPT ![cur_row][col] = NUL] ELSE screen_buf
    BY <1>3 DEF fb_backspace
  <2>2. col \in Cols /\ cur_row \in Rows /\ col \in Nat /\ cur_col = col + 1
    BY <1>1, <1>3, Sizes
  <2>3. theme.fg \in Color /\ theme.bg \in Color /\ Fill(theme.bg) # Fill(theme.fg)
        /\ Fill(theme.bg).ch = Space /\ Fill(theme.fg).ch = Space
    BY <1>1, ThemeFacts
  <2>4. q \in Picture
    BY <1>1, <2>3, FillTyped
  <2>5. \A r \in Rows, x \in Cols :
          q[r][x] = IF r = cur_row /\ x = cur_col THEN Fill(theme.bg) ELSE pix[r][x]
    BY <1>1, Filled
  <2> HIDE DEF q
  <2>6. \A r \in Rows, x \in Cols :
          pix'[r][x] = IF r = cur_row /\ x = col THEN Fill(theme.fg) ELSE q[r][x]
    BY <2>1, <2>4, Filled
  <2>7. \A r \in BufRows, x \in Cols :
          screen_buf'[r][x] = IF r = cur_row /\ x = col THEN NUL ELSE screen_buf[r][x]
    BY <1>1, <2>1, <2>2 DEF Buffer
  <2> HIDE DEF col
  <2>8. \A r \in Rows, x \in Cols : pix[r][x] = Fill(theme.fg) => r = cur_row /\ x = cur_col
    BY DEF CursorAlone, CursorCell
  <2>9. CursorAlone'
    <3>1. ASSUME NEW r \in Rows, NEW x \in Cols, pix'[r][x] = Fill(theme.fg)
          PROVE  r = cur_row /\ x = col
      BY <2>3, <2>5, <2>6, <2>8, <3>1
    <3>2. QED
      BY <2>1, <3>1 DEF CursorAlone, CursorCell
  <2>10. \A r \in Rows, x \in Cols : Blank(r, x) => Blank(r, x)'
    <3>1. ASSUME NEW r \in Rows, NEW x \in Cols, Blank(r, x) PROVE Blank(r, x)'
      BY <2>3, <2>5, <2>6, <2>7, <3>1 DEF Blank
    <3>2. QED
      BY <3>1
  <2>11. \A r \in Rows, x \in Cols : r = cur_row /\ x = col => Blank(r, x)'
    BY <2>3, <2>6, <2>7 DEF Blank
  <2>12. BlankFrom(cur_row, cur_col)'
    <3>1. ASSUME NEW r \in Rows, NEW x \in Cols, r > cur_row \/ (r = cur_row /\ x >= col)
          PROVE  Blank(r, x)'
      <4>1. r > cur_row \/ (r = cur_row /\ x >= cur_col) \/ (r = cur_row /\ x = col)
        BY <1>1, <2>2, <3>1, Sizes
      <4>2. r > cur_row \/ (r = cur_row /\ x >= cur_col) => Blank(r, x)
        BY DEF BlankFrom
      <4>3. QED
        BY <2>10, <2>11, <4>1, <4>2
    <3>2. QED
      BY <2>1, <3>1 DEF BlankFrom
  <2>13. Remembered'
    <3>1. ASSUME fb_rows <= SCREEN_MAX_ROWS, NEW r \in Rows, NEW x \in Cols
          PROVE  pix'[r][x].ch = Kept(r, x)'
      <4>1. pix[r][x].ch = Kept(r, x)
        BY <3>1 DEF Remembered
      <4>2. CASE Blank(r, x)'
        BY <4>2 DEF Blank, Kept
      <4>3. CASE ~Blank(r, x)'
        <5>1. ~(r = cur_row /\ x = col) /\ ~Blank(r, x)
          BY <2>10, <2>11, <4>3
        <5>2. ~(r = cur_row /\ x = cur_col)
          BY <1>1, <5>1 DEF BlankFrom
        <5>3. pix'[r][x] = pix[r][x] /\ (r \in BufRows => screen_buf'[r][x] = screen_buf[r][x])
          BY <2>5, <2>6, <2>7, <5>1, <5>2
        <5>4. QED
          BY <4>1, <5>3 DEF Kept
      <4>4. QED
        BY <4>2, <4>3
    <3>2. QED
      BY <3>1 DEF Remembered
  <2>14. QED
    BY <2>9, <2>12, <2>13
<1>4. cur_col > 0 \/ UNCHANGED termVars
  BY DEF fb_backspace
<1>5. QED
  BY <1>2, <1>3, <1>4

LEMMA ThemeClean ==
  ASSUME TermTyped, CursorAlone, BlankFrom(cur_row, cur_col), Remembered,
         NEW t \in FineTheme, fb_update_theme(t)
  PROVE  CursorAlone' /\ BlankFrom(cur_row, cur_col)' /\ Remembered'
<1>1. /\ screen_buf \in Buffer /\ cur_row \in Nat /\ cur_col \in Nat
  BY Sizes DEF TermTyped
<1>2. /\ theme' = t /\ screen_buf' = screen_buf /\ cur_row' = cur_row /\ cur_col' = cur_col
      /\ pix' = FillCursor(Redrawn(t.fg, t.bg), cur_row, cur_col, t.fg)
  BY DEF fb_update_theme
<1>3. /\ t.fg \in Color /\ t.bg \in Color /\ Fill(t.bg) # Fill(t.fg)
      /\ Fill(t.bg).ch = Space /\ Fill(t.fg).ch = Space
      /\ \A c \in Char : Glyph(c, t.fg, t.bg) # Fill(t.fg) /\ Glyph(c, t.fg, t.bg).ch = c
  BY ThemeFacts
<1> DEFINE q == Redrawn(t.fg, t.bg)
           cell(r, c) == IF r \in BufRows /\ screen_buf[r][c] # NUL
                         THEN Glyph(screen_buf[r][c], t.fg, t.bg) ELSE Fill(t.bg)
<1>4. q = [r \in Rows |-> [c \in Cols |-> cell(r, c)]]
  BY Zenon DEF Redrawn
<1>5. ASSUME NEW r \in Rows, NEW c \in Cols
      PROVE  cell(r, c) \in Image /\ cell(r, c) # Fill(t.fg) /\ cell(r, c).ch = Kept(r, c)
  <2>1. CASE r \in BufRows /\ screen_buf[r][c] # NUL
    <3>1. screen_buf[r][c] \in Char
      BY <1>1, <2>1 DEF Buffer
    <3>2. cell(r, c) = Glyph(screen_buf[r][c], t.fg, t.bg) /\ Kept(r, c) = screen_buf[r][c]
      BY <2>1 DEF Kept
    <3> HIDE DEF cell
    <3>3. QED
      BY <1>3, <3>1, <3>2, ImageTyped
  <2>2. CASE ~(r \in BufRows /\ screen_buf[r][c] # NUL)
    <3>1. cell(r, c) = Fill(t.bg) /\ Kept(r, c) = Space
      BY <2>2 DEF Kept
    <3> HIDE DEF cell
    <3>2. QED
      BY <1>3, <3>1, ImageTyped
  <2>3. QED
    BY <2>1, <2>2
<1> HIDE DEF cell, q
<1>6. q \in Picture /\ \A r \in Rows, c \in Cols : q[r][c] = cell(r, c)
  BY <1>4, <1>5 DEF Picture
<1>7. \A r \in Rows, c \in Cols :
        pix'[r][c] = IF r = cur_row /\ c = cur_col THEN Fill(t.fg) ELSE cell(r, c)
  <2>1. pix' = FillCursor(q, cur_row, cur_col, t.fg)
    BY <1>2 DEF q
  <2>2. \A r \in Rows, c \in Cols :
          pix'[r][c] = IF r = cur_row /\ c = cur_col THEN Fill(t.fg) ELSE q[r][c]
    BY <1>6, <2>1, Filled
  <2>3. QED
    BY <1>6, <2>2
<1>8. CursorAlone'
  <2>1. ASSUME NEW r \in Rows, NEW c \in Cols, pix'[r][c] = Fill(t.fg)
        PROVE  r = cur_row /\ c = cur_col
    BY <1>5, <1>7, <2>1
  <2>2. QED
    BY <1>2, <2>1 DEF CursorAlone, CursorCell
<1>9. ASSUME NEW r \in Rows, NEW c \in Cols, Blank(r, c) PROVE Blank(r, c)'
  <2>1. Kept(r, c) = Space
    BY <1>9 DEF Blank, Kept
  <2>2. pix'[r][c].ch = Space
    BY <1>3, <1>5, <1>7, <2>1
  <2>3. QED
    BY <1>2, <1>9, <2>2 DEF Blank
<1>10. BlankFrom(cur_row, cur_col)'
  BY <1>2, <1>9 DEF BlankFrom
<1>11. Remembered'
  <2>1. ASSUME NEW r \in Rows, NEW c \in Cols PROVE pix'[r][c].ch = Kept(r, c)
    <3>1. CASE r = cur_row /\ c = cur_col
      <4>1. Blank(r, c)
        BY <1>1, <3>1 DEF BlankFrom
      <4>2. Kept(r, c) = Space
        BY <4>1 DEF Blank, Kept
      <4>3. QED
        BY <1>3, <1>7, <3>1, <4>2
    <3>2. CASE ~(r = cur_row /\ c = cur_col)
      BY <1>5, <1>7, <3>2
    <3>3. QED
      BY <3>1, <3>2
  <2>2. \A r \in Rows, c \in Cols : Kept(r, c)' = Kept(r, c)
    BY <1>2 DEF Kept
  <2>3. QED
    BY <2>1, <2>2 DEF Remembered
<1>12. QED
  BY <1>8, <1>10, <1>11

(* The whole screen in one colour.                                         *)
LEMMA UniformClean ==
  ASSUME TermTyped', NEW k \in Color, k # theme.fg,
         pix' = [r \in Rows |-> [c \in Cols |-> Fill(k)]], screen_buf' = NoText, theme' = theme
  PROVE  NoBlock' /\ BlankFrom(cur_row, cur_col)' /\ Remembered'
<1>1. Fill(k).ch = Space
  BY Images
<1>2. \A r \in Rows, c \in Cols : pix'[r][c] = Fill(k)
  OBVIOUS
<1>3. \A r \in BufRows, c \in Cols : screen_buf'[r][c] = NUL
  BY DEF NoText
<1>4. theme.fg \in Color
  BY DEF TermTyped, FineTheme
<1>5. Fill(k) # Fill(theme.fg)
  BY <1>4, Images
<1>6. NoBlock'
  BY <1>2, <1>5 DEF NoBlock
<1>7. \A r \in Rows, c \in Cols : Blank(r, c)' /\ pix'[r][c].ch = Kept(r, c)'
  BY <1>1, <1>2, <1>3 DEF Blank, Kept
<1>8. BlankFrom(cur_row, cur_col)' /\ Remembered'
  BY <1>7 DEF BlankFrom, Remembered
<1>9. QED
  BY <1>6, <1>8

LEMMA DoClean ==
  ASSUME TermTyped, NEW a, NEW o, NEW b, <<a, o, b>> \in Calm, InPlace(a), Do(o),
         Clean(a), Remembered
  PROVE  Clean(b)' /\ Remembered'
<1>1. /\ a \in Phase /\ o \in Operation /\ b \in Phase /\ Turns(a, o, b)
      /\ theme \in FineTheme /\ cur_row \in 0..fb_rows /\ cur_row \in Nat /\ cur_col \in Nat
      /\ cur_row = fb_rows => cur_col = 0
      /\ a \in {"ready", "ink", "row"} => cur_row \in Rows
  BY CalmTurns, Sizes DEF TermTyped, InPlace
<1>2. TermTyped' /\ InPlace(b)'
  BY DoPlaced
<1>3. ASSUME o.op = "erase" /\ fb_erase_cursor PROVE Clean(b)' /\ Remembered'
  <2>1. a = "rest" /\ b = "open"
    BY <1>1, <1>3 DEF Turns
  <2>2. CursorAlone /\ BlankFrom(cur_row, cur_col)
    BY <2>1 DEF Clean
  <2>3. PICK k : k = theme.bg
    OBVIOUS
  <2>4. pix' = FillCursor(pix, cur_row, cur_col, k)
        /\ UNCHANGED <<screen_buf, cur_row, cur_col, theme>>
    BY <1>3, <2>3 DEF fb_erase_cursor
  <2>5. NoBlock' /\ BlankFrom(cur_row, cur_col)' /\ Remembered'
    BY <2>2, <2>3, <2>4, BlockClean
  <2>6. QED
    BY <2>1, <2>5 DEF Clean
<1>4. ASSUME o.op = "draw" /\ fb_draw_cursor PROVE Clean(b)' /\ Remembered'
  <2>1. a \in {"open", "fresh", "rest"} /\ b = "rest"
    BY <1>1, <1>4 DEF Turns
  <2>2. CursorAlone /\ BlankFrom(cur_row, cur_col)
    BY <2>1, NoBlockAlone, BlankFewer DEF Clean
  <2>3. PICK k : k = theme.fg
    OBVIOUS
  <2>4. pix' = FillCursor(pix, cur_row, cur_col, k)
        /\ UNCHANGED <<screen_buf, cur_row, cur_col, theme>>
    BY <1>4, <2>3 DEF fb_draw_cursor
  <2>5. CursorAlone' /\ BlankFrom(cur_row, cur_col)' /\ Remembered'
    BY <2>2, <2>3, <2>4, BlockClean
  <2>6. QED
    BY <2>1, <2>5 DEF Clean
<1>5. ASSUME o.op = "room" /\ MakeRoom PROVE Clean(b)' /\ Remembered'
  <2>1. a = "open" /\ b = "ready"
    BY <1>1, <1>5 DEF Turns
  <2>2. NoBlock /\ BlankFrom(cur_row, cur_col)
    BY <2>1 DEF Clean
  <2>3. PICK row, col : row = cur_row /\ col = cur_col
    OBVIOUS
  <2>4. row \in 0..(fb_rows + 1) /\ col \in Nat
    BY <1>1, <2>3, Sizes
  <2>5. ScrollTo(row) /\ theme' = theme /\ cur_col' = col /\ BlankFrom(row, col)
    BY <1>5, <2>2, <2>3 DEF MakeRoom
  <2>6. NoBlock' /\ BlankFrom(cur_row, col)' /\ Remembered'
    BY <2>2, <2>4, <2>5, ScrollClean
  <2>7. BlankFrom(cur_row, cur_col)'
    BY <2>5, <2>6
  <2>8. QED
    BY <2>1, <2>6, <2>7 DEF Clean
<1>6. ASSUME o.op = "put" /\ fb_draw_char(o.at, o.ch) PROVE Clean(b)' /\ Remembered'
  <2>1. PICK i \in Nat, c \in Char : i = o.at /\ c = o.ch
    BY <1>1, <1>6, PutTyped
  <2>2. cur_row \in Rows /\ NoBlock /\ fb_draw_char(i, c)
    BY <1>1, <1>6, <2>1 DEF Turns, Clean
  <2>3. /\ NoBlock' /\ Remembered'
        /\ BlankFrom(cur_row + 1, 0) => BlankFrom(cur_row + 1, 0)'
        /\ i = 0 /\ BlankFrom(cur_row, cur_col) => BlankFrom(cur_row, cur_col + 1)'
    BY <2>2, PutClean
  <2>4. CASE b = "ink"
    <3>1. a = "ready" /\ i = 0
      BY <1>1, <1>6, <2>1, <2>4 DEF Turns
    <3>2. BlankFrom(cur_row, cur_col)
      BY <3>1 DEF Clean
    <3>3. QED
      BY <2>3, <2>4, <3>1, <3>2 DEF Clean
  <2>5. CASE b = "row"
    <3>1. a \in {"ready", "row"}
      BY <1>1, <1>6, <2>5 DEF Turns
    <3>2. BlankFrom(cur_row + 1, 0)
      BY <3>1, BlankFewer DEF Clean
    <3>3. QED
      BY <2>3, <2>5, <3>2 DEF Clean
  <2>6. QED
    BY <1>1, <1>6, <2>4, <2>5 DEF Turns
<1>7. ASSUME o.op = "advance" /\ Advance PROVE Clean(b)' /\ Remembered'
  <2>1. a = "ink" /\ b = "open"
    BY <1>1, <1>7 DEF Turns
  <2>2. NoBlock /\ BlankFrom(cur_row, cur_col + 1)
    BY <2>1 DEF Clean
  <2>3. /\ pix' = pix /\ screen_buf' = screen_buf /\ theme' = theme
        /\ \/ cur_col' = cur_col + 1 /\ cur_row' = cur_row
           \/ cur_col' = 0 /\ cur_row' = cur_row + 1
    BY <1>7 DEF Advance
  <2>4. BlankFrom(cur_row + 1, 0)
    BY <2>2, BlankFewer
  <2>5. \A r \in Rows, c \in Cols : Blank(r, c)' = Blank(r, c)
    BY <2>3 DEF Blank
  <2>6. NoBlock' /\ Remembered'
    BY <2>2, <2>3 DEF NoBlock, Remembered, Kept
  <2>7. BlankFrom(cur_row, cur_col)'
    BY <2>2, <2>3, <2>4, <2>5 DEF BlankFrom
  <2>8. QED
    BY <2>1, <2>6, <2>7 DEF Clean
<1>8. ASSUME o.op = "home" /\ Home PROVE Clean(b)' /\ Remembered'
  <2>1. (a \in {"ready", "row"} /\ b = "row") \/ (a = "fresh" /\ b = "rest")
    BY <1>1, <1>8 DEF Turns
  <2>2. /\ pix' = pix /\ screen_buf' = screen_buf /\ theme' = theme
        /\ cur_col' = 0 /\ cur_row' = cur_row
    BY <1>8 DEF Home
  <2>3. \A r \in Rows, c \in Cols : Blank(r, c)' = Blank(r, c)
    BY <2>2 DEF Blank
  <2>4. NoBlock
    BY <2>1 DEF Clean
  <2>5. NoBlock' /\ Remembered'
    BY <2>2, <2>4 DEF NoBlock, Remembered, Kept
  <2>6. CASE a \in {"ready", "row"} /\ b = "row"
    <3>1. BlankFrom(cur_row + 1, 0)
      BY <2>6, BlankFewer DEF Clean
    <3>2. BlankFrom(cur_row + 1, 0)'
      BY <2>2, <2>3, <3>1 DEF BlankFrom
    <3>3. QED
      BY <2>5, <2>6, <3>2 DEF Clean
  <2>7. CASE a = "fresh" /\ b = "rest"
    <3>1. BlankFrom(cur_row, 0)
      BY <2>7 DEF Clean
    <3>2. BlankFrom(cur_row, cur_col)'
      BY <2>2, <2>3, <3>1 DEF BlankFrom
    <3>3. CursorAlone'
      BY <2>5 DEF NoBlock, CursorAlone
    <3>4. QED
      BY <2>5, <2>7, <3>2, <3>3 DEF Clean
  <2>8. QED
    BY <2>1, <2>6, <2>7
<1>9. ASSUME o.op = "down" /\ Down PROVE Clean(b)' /\ Remembered'
  <2>1. a \in {"open", "row"} /\ b = "fresh"
    BY <1>1, <1>9 DEF Turns
  <2>2. NoBlock /\ BlankFrom(cur_row + 1, 0)
    BY <2>1, BlankFewer DEF Clean
  <2>3. PICK row : row = cur_row + 1
    OBVIOUS
  <2>4. row \in 0..(fb_rows + 1) /\ 0 \in Nat
    BY <1>1, <2>3, Sizes
  <2>5. ScrollTo(row) /\ theme' = theme /\ BlankFrom(row, 0)
    BY <1>9, <2>2, <2>3 DEF Down
  <2>6. NoBlock' /\ BlankFrom(cur_row, 0)' /\ Remembered'
    BY <2>2, <2>4, <2>5, ScrollClean
  <2>7. QED
    BY <2>1, <2>6 DEF Clean
<1>10. ASSUME o.op = "back" /\ fb_backspace PROVE Clean(b)' /\ Remembered'
  <2>1. a = "rest" /\ b = "rest"
    BY <1>1, <1>10 DEF Turns
  <2>2. CursorAlone /\ BlankFrom(cur_row, cur_col)
    BY <2>1 DEF Clean
  <2>3. CursorAlone' /\ BlankFrom(cur_row, cur_col)' /\ Remembered'
    BY <1>10, <2>1, <2>2, BackClean
  <2>4. QED
    BY <2>1, <2>3 DEF Clean
<1>11. ASSUME o.op = "black" /\ fb_clear(FB_BLACK) PROVE Clean(b)' /\ Remembered'
  <2>1. a = "blank" /\ b = "rest"
    BY <1>1, <1>11 DEF Turns
  <2>2. screen_buf = NoText
    BY <2>1 DEF Clean
  <2>3. pix' = [r \in Rows |-> [c \in Cols |-> Fill(FB_BLACK)]] /\ screen_buf' = NoText /\ theme' = theme
    BY <1>11, <2>2 DEF fb_clear
  <2>4. FB_BLACK \in Color /\ FB_BLACK # theme.fg
    BY <1>1, ThemeFacts
  <2>5. NoBlock' /\ BlankFrom(cur_row, cur_col)' /\ Remembered'
    BY <1>2, <2>3, <2>4, UniformClean
  <2>6. CursorAlone'
    BY <2>5 DEF NoBlock, CursorAlone
  <2>7. QED
    BY <2>1, <2>5, <2>6 DEF Clean
<1>12. ASSUME o.op = "clear" /\ fb_clear_screen PROVE Clean(b)' /\ Remembered'
  <2>1. b = "rest"
    BY <1>1, <1>12 DEF Turns
  <2>2. PICK k : k = theme.bg
    OBVIOUS
  <2>3. pix' = [r \in Rows |-> [c \in Cols |-> Fill(k)]] /\ screen_buf' = NoText /\ theme' = theme
    BY <1>12, <2>2 DEF fb_clear_screen
  <2>4. k \in Color /\ k # theme.fg
    BY <1>1, <2>2, ThemeFacts
  <2>5. NoBlock' /\ BlankFrom(cur_row, cur_col)' /\ Remembered'
    BY <1>2, <2>3, <2>4, UniformClean
  <2>6. CursorAlone'
    BY <2>5 DEF NoBlock, CursorAlone
  <2>7. QED
    BY <2>1, <2>5, <2>6 DEF Clean
<1>13. ASSUME o.op = "theme" /\ fb_update_theme(o.theme) PROVE Clean(b)' /\ Remembered'
  <2>1. a = "rest" /\ b = "rest"
    BY <1>1, <1>13 DEF Turns
  <2>2. CursorAlone /\ BlankFrom(cur_row, cur_col)
    BY <2>1 DEF Clean
  <2>3. PICK t \in FineTheme : t = o.theme
    BY <1>1, <1>13, ThemeTyped
  <2>4. fb_update_theme(t)
    BY <1>13, <2>3
  <2>5. CursorAlone' /\ BlankFrom(cur_row, cur_col)' /\ Remembered'
    BY <2>2, <2>4, ThemeClean
  <2>6. QED
    BY <2>1, <2>5 DEF Clean
<1>14. QED
  BY <1>3, <1>4, <1>5, <1>6, <1>7, <1>8, <1>9, <1>10, <1>11, <1>12, <1>13 DEF Do

PicInv ==
  /\ TermTyped /\ KeysTyped /\ Remembered
  /\ \E m \in Phase : Underway(m) /\ Clean(m)

LEMMA StartClean ==
  ASSUME TermInit
  PROVE  Clean("blank") /\ Remembered
<1>1. pix = Black /\ screen_buf = NoText
  BY DEF TermInit
<1>2. \A r \in Rows, c \in Cols : pix[r][c].ch = Space
  BY <1>1, Images, ImageTyped DEF Black
<1>3. \A r \in BufRows, c \in Cols : screen_buf[r][c] = NUL
  BY <1>1 DEF NoText
<1>4. Remembered
  BY <1>2, <1>3 DEF Remembered, Kept
<1>5. QED
  BY <1>1, <1>4 DEF Clean

LEMMA PicInit == ConsoleInit => PicInv
<1> SUFFICES ASSUME ConsoleInit PROVE PicInv
  OBVIOUS
<1>1. ConInv
  BY ConInit
<1>2. Clean("blank") /\ Remembered /\ InPlace("blank") /\ TermTyped
  BY StartClean, StartTyped DEF ConsoleInit
<1>3. PICK identified \in BOOLEAN : todo = kernel_main(identified)
  BY DEF ConsoleInit
<1>4. Underway("blank") /\ "blank" \in Phase
  BY <1>2, <1>3, CalmMain DEF Underway, Phase
<1>5. QED
  BY <1>1, <1>2, <1>4 DEF PicInv, ConInv

LEMMA PicStep == PicInv /\ [QuietNext]_conVars => PicInv'
<1> SUFFICES ASSUME PicInv, [QuietNext]_conVars PROVE PicInv'
  OBVIOUS
<1>1. TermTyped /\ KeysTyped /\ Remembered
  BY DEF PicInv
<1>2. PICK m \in Phase : Leads(Calm, todo, m, "rest") /\ InPlace(m) /\ Clean(m)
  BY DEF PicInv, Underway
<1>3. ASSUME Continue PROVE PicInv'
  <2>1. ASSUME Reset PROVE PicInv'
    <3>1. TermTyped' /\ InPlace("blank")' /\ KeysTyped' /\ pix' = Black /\ screen_buf' = NoText
      BY <2>1, ResetStep DEF Reset
    <3>2. PICK identified \in BOOLEAN : todo' = kernel_main(identified)
      BY <2>1, ResetStep
    <3>3. Leads(Calm, todo', "blank", "rest") /\ "blank" \in Phase
      BY <3>2, CalmMain DEF Phase
    <3>4. Clean("blank")' /\ Remembered'
      <4>1. \A r \in Rows, c \in Cols : pix'[r][c].ch = Space
        BY <3>1, Images, ImageTyped DEF Black
      <4>2. \A r \in BufRows, c \in Cols : screen_buf'[r][c] = NUL
        BY <3>1 DEF NoText
      <4>3. Remembered'
        BY <4>1, <4>2 DEF Remembered, Kept
      <4>4. QED
        BY <3>1, <4>3 DEF Clean
    <3>5. QED
      BY <3>1, <3>3, <3>4 DEF PicInv, Underway
  <2>2. ASSUME NEW b \in Phase, Proceeds(m, b) PROVE PicInv'
    <3>1. TermTyped' /\ KeysTyped' /\ Underway(b)'
      BY <1>1, <1>2, <2>2, ProceedsTyped
    <3>2. Clean(b)' /\ Remembered'
      <4>1. CASE Do(Head(todo))
        <5>1. PICK o : o = Head(todo)
          OBVIOUS
        <5>2. <<m, o, b>> \in Calm /\ Do(o)
          BY <2>2, <4>1, <5>1 DEF Proceeds
        <5>3. QED
          BY <1>1, <1>2, <5>2, DoClean
      <4>2. CASE UNCHANGED termVars /\ m = "rest" /\ b = "rest"
        BY <1>1, <1>2, <4>2
           DEF Clean, termVars, CursorAlone, CursorCell, BlankFrom, Blank, Remembered, Kept
      <4>3. QED
        BY <2>2, <4>1, <4>2 DEF Proceeds
    <3>3. QED
      BY <3>1, <3>2 DEF PicInv
  <2>3. QED
    BY <1>2, <1>3, <2>1, <2>2, ContinueStep
<1>4. ASSUME todo = <<>>, timer_handler PROVE PicInv'
  <2>1. /\ TermTyped'
        /\ UNCHANGED <<screen_buf, cur_row, cur_col, theme, todo, in_handler, unmasked, keyVars>>
    BY <1>1, <1>4, TickTyped
  <2>2. KeysTyped' /\ Leads(Calm, todo', m, "rest") /\ InPlace(m)'
    BY <1>1, <1>2, <2>1 DEF KeysTyped, InPlace, keyVars
  <2>3. m = "rest"
    BY <1>2, <1>4, LeadsStays
  <2>4. CursorAlone /\ BlankFrom(cur_row, cur_col)
    BY <1>2, <2>3 DEF Clean
  <2>5. PICK k : k \in {theme.fg, theme.bg} /\ pix' = FillCursor(pix, cur_row, cur_col, k)
    BY <1>4 DEF timer_handler, fb_draw_cursor, fb_erase_cursor
  <2>6. CursorAlone' /\ BlankFrom(cur_row, cur_col)' /\ Remembered'
    BY <1>1, <2>1, <2>4, <2>5, BlockClean
  <2>7. QED
    BY <1>2, <2>1, <2>2, <2>3, <2>6 DEF PicInv, Underway, Clean
<1>5. ASSUME NEW code \in Keys, keyboard_handler(code) PROVE PicInv'
  <2>1. KeysTyped' /\ Leads(Calm, todo', "rest", "rest") /\ UNCHANGED termVars /\ todo = <<>>
    BY <1>1, <1>5, KeyStep
  <2>2. m = "rest"
    BY <1>2, <2>1, LeadsStays
  <2>3. TermTyped' /\ InPlace("rest")'
    BY <1>1, <1>2, <2>1, <2>2 DEF TermTyped, InPlace, termVars
  <2>4. Clean("rest")' /\ Remembered'
    BY <1>1, <1>2, <2>1, <2>2
       DEF Clean, termVars, CursorAlone, CursorCell, BlankFrom, Blank, Remembered, Kept
  <2>5. QED
    BY <1>2, <2>1, <2>2, <2>3, <2>4 DEF PicInv, Underway
<1>6. ASSUME UNCHANGED conVars PROVE PicInv'
  <2>1. TermTyped' /\ KeysTyped' /\ Leads(Calm, todo', m, "rest") /\ InPlace(m)'
    BY <1>1, <1>2, <1>6 DEF TermTyped, KeysTyped, InPlace, conVars, termVars, keyVars
  <2>2. Clean(m)' /\ Remembered'
    BY <1>1, <1>2, <1>6
       DEF Clean, conVars, termVars, CursorAlone, CursorCell, NoBlock, BlankFrom, Blank, Remembered, Kept
  <2>3. QED
    BY <2>1, <2>2 DEF PicInv, Underway
<1>7. QED
  BY <1>3, <1>4, <1>5, <1>6 DEF QuietNext

LEMMA PicInvariant == QuietSpec => []PicInv
BY PicInit, PicStep, PTL DEF QuietSpec

LEMMA AtRestClean ==
  ASSUME PicInv, AtRest
  PROVE  CursorAlone /\ BlankFrom(cur_row, cur_col) /\ Remembered
<1>1. PICK m \in Phase : Leads(Calm, todo, m, "rest") /\ Clean(m)
  BY DEF PicInv, Underway
<1>2. m = "rest"
  BY <1>1, LeadsStays DEF AtRest
<1>3. QED
  BY <1>1, <1>2 DEF Clean, PicInv

(* On a screen of no more rows than screen_buf has, whatever was typed,    *)
(* printed, edited, scrolled, cleared and redrawn in another theme, there  *)
(* is one cursor block, at the cursor, and the screen shows what           *)
(* screen_buf remembers (fb.c:68-86, 114, 127-133, 198-206).               *)
THEOREM ScreenStaysConsistent ==
  fb_rows <= SCREEN_MAX_ROWS => (QuietSpec => []ScreenConsistent)
<1> SUFFICES ASSUME fb_rows <= SCREEN_MAX_ROWS PROVE QuietSpec => []ScreenConsistent
  OBVIOUS
<1>1. PicInv => ScreenConsistent
  <2> SUFFICES ASSUME PicInv PROVE ScreenConsistent
    OBVIOUS
  <2>1. AtRest => CursorAlone /\ Remembered
    BY AtRestClean
  <2>2. Remembered => ScreenIsBuffer
    BY DEF Remembered, Kept, ScreenIsBuffer
  <2>3. QED
    BY <2>1, <2>2 DEF ScreenConsistent, OneCursor, RedrawKeepsText
<1>2. QED
  BY <1>1, PicInvariant, PTL

(* On every screen, however few rows screen_buf has, one cursor block.     *)
THEOREM OneCursorStays == QuietSpec => []OneCursor
<1>1. PicInv => OneCursor
  BY AtRestClean DEF OneCursor
<1>2. QED
  BY <1>1, PicInvariant, PTL

(* On every screen output goes to blank cells: nothing is shown and        *)
(* nothing remembered from the cursor on (fb.c:118-136, 187).              *)
THEOREM NothingIsAhead == QuietSpec => []NothingAhead
<1>1. PicInv => NothingAhead
  <2> SUFFICES ASSUME PicInv PROVE NothingAhead
    OBVIOUS
  <2>1. AtRest => BlankFrom(cur_row, cur_col)
    BY AtRestClean
  <2>2. BlankFrom(cur_row, cur_col) => BlankAhead
    BY DEF BlankFrom, Blank, BlankAhead
  <2>3. QED
    BY <2>1, <2>2 DEF NothingAhead
<1>2. QED
  BY <1>1, PicInvariant, PTL

------------------------------------------------------------------------------
(* The line.  A trail says what is known of the cursor's row: the cursor   *)
(* stands in column col, and the first cells show the first characters of  *)
(* txt, as many as are seen.  A trail whose column is none of the screen's *)
(* says nothing.                                                           *)

Trail == [txt : Seq(Char), seen : Nat, col : Nat]

At(u, n) == [txt |-> u, seen |-> n, col |-> n]
Lost     == At(<<>>, fb_cols)
Shown(l) == At(Prompt \o l, Len(Prompt \o l))

Shows(t) ==
  t.col < fb_cols =>
    /\ cur_col = t.col
    /\ t.seen > 0 => cur_row \in Rows
    /\ \A i \in 1..t.seen : pix[cur_row][i - 1].ch = t.txt[i]

Tracks(a, o, b) ==
  \/ b = Lost
  \/ o.op \in {"home", "clear"} /\ b.seen = 0 /\ b.col = 0
  \/ o.op \in {"erase", "draw"} /\ b = a /\ a.seen = a.col
  \/ o.op \in {"room", "unmask"} /\ b = a
  \/ o.op \in {"black", "theme", "down"} /\ b = a /\ a.seen = 0
  \/ /\ o.op = "put" /\ o.at = 0 /\ a.seen = a.col /\ o.ch = a.txt[a.seen + 1]
     /\ b.txt = a.txt /\ b.seen = a.seen + 1 /\ b.col = a.col
  \/ /\ o.op = "advance" /\ a.col + 1 < fb_cols
     /\ b.txt = a.txt /\ b.seen = a.seen /\ b.col = a.col + 1
  \/ /\ o.op = "back" /\ a.seen = a.col /\ a.col < fb_cols
     /\ b.seen + 1 = a.seen /\ b.col + 1 = a.col /\ \A i \in 1..b.seen : b.txt[i] = a.txt[i]
  \/ o.op = "reset"

Track == {x \in Trail \X Operation \X Trail : Tracks(x[1], x[2], x[3])}

LEMMA TrackIs ==
  \A a, b \in Trail, o \in Operation : <<a, o, b>> \in Track <=> Tracks(a, o, b)
BY DEF Track

LEMMA TrackTracks ==
  ASSUME NEW a, NEW o, NEW b, <<a, o, b>> \in Track
  PROVE  a \in Trail /\ o \in Operation /\ b \in Trail /\ Tracks(a, o, b)
BY DEF Track

LEMMA TrailOf ==
  /\ \A u \in Seq(Char), n \in Nat :
       /\ At(u, n) \in Trail
       /\ At(u, n).txt = u /\ At(u, n).seen = n /\ At(u, n).col = n
  /\ Lost \in Trail /\ ~(Lost.col < fb_cols)
<1>1. \A u \in Seq(Char), n \in Nat :
       /\ At(u, n) \in Trail
       /\ At(u, n).txt = u /\ At(u, n).seen = n /\ At(u, n).col = n
  BY DEF At, Trail
<1>2. <<>> \in Seq(Char) /\ fb_cols \in Nat
  BY TextTyped, Sizes
<1>3. Lost \in Trail /\ Lost.col = fb_cols
  BY <1>1, <1>2, Zenon DEF Lost
<1>4. ~(fb_cols < fb_cols)
  BY <1>2
<1>5. QED
  BY <1>1, <1>3, <1>4, Zenon

LEMMA TrackOne ==
  ASSUME NEW a \in Trail, NEW b \in Trail, NEW o \in Operation, Tracks(a, o, b)
  PROVE  Leads(Track, <<o>>, a, b)
BY TrackIs, LeadsOne

(* What one operation does to the cursor's row.                            *)
LEMMA DoShows ==
  ASSUME TermTyped, NEW m, NEW n, NEW o, <<m, o, n>> \in Calm, InPlace(m), Do(o),
         NEW a, NEW b, <<a, o, b>> \in Track, Shows(a)
  PROVE  Shows(b)'
<1>1. /\ a \in Trail /\ b \in Trail /\ o \in Operation /\ Tracks(a, o, b) /\ Turns(m, o, n)
      /\ a.seen \in Nat /\ a.col \in Nat /\ b.seen \in Nat /\ b.col \in Nat
  BY TrackTracks, CalmTurns DEF Trail
<1>2. /\ pix \in Picture /\ theme \in FineTheme /\ theme.fg \in Color /\ theme.bg \in Color
      /\ cur_row \in 0..fb_rows /\ cur_col \in Cols /\ cur_col \in Nat
      /\ fb_rows \in Nat /\ fb_cols \in Nat /\ fb_cols >= 1
      /\ m \in {"ready", "ink", "row"} => cur_row \in Rows
  BY Sizes DEF TermTyped, InPlace, FineTheme
<1>3. CASE b = Lost
  BY <1>3, TrailOf DEF Shows
<1>4. CASE o.op \in {"home", "clear"} /\ b.seen = 0 /\ b.col = 0
  <2>1. cur_col' = 0
    BY <1>4 DEF Do, Home, fb_clear_screen
  <2>2. QED
    BY <1>4, <2>1 DEF Shows
<1>5. CASE o.op \in {"erase", "draw"} /\ b = a /\ a.seen = a.col
  <2>1. PICK k \in Color : pix' = FillCursor(pix, cur_row, cur_col, k)
                           /\ UNCHANGED <<cur_row, cur_col>>
    BY <1>2, <1>5 DEF Do, fb_erase_cursor, fb_draw_cursor
  <2>2. ASSUME a.col < fb_cols PROVE Shows(a)'
    <3>1. /\ cur_col = a.col /\ (a.seen > 0 => cur_row \in Rows)
          /\ \A i \in 1..a.seen : pix[cur_row][i - 1].ch = a.txt[i]
      BY <2>2 DEF Shows
    <3>2. ASSUME NEW i \in 1..a.seen PROVE pix'[cur_row][i - 1].ch = a.txt[i]
      <4>1. cur_row \in Rows /\ i - 1 \in Cols /\ i - 1 # cur_col
        BY <1>1, <1>2, <1>5, <2>2, <3>1, Sizes
      <4>2. pix'[cur_row][i - 1] = pix[cur_row][i - 1]
        BY <1>2, <2>1, <4>1, Filled
      <4>3. QED
        BY <3>1, <4>2
    <3>3. QED
      BY <2>1, <3>1, <3>2 DEF Shows
  <2>3. ~(a.col < fb_cols) => Shows(a)'
    BY DEF Shows
  <2>4. QED
    BY <1>5, <2>2, <2>3
<1>6. CASE o.op \in {"room", "unmask"} /\ b = a
  <2>1. MakeRoom
    BY <1>6 DEF Do
  <2>2. cur_col' = cur_col
    BY <2>1 DEF MakeRoom
  <2>3. CASE cur_row < fb_rows
    <3>1. cur_row' = cur_row /\ pix' = pix
      BY <2>1, <2>3 DEF MakeRoom, ScrollTo
    <3>2. QED
      BY <1>6, <2>2, <3>1 DEF Shows
  <2>4. CASE ~(cur_row < fb_rows)
    <3>1. cur_row \notin Rows
      BY <1>2, <2>4, Sizes
    <3>2. a.col < fb_cols => a.seen = 0 /\ cur_col = a.col
      BY <1>1, <3>1 DEF Shows
    <3>3. QED
      BY <1>1, <1>6, <2>2, <3>2 DEF Shows
  <2>5. QED
    BY <2>3, <2>4
<1>7. CASE o.op \in {"black", "theme", "down"} /\ b = a /\ a.seen = 0
  <2>1. cur_col' = cur_col
    BY <1>7 DEF Do, Down, fb_clear, fb_update_theme
  <2>2. QED
    BY <1>7, <2>1 DEF Shows
<1>8. CASE /\ o.op = "put" /\ o.at = 0 /\ a.seen = a.col /\ o.ch = a.txt[a.seen + 1]
           /\ b.txt = a.txt /\ b.seen = a.seen + 1 /\ b.col = a.col
  <2>1. o.ch \in Char /\ cur_row \in Rows
    BY <1>1, <1>2, <1>8, PutTyped DEF Turns
  <2>2. PICK c \in Char : c = o.ch
    BY <2>1
  <2> DEFINE g == Glyph(c, theme.fg, theme.bg)
  <2>3. g.ch = c
    BY <1>2, Images
  <2>4. cur_col + 0 = cur_col
    BY <1>2
  <2>5. /\ pix' = [pix EXCEPT ![cur_row][cur_col] = g]
        /\ UNCHANGED <<cur_row, cur_col>>
    <3>1. fb_draw_char(0, c)
      BY <1>8, <2>2 DEF Do
    <3>2. QED
      BY <1>2, <2>1, <2>4, <3>1, Zenon DEF fb_draw_char
  <2> HIDE DEF g
  <2>6. \A r \in Rows, x \in Cols :
          pix'[r][x] = IF r = cur_row /\ x = cur_col THEN g ELSE pix[r][x]
    BY <1>2, <2>5 DEF Picture
  <2>7. ASSUME a.col < fb_cols PROVE Shows(b)'
    <3>1. /\ cur_col = a.col
          /\ \A i \in 1..a.seen : pix[cur_row][i - 1].ch = a.txt[i]
      BY <2>7 DEF Shows
    <3>2. ASSUME NEW i \in 1..b.seen PROVE pix'[cur_row][i - 1].ch = b.txt[i]
      <4>1. CASE i = a.seen + 1
        <5>1. i - 1 = cur_col
          BY <1>1, <1>8, <3>1, <4>1
        <5>2. pix'[cur_row][i - 1] = g
          BY <1>2, <2>1, <2>6, <5>1
        <5>3. QED
          BY <1>8, <2>2, <2>3, <4>1, <5>2
      <4>2. CASE i # a.seen + 1
        <5>1. i \in 1..a.seen /\ i - 1 \in Cols /\ i - 1 # cur_col
          BY <1>1, <1>2, <1>8, <2>7, <3>1, <4>2, Sizes
        <5>2. pix'[cur_row][i - 1] = pix[cur_row][i - 1]
          BY <2>1, <2>6, <5>1
        <5>3. QED
          BY <1>8, <3>1, <5>1, <5>2
      <4>3. QED
        BY <4>1, <4>2
    <3>3. QED
      BY <1>8, <2>1, <2>5, <3>1, <3>2 DEF Shows
  <2>8. ~(a.col < fb_cols) => Shows(b)'
    BY <1>8 DEF Shows
  <2>9. QED
    BY <2>7, <2>8
<1>9. CASE /\ o.op = "advance" /\ a.col + 1 < fb_cols
           /\ b.txt = a.txt /\ b.seen = a.seen /\ b.col = a.col + 1
  <2>1. a.col < fb_cols
    BY <1>1, <1>2, <1>9
  <2>2. /\ cur_col = a.col /\ (a.seen > 0 => cur_row \in Rows)
        /\ \A i \in 1..a.seen : pix[cur_row][i - 1].ch = a.txt[i]
    BY <2>1 DEF Shows
  <2>3. cur_col' = cur_col + 1 /\ cur_row' = cur_row /\ pix' = pix
    <3>1. Advance
      BY <1>9 DEF Do
    <3>2. ~(cur_col + 1 >= fb_cols)
      BY <1>1, <1>2, <1>9, <2>2
    <3>3. QED
      BY <3>1, <3>2 DEF Advance
  <2>4. QED
    BY <1>9, <2>2, <2>3 DEF Shows
<1>10. CASE /\ o.op = "back" /\ a.seen = a.col /\ a.col < fb_cols
            /\ b.seen + 1 = a.seen /\ b.col + 1 = a.col /\ \A i \in 1..b.seen : b.txt[i] = a.txt[i]
  <2>1. /\ cur_col = a.col /\ cur_row \in Rows /\ cur_col > 0
        /\ \A i \in 1..a.seen : pix[cur_row][i - 1].ch = a.txt[i]
    BY <1>1, <1>10 DEF Shows
  <2>2. fb_backspace
    BY <1>10 DEF Do
  <2>3. /\ cur_col' = cur_col - 1 /\ cur_row' = cur_row
        /\ pix' = FillCursor(FillCursor(pix, cur_row, cur_col, theme.bg), cur_row, cur_col - 1, theme.fg)
    BY <1>2, <2>1, <2>2 DEF fb_backspace
  <2> DEFINE q == FillCursor(pix, cur_row, cur_col, theme.bg)
             col == cur_col - 1
  <2>4. q \in Picture
    BY <1>2, FillTyped
  <2>5. \A r \in Rows, x \in Cols :
          q[r][x] = IF r = cur_row /\ x = cur_col THEN Fill(theme.bg) ELSE pix[r][x]
    BY <1>2, Filled
  <2>6. col \in Nat /\ col + 1 = cur_col
    BY <1>2, <2>1
  <2> HIDE DEF q
  <2>7. \A r \in Rows, x \in Cols :
          pix'[r][x] = IF r = cur_row /\ x = col THEN Fill(theme.fg) ELSE q[r][x]
    BY <1>2, <2>3, <2>4, Filled DEF q
  <2>8. cur_col' = col
    BY <2>3
  <2> HIDE DEF col
  <2>9. ASSUME NEW i \in 1..b.seen PROVE pix'[cur_row][i - 1].ch = b.txt[i]
    <3>1. i \in 1..a.seen /\ i - 1 \in Cols /\ i - 1 # cur_col /\ i - 1 # col
      BY <1>1, <1>2, <1>10, <2>1, <2>6, Sizes
    <3>2. pix'[cur_row][i - 1] = pix[cur_row][i - 1]
      BY <2>1, <2>5, <2>7, <3>1
    <3>3. QED
      BY <1>10, <2>1, <3>1, <3>2
  <2>10. cur_col' = b.col
    BY <1>1, <1>10, <2>1, <2>6, <2>8
  <2>11. QED
    BY <2>1, <2>3, <2>9, <2>10 DEF Shows
<1>11. o.op # "reset"
  BY DEF Do
<1>12. QED
  BY <1>1, <1>3, <1>4, <1>5, <1>6, <1>7, <1>8, <1>9, <1>10, <1>11 DEF Tracks

(* Printing a text that fits the row behind what is seen there.            *)
LEMMA TrackPrint ==
  ASSUME NEW u \in Seq(Char), NEW n \in Nat, NEW text \in Seq(Char),
         Len(u) = n + Len(text), Len(u) < fb_cols,
         \A i \in 1..Len(text) : u[n + i] = text[i]
  PROVE  Leads(Track, fb_print(text), At(u, n), At(u, Len(u)))
<1> DEFINE s == Printing(text)
           L == Len(text)
           e == Len(u)
           h == [k \in 1..(3 * L + 1) |->
                   [txt |-> u, seen |-> n + (k \div 3), col |-> n + ((k - 1) \div 3)]]
<1>1. /\ s \in Seq(Operation) /\ Len(s) = 3 * L /\ L \in Nat /\ e \in Nat /\ e = n + L /\ e < fb_cols
      /\ \A i \in 1..L : u[n + i] = text[i]
      /\ \A k \in 1..(3 * L) :
              \/ k % 3 = 1 /\ (k + 1) % 3 = 2 /\ s[k] = Op("room")
              \/ /\ k % 3 = 2 /\ (k + 1) % 3 = 0 /\ (k + 1) \div 3 \in 1..L
                 /\ s[k] = Put(0, text[(k + 1) \div 3])
                 /\ text[(k + 1) \div 3] \in Char
              \/ k % 3 = 0 /\ (k + 1) % 3 = 1 /\ s[k] = Op("advance")
      /\ fb_cols \in Nat
  BY PrintingIs, Sizes
<1> HIDE DEF s, L, e
<1>2. \A k \in 1..(3 * L + 1) :
        /\ h[k].txt = u /\ h[k].seen = n + (k \div 3) /\ h[k].col = n + ((k - 1) \div 3)
        /\ k \div 3 \in Nat /\ (k - 1) \div 3 \in Nat
        /\ h[k] = [txt |-> u, seen |-> n + (k \div 3), col |-> n + ((k - 1) \div 3)]
  BY <1>1
<1> HIDE DEF h
<1>3. \A k \in 1..(3 * L + 1) : h[k] \in Trail
  <2>1. \A x \in Nat, y \in Nat : [txt |-> u, seen |-> n + x, col |-> n + y] \in Trail
    BY DEF Trail
  <2>2. QED
    BY <1>2, <2>1, Zenon
<1>4. h[1] = At(u, n) /\ h[3 * L + 1] = At(u, e)
  <2>1. 1 \in 1..(3 * L + 1) /\ 3 * L + 1 \in 1..(3 * L + 1)
    BY <1>1
  <2>2. n + (1 \div 3) = n /\ n + ((1 - 1) \div 3) = n
    OBVIOUS
  <2>3. n + ((3 * L + 1) \div 3) = e /\ n + (((3 * L + 1) - 1) \div 3) = e
    BY <1>1
  <2>4. h[1] = [txt |-> u, seen |-> n, col |-> n]
    BY <1>2, <2>1, <2>2, Zenon
  <2>5. h[3 * L + 1] = [txt |-> u, seen |-> e, col |-> e]
    BY <1>2, <2>1, <2>3, Zenon
  <2>6. QED
    BY <2>4, <2>5, Zenon DEF At
<1>5. ASSUME NEW k \in 1..Len(s) PROVE <<h[k], s[k], h[k + 1]>> \in Track
  <2>1. k \in 1..(3 * L) /\ k \in 1..(3 * L + 1) /\ k + 1 \in 1..(3 * L + 1) /\ (k + 1) - 1 = k
    BY <1>1
  <2>2. /\ h[k] \in Trail /\ h[k + 1] \in Trail /\ s[k] \in Operation
        /\ h[k].txt = u /\ h[k].seen = n + (k \div 3) /\ h[k].col = n + ((k - 1) \div 3)
        /\ h[k + 1].txt = u /\ h[k + 1].seen = n + ((k + 1) \div 3) /\ h[k + 1].col = n + (k \div 3)
        /\ k \div 3 \in Nat /\ (k - 1) \div 3 \in Nat
        /\ h[k] = [txt |-> u, seen |-> n + (k \div 3), col |-> n + ((k - 1) \div 3)]
        /\ h[k + 1] = [txt |-> u, seen |-> n + ((k + 1) \div 3), col |-> n + (k \div 3)]
    <3>1. s[k] \in Operation
      BY <1>1, <2>1
    <3>2. QED
      BY <1>2, <1>3, <2>1, <3>1, Zenon
  <2> DEFINE d == k \div 3
  <2>3. CASE k % 3 = 1 /\ s[k] = Op("room")
    <3>1. (k + 1) \div 3 = d /\ (k - 1) \div 3 = d
      BY <2>1, <2>3
    <3>2. h[k + 1] = h[k]
      BY <2>2, <3>1, Zenon
    <3>3. Tracks(h[k], s[k], h[k + 1])
      BY <2>3, <3>2, OpsTyped DEF Tracks
    <3>4. QED
      BY <2>2, <3>3, TrackIs
  <2>4. CASE k % 3 = 2 /\ s[k] = Put(0, text[(k + 1) \div 3]) /\ (k + 1) \div 3 \in 1..L
             /\ text[(k + 1) \div 3] \in Char
    <3>1. (k + 1) \div 3 = d + 1 /\ (k - 1) \div 3 = d
      BY <2>1, <2>4
    <3>2. d + 1 \in 1..L /\ s[k] = Put(0, text[d + 1]) /\ text[d + 1] \in Char
      BY <2>4, <3>1
    <3>3. s[k].op = "put" /\ s[k].at = 0 /\ s[k].ch = text[d + 1]
      BY <3>2, OpsTyped
    <3>4. u[n + (d + 1)] = text[d + 1]
      BY <1>1, <3>2
    <3>5. /\ h[k].txt = u /\ h[k].seen = n + d /\ h[k].col = n + d
          /\ h[k + 1].txt = u /\ h[k + 1].seen = n + (d + 1) /\ h[k + 1].col = n + d
      BY <2>2, <3>1, Zenon
    <3>6. n + (d + 1) = (n + d) + 1
      BY <2>2
    <3> HIDE DEF d
    <3>7. Tracks(h[k], s[k], h[k + 1])
      BY <3>3, <3>4, <3>5, <3>6 DEF Tracks
    <3>8. QED
      BY <2>2, <3>7, TrackIs
  <2>5. CASE k % 3 = 0 /\ s[k] = Op("advance")
    <3>1. (k + 1) \div 3 = d /\ d = ((k - 1) \div 3) + 1 /\ d <= L
      <4>1. (k + 1) \div 3 = d
        BY <2>1, <2>5
      <4>2. d = ((k - 1) \div 3) + 1
        BY <2>1, <2>5
      <4>3. k <= 3 * L /\ k \in Nat /\ L \in Nat
        BY <1>1, <2>1
      <4>4. d <= L
        BY <4>3
      <4>5. QED
        BY <4>1, <4>2, <4>4
    <3>2. PICK x \in Nat : x = (k - 1) \div 3
      BY <2>2
    <3>3. d = x + 1 /\ d \in Nat
      BY <2>2, <3>1, <3>2
    <3>4. /\ h[k].txt = u /\ h[k].seen = n + d /\ h[k].col = n + x
          /\ h[k + 1].txt = u /\ h[k + 1].seen = n + d /\ h[k + 1].col = n + d
      BY <2>2, <3>1, <3>2, Zenon
    <3> HIDE DEF d
    <3>5. n + d = (n + x) + 1 /\ (n + x) + 1 < fb_cols
      BY <1>1, <3>1, <3>2, <3>3
    <3>6. s[k].op = "advance"
      BY <2>5, OpsTyped
    <3>7. Tracks(h[k], s[k], h[k + 1])
      BY <3>4, <3>5, <3>6 DEF Tracks
    <3>8. QED
      BY <2>2, <3>7, TrackIs
  <2>6. QED
    BY <1>1, <2>1, <2>3, <2>4, <2>5
<1>6. Leads(Track, s, At(u, n), At(u, e))
  BY <1>1, <1>4, <1>5, Zenon DEF Leads
<1>7. \A x \in Nat, k \in {"erase", "draw"} : Leads(Track, <<Op(k)>>, At(u, x), At(u, x))
  <2>1. SUFFICES ASSUME NEW x \in Nat, NEW k \in {"erase", "draw"}
                 PROVE  Leads(Track, <<Op(k)>>, At(u, x), At(u, x))
    OBVIOUS
  <2>2. /\ At(u, x) \in Trail /\ At(u, x).seen = At(u, x).col
        /\ Op(k) \in Operation /\ Op(k).op \in {"erase", "draw"}
    BY TrailOf, OpsTyped
  <2>3. Tracks(At(u, x), Op(k), At(u, x))
    BY <2>2 DEF Tracks
  <2>4. QED
    BY <2>2, <2>3, TrackOne
<1>8. Leads(Track, (<<Op("erase")>> \o s) \o <<Op("draw")>>, At(u, n), At(u, e))
  <2>1. Leads(Track, <<Op("erase")>> \o s, At(u, n), At(u, e))
    BY <1>6, <1>7, LeadsJoin
  <2>2. QED
    BY <1>1, <1>7, <2>1, LeadsJoin
<1>9. QED
  BY <1>8, PrintIs DEF s, e

(* Printing anything at all, and what the commands do.                     *)
LEMMA TrackLost ==
  \A o \in Operation : \A a \in Trail : Leads(Track, <<o>>, a, Lost)
BY TrailOf, TrackOne DEF Tracks

LEMMA LostThrough ==
  ASSUME NEW s \in Seq(Operation)
  PROVE  Leads(Track, s, Lost, Lost)
<1> DEFINE h == [k \in 1..(Len(s) + 1) |-> Lost]
<1>1. /\ \A k \in 1..(Len(s) + 1) : h[k] = Lost
      /\ Len(s) \in Nat /\ 1 \in 1..(Len(s) + 1) /\ Len(s) + 1 \in 1..(Len(s) + 1)
      /\ \A k \in 1..Len(s) : k \in 1..(Len(s) + 1) /\ k + 1 \in 1..(Len(s) + 1) /\ s[k] \in Operation
  OBVIOUS
<1> HIDE DEF h
<1>2. \A o \in Operation : <<Lost, o, Lost>> \in Track
  BY TrailOf, TrackIs DEF Tracks
<1>3. \A k \in 1..Len(s) : <<h[k], s[k], h[k + 1]>> \in Track
  BY <1>1, <1>2, Zenon
<1>4. QED
  BY <1>1, <1>3, Zenon DEF Leads

LEMMA TrackCommands ==
  ASSUME NEW u \in Seq(Char)
  PROVE  PrintsLead(Track, At(u, 0), Lost) /\ OthersLead(Track, At(u, 0))
<1> DEFINE a == At(u, 0)
<1>1. a \in Trail /\ a.seen = 0 /\ a.col = 0 /\ Lost \in Trail
  BY TrailOf
<1> HIDE DEF a
<1>2. ASSUME NEW e \in {a, Lost}, NEW text \in Seq(Char)
      PROVE  Leads(Track, fb_print(text), e, Lost)
  <2>1. Leads(Track, <<Op("erase")>>, e, Lost)
    BY <1>1, TrackLost, OpsTyped
  <2>2. Leads(Track, Printing(text), Lost, Lost)
    BY PrintingIs, LostThrough
  <2>3. Leads(Track, <<Op("draw")>>, Lost, Lost)
    BY <1>1, TrackLost, OpsTyped
  <2>4. Leads(Track, <<Op("erase")>> \o Printing(text), e, Lost)
    BY <2>1, <2>2, LeadsJoin
  <2>5. Leads(Track, (<<Op("erase")>> \o Printing(text)) \o <<Op("draw")>>, e, Lost)
    BY <2>3, <2>4, LeadsJoin
  <2>6. QED
    BY <2>5, PrintIs
<1>3. \A o \in Operation : o.op \in {"home", "clear", "down", "draw", "theme", "reset", "black"} =>
        Leads(Track, <<o>>, a, a)
  <2>1. SUFFICES ASSUME NEW o \in Operation,
                        o.op \in {"home", "clear", "down", "draw", "theme", "reset", "black"}
                 PROVE  Leads(Track, <<o>>, a, a)
    OBVIOUS
  <2>2. Tracks(a, o, a)
    BY <1>1, <2>1 DEF Tracks
  <2>3. QED
    BY <1>1, <2>2, TrackOne
<1>4. ASSUME NEW e \in {a, Lost}, NEW text \in Seq(Char)
      PROVE  Leads(Track, fb_println(text), e, a)
  <2> DEFINE s == [k \in 1..Len(text) |-> Put(k - 1, text[k])]
             start == <<Op("erase"), Op("room")>>
             end == <<Op("home"), Op("down"), Op("draw")>>
  <2>1. s \in Seq(Operation)
    <3>1. \A k \in 1..Len(text) : k - 1 \in Nat /\ text[k] \in Char
      OBVIOUS
    <3>2. \A k \in 1..Len(text) : Put(k - 1, text[k]) \in Operation
      BY <3>1, OpsTyped
    <3>3. QED
      BY <3>2
  <2>2. Leads(Track, start, e, Lost)
    <3>1. Leads(Track, <<Op("erase")>>, e, Lost) /\ Leads(Track, <<Op("room")>>, Lost, Lost)
      BY <1>1, TrackLost, OpsTyped
    <3>2. Leads(Track, <<Op("erase")>> \o <<Op("room")>>, e, Lost)
      BY <3>1, LeadsJoin
    <3>3. QED
      BY <3>2, Listed, Zenon
  <2>3. Leads(Track, s, Lost, Lost)
    BY <2>1, LostThrough
  <2>4. Leads(Track, end, Lost, a)
    <3>1. Tracks(Lost, Op("home"), a)
      BY <1>1, OpsTyped DEF Tracks
    <3>2. Leads(Track, <<Op("home")>>, Lost, a)
      BY <1>1, <3>1, OpsTyped, TrackOne
    <3>3. Leads(Track, <<Op("down")>>, a, a) /\ Leads(Track, <<Op("draw")>>, a, a)
      BY <1>3, OpsTyped
    <3>4. Leads(Track, <<Op("home")>> \o <<Op("down")>>, Lost, a)
      BY <3>2, <3>3, LeadsJoin
    <3>5. Leads(Track, (<<Op("home")>> \o <<Op("down")>>) \o <<Op("draw")>>, Lost, a)
      BY <3>3, <3>4, LeadsJoin
    <3>6. QED
      BY <3>5, Listed, Zenon
  <2> HIDE DEF start, end, s
  <2>5. Leads(Track, start \o s, e, Lost)
    BY <2>2, <2>3, LeadsJoin
  <2>6. Leads(Track, (start \o s) \o end, e, a)
    BY <2>4, <2>5, LeadsJoin
  <2>7. fb_println(text) = (start \o s) \o end
    BY Zenon DEF fb_println, start, s, end
  <2>8. QED
    BY <2>6, <2>7
<1>5. PrintsLead(Track, a, Lost)
  BY <1>2, <1>4, Zenon DEF PrintsLead
<1>6. OthersLead(Track, a)
  <2>1. \A t \in DOMAIN Themes : /\ [op |-> "theme", theme |-> Themes[t]] \in Operation
                                 /\ [op |-> "theme", theme |-> Themes[t]].op = "theme"
    BY DEF Operation
  <2>2. \A t \in DOMAIN Themes : Leads(Track, <<[op |-> "theme", theme |-> Themes[t]]>>, a, a)
    BY <1>3, <2>1, Zenon
  <2>3. Leads(Track, <<Op("clear")>>, a, a) /\ Leads(Track, <<Op("reset")>>, a, a)
    BY <1>3, OpsTyped
  <2>4. QED
    BY <2>2, <2>3, Zenon DEF OthersLead
<1>7. QED
  BY <1>5, <1>6 DEF a

(* The prompt comes first in its row.                                      *)
PromptFits == Len(Prompt) < fb_cols
OneRow   == MaxLine + Len(Prompt) < fb_cols
KeysShow == \A code \in Keys \cap DOMAIN scancode_map :
              NUL \notin {scancode_map[code], uppercase_map[code]}

LEMMA RowHoldsPrompt == OneRow => PromptFits
<1> SUFFICES ASSUME OneRow PROVE PromptFits
  OBVIOUS
<1>1. PICK u \in Seq(Char) : u = Prompt
  BY TextTyped
<1>2. MaxLine \in Nat /\ fb_cols \in Nat
  BY ConsoleAssumption, ShellAssumption, Sizes
<1>3. MaxLine + Len(u) < fb_cols
  BY <1>1, Zenon DEF OneRow
<1>4. Len(u) < fb_cols
  BY <1>2, <1>3
<1>5. QED
  BY <1>1, <1>4, Zenon DEF PromptFits

LEMMA PromptTrack ==
  ASSUME PromptFits
  PROVE  /\ Leads(Track, fb_print(Prompt), At(Prompt, 0), Shown(<<>>))
         /\ \A k \in {"draw", "unmask"} : Leads(Track, <<Op(k)>>, Shown(<<>>), Shown(<<>>))
         /\ Prompt \in Seq(Char) /\ Len(Prompt) \in Nat
<1>1. Prompt \in Seq(Char) /\ Len(Prompt) \in Nat /\ Len(Prompt) < fb_cols
  <2>1. PICK u \in Seq(Char) : u = Prompt
    BY TextTyped
  <2>2. Len(u) \in Nat
    OBVIOUS
  <2>3. QED
    BY <2>1, <2>2, Zenon DEF PromptFits
<1>2. PICK u \in Seq(Char) : u = Prompt
  BY <1>1
<1>3. Len(u) \in Nat /\ Len(u) < fb_cols
  BY <1>1, <1>2, Zenon
<1>4. Leads(Track, fb_print(u), At(u, 0), At(u, Len(u)))
  <2>1. Len(u) = 0 + Len(u) /\ \A i \in 1..Len(u) : u[0 + i] = u[i]
    BY <1>3
  <2>2. QED
    BY <1>3, <2>1, TrackPrint
<1>5. u \o <<>> = u
  OBVIOUS
<1>6. Shown(<<>>) = At(u, Len(u))
  BY <1>2, <1>5, Zenon DEF Shown
<1>7. ASSUME NEW k \in {"draw", "unmask"} PROVE Leads(Track, <<Op(k)>>, At(u, Len(u)), At(u, Len(u)))
  <2>1. /\ At(u, Len(u)) \in Trail /\ At(u, Len(u)).seen = At(u, Len(u)).col
        /\ Op(k) \in Operation /\ Op(k).op = k
    BY <1>3, TrailOf, OpsTyped
  <2>2. Tracks(At(u, Len(u)), Op(k), At(u, Len(u)))
    BY <2>1 DEF Tracks
  <2>3. QED
    BY <2>1, <2>2, TrackOne
<1>8. QED
  BY <1>1, <1>2, <1>4, <1>6, <1>7, Zenon

LEMMA MainTrack ==
  ASSUME PromptFits, NEW identified \in BOOLEAN
  PROVE  Leads(Track, kernel_main(identified), At(Prompt, 0), Shown(<<>>))
<1> DEFINE x == IF identified THEN <<>> ELSE Say
           a == At(Prompt, 0)
           p == fb_print(Prompt)
<1>1. Leads(Track, Say, a, a)
  BY TrackCommands, SaysLead, TextTyped
<1>2. Leads(Track, x, a, a)
  BY <1>1, LeadsNowhere
<1>3. Leads(Track, <<Op("black")>>, a, a)
  <2>1. a \in Trail /\ a.seen = 0 /\ Op("black") \in Operation /\ Op("black").op = "black"
    BY TextTyped, TrailOf, OpsTyped
  <2>2. Tracks(a, Op("black"), a)
    BY <2>1 DEF Tracks
  <2>3. QED
    BY <2>1, <2>2, TrackOne
<1>4. Leads(Track, p, a, Shown(<<>>)) /\ Leads(Track, <<Op("unmask")>>, Shown(<<>>), Shown(<<>>))
  BY PromptTrack
<1> HIDE DEF x, a, p
<1>5. Leads(Track, <<Op("black")>> \o x, a, a)
  BY <1>2, <1>3, LeadsJoin
<1>6. Leads(Track, (<<Op("black")>> \o x) \o Say, a, a)
  BY <1>1, <1>5, LeadsJoin
<1>7. Leads(Track, ((<<Op("black")>> \o x) \o Say) \o Say, a, a)
  BY <1>1, <1>6, LeadsJoin
<1>8. Leads(Track, (((<<Op("black")>> \o x) \o Say) \o Say) \o p, a, Shown(<<>>))
  BY <1>4, <1>7, LeadsJoin
<1>9. Leads(Track, ((((<<Op("black")>> \o x) \o Say) \o Say) \o p) \o <<Op("unmask")>>, a, Shown(<<>>))
  BY <1>4, <1>8, LeadsJoin
<1>10. QED
  BY <1>9, Zenon DEF kernel_main, x, a, p

LEMMA EnterTrack ==
  ASSUME PromptFits, NEW s \in Seq(Char \cup {NUL}), NEW t \in Trail
  PROVE  Leads(Track, EnterScript(s), t, Shown(<<>>))
<1> DEFINE x == <<Op("erase"), Op("down"), Op("home")>>
           a == At(Prompt, 0)
           p == fb_print(Prompt)
<1>1. Leads(Track, x, t, a)
  <2>1. /\ Leads(Track, <<Op("erase")>>, t, Lost) /\ Leads(Track, <<Op("down")>>, Lost, Lost)
    BY TrackLost, TrailOf, OpsTyped
  <2>2. Leads(Track, <<Op("home")>>, Lost, a)
    <3>1. a \in Trail /\ a.seen = 0 /\ a.col = 0 /\ Lost \in Trail
      BY TextTyped, TrailOf
    <3>2. Tracks(Lost, Op("home"), a)
      BY <3>1, OpsTyped DEF Tracks
    <3>3. QED
      BY <3>1, <3>2, OpsTyped, TrackOne
  <2> HIDE DEF a
  <2>3. Leads(Track, <<Op("erase")>> \o <<Op("down")>>, t, Lost)
    BY <2>1, LeadsJoin
  <2>4. Leads(Track, (<<Op("erase")>> \o <<Op("down")>>) \o <<Op("home")>>, t, a)
    BY <2>2, <2>3, LeadsJoin
  <2>5. QED
    BY <2>4, Listed, Zenon
<1>2. Leads(Track, shell_exec(s), a, a)
  <2>1. Argv(Copied(CString(s))) \in Seq(Seq(Char))
    BY ArgsTyped
  <2>2. Leads(Track, shell_exec_args(Argv(Copied(CString(s)))), a, a)
    BY <2>1, TextTyped, TrackCommands, CommandsLead
  <2>3. QED
    BY <2>2, Zenon DEF shell_exec
<1>3. Leads(Track, p, a, Shown(<<>>)) /\ Leads(Track, <<Op("draw")>>, Shown(<<>>), Shown(<<>>))
  BY PromptTrack
<1> HIDE DEF x, a, p
<1>4. Leads(Track, x \o shell_exec(s), t, a)
  BY <1>1, <1>2, LeadsJoin
<1>5. Leads(Track, (x \o shell_exec(s)) \o p, t, Shown(<<>>))
  BY <1>3, <1>4, LeadsJoin
<1>6. Leads(Track, ((x \o shell_exec(s)) \o p) \o <<Op("draw")>>, t, Shown(<<>>))
  BY <1>3, <1>5, LeadsJoin
<1>7. QED
  BY <1>6, Zenon DEF EnterScript, x, p

(* What is left to do will have the row show the prompt and the line.      *)
Follows(l, s) == l \in Seq(Char) /\ \E t \in Trail : Shows(t) /\ Leads(Track, s, t, Shown(l))

LEMMA ShownIs ==
  ASSUME NEW l \in Seq(Char)
  PROVE  /\ Prompt \o l \in Seq(Char) /\ Len(Prompt \o l) = Len(Prompt) + Len(l)
         /\ Len(Prompt) \in Nat /\ Len(l) \in Nat
         /\ \A i \in 1..Len(l) : (Prompt \o l)[Len(Prompt) + i] = l[i]
         /\ \A i \in 1..Len(Prompt) : (Prompt \o l)[i] = Prompt[i]
         /\ Shown(l) \in Trail /\ Shown(l).txt = Prompt \o l
         /\ Shown(l).seen = Len(Prompt) + Len(l) /\ Shown(l).col = Len(Prompt) + Len(l)
<1>1. PICK u \in Seq(Char) : u = Prompt
  BY TextTyped
<1>2. /\ u \o l \in Seq(Char) /\ Len(u \o l) = Len(u) + Len(l)
      /\ Len(u) \in Nat /\ Len(l) \in Nat
      /\ \A i \in 1..Len(l) : (u \o l)[Len(u) + i] = l[i]
      /\ \A i \in 1..Len(u) : (u \o l)[i] = u[i]
  OBVIOUS
<1>3. Len(u) + Len(l) \in Nat
  BY <1>2
<1>4. Shown(l) = At(u \o l, Len(u) + Len(l))
  BY <1>1, <1>2, Zenon DEF Shown
<1> DEFINE v == u \o l
           n == Len(u) + Len(l)
<1>5. Shown(l) = At(v, n) /\ v \in Seq(Char) /\ n \in Nat /\ v = Prompt \o l /\ n = Len(Prompt) + Len(l)
  BY <1>1, <1>2, <1>3, <1>4, Zenon
<1>6. \A i \in 1..Len(l) : v[Len(u) + i] = l[i]
  BY <1>2
<1>7. \A i \in 1..Len(u) : v[i] = u[i]
  BY <1>2
<1>8. Len(v) = n
  BY <1>2
<1> HIDE DEF v, n
<1>9. /\ Shown(l) \in Trail /\ Shown(l).txt = v /\ Shown(l).seen = n /\ Shown(l).col = n
  <2>1. v \in Seq(Char) /\ n \in Nat
    BY <1>5, Zenon
  <2>2. At(v, n) \in Trail /\ At(v, n).txt = v /\ At(v, n).seen = n /\ At(v, n).col = n
    BY <2>1, TrailOf
  <2>3. QED
    BY <1>5, <2>2, Zenon
<1>10. Len(u) \in Nat /\ Len(l) \in Nat
  BY <1>2
<1>11. QED
  BY <1>1, <1>5, <1>6, <1>7, <1>8, <1>9, <1>10, Zenon

(* What is seen of a line is seen of every line that begins like it.       *)
LEMMA ShownSame ==
  ASSUME NEW a, NEW b, a.seen = b.seen, a.col = b.col, a.seen \in Nat,
         \A i \in 1..a.seen : a.txt[i] = b.txt[i], Shows(a)
  PROVE  Shows(b)
BY DEF Shows

LEMMA TypedTrack ==
  ASSUME OneRow, NEW l \in Seq(Char), NEW c \in Char, Len(l) < MaxLine, Shows(Shown(l))
  PROVE  Follows(Append(l, c), fb_print(<<c>>))
<1> DEFINE w == Append(l, c)
           u == Prompt \o w
           text == <<c>>
<1>1. /\ w \in Seq(Char) /\ Len(w) = Len(l) + 1 /\ Len(l) \in Nat
      /\ w[Len(l) + 1] = c /\ \A i \in 1..Len(l) : w[i] = l[i]
      /\ text \in Seq(Char) /\ text[1] = c
      /\ \A i \in 1..Len(text) : i = 1
  OBVIOUS
<1>2. \A n \in Nat : n + Len(text) = n + 1
  OBVIOUS
<1> HIDE DEF w, text
<1>3. /\ u \in Seq(Char) /\ Len(u) = Len(Prompt) + Len(w) /\ Len(Prompt) \in Nat
      /\ \A i \in 1..Len(w) : u[Len(Prompt) + i] = w[i]
      /\ \A i \in 1..Len(Prompt) : u[i] = Prompt[i]
      /\ Shown(w) = At(u, Len(u))
  BY <1>1, ShownIs, Zenon DEF Shown
<1>4. /\ Shown(l).txt = Prompt \o l /\ Shown(l).seen = Len(Prompt) + Len(l)
      /\ Shown(l).col = Len(Prompt) + Len(l)
      /\ \A i \in 1..Len(l) : (Prompt \o l)[Len(Prompt) + i] = l[i]
      /\ \A i \in 1..Len(Prompt) : (Prompt \o l)[i] = Prompt[i]
  BY ShownIs, Zenon
<1> HIDE DEF u
<1>5. PICK P \in Nat : P = Len(Prompt)
  BY <1>3
<1> DEFINE n == P + Len(l)
<1>6. n \in Nat /\ Len(u) = n + 1 /\ Len(u) = n + Len(text) /\ Len(u) < fb_cols
  <2>0. MaxLine \in Nat /\ fb_cols \in Nat
    BY ConsoleAssumption, ShellAssumption, Sizes
  <2>1. MaxLine + P < fb_cols /\ MaxLine \in Nat /\ fb_cols \in Nat
    BY <1>5, <2>0, Zenon DEF OneRow
  <2>2. n \in Nat /\ Len(u) = n + 1
    BY <1>1, <1>3, <1>5
  <2>3. Len(u) < fb_cols
    BY <1>1, <2>1, <2>2
  <2>4. QED
    BY <1>2, <2>2, <2>3, Zenon
<1>7. \A i \in 1..Len(text) : u[n + i] = text[i]
  <2>1. u[n + 1] = c
    <3>1. Len(l) + 1 \in 1..Len(w) /\ P + (Len(l) + 1) = n + 1
      BY <1>1, <1>5
    <3>2. u[P + (Len(l) + 1)] = w[Len(l) + 1]
      BY <1>3, <1>5, <3>1, Zenon
    <3>3. QED
      BY <1>1, <3>1, <3>2, Zenon
  <2> HIDE DEF n
  <2>2. QED
    BY <1>1, <2>1, Zenon
<1>8. Leads(Track, fb_print(text), At(u, n), Shown(w))
  <2> HIDE DEF n
  <2>1. QED
    BY <1>1, <1>3, <1>6, <1>7, TrackPrint
<1>9. \A i \in 1..n : (Prompt \o l)[i] = u[i]
  <2>1. ASSUME NEW i \in 1..n PROVE (Prompt \o l)[i] = u[i]
    <3>1. CASE i \in 1..P
      BY <1>3, <1>4, <1>5, <3>1, Zenon
    <3>2. CASE i \notin 1..P
      <4>1. PICK j \in 1..Len(l) : i = P + j
        <5>1. i - P \in 1..Len(l) /\ i = P + (i - P)
          BY <1>1, <3>2
        <5>2. QED
          BY <5>1
      <4>2. j \in 1..Len(w)
        BY <1>1
      <4>3. QED
        BY <1>1, <1>3, <1>4, <1>5, <4>1, <4>2, Zenon
    <3>3. QED
      BY <3>1, <3>2
  <2>2. QED
    BY <2>1
<1>10. At(u, n) \in Trail /\ At(u, n).txt = u /\ At(u, n).seen = n /\ At(u, n).col = n
  <2> HIDE DEF n
  <2>1. QED
    BY <1>3, <1>6, TrailOf
<1>11. Shown(l).seen = n /\ Shown(l).col = n
  BY <1>4, <1>5
<1> HIDE DEF n
<1>12. Shows(At(u, n))
  BY <1>4, <1>6, <1>9, <1>10, <1>11, ShownSame
<1>13. Follows(w, fb_print(text))
  BY <1>1, <1>8, <1>10, <1>12, Zenon DEF Follows
<1>14. QED
  BY <1>13 DEF w, text

LEMMA DeletedTrack ==
  ASSUME OneRow, NEW l \in Seq(Char), Len(l) <= MaxLine, Len(l) > 0, Shows(Shown(l))
  PROVE  Follows(SubSeq(l, 1, Len(l) - 1), <<Op("back")>>)
<1> DEFINE w == SubSeq(l, 1, Len(l) - 1)
           a == Shown(l)
           b == Shown(w)
<1>1. /\ w \in Seq(Char) /\ Len(w) + 1 = Len(l) /\ Len(w) \in Nat /\ Len(l) \in Nat
      /\ \A i \in 1..Len(w) : w[i] = l[i]
  <2>1. PICK m \in Nat : m = Len(l) - 1
    OBVIOUS
  <2>2. Len(l) \in Nat /\ m + 1 = Len(l) /\ m <= Len(l) /\ w = SubSeq(l, 1, m)
    BY <2>1
  <2> HIDE DEF w
  <2>3. w \in Seq(Char) /\ Len(w) = m /\ \A i \in 1..m : w[i] = l[i]
    BY <2>2
  <2>4. QED
    BY <2>2, <2>3
<1> HIDE DEF w
<1>2. PICK P \in Nat : P = Len(Prompt)
  BY ShownIs
<1>3. /\ a \in Trail /\ b \in Trail
      /\ a.seen = P + Len(l) /\ a.col = P + Len(l) /\ b.seen = P + Len(w) /\ b.col = P + Len(w)
      /\ a.txt = Prompt \o l /\ b.txt = Prompt \o w
      /\ \A i \in 1..Len(l) : a.txt[P + i] = l[i]
      /\ \A i \in 1..P : a.txt[i] = Prompt[i]
      /\ \A i \in 1..Len(w) : b.txt[P + i] = w[i]
      /\ \A i \in 1..P : b.txt[i] = Prompt[i]
  <2>1. /\ a \in Trail /\ a.seen = P + Len(l) /\ a.col = P + Len(l)
        /\ a.txt = Prompt \o l
        /\ \A i \in 1..Len(l) : (Prompt \o l)[P + i] = l[i]
        /\ \A i \in 1..P : (Prompt \o l)[i] = Prompt[i]
    BY <1>2, ShownIs, Zenon
  <2>2. /\ b \in Trail /\ b.seen = P + Len(w) /\ b.col = P + Len(w)
        /\ b.txt = Prompt \o w
        /\ \A i \in 1..Len(w) : (Prompt \o w)[P + i] = w[i]
        /\ \A i \in 1..P : (Prompt \o w)[i] = Prompt[i]
    BY <1>1, <1>2, ShownIs, Zenon
  <2> HIDE DEF a, b
  <2>3. QED
    BY <2>1, <2>2, Zenon
<1> HIDE DEF a, b
<1>4. \A i \in 1..b.seen : b.txt[i] = a.txt[i]
  <2>1. ASSUME NEW i \in 1..b.seen PROVE b.txt[i] = a.txt[i]
    <3>1. CASE i \in 1..P
      BY <1>3, <3>1, Zenon
    <3>2. CASE i \notin 1..P
      <4>1. i - P \in 1..Len(w) /\ i = P + (i - P)
        BY <1>1, <1>3, <3>2
      <4>2. PICK j \in 1..Len(w) : i = P + j
        BY <4>1
      <4>3. j \in 1..Len(l)
        BY <1>1
      <4>4. QED
        BY <1>1, <1>3, <4>2, <4>3, Zenon
    <3>3. QED
      BY <3>1, <3>2
  <2>2. QED
    BY <2>1
<1>5. a.seen = a.col /\ a.col < fb_cols /\ b.seen + 1 = a.seen /\ b.col + 1 = a.col
  <2>0. MaxLine \in Nat /\ fb_cols \in Nat
    BY ConsoleAssumption, ShellAssumption, Sizes
  <2>1. MaxLine + P < fb_cols /\ MaxLine \in Nat /\ fb_cols \in Nat
    BY <1>2, <2>0, Zenon DEF OneRow
  <2>2. PICK x \in Nat, y \in Nat : x = Len(l) /\ y = Len(w)
    BY <1>1
  <2>3. y + 1 = x /\ x <= MaxLine
    BY <1>1, <2>2, Zenon
  <2>4. a.seen = P + x /\ a.col = P + x /\ b.seen = P + y /\ b.col = P + y
    BY <1>3, <2>2, Zenon
  <2>5. P + x < fb_cols /\ (P + y) + 1 = P + x
    BY <2>1, <2>3
  <2>6. QED
    BY <2>4, <2>5, Zenon
<1>6. Tracks(a, Op("back"), b)
  BY <1>4, <1>5, OpsTyped DEF Tracks
<1>7. Leads(Track, <<Op("back")>>, a, b)
  BY <1>3, <1>6, OpsTyped, TrackOne
<1>8. Follows(w, <<Op("back")>>)
  BY <1>1, <1>3, <1>7, Zenon DEF Follows, a, b
<1>9. QED
  BY <1>8 DEF w

LEMMA KeyTrack ==
  ASSUME OneRow, KeysShow, KeysTyped, line \in Seq(Char), Shows(Shown(line)),
         NEW code \in Keys, keyboard_handler(code)
  PROVE  Follows(line', todo')
<1>1. PICK l \in Seq(Char) : l = line
  OBVIOUS
<1>2. Len(l) <= MaxLine /\ Len(l) \in Nat /\ MaxLine \in Nat /\ Shows(Shown(l))
  BY <1>1, ConsoleAssumption, ShellAssumption DEF KeysTyped
<1>3. Shown(l) \in Trail
  BY ShownIs
<1>4. Follows(l, <<>>)
  BY <1>2, <1>3, LeadsNowhere, Zenon DEF Follows
<1> DEFINE Goal == Follows(line', todo')
<1> HIDE DEF Goal
<1>5. \A s, w : Handle(s) /\ line' = w /\ Follows(w, s) => Goal
  BY DEF Handle, Goal
<1>6. ASSUME line' = line, Handle(<<>>) PROVE Goal
  BY <1>1, <1>4, <1>5, <1>6, Zenon
<1>7. ASSUME EnterKey(code) PROVE Goal
  <2>1. Handle(EnterScript(l)) /\ line' = <<>>
    BY <1>1, <1>7, Zenon DEF EnterKey, EnterScript
  <2>2. l \in Seq(Char \cup {NUL}) /\ <<>> \in Seq(Char)
    OBVIOUS
  <2>3. Leads(Track, EnterScript(l), Shown(l), Shown(<<>>))
    BY <1>3, <2>2, RowHoldsPrompt, EnterTrack
  <2>4. Follows(<<>>, EnterScript(l))
    BY <1>2, <1>3, <2>2, <2>3, Zenon DEF Follows
  <2>5. QED
    BY <1>5, <2>1, <2>4, Zenon
<1>8. ASSUME BackspaceKey(code) PROVE Goal
  <2>1. ASSUME Len(line) > 0 /\ line' = SubSeq(line, 1, Len(line) - 1) /\ Handle(<<Op("back")>>) PROVE Goal
    <3>1. Len(l) > 0 /\ line' = SubSeq(l, 1, Len(l) - 1)
      BY <1>1, <2>1
    <3>2. Follows(SubSeq(l, 1, Len(l) - 1), <<Op("back")>>)
      BY <1>2, <3>1, DeletedTrack
    <3>3. QED
      BY <1>5, <2>1, <3>1, <3>2, Zenon
  <2>2. QED
    BY <1>6, <1>8, <2>1 DEF BackspaceKey
<1>9. ASSUME TypeKey(code) PROVE Goal
  <2> DEFINE c == IF shift THEN uppercase_map[code] ELSE scancode_map[code]
             s == IF c = NUL THEN <<>> ELSE <<c>>
  <2>1. code \in DOMAIN scancode_map /\ Len(line) < MaxLine /\ Store(c) /\ Handle(fb_print(s))
    BY <1>9, Zenon DEF TypeKey
  <2>2. c \in Char /\ c # NUL
    BY <2>1, ConsoleAssumption DEF KeysShow
  <2>3. s = <<c>> /\ line' = Append(line, c)
    BY <2>1, <2>2, Zenon DEF Store
  <2> HIDE DEF c, s
  <2>4. Follows(Append(l, c), fb_print(<<c>>))
    BY <1>1, <1>2, <2>1, <2>2, TypedTrack
  <2>5. QED
    BY <1>1, <1>5, <2>1, <2>3, <2>4, Zenon
<1>10. Goal
  BY <1>6, <1>7, <1>8, <1>9 DEF keyboard_handler, ShiftKey, OtherRelease, keyVars
<1>11. QED
  BY <1>10 DEF Goal

LineInv == ConInv /\ Follows(line, todo)

LEMMA StartTrack ==
  ASSUME OneRow, NEW identified \in BOOLEAN, NEW s, s = kernel_main(identified)
  PROVE  /\ <<>> \in Seq(Char) /\ At(Prompt, 0) \in Trail
         /\ At(Prompt, 0).col = 0 /\ At(Prompt, 0).seen = 0
         /\ Leads(Track, s, At(Prompt, 0), Shown(<<>>))
<1>1. Leads(Track, s, At(Prompt, 0), Shown(<<>>))
  BY RowHoldsPrompt, MainTrack
<1>2. Prompt \in Seq(Char) /\ <<>> \in Seq(Char)
  BY TextTyped
<1>3. /\ At(Prompt, 0) \in Trail /\ At(Prompt, 0).col = 0 /\ At(Prompt, 0).seen = 0
  <2>1. PICK u \in Seq(Char) : u = Prompt
    BY <1>2
  <2>2. At(u, 0) \in Trail /\ At(u, 0).col = 0 /\ At(u, 0).seen = 0
    BY TrailOf
  <2>3. QED
    BY <2>1, <2>2, Zenon
<1>4. QED
  BY <1>1, <1>2, <1>3, Zenon

LEMMA LineInit == OneRow => (ConsoleInit => LineInv)
<1> SUFFICES ASSUME OneRow, ConsoleInit PROVE LineInv
  OBVIOUS
<1>1. PICK identified \in BOOLEAN : todo = kernel_main(identified)
  BY DEF ConsoleInit
<1> DEFINE a == At(Prompt, 0)
<1>2. PICK s : s = todo
  OBVIOUS
<1>3. <<>> \in Seq(Char) /\ a \in Trail /\ a.col = 0 /\ a.seen = 0 /\ Leads(Track, s, a, Shown(<<>>))
  BY <1>1, <1>2, StartTrack
<1> HIDE DEF a
<1>4. Shows(a)
  BY <1>3 DEF Shows, ConsoleInit, TermInit
<1>5. line = <<>>
  BY DEF ConsoleInit
<1>6. Follows(line, todo)
  BY <1>2, <1>3, <1>4, <1>5, Zenon DEF Follows
<1>7. QED
  BY <1>6, ConInit DEF LineInv

(* A blinking cursor touches no cell in front of it.                       *)
LEMMA TickShows ==
  ASSUME TermTyped, timer_handler, NEW a \in Trail, a.seen = a.col, Shows(a)
  PROVE  Shows(a)'
<1>1. /\ pix \in Picture /\ cur_row \in 0..fb_rows /\ cur_col \in Cols
      /\ a.seen \in Nat /\ a.col \in Nat
  BY DEF TermTyped, Trail
<1>2. PICK k : pix' = FillCursor(pix, cur_row, cur_col, k) /\ UNCHANGED <<cur_row, cur_col>>
  BY DEF timer_handler, fb_draw_cursor, fb_erase_cursor
<1>3. ASSUME a.col < fb_cols PROVE Shows(a)'
  <2>1. /\ cur_col = a.col /\ (a.seen > 0 => cur_row \in Rows)
        /\ \A i \in 1..a.seen : pix[cur_row][i - 1].ch = a.txt[i]
    BY <1>3 DEF Shows
  <2>2. ASSUME NEW i \in 1..a.seen PROVE pix'[cur_row][i - 1].ch = a.txt[i]
    <3>1. cur_row \in Rows /\ i - 1 \in Cols /\ i - 1 # cur_col
      BY <1>1, <1>3, <2>1, Sizes
    <3>2. pix'[cur_row][i - 1] = pix[cur_row][i - 1]
      BY <1>1, <1>2, <3>1, Filled
    <3>3. QED
      BY <2>1, <3>2
  <2>3. QED
    BY <1>2, <2>1, <2>2 DEF Shows
<1>4. ~(a.col < fb_cols) => Shows(a)'
  BY DEF Shows
<1>5. QED
  BY <1>3, <1>4

LEMMA UnmaskShows ==
  ASSUME NEW o, o.op = "unmask", NEW a, NEW b, <<a, o, b>> \in Track, Shows(a), UNCHANGED termVars
  PROVE  Shows(b)'
<1>1. b = Lost \/ b = a
  BY TrackTracks DEF Tracks
<1>2. Shows(b)
  BY <1>1, TrailOf DEF Shows
<1>3. QED
  BY <1>2 DEF Shows, termVars

LEMMA AtRestShown ==
  ASSUME Follows(line, todo), todo = <<>>
  PROVE  line \in Seq(Char) /\ Shows(Shown(line))
<1>1. PICK t \in Trail : Shows(t) /\ Leads(Track, <<>>, t, Shown(line))
  BY Zenon DEF Follows
<1>2. t = Shown(line)
  BY <1>1, LeadsStays
<1>3. QED
  BY <1>1, <1>2, Zenon DEF Follows

LEMMA FollowsOn ==
  ASSUME TermTyped, NEW m, NEW n, InPlace(m), Proceeds(m, n), NEW l, Follows(l, todo)
  PROVE  Follows(l, todo)'
<1>1. PICK s, o : s = todo /\ o = Head(todo)
  OBVIOUS
<1>2. s # <<>> /\ todo' = Tail(s) /\ o = Head(s) /\ <<m, o, n>> \in Calm
  BY <1>1, Zenon DEF Proceeds
<1>3. PICK a \in Trail : Shows(a) /\ Leads(Track, s, a, Shown(l))
  BY <1>1, Zenon DEF Follows
<1>4. PICK b : <<a, o, b>> \in Track /\ Leads(Track, Tail(s), b, Shown(l))
  BY <1>2, <1>3, LeadsOn
<1>5. b \in Trail
  BY <1>4, TrackTracks
<1>6. Shows(b)'
  <2>1. CASE Do(Head(todo))
    <3>1. Do(o)
      BY <1>1, <2>1
    <3>2. QED
      BY <1>2, <1>3, <1>4, <3>1, DoShows
  <2>2. CASE Head(todo).op = "unmask" /\ UNCHANGED termVars
    <3>1. o.op = "unmask" /\ UNCHANGED termVars
      BY <1>1, <2>2
    <3>2. QED
      BY <1>3, <1>4, <3>1, UnmaskShows
  <2>3. QED
    BY <2>1, <2>2, Zenon DEF Proceeds
<1>7. l \in Seq(Char)
  BY Zenon DEF Follows
<1>8. QED
  BY <1>2, <1>4, <1>5, <1>6, <1>7, Zenon DEF Follows

LEMMA LineStep == OneRow /\ KeysShow => (LineInv /\ [QuietNext]_conVars => LineInv')
<1> SUFFICES ASSUME OneRow, KeysShow, LineInv, [QuietNext]_conVars PROVE LineInv'
  OBVIOUS
<1>1. ConInv /\ TermTyped /\ KeysTyped /\ Follows(line, todo)
  BY DEF LineInv, ConInv
<1>2. ConInv'
  BY <1>1, ConStep DEF QuietNext, ConsoleNext
<1>3. PICK m \in Phase : Leads(Calm, todo, m, "rest") /\ InPlace(m)
  BY <1>1 DEF ConInv, Underway
<1>4. ASSUME Continue PROVE Follows(line, todo)'
  <2>1. ASSUME Reset PROVE Follows(line, todo)'
    <3>1. PICK identified \in BOOLEAN : todo' = kernel_main(identified)
      BY <2>1, ResetStep
    <3> DEFINE a == At(Prompt, 0)
    <3>2. PICK s : s = todo'
      OBVIOUS
    <3>3. <<>> \in Seq(Char) /\ a \in Trail /\ a.col = 0 /\ a.seen = 0 /\ Leads(Track, s, a, Shown(<<>>))
      BY <3>1, <3>2, StartTrack
    <3> HIDE DEF a
    <3>4. Shows(a)'
      BY <2>1, <3>3 DEF Shows, Reset
    <3>5. line' = <<>>
      BY <2>1 DEF Reset
    <3>6. QED
      BY <3>2, <3>3, <3>4, <3>5, Zenon DEF Follows
  <2>2. ASSUME NEW n \in Phase, Proceeds(m, n) PROVE Follows(line, todo)'
    <3>1. PICK l : l = line
      OBVIOUS
    <3>2. Follows(l, todo)
      BY <1>1, <3>1, Zenon
    <3>3. Follows(l, todo)'
      BY <1>1, <1>3, <2>2, <3>2, FollowsOn
    <3>4. line' = l
      BY <2>2, <3>1 DEF Proceeds, keyVars
    <3>5. QED
      BY <3>3, <3>4, Zenon DEF Follows
  <2>3. QED
    BY <1>3, <1>4, <2>1, <2>2, ContinueStep
<1>5. ASSUME todo = <<>>, timer_handler PROVE Follows(line, todo)'
  <2>1. PICK l : l = line
    OBVIOUS
  <2>2. l \in Seq(Char) /\ Shows(Shown(l))
    BY <1>1, <1>5, <2>1, AtRestShown
  <2>3. Shown(l) \in Trail /\ Shown(l).seen = Shown(l).col
    BY <2>2, ShownIs
  <2>4. Shows(Shown(l))'
    BY <1>1, <1>5, <2>2, <2>3, TickShows
  <2>5. line' = l /\ todo' = <<>>
    BY <1>5, <2>1 DEF timer_handler, keyVars
  <2>6. Leads(Track, <<>>, Shown(l), Shown(l))
    BY LeadsNowhere
  <2>7. QED
    BY <2>2, <2>3, <2>4, <2>5, <2>6, Zenon DEF Follows
<1>6. ASSUME NEW code \in Keys, keyboard_handler(code) PROVE Follows(line, todo)'
  <2>1. todo = <<>> /\ UNCHANGED termVars
    BY <1>6 DEF keyboard_handler
  <2>2. line \in Seq(Char) /\ Shows(Shown(line))
    BY <1>1, <2>1, AtRestShown
  <2>3. Follows(line', todo')
    BY <1>1, <1>6, <2>2, KeyTrack
  <2>4. \A t : Shows(t) => Shows(t)'
    BY <2>1 DEF Shows, termVars
  <2>5. QED
    BY <2>3, <2>4, Zenon DEF Follows
<1>7. ASSUME UNCHANGED conVars PROVE Follows(line, todo)'
  <2>1. line' = line /\ todo' = todo /\ UNCHANGED termVars
    BY <1>7 DEF conVars, keyVars
  <2>2. \A t : Shows(t) => Shows(t)'
    BY <2>1 DEF Shows, termVars
  <2>3. QED
    BY <1>1, <2>1, <2>2, Zenon DEF Follows
<1>8. Follows(line, todo)'
  BY <1>4, <1>5, <1>6, <1>7 DEF QuietNext
<1>9. QED
  BY <1>2, <1>8 DEF LineInv

(* While a line fits the row it is typed in and every key shows what it    *)
(* stores, what Enter runs is what is seen in front of the cursor,         *)
(* whatever was typed, deleted, printed, scrolled, cleared and redrawn     *)
(* (keyboard.c:54-66, 69-72; fb.c:78-86, 156-167).                         *)
THEOREM LineStaysOnScreen == OneRow /\ KeysShow => (QuietSpec => []LineOnScreen)
<1> SUFFICES ASSUME OneRow, KeysShow PROVE QuietSpec => []LineOnScreen
  OBVIOUS
<1>1. LineInv => LineOnScreen
  <2> SUFFICES ASSUME LineInv, AtRest
               PROVE  LET shown == Prompt \o line
                          here  == cur_row * fb_cols + cur_col
                      IN  \A i \in 1..Len(shown) :
                            LET cell == here - Len(shown) + i - 1
                            IN  cell >= 0 => pix[cell \div fb_cols][cell % fb_cols].ch = shown[i]
    BY DEF LineOnScreen
  <2>1. TermTyped /\ KeysTyped /\ line \in Seq(Char) /\ Shows(Shown(line))
    BY AtRestShown DEF LineInv, ConInv, AtRest
  <2>2. PICK l \in Seq(Char) : l = line
    BY <2>1
  <2> DEFINE u == Prompt \o l
  <2>3. /\ u \in Seq(Char) /\ Len(u) = Len(Prompt) + Len(l) /\ Len(Prompt) \in Nat /\ Len(l) \in Nat
        /\ Shown(l).txt = u /\ Shown(l).seen = Len(u) /\ Shown(l).col = Len(u)
    BY ShownIs, Zenon
  <2> HIDE DEF u
  <2>4. PICK n \in Nat : n = Len(u)
    BY <2>3
  <2>5. n < fb_cols
    <3>1. PICK x \in Nat, y \in Nat : x = Len(Prompt) /\ y = Len(l)
      BY <2>3
    <3>2. MaxLine \in Nat /\ fb_cols \in Nat
      BY ConsoleAssumption, ShellAssumption, Sizes
    <3>3. y <= MaxLine
      BY <2>1, <2>2, <3>1, Zenon DEF KeysTyped
    <3>4. MaxLine + x < fb_cols
      BY <3>1, Zenon DEF OneRow
    <3>5. n = x + y
      BY <2>3, <2>4, <3>1, Zenon
    <3>6. QED
      BY <3>2, <3>3, <3>4, <3>5
  <2>6. /\ Shows(Shown(l)) /\ Shown(l).txt = u /\ Shown(l).seen = n /\ Shown(l).col = n
    BY <2>1, <2>2, <2>3, <2>4, Zenon
  <2>7. /\ cur_col = n /\ (n > 0 => cur_row \in Rows)
        /\ \A i \in 1..n : pix[cur_row][i - 1].ch = u[i]
    BY <2>5, <2>6, Zenon DEF Shows
  <2>8. ASSUME NEW i \in 1..n, NEW cell, cell = (cur_row * fb_cols + cur_col) - n + i - 1
        PROVE  pix[cell \div fb_cols][cell % fb_cols].ch = u[i]
    <3>1. PICK r \in Nat, d \in Nat \ {0} : r = cur_row /\ d = fb_cols
      BY <2>1, Sizes DEF TermTyped
    <3>2. PICK p \in Nat : p = r * d
      OBVIOUS
    <3>3. PICK j \in 0..(d - 1) : j = i - 1
      BY <2>5, <3>1
    <3>4. cell = (p + n) - n + i - 1
      BY <2>7, <2>8, <3>1, <3>2, Zenon
    <3>5. cell = r * d + j /\ cell \in Nat
      <4>1. cell = p + j /\ cell \in Nat
        BY <3>3, <3>4
      <4>2. QED
        BY <3>2, <4>1
    <3>6. cell \div d = r /\ cell % d = j
      BY <3>5, DivisionIs
    <3>7. pix[cell \div d][cell % d].ch = u[i]
      BY <2>7, <3>1, <3>3, <3>6, Zenon
    <3>8. QED
      BY <3>1, <3>7, Zenon
  <2>9. \A i \in 1..Len(u) :
          LET cell == (cur_row * fb_cols + cur_col) - Len(u) + i - 1
          IN  cell >= 0 => pix[cell \div fb_cols][cell % fb_cols].ch = u[i]
    BY <2>4, <2>8, Zenon
  <2>10. Prompt \o line = u
    BY <2>2, Zenon DEF u
  <2>11. \A i \in 1..Len(Prompt \o line) :
           LET cell == (cur_row * fb_cols + cur_col) - Len(Prompt \o line) + i - 1
           IN  cell >= 0 => pix[cell \div fb_cols][cell % fb_cols].ch = (Prompt \o line)[i]
    BY <2>9, <2>10, Zenon
  <2>12. QED
    BY <2>11
<1>2. OneRow => (ConsoleInit => LineInv)
  BY LineInit
<1>3. ConsoleInit => LineInv
  BY <1>2
<1>4. LineInv /\ [QuietNext]_conVars => LineInv'
  BY LineStep, Zenon
<1>5. QED
  BY <1>1, <1>3, <1>4, PTL DEF QuietSpec

------------------------------------------------------------------------------
(* Enter, whatever the line: while its handler runs, what is left to do    *)
(* will have the row show the prompt.  The handlers that end by drawing    *)
(* the cursor are Enter's and those that have made the line longer.        *)

Closing(s) == s # <<>> /\ s[Len(s)].op = "draw"
Entering == in_handler /\ line = <<>> /\ Closing(todo)
EnterInv == ConInv /\ (Entering => Follows(<<>>, todo))

LEMMA ClosingTail ==
  ASSUME NEW s \in Seq(Operation), s # <<>>
  PROVE  /\ Closing(Tail(s)) => Closing(s)
         /\ Tail(s) = <<>> /\ Head(s).op = "draw" => Closing(s)
<1> DEFINE t == Tail(s)
<1>1. Len(s) \in Nat /\ Len(s) >= 1 /\ t \in Seq(Operation) /\ Len(t) = Len(s) - 1
      /\ Head(s) = s[1]
  OBVIOUS
<1>2. \A k \in 1..Len(t) : t[k] = s[k + 1]
  OBVIOUS
<1> HIDE DEF t
<1>3. ASSUME Closing(t) PROVE Closing(s)
  <2>1. t # <<>> /\ t[Len(t)].op = "draw"
    BY <1>3 DEF Closing
  <2>2. Len(t) \in 1..Len(t) /\ Len(t) + 1 = Len(s)
    BY <1>1, <2>1
  <2>3. t[Len(t)] = s[Len(s)]
    BY <1>2, <2>2, Zenon
  <2>4. QED
    BY <2>1, <2>3, Zenon DEF Closing
<1>4. ASSUME t = <<>>, Head(s).op = "draw" PROVE Closing(s)
  <2>1. Len(s) = 1
    BY <1>1, <1>4
  <2>2. QED
    BY <1>1, <1>4, <2>1, Zenon DEF Closing
<1>5. QED
  BY <1>3, <1>4 DEF t

LEMMA EnterFollows ==
  ASSUME PromptFits, KeysTyped, NEW code, EnterKey(code)
  PROVE  Follows(<<>>, todo')
<1>1. PICK l \in Seq(Char \cup {NUL}) : l = line
  BY DEF KeysTyped
<1>2. todo' = EnterScript(l)
  BY <1>1, Zenon DEF EnterKey, Handle, EnterScript
<1>3. Lost \in Trail /\ Shows(Lost)
  BY TrailOf DEF Shows
<1>4. Leads(Track, EnterScript(l), Lost, Shown(<<>>))
  BY <1>3, EnterTrack
<1>5. <<>> \in Seq(Char)
  OBVIOUS
<1>6. QED
  BY <1>2, <1>3, <1>4, <1>5, Zenon DEF Follows

LEMMA NotEntering ==
  ASSUME KeysTyped, NEW code \in Keys, keyboard_handler(code), ~EnterKey(code)
  PROVE  ~Entering'
<1>1. ASSUME Handle(<<>>) PROVE ~Entering'
  BY <1>1 DEF Handle, Entering
<1>2. ASSUME BackspaceKey(code) PROVE ~Entering'
  <2>1. ASSUME Handle(<<Op("back")>>) PROVE ~Entering'
    <3>1. todo' = <<Op("back")>>
      BY <2>1 DEF Handle
    <3>2. ~Closing(<<Op("back")>>)
      BY DEF Closing, Op
    <3>3. QED
      BY <3>1, <3>2 DEF Entering
  <2>2. QED
    BY <1>1, <1>2, <2>1 DEF BackspaceKey
<1>3. ASSUME TypeKey(code) PROVE ~Entering'
  <2>1. PICK c : line' = Append(line, c)
    BY <1>3 DEF TypeKey, Store
  <2>2. line \in Seq(Char \cup {NUL})
    BY DEF KeysTyped
  <2>3. PICK l : l = line /\ l \in Seq(Char \cup {NUL})
    BY <2>2
  <2>4. Append(l, c) # <<>>
    BY <2>3
  <2>5. QED
    BY <2>1, <2>3, <2>4 DEF Entering
<1>4. QED
  BY <1>1, <1>2, <1>3 DEF keyboard_handler, ShiftKey, OtherRelease

LEMMA EnterInit == ConsoleInit => EnterInv
BY ConInit DEF ConsoleInit, EnterInv, Entering

LEMMA EnterStep == PromptFits => (EnterInv /\ [QuietNext]_conVars => EnterInv')
<1> SUFFICES ASSUME PromptFits, EnterInv, [QuietNext]_conVars PROVE EnterInv'
  OBVIOUS
<1>1. ConInv /\ TermTyped /\ KeysTyped
  BY DEF EnterInv, ConInv
<1>2. ConInv'
  BY <1>1, ConStep DEF QuietNext, ConsoleNext
<1>3. PICK m \in Phase : Leads(Calm, todo, m, "rest") /\ InPlace(m)
  BY <1>1 DEF ConInv, Underway
<1> DEFINE Goal == Entering' => Follows(<<>>, todo)'
<1> HIDE DEF Goal
<1>4. ASSUME Continue PROVE Goal
  <2>1. ASSUME Reset PROVE Goal
    BY <2>1 DEF Reset, Entering, Goal
  <2>2. ASSUME NEW n \in Phase, Proceeds(m, n) PROVE Goal
    <3>1. SUFFICES ASSUME Entering' PROVE Follows(<<>>, todo)'
      BY DEF Goal
    <3>2. todo' = Tail(todo) /\ todo # <<>> /\ line' = line /\ (in_handler' => in_handler)
      BY <2>2 DEF Proceeds, keyVars
    <3>3. todo \in Seq(Operation)
      BY <1>3 DEF Leads
    <3>4. Entering
      <4>1. PICK s \in Seq(Operation) : s = todo
        BY <3>3
      <4>2. Closing(Tail(s)) /\ s # <<>>
        BY <3>1, <3>2, <4>1 DEF Entering
      <4>3. Closing(s)
        BY <4>2, ClosingTail
      <4>4. QED
        BY <3>1, <3>2, <4>1, <4>3 DEF Entering
    <3>5. Follows(<<>>, todo)
      BY <3>4 DEF EnterInv
    <3>6. QED
      BY <1>1, <1>3, <2>2, <3>5, FollowsOn
  <2>3. QED
    BY <1>3, <1>4, <2>1, <2>2, ContinueStep
<1>5. ASSUME todo = <<>>, timer_handler PROVE Goal
  BY <1>5 DEF timer_handler, Entering, Closing, Goal
<1>6. ASSUME NEW code \in Keys, keyboard_handler(code) PROVE Goal
  <2>1. CASE EnterKey(code)
    <3>1. Follows(<<>>, todo')
      BY <1>1, <2>1, EnterFollows
    <3>2. \A t : Shows(t) => Shows(t)'
      BY <1>6 DEF keyboard_handler, Shows, termVars
    <3>3. QED
      BY <3>1, <3>2, Zenon DEF Follows, Goal
  <2>2. CASE ~EnterKey(code)
    BY <1>1, <1>6, <2>2, NotEntering DEF Goal
  <2>3. QED
    BY <2>1, <2>2
<1>7. ASSUME UNCHANGED conVars PROVE Goal
  <2>1. UNCHANGED <<line, todo, in_handler>> /\ UNCHANGED termVars
    BY <1>7 DEF conVars, keyVars
  <2>2. \A t : Shows(t) => Shows(t)'
    BY <2>1 DEF Shows, termVars
  <2>3. Entering' => Entering
    BY <2>1 DEF Entering
  <2>4. QED
    BY <2>1, <2>2, <2>3, Zenon DEF Follows, Goal, EnterInv
<1>8. Goal
  BY <1>4, <1>5, <1>6, <1>7 DEF QuietNext
<1>9. QED
  BY <1>2, <1>8 DEF EnterInv, Goal

(* The last operation of Enter's handler leaves the cursor behind the      *)
(* prompt, and nothing else in the row.                                    *)
LEMMA EnterEnds ==
  ASSUME PromptFits, EnterInv, PicInv, QuietNext, EnterIsDone
  PROVE  todo' = <<>> /\ Shows(Shown(<<>>))'
<1>1. ConInv /\ TermTyped /\ KeysTyped
  BY DEF EnterInv, ConInv
<1>2. /\ in_handler /\ ~in_handler' /\ line = <<>> /\ Head(todo).op = "draw"
      /\ todo # <<>>
  BY <1>1 DEF EnterIsDone, KeysTyped
<1>3. PICK m \in Phase : Leads(Calm, todo, m, "rest") /\ InPlace(m)
  BY <1>1 DEF ConInv, Underway
<1>4. Continue
  BY <1>2 DEF QuietNext, keyboard_handler
<1>5. ~Reset
  BY <1>2 DEF Reset
<1>6. PICK n \in Phase : Proceeds(m, n)
  BY <1>3, <1>4, <1>5, ContinueStep
<1>7. todo' = Tail(todo) /\ Tail(todo) = <<>> /\ Do(Head(todo))
  BY <1>2, <1>6 DEF Proceeds
<1>8. PICK s \in Seq(Operation) : s = todo
  BY <1>3 DEF Leads
<1>9. Follows(<<>>, todo)
  <2>1. Closing(s)
    BY <1>2, <1>7, <1>8, ClosingTail
  <2>2. QED
    BY <1>2, <1>8, <2>1 DEF EnterInv, Entering
<1>10. Follows(<<>>, todo)'
  BY <1>1, <1>3, <1>6, <1>9, FollowsOn
<1>11. todo' = <<>>
  BY <1>7
<1>12. Shows(Shown(<<>>))'
  <2>1. PICK t \in Trail : Shows(t)' /\ Leads(Track, <<>>, t, Shown(<<>>))
    BY <1>10, <1>11, Zenon DEF Follows
  <2>2. t = Shown(<<>>)
    BY <2>1, LeadsStays
  <2>3. QED
    BY <2>1, <2>2, Zenon
<1>13. QED
  BY <1>11, <1>12

(* On every screen whose rows hold the prompt, whatever line was entered   *)
(* and however long, and whatever its command printed, scrolled, cleared   *)
(* or redrew, the prompt then stands at the left edge of the cursor's row, *)
(* alone (keyboard.c:50-60, fb.c:88-96, 125-137, 156-190).                 *)
THEOREM PromptFollowsEnter == PromptFits => (QuietSpec => PromptAfterEnter)
<1> SUFFICES ASSUME PromptFits PROVE QuietSpec => PromptAfterEnter
  OBVIOUS
<1>1. ASSUME EnterInv, PicInv, PicInv', QuietNext, EnterIsDone PROVE PromptAlone
  <2>1. todo' = <<>> /\ Shows(Shown(<<>>))'
    BY <1>1, EnterEnds
  <2>2. BlankFrom(cur_row, cur_col)'
    <3>1. PICK m \in Phase : Leads(Calm, todo', m, "rest") /\ Clean(m)'
      BY <1>1 DEF PicInv, Underway
    <3>2. m = "rest"
      BY <2>1, <3>1, LeadsStays
    <3>3. QED
      BY <3>1, <3>2 DEF Clean
  <2>3. PICK u \in Seq(Char) : u = Prompt
    BY TextTyped
  <2>4. PICK n \in Nat : n = Len(u) /\ n > 0 /\ n < fb_cols
    BY <2>3 DEF PromptFits, Prompt
  <2>5. Shown(<<>>).txt = u /\ Shown(<<>>).seen = n /\ Shown(<<>>).col = n
    <3>1. Shown(<<>>) = At(u, n)
      <4>1. u \o <<>> = u
        OBVIOUS
      <4>2. QED
        BY <2>3, <2>4, <4>1, Zenon DEF Shown
    <3>2. QED
      BY <2>4, <3>1, TrailOf
  <2>6. /\ cur_col' = n /\ cur_row' \in Rows
        /\ \A i \in 1..n : pix'[cur_row'][i - 1].ch = u[i]
    BY <2>1, <2>4, <2>5 DEF Shows
  <2>7. ASSUME NEW c \in Cols PROVE pix'[cur_row'][c].ch = IF c < n THEN u[c + 1] ELSE Space
    <3>1. c \in Nat
      BY Sizes
    <3>2. CASE c < n
      <4>1. c + 1 \in 1..n /\ (c + 1) - 1 = c
        BY <2>4, <3>1, <3>2
      <4>2. pix'[cur_row'][(c + 1) - 1].ch = u[c + 1]
        BY <2>6, <4>1, Zenon
      <4>3. QED
        BY <3>2, <4>1, <4>2
    <3>3. CASE ~(c < n)
      <4>1. c >= cur_col' /\ cur_row' \in Rows
        BY <2>4, <2>6, <3>1, <3>3
      <4>2. pix'[cur_row'][c].ch = Space
        BY <2>2, <4>1 DEF BlankFrom, Blank
      <4>3. QED
        BY <3>3, <4>2
    <3>4. QED
      BY <3>2, <3>3
  <2>8. n = Len(Prompt) /\ u = Prompt
    BY <2>3, <2>4, Zenon
  <2>9. QED
    BY <2>6, <2>7, <2>8, Zenon DEF PromptAlone
<1>2. ConsoleInit => EnterInv
  BY EnterInit
<1>3. EnterInv /\ [QuietNext]_conVars => EnterInv'
  BY EnterStep, Zenon
<1>4. QuietSpec => []PicInv
  BY PicInvariant
<1>5. EnterInv /\ PicInv /\ PicInv' /\ [QuietNext]_conVars => [EnterIsDone => PromptAlone]_conVars
  BY <1>1, Zenon
<1>6. QED
  BY <1>2, <1>3, <1>4, <1>5, PTL DEF QuietSpec, PromptAfterEnter

================================================================================
