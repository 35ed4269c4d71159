--------------------------- MODULE Options_proofs ---------------------------
(***************************************************************************)
(* The loop around getopt_long ends on every command line, on none does    *)
(* the program run, on a file at the end of the line, with an option for a *)
(* value, and a line of options and then operands means what the usage     *)
(* text says, if none of its options is one that text and code disagree    *)
(* on.  The arguments: getopt_long moves about the elements before optind  *)
(* alone, and the operand that it skipped first stays the first of those   *)
(* it has yet to hand over; while it has met no operand it moves nothing,  *)
(* the tables of the code say of each option what the text says, optind    *)
(* goes from one option of the line to the next, and what has been kept is *)
(* what the options before optind say.                                     *)
(***************************************************************************)
EXTENDS Options, SequenceTheorems, FiniteSetTheorems, WellFoundedInduction,
        TLAPS

\* What getopt_long has gone through lies before optind, permuted; what it has
\* not lies where it was typed.
Arranged(g) ==
  /\ g \in [argv : Seq(Nat), optind : Nat, first : Nat, last : Nat]
  /\ Len(g.argv) = Len(line)
  /\ g.first \in 1..g.optind /\ g.optind <= argc
  /\ \A p \in g.optind..Len(line) : g.argv[p] = p
  /\ \A p \in 1..(g.optind - 1) : g.argv[p] < g.optind

WellFormed(g) == Arranged(g) /\ g.last \in g.first..g.optind

\* The operand skipped first is not the last element of the line.
Holding(g) == g.first < g.last /\ g.argv[g.first] # Len(line)

-----------------------------------------------------------------------------
(* Numbers *)

LEMMA LeastNatural ==
  ASSUME NEW T, T \subseteq Nat, T # {}
  PROVE  Min(T) \in T /\ \A y \in T : Min(T) <= y
<1> DEFINE R == OpToRel(<, Nat)
<1>1. \E x \in T : \A y \in T : <<y, x>> \notin R
  <2> HIDE DEF R
  <2>1. IsWellFoundedOn(R, Nat)
    BY NatLessThanWellFounded DEF R
  <2> QED
    BY <2>1, WFMin
<1>2. \E x \in T : \A y \in T : x <= y
  <2>1. PICK x \in T : \A y \in T : <<y, x>> \notin R
    BY <1>1
  <2>2. \A y \in T : ~(y < x)
    BY <2>1 DEF OpToRel
  <2>3. \A y \in T : x <= y
    BY <2>2
  <2> QED
    BY <2>3
<1> QED
  BY <1>2 DEF Min

LEMMA MinOfTwo ==
  ASSUME NEW a \in Nat, NEW b \in Nat, a <= b
  PROVE  Min({a, b}) = a
<1>1. {a, b} \subseteq Nat /\ {a, b} # {}
  OBVIOUS
<1>2. Min({a, b}) \in {a, b} /\ Min({a, b}) <= a
  BY <1>1, LeastNatural
<1> QED
  BY <1>2

-----------------------------------------------------------------------------
(* exchange *)

\* The k elements behind the first i.
LEMMA Stretch ==
  ASSUME NEW s \in Seq(Nat), NEW i \in Nat, NEW k \in Nat, i + k <= Len(s)
  PROVE  /\ SubSeq(s, i + 1, i + k) \in Seq(Nat) /\ Len(SubSeq(s, i + 1, i + k)) = k
         /\ \A p \in 1..k : SubSeq(s, i + 1, i + k)[p] = s[i + p]
<1>1. \A p \in (i + 1)..(i + k) : s[p] \in Nat
  <2>1. \A p \in (i + 1)..(i + k) : p \in 1..Len(s)
    BY LenProperties
  <2> QED
    BY <2>1, ElementOfSeq
<1> DEFINE t == SubSeq(s, i + 1, i + k)
<1>2. /\ t \in Seq(Nat)
      /\ Len(t) = IF i + 1 <= i + k THEN (i + k) - (i + 1) + 1 ELSE 0
      /\ \A p \in 1..((i + k) - (i + 1) + 1) : t[p] = s[(i + 1) + p - 1]
  <2>1. i + 1 \in Int /\ i + k \in Int
    OBVIOUS
  <2>2. \A m, n \in Int : (\A p \in m..n : s[p] \in Nat)
          => /\ SubSeq(s, m, n) \in Seq(Nat)
             /\ Len(SubSeq(s, m, n)) = IF m <= n THEN n - m + 1 ELSE 0
             /\ \A p \in 1..(n - m + 1) : SubSeq(s, m, n)[p] = s[m + p - 1]
    BY SubSeqProperties
  <2> QED
    BY <1>1, <2>1, <2>2
<1>3. /\ (i + k) - (i + 1) + 1 = k /\ (i + 1 <= i + k \/ k = 0)
      /\ \A p \in 1..k : (i + 1) + p - 1 = i + p
  OBVIOUS
<1> HIDE DEF t
<1>4. Len(t) = k
  BY <1>2, <1>3
<1>5. \A p \in 1..k : t[p] = s[i + p]
  BY <1>2, <1>3
<1> QED
  BY <1>2, <1>4, <1>5 DEF t

LEMMA Concatenation ==
  ASSUME NEW s \in Seq(Nat), NEW t \in Seq(Nat)
  PROVE  /\ s \o t \in Seq(Nat) /\ Len(s \o t) = Len(s) + Len(t)
         /\ \A i \in 1..Len(s) : (s \o t)[i] = s[i]
         /\ \A i \in 1..Len(t) : (s \o t)[Len(s) + i] = t[i]
<1> DEFINE m == Len(s)
           n == Len(t)
<1>1. /\ s \o t \in Seq(Nat) /\ Len(s \o t) = m + n
      /\ \A i \in 1..(m + n) : (s \o t)[i] = IF i <= m THEN s[i] ELSE t[i - m]
  BY ConcatProperties
<1>2. m \in Nat /\ n \in Nat
  BY LenProperties
<1> HIDE DEF m, n
<1>3. \A i \in 1..n : m + i \in 1..(m + n) /\ ~(m + i <= m) /\ (m + i) - m = i
  BY <1>2
<1>4. \A i \in 1..m : i \in 1..(m + n) /\ i <= m
  BY <1>2
<1>5. /\ \A i \in 1..m : (s \o t)[i] = s[i]
      /\ \A i \in 1..n : (s \o t)[m + i] = t[i]
  BY <1>1, <1>3, <1>4
<1> QED
  BY <1>1, <1>5 DEF m, n

\* t is w, x, y and z, one behind the other.
Joined(t, w, x, y, z) ==
  /\ t \in Seq(Nat) /\ Len(t) = Len(w) + Len(x) + Len(y) + Len(z)
  /\ \A p \in 1..Len(w) : t[p] = w[p]
  /\ \A p \in 1..Len(x) : t[Len(w) + p] = x[p]
  /\ \A p \in 1..Len(y) : t[Len(w) + Len(x) + p] = y[p]
  /\ \A p \in 1..Len(z) : t[Len(w) + Len(x) + Len(y) + p] = z[p]

LEMMA FourPieces ==
  ASSUME NEW w \in Seq(Nat), NEW x \in Seq(Nat), NEW y \in Seq(Nat), NEW z \in Seq(Nat)
  PROVE  Joined(w \o x \o y \o z, w, x, y, z)
<1> DEFINE i == Len(w)
           j == Len(x)
           k == Len(y)
           l == Len(z)
<1> DEFINE wx == w \o x
           wxy == wx \o y
           t == wxy \o z
<1>0. i \in Nat /\ j \in Nat /\ k \in Nat /\ l \in Nat
  BY LenProperties
<1>1. /\ wx \in Seq(Nat) /\ Len(wx) = i + j
      /\ \A p \in 1..i : wx[p] = w[p]
      /\ \A p \in 1..j : wx[i + p] = x[p]
  BY <1>0, Concatenation
<1> HIDE DEF wx, i, j, k, l
<1>2. /\ wxy \in Seq(Nat) /\ Len(wxy) = i + j + k
      /\ \A p \in 1..(i + j) : wxy[p] = wx[p]
      /\ \A p \in 1..k : wxy[i + j + p] = y[p]
  <2>1. /\ wxy \in Seq(Nat) /\ Len(wxy) = Len(wx) + Len(y)
        /\ \A p \in 1..Len(wx) : wxy[p] = wx[p]
        /\ \A p \in 1..Len(y) : wxy[Len(wx) + p] = y[p]
    BY <1>1, Concatenation
  <2> HIDE DEF wxy
  <2> QED
    BY <1>1, <2>1 DEF k
<1> HIDE DEF wxy
<1>3. /\ t \in Seq(Nat) /\ Len(t) = i + j + k + l
      /\ \A p \in 1..(i + j + k) : t[p] = wxy[p]
      /\ \A p \in 1..l : t[i + j + k + p] = z[p]
  <2>1. /\ t \in Seq(Nat) /\ Len(t) = Len(wxy) + Len(z)
        /\ \A p \in 1..Len(wxy) : t[p] = wxy[p]
        /\ \A p \in 1..Len(z) : t[Len(wxy) + p] = z[p]
    BY <1>2, Concatenation
  <2> HIDE DEF t
  <2> QED
    BY <1>2, <2>1 DEF l
<1> HIDE DEF t
<1>4. \A p \in 1..i : p \in 1..(i + j) /\ p \in 1..(i + j + k)
  BY <1>0
<1>5. \A p \in 1..j : i + p \in 1..(i + j) /\ i + p \in 1..(i + j + k)
  BY <1>0
<1>6. \A p \in 1..k : i + j + p \in 1..(i + j + k)
  BY <1>0
<1>7. \A p \in 1..i : t[p] = w[p]
  BY <1>1, <1>2, <1>3, <1>4
<1>8. \A p \in 1..j : t[i + p] = x[p]
  BY <1>1, <1>2, <1>3, <1>5
<1>9. \A p \in 1..k : t[i + j + p] = y[p]
  BY <1>2, <1>3, <1>6
<1> QED
  BY <1>3, <1>7, <1>8, <1>9 DEF Joined, t, wxy, wx, i, j, k, l

\* The k elements behind the first i change places with the j behind them, and
\* what is before and behind stays.
Exchanged(s, i, k, j, l) ==
  SubSeq(s, 1, i) \o SubSeq(s, i + k + 1, i + k + j) \o SubSeq(s, i + 1, i + k)
    \o SubSeq(s, i + k + j + 1, i + k + j + l)

ChangedPlaces(t, s, i, k, j, l) ==
  /\ t \in Seq(Nat) /\ Len(t) = Len(s)
  /\ \A p \in 1..i : t[p] = s[p]
  /\ \A p \in 1..j : t[i + p] = s[i + k + p]
  /\ \A p \in 1..k : t[i + j + p] = s[i + p]
  /\ \A p \in 1..l : t[i + k + j + p] = s[i + k + j + p]

LEMMA StretchesChangePlaces ==
  ASSUME NEW s \in Seq(Nat), NEW i \in Nat, NEW k \in Nat, NEW j \in Nat, NEW l \in Nat,
         Len(s) = i + k + j + l
  PROVE  ChangedPlaces(Exchanged(s, i, k, j, l), s, i, k, j, l)
<1> DEFINE w == SubSeq(s, 1, i)
           x == SubSeq(s, i + k + 1, i + k + j)
           y == SubSeq(s, i + 1, i + k)
           z == SubSeq(s, i + k + j + 1, i + k + j + l)
           t == Exchanged(s, i, k, j, l)
<1>1. w \in Seq(Nat) /\ Len(w) = i /\ \A p \in 1..i : w[p] = s[p]
  <2>1. 0 + 1 = 1 /\ 0 + i = i /\ i <= Len(s) /\ \A p \in 1..i : 0 + p = p
    OBVIOUS
  <2>2. /\ SubSeq(s, 0 + 1, 0 + i) \in Seq(Nat) /\ Len(SubSeq(s, 0 + 1, 0 + i)) = i
        /\ \A p \in 1..i : SubSeq(s, 0 + 1, 0 + i)[p] = s[0 + p]
    BY <2>1, Stretch
  <2> QED
    BY <2>1, <2>2
<1>2. x \in Seq(Nat) /\ Len(x) = j /\ \A p \in 1..j : x[p] = s[i + k + p]
  <2>1. i + k \in Nat /\ i + k + j <= Len(s)
    OBVIOUS
  <2> QED
    BY <2>1, Stretch
<1>3. y \in Seq(Nat) /\ Len(y) = k /\ \A p \in 1..k : y[p] = s[i + p]
  <2>1. i + k <= Len(s)
    OBVIOUS
  <2> QED
    BY <2>1, Stretch
<1>4. z \in Seq(Nat) /\ Len(z) = l /\ \A p \in 1..l : z[p] = s[i + k + j + p]
  <2>1. i + k + j \in Nat /\ i + k + j + l <= Len(s)
    OBVIOUS
  <2> QED
    BY <2>1, Stretch
<1>5. t = w \o x \o y \o z
  BY DEF Exchanged
<1> HIDE DEF w, x, y, z, t
<1>6. /\ t \in Seq(Nat) /\ Len(t) = i + j + k + l
      /\ \A p \in 1..i : t[p] = w[p]
      /\ \A p \in 1..j : t[i + p] = x[p]
      /\ \A p \in 1..k : t[i + j + p] = y[p]
      /\ \A p \in 1..l : t[i + j + k + p] = z[p]
  <2>1. Joined(t, w, x, y, z)
    BY <1>1, <1>2, <1>3, <1>4, <1>5, FourPieces
  <2> QED
    BY <1>1, <1>2, <1>3, <1>4, <2>1 DEF Joined
<1>7. i + j + k + l = i + k + j + l /\ \A p \in 1..l : i + j + k + p = i + k + j + p
  OBVIOUS
<1>8. Len(t) = Len(s)
  BY <1>6, <1>7
<1>9. \A p \in 1..l : t[i + k + j + p] = s[i + k + j + p]
  BY <1>4, <1>6, <1>7
<1>10. /\ \A p \in 1..i : t[p] = s[p]
       /\ \A p \in 1..j : t[i + p] = s[i + k + p]
       /\ \A p \in 1..k : t[i + j + p] = s[i + p]
  <2>1. \A p \in 1..i : t[p] = s[p]
    BY <1>1, <1>6
  <2>2. \A p \in 1..j : t[i + p] = s[i + k + p]
    BY <1>2, <1>6
  <2>3. \A p \in 1..k : t[i + j + p] = s[i + p]
    BY <1>3, <1>6
  <2> QED
    BY <2>1, <2>2, <2>3
<1> QED
  BY <1>6, <1>8, <1>9, <1>10 DEF t, ChangedPlaces

\* The lengths of the four stretches that first, last, optind and the end of
\* the line make.
Lengths(f, m, o, n) ==
  \E i \in Nat, k \in Nat \ {0}, j \in Nat, l \in Nat :
    f = i + 1 /\ m = i + k + 1 /\ o = i + k + j + 1 /\ n = i + k + j + l

LEMMA FourLengths ==
  ASSUME NEW f \in Nat \ {0}, NEW m \in Nat, NEW o \in Nat, NEW n \in Nat,
         f < m, m <= o, o <= n + 1
  PROVE  Lengths(f, m, o, n)
<1>1. /\ f - 1 \in Nat /\ m - f \in Nat \ {0} /\ o - m \in Nat /\ n + 1 - o \in Nat
      /\ f = (f - 1) + 1 /\ m = (f - 1) + (m - f) + 1
      /\ o = (f - 1) + (m - f) + (o - m) + 1
      /\ n = (f - 1) + (m - f) + (o - m) + (n + 1 - o)
  OBVIOUS
<1> QED
  BY <1>1 DEF Lengths

\* exchange keeps all in its place but what has been gone through, and the
\* first operand skipped is still the first.
LEMMA ExchangeArranges ==
  ASSUME line \in Lines, NEW g, WellFormed(g), g.first < g.last
  PROVE  /\ Arranged(exchange(g))
         /\ exchange(g).optind = g.optind /\ exchange(g).last = g.optind
         /\ exchange(g).first < g.optind
         /\ exchange(g).argv[exchange(g).first] = g.argv[g.first]
<1> DEFINE n == Len(line)
           s == g.argv
<1>1. n \in Nat
  BY LinesAssumption, LenProperties
<1>2. /\ g \in [argv : Seq(Nat), optind : Nat, first : Nat, last : Nat]
      /\ s \in Seq(Nat) /\ Len(s) = n
      /\ g.first \in Nat \ {0} /\ g.last \in Nat /\ g.optind \in Nat
      /\ g.first < g.last /\ g.last <= g.optind /\ g.optind <= n + 1
      /\ \A p \in g.optind..n : s[p] = p
      /\ \A p \in 1..(g.optind - 1) : s[p] < g.optind
  BY <1>1 DEF WellFormed, Arranged, argc
<1> HIDE DEF n, s
<1>3. PICK i \in Nat, k \in Nat \ {0}, j \in Nat, l \in Nat :
        /\ g.first = i + 1 /\ g.last = i + k + 1 /\ g.optind = i + k + j + 1
        /\ n = i + k + j + l
  <2>1. Lengths(g.first, g.last, g.optind, n)
    BY <1>1, <1>2, FourLengths
  <2> QED
    BY <2>1 DEF Lengths
<1> DEFINE t == Exchanged(s, i, k, j, l)
<1>4. exchange(g) = [g EXCEPT !.argv = t, !.first = i + j + 1, !.last = g.optind]
  <2>1. /\ (i + 1) - 1 = i /\ (i + k + j + 1) - 1 = i + k + j
        /\ (i + k + 1) - 1 = i + k
        /\ (i + 1) + (i + k + j + 1) - (i + k + 1) = i + j + 1
    OBVIOUS
  <2>2. t = SubSeq(s, 1, g.first - 1) \o SubSeq(s, g.last, g.optind - 1)
              \o SubSeq(s, g.first, g.last - 1) \o SubSeq(s, g.optind, Len(s))
    BY <1>2, <1>3, <2>1 DEF Exchanged
  <2>3. exchange(g) = [g EXCEPT !.argv = SubSeq(s, 1, g.first - 1)
                                           \o SubSeq(s, g.last, g.optind - 1)
                                           \o SubSeq(s, g.first, g.last - 1)
                                           \o SubSeq(s, g.optind, Len(s)),
                                !.first = g.first + g.optind - g.last,
                                !.last = g.optind]
    BY DEF exchange, s
  <2>4. g.first + g.optind - g.last = i + j + 1
    BY <1>3, <2>1
  <2> HIDE DEF t
  <2> QED
    BY <2>2, <2>3, <2>4
<1>5. /\ t \in Seq(Nat) /\ Len(t) = n
      /\ \A p \in 1..i : t[p] = s[p]
      /\ \A p \in 1..j : t[i + p] = s[i + k + p]
      /\ \A p \in 1..k : t[i + j + p] = s[i + p]
      /\ \A p \in 1..l : t[i + k + j + p] = s[i + k + j + p]
  <2>1. ChangedPlaces(t, s, i, k, j, l)
    <3>1. Len(s) = i + k + j + l
      BY <1>2, <1>3
    <3> QED
      BY <1>2, <3>1, StretchesChangePlaces
  <2> QED
    BY <1>2, <2>1 DEF ChangedPlaces
<1> HIDE DEF t
<1>6. /\ exchange(g) \in [argv : Seq(Nat), optind : Nat, first : Nat, last : Nat]
      /\ exchange(g).argv = t /\ exchange(g).first = i + j + 1
      /\ exchange(g).last = g.optind /\ exchange(g).optind = g.optind
  <2>1. i + j + 1 \in Nat
    OBVIOUS
  <2> HIDE DEF exchange
  <2> QED
    BY <1>2, <1>4, <1>5, <2>1
<1>7. \A p \in g.optind..n : t[p] = p
  <2> SUFFICES ASSUME NEW p \in g.optind..n PROVE t[p] = p
    OBVIOUS
  <2> DEFINE q == p - (i + k + j)
  <2>1. q \in 1..l /\ i + k + j + q = p
    BY <1>1, <1>2, <1>3
  <2> HIDE DEF q
  <2> QED
    BY <1>2, <1>5, <2>1
<1>8. \A p \in 1..(g.optind - 1) : t[p] < g.optind
  <2> SUFFICES ASSUME NEW p \in 1..(g.optind - 1) PROVE t[p] < g.optind
    OBVIOUS
  <2>1. CASE p \in 1..i
    BY <1>2, <1>5, <2>1
  <2>2. CASE p \in (i + 1)..(i + j)
    <3> DEFINE q == p - i
    <3>1. q \in 1..j /\ i + q = p /\ i + k + q \in 1..(g.optind - 1)
      BY <1>3, <2>2
    <3> HIDE DEF q
    <3> QED
      BY <1>2, <1>5, <3>1
  <2>3. CASE p \in (i + j + 1)..(i + j + k)
    <3> DEFINE q == p - (i + j)
    <3>1. q \in 1..k /\ i + j + q = p /\ i + q \in 1..(g.optind - 1)
      BY <1>3, <2>3
    <3> HIDE DEF q
    <3> QED
      BY <1>2, <1>5, <3>1
  <2>4. p \in 1..i \/ p \in (i + 1)..(i + j) \/ p \in (i + j + 1)..(i + j + k)
    BY <1>3
  <2> QED
    BY <2>1, <2>2, <2>3, <2>4
<1>9. t[i + j + 1] = s[g.first] /\ i + j + 1 \in 1..g.optind /\ i + j + 1 < g.optind
  <2>1. 1 \in 1..k
    OBVIOUS
  <2>2. t[i + j + 1] = s[i + 1]
    BY <1>5, <2>1
  <2> QED
    BY <1>3, <2>2
<1>10. Arranged(exchange(g))
  BY <1>1, <1>2, <1>5, <1>6, <1>7, <1>8, <1>9 DEF Arranged, argc, n
<1> QED
  BY <1>6, <1>9, <1>10 DEF s

-----------------------------------------------------------------------------
(* getopt_long *)

LEMMA GatheredArranges ==
  ASSUME line \in Lines, NEW g, WellFormed(g)
  PROVE  /\ Arranged(Gathered(g)) /\ Gathered(g).optind = g.optind
         /\ g.first < g.last => /\ Gathered(g).first < g.optind
                                /\ Gathered(g).argv[Gathered(g).first] = g.argv[g.first]
         /\ ~(g.first < g.last) => Gathered(g).first = g.optind
<1>1. /\ g \in [argv : Seq(Nat), optind : Nat, first : Nat, last : Nat]
      /\ g.first \in Nat \ {0} /\ g.last \in Nat /\ g.optind \in Nat
      /\ g.first <= g.last /\ g.last <= g.optind
      /\ Arranged(g)
  BY DEF WellFormed, Arranged
<1>2. CASE g.first < g.last
  <2>1. Gathered(g) = IF g.last # g.optind THEN exchange(g) ELSE g
    BY <1>1, <1>2 DEF Gathered
  <2>2. CASE g.last # g.optind
    BY <1>2, <2>1, <2>2, ExchangeArranges
  <2>3. CASE g.last = g.optind
    BY <1>1, <1>2, <2>1, <2>3
  <2> QED
    BY <2>2, <2>3
<1>3. CASE ~(g.first < g.last)
  <2>1. Gathered(g) = [g EXCEPT !.first = g.optind]
    BY <1>1, <1>3 DEF Gathered
  <2> HIDE DEF Gathered
  <2>2. /\ Gathered(g) \in [argv : Seq(Nat), optind : Nat, first : Nat, last : Nat]
        /\ Gathered(g).argv = g.argv /\ Gathered(g).optind = g.optind
        /\ Gathered(g).last = g.last /\ Gathered(g).first = g.optind
    BY <1>1, <2>1
  <2>3. Arranged(Gathered(g))
    BY <1>1, <2>2 DEF Arranged
  <2> QED
    BY <1>1, <1>3, <2>2, <2>3
<1> QED
  BY <1>2, <1>3

\* What has not been gone through lies where it was typed, so optind may move.
LEMMA OptindMoves ==
  ASSUME line \in Lines, NEW g, Arranged(g),
         NEW h \in [argv : Seq(Nat), optind : Nat, first : Nat, last : Nat],
         h.argv = g.argv, h.first = g.first, g.optind <= h.optind, h.optind <= argc
  PROVE  Arranged(h)
<1> DEFINE q == h.optind
<1>1. /\ g.argv \in Seq(Nat) /\ Len(g.argv) = Len(line) /\ Len(line) \in Nat
      /\ g.first \in 1..g.optind /\ g.optind \in Nat
      /\ \A p \in g.optind..Len(line) : g.argv[p] = p
      /\ \A p \in 1..(g.optind - 1) : g.argv[p] < g.optind
  BY LinesAssumption, LenProperties DEF Arranged
<1>2. q \in Nat /\ g.optind <= q /\ q <= argc /\ argc = Len(line) + 1
  BY <1>1 DEF argc
<1> HIDE DEF q
<1>3. \A p \in q..Len(line) : g.argv[p] = p
  BY <1>1, <1>2
<1>4. \A p \in 1..(q - 1) : g.argv[p] < q
  <2> SUFFICES ASSUME NEW p \in 1..(q - 1) PROVE g.argv[p] < q
    OBVIOUS
  <2>1. CASE p < g.optind
    <3>1. p \in 1..(g.optind - 1) /\ p \in 1..Len(g.argv)
      BY <1>1, <1>2, <2>1
    <3>2. g.argv[p] \in Nat
      BY <1>1, <3>1, ElementOfSeq
    <3>3. g.argv[p] < g.optind
      BY <1>1, <3>1
    <3>4. \A a, b, c \in Nat : a < b /\ b <= c => a < c
      OBVIOUS
    <3> QED
      BY <1>1, <1>2, <3>2, <3>3, <3>4
  <2>2. CASE ~(p < g.optind)
    <3>1. p \in g.optind..Len(line)
      BY <1>1, <1>2, <2>2
    <3>2. g.argv[p] = p
      BY <1>1, <3>1
    <3> QED
      BY <1>2, <3>2
  <2> QED
    BY <2>1, <2>2
<1> QED
  BY <1>1, <1>2, <1>3, <1>4 DEF Arranged, q

\* Behind the operands skipped, which are there if optind moved, is an option.
LEMMA SkippedArranges ==
  ASSUME line \in Lines, NEW g, WellFormed(g)
  PROVE  /\ WellFormed(Skipped(g))
         /\ g.optind <= Skipped(g).optind
         /\ Holding(g) => Holding(Skipped(g))
         /\ g.optind < Skipped(g).optind /\ Skipped(g).optind < argc
              => /\ Skipped(g).first < Skipped(g).last
                 /\ Skipped(g).last = Skipped(g).optind
<1> DEFINE h == Gathered(g)
           S == {p \in g.optind..argc : p = argc \/ Element(h, p).kind # "operand"}
           next == Min(S)
           a == [h EXCEPT !.optind = next, !.last = next]
           b == [a EXCEPT !.optind = next + 1]
           c == Gathered(b)
           d == [c EXCEPT !.last = argc, !.optind = argc]
<1>1. /\ g \in [argv : Seq(Nat), optind : Nat, first : Nat, last : Nat]
      /\ g.first \in Nat \ {0} /\ g.last \in Nat /\ g.optind \in Nat
      /\ g.first <= g.last /\ g.last <= g.optind /\ g.optind <= argc
      /\ argc \in Nat
  BY LinesAssumption, LenProperties DEF WellFormed, Arranged, argc
<1>2. Skipped(g) = IF next < argc /\ Element(a, next).kind = "--" THEN d ELSE a
  <2>1. Min({g.last, g.optind}) = g.last /\ Min({g.first, g.optind}) = g.first
    BY <1>1, MinOfTwo
  <2>2. [g EXCEPT !.last = g.last, !.first = g.first] = g
    BY <1>1
  <2>3. [g EXCEPT !.last = Min({@, g.optind}), !.first = Min({@, g.optind})] = g
    BY <2>1, <2>2
  <2> HIDE DEF Gathered, Element, Min
  <2> QED
    BY <2>3 DEF Skipped
<1>3. next \in g.optind..argc /\ next \in Nat
  <2>1. argc \in S /\ S \subseteq Nat
    BY <1>1
  <2> HIDE DEF S
  <2>2. next \in S
    BY <2>1, LeastNatural
  <2> QED
    BY <1>1, <2>2 DEF S
<1>4. /\ Arranged(h) /\ h.optind = g.optind
      /\ h \in [argv : Seq(Nat), optind : Nat, first : Nat, last : Nat]
      /\ h.first \in 1..g.optind
      /\ g.first < g.last => h.first < g.optind /\ h.argv[h.first] = g.argv[g.first]
  BY GatheredArranges DEF Arranged
<1> HIDE DEF h, next
<1>5. /\ a \in [argv : Seq(Nat), optind : Nat, first : Nat, last : Nat]
      /\ a.argv = h.argv /\ a.first = h.first /\ a.optind = next /\ a.last = next
  BY <1>3, <1>4
<1> HIDE DEF a
<1>6. WellFormed(a)
  <2>1. h.optind <= a.optind /\ a.optind <= argc
    BY <1>1, <1>3, <1>4, <1>5
  <2>2. Arranged(a)
    BY <1>4, <1>5, <2>1, OptindMoves
  <2> QED
    BY <1>1, <1>3, <1>4, <1>5, <2>2 DEF WellFormed
<1>7. Holding(g) => Holding(a)
  BY <1>1, <1>3, <1>4, <1>5 DEF Holding
<1>8. g.optind < next => a.first < a.last
  BY <1>1, <1>3, <1>4, <1>5
<1>9. ASSUME next < argc
      PROVE  WellFormed(d) /\ d.optind = argc /\ (Holding(g) => Holding(d))
  <2>1. /\ b \in [argv : Seq(Nat), optind : Nat, first : Nat, last : Nat]
        /\ b.argv = a.argv /\ b.first = a.first /\ b.optind = next + 1 /\ b.last = next
    BY <1>3, <1>5
  <2> HIDE DEF b
  <2>2. WellFormed(b)
    <3>1. next <= next + 1 /\ next + 1 <= argc
      BY <1>1, <1>3, <1>9
    <3>2. Arranged(b)
      BY <1>5, <1>6, <2>1, <3>1, OptindMoves DEF WellFormed
    <3> QED
      BY <1>1, <1>3, <1>4, <1>5, <2>1, <3>2 DEF WellFormed
  <2>3. /\ Arranged(c) /\ c.optind = next + 1
        /\ c \in [argv : Seq(Nat), optind : Nat, first : Nat, last : Nat]
        /\ c.first \in 1..(next + 1)
        /\ b.first < b.last => c.first < next + 1 /\ c.argv[c.first] = b.argv[b.first]
    BY <2>1, <2>2, GatheredArranges DEF Arranged
  <2> HIDE DEF c
  <2>4. /\ d \in [argv : Seq(Nat), optind : Nat, first : Nat, last : Nat]
        /\ d.argv = c.argv /\ d.first = c.first /\ d.optind = argc /\ d.last = argc
    BY <1>1, <2>3
  <2> HIDE DEF d
  <2>5. next + 1 <= argc /\ argc <= argc
    BY <1>1, <1>3, <1>9
  <2>6. WellFormed(d)
    <3>1. Arranged(d)
      BY <2>3, <2>4, <2>5, OptindMoves
    <3> QED
      BY <1>1, <1>3, <2>3, <2>4, <2>5, <3>1 DEF WellFormed
  <2>7. Holding(a) => Holding(d)
    <3> SUFFICES ASSUME a.first < a.last, a.argv[a.first] # Len(line)
                 PROVE  d.first < d.last /\ d.argv[d.first] # Len(line)
      BY DEF Holding
    <3>1. b.first < b.last
      BY <1>5, <2>1
    <3>2. c.first < next + 1 /\ c.argv[c.first] = b.argv[b.first]
      BY <2>3, <3>1
    <3>3. d.argv[d.first] # Len(line)
      BY <2>1, <2>4, <3>2
    <3>4. c.first \in Nat /\ d.first = c.first /\ d.last = argc
      BY <2>3, <2>4
    <3> QED
      BY <1>1, <1>3, <2>5, <3>2, <3>3, <3>4
  <2> QED
    BY <1>7, <2>4, <2>6, <2>7
<1> HIDE DEF d
<1>10. CASE Skipped(g) = a
  BY <1>3, <1>5, <1>6, <1>7, <1>8, <1>10
<1>11. CASE Skipped(g) = d /\ next < argc
  BY <1>1, <1>9, <1>11
<1> QED
  BY <1>2, <1>10, <1>11

-----------------------------------------------------------------------------
(* What the loop gets *)

\* A value that is an element of its own.
Detached(v) == v # NoValue /\ ~v.attached

Result(g, n, letter, optarg) ==
  [g |-> [g EXCEPT !.optind = g.optind + n], option |-> letter, optarg |-> optarg]

LEMMA ValIsNotEnd ==
  ASSUME NEW e, Known(e)
  PROVE  Val(e) # "end"
<1>1. CASE e.kind = "short"
  BY <1>1 DEF Known, Val, optstring
<1>2. CASE e.kind # "short"
  <2>1. e.text \in DOMAIN long_options
    BY <1>2 DEF Known
  <2>2. \A name \in DOMAIN long_options : long_options[name].val # "end"
    BY DEF long_options
  <2> QED
    BY <1>2, <2>1, <2>2 DEF Val
<1> QED
  BY <1>1, <1>2

\* One element is taken, or two, the second of which is the value.
LEMMA TakenIs ==
  ASSUME NEW g
  PROVE  \E letter, optarg :
           /\ letter # "end"
           /\ \/ Taken(g) = Result(g, 1, letter, optarg) /\ ~Detached(optarg)
              \/ Taken(g) = Result(g, 2, letter, optarg) /\ g.optind + 1 # argc
<1> DEFINE e == Element(g, g.optind)
           attached == e.attached # "none"
           onTheEnd == g.optind + 1 = argc
           value == [at |-> g.argv[g.optind], attached |-> TRUE]
           next == [at |-> g.argv[g.optind + 1], attached |-> FALSE]
<1>1. Taken(g) = CASE ~Known(e) -> Result(g, 1, "?", NoValue)
                   [] Known(e) /\ ~HasArg(e) ->
                        Result(g, 1, IF attached THEN "?" ELSE Val(e), NoValue)
                   [] Known(e) /\ HasArg(e) /\ attached -> Result(g, 1, Val(e), value)
                   [] Known(e) /\ HasArg(e) /\ ~attached /\ onTheEnd ->
                        Result(g, 1, ":", NoValue)
                   [] OTHER -> Result(g, 2, Val(e), next)
  BY DEF Taken, Result
<1>2. ~Detached(NoValue) /\ ~Detached(value)
  BY DEF Detached
<1>3. Known(e) => Val(e) # "end"
  BY ValIsNotEnd
<1> HIDE DEF e, attached, onTheEnd, value, next
<1>4. CASE ~Known(e)
  <2>1. Taken(g) = Result(g, 1, "?", NoValue)
    BY <1>1, <1>4
  <2> QED
    BY <1>2, <2>1
<1>5. CASE Known(e) /\ ~HasArg(e)
  <2>1. Taken(g) = Result(g, 1, IF attached THEN "?" ELSE Val(e), NoValue)
    BY <1>1, <1>5
  <2> QED
    BY <1>2, <1>3, <1>5, <2>1
<1>6. CASE Known(e) /\ HasArg(e) /\ attached
  <2>1. Taken(g) = Result(g, 1, Val(e), value)
    BY <1>1, <1>6
  <2> QED
    BY <1>2, <1>3, <1>6, <2>1
<1>7. CASE Known(e) /\ HasArg(e) /\ ~attached /\ onTheEnd
  <2>1. Taken(g) = Result(g, 1, ":", NoValue)
    BY <1>1, <1>7
  <2> QED
    BY <1>2, <2>1
<1>8. CASE Known(e) /\ HasArg(e) /\ ~attached /\ ~onTheEnd
  <2>1. Taken(g) = Result(g, 2, Val(e), next)
    BY <1>1, <1>8
  <2> QED
    BY <1>3, <1>8, <2>1 DEF onTheEnd
<1> QED
  BY <1>4, <1>5, <1>6, <1>7, <1>8

LEMMA OptindForward ==
  ASSUME line \in Lines, NEW s, WellFormed(s), NEW k \in s.optind..argc
  PROVE  /\ WellFormed([s EXCEPT !.optind = k])
         /\ Holding(s) => Holding([s EXCEPT !.optind = k])
         /\ k \in Nat /\ [s EXCEPT !.optind = k].optind = k
<1> DEFINE r == [s EXCEPT !.optind = k]
<1>1. /\ s \in [argv : Seq(Nat), optind : Nat, first : Nat, last : Nat]
      /\ s.first \in Nat /\ s.last \in Nat /\ s.optind \in Nat
      /\ s.first <= s.last /\ s.last <= s.optind
      /\ Arranged(s)
  BY DEF WellFormed, Arranged
<1>2. k \in Nat /\ s.optind <= k /\ k <= argc
  <2>1. argc \in Nat
    BY LinesAssumption, LenProperties DEF argc
  <2> QED
    BY <1>1, <2>1
<1>3. /\ r \in [argv : Seq(Nat), optind : Nat, first : Nat, last : Nat]
      /\ r.argv = s.argv /\ r.first = s.first /\ r.last = s.last /\ r.optind = k
  BY <1>1, <1>2
<1> HIDE DEF r
<1>4. Arranged(r)
  BY <1>1, <1>2, <1>3, OptindMoves
<1>5. WellFormed(r)
  BY <1>1, <1>2, <1>3, <1>4 DEF WellFormed
<1>6. Holding(s) => Holding(r)
  BY <1>3 DEF Holding
<1> QED
  BY <1>2, <1>3, <1>5, <1>6 DEF r

\* The call skips operands up to s.optind and takes n elements from there.
Calls(s, n, optarg) ==
  /\ WellFormed(s) /\ getopt.optind <= s.optind
  /\ Holding(getopt) => Holding(s)
  /\ getopt.optind < s.optind => s.first < s.last /\ s.last = s.optind
  /\ n \in {1, 2} /\ s.optind + n <= argc
  /\ Detached(optarg) => n = 2

LEMMA CallTakes ==
  ASSUME line \in Lines, WellFormed(getopt), getopt_long.option # "end"
  PROVE  \E s, n, letter, optarg :
           /\ Calls(s, n, optarg) /\ letter # "end"
           /\ getopt_long = Result(s, n, letter, optarg)
<1> DEFINE s == Skipped(getopt)
<1>1. /\ WellFormed(s) /\ getopt.optind <= s.optind
      /\ Holding(getopt) => Holding(s)
      /\ getopt.optind < s.optind /\ s.optind < argc
           => s.first < s.last /\ s.last = s.optind
  BY SkippedArranges
<1>2. s.optind < argc /\ getopt_long = Taken(s)
  <2> HIDE DEF s
  <2> QED
    BY DEF getopt_long, s
<1> HIDE DEF s
<1>3. s.optind \in Nat /\ argc \in Nat
  BY <1>1, LinesAssumption, LenProperties DEF WellFormed, Arranged, argc
<1>4. PICK letter, optarg :
        /\ letter # "end"
        /\ \/ Taken(s) = Result(s, 1, letter, optarg) /\ ~Detached(optarg)
           \/ Taken(s) = Result(s, 2, letter, optarg) /\ s.optind + 1 # argc
  BY TakenIs
<1>5. CASE Taken(s) = Result(s, 1, letter, optarg) /\ ~Detached(optarg)
  <2>1. s.optind + 1 <= argc
    BY <1>2, <1>3
  <2>2. Calls(s, 1, optarg)
    BY <1>1, <1>2, <1>5, <2>1 DEF Calls
  <2> QED
    BY <1>2, <1>4, <1>5, <2>2
<1>6. CASE Taken(s) = Result(s, 2, letter, optarg) /\ s.optind + 1 # argc
  <2>1. s.optind + 2 <= argc
    BY <1>2, <1>3, <1>6
  <2>2. Calls(s, 2, optarg)
    BY <1>1, <1>2, <2>1 DEF Calls
  <2> QED
    BY <1>2, <1>4, <1>6, <2>2
<1> QED
  BY <1>4, <1>5, <1>6

\* Every turn but the last moves optind on; if it leaves a detached value that
\* begins with a dash, operands were skipped, and the first of them is not the
\* end of the line.
LEMMA OptionMoves ==
  ASSUME line \in Lines, WellFormed(getopt), option.option # "end"
  PROVE  /\ WellFormed(option.g) /\ option.g.optind > getopt.optind
         /\ Holding(getopt) => Holding(option.g)
         /\ Detached(option.optarg) /\ BeginsWithDash(option.optarg) /\ option.option # ":"
              => Holding(option.g)
<1> DEFINE back == /\ getopt_long.optarg # NoValue
                   /\ getopt_long.g.optind = getopt.optind + 2
                   /\ BeginsWithDash(getopt_long.optarg)
<1>1. option = IF back THEN [getopt_long EXCEPT !.option = ":", !.g.optind = @ - 1]
                       ELSE getopt_long
  BY DEF option
<1>2. getopt_long.option # "end"
  <2> SUFFICES ASSUME getopt_long.option = "end" PROVE FALSE
    OBVIOUS
  <2>1. ~(Skipped(getopt).optind < argc)
    <3> SUFFICES ASSUME Skipped(getopt).optind < argc PROVE FALSE
      OBVIOUS
    <3>1. getopt_long = Taken(Skipped(getopt))
      BY DEF getopt_long
    <3>2. Taken(Skipped(getopt)).option # "end"
      BY TakenIs DEF Result
    <3> QED
      BY <3>1, <3>2
  <2>2. getopt_long.optarg = NoValue
    BY <2>1 DEF getopt_long
  <2> QED
    BY <1>1, <2>2
<1>3. PICK s, n, letter, optarg :
        /\ Calls(s, n, optarg) /\ letter # "end"
        /\ getopt_long = Result(s, n, letter, optarg)
  BY <1>2, CallTakes
<1>4. /\ getopt_long.g = [s EXCEPT !.optind = s.optind + n]
      /\ getopt_long.option = letter /\ getopt_long.optarg = optarg
  BY <1>3 DEF Result
<1>5. /\ s.optind \in Nat /\ argc \in Nat /\ getopt.optind \in Nat /\ n \in {1, 2}
      /\ getopt.optind <= s.optind /\ s.optind + n <= argc
  BY <1>3, LinesAssumption, LenProperties DEF Calls, WellFormed, Arranged, argc
<1>6. getopt_long.g.optind = s.optind + n
  <2>1. s \in [argv : Seq(Nat), optind : Nat, first : Nat, last : Nat]
    BY <1>3 DEF Calls, WellFormed, Arranged
  <2> QED
    BY <1>4, <2>1
<1>7. CASE back
  <2> DEFINE k == s.optind + n - 1
  <2>1. k \in s.optind..argc /\ k > getopt.optind
    BY <1>5, <1>6, <1>7
  <2>2. option.option = ":" /\ option.g = [s EXCEPT !.optind = k]
    <3> DEFINE o == getopt_long
    <3>1. option = [o EXCEPT !.option = ":", !.g.optind = @ - 1]
      BY <1>1, <1>7
    <3>2. o = [g |-> o.g, option |-> letter, optarg |-> optarg]
      BY <1>3 DEF Result
    <3> HIDE DEF o
    <3>3. option.option = ":" /\ option.g = [o.g EXCEPT !.optind = @ - 1]
      BY <3>1, <3>2
    <3>4. o.g = [s EXCEPT !.optind = s.optind + n]
      BY <1>4 DEF o
    <3>5. s \in [argv : Seq(Nat), optind : Nat, first : Nat, last : Nat]
      BY <1>3 DEF Calls, WellFormed, Arranged
    <3>6. o.g.optind - 1 = k
      BY <1>5, <1>6 DEF o
    <3>7. [o.g EXCEPT !.optind = o.g.optind - 1] = [s EXCEPT !.optind = k]
      <4> HIDE DEF k
      <4>1. ASSUME NEW x
            PROVE  [[s EXCEPT !.optind = x] EXCEPT !.optind = k] = [s EXCEPT !.optind = k]
        BY <3>5
      <4> QED
        BY <3>4, <3>6, <4>1
    <3> QED
      BY <3>3, <3>7
  <2> HIDE DEF k
  <2>3. /\ WellFormed([s EXCEPT !.optind = k])
        /\ Holding(s) => Holding([s EXCEPT !.optind = k])
        /\ [s EXCEPT !.optind = k].optind = k
    BY <1>3, <2>1, OptindForward DEF Calls
  <2> QED
    BY <1>3, <2>1, <2>2, <2>3 DEF Calls
<1>8. CASE ~back
  <2> DEFINE k == s.optind + n
  <2>1. k \in s.optind..argc /\ k > getopt.optind
    BY <1>5
  <2>2. option = getopt_long
    BY <1>1, <1>8
  <2>3. /\ WellFormed([s EXCEPT !.optind = k])
        /\ Holding(s) => Holding([s EXCEPT !.optind = k])
        /\ [s EXCEPT !.optind = k].optind = k
    <3> HIDE DEF k
    <3> QED
      BY <1>3, <2>1, OptindForward DEF Calls
  <2>4. ASSUME Detached(optarg), BeginsWithDash(optarg)
        PROVE  Holding(s)
    <3>1. optarg # NoValue /\ n = 2
      BY <1>3, <2>4 DEF Calls, Detached
    <3>2. s.optind + n # getopt.optind + 2
      BY <1>4, <1>6, <1>8, <2>4, <3>1
    <3>3. getopt.optind < s.optind
      BY <1>5, <3>1, <3>2
    <3>4. s.first < s.last /\ s.last = s.optind
      BY <1>3, <3>3 DEF Calls
    <3>5. s.first \in 1..(s.optind - 1)
      BY <1>3, <1>5, <3>4 DEF Calls, WellFormed, Arranged
    <3>6. s.argv[s.first] < s.optind
      BY <1>3, <3>5 DEF Calls, WellFormed, Arranged
    <3>7. s.optind <= Len(line) /\ Len(line) \in Nat
      BY <1>5, <3>1, LinesAssumption, LenProperties DEF argc
    <3> QED
      BY <1>5, <3>4, <3>6, <3>7 DEF Holding
  <2> QED
    BY <1>3, <1>4, <2>1, <2>2, <2>3, <2>4 DEF Calls
<1> QED
  BY <1>7, <1>8

\* The last turn hands over the operand skipped first.
LEMMA LastHandsOver ==
  ASSUME line \in Lines, WellFormed(getopt), option.option = "end", Holding(getopt)
  PROVE  option.g.argv[option.g.optind] # Len(line)
<1> DEFINE s == Skipped(getopt)
<1>1. WellFormed(s) /\ Holding(s)
  BY SkippedArranges
<1>2. ~(s.optind < argc)
  <2> SUFFICES ASSUME s.optind < argc PROVE FALSE
    OBVIOUS
  <2>1. getopt_long = Taken(s)
    BY DEF getopt_long
  <2>2. getopt_long.option # "end"
    BY <2>1, TakenIs DEF Result
  <2> QED
    BY <2>2 DEF option
<1>3. option = [g |-> [s EXCEPT !.optind = IF s.first # s.last THEN s.first ELSE @],
                option |-> "end", optarg |-> NoValue]
  BY <1>2 DEF option, getopt_long
<1>4. s \in [argv : Seq(Nat), optind : Nat, first : Nat, last : Nat]
  BY <1>1 DEF WellFormed, Arranged
<1> HIDE DEF s
<1>5. s.first # s.last
  BY <1>1, <1>4 DEF Holding
<1>6. option.g.argv = s.argv /\ option.g.optind = s.first
  BY <1>3, <1>4, <1>5
<1> QED
  BY <1>1, <1>6 DEF Holding

-----------------------------------------------------------------------------
(* The invariant *)

\* An option was taken for the value of the one of the letter.
Swallowed(letter) == Detached(names[letter]) /\ BeginsWithDash(names[letter])

\* Then an operand was skipped that is not the end of the line: it is the one
\* that will be left over first.
Remembered ==
  /\ WellFormed(getopt)
  /\ (\E letter \in FileNames : Swallowed(letter)) => Holding(getopt)

IInv ==
  /\ line \in Lines
  /\ DOMAIN names = FileNames \cup {"e", "pcap"}
  /\ outcome = "none" => Remembered
  /\ NoOptionSwallowed

LEMMA InitIInv == Init => IInv
<1> SUFFICES ASSUME Init PROVE IInv
  OBVIOUS
<1>1. line \in Lines /\ Len(line) \in Nat /\ argc = Len(line) + 1
  BY LinesAssumption, LenProperties DEF Init, argc
<1>2. DOMAIN names = FileNames \cup {"e", "pcap"}
  BY DEF Init, FileNames
<1>3. \A letter \in FileNames : ~Swallowed(letter)
  <2>1. \A letter \in FileNames : names[letter] = NoValue
    BY DEF Init, FileNames
  <2> QED
    BY <2>1 DEF Swallowed, Detached
<1>4. WellFormed(getopt)
  <2> DEFINE identity == [p \in 1..Len(line) |-> p]
  <2>1. identity \in Seq(Nat) /\ Len(identity) = Len(line)
    BY <1>1
  <2>2. \A p \in 1..Len(line) : identity[p] = p
    OBVIOUS
  <2> HIDE DEF identity
  <2>3. getopt = [argv |-> identity, optind |-> 1, first |-> 1, last |-> 1]
    BY DEF Init, identity
  <2>4. /\ getopt.argv = identity /\ getopt.optind = 1
        /\ getopt.first = 1 /\ getopt.last = 1
        /\ getopt \in [argv : Seq(Nat), optind : Nat, first : Nat, last : Nat]
    BY <2>1, <2>3
  <2>5. Arranged(getopt)
    BY <1>1, <2>1, <2>2, <2>4 DEF Arranged
  <2> QED
    BY <2>4, <2>5 DEF WellFormed
<1>5. NoOptionSwallowed
  BY DEF Init, NoOptionSwallowed
<1> QED
  BY <1>1, <1>2, <1>3, <1>4, <1>5 DEF IInv, Remembered

\* What is said of option.g holds of getopt after the turn.
LEMMA TurnHandsOn ==
  ASSUME NEW letters, "end" \notin letters, Turn(letters), IInv
  PROVE  /\ WellFormed(getopt)' /\ getopt'.optind > getopt.optind
         /\ (\E letter \in FileNames : Swallowed(letter)) => Holding(getopt)'
         /\ Detached(option.optarg) /\ BeginsWithDash(option.optarg) /\ option.option # ":"
              => Holding(getopt)'
<1>1. /\ line \in Lines /\ WellFormed(getopt) /\ option.option # "end"
      /\ (\E letter \in FileNames : Swallowed(letter)) => Holding(getopt)
  BY DEF IInv, Remembered, Turn
<1>2. /\ WellFormed(option.g) /\ option.g.optind > getopt.optind
      /\ Holding(getopt) => Holding(option.g)
      /\ Detached(option.optarg) /\ BeginsWithDash(option.optarg) /\ option.option # ":"
           => Holding(option.g)
  BY <1>1, OptionMoves
<1>3. getopt' = option.g /\ line' = line
  BY DEF Turn
<1> DEFINE g == option.g
<1>4. WellFormed(g) => WellFormed(getopt)'
  <2> HIDE DEF g
  <2> QED
    BY <1>3 DEF WellFormed, Arranged, argc, g
<1>5. Holding(g) => Holding(getopt)'
  <2> HIDE DEF g
  <2> QED
    BY <1>3 DEF Holding, g
<1>6. WellFormed(getopt)' /\ getopt'.optind > getopt.optind
  BY <1>2, <1>3, <1>4
<1>7. (\E letter \in FileNames : Swallowed(letter)) => Holding(getopt)'
  BY <1>1, <1>2, <1>5
<1>8. Detached(option.optarg) /\ BeginsWithDash(option.optarg) /\ option.option # ":"
        => Holding(getopt)'
  BY <1>2, <1>5
<1> QED
  BY <1>6, <1>7, <1>8

LEMMA NamesKept ==
  ASSUME NEW letters, "end" \notin letters, Turn(letters), IInv,
         UNCHANGED <<names, outcome>>
  PROVE  IInv'
<1>1. line' = line /\ names' = names /\ outcome' = outcome /\ outcome = "none"
  BY DEF Turn
<1>2. line' \in Lines /\ DOMAIN names' = FileNames \cup {"e", "pcap"}
  BY <1>1 DEF IInv
<1>3. ASSUME NEW letter \in FileNames, Swallowed(letter)'
      PROVE  Swallowed(letter)
  BY <1>1, <1>3 DEF Swallowed, Detached, BeginsWithDash
<1>4. Remembered'
  BY <1>3, TurnHandsOn DEF Remembered
<1>5. NoOptionSwallowed'
  BY <1>1 DEF NoOptionSwallowed
<1> QED
  BY <1>2, <1>4, <1>5 DEF IInv

LEMMA NextIInv == IInv /\ [Next]_vars => IInv'
<1> SUFFICES ASSUME IInv, [Next]_vars PROVE IInv'
  OBVIOUS
<1>1. ASSUME outcome' # "none", outcome' # "runs", line' = line, names' = names
      PROVE  IInv'
  BY <1>1 DEF IInv, NoOptionSwallowed
<1>2. CASE RecordEnvironment
  <2>1. Turn({"e"}) /\ names' = [names EXCEPT !.e = 1] /\ outcome' = outcome
    BY <1>2 DEF RecordEnvironment
  <2>2. line' = line /\ outcome = "none"
    BY <2>1 DEF Turn
  <2>3. \A letter \in FileNames : names'[letter] = names[letter]
    BY <2>1 DEF IInv, FileNames
  <2>4. ASSUME NEW letter \in FileNames, Swallowed(letter)'
        PROVE  Swallowed(letter)
    BY <2>2, <2>3, <2>4 DEF Swallowed, Detached, BeginsWithDash
  <2>5. Remembered'
    BY <2>1, <2>4, TurnHandsOn DEF Remembered
  <2>6. NoOptionSwallowed'
    BY <2>1, <2>2 DEF NoOptionSwallowed
  <2>7. line' \in Lines /\ DOMAIN names' = FileNames \cup {"e", "pcap"}
    BY <2>1, <2>2 DEF IInv
  <2> QED
    BY <2>5, <2>6, <2>7 DEF IInv
<1>3. CASE Help
  BY <1>1, <1>3 DEF Help, Turn
<1>4. CASE Name
  <2>1. Turn(FileNames) /\ line' = line /\ outcome = "none" /\ option.option \in FileNames
    BY <1>4 DEF Name, Turn
  <2>2. CASE names' = names /\ outcome' \in {"crash", "exit"}
    BY <1>1, <2>1, <2>2
  <2>3. CASE /\ names' = [names EXCEPT ![option.option] = option.optarg]
             /\ outcome' = outcome
    <3>0. PICK l, v : l = option.option /\ v = option.optarg
      OBVIOUS
    <3>1. /\ DOMAIN names' = FileNames \cup {"e", "pcap"} /\ names'[l] = v
          /\ \A letter \in FileNames \ {l} : names'[letter] = names[letter]
      BY <2>1, <2>3, <3>0 DEF IInv
    <3>2. "end" \notin FileNames /\ ":" \notin FileNames
      BY DEF FileNames
    <3>3. ASSUME NEW letter \in FileNames, letter # l, Swallowed(letter)'
          PROVE  Swallowed(letter)
      <4>1. names'[letter] = names[letter]
        BY <3>1, <3>3
      <4> QED
        BY <2>1, <3>3, <4>1 DEF Swallowed, Detached, BeginsWithDash
    <3>4. ASSUME Swallowed(l)'
          PROVE  Detached(v) /\ BeginsWithDash(v)
      BY <2>1, <3>1, <3>4 DEF Swallowed, Detached, BeginsWithDash
    <3>5. Remembered'
      <4>1. WellFormed(getopt)'
        BY <2>1, <3>2, TurnHandsOn
      <4>2. (\E letter \in FileNames : Swallowed(letter)) => Holding(getopt)'
        BY <2>1, <3>2, TurnHandsOn
      <4>3. Detached(v) /\ BeginsWithDash(v) => Holding(getopt)'
        BY <2>1, <3>2, <3>0, TurnHandsOn
      <4> QED
        BY <3>3, <3>4, <4>1, <4>2, <4>3 DEF Remembered
    <3>6. NoOptionSwallowed'
      BY <2>1, <2>3 DEF NoOptionSwallowed
    <3> QED
      BY <2>1, <3>1, <3>5, <3>6 DEF IInv
  <2> QED
    BY <1>4, <2>2, <2>3 DEF Name
<1>5. CASE Level
  <2>1. Turn({"d"}) /\ names' = names
    BY <1>5 DEF Level
  <2>2. line' = line /\ (outcome' = outcome \/ outcome' = "exit")
    BY <1>5 DEF Level, Turn
  <2>3. CASE outcome' = outcome
    BY <2>1, <2>3, NamesKept
  <2> QED
    BY <1>1, <2>1, <2>2, <2>3
<1>6. CASE Wrong
  BY <1>6, NamesKept DEF Wrong
<1>7. CASE Default
  BY <1>7, NamesKept DEF Default
<1>8. CASE Finish
  <2>1. /\ line' = line /\ outcome = "none" /\ option.option = "end"
        /\ \/ outcome' = "exit" /\ names' = names
           \/ /\ outcome' = "runs"
              /\ names' = [names EXCEPT !.pcap = option.g.argv[option.g.optind]]
    BY <1>8 DEF Finish, Turn
  <2>2. CASE outcome' = "exit" /\ names' = names
    BY <1>1, <2>1, <2>2
  <2>3. CASE /\ outcome' = "runs"
             /\ names' = [names EXCEPT !.pcap = option.g.argv[option.g.optind]]
    <3>1. /\ DOMAIN names' = FileNames \cup {"e", "pcap"}
          /\ names'.pcap = option.g.argv[option.g.optind]
          /\ \A letter \in FileNames : names'[letter] = names[letter]
      BY <2>3 DEF IInv, FileNames
    <3>2. ASSUME names'.pcap = Len(line)
          PROVE  \A letter \in FileNames : ~Swallowed(letter)
      <4>1. ~Holding(getopt)
        BY <2>1, <3>1, <3>2, LastHandsOver DEF IInv, Remembered
      <4> QED
        BY <2>1, <4>1 DEF IInv, Remembered
    <3>3. ASSUME NEW letter \in FileNames, ~Swallowed(letter)
          PROVE  (names[letter] = NoValue \/ names[letter].attached
                    \/ ~BeginsWithDash(names[letter]))'
      BY <2>1, <3>1, <3>3 DEF Swallowed, Detached, BeginsWithDash
    <3>4. NoOptionSwallowed'
      BY <2>1, <3>2, <3>3 DEF NoOptionSwallowed
    <3> QED
      BY <2>1, <2>3, <3>1, <3>4 DEF IInv
  <2> QED
    BY <2>1, <2>2, <2>3
<1>9. CASE UNCHANGED vars
  BY <1>9 DEF IInv, Remembered, WellFormed, Arranged, Holding, Swallowed, Detached,
              BeginsWithDash, NoOptionSwallowed, argc, vars
<1> QED
  BY <1>2, <1>3, <1>4, <1>5, <1>6, <1>7, <1>8, <1>9 DEF Next, Stopped

\* Between two calls of getopt_long what it has gone through lies before optind
\* and the rest where it was typed, and an option that was taken for a value is
\* always behind an operand that is still to come.
THEOREM OptionsInvariance == Spec => []IInv
  BY InitIInv, NextIInv, PTL DEF Spec

\* The check that the loop makes on optarg misses an option when operands were
\* skipped: then the file that is opened is not the one at the end of the line.
THEOREM NoOptionIsSwallowed == Spec => []NoOptionSwallowed
<1>1. IInv => NoOptionSwallowed
  BY DEF IInv
<1> QED
  BY <1>1, OptionsInvariance, PTL

\* Taking an option back takes less back than the call had gone forward, on
\* every line without clusters of short options and for every permutation of
\* it: there handle_options ends.
THEOREM LoopAdvances == Spec => EachTurnAdvances
<1> DEFINE Advances == outcome' = "none" => getopt'.optind > getopt.optind
<1>1. IInv /\ [Next]_vars => [Advances]_vars
  <2> SUFFICES ASSUME IInv, Next, outcome' = "none"
               PROVE  getopt'.optind > getopt.optind
    BY DEF vars
  <2>1. ASSUME NEW letters, Turn(letters), "end" \notin letters
        PROVE  getopt'.optind > getopt.optind
    BY <2>1, TurnHandsOn
  <2>2. "end" \notin FileNames
    BY DEF FileNames
  <2>3. ~Finish /\ ~Help /\ ~Stopped
    BY DEF Finish, Help, Stopped, vars
  <2>4. \/ Turn({"e"}) \/ Turn(FileNames) \/ Turn({"d"}) \/ Turn({"?", ":"})
        \/ Turn({"p"})
    BY <2>3 DEF Next, RecordEnvironment, Name, Level, Wrong, Default
  <2> QED
    BY <2>1, <2>2, <2>4
<1>2. Spec => [][Advances]_vars
  BY <1>1, OptionsInvariance, PTL DEF Spec
<1> QED
  BY <1>2 DEF EachTurnAdvances

-----------------------------------------------------------------------------
(* What the line means *)

\* The line is a sequence of elements of four kinds.
LEMMA LineFacts ==
  ASSUME line \in Lines
  PROVE  /\ Len(line) \in Nat /\ argc = Len(line) + 1 /\ argc \in Nat
         /\ DOMAIN line = 1..Len(line)
         /\ \A p \in 1..Len(line) :
              line[p].kind \in {"operand", "short", "long", "--"}
<1>1. line \in Seq([kind : {"operand", "short", "long", "--"},
                    text : STRING, attached : STRING])
  BY LinesAssumption
<1>2. \A p \in 1..Len(line) : line[p] \in [kind : {"operand", "short", "long", "--"},
                                           text : STRING, attached : STRING]
  BY <1>1, ElementOfSeq
<1> QED
  BY <1>1, <1>2, LenProperties DEF argc

\* An option takes its own element and at most the next one.
LEMMA WidthIs == \A p : Width(p) \in {1, 2}
BY DEF Width

\* The positions where an option or an operand begins are the least set with 1
\* that has with a position the one behind the option and its value.
LEMMA BeginsAre ==
  ASSUME line \in Lines
  PROVE  /\ Begins \subseteq 1..Len(line)
         /\ \A p \in 1..Len(line) :
              p \in Begins <=> p = 1 \/ \E q \in Begins : q + Width(q) = p
<1> DEFINE N == 1..Len(line)
           Closed(S) == /\ \A p \in N : p = 1 => p \in S
                        /\ \A q \in S : q + Width(q) \in N => q + Width(q) \in S
           L == {p \in N : \A S \in SUBSET N : Closed(S) => p \in S}
           Solves(f) ==
             f = [p \in N |-> p = 1 \/ \E q \in {p - 1, p - 2} \cap N :
                                         f[q] /\ q + Width(q) = p]
           g == [p \in N |-> p \in L]
<1>1. Len(line) \in Nat
  BY LineFacts
<1>2. Closed(L)
  <2>1. \A p \in N : p = 1 => p \in L
    OBVIOUS
  <2>2. ASSUME NEW q \in L, q + Width(q) \in N
        PROVE  q + Width(q) \in L
    <3>1. \A S \in SUBSET N : Closed(S) => q \in S
      OBVIOUS
    <3>2. \A S \in SUBSET N : Closed(S) => q + Width(q) \in S
      BY <2>2, <3>1
    <3> QED
      BY <2>2, <3>2
  <2> QED
    BY <2>1, <2>2
<1>3. ASSUME NEW p \in L, p # 1, \A q \in L : q + Width(q) # p
      PROVE  FALSE
  <2> DEFINE S == L \ {p}
  <2>1. S \in SUBSET N
    OBVIOUS
  <2>2. Closed(S)
    BY <1>2, <1>3
  <2>3. p \in S
    BY <2>1, <2>2
  <2> QED
    BY <2>3
<1>4. \A p \in N : p \in L <=> p = 1 \/ \E q \in L : q + Width(q) = p
  <2> HIDE DEF L
  <2> QED
    BY <1>2, <1>3
<1>5. \A p \in N : \A B : B \subseteq N =>
        ((\E q \in {p - 1, p - 2} \cap N : q \in B /\ q + Width(q) = p)
           <=> \E q \in B : q + Width(q) = p)
  <2> SUFFICES ASSUME NEW p \in N, NEW B, B \subseteq N, NEW q \in B, q + Width(q) = p
               PROVE  q \in {p - 1, p - 2} \cap N
    OBVIOUS
  <2>1. q \in Int /\ p \in Int /\ Width(q) \in {1, 2}
    BY WidthIs
  <2> QED
    BY <2>1
<1>6. Solves(g)
  <2>1. L \subseteq N
    OBVIOUS
  <2> HIDE DEF L
  <2>2. \A p \in N : g[p] <=> p = 1 \/ \E q \in {p - 1, p - 2} \cap N :
                                         g[q] /\ q + Width(q) = p
    <3> SUFFICES ASSUME NEW p \in N
                 PROVE  p \in L <=> p = 1 \/ \E q \in {p - 1, p - 2} \cap N :
                                               q \in L /\ q + Width(q) = p
      OBVIOUS
    <3> QED
      BY <1>4, <1>5, <2>1
  <2> DEFINE R(p) == p = 1 \/ \E q \in {p - 1, p - 2} \cap N : g[q] /\ q + Width(q) = p
  <2>3. \A p \in N : (p \in L) = R(p)
    <3> SUFFICES ASSUME NEW p \in N PROVE (p \in L) = R(p)
      OBVIOUS
    <3>1. g[p] <=> R(p)
      BY <2>2
    <3>2. g[p] = (p \in L)
      OBVIOUS
    <3>3. (p \in L) <=> R(p)
      BY <3>1, <3>2
    <3> DEFINE x == p \in L
               y == R(p)
    <3>4. x \in BOOLEAN /\ y \in BOOLEAN /\ (x <=> y)
      BY <3>3
    <3> HIDE DEF x, y
    <3>5. x = y
      BY <3>4
    <3> QED
      BY <3>5 DEF x, y
  <2>4. g = [p \in N |-> R(p)]
    <3> HIDE DEF R
    <3> QED
      BY <2>3
  <2> QED
    BY <2>4
<1> DEFINE begins == CHOOSE f : Solves(f)
<1>7. Solves(begins)
  <2> HIDE DEF Solves, g
  <2> QED
    BY <1>6
<1>8. Begins = {p \in N : begins[p]}
  BY DEF Begins
<1> HIDE DEF begins
<1>9. \A p \in N : p \in Begins <=> p = 1 \/ \E q \in {p - 1, p - 2} \cap N :
                                               q \in Begins /\ q + Width(q) = p
  <2>1. \A p \in N : begins[p] <=> p = 1 \/ \E q \in {p - 1, p - 2} \cap N :
                                              begins[q] /\ q + Width(q) = p
    BY <1>7
  <2> QED
    BY <1>8, <2>1
<1>10. Begins \subseteq N
  BY <1>8
<1> QED
  BY <1>5, <1>9, <1>10

-----------------------------------------------------------------------------
(* getopt_long before the first operand *)

\* The state of getopt_long while argv is as typed.
AsTyped == [p \in 1..Len(line) |-> p]

At(p, f, l) == [argv |-> AsTyped, optind |-> p, first |-> f, last |-> l]

\* Its fields, and what a change of one of them makes of it.
LEMMA AtFields ==
  ASSUME NEW p, NEW f, NEW l
  PROVE  /\ At(p, f, l).argv = AsTyped /\ At(p, f, l).optind = p
         /\ At(p, f, l).first = f /\ At(p, f, l).last = l
         /\ \A k : [At(p, f, l) EXCEPT !.optind = k] = At(k, f, l)
         /\ \A k : [At(p, f, l) EXCEPT !.first = k] = At(p, k, l)
         /\ \A k : [At(p, f, l) EXCEPT !.last = k] = At(p, f, k)
BY DEF At

\* The two changes of two fields that Skipped makes.
Start(x, j, k) == [x EXCEPT !.last = j, !.first = k]
Skip(x, j, k) == [x EXCEPT !.optind = j, !.last = k]

\* What they make of it.
LEMMA AtMoved ==
  ASSUME NEW p, NEW f, NEW l, NEW j, NEW k, NEW x, x = At(p, f, l)
  PROVE  Start(x, j, k) = At(p, k, j) /\ Skip(x, j, k) = At(j, f, k)
<1>1. [x EXCEPT !.last = j, !.first = k] = [[x EXCEPT !.last = j] EXCEPT !.first = k]
  BY DEF At
<1>2. [x EXCEPT !.optind = j, !.last = k] = [[x EXCEPT !.optind = j] EXCEPT !.last = k]
  BY DEF At
<1>3. [x EXCEPT !.last = j] = At(p, f, j) /\ [x EXCEPT !.optind = j] = At(j, f, l)
  BY AtFields
<1>4. [At(p, f, j) EXCEPT !.first = k] = At(p, k, j)
  BY AtFields
<1>5. [At(j, f, l) EXCEPT !.last = k] = At(j, f, k)
  BY AtFields
<1> QED
  BY <1>1, <1>2, <1>3, <1>4, <1>5 DEF Start, Skip

\* An element is read where it was typed.
LEMMA ElementAt ==
  ASSUME NEW p, NEW f, NEW l, NEW q \in 1..Len(line)
  PROVE  Element(At(p, f, l), q) = line[q]
BY DEF Element, At, AsTyped

\* Over operands to an option, or to the end.
LEMMA SkippedStraight ==
  ASSUME line \in Lines, NEW p \in 1..argc, NEW f \in 1..p, NEW n \in p..argc,
         \A q \in p..n - 1 : line[q].kind = "operand",
         n < argc => IsOption(n)
  PROVE  Skipped(At(p, f, f)) = At(n, p, n)
<1> DEFINE g == At(p, f, f)
           h == Gathered(g)
           S == {q \in g.optind..argc : q = argc \/ Element(h, q).kind # "operand"}
           next == Min(S)
           a == [h EXCEPT !.optind = next, !.last = next]
           d == [Gathered([a EXCEPT !.optind = next + 1])
                   EXCEPT !.last = argc, !.optind = argc]
<1>1. Len(line) \in Nat /\ argc = Len(line) + 1 /\ p \in Nat /\ f \in Nat /\ n \in Nat
      /\ p <= n /\ n <= argc /\ 1 <= f /\ f <= p
  BY LineFacts
<1>2. Skipped(g) = IF next < argc /\ Element(a, next).kind = "--" THEN d ELSE a
  <2>1. Min({g.last, g.optind}) = f /\ Min({g.first, g.optind}) = f
    BY <1>1, AtFields, MinOfTwo
  <2>2. [g EXCEPT !.last = f, !.first = f] = g
    <3>1. g = At(p, f, f)
      OBVIOUS
    <3> HIDE DEF g
    <3>2. Start(g, f, f) = At(p, f, f)
      BY <3>1, AtMoved
    <3> QED
      BY <3>1, <3>2 DEF Start
  <2>3. [g EXCEPT !.last = Min({@, g.optind}), !.first = Min({@, g.optind})] = g
    BY <2>1, <2>2
  <2> HIDE DEF Gathered, Element, Min
  <2> QED
    BY <2>3 DEF Skipped
<1>3. h = At(p, p, f)
  BY AtFields DEF Gathered
<1>4. S = {q \in p..argc : q = argc \/ line[q].kind # "operand"}
  <2>1. g.optind = p
    BY AtFields
  <2>2. \A q \in p..argc : q = argc \/ Element(h, q) = line[q]
    <3> SUFFICES ASSUME NEW q \in p..argc, q # argc PROVE Element(h, q) = line[q]
      OBVIOUS
    <3>1. q \in 1..Len(line)
      BY <1>1
    <3> QED
      BY <1>3, <3>1, ElementAt
  <2> HIDE DEF h, g
  <2> QED
    BY <2>1, <2>2
<1>5. next = n
  <2>1. n \in S
    BY <1>1, <1>4 DEF IsOption
  <2>2. S \subseteq Nat
    BY <1>1, <1>4
  <2>3. \A q \in S : n <= q
    BY <1>1, <1>4
  <2> HIDE DEF S
  <2>4. next \in S /\ next <= n
    BY <2>1, <2>2, LeastNatural
  <2> HIDE DEF next
  <2>5. next \in Nat /\ n <= next
    BY <2>2, <2>3, <2>4
  <2> QED
    BY <1>1, <2>4, <2>5
<1>6. a = At(n, p, n)
  <2> HIDE DEF h, next
  <2>1. Skip(h, n, n) = At(n, p, n)
    BY <1>3, AtMoved
  <2>2. a = Skip(h, n, n)
    BY <1>5 DEF Skip
  <2> QED
    BY <2>1, <2>2
<1>7. n < argc => Element(a, n).kind # "--"
  <2> SUFFICES ASSUME n < argc PROVE Element(a, n).kind # "--"
    OBVIOUS
  <2>1. n \in 1..Len(line)
    BY <1>1
  <2>2. Element(a, n) = line[n]
    BY <1>6, <2>1, ElementAt
  <2> QED
    BY <2>2 DEF IsOption
<1> HIDE DEF a, d, next
<1> QED
  BY <1>2, <1>5, <1>6, <1>7

\* Behind the last option getopt_long has nothing but operands left to hand
\* over.
LEMMA OperandsLeft ==
  ASSUME line \in Lines, NEW p \in 1..argc, NEW f \in 1..p, getopt = At(p, f, f),
         \A q \in p..Len(line) : line[q].kind = "operand"
  PROVE  option.option = "end" /\ option.g = At(p, p, argc)
<1>1. Len(line) \in Nat /\ argc = Len(line) + 1 /\ argc \in Nat /\ p \in Nat /\ p <= argc
  BY LineFacts
<1>2. Skipped(getopt) = At(argc, p, argc)
  <2>1. argc \in p..argc /\ \A q \in p..argc - 1 : line[q].kind = "operand"
    BY <1>1
  <2> QED
    BY <1>1, <2>1, SkippedStraight
<1> DEFINE g == Skipped(getopt)
<1>3. g.optind = argc /\ g.first = p /\ g.last = argc
  BY <1>2, AtFields
<1>4. getopt_long = [g |-> [g EXCEPT !.optind = IF g.first # g.last THEN g.first ELSE @],
                     option |-> "end", optarg |-> NoValue]
  <2>1. ~(g.optind < argc)
    BY <1>1, <1>3
  <2> HIDE DEF g
  <2> QED
    BY <2>1 DEF getopt_long, g
<1>5. [g EXCEPT !.optind = IF g.first # g.last THEN g.first ELSE @] = At(p, p, argc)
  <2>1. (IF g.first # g.last THEN g.first ELSE g.optind) = p
    BY <1>3
  <2>2. [g EXCEPT !.optind = p] = At(p, p, argc)
    BY <1>2, AtFields
  <2> QED
    BY <2>1, <2>2
<1> HIDE DEF g
<1>6. option = getopt_long
  BY <1>4 DEF option
<1> QED
  BY <1>4, <1>5, <1>6

\* The usage text and the tables of the code say the same of an option that is
\* not disputed.
LEMMA TablesAgree ==
  ASSUME NEW e, ~Disputed(e)
  PROVE  /\ Listed(e) <=> Known(e)
         /\ Known(e) => Letter(e) = Val(e) /\ (ShowsValue(e) <=> HasArg(e))
<1>1. CASE e.kind = "short"
  <2>1. Listed(e) <=> Known(e)
    BY <1>1 DEF Listed, Known, shown, optstring
  <2>2. ASSUME Known(e)
        PROVE  Letter(e) = Val(e) /\ (ShowsValue(e) <=> HasArg(e))
    <3>1. e.text \in {"e", "h", "r", "t", "c", "p", "d", "a", "g", "E"}
      BY <1>1, <2>2 DEF Known, optstring
    <3>2. Letter(e) = e.text /\ Val(e) = e.text
      BY <1>1 DEF Letter, Val
    <3>3. /\ ShowsValue(e) <=> e.text \notin {"e", "h"}
          /\ HasArg(e) <=> e.text \notin {"e", "h"}
      BY <1>1, <3>1, <3>2 DEF ShowsValue, HasArg, shown, optstring
    <3> QED
      BY <3>2, <3>3
  <2> QED
    BY <2>1, <2>2
<1>2. CASE e.kind # "short"
  <2> DEFINE Common == {"recordEnvironment", "traceFile", "traceFileCons", "appTraceFile",
                        "debugLevel", "help"}
  <2>1. e.text \notin {"envDir", "pcap", "RDF", "appTtraceFileCons", "appTraceFileCons"}
    BY <1>2 DEF Disputed
  <2>2. Listed(e) <=> e.text \in Common
    BY <1>2, <2>1 DEF Listed, spelled
  <2>3. Known(e) <=> e.text \in Common
    BY <1>2, <2>1 DEF Known, long_options
  <2>4. ASSUME e.text \in Common
        PROVE  /\ spelled[e.text] = long_options[e.text].val
               /\ shown[spelled[e.text]] <=> long_options[e.text].has_arg
    <3>1. /\ spelled["recordEnvironment"] = "e" /\ spelled["help"] = "h"
          /\ spelled["traceFile"] = "t" /\ spelled["traceFileCons"] = "c"
          /\ spelled["appTraceFile"] = "a" /\ spelled["debugLevel"] = "d"
      BY DEF spelled
    <3>2. /\ long_options["recordEnvironment"] = [has_arg |-> FALSE, val |-> "e"]
          /\ long_options["help"] = [has_arg |-> FALSE, val |-> "h"]
          /\ long_options["traceFile"] = [has_arg |-> TRUE, val |-> "t"]
          /\ long_options["traceFileCons"] = [has_arg |-> TRUE, val |-> "c"]
          /\ long_options["appTraceFile"] = [has_arg |-> TRUE, val |-> "a"]
          /\ long_options["debugLevel"] = [has_arg |-> TRUE, val |-> "d"]
      BY DEF long_options
    <3>3. /\ ~shown["e"] /\ ~shown["h"]
          /\ shown["t"] /\ shown["c"] /\ shown["a"] /\ shown["d"]
      BY DEF shown
    <3> QED
      BY <2>4, <3>1, <3>2, <3>3
  <2>5. /\ Letter(e) = spelled[e.text] /\ Val(e) = long_options[e.text].val
        /\ HasArg(e) = long_options[e.text].has_arg
    BY <1>2 DEF Letter, Val, HasArg
  <2> HIDE DEF Common
  <2> QED
    BY <2>2, <2>3, <2>4, <2>5 DEF ShowsValue
<1> QED
  BY <1>1, <1>2

\* One turn at an option before which there are no operands: what the reference
\* meaning of the line says of it.
LEMMA OptionTaken ==
  ASSUME line \in Lines, NEW p \in 1..Len(line), NEW f \in 1..p,
         getopt = At(p, f, f), IsOption(p), ~Disputed(line[p])
  PROVE  /\ option.g = At(p + Width(p), p, p)
         /\ Errs(p) => option.option \in {"?", ":"}
         /\ ~Errs(p) => /\ option.option = Letter(line[p])
                        /\ option.optarg = IF ShowsValue(line[p]) THEN ValueOf(p)
                                           ELSE NoValue
<1>0. /\ Listed(line[p]) <=> Known(line[p])
      /\ Known(line[p]) => /\ Letter(line[p]) = Val(line[p])
                           /\ ShowsValue(line[p]) <=> HasArg(line[p])
  BY TablesAgree
<1> DEFINE e == line[p]
           attached == e.attached # "none"
           onTheEnd == p + 1 = argc
           value == [at |-> p, attached |-> TRUE]
           next == [at |-> p + 1, attached |-> FALSE]
           s == At(p, p, p)
           Took(n, letter, optarg) ==
             [g |-> At(p + n, p, p), option |-> letter, optarg |-> optarg]
           o == getopt_long
           back == /\ o.optarg # NoValue
                   /\ o.g.optind = getopt.optind + 2
                   /\ BeginsWithDash(o.optarg)
<1>1. Len(line) \in Nat /\ argc = Len(line) + 1 /\ argc \in Nat /\ p \in Nat
      /\ p <= Len(line) /\ DOMAIN line = 1..Len(line) /\ p + 0 = p /\ p >= 1
  BY LineFacts
<1>2. Skipped(getopt) = s
  <2>1. p \in 1..argc /\ p \in p..argc /\ \A q \in p..p - 1 : line[q].kind = "operand"
    BY <1>1
  <2> QED
    BY <2>1, SkippedStraight
<1>3. s.optind = p /\ p < argc
  BY <1>1, AtFields
<1>4. o = Taken(s)
  <2> HIDE DEF s
  <2>1. o = LET g == s IN
            IF g.optind < argc THEN Taken(g)
            ELSE [g |-> [g EXCEPT !.optind = IF g.first # g.last THEN g.first ELSE @],
                  option |-> "end", optarg |-> NoValue]
    BY <1>2 DEF getopt_long
  <2> QED
    BY <1>3, <2>1
<1>5. \A n, letter, optarg : Result(s, n, letter, optarg) = Took(n, letter, optarg)
  BY <1>3, AtFields DEF Result
<1>6. Element(s, p) = e
  BY ElementAt
<1>7. s.argv[p] = p /\ (~onTheEnd => s.argv[p + 1] = p + 1)
  <2>1. s.argv = AsTyped
    BY AtFields
  <2>2. ~onTheEnd => p + 1 \in 1..Len(line)
    BY <1>1
  <2> QED
    BY <2>1, <2>2 DEF AsTyped
<1>8. Taken(s) = CASE ~Known(e) -> Result(s, 1, "?", NoValue)
                   [] Known(e) /\ ~HasArg(e) ->
                        Result(s, 1, IF attached THEN "?" ELSE Val(e), NoValue)
                   [] Known(e) /\ HasArg(e) /\ attached ->
                        Result(s, 1, Val(e), [at |-> s.argv[p], attached |-> TRUE])
                   [] Known(e) /\ HasArg(e) /\ ~attached /\ onTheEnd ->
                        Result(s, 1, ":", NoValue)
                   [] OTHER -> Result(s, 2, Val(e), [at |-> s.argv[p + 1], attached |-> FALSE])
  <2> HIDE DEF s, e
  <2> QED
    BY <1>3, <1>6 DEF Taken, Result
<1>9. Width(p) = IF Known(e) /\ HasArg(e) /\ ~attached /\ ~onTheEnd /\ ~BeginsWithDash(next)
                 THEN 2 ELSE 1
  <2>1. p + 1 \in DOMAIN line <=> ~onTheEnd
    BY <1>1
  <2>2. WantsNext(p) <=> Known(e) /\ HasArg(e) /\ ~attached
    BY <1>0 DEF WantsNext
  <2>3. IsValue(p + 1) <=> ~onTheEnd /\ ~BeginsWithDash(next)
    BY <2>1, Zenon DEF IsValue
  <2> HIDE DEF attached, onTheEnd, next, e
  <2> QED
    BY <2>2, <2>3, Zenon DEF Width
<1>10. Errs(p) <=> \/ ~Known(e)
                   \/ Known(e) /\ HasArg(e) /\ ~attached /\ Width(p) = 1
                   \/ ~HasArg(e) /\ attached
  BY <1>0 DEF Errs, WantsNext
<1>11. option = IF back THEN [o EXCEPT !.option = ":", !.g.optind = @ - 1] ELSE o
  BY DEF option
<1>12. ASSUME NEW n \in {1, 2}, NEW letter, NEW optarg, o = Took(n, letter, optarg),
              n = 1 \/ optarg = NoValue \/ ~BeginsWithDash(optarg)
       PROVE  /\ option.g = At(p + n, p, p) /\ option.option = letter
              /\ option.optarg = optarg
  <2>1. o.optarg = optarg /\ o.g = At(p + n, p, p) /\ o.option = letter
    BY <1>12
  <2>2. o.g.optind = p + n /\ getopt.optind = p
    BY <2>1, AtFields
  <2>3. ~back
    <3> HIDE DEF o
    <3>1. n = 1 => o.g.optind # getopt.optind + 2
      BY <1>1, <2>2
    <3> QED
      BY <1>12, <2>1, <3>1
  <2> HIDE DEF o, back
  <2> QED
    BY <1>11, <2>1, <2>3
<1>13. ASSUME NEW letter, o = Took(2, letter, next), BeginsWithDash(next)
       PROVE  option.g = At(p + 1, p, p) /\ option.option = ":"
  <2>1. o.optarg = next /\ o.g = At(p + 2, p, p) /\ o.option = letter
    BY <1>13
  <2>2. o.g.optind = p + 2 /\ getopt.optind = p
    BY <2>1, AtFields
  <2>3. next # NoValue
    BY <1>1 DEF NoValue
  <2>4. back
    BY <1>13, <2>1, <2>2, <2>3
  <2>5. option = [o EXCEPT !.option = ":", !.g.optind = @ - 1]
    <3> HIDE DEF o, back
    <3> QED
      BY <1>11, <2>4
  <2>6. option.option = ":" /\ option.g = [o.g EXCEPT !.optind = o.g.optind - 1]
    <3>1. o = [g |-> o.g, option |-> letter, optarg |-> next]
      BY <1>13, <2>1
    <3> HIDE DEF o, next
    <3> QED
      BY <2>5, <3>1
  <2>7. p + 2 - 1 = p + 1
    BY <1>1
  <2>8. [At(p + 2, p, p) EXCEPT !.optind = p + 1] = At(p + 1, p, p)
    BY AtFields
  <2> HIDE DEF o
  <2> QED
    BY <2>1, <2>2, <2>6, <2>7, <2>8
<1> HIDE DEF e, attached, onTheEnd, back, o, s
<1>14. CASE ~Known(e)
  <2>1. o = Took(1, "?", NoValue)
    BY <1>4, <1>5, <1>8, <1>14
  <2>2. option.g = At(p + 1, p, p) /\ option.option = "?"
    BY <1>12, <2>1
  <2> QED
    BY <1>9, <1>10, <1>14, <2>2
<1>15. CASE Known(e) /\ ~HasArg(e)
  <2>1. o = Took(1, IF attached THEN "?" ELSE Val(e), NoValue)
    BY <1>4, <1>5, <1>8, <1>15
  <2>2. /\ option.g = At(p + 1, p, p) /\ option.optarg = NoValue
        /\ option.option = IF attached THEN "?" ELSE Val(e)
    BY <1>12, <2>1
  <2> QED
    BY <1>0, <1>9, <1>10, <1>15, <2>2 DEF e
<1>16. CASE Known(e) /\ HasArg(e) /\ attached
  <2>1. o = Took(1, Val(e), value)
    BY <1>4, <1>5, <1>7, <1>8, <1>16
  <2>2. option.g = At(p + 1, p, p) /\ option.option = Val(e) /\ option.optarg = value
    <3> HIDE DEF value
    <3> QED
      BY <1>12, <2>1
  <2>3. Width(p) = 1
    BY <1>9, <1>16
  <2>4. ValueOf(p) = value
    <3> DEFINE one == Width(p) = 1
    <3>1. one = TRUE /\ p + Width(p) - 1 = p
      BY <1>1, <2>3
    <3>2. ValueOf(p) = [at |-> p + Width(p) - 1, attached |-> one]
      BY DEF ValueOf
    <3> HIDE DEF one
    <3> QED
      BY <3>1, <3>2
  <2> QED
    BY <1>0, <1>10, <1>16, <2>2, <2>3, <2>4 DEF e
<1>17. CASE Known(e) /\ HasArg(e) /\ ~attached /\ onTheEnd
  <2>1. o = Took(1, ":", NoValue)
    BY <1>4, <1>5, <1>8, <1>17
  <2>2. option.g = At(p + 1, p, p) /\ option.option = ":"
    BY <1>12, <2>1
  <2> QED
    BY <1>9, <1>10, <1>17, <2>2
<1>18. CASE Known(e) /\ HasArg(e) /\ ~attached /\ ~onTheEnd
  <2>1. o = Took(2, Val(e), next)
    BY <1>4, <1>5, <1>7, <1>8, <1>18
  <2>2. CASE BeginsWithDash(next)
    <3>1. option.g = At(p + 1, p, p) /\ option.option = ":"
      BY <1>13, <2>1, <2>2
    <3> QED
      BY <1>9, <1>10, <1>18, <2>2, <3>1
  <2>3. CASE ~BeginsWithDash(next)
    <3>1. option.g = At(p + 2, p, p) /\ option.option = Val(e) /\ option.optarg = next
      <4> HIDE DEF next
      <4> QED
        BY <1>12, <2>1, <2>3
    <3>2. Width(p) = 2
      BY <1>9, <1>18, <2>3
    <3>3. ValueOf(p) = next
      <4> DEFINE one == Width(p) = 1
      <4>1. one = FALSE /\ p + Width(p) - 1 = p + 1
        BY <1>1, <3>2
      <4>2. ValueOf(p) = [at |-> p + Width(p) - 1, attached |-> one]
        BY DEF ValueOf
      <4> HIDE DEF one
      <4> QED
        BY <4>1, <4>2
    <3> QED
      BY <1>0, <1>10, <1>18, <3>1, <3>2, <3>3 DEF e
  <2> QED
    BY <2>2, <2>3
<1> QED
  BY <1>14, <1>15, <1>16, <1>17, <1>18

-----------------------------------------------------------------------------
(* What the loop has done so far *)

\* The options before p that are of the letter and not wrong, and the value of
\* the last of them.
Given(letter, p) ==
  {q \in Begins : q < p /\ IsOption(q) /\ ~Errs(q) /\ Letter(line[q]) = letter}

LastOf(letter, p, v) ==
  \/ Given(letter, p) = {} /\ v = NoValue
  \/ \E q \in Given(letter, p) :
       (\A r \in Given(letter, p) : r <= q) /\ v = ValueOf(q)

\* The debug level for the value of the last -d, 0 without one.
LevelOf(v) == IF v = NoValue THEN 0 ELSE atoi(v)

\* What the loop has done when getopt_long is at p, as the line says it.
Follows(g, values, level, errs, p) ==
  /\ p \in 1..argc
  /\ \E f \in 1..p : g = At(p, f, f)
  /\ p <= Len(line) => p \in Begins
  /\ \A q \in Begins : q < p =>
       IsOption(q) /\ q + Width(q) <= p /\ ~Ends(q)
  /\ errs \in Nat
  /\ errs > 0 <=> \E q \in Begins : q < p /\ Errs(q)
  /\ \A letter \in FileNames : LastOf(letter, p, values[letter])
  /\ \E v : LastOf("d", p, v) /\ level = LevelOf(v)

\* What the synopsis says of an outcome, the values and the level.
Says(result, values, level) ==
  InSynopsis =>
    IF Refused THEN result = "exit"
    ELSE /\ result = "runs"
         /\ values.pcap \in Operands
         /\ \A letter \in FileNames : values[letter] = Chosen(letter)
         /\ level = LevelOf(Chosen("d"))

\* No position begins an option inside the width of another one.
LEMMA BeginsBehind ==
  ASSUME line \in Lines, NEW p \in Begins,
         \A q \in Begins : q < p => q + Width(q) <= p
  PROVE  /\ p + Width(p) \in 1..argc
         /\ p + Width(p) <= Len(line) => p + Width(p) \in Begins
         /\ \A q \in Begins : q < p + Width(p) <=> q < p \/ q = p
<1>1. Len(line) \in Nat /\ argc = Len(line) + 1 /\ DOMAIN line = 1..Len(line)
  BY LineFacts
<1>2. /\ Begins \subseteq 1..Len(line)
      /\ \A q \in 1..Len(line) :
           q \in Begins <=> q = 1 \/ \E r \in Begins : r + Width(r) = q
  BY BeginsAre
<1>3. \A q : Width(q) \in {1, 2}
  BY WidthIs
<1>4. Width(p) = 2 => p + 1 \in DOMAIN line
  BY DEF Width, IsValue
<1>5. p + Width(p) \in 1..argc
  BY <1>1, <1>2, <1>3, <1>4
<1>6. p + Width(p) <= Len(line) => p + Width(p) \in Begins
  BY <1>1, <1>2, <1>5
<1>7. ASSUME NEW q \in Begins, p < q, q < p + Width(p)
      PROVE  FALSE
  <2>1. q = p + 1 /\ Width(p) = 2 /\ q # 1
    BY <1>1, <1>2, <1>3, <1>7
  <2>2. PICK r \in Begins : r + Width(r) = q
    BY <1>2, <2>1
  <2>3. r < p => r + Width(r) <= p
    OBVIOUS
  <2>4. r \in Int /\ p \in Int /\ Width(r) \in {1, 2}
    BY <1>2, <1>3
  <2> QED
    BY <2>1, <2>2, <2>3, <2>4
<1> QED
  BY <1>1, <1>2, <1>3, <1>5, <1>6, <1>7

\* In the synopsis nothing but operands is behind the first operand.
LEMMA OperandsBehind ==
  ASSUME line \in Lines, InSynopsis, NEW p \in Begins, line[p].kind = "operand"
  PROVE  \A q \in p..Len(line) : q \in Begins /\ line[q].kind = "operand"
<1> DEFINE T == {q \in p..Len(line) : ~(q \in Begins /\ line[q].kind = "operand")}
<1>1. Len(line) \in Nat
  BY LineFacts
<1>2. /\ Begins \subseteq 1..Len(line)
      /\ \A q \in 1..Len(line) :
           q \in Begins <=> q = 1 \/ \E r \in Begins : r + Width(r) = q
  BY BeginsAre
<1> SUFFICES ASSUME T # {} PROVE FALSE
  OBVIOUS
<1>3. T \subseteq Nat
  BY <1>1, <1>2
<1>4. PICK x \in T : \A y \in T : x <= y
  <2> HIDE DEF T
  <2> QED
    BY <1>3, LeastNatural
<1>5. x \in p..Len(line) /\ x # p /\ x - 1 \in p..Len(line) /\ x \in 1..Len(line)
  BY <1>1, <1>2
<1>6. x - 1 \notin T
  BY <1>1, <1>3, <1>4, <1>5
<1>7. x - 1 \in Begins /\ line[x - 1].kind = "operand"
  BY <1>5, <1>6
<1>8. Width(x - 1) = 1 /\ (x - 1) + 1 = x
  BY <1>5, <1>7 DEF Width, WantsNext, IsOption
<1>9. x \in Begins
  BY <1>2, <1>5, <1>7, <1>8
<1>10. p \in Operands /\ p <= x
  BY <1>5 DEF Operands
<1>11. line[x].kind # "--" /\ ~IsOption(x)
  BY <1>2, <1>5, <1>9, <1>10 DEF InSynopsis, InOrder
<1>12. line[x].kind = "operand"
  BY <1>5, <1>11, LineFacts DEF IsOption
<1> QED
  BY <1>9, <1>12

\* The value of the last option of a letter, when all options are before p.
LEMMA LastIsChosen ==
  ASSUME line \in Lines, NEW letter, NEW p, NEW v, LastOf(letter, p, v),
         \A q \in Begins : IsOption(q) => q < p
  PROVE  v = Chosen(letter)
<1> DEFINE given == {q \in Begins : IsOption(q) /\ ~Errs(q) /\ Letter(line[q]) = letter}
<1>1. given = Given(letter, p)
  BY DEF Given
<1>2. Chosen(letter) = IF given = {} THEN NoValue ELSE ValueOf(Max(given))
  BY DEF Chosen
<1>3. given \subseteq Int
  BY BeginsAre
<1> HIDE DEF given
<1>4. CASE given = {} /\ v = NoValue
  BY <1>2, <1>4
<1>5. CASE \E q \in given : (\A r \in given : r <= q) /\ v = ValueOf(q)
  <2>1. PICK q \in given : (\A r \in given : r <= q) /\ v = ValueOf(q)
    BY <1>5
  <2>2. Max(given) \in given /\ \A r \in given : Max(given) >= r
    BY <1>3, <2>1 DEF Max
  <2> DEFINE m == Max(given)
  <2>3. m \in Int /\ q \in Int /\ m >= q /\ m <= q
    BY <1>3, <2>1, <2>2
  <2>4. m = q
    <3> HIDE DEF m
    <3> QED
      BY <2>3
  <2> QED
    BY <1>2, <2>1, <2>4
<1> QED
  BY <1>1, <1>4, <1>5 DEF LastOf

\* The value of an option is not the one of an option that has none.
LEMMA ValueIsThere ==
  ASSUME NEW v
  PROVE  ValueOf(v) = NoValue => v + Width(v) - 1 = 0
BY DEF ValueOf, NoValue

\* An option that lets the loop go on.
LEMMA StillFollows ==
  ASSUME line \in Lines, NEW g, NEW values, NEW level, NEW errs, NEW p,
         Follows(g, values, level, errs, p),
         p \in Begins, IsOption(p), ~Ends(p),
         NEW values2, NEW level2, NEW errs2,
         errs2 \in Nat, errs2 > 0 <=> errs > 0 \/ Errs(p),
         \A letter \in FileNames :
           values2[letter] = IF ~Errs(p) /\ Letter(line[p]) = letter THEN ValueOf(p)
                             ELSE values[letter],
         level2 = IF ~Errs(p) /\ Letter(line[p]) = "d" THEN atoi(ValueOf(p)) ELSE level
  PROVE  Follows(At(p + Width(p), p, p), values2, level2, errs2, p + Width(p))
<1> DEFINE n == p + Width(p)
<1>1. Len(line) \in Nat /\ Begins \subseteq 1..Len(line) /\ p \in Nat /\ p >= 1
      /\ Width(p) \in {1, 2}
  BY LineFacts, BeginsAre, WidthIs
<1>2. \A q \in Begins : q < p => IsOption(q) /\ q + Width(q) <= p /\ ~Ends(q)
  BY DEF Follows
<1>3. /\ n \in 1..argc
      /\ n <= Len(line) => n \in Begins
      /\ \A q \in Begins : q < n <=> q < p \/ q = p
  <2>1. \A q \in Begins : q < p => q + Width(q) <= p
    BY <1>2
  <2> QED
    BY <2>1, BeginsBehind
<1>4. n \in Nat /\ p < n
  BY <1>1
<1> HIDE DEF n
<1>5. \E f \in 1..n : At(n, p, p) = At(n, f, f)
  BY <1>1, <1>4
<1>6. \A q \in Begins : q < n => IsOption(q) /\ q + Width(q) <= n /\ ~Ends(q)
  <2> SUFFICES ASSUME NEW q \in Begins, q < n
               PROVE  IsOption(q) /\ q + Width(q) <= n /\ ~Ends(q)
    OBVIOUS
  <2>1. CASE q = p
    BY <1>4, <2>1 DEF n
  <2>2. CASE q < p
    <3>1. IsOption(q) /\ q + Width(q) <= p /\ ~Ends(q)
      BY <1>2, <2>2
    <3>2. q + Width(q) \in Int
      BY <1>1, WidthIs
    <3> QED
      BY <1>1, <1>4, <3>1, <3>2
  <2> QED
    BY <1>3, <2>1, <2>2
<1>7. errs2 > 0 <=> \E q \in Begins : q < n /\ Errs(q)
  <2>1. errs > 0 <=> \E q \in Begins : q < p /\ Errs(q)
    BY DEF Follows
  <2> HIDE DEF Errs
  <2> QED
    BY <1>3, <2>1
<1>8. ASSUME NEW letter
      PROVE  Given(letter, n) = IF ~Errs(p) /\ Letter(line[p]) = letter
                                THEN Given(letter, p) \cup {p} ELSE Given(letter, p)
  BY <1>3 DEF Given
<1>9. ASSUME NEW letter, NEW v, LastOf(letter, p, v)
      PROVE  LastOf(letter, n, IF ~Errs(p) /\ Letter(line[p]) = letter THEN ValueOf(p) ELSE v)
  <2>1. CASE ~Errs(p) /\ Letter(line[p]) = letter
    <3>1. Given(letter, n) = Given(letter, p) \cup {p}
      BY <1>8, <2>1
    <3>2. \A r \in Given(letter, p) : r <= p
      BY <1>1 DEF Given
    <3>3. p \in Given(letter, n) /\ \A r \in Given(letter, n) : r <= p
      BY <1>1, <3>1, <3>2
    <3> QED
      BY <2>1, <3>3 DEF LastOf
  <2>2. CASE ~(~Errs(p) /\ Letter(line[p]) = letter)
    <3>1. Given(letter, n) = Given(letter, p)
      BY <1>8, <2>2
    <3>2. LastOf(letter, n, v)
      BY <1>9, <3>1 DEF LastOf
    <3> QED
      BY <2>2, <3>2
  <2> QED
    BY <2>1, <2>2
<1>10. \A letter \in FileNames : LastOf(letter, n, values2[letter])
  <2> SUFFICES ASSUME NEW letter \in FileNames PROVE LastOf(letter, n, values2[letter])
    OBVIOUS
  <2>1. LastOf(letter, p, values[letter])
    BY DEF Follows
  <2>2. LastOf(letter, n, IF ~Errs(p) /\ Letter(line[p]) = letter THEN ValueOf(p)
                          ELSE values[letter])
    BY <1>9, <2>1
  <2> QED
    BY <2>2
<1>11. \E v : LastOf("d", n, v) /\ level2 = LevelOf(v)
  <2>1. PICK v : LastOf("d", p, v) /\ level = LevelOf(v)
    BY DEF Follows
  <2>2. LastOf("d", n, IF ~Errs(p) /\ Letter(line[p]) = "d" THEN ValueOf(p) ELSE v)
    BY <1>9, <2>1
  <2>3. ValueOf(p) # NoValue
    BY <1>1, ValueIsThere
  <2>4. LevelOf(ValueOf(p)) = atoi(ValueOf(p))
    BY <2>3 DEF LevelOf
  <2>5. level2 = LevelOf(IF ~Errs(p) /\ Letter(line[p]) = "d" THEN ValueOf(p) ELSE v)
    BY <2>1, <2>4
  <2> QED
    BY <2>2, <2>5
<1>12. Follows(At(n, p, p), values2, level2, errs2, n)
  BY <1>3, <1>5, <1>6, <1>7, <1>10, <1>11 DEF Follows
<1> QED
  BY <1>12 DEF n

\* An option that ends the program, whatever is behind it.
LEMMA EndIsSaid ==
  ASSUME NEW p \in Begins, IsOption(p), Ends(p), NEW values, NEW level
  PROVE  Says("exit", values, level)
BY DEF Says, Refused

\* What is left behind the last option, and whether an error was met.
LEMMA RestIsSaid ==
  ASSUME line \in Lines, InSynopsis, NEW g, NEW values, NEW level, NEW errs, NEW p,
         Follows(g, values, level, errs, p),
         p <= Len(line) => line[p].kind = "operand"
  PROVE  /\ errs > 0 \/ p # Len(line)
              => \A values2, level2 : Says("exit", values2, level2)
         /\ ~(errs > 0) /\ p = Len(line)
              => \A values2 : /\ values2.pcap = p
                              /\ \A letter \in FileNames : values2[letter] = values[letter]
                              => Says("runs", values2, level)
<1> DEFINE wrong == \E q \in Begins : IsOption(q) /\ Errs(q)
<1>1. /\ Begins \subseteq 1..Len(line) /\ Len(line) \in Nat /\ argc = Len(line) + 1
      /\ p \in 1..argc
  BY LineFacts, BeginsAre DEF Follows
<1>2. \A q \in p..Len(line) : q \in Begins /\ line[q].kind = "operand"
  <2>1. CASE p <= Len(line)
    BY <2>1, OperandsBehind DEF Follows
  <2>2. CASE ~(p <= Len(line))
    BY <1>1, <2>2
  <2> QED
    BY <2>1, <2>2
<1>3. \A q \in Begins : IsOption(q) <=> q < p
  <2>1. \A q \in Begins : q < p => IsOption(q)
    BY DEF Follows
  <2>2. \A q \in Begins : ~(q < p) => q \in p..Len(line)
    BY <1>1
  <2> QED
    BY <1>2, <2>1, <2>2 DEF IsOption
<1>4. Operands = p..Len(line)
  <2>1. \A q \in Begins : line[q].kind = "operand" => ~(q < p)
    BY <1>3 DEF IsOption
  <2>2. \A q \in Begins : line[q].kind = "operand" => q \in p..Len(line)
    BY <1>1, <2>1
  <2>3. \A q : q \in Operands <=> q \in p..Len(line)
    BY <1>2, <2>2 DEF Operands
  <2> QED
    BY <2>3
<1>5. Cardinality(Operands) = 1 <=> p = Len(line)
  <2>1. IsFiniteSet(p..Len(line))
    BY <1>1, FS_Interval
  <2>2. Cardinality(p..Len(line)) = 1 <=> \E x : p..Len(line) = {x}
    BY <2>1, FS_Singleton
  <2>3. p = Len(line) => p..Len(line) = {p}
    BY <1>1
  <2>4. ASSUME NEW x, p..Len(line) = {x}
        PROVE  p = Len(line)
    <3>1. p \in p..Len(line) /\ Len(line) \in p..Len(line)
      BY <1>1, <2>4
    <3> QED
      BY <2>4, <3>1
  <2> QED
    BY <1>4, <2>2, <2>3, <2>4
<1>6. \A q \in Begins : IsOption(q) => ~Ends(q)
  BY <1>3 DEF Follows
<1>7. wrong <=> errs > 0
  <2>1. errs > 0 <=> \E q \in Begins : q < p /\ Errs(q)
    BY DEF Follows
  <2> HIDE DEF Errs
  <2> QED
    BY <1>3, <2>1
<1>8. Refused <=> wrong \/ Cardinality(Operands) # 1
  BY <1>6, Zenon DEF Refused
<1> HIDE DEF wrong
<1>9. ASSUME errs > 0 \/ p # Len(line), NEW values2, NEW level2
      PROVE  Says("exit", values2, level2)
  BY <1>5, <1>7, <1>8, <1>9 DEF Says
<1>10. ASSUME ~(errs > 0), p = Len(line), NEW values2, values2.pcap = p,
              \A letter \in FileNames : values2[letter] = values[letter]
       PROVE  Says("runs", values2, level)
  <2>1. \A q \in Begins : IsOption(q) => q < p
    BY <1>3
  <2>2. ASSUME NEW letter \in FileNames
        PROVE  values2[letter] = Chosen(letter)
    <3>1. LastOf(letter, p, values[letter])
      BY DEF Follows
    <3> QED
      BY <1>10, <2>1, <3>1, LastIsChosen
  <2>3. level = LevelOf(Chosen("d"))
    <3>1. PICK v : LastOf("d", p, v) /\ level = LevelOf(v)
      BY DEF Follows
    <3>2. v = Chosen("d")
      BY <2>1, <3>1, LastIsChosen
    <3> QED
      BY <3>1, <3>2
  <2>4. values2.pcap \in Operands
    BY <1>1, <1>4, <1>10
  <2> QED
    BY <1>5, <1>7, <1>8, <1>10, <2>2, <2>3, <2>4 DEF Says
<1> QED
  BY <1>9, <1>10

-----------------------------------------------------------------------------
(* One turn, letter by letter *)

\* Which options have a value.
LEMMA LettersAre ==
  ASSUME NEW e, Listed(e), ~Disputed(e)
  PROVE  /\ Letter(e) \in {"e", "h", "d"} \cup FileNames
         /\ Letter(e) \in {"d"} \cup FileNames => ShowsValue(e)
<1>1. Letter(e) \in {"e", "h", "r", "t", "c", "d", "a", "g", "E"}
  <2>1. CASE e.kind = "short"
    <3>1. Letter(e) = e.text /\ e.text # "p" /\ e.text \in DOMAIN shown
      BY <2>1 DEF Letter, Listed, Disputed
    <3> QED
      BY <3>1 DEF shown
  <2>2. CASE e.kind # "short"
    <3>1. Letter(e) = spelled[e.text] /\ e.text # "pcap" /\ e.text \in DOMAIN spelled
      BY <2>2 DEF Letter, Listed, Disputed
    <3>2. \A name \in DOMAIN spelled : name # "pcap" =>
            spelled[name] \in {"e", "h", "r", "t", "c", "d", "a", "g", "E"}
      BY DEF spelled
    <3> QED
      BY <3>1, <3>2
  <2> QED
    BY <2>1, <2>2
<1>2. ShowsValue(e) <=> Letter(e) \notin {"e", "h"}
  BY <1>1 DEF ShowsValue, shown
<1> QED
  BY <1>1, <1>2 DEF FileNames

\* How an option ends the program, by its letter.
LEMMA EndsOf ==
  ASSUME NEW p
  PROVE  /\ Errs(p) => ~Ends(p)
         /\ ~Errs(p) =>
              /\ Letter(line[p]) = "h" => Ends(p)
              /\ Letter(line[p]) = "e" => ~Ends(p)
              /\ Letter(line[p]) = "d" => (Ends(p) <=> atoi(ValueOf(p)) \notin 1..3)
              /\ Letter(line[p]) \in FileNames => (Ends(p) <=> TooLong(ValueOf(p)))
<1>1. "h" \notin FileNames /\ "d" \notin FileNames /\ "e" \notin FileNames
  BY DEF FileNames
<1> QED
  BY <1>1 DEF Ends

\* The line stays as it was typed, and so does what it means.
LEMMA SameLine ==
  ASSUME line' = line
  PROVE  /\ InSynopsis' <=> InSynopsis
         /\ \A result, values, level :
              Says(result, values, level)' <=> Says(result, values, level)
         /\ \A g, values, level, errs, p :
              Follows(g, values, level, errs, p)' <=> Follows(g, values, level, errs, p)
<1>1. Begins' = Begins
  BY DEF Begins, Width, WantsNext, IsValue, IsOption, BeginsWithDash
<1>2. \A p : /\ IsOption(p)' <=> IsOption(p)
             /\ Width(p)' = Width(p)
             /\ Errs(p)' <=> Errs(p)
             /\ ValueOf(p)' = ValueOf(p)
  BY DEF IsOption, Width, WantsNext, IsValue, BeginsWithDash, Errs, ValueOf
<1>3. \A v : atoi(v)' = atoi(v) /\ (TooLong(v)' <=> TooLong(v))
  BY DEF atoi, TooLong, Text
<1>4. \A p : Ends(p)' <=> Ends(p)
  BY <1>2, <1>3 DEF Ends
<1>5. Operands' = Operands
  BY <1>1 DEF Operands
<1>6. (InSynopsis' <=> InSynopsis) /\ (Refused' <=> Refused)
  BY <1>1, <1>2, <1>4, <1>5 DEF InSynopsis, InOrder, Refused
<1>7. \A letter : Chosen(letter)' = Chosen(letter)
  BY <1>1, <1>2 DEF Chosen
<1>8. \A v : LevelOf(v)' = LevelOf(v)
  BY <1>3 DEF LevelOf
<1>9. \A result, values, level : Says(result, values, level)' <=> Says(result, values, level)
  BY <1>5, <1>6, <1>7, <1>8 DEF Says
<1>10. \A letter, p, v : LastOf(letter, p, v)' <=> LastOf(letter, p, v)
  BY <1>1, <1>2 DEF LastOf, Given
<1>11. \A p, f, l : At(p, f, l)' = At(p, f, l)
  BY DEF At, AsTyped
<1>12. \A g, values, level, errs, p :
         Follows(g, values, level, errs, p)' <=> Follows(g, values, level, errs, p)
  BY <1>1, <1>2, <1>4, <1>8, <1>10, <1>11 DEF Follows, argc
<1> QED
  BY <1>6, <1>9, <1>12

\* Before the loop ends it has done what the line says up to optind.
Following ==
  outcome = "none" /\ InSynopsis =>
    Follows(getopt, names, debugLevel, numOptErrs, getopt.optind)

\* The property in terms of Says.
LEMMA SaysIs == SynopsisHolds <=> (outcome # "none" => Says(outcome, names, debugLevel))
BY DEF SynopsisHolds, Obeyed, Says, LevelOf

\* What a step has to show.
LEMMA SynopsisStep ==
  ASSUME line' = line,
         outcome' # "none" /\ InSynopsis => Says(outcome', names', debugLevel'),
         outcome' = "none" /\ InSynopsis =>
           Follows(getopt', names', debugLevel', numOptErrs', getopt'.optind)
  PROVE  (Following /\ SynopsisHolds)'
<1>1. /\ InSynopsis' <=> InSynopsis
      /\ \A result, values, level :
           Says(result, values, level)' <=> Says(result, values, level)
      /\ \A g, values, level, errs, p :
           Follows(g, values, level, errs, p)' <=> Follows(g, values, level, errs, p)
  BY SameLine
<1>2. Following'
  BY <1>1, Zenon DEF Following
<1>3. SynopsisHolds' <=> (outcome' # "none" => Says(outcome, names, debugLevel)')
  BY DEF SynopsisHolds, Obeyed, Says, LevelOf
<1>4. Says(outcome, names, debugLevel)' <=> Says(outcome', names', debugLevel')
  BY <1>1, Zenon
<1>5. ~InSynopsis => Says(outcome', names', debugLevel')
  BY DEF Says
<1> QED
  BY <1>2, <1>3, <1>4, <1>5

\* Nothing is handled yet, and nothing is before the first element.
LEMMA InitFollowing == Init => Following /\ SynopsisHolds
<1> SUFFICES ASSUME Init PROVE Following /\ SynopsisHolds
  OBVIOUS
<1>1. SynopsisHolds
  BY DEF Init, SynopsisHolds
<1>2. line \in Lines /\ getopt = At(1, 1, 1) /\ getopt.optind = 1
  BY DEF Init, At, AsTyped
<1>3. Len(line) \in Nat /\ argc = Len(line) + 1
  BY <1>2, LineFacts
<1>4. \A q \in Begins : ~(q < 1)
  BY <1>2, <1>3, BeginsAre
<1>5. 1 <= Len(line) => 1 \in Begins
  BY <1>2, <1>3, BeginsAre
<1>6. \A letter : LastOf(letter, 1, NoValue)
  BY <1>4 DEF LastOf, Given
<1>7. /\ \A letter \in FileNames : names[letter] = NoValue
      /\ debugLevel = LevelOf(NoValue) /\ numOptErrs = 0
  BY DEF Init, FileNames, LevelOf
<1>8. 1 \in 1..argc /\ \E f \in 1..1 : getopt = At(1, f, f)
  BY <1>2, <1>3
<1>9. Follows(getopt, names, debugLevel, numOptErrs, 1)
  BY <1>4, <1>5, <1>6, <1>7, <1>8 DEF Follows
<1> QED
  BY <1>1, <1>2, <1>9 DEF Following

\* A turn at an option.
LEMMA OptionTurn ==
  ASSUME IInv, Following, outcome = "none", InSynopsis, Next, ~Stopped,
         getopt.optind \in Begins, IsOption(getopt.optind)
  PROVE  (Following /\ SynopsisHolds)'
<1> DEFINE p == getopt.optind
           e == line[p]
           Goes == /\ outcome' = "none" /\ ~Ends(p)
                   /\ numOptErrs' \in Nat
                   /\ numOptErrs' > 0 <=> numOptErrs > 0 \/ Errs(p)
                   /\ \A letter \in FileNames :
                        names'[letter] = IF ~Errs(p) /\ Letter(e) = letter THEN ValueOf(p)
                                         ELSE names[letter]
                   /\ debugLevel' = IF ~Errs(p) /\ Letter(e) = "d" THEN atoi(ValueOf(p))
                                    ELSE debugLevel
           Stops == outcome' = "exit" /\ Ends(p)
<1>0. ~Disputed(e)
  BY DEF InSynopsis
<1>1. Follows(getopt, names, debugLevel, numOptErrs, p) /\ line \in Lines
  BY DEF Following, IInv
<1>2. PICK f \in 1..p : getopt = At(p, f, f)
  BY <1>1 DEF Follows
<1>3. p \in 1..Len(line) /\ numOptErrs \in Nat
  BY <1>1, BeginsAre DEF Follows
<1>4. /\ option.g = At(p + Width(p), p, p)
      /\ Errs(p) => option.option \in {"?", ":"}
      /\ ~Errs(p) => option.option = Letter(e)
      /\ ~Errs(p) => option.optarg = IF ShowsValue(e) THEN ValueOf(p) ELSE NoValue
  BY <1>0, <1>1, <1>2, <1>3, OptionTaken
<1>5. ~Errs(p) => /\ Letter(e) \in {"e", "h", "d"} \cup FileNames
                  /\ Letter(e) \in {"d"} \cup FileNames => ShowsValue(e)
  BY <1>0, LettersAre DEF Errs
<1>6. FileNames = {"r", "E", "t", "c", "a", "g"}
  BY DEF FileNames
<1>7. DOMAIN names = FileNames \cup {"e", "pcap"}
  BY DEF IInv
<1>8. ValueOf(p) # NoValue
  <2>1. p + Width(p) - 1 # 0
    BY <1>3, WidthIs
  <2> QED
    BY <2>1, ValueIsThere
<1> HIDE DEF p, e
<1>9. line' = line /\ getopt' = At(p + Width(p), p, p)
  BY <1>4 DEF Next, RecordEnvironment, Help, Name, Level, Wrong, Default, Finish, Turn
<1>10. CASE Goes
  <2>1. Follows(At(p + Width(p), p, p), names', debugLevel', numOptErrs', p + Width(p))
    BY <1>1, <1>10, StillFollows DEF p, e
  <2>2. getopt'.optind = p + Width(p)
    BY <1>9, AtFields
  <2> QED
    BY <1>9, <1>10, <2>1, <2>2, SynopsisStep
<1>11. CASE Stops
  <2>1. Says("exit", names', debugLevel')
    BY <1>11, EndIsSaid DEF p
  <2> QED
    BY <1>9, <1>11, <2>1, SynopsisStep
<1>12. CASE RecordEnvironment
  <2>1. /\ option.option = "e" /\ names' = [names EXCEPT !.e = 1]
        /\ UNCHANGED <<debugLevel, numOptErrs, outcome>>
    BY <1>12 DEF RecordEnvironment, Turn
  <2>2. ~Errs(p) /\ Letter(e) = "e"
    BY <1>4, <2>1
  <2>3. ~Ends(p)
    BY <2>2, EndsOf DEF e
  <2>4. \A letter \in FileNames : names'[letter] = names[letter] /\ letter # "e"
    BY <1>6, <1>7, <2>1
  <2> HIDE DEF Goes
  <2>5. Goes
    BY <1>3, <2>1, <2>2, <2>3, <2>4 DEF Goes
  <2> QED
    BY <1>10, <2>5
<1>13. CASE Help
  <2>1. option.option = "h" /\ outcome' = "exit"
    BY <1>13 DEF Help, Turn
  <2>2. ~Errs(p) /\ Letter(e) = "h"
    BY <1>4, <2>1
  <2>3. Ends(p)
    BY <2>2, EndsOf DEF e
  <2> QED
    BY <1>11, <2>1, <2>3
<1>14. CASE Name
  <2>1. /\ option.option \in FileNames /\ UNCHANGED <<debugLevel, numOptErrs>>
        /\ \/ option.optarg = NoValue /\ outcome' = "crash"
           \/ option.optarg # NoValue /\ TooLong(option.optarg) /\ outcome' = "exit"
           \/ /\ option.optarg # NoValue /\ ~TooLong(option.optarg)
              /\ names' = [names EXCEPT ![option.option] = option.optarg]
              /\ outcome' = outcome
    BY <1>14 DEF Name, Turn
  <2>2. ~Errs(p) /\ Letter(e) \in FileNames /\ Letter(e) # "d" /\ Letter(e) = option.option
    BY <1>4, <1>6, <2>1
  <2>3. Ends(p) <=> TooLong(ValueOf(p))
    BY <2>2, EndsOf DEF e
  <2>4. option.optarg = ValueOf(p)
    BY <1>4, <1>5, <2>2
  <2>5. option.optarg # NoValue
    BY <1>8, <2>4
  <2>6. CASE TooLong(ValueOf(p))
    <3>1. outcome' = "exit"
      BY <2>1, <2>4, <2>5, <2>6
    <3> QED
      BY <1>11, <2>3, <2>6, <3>1
  <2>7. CASE ~TooLong(ValueOf(p))
    <3>1. outcome' = "none" /\ names' = [names EXCEPT ![Letter(e)] = ValueOf(p)]
      BY <2>1, <2>2, <2>4, <2>5, <2>7
    <3>2. ~Ends(p)
      BY <2>3, <2>7
    <3>3. \A letter \in FileNames :
            names'[letter] = IF Letter(e) = letter THEN ValueOf(p) ELSE names[letter]
      BY <1>7, <3>1
    <3> HIDE DEF Goes
    <3>4. Goes
      BY <1>3, <2>1, <2>2, <3>1, <3>2, <3>3 DEF Goes
    <3> QED
      BY <1>10, <3>4
  <2> QED
    BY <2>6, <2>7
<1>15. CASE Level
  <2>1. /\ option.option = "d" /\ UNCHANGED <<names, numOptErrs>>
        /\ \/ /\ atoi(option.optarg) \in 1..3
              /\ debugLevel' = atoi(option.optarg) /\ outcome' = outcome
           \/ atoi(option.optarg) \notin 1..3 /\ outcome' = "exit"
    BY <1>15 DEF Level, Turn
  <2>2. ~Errs(p) /\ Letter(e) = "d" /\ option.optarg = ValueOf(p)
    BY <1>4, <1>5, <2>1
  <2>3. Ends(p) <=> atoi(ValueOf(p)) \notin 1..3
    BY <2>2, EndsOf DEF e
  <2>4. CASE atoi(ValueOf(p)) \in 1..3
    <3>1. \A letter \in FileNames : letter # "d"
      BY <1>6
    <3> HIDE DEF Goes
    <3>2. Goes
      BY <1>3, <2>1, <2>2, <2>3, <2>4, <3>1 DEF Goes
    <3> QED
      BY <1>10, <3>2
  <2>5. CASE atoi(ValueOf(p)) \notin 1..3
    BY <1>11, <2>1, <2>2, <2>3, <2>5
  <2> QED
    BY <2>4, <2>5
<1>16. CASE Wrong
  <2>1. /\ option.option \in {"?", ":"} /\ numOptErrs' = numOptErrs + 1
        /\ UNCHANGED <<names, debugLevel, outcome>>
    BY <1>16 DEF Wrong, Turn
  <2>2. Errs(p)
    BY <1>4, <1>5, <1>6, <2>1
  <2>3. ~Ends(p)
    BY <2>2, EndsOf
  <2> HIDE DEF Goes
  <2>4. Goes
    BY <1>3, <2>1, <2>2, <2>3 DEF Goes
  <2> QED
    BY <1>10, <2>4
<1>17. ~Default
  <2>1. option.option # "p"
    BY <1>4, <1>5, <1>6
  <2> QED
    BY <2>1 DEF Default, Turn
<1>18. ~Finish
  <2>1. option.option # "end"
    BY <1>4, <1>5, <1>6
  <2> QED
    BY <2>1 DEF Finish, Turn
<1> QED
  BY <1>12, <1>13, <1>14, <1>15, <1>16, <1>17, <1>18 DEF Next

\* The turn that ends the loop.
LEMMA LastTurn ==
  ASSUME IInv, Following, outcome = "none", InSynopsis, Next, ~Stopped,
         getopt.optind <= Len(line) => line[getopt.optind].kind = "operand"
  PROVE  (Following /\ SynopsisHolds)'
<1> DEFINE p == getopt.optind
<1>1. Follows(getopt, names, debugLevel, numOptErrs, p) /\ line \in Lines
  BY DEF Following, IInv
<1>2. PICK f \in 1..p : getopt = At(p, f, f)
  BY <1>1 DEF Follows
<1>3. /\ p \in 1..argc /\ numOptErrs \in Nat /\ Len(line) \in Nat /\ argc = Len(line) + 1
      /\ p <= Len(line) => p \in Begins
  BY <1>1, LineFacts DEF Follows
<1>4. p <= Len(line) => line[p].kind = "operand"
  OBVIOUS
<1> HIDE DEF p
<1>5. option.option = "end" /\ option.g = At(p, p, argc)
  <2>1. \A q \in p..Len(line) : line[q].kind = "operand"
    <3>1. CASE p <= Len(line)
      BY <1>1, <1>3, <1>4, <3>1, OperandsBehind
    <3>2. CASE ~(p <= Len(line))
      BY <1>3, <3>2
    <3> QED
      BY <3>1, <3>2
  <2> QED
    BY <1>1, <1>2, <1>3, <2>1, OperandsLeft
<1>6. "end" \notin FileNames
  BY DEF FileNames
<1>7. Finish
  BY <1>5, <1>6 DEF Next, RecordEnvironment, Help, Name, Level, Wrong, Default, Turn
<1>8. /\ line' = line /\ debugLevel' = debugLevel
      /\ numOptErrs' = numOptErrs + IF argc # option.g.optind + 1 THEN 1 ELSE 0
      /\ \/ numOptErrs' > 0 /\ outcome' = "exit"
         \/ /\ numOptErrs' = 0 /\ outcome' = "runs"
            /\ names' = [names EXCEPT !.pcap = option.g.argv[option.g.optind]]
  BY <1>7 DEF Finish, Turn
<1>9. option.g.optind = p /\ option.g.argv = AsTyped
  BY <1>5, AtFields
<1>10. numOptErrs' = numOptErrs + IF p # Len(line) THEN 1 ELSE 0
  BY <1>3, <1>8, <1>9
<1>11. CASE numOptErrs' > 0 /\ outcome' = "exit"
  <2>1. numOptErrs > 0 \/ p # Len(line)
    BY <1>3, <1>10, <1>11
  <2>2. Says("exit", names', debugLevel')
    BY <1>1, <1>4, <2>1, RestIsSaid
  <2> QED
    BY <1>8, <1>11, <2>2, SynopsisStep
<1>12. CASE /\ numOptErrs' = 0 /\ outcome' = "runs"
            /\ names' = [names EXCEPT !.pcap = option.g.argv[option.g.optind]]
  <2>1. ~(numOptErrs > 0) /\ p = Len(line)
    BY <1>3, <1>10, <1>12
  <2>2. option.g.argv[option.g.optind] = p
    BY <1>3, <1>9, <2>1 DEF AsTyped
  <2>3. DOMAIN names = FileNames \cup {"e", "pcap"}
    BY DEF IInv
  <2>4. names'.pcap = p /\ \A letter \in FileNames : names'[letter] = names[letter]
    BY <1>12, <2>2, <2>3 DEF FileNames
  <2>5. Says("runs", names', debugLevel)
    BY <1>1, <1>4, <2>1, <2>4, RestIsSaid
  <2> QED
    BY <1>8, <1>12, <2>5, SynopsisStep
<1> QED
  BY <1>8, <1>11, <1>12

\* The loop keeps to the line: at an option, and at the end.
LEMMA NextFollowing ==
  IInv /\ Following /\ SynopsisHolds /\ [Next]_vars => (Following /\ SynopsisHolds)'
<1> SUFFICES ASSUME IInv, Following, SynopsisHolds, [Next]_vars
             PROVE  (Following /\ SynopsisHolds)'
  OBVIOUS
<1>1. CASE UNCHANGED vars
  <2>1. /\ line' = line /\ outcome' = outcome /\ names' = names /\ getopt' = getopt
        /\ debugLevel' = debugLevel /\ numOptErrs' = numOptErrs
    BY <1>1 DEF vars
  <2>2. outcome # "none" => Says(outcome, names, debugLevel)
    BY SaysIs
  <2>3. outcome = "none" /\ InSynopsis =>
          Follows(getopt, names, debugLevel, numOptErrs, getopt.optind)
    BY DEF Following
  <2> QED
    BY <2>1, <2>2, <2>3, SynopsisStep
<1>2. CASE Next /\ ~Stopped
  <2>1. outcome = "none" /\ line' = line
    BY <1>2 DEF Next, RecordEnvironment, Help, Name, Level, Wrong, Default, Finish, Turn
  <2>2. CASE ~InSynopsis
    BY <2>1, <2>2, SynopsisStep
  <2>3. CASE InSynopsis
    <3> DEFINE p == getopt.optind
    <3>1. p <= Len(line) => p \in Begins
      BY <2>1, <2>3 DEF Following, Follows
    <3>2. p \in Begins => line[p].kind \in {"operand", "short", "long"}
      <4>1. p \in Begins => p \in 1..Len(line) /\ line \in Lines
        BY BeginsAre DEF IInv
      <4>2. p \in Begins => line[p].kind # "--"
        BY <2>3 DEF InSynopsis, InOrder
      <4> QED
        BY <4>1, <4>2, LineFacts
    <3>3. CASE p \in Begins /\ IsOption(p)
      BY <1>2, <2>1, <2>3, <3>3, OptionTurn
    <3>4. CASE ~(p \in Begins /\ IsOption(p))
      <4>1. p <= Len(line) => line[p].kind = "operand"
        BY <3>1, <3>2, <3>4 DEF IsOption
      <4> QED
        BY <1>2, <2>1, <2>3, <4>1, LastTurn
    <3> QED
      BY <3>3, <3>4
  <2> QED
    BY <2>2, <2>3
<1> QED
  BY <1>1, <1>2 DEF Stopped

\* For every command line without the options that the usage text and the code
\* disagree on (and without clusters): options, values attached or not, and
\* then operands mean what the text says they mean, whatever getopt_long moves,
\* however often the loop takes an element back, and in whatever order errors
\* and options that end the program come.
THEOREM SynopsisIsHeld == Spec => []SynopsisHolds
<1>1. Init => IInv /\ Following /\ SynopsisHolds
  BY InitIInv, InitFollowing
<1>2. IInv /\ Following /\ SynopsisHolds /\ [Next]_vars
        => (IInv /\ Following /\ SynopsisHolds)'
  BY NextIInv, NextFollowing
<1> QED
  BY <1>1, <1>2, PTL DEF Spec
=============================================================================
