------------------------------- MODULE Induct -------------------------------
(***************************************************************************)
(* Induction over the naturals in the form the provers can use: about      *)
(* sets, and not about predicates or operators.  From the library it takes *)
(* that < is well-founded and that a well-founded relation has minima.     *)
(* With it a LET recursive function is known to solve its own equation.    *)
(***************************************************************************)
EXTENDS Naturals, TLAPS, WellFoundedInduction

\* A set of naturals that is not empty has a least member.
LEMMA Least ==
    ASSUME NEW T \in SUBSET Nat, T # {}
    PROVE  \E x \in T : \A y \in T : x <= y
<1> DEFINE R == {ss \in Nat \X Nat : ss[1] < ss[2]}
<1>1. IsWellFoundedOn(R, Nat)
  BY NatLessThanWellFounded DEF OpToRel
<1>2. PICK x \in T : \A y \in T : <<y, x>> \notin R
  <2> HIDE DEF R
  <2> QED BY <1>1, WFMin
<1>3. ASSUME NEW y \in T
      PROVE  x <= y
  <2>1. <<y, x>> \notin R
    BY <1>2
  <2>2. ~(y < x)
    BY <2>1
  <2> QED BY <2>2
<1> QED BY <1>3

\* One that is bounded has a greatest member too.
LEMMA Greatest ==
    ASSUME NEW m \in Nat, NEW T \in SUBSET (0 .. m), T # {}
    PROVE  \E x \in T : \A y \in T : y <= x
<1> DEFINE D == {m - x : x \in T}
<1>1. \A x \in T : x \in Nat /\ x <= m /\ m - x \in Nat
  OBVIOUS
<1>2. D \in SUBSET Nat /\ D # {}
  BY <1>1
<1>3. PICK d \in D : \A e \in D : d <= e
  <2> HIDE DEF D
  <2> QED BY <1>2, Least
<1>4. PICK x \in T : d = m - x
  BY <1>3
<1>5. ASSUME NEW y \in T
      PROVE  y <= x
  <2>1. m - x <= m - y
    BY <1>3, <1>4
  <2> QED BY <1>1, <2>1
<1> QED BY <1>5

\* Induction: a set that holds 0 and the successor of each of its members.
LEMMA Inductive ==
    ASSUME NEW T, 0 \in T, \A n \in Nat : n \in T => n + 1 \in T
    PROVE  Nat \subseteq T
<1> SUFFICES ASSUME NEW m \in Nat, m \notin T
             PROVE  FALSE
  OBVIOUS
<1>1. PICK x \in Nat \ T : \A y \in Nat \ T : x <= y
  BY Least
<1>2. x # 0 /\ x - 1 \in Nat
  BY <1>1
<1>3. x - 1 \in T
  BY <1>1, <1>2
<1> QED BY <1>1, <1>2, <1>3

\* A recursion over the naturals has a solution.
LEMMA Recursion ==
    ASSUME NEW S, NEW base \in S, NEW F \in [Nat -> [S -> S]]
    PROVE  \E g \in [Nat -> S] : g[0] = base /\ \A n \in Nat : g[n + 1] = F[n + 1][g[n]]
<1> DEFINE Solves(h, n) == /\ h \in [0 .. n -> S] /\ h[0] = base
                           /\ \A k \in 0 .. (n - 1) : h[k + 1] = F[k + 1][h[k]]
           Some == {n \in Nat : \E h \in [0 .. n -> S] : Solves(h, n)}
<1>1. 0 \in Some
  <2>1. Solves([k \in 0 .. 0 |-> base], 0)
    OBVIOUS
  <2> QED BY <2>1
<1>2. ASSUME NEW n \in Nat, n \in Some
      PROVE  n + 1 \in Some
  <2>1. PICK h \in [0 .. n -> S] : Solves(h, n)
    BY <1>2
  <2> DEFINE g == [k \in 0 .. (n + 1) |-> IF k = n + 1 THEN F[n + 1][h[n]] ELSE h[k]]
  <2>2. g \in [0 .. (n + 1) -> S]
    BY <2>1
  <2>3. g[0] = base
    BY <2>1
  <2>4. ASSUME NEW k \in 0 .. n
        PROVE  g[k + 1] = F[k + 1][g[k]]
    BY <2>1
  <2>5. Solves(g, n + 1)
    <3> HIDE DEF g
    <3>1. (n + 1) - 1 = n
      OBVIOUS
    <3> QED BY <2>2, <2>3, <2>4, <3>1
  <2> HIDE DEF g, Solves
  <2> QED BY <2>2, <2>5
<1>3. Nat \subseteq Some
  <2> HIDE DEF Some
  <2> QED BY <1>1, <1>2, Inductive
<1>4. ASSUME NEW n \in Nat
      PROVE  \E h \in [0 .. n -> S] : Solves(h, n)
  BY <1>3
<1> DEFINE part == [n \in Nat |-> CHOOSE h \in [0 .. n -> S] : Solves(h, n)]
<1>5. ASSUME NEW n \in Nat
      PROVE  Solves(part[n], n)
  <2> HIDE DEF Solves
  <2> QED BY <1>4
<1> HIDE DEF part
<1>6. ASSUME NEW n \in Nat
      PROVE  part[n + 1][n] = part[n][n]
  <2> DEFINE Same == {k \in Nat : k <= n => part[n + 1][k] = part[n][k]}
  <2>0. Solves(part[n], n) /\ Solves(part[n + 1], n + 1)
    BY <1>5
  <2>1. 0 \in Same
    BY <2>0
  <2>2. ASSUME NEW k \in Nat, k \in Same
        PROVE  k + 1 \in Same
    <3> SUFFICES ASSUME k + 1 <= n PROVE part[n + 1][k + 1] = part[n][k + 1]
      OBVIOUS
    <3>1. part[n + 1][k] = part[n][k]
      BY <2>2
    <3>2. k \in 0 .. (n - 1) /\ k \in 0 .. ((n + 1) - 1)
      OBVIOUS
    <3> QED BY <2>0, <3>1, <3>2
  <2>3. Nat \subseteq Same
    <3> HIDE DEF Same
    <3> QED BY <2>1, <2>2, Inductive
  <2> QED BY <2>3
<1> DEFINE g == [n \in Nat |-> part[n][n]]
<1>7. g \in [Nat -> S] /\ g[0] = base
  BY <1>5
<1>8. ASSUME NEW n \in Nat
      PROVE  g[n + 1] = F[n + 1][g[n]]
  <2>1. part[n + 1][n + 1] = F[n + 1][part[n + 1][n]]
    <3>1. n \in 0 .. ((n + 1) - 1)
      OBVIOUS
    <3> QED BY <1>5, <3>1
  <2> QED BY <1>6, <2>1
<1> HIDE DEF g
<1> QED BY <1>7, <1>8

\* Induction up to a bound.
LEMMA InductiveUpTo ==
    ASSUME NEW m \in Nat, NEW T, 0 \in T, \A n \in 0 .. (m - 1) : n \in T => n + 1 \in T
    PROVE  0 .. m \subseteq T
<1> DEFINE U == {n \in Nat : n \in 0 .. m => n \in T}
<1>1. 0 \in U
  OBVIOUS
<1>2. ASSUME NEW n \in Nat, n \in U
      PROVE  n + 1 \in U
  <2>1. n + 1 \in 0 .. m => n \in 0 .. (m - 1) /\ n \in 0 .. m
    OBVIOUS
  <2> QED BY <1>2, <2>1
<1> HIDE DEF U
<1>3. Nat \subseteq U
  BY <1>1, <1>2, Inductive
<1> QED BY <1>3 DEF U

\* The recursion by its name, which spares the provers its function spaces.
Steps(S) == [Nat -> [S -> S]]
Solves(g, base, F) == g[0] = base /\ \A n \in Nat : g[n + 1] = F[n + 1][g[n]]

LEMMA NamedRecursion ==
    ASSUME NEW S, NEW base \in S, NEW F \in Steps(S)
    PROVE  \E g \in [Nat -> S] : Solves(g, base, F)
<1>1. base \in S
  OBVIOUS
<1>2. F \in [Nat -> [S -> S]]
  BY DEF Steps
<1>3. PICK g \in [Nat -> S] : g[0] = base /\ \A n \in Nat : g[n + 1] = F[n + 1][g[n]]
  BY ONLY <1>1, <1>2, Recursion
<1> QED BY <1>3 DEF Solves

\* Recursion up to a bound.
StepsUpTo(m, S) == [1 .. m -> [S -> S]]
SolvesUpTo(m, g, base, F) == g[0] = base /\ \A n \in 1 .. m : g[n] = F[n][g[n - 1]]

LEMMA RecursionUpTo ==
    ASSUME NEW m \in Nat, NEW S, NEW base \in S, NEW F \in StepsUpTo(m, S)
    PROVE  \E g \in [0 .. m -> S] : SolvesUpTo(m, g, base, F)
<1> DEFINE G == [n \in Nat |-> IF n \in 1 .. m THEN F[n] ELSE [q \in S |-> q]]
<1>1. G \in Steps(S)
  BY DEF Steps, StepsUpTo
<1>2. PICK h \in [Nat -> S] : Solves(h, base, G)
  <2> HIDE DEF G
  <2> QED BY <1>1, NamedRecursion
<1> DEFINE g == [n \in 0 .. m |-> h[n]]
<1>3. g \in [0 .. m -> S] /\ g[0] = base
  BY <1>2 DEF Solves
<1>4. ASSUME NEW n \in 1 .. m
      PROVE  g[n] = F[n][g[n - 1]]
  <2>1. n - 1 \in Nat /\ (n - 1) + 1 = n /\ n - 1 \in 0 .. m /\ n \in 0 .. m /\ n \in Nat
    OBVIOUS
  <2>2. h[n] = G[n][h[n - 1]]
    <3> HIDE DEF G
    <3> QED BY <1>2, <2>1 DEF Solves
  <2>3. G[n] = F[n]
    BY <2>1
  <2> HIDE DEF G
  <2> QED BY <2>1, <2>2, <2>3
<1> HIDE DEF g
<1> QED BY <1>3, <1>4 DEF SolvesUpTo

\* A sum of parts, and the equation of one that is written with LET.
PartsIn(m) == [1 .. m -> Nat]
Summing(m, parts, g) == g = [n \in 0 .. m |-> IF n = 0 THEN 0 ELSE g[n - 1] + parts[n]]

LEMMA Sums ==
    ASSUME NEW m \in Nat, NEW parts \in PartsIn(m)
    PROVE  \E g \in [0 .. m -> Nat] : Summing(m, parts, g)
<1> DEFINE F == [n \in 1 .. m |-> [q \in Nat |-> q + parts[n]]]
<1>1. F \in StepsUpTo(m, Nat)
  BY DEF StepsUpTo, PartsIn
<1>2. PICK g \in [0 .. m -> Nat] : SolvesUpTo(m, g, 0, F)
  <2>1. 0 \in Nat
    OBVIOUS
  <2> HIDE DEF F
  <2> QED BY <1>1, <2>1, RecursionUpTo
<1>3. ASSUME NEW n \in 1 .. m
      PROVE  g[n] = g[n - 1] + parts[n]
  <2>1. n - 1 \in 0 .. m /\ g[n - 1] \in Nat
    OBVIOUS
  <2>2. g[n] = F[n][g[n - 1]]
    <3> HIDE DEF F
    <3> QED BY <1>2 DEF SolvesUpTo
  <2>3. F[n] = [q \in Nat |-> q + parts[n]]
    OBVIOUS
  <2> HIDE DEF F
  <2> QED BY <2>1, <2>2, <2>3
<1> HIDE DEF F
<1>4. Summing(m, parts, g)
  <2>1. \A n \in 0 .. m : n # 0 => n \in 1 .. m
    OBVIOUS
  <2>2. \A n \in 0 .. m : g[n] = IF n = 0 THEN 0 ELSE g[n - 1] + parts[n]
    BY <1>2, <1>3, <2>1 DEF SolvesUpTo
  <2> QED BY <2>2 DEF Summing
<1> QED BY <1>4

\* What such an equation determines.
LEMMA SummingTells ==
    ASSUME NEW m \in Nat, NEW parts \in PartsIn(m), NEW h, Summing(m, parts, h)
    PROVE  /\ h[0] = 0
           /\ \A n \in 1 .. m : h[n] = h[n - 1] + parts[n]
           /\ \A n \in 0 .. m : h[n] \in Nat
<1>1. 0 \in 0 .. m /\ \A n \in 1 .. m : n \in 0 .. m /\ n # 0
  OBVIOUS
<1>2. h[0] = 0 /\ \A n \in 1 .. m : h[n] = h[n - 1] + parts[n]
  BY <1>1 DEF Summing
<1> DEFINE T == {n \in 0 .. m : h[n] \in Nat}
<1>3. 0 \in T
  BY <1>1, <1>2
<1>4. ASSUME NEW n \in 0 .. (m - 1), n \in T
      PROVE  n + 1 \in T
  <2>1. n + 1 \in 1 .. m /\ n + 1 \in 0 .. m /\ (n + 1) - 1 = n
    OBVIOUS
  <2>2. h[n + 1] = h[n] + parts[n + 1] /\ parts[n + 1] \in Nat
    BY <1>2, <2>1 DEF PartsIn
  <2> QED BY <1>4, <2>1, <2>2
<1>5. m \in Nat
  OBVIOUS
<1>6. 0 .. m \subseteq T
  <2> HIDE DEF T
  <2> QED BY ONLY <1>3, <1>4, <1>5, InductiveUpTo
<1> QED BY <1>2, <1>6
=============================================================================
