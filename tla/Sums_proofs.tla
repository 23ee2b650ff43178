---------------------------- MODULE Sums_proofs -----------------------------
(***************************************************************************)
(* Lemmas about sums over finite sets, as SumFunctionOnSet of the          *)
(* community modules adds them up: its choice of the next term does not    *)
(* matter, terms can be taken out, sets can be split, and the sums by key add *)
(* up to the sum over the keys.  An induction over finite sets is a smallest *)
(* set that violates the claim.                                            *)
(***************************************************************************)
EXTENDS Integers, FiniteSets, FiniteSetsExt, FiniteSetTheorems, WellFoundedInduction, TLAPS

\* Of some subsets of a finite set one contains none of the others.
LEMMA MinimalSet ==
  ASSUME NEW S, IsFiniteSet(S), NEW B, B # {}, \A T \in B : T \in SUBSET S
  PROVE  \E T \in B : \A U \in SUBSET T : U # T => U \notin B
<1>1. FiniteSubsetsOf(S) = SUBSET S
  BY FS_FiniteSubsetsOfFinite
<1>2. IsWellFoundedOn(StrictSubsetOrdering(S), SUBSET S)
  BY <1>1, FS_StrictSubsetOrderingWellFounded
<1>3. PICK T \in B : \A U \in B : <<U, T>> \notin StrictSubsetOrdering(S)
  BY <1>2, WFMin
<1>4. ASSUME NEW U \in SUBSET T, U # T, U \in B PROVE FALSE
  BY <1>3, <1>4 DEF StrictSubsetOrdering
<1> QED BY <1>4

\* The function of which the sum over S is the last value.
IsSum(R, f, S) ==
  R = [s \in SUBSET S |-> IF s = {} THEN 0
                          ELSE f[CHOOSE x \in s : TRUE] + R[s \ {CHOOSE x \in s : TRUE}]]

LEMMA SumChosen ==
  ASSUME NEW f, NEW S
  PROVE  SumFunctionOnSet(f, S) = (CHOOSE R : IsSum(R, f, S))[S]
BY DEF SumFunctionOnSet, FoldFunctionOnSet, MapThenFoldSet, IsSum

\* Its value at a set depends on nothing outside of the set.
LEMMA SumUnique ==
  ASSUME NEW f, NEW S, IsFiniteSet(S), NEW R, IsSum(R, f, S),
         NEW T \in SUBSET S, NEW Q, IsSum(Q, f, T)
  PROVE  \A t \in SUBSET T : Q[t] = R[t]
<1> SUFFICES ASSUME {t \in SUBSET T : Q[t] # R[t]} # {} PROVE FALSE
  OBVIOUS
<1>1. IsFiniteSet(T)
  BY FS_Subset
<1>b. PICK B : B = {t \in SUBSET T : Q[t] # R[t]}
  OBVIOUS
<1>m. PICK t \in B : \A u \in SUBSET t : u # t => u \notin B
  BY <1>1, <1>b, MinimalSet
<1>2. t \in SUBSET T /\ Q[t] # R[t] /\ \A u \in SUBSET t : u # t => Q[u] = R[u]
  BY <1>b, <1>m
<1>3. CASE t = {}
  BY <1>2, <1>3 DEF IsSum
<1>4. CASE t # {}
  <2>1. PICK x \in t : x = CHOOSE y \in t : TRUE
    BY <1>4
  <2>2. Q[t \ {x}] = R[t \ {x}]
    BY <1>2, <2>1
  <2>3. Q[t] = f[x] + Q[t \ {x}]
    BY <1>2, <1>4, <2>1 DEF IsSum
  <2>4. R[t] = f[x] + R[t \ {x}]
    BY <1>2, <1>4, <2>1 DEF IsSum
  <2> QED BY <1>2, <2>2, <2>3, <2>4
<1> QED BY <1>3, <1>4

LEMMA SumExists ==
  ASSUME NEW f, NEW S, IsFiniteSet(S)
  PROVE  \E R : IsSum(R, f, S)
<1> SUFFICES ASSUME {t \in SUBSET S : ~ \E R : IsSum(R, f, t)} # {} PROVE FALSE
  OBVIOUS
<1>b. PICK B : B = {t \in SUBSET S : ~ \E R : IsSum(R, f, t)}
  OBVIOUS
<1>c. B # {} /\ \A t \in B : t \in SUBSET S
  BY <1>b
<1>m. PICK t \in B : \A u \in SUBSET t : u # t => u \notin B
  BY <1>c, MinimalSet
<1>1. t \in SUBSET S /\ ~ \E R : IsSum(R, f, t)
  BY <1>b, <1>m
<1>2. \A u \in SUBSET t : u # t => \E R : IsSum(R, f, u)
  BY <1>b, <1>m
<1>3. IsFiniteSet(t)
  BY <1>1, FS_Subset
<1> DEFINE x(s) == CHOOSE y \in s : TRUE
           sum(s) == (CHOOSE R : IsSum(R, f, s))[s]
<1>4. PICK Q : Q = [s \in SUBSET t |-> IF s = {} THEN 0 ELSE f[x(s)] + sum(s \ {x(s)})]
  OBVIOUS
<1>5. ASSUME NEW s \in SUBSET t, s # {} PROVE Q[s] = f[x(s)] + Q[s \ {x(s)}]
  <2>0. x(s) \in s
    BY <1>5
  <2> HIDE DEF x
  <2>a. PICK u : u = s \ {x(s)}
    OBVIOUS
  <2>1. u = s \ {x(s)} /\ u \in SUBSET t /\ u # t /\ u \in SUBSET s
    BY <1>5, <2>0, <2>a
  <2>2. IsFiniteSet(u)
    BY <1>3, <2>1, FS_Subset
  <2>3. PICK R : IsSum(R, f, u) /\ sum(u) = R[u]
    BY <1>2, <2>1
  <2>4. Q[s] = f[x(s)] + R[u]
    BY <1>4, <1>5, <2>1, <2>3
  <2>5. CASE u = {}
    <3>1. Q[u] = 0 /\ R[u] = 0
      BY <1>4, <2>3, <2>5 DEF IsSum
    <3> QED BY <2>1, <2>4, <3>1
  <2>6. CASE u # {}
    <3>0. x(u) \in u
      BY <2>6 DEF x
    <3>a. PICK v : v = u \ {x(u)}
      OBVIOUS
    <3>1. v = u \ {x(u)} /\ v \in SUBSET u /\ v \in SUBSET t /\ v # t
      BY <2>1, <3>0, <3>a
    <3>2. PICK W : IsSum(W, f, v) /\ sum(v) = W[v]
      BY <1>2, <2>1, <3>1
    <3>3. W[v] = R[v]
      <4>a. v \in SUBSET u /\ IsSum(W, f, v) /\ IsSum(R, f, u)
        BY <2>3, <3>1, <3>2
      <4>b. \A F, X, P, Y, Z :
              IsFiniteSet(X) /\ IsSum(P, F, X) /\ Y \in SUBSET X /\ IsSum(Z, F, Y) =>
              \A w \in SUBSET Y : Z[w] = P[w]
        BY SumUnique
      <4>c. v \in SUBSET v
        OBVIOUS
      <4>d. IsFiniteSet(u) /\ IsSum(R, f, u) /\ v \in SUBSET u /\ IsSum(W, f, v)
        BY <2>2, <4>a
      <4>e. \A w \in SUBSET v : W[w] = R[w]
        <5> HIDE DEF IsSum
        <5> QED BY <4>b, <4>d, SMTT(30)
      <4> QED BY <4>c, <4>e
    <3>4. R[u] = f[x(u)] + R[v]
      BY <2>3, <2>6, <3>1 DEF IsSum, x
    <3>5. Q[u] = f[x(u)] + W[v]
      BY <1>4, <2>1, <2>6, <3>1, <3>2
    <3> QED BY <2>1, <2>4, <3>3, <3>4, <3>5
  <2> QED BY <2>5, <2>6
<1>6. IsSum(Q, f, t)
  BY <1>4, <1>5 DEF IsSum
<1> QED BY <1>1, <1>6

\* The sum over a finite set, without the order in which it is taken.
LEMMA SumIs ==
  ASSUME NEW f, NEW S, IsFiniteSet(S)
  PROVE  \E R : /\ IsSum(R, f, S)
                /\ \A T \in SUBSET S : SumFunctionOnSet(f, T) = R[T]
<1>1. PICK R : IsSum(R, f, S)
  BY SumExists
<1>2. ASSUME NEW T \in SUBSET S PROVE SumFunctionOnSet(f, T) = R[T]
  <2>1. PICK Q : Q = (CHOOSE P : IsSum(P, f, T))
    OBVIOUS
  <2>2. IsSum(Q, f, T)
    BY <1>2, <2>1, SumExists, FS_Subset
  <2>3. Q[T] = R[T]
    BY <1>1, <2>2, SumUnique
  <2> QED BY <2>1, <2>3, SumChosen
<1> QED BY <1>1, <1>2

LEMMA SumEmpty == ASSUME NEW f PROVE SumFunctionOnSet(f, {}) = 0
<1>1. IsFiniteSet({})
  BY FS_EmptySet
<1>2. PICK R : IsSum(R, f, {}) /\ SumFunctionOnSet(f, {}) = R[{}]
  BY <1>1, SumIs
<1> QED BY <1>2 DEF IsSum

LEMMA SumRemoves ==
  ASSUME NEW f, NEW S, IsFiniteSet(S), \A x \in S : f[x] \in Nat
  PROVE  /\ SumFunctionOnSet(f, S) \in Nat
         /\ \A x \in S : SumFunctionOnSet(f, S) = f[x] + SumFunctionOnSet(f, S \ {x})
<1>1. PICK R : IsSum(R, f, S) /\ \A T \in SUBSET S : SumFunctionOnSet(f, T) = R[T]
  BY SumIs
<1> DEFINE Good(T) == R[T] \in Nat /\ \A x \in T : R[T] = f[x] + R[T \ {x}]
<1>2. \A T \in SUBSET S : Good(T)
  <2> SUFFICES ASSUME {T \in SUBSET S : ~Good(T)} # {} PROVE FALSE
    OBVIOUS
  <2>b. PICK B : B = {T \in SUBSET S : ~Good(T)}
    OBVIOUS
  <2>c. B # {} /\ \A T \in B : T \in SUBSET S
    BY <2>b
  <2>m. PICK T \in B : \A U \in SUBSET T : U # T => U \notin B
    BY <2>c, MinimalSet
  <2>1. T \in SUBSET S /\ ~Good(T)
    BY <2>b, <2>m
  <2>2. \A U \in SUBSET T : U # T => Good(U)
    BY <2>1, <2>b, <2>m
  <2>3. CASE T = {}
    BY <1>1, <2>1, <2>3 DEF IsSum
  <2>4. CASE T # {}
    <3>1. PICK y \in T : y = CHOOSE z \in T : TRUE
      BY <2>4
    <3>2. R[T] = f[y] + R[T \ {y}] /\ f[y] \in Nat
      BY <1>1, <2>1, <2>4, <3>1 DEF IsSum
    <3>3. Good(T \ {y})
      BY <2>2, <3>1
    <3>4. PICK n \in Nat : n = R[T \ {y}]
      BY <3>3
    <3>5. R[T] \in Nat
      BY <3>2, <3>4
    <3>6. ASSUME NEW x \in T, x # y PROVE R[T] = f[x] + R[T \ {x}]
      <4>1. R[T \ {y}] = f[x] + R[(T \ {y}) \ {x}]
        BY <3>3, <3>6
      <4>2. Good(T \ {x}) /\ y \in T \ {x}
        BY <2>2, <3>6
      <4>3. R[T \ {x}] = f[y] + R[(T \ {x}) \ {y}]
        BY <4>2
      <4>4. (T \ {x}) \ {y} = (T \ {y}) \ {x}
        OBVIOUS
      <4>5. Good((T \ {y}) \ {x})
        BY <2>2, <3>1
      <4>6. PICK m \in Nat : m = R[(T \ {y}) \ {x}]
        BY <4>5
      <4>7. f[x] \in Nat
        BY <2>1
      <4>8. R[T \ {y}] = f[x] + m /\ R[T \ {x}] = f[y] + m
        BY <4>1, <4>3, <4>4, <4>6
      <4> QED BY <3>2, <4>6, <4>7, <4>8
    <3> QED BY <2>1, <3>2, <3>5, <3>6
  <2> QED BY <2>3, <2>4
<1>3. Good(S)
  BY <1>2
<1> QED BY <1>1, <1>3

\* Equal terms have equal sums.
LEMMA SumSame ==
  ASSUME NEW f, NEW g, NEW S, IsFiniteSet(S), \A x \in S : f[x] = g[x] /\ f[x] \in Nat
  PROVE  SumFunctionOnSet(f, S) = SumFunctionOnSet(g, S)
<1> DEFINE Good(T) == SumFunctionOnSet(f, T) = SumFunctionOnSet(g, T)
<1> SUFFICES ASSUME ~Good(S) PROVE FALSE
  OBVIOUS
<1>1. PICK B : B = {T \in SUBSET S : ~Good(T)}
  OBVIOUS
<1>2. B # {} /\ \A T \in B : T \in SUBSET S
  BY <1>1
<1>3. PICK T \in B : \A U \in SUBSET T : U # T => U \notin B
  BY <1>2, MinimalSet
<1>4. T \in SUBSET S /\ ~Good(T) /\ \A U \in SUBSET T : U # T => Good(U)
  BY <1>1, <1>3
<1>5. T # {}
  BY <1>4, SumEmpty
<1>6. PICK x : x \in T
  BY <1>5
<1>7. Good(T \ {x})
  BY <1>4, <1>6
<1>8. IsFiniteSet(T) /\ (\A y \in T : f[y] \in Nat) /\ (\A y \in T : g[y] \in Nat)
  BY <1>4, FS_Subset
<1>9. SumFunctionOnSet(f, T) = f[x] + SumFunctionOnSet(f, T \ {x})
  BY <1>6, <1>8, SumRemoves
<1>10. SumFunctionOnSet(g, T) = g[x] + SumFunctionOnSet(g, T \ {x})
  BY <1>6, <1>8, SumRemoves
<1>11. f[x] = g[x]
  BY <1>4, <1>6
<1> QED BY <1>4, <1>7, <1>9, <1>10, <1>11

\* A set and the rest add up to the whole.
LEMMA SumSplits ==
  ASSUME NEW f, NEW S, IsFiniteSet(S), \A x \in S : f[x] \in Nat, NEW P \in SUBSET S
  PROVE  SumFunctionOnSet(f, S) = SumFunctionOnSet(f, P) + SumFunctionOnSet(f, S \ P)
<1> DEFINE Sum(T) == SumFunctionOnSet(f, T)
           Good(T) == Sum(S) = Sum(T) + Sum(S \ T)
<1> SUFFICES ASSUME ~Good(P) PROVE FALSE
  OBVIOUS
<1>0. \A T \in SUBSET S : Sum(T) \in Nat /\ \A x \in T : Sum(T) = f[x] + Sum(T \ {x})
  <2> TAKE T \in SUBSET S
  <2>1. IsFiniteSet(T) /\ \A x \in T : f[x] \in Nat
    BY FS_Subset
  <2> QED BY <2>1, SumRemoves
<1>1. PICK B : B = {T \in SUBSET S : ~Good(T)}
  OBVIOUS
<1>2. B # {} /\ \A T \in B : T \in SUBSET S
  BY <1>1
<1>3. PICK T \in B : \A U \in SUBSET T : U # T => U \notin B
  BY <1>2, MinimalSet
<1>4. T \in SUBSET S /\ ~Good(T) /\ \A U \in SUBSET T : U # T => Good(U)
  BY <1>1, <1>3
<1>5. T # {}
  <2>1. S \ {} = S
    OBVIOUS
  <2>2. Sum({}) = 0 /\ Sum(S) \in Nat
    BY <1>0, SumEmpty
  <2>3. Good({})
    BY <2>1, <2>2
  <2> QED BY <1>4, <2>3
<1>6. PICK x \in T : f[x] \in Nat
  BY <1>4, <1>5
<1>7. Sum(S) = Sum(T \ {x}) + Sum(S \ (T \ {x}))
  BY <1>4
<1>8. Sum(T) = f[x] + Sum(T \ {x})
  BY <1>0, <1>4
<1>9. Sum(S \ (T \ {x})) = f[x] + Sum(S \ T)
  <2>1. x \in S \ (T \ {x}) /\ (S \ (T \ {x})) \ {x} = S \ T
    BY <1>4
  <2> QED BY <1>0, <2>1
<1>10. Sum(T \ {x}) \in Nat /\ Sum(S \ T) \in Nat
  BY <1>0, <1>4
<1> HIDE DEF Sum
<1>11. Sum(S) = Sum(T) + Sum(S \ T)
  BY <1>6, <1>7, <1>8, <1>9, <1>10
<1> QED BY <1>4, <1>11

\* The members of `S` that have their key in `K`.
WithKey(S, key, K) == {x \in S : key[x] \in K}

\* `g` has for every key the sum of the terms with that key.
SumsPerKey(g, K, f, S, key) == \A k \in K : g[k] = SumFunctionOnSet(f, WithKey(S, key, {k}))

Counted(f, S) == IsFiniteSet(S) /\ \A x \in S : f[x] \in Nat

\* The sums of the terms with one key add up to the sum of the terms whose key
\* is among them.
LEMMA SumByKey ==
  ASSUME NEW f, NEW S, Counted(f, S), NEW K, IsFiniteSet(K), NEW key, NEW g,
         SumsPerKey(g, K, f, S, key)
  PROVE  SumFunctionOnSet(g, K) = SumFunctionOnSet(f, WithKey(S, key, K))
<1>0. /\ IsFiniteSet(S) /\ \A x \in S : f[x] \in Nat
      /\ \A k \in K : g[k] = SumFunctionOnSet(f, WithKey(S, key, {k}))
  BY DEF Counted, SumsPerKey
<1> DEFINE Good(L) == SumFunctionOnSet(g, L) = SumFunctionOnSet(f, WithKey(S, key, L))
<1> SUFFICES ASSUME ~Good(K) PROVE FALSE
  OBVIOUS
<1>1. PICK B : B = {L \in SUBSET K : ~Good(L)}
  OBVIOUS
<1>2. B # {} /\ \A L \in B : L \in SUBSET K
  BY <1>1
<1>3. PICK L \in B : \A M \in SUBSET L : M # L => M \notin B
  BY <1>2, MinimalSet
<1>4. L \in SUBSET K /\ ~Good(L) /\ \A M \in SUBSET L : M # L => Good(M)
  BY <1>1, <1>3
<1>5. L # {}
  <2>1. WithKey(S, key, {}) = {}
    BY DEF WithKey
  <2> QED BY <1>4, <2>1, SumEmpty
<1>6. PICK k : k \in L
  BY <1>5
<1>7. Good(L \ {k})
  BY <1>4, <1>6
<1>8. PICK W : W = WithKey(S, key, L)
  OBVIOUS
<1>9. PICK P : P = WithKey(S, key, {k})
  OBVIOUS
<1>10. /\ W \in SUBSET S /\ P \in SUBSET W
       /\ W \ P = WithKey(S, key, L \ {k})
  BY <1>6, <1>8, <1>9 DEF WithKey
<1>11. IsFiniteSet(W) /\ \A x \in W : f[x] \in Nat
  BY <1>0, <1>10, FS_Subset
<1>12. SumFunctionOnSet(f, W) = SumFunctionOnSet(f, P) + SumFunctionOnSet(f, W \ P)
  BY <1>10, <1>11, SumSplits
<1>13. IsFiniteSet(L) /\ \A j \in L : g[j] \in Nat
  <2>1. IsFiniteSet(L)
    BY <1>4, FS_Subset
  <2>2. ASSUME NEW j \in L PROVE g[j] \in Nat
    <3>1. PICK Q : Q = WithKey(S, key, {j})
      OBVIOUS
    <3>2. IsFiniteSet(Q) /\ \A x \in Q : f[x] \in Nat
      BY <1>0, <3>1, FS_Subset DEF WithKey
    <3>3. g[j] = SumFunctionOnSet(f, Q)
      BY <1>0, <1>4, <3>1
    <3> QED BY <3>2, <3>3, SumRemoves
  <2> QED BY <2>1, <2>2
<1>14. SumFunctionOnSet(g, L) = g[k] + SumFunctionOnSet(g, L \ {k})
  BY <1>6, <1>13, SumRemoves
<1>15. g[k] = SumFunctionOnSet(f, P)
  BY <1>0, <1>4, <1>6, <1>9
<1>16. SumFunctionOnSet(g, L \ {k}) = SumFunctionOnSet(f, W \ P)
  BY <1>7, <1>10
<1> QED BY <1>4, <1>8, <1>12, <1>14, <1>15, <1>16
=============================================================================
