-------------------------- MODULE MemTracker_proofs --------------------------
(***************************************************************************)
(* Theorems about MemTracker, for any finite sets of threads and trackers, *)
(* any ids and limits, and any bound on what a thread holds.               *)
(*                                                                         *)
(* The invariant has two halves.  RegInv is about the registry: Rooted     *)
(* says that the parents of a tracker lead to the root, whence             *)
(* all_trackers_ is a way without repetition; Life, who refers to a        *)
(* tracker, builds it or ends it; Doing and Search, what a lookup has in   *)
(* hand, whence Names, about the trackers that such lookups make (any      *)
(* number with the same id may be made beside them).  AccInv is about the  *)
(* accounts: Sound bounds where a charge stands, and Accounted equates     *)
(* every consumption with the sum of what threads and caches have there,   *)
(* unless bytes were charged on a tracker that was not initialized.        *)
(*                                                                         *)
(* A step of the registry charges nothing (Leaves); a step of a charge     *)
(* changes one counter, in balance with the share of its thread (Pays).    *)
(* A recursive function and a sum need induction: NatInd states it with    *)
(* the property as a set.                                                  *)
(***************************************************************************)
EXTENDS MemTracker, FiniteSetTheorems, SequenceTheorems, WellFoundedInduction, TLAPS

-----------------------------------------------------------------------------
(* Induction, with the property as a set.                                  *)

LEMMA NatInd ==
  ASSUME NEW P, 0 \in P, \A n \in Nat : n \in P => n + 1 \in P
  PROVE  \A n \in Nat : n \in P
<1> DEFINE T == Nat \ P
<1> SUFFICES ASSUME T # {} PROVE FALSE
  OBVIOUS
<1>1. PICK m \in T : \A y \in T : ~ (<<y, m>> \in OpToRel(<, Nat))
  BY NatLessThanWellFounded, WFMin
<1>2. m \in Nat /\ m # 0
  BY <1>1
<1>3. m - 1 \in Nat /\ m - 1 < m
  BY <1>2
<1>4. \A y \in T : ~ (y < m)
  BY <1>1 DEF OpToRel
<1>5. m - 1 \in P
  BY <1>3, <1>4
<1>6. (m - 1) + 1 \in P
  BY <1>3, <1>5
<1>7. (m - 1) + 1 = m
  BY <1>2
<1> QED BY <1>1, <1>6, <1>7

-----------------------------------------------------------------------------
(* Sums over finite sets.                                                  *)

Sums(f, S, i) ==
  i = [s \in SUBSET S |->
         IF s = {} THEN 0
         ELSE f[CHOOSE x \in s : TRUE] + i[s \ {CHOOSE x \in s : TRUE}]]

One(s) == CHOOSE x \in s : TRUE

SumsAgree(f, S, n) ==
  \A T, U \in SUBSET S : \A i, j, s :
    /\ Sums(f, T, i) /\ Sums(f, U, j)
    /\ s \subseteq T /\ s \subseteq U /\ Cardinality(s) <= n
    => i[s] = j[s]

LEMMA Subsets ==
  ASSUME NEW S, IsFiniteSet(S), NEW T \in SUBSET S
  PROVE  /\ IsFiniteSet(T) /\ Cardinality(T) \in Nat /\ Cardinality(T) <= Cardinality(S)
         /\ Cardinality(T) = 0 <=> T = {}
         /\ \A x \in T : T \ {x} \in SUBSET S /\ Cardinality(T \ {x}) = Cardinality(T) - 1
         /\ T # {} => One(T) \in T
<1>1. IsFiniteSet(T) /\ Cardinality(T) <= Cardinality(S)
  BY FS_Subset
<1>2. Cardinality(T) \in Nat
  BY <1>1, FS_CardinalityType
<1>3. Cardinality(T) = 0 <=> T = {}
  BY <1>1, FS_EmptySet
<1>4. \A x \in T : Cardinality(T \ {x}) = Cardinality(T) - 1
  BY <1>1, FS_RemoveElement
<1> QED BY <1>1, <1>2, <1>3, <1>4 DEF One

LEMMA SumsUnique ==
  ASSUME NEW f, NEW S, IsFiniteSet(S)
  PROVE  \A n \in Nat : SumsAgree(f, S, n)
<1> DEFINE P == {n \in Nat : SumsAgree(f, S, n)}
<1>1. ASSUME NEW T \in SUBSET S, NEW U \in SUBSET S, NEW i, NEW j, NEW s,
             Sums(f, T, i), Sums(f, U, j), s \subseteq T, s \subseteq U,
             s # {} => i[s \ {One(s)}] = j[s \ {One(s)}]
      PROVE  i[s] = j[s]
  <2>1. i[s] = IF s = {} THEN 0 ELSE f[One(s)] + i[s \ {One(s)}]
    BY <1>1 DEF Sums, One
  <2>2. j[s] = IF s = {} THEN 0 ELSE f[One(s)] + j[s \ {One(s)}]
    BY <1>1 DEF Sums, One
  <2> QED BY <1>1, <2>1, <2>2
<1>2. 0 \in P
  <2> SUFFICES SumsAgree(f, S, 0)
    OBVIOUS
  <2> SUFFICES ASSUME NEW T \in SUBSET S, NEW U \in SUBSET S, NEW i, NEW j, NEW s,
                      Sums(f, T, i), Sums(f, U, j), s \subseteq T, s \subseteq U,
                      Cardinality(s) <= 0
               PROVE  i[s] = j[s]
    BY DEF SumsAgree
  <2>1. s = {}
    <3>1. Cardinality(s) \in Nat /\ (Cardinality(s) = 0 <=> s = {})
      BY Subsets
    <3> QED BY <3>1
  <2> QED BY <1>1, <2>1
<1>3. ASSUME NEW n \in Nat, n \in P PROVE n + 1 \in P
  <2> DEFINE m == n + 1
  <2>0. m \in Nat /\ n = m - 1
    OBVIOUS
  <2> SUFFICES SumsAgree(f, S, m)
    BY <2>0
  <2> HIDE DEF m
  <2> SUFFICES ASSUME NEW T \in SUBSET S, NEW U \in SUBSET S, NEW i, NEW j, NEW s,
                      Sums(f, T, i), Sums(f, U, j), s \subseteq T, s \subseteq U,
                      Cardinality(s) <= m
               PROVE  i[s] = j[s]
    BY DEF SumsAgree
  <2>1. s # {} => i[s \ {One(s)}] = j[s \ {One(s)}]
    <3> SUFFICES ASSUME s # {} PROVE i[s \ {One(s)}] = j[s \ {One(s)}]
      OBVIOUS
    <3>1. /\ s \ {One(s)} \subseteq T /\ s \ {One(s)} \subseteq U
          /\ Cardinality(s \ {One(s)}) <= n
      <4>1. s \in SUBSET S
        OBVIOUS
      <4>2. One(s) \in s /\ Cardinality(s) \in Nat
        BY <4>1, Subsets DEF One
      <4>3. Cardinality(s \ {One(s)}) = Cardinality(s) - 1
        BY <4>1, <4>2, Subsets
      <4> QED BY <2>0, <4>2, <4>3
    <3>2. SumsAgree(f, S, n)
      BY <1>3
    <3> DEFINE u == s \ {One(s)}
    <3>3. u \subseteq T /\ u \subseteq U /\ Cardinality(u) <= n
      BY <3>1
    <3> HIDE DEF u
    <3>4. i[u] = j[u]
      BY <3>2, <3>3 DEF SumsAgree
    <3> QED BY <3>4 DEF u
  <2> QED BY <1>1, <2>1
<1> HIDE DEF P
<1>4. \A n \in Nat : n \in P
  BY <1>2, <1>3, NatInd
<1> QED BY <1>4 DEF P

SumsExist(f, S, n) ==
  \A T \in SUBSET S : Cardinality(T) <= n => \E i : Sums(f, T, i)

LEMMA SumsThere ==
  ASSUME NEW f, NEW S, IsFiniteSet(S)
  PROVE  \A T \in SUBSET S : \E i : Sums(f, T, i)
<1> DEFINE P == {n \in Nat : SumsExist(f, S, n)}
           I(T) == CHOOSE i : Sums(f, T, i)
<1>1. 0 \in P
  <2> SUFFICES ASSUME NEW T \in SUBSET S, Cardinality(T) <= 0
               PROVE  \E i : Sums(f, T, i)
    BY DEF SumsExist
  <2>1. T = {}
    <3>1. Cardinality(T) \in Nat /\ (Cardinality(T) = 0 <=> T = {})
      BY Subsets
    <3> QED BY <3>1
  <2>2. Sums(f, T, [s \in SUBSET T |-> 0])
    BY <2>1 DEF Sums
  <2> QED BY <2>2
<1>2. ASSUME NEW n \in Nat, n \in P PROVE n + 1 \in P
  <2> SUFFICES ASSUME NEW T \in SUBSET S, Cardinality(T) <= n + 1
               PROVE  \E i : Sums(f, T, i)
    BY DEF SumsExist
  <2>1. CASE T = {}
    <3>1. Sums(f, T, [s \in SUBSET T |-> 0])
      BY <2>1 DEF Sums
    <3> QED BY <3>1
  <2>2. CASE T # {}
    <3> DEFINE i == [s \in SUBSET T |->
                       IF s = {} THEN 0
                       ELSE f[One(s)] + I(s \ {One(s)})[s \ {One(s)}]]
    <3>1. ASSUME NEW s \in SUBSET T, s # {}
          PROVE  Sums(f, s \ {One(s)}, I(s \ {One(s)}))
      <4>1. s \ {One(s)} \in SUBSET S /\ Cardinality(s \ {One(s)}) <= n
        <5>1. s \in SUBSET S /\ IsFiniteSet(T) /\ Cardinality(T) \in Nat
          BY Subsets
        <5>2. Cardinality(s) \in Nat /\ Cardinality(s) <= Cardinality(T)
          BY <5>1, Subsets
        <5>3. One(s) \in s
          BY <5>1, <3>1, Subsets
        <5>4. Cardinality(s \ {One(s)}) = Cardinality(s) - 1
          BY <5>1, <5>3, Subsets
        <5> QED BY <5>1, <5>2, <5>4
      <4> QED BY <4>1, <1>2 DEF SumsExist
    <3>2. ASSUME NEW s \in SUBSET T, s # {}
          PROVE  i[s \ {One(s)}] = I(s \ {One(s)})[s \ {One(s)}]
      <4> DEFINE u == s \ {One(s)}
      <4>1. u \in SUBSET T
        OBVIOUS
      <4>2. Sums(f, u, I(u))
        BY <3>1, <3>2
      <4>3. CASE u = {}
        <5>1. I(u)[u] = 0
          BY <4>2, <4>3 DEF Sums
        <5> QED BY <4>1, <4>3, <5>1
      <4>4. CASE u # {}
        <5> DEFINE v == u \ {One(u)}
        <5>1. Sums(f, v, I(v))
          BY <3>1, <4>1, <4>4
        <5>2. I(u)[u] = f[One(u)] + I(u)[v]
          BY <4>2, <4>4 DEF Sums, One
        <5>3. I(u)[v] = I(v)[v]
          <6>1. v \in SUBSET S /\ u \in SUBSET S /\ v \subseteq u
            OBVIOUS
          <6> HIDE DEF I, u, v
          <6>2. Cardinality(v) \in Nat
            BY <6>1, Subsets
          <6>3. SumsAgree(f, S, Cardinality(v))
            BY <6>2, SumsUnique
          <6> QED BY <6>1, <6>2, <6>3, <4>2, <5>1 DEF SumsAgree
        <5>4. i[u] = f[One(u)] + I(v)[v]
          BY <4>1, <4>4
        <5> QED BY <5>2, <5>3, <5>4
      <4> QED BY <4>3, <4>4
    <3>3. Sums(f, T, i)
      <4> HIDE DEF I
      <4>1. \A s \in SUBSET T : i[s] = IF s = {} THEN 0 ELSE f[One(s)] + i[s \ {One(s)}]
        BY <3>2
      <4>2. i = [s \in SUBSET T |-> i[s]]
        OBVIOUS
      <4> HIDE DEF i
      <4> QED BY <4>1, <4>2 DEF Sums, One
    <3> QED BY <3>3
  <2> QED BY <2>1, <2>2
<1> HIDE DEF P
<1>3. \A n \in Nat : n \in P
  BY <1>1, <1>2, NatInd
<1> SUFFICES ASSUME NEW T \in SUBSET S PROVE \E i : Sums(f, T, i)
  OBVIOUS
<1>4. Cardinality(T) \in Nat
  BY Subsets
<1> QED BY <1>3, <1>4 DEF P, SumsExist

LEMMA TotalIsSum ==
  ASSUME NEW f, NEW S, IsFiniteSet(S)
  PROVE  /\ Total(f, {}) = 0
         /\ S # {} => Total(f, S) = f[One(S)] + Total(f, S \ {One(S)})
<1> DEFINE I(T) == CHOOSE i : Sums(f, T, i)
<1>1. \A T \in SUBSET S : Sums(f, T, I(T)) /\ Total(f, T) = I(T)[T]
  <2> TAKE T \in SUBSET S
  <2>1. Sums(f, T, I(T))
    BY SumsThere
  <2>2. Total(f, T) = I(T)[T]
    BY DEF Total, MapThenSumSet, MapThenFoldSet, Sums
  <2> QED BY <2>1, <2>2
<1> HIDE DEF I
<1>2. Total(f, {}) = 0
  BY <1>1 DEF Sums
<1>3. ASSUME S # {} PROVE Total(f, S) = f[One(S)] + Total(f, S \ {One(S)})
  <2> DEFINE u == S \ {One(S)}
  <2>1. Total(f, S) = f[One(S)] + I(S)[u]
    <3>1. S \in SUBSET S /\ Sums(f, S, I(S)) /\ Total(f, S) = I(S)[S]
      BY <1>1
    <3> QED BY <3>1, <1>3 DEF Sums, One
  <2>2. I(S)[u] = I(u)[u]
    <3>1. u \in SUBSET S /\ S \in SUBSET S /\ u \subseteq S
      OBVIOUS
    <3> HIDE DEF u
    <3>2. Cardinality(u) \in Nat
      BY <3>1, Subsets
    <3>3. SumsAgree(f, S, Cardinality(u))
      BY <3>2, SumsUnique
    <3>4. Sums(f, S, I(S)) /\ Sums(f, u, I(u))
      BY <3>1, <1>1
    <3>5. Cardinality(u) <= Cardinality(u)
      BY <3>2
    <3> HIDE DEF Sums
    <3> QED BY <3>1, <3>3, <3>4, <3>5 DEF SumsAgree
  <2> QED BY <2>1, <2>2, <1>1
<1> QED BY <1>2, <1>3

LEMMA TotalInt ==
  ASSUME NEW f, NEW S, IsFiniteSet(S), \A x \in S : f[x] \in Int
  PROVE  \A T \in SUBSET S : Total(f, T) \in Int
<1> DEFINE P == {n \in Nat : \A T \in SUBSET S : Cardinality(T) = n => Total(f, T) \in Int}
<1>1. 0 \in P
  <2>1. \A T \in SUBSET S : Cardinality(T) = 0 => T = {}
    BY Subsets
  <2>2. Total(f, {}) = 0
    BY TotalIsSum
  <2> QED BY <2>1, <2>2
<1>2. ASSUME NEW n \in Nat, n \in P PROVE n + 1 \in P
  <2> SUFFICES ASSUME NEW T \in SUBSET S, Cardinality(T) = n + 1 PROVE Total(f, T) \in Int
    OBVIOUS
  <2>1. IsFiniteSet(T) /\ T # {}
    BY Subsets
  <2>2. One(T) \in T /\ Cardinality(T \ {One(T)}) = n /\ T \ {One(T)} \in SUBSET S
    BY <2>1, Subsets
  <2>3. Total(f, T) = f[One(T)] + Total(f, T \ {One(T)})
    BY <2>1, TotalIsSum
  <2> QED BY <2>2, <2>3, <1>2
<1> HIDE DEF P
<1>3. \A n \in Nat : n \in P
  BY <1>1, <1>2, NatInd
<1>4. ASSUME NEW T \in SUBSET S PROVE Cardinality(T) \in Nat
  BY Subsets
<1> QED BY <1>3, <1>4 DEF P

\* Any element may be taken out of a sum first.
LEMMA TotalRemove ==
  ASSUME NEW f, NEW S, IsFiniteSet(S), \A x \in S : f[x] \in Int
  PROVE  \A x \in S : Total(f, S) = f[x] + Total(f, S \ {x})
<1> DEFINE Q(T) == \A x \in T : Total(f, T) = f[x] + Total(f, T \ {x})
           P == {n \in Nat : \A T \in SUBSET S : Cardinality(T) = n => Q(T)}
<1>1. 0 \in P
  <2>1. \A T \in SUBSET S : Cardinality(T) = 0 => T = {}
    BY Subsets
  <2> QED BY <2>1
<1>2. ASSUME NEW n \in Nat, n \in P PROVE n + 1 \in P
  <2> SUFFICES ASSUME NEW T \in SUBSET S, Cardinality(T) = n + 1, NEW x \in T
               PROVE  Total(f, T) = f[x] + Total(f, T \ {x})
    OBVIOUS
  <2>1. IsFiniteSet(T) /\ T # {}
    BY Subsets
  <2>2. \A y \in T : Cardinality(T \ {y}) = n /\ T \ {y} \in SUBSET S
    BY Subsets
  <2>3. \A y \in T : Q(T \ {y})
    BY <2>2, <1>2
  <2> DEFINE c == One(T)
  <2>4. c \in T /\ f[c] \in Int /\ f[x] \in Int
    BY <2>1 DEF One
  <2>5. Total(f, T) = f[c] + Total(f, T \ {c})
    BY <2>1, TotalIsSum
  <2>6. CASE x = c
    BY <2>6, <2>5
  <2>7. CASE x # c
    <3>1. x \in T \ {c} /\ c \in T \ {x}
      BY <2>7, <2>4
    <3>2. Total(f, T \ {c}) = f[x] + Total(f, (T \ {c}) \ {x})
      BY <2>3, <2>4, <3>1
    <3>3. Total(f, T \ {x}) = f[c] + Total(f, (T \ {x}) \ {c})
      BY <2>3, <3>1
    <3>4. (T \ {c}) \ {x} = (T \ {x}) \ {c}
      OBVIOUS
    <3>5. Total(f, (T \ {c}) \ {x}) \in Int
      <4>1. (T \ {c}) \ {x} \in SUBSET S
        OBVIOUS
      <4> QED BY <4>1, TotalInt
    <3> HIDE DEF c
    <3> DEFINE d == Total(f, (T \ {c}) \ {x})
    <3>6. Total(f, T) = f[c] + (f[x] + d) /\ Total(f, T \ {x}) = f[c] + d
      BY <3>2, <3>3, <3>4, <2>5
    <3>7. d \in Int
      BY <3>5
    <3> HIDE DEF d
    <3>8. f[c] + (f[x] + d) = f[x] + (f[c] + d)
      BY <3>7, <2>4
    <3> QED BY <3>6, <3>8
  <2> QED BY <2>6, <2>7
<1> HIDE DEF P
<1>3. \A n \in Nat : n \in P
  BY <1>1, <1>2, NatInd
<1> QED BY <1>3, FS_CardinalityType DEF P

\* Sums of functions that agree are equal, also over the sets they agree on.
LEMMA TotalSame ==
  ASSUME NEW f, NEW g, NEW S, IsFiniteSet(S),
         \A x \in S : f[x] \in Int /\ g[x] = f[x]
  PROVE  Total(g, S) = Total(f, S)
<1> DEFINE P == {n \in Nat : \A T \in SUBSET S : Cardinality(T) = n => Total(g, T) = Total(f, T)}
<1>1. 0 \in P
  <2>1. \A T \in SUBSET S : Cardinality(T) = 0 => T = {}
    BY Subsets
  <2>2. Total(f, {}) = 0 /\ Total(g, {}) = 0
    BY TotalIsSum
  <2> QED BY <2>1, <2>2
<1>2. ASSUME NEW n \in Nat, n \in P PROVE n + 1 \in P
  <2> SUFFICES ASSUME NEW T \in SUBSET S, Cardinality(T) = n + 1
               PROVE  Total(g, T) = Total(f, T)
    OBVIOUS
  <2>1. IsFiniteSet(T) /\ T # {}
    BY Subsets
  <2>2. One(T) \in T /\ Cardinality(T \ {One(T)}) = n /\ T \ {One(T)} \in SUBSET S
    BY <2>1, Subsets
  <2>3. /\ Total(f, T) = f[One(T)] + Total(f, T \ {One(T)})
        /\ Total(g, T) = g[One(T)] + Total(g, T \ {One(T)})
    BY <2>1, TotalIsSum
  <2>4. Total(g, T \ {One(T)}) = Total(f, T \ {One(T)})
    BY <1>2, <2>2
  <2> QED BY <2>2, <2>3, <2>4
<1> HIDE DEF P
<1>3. \A n \in Nat : n \in P
  BY <1>1, <1>2, NatInd
<1> QED BY <1>3, FS_CardinalityType DEF P

\* A change of one summand changes the sum by as much.
LEMMA TotalChange ==
  ASSUME NEW f, NEW g, NEW S, IsFiniteSet(S), NEW x \in S,
         \A y \in S : f[y] \in Int /\ g[y] \in Int,
         \A y \in S \ {x} : g[y] = f[y]
  PROVE  Total(g, S) = Total(f, S) + g[x] - f[x]
<1>1. Total(f, S) = f[x] + Total(f, S \ {x}) /\ Total(g, S) = g[x] + Total(g, S \ {x})
  BY TotalRemove
<1>2. IsFiniteSet(S \ {x})
  BY FS_RemoveElement
<1>3. Total(g, S \ {x}) = Total(f, S \ {x})
  BY <1>2, TotalSame
<1>4. Total(f, S \ {x}) \in Int
  BY TotalInt
<1> QED BY <1>1, <1>3, <1>4

\* A sum of naturals is a natural, and 0 if all of them are.
LEMMA TotalNat ==
  ASSUME NEW f, NEW S, IsFiniteSet(S), \A x \in S : f[x] \in Nat
  PROVE  /\ Total(f, S) \in Nat
         /\ (\A x \in S : f[x] = 0) => Total(f, S) = 0
<1> DEFINE Q(T) == Total(f, T) \in Nat /\ ((\A x \in T : f[x] = 0) => Total(f, T) = 0)
           P == {n \in Nat : \A T \in SUBSET S : Cardinality(T) = n => Q(T)}
<1>1. 0 \in P
  <2>1. \A T \in SUBSET S : Cardinality(T) = 0 => T = {}
    BY Subsets
  <2>2. Total(f, {}) = 0
    BY TotalIsSum
  <2> QED BY <2>1, <2>2
<1>2. ASSUME NEW n \in Nat, n \in P PROVE n + 1 \in P
  <2> SUFFICES ASSUME NEW T \in SUBSET S, Cardinality(T) = n + 1 PROVE Q(T)
    OBVIOUS
  <2>1. IsFiniteSet(T) /\ T # {}
    BY Subsets
  <2>2. One(T) \in T /\ Cardinality(T \ {One(T)}) = n /\ T \ {One(T)} \in SUBSET S
    BY <2>1, Subsets
  <2>3. Total(f, T) = f[One(T)] + Total(f, T \ {One(T)})
    BY <2>1, TotalIsSum
  <2>4. Q(T \ {One(T)})
    BY <1>2, <2>2
  <2>5. f[One(T)] \in Nat
    BY <2>2
  <2> QED BY <2>2, <2>3, <2>4, <2>5
<1> HIDE DEF P
<1>3. \A n \in Nat : n \in P
  BY <1>1, <1>2, NatInd
<1> QED BY <1>3, FS_CardinalityType DEF P

-----------------------------------------------------------------------------
(* The ways to the root, when parents lead there.                          *)

Ranked(p, r, B) ==
  /\ B \in Nat /\ r \in [Node -> 0 .. B] /\ r[Root] = 0
  /\ \A t \in Tracker : p[t] \in Node /\ r[p[t]] < r[t]

Rooted(p) == \E B, r : Ranked(p, r, B)

WaysOf(f, p) == f = [k \in Node |-> IF k = Root THEN <<Root>> ELSE <<k>> \o f[p[k]]]

\* The way c of k goes through distinct nodes from parent to parent to the root,
\* and what remains of it is the way of each node it passes.
Way(f, p, k) ==
  /\ f[k] \in Seq(Node) /\ Len(f[k]) >= 1 /\ f[k][1] = k
  /\ \A i \in 1 .. Len(f[k]) : f[k][i] = Root <=> i = Len(f[k])
  /\ \A i \in 1 .. Len(f[k]) - 1 : f[k][i + 1] = p[f[k][i]]
  /\ \A i, j \in 1 .. Len(f[k]) : f[k][i] = f[k][j] => i = j
  /\ \A i \in 1 .. Len(f[k]) :
       /\ Len(f[f[k][i]]) = Len(f[k]) - i + 1
       /\ \A j \in 1 .. Len(f[k]) - i + 1 : f[f[k][i]][j] = f[k][i + j - 1]

Parents == [t \in Tracker |-> tree[t].parent]

LEMMA WaysExist ==
  ASSUME NEW p, Rooted(p)
  PROVE  \E f : WaysOf(f, p)
<1>1. PICK B, r : Ranked(p, r, B)
  BY DEF Rooted
<1> DEFINE Step(g, k) == IF k = Root THEN <<Root>> ELSE <<k>> \o g[p[k]]
           UpTo(g, n) == g = [k \in Node |-> g[k]]
                           /\ \A k \in Node : r[k] <= n => g[k] = Step(g, k)
           P == {n \in Nat : \E g : UpTo(g, n)}
<1>2. 0 \in P
  <2>1. \A k \in Node : r[k] <= 0 => k = Root
    BY <1>1 DEF Ranked, Node
  <2>2. UpTo([k \in Node |-> <<Root>>], 0)
    BY <2>1
  <2> QED BY <2>2
<1>3. ASSUME NEW n \in Nat, n \in P PROVE n + 1 \in P
  <2>1. PICK g : UpTo(g, n)
    BY <1>3
  <2> DEFINE h == [k \in Node |-> Step(g, k)]
  <2>2. \A k \in Node : r[k] <= n => h[k] = g[k]
    BY <2>1
  <2>3. ASSUME NEW k \in Node, r[k] <= n + 1 PROVE h[k] = Step(h, k)
    <3>1. CASE k = Root
      BY <3>1
    <3>2. CASE k # Root
      <4>1. p[k] \in Node /\ r[p[k]] <= n
        <5>1. k \in Tracker
          BY <3>2 DEF Node
        <5>2. p[k] \in Node /\ r[p[k]] < r[k] /\ r[k] \in Nat /\ r[p[k]] \in Nat
          BY <1>1, <5>1 DEF Ranked
        <5> QED BY <5>2, <2>3
      <4>2. h[p[k]] = g[p[k]]
        BY <4>1, <2>2
      <4> QED BY <4>2, <3>2
    <3> QED BY <3>1, <3>2
  <2>4. h = [k \in Node |-> h[k]]
    OBVIOUS
  <2>5. UpTo(h, n + 1)
    BY <2>3, <2>4
  <2> HIDE DEF h, UpTo
  <2> QED BY <2>5
<1> HIDE DEF P
<1>4. B \in P
  BY <1>1, <1>2, <1>3, NatInd DEF Ranked
<1>5. PICK g : UpTo(g, B)
  BY <1>4 DEF P
<1>6. \A k \in Node : r[k] <= B
  BY <1>1 DEF Ranked
<1>7. \A k \in Node : g[k] = Step(g, k)
  BY <1>5, <1>6
<1>8. g = [k \in Node |-> Step(g, k)]
  BY <1>5, <1>7
<1> QED BY <1>8 DEF WaysOf

\* Where parents are the same, upwards, so are the ways.
LEMMA WaysSame ==
  ASSUME NEW p, Rooted(p), NEW q, NEW f, NEW g, WaysOf(f, p), WaysOf(g, q),
         NEW N \in SUBSET Node,
         \A k \in N : k # Root => q[k] = p[k] /\ p[k] \in N
  PROVE  \A k \in N : g[k] = f[k]
<1>1. PICK B, r : Ranked(p, r, B)
  BY DEF Rooted
<1> DEFINE P == {n \in Nat : \A k \in N : r[k] <= n => g[k] = f[k]}
<1>2. \A k \in Node : /\ f[k] = (IF k = Root THEN <<Root>> ELSE <<k>> \o f[p[k]])
                      /\ g[k] = (IF k = Root THEN <<Root>> ELSE <<k>> \o g[q[k]])
  BY DEF WaysOf
<1>3. 0 \in P
  <2>1. \A k \in Node : r[k] <= 0 => k = Root
    BY <1>1 DEF Ranked, Node
  <2> QED BY <2>1, <1>2
<1>4. ASSUME NEW n \in Nat, n \in P PROVE n + 1 \in P
  <2> SUFFICES ASSUME NEW k \in N, r[k] <= n + 1 PROVE g[k] = f[k]
    OBVIOUS
  <2>1. CASE k = Root
    BY <2>1, <1>2
  <2>2. CASE k # Root
    <3>1. k \in Tracker
      BY <2>2 DEF Node
    <3>2. r[p[k]] < r[k] /\ r[k] \in Nat /\ r[p[k]] \in Nat
      BY <1>1, <3>1 DEF Ranked
    <3>3. q[k] = p[k] /\ p[k] \in N
      BY <2>2
    <3>4. r[p[k]] <= n
      BY <3>2
    <3>5. g[p[k]] = f[p[k]]
      BY <3>3, <3>4, <1>4
    <3>6. f[k] = <<k>> \o f[p[k]] /\ g[k] = <<k>> \o g[q[k]]
      BY <2>2, <1>2
    <3> QED BY <3>3, <3>5, <3>6
  <2> QED BY <2>1, <2>2
<1> HIDE DEF P
<1>5. \A n \in Nat : n \in P
  BY <1>3, <1>4, NatInd
<1>6. \A k \in Node : r[k] \in Nat /\ r[k] <= r[k]
  BY <1>1 DEF Ranked
<1> QED BY <1>5, <1>6 DEF P

LEMMA WaysGood ==
  ASSUME NEW p, Rooted(p), NEW f, WaysOf(f, p)
  PROVE  \A k \in Node : Way(f, p, k)
<1>1. PICK B, r : Ranked(p, r, B)
  BY DEF Rooted
<1> DEFINE Falls(k) == \A i \in 1 .. Len(f[k]) : f[k][i] \in Node /\ r[f[k][i]] <= r[k] - i + 1
           Q(k) == Way(f, p, k) /\ Falls(k)
           P == {n \in Nat : \A k \in Node : r[k] <= n => Q(k)}
<1>2. \A k \in Node : f[k] = (IF k = Root THEN <<Root>> ELSE <<k>> \o f[p[k]])
  BY DEF WaysOf
<1>3. \A k \in Node : r[k] \in Nat /\ (k # Root => k \in Tracker)
  BY <1>1 DEF Ranked, Node
<1>4. Q(Root)
  <2>1. Root \in Node /\ r[Root] = 0
    BY <1>1 DEF Node, Ranked
  <2>2. f[Root] = <<Root>>
    BY <2>1, <1>2
  <2>3. <<Root>> \in Seq(Node) /\ Len(<<Root>>) = 1 /\ <<Root>>[1] = Root
    BY <2>1
  <2>4. \A i \in 1 .. 1 : i = 1
    OBVIOUS
  <2>5. Falls(Root)
    BY <2>1, <2>2, <2>3, <2>4
  <2>6. \A i \in 1 .. 1 : /\ Len(f[f[Root][i]]) = 1 - i + 1
                         /\ \A j \in 1 .. 1 - i + 1 : f[f[Root][i]][j] = f[Root][i + j - 1]
    <3>1. f[Root][1] = Root /\ Len(f[f[Root][1]]) = 1 /\ f[f[Root][1]][1] = f[Root][1]
      BY <2>2, <2>3
    <3>2. 1 - 1 + 1 = 1 /\ 1 + 1 - 1 = 1
      OBVIOUS
    <3> QED BY <3>1, <3>2, <2>4
  <2> HIDE DEF Falls
  <2>7. Way(f, p, Root)
    <3>1. Len(f[Root]) = 1 /\ f[Root][1] = Root /\ f[Root] \in Seq(Node)
      BY <2>2, <2>3
    <3>2. 1 .. 1 - 1 = {} /\ 1 >= 1
      OBVIOUS
    <3> QED BY <3>1, <3>2, <2>4, <2>6 DEF Way
  <2> QED BY <2>5, <2>7
<1>5. 0 \in P
  <2>1. \A k \in Node : r[k] <= 0 => k = Root
    BY <1>1 DEF Ranked, Node
  <2> QED BY <2>1, <1>4
<1>6. ASSUME NEW n \in Nat, n \in P PROVE n + 1 \in P
  <2> SUFFICES ASSUME NEW k \in Node, r[k] <= n + 1, k # Root PROVE Q(k)
    BY <1>4
  <2> DEFINE u == p[k]  c == f[k]  d == f[u]
  <2>1. k \in Tracker /\ u \in Node /\ r[u] < r[k] /\ r[u] \in Nat /\ r[k] \in Nat
    BY <1>1, <1>3 DEF Ranked
  <2>2. Q(u)
    BY <2>1, <1>6
  <2>3. d \in Seq(Node) /\ Len(d) \in Nat /\ Len(d) >= 1
    BY <2>2 DEF Way
  <2>4. c = <<k>> \o d
    BY <1>2
  <2>5. <<k>> \in Seq(Node) /\ Len(<<k>>) = 1 /\ <<k>>[1] = k
    OBVIOUS
  <2> HIDE DEF c, d, u
  <2>6. /\ c \in Seq(Node) /\ Len(c) = Len(d) + 1 /\ c[1] = k
        /\ \A i \in 1 .. Len(d) : c[i + 1] = d[i]
    <3>1. /\ c \in Seq(Node) /\ Len(c) = 1 + Len(d)
          /\ \A i \in 1 .. 1 + Len(d) : c[i] = IF i <= 1 THEN <<k>>[i] ELSE d[i - 1]
      BY <2>3, <2>4, <2>5, ConcatProperties
    <3>2. c[1] = k
      BY <3>1, <2>3, <2>5
    <3>3. ASSUME NEW i \in 1 .. Len(d) PROVE c[i + 1] = d[i]
      <4>1. i + 1 \in 1 .. 1 + Len(d) /\ ~(i + 1 <= 1) /\ (i + 1) - 1 = i
        BY <2>3
      <4>2. c[i + 1] = d[(i + 1) - 1]
        BY <3>1, <4>1
      <4> QED BY <4>1, <4>2
    <3> QED BY <3>1, <3>2, <3>3, <2>3
  <2>7. \A i \in 1 .. Len(c) : i = 1 \/ (i - 1 \in 1 .. Len(d) /\ c[i] = d[i - 1])
    <3> SUFFICES ASSUME NEW i \in 1 .. Len(c), i # 1
                 PROVE  i - 1 \in 1 .. Len(d) /\ c[i] = d[i - 1]
      OBVIOUS
    <3>1. i - 1 \in 1 .. Len(d) /\ (i - 1) + 1 = i
      BY <2>3, <2>6
    <3>2. c[(i - 1) + 1] = d[i - 1]
      BY <3>1, <2>6
    <3> QED BY <3>1, <3>2
  <2>8. \A i \in 1 .. Len(d) :
          /\ d[i] \in Node /\ r[d[i]] <= r[u] - i + 1
          /\ d[i] = Root <=> i = Len(d)
          /\ \A j \in 1 .. Len(d) : d[i] = d[j] => i = j
          /\ i < Len(d) => d[i + 1] = p[d[i]]
          /\ Len(f[d[i]]) = Len(d) - i + 1
          /\ \A j \in 1 .. Len(d) - i + 1 : f[d[i]][j] = d[i + j - 1]
    <3>1. \A i \in 1 .. Len(d) : i < Len(d) => i \in 1 .. Len(d) - 1
      BY <2>3
    <3> QED BY <2>2, <3>1 DEF Way, d
  <2>9. \A i \in 1 .. Len(d) : d[i] # k
    <3> SUFFICES ASSUME NEW i \in 1 .. Len(d) PROVE d[i] # k
      OBVIOUS
    <3>1. r[d[i]] <= r[u] - i + 1 /\ i \in Nat /\ i >= 1 /\ r[d[i]] \in Nat
      BY <2>3, <2>8, <1>3
    <3>2. r[d[i]] < r[k]
      BY <3>1, <2>1
    <3> QED BY <3>2, <2>1
  <2>10. d[1] = u
    BY <2>2 DEF Way, d
  <2>11. Falls(k)
    <3> SUFFICES ASSUME NEW i \in 1 .. Len(c)
                 PROVE  c[i] \in Node /\ r[c[i]] <= r[k] - i + 1
      BY DEF c
    <3>1. CASE i = 1
      BY <3>1, <2>1, <2>6
    <3>2. CASE i # 1
      <4>1. i - 1 \in 1 .. Len(d) /\ c[i] = d[i - 1]
        BY <2>7, <3>2
      <4>2. d[i - 1] \in Node /\ r[d[i - 1]] <= r[u] - (i - 1) + 1
        BY <4>1, <2>8
      <4>3. r[d[i - 1]] \in Nat /\ i \in Int
        BY <4>2, <1>3, <2>6
      <4> QED BY <4>1, <4>2, <4>3, <2>1
    <3> QED BY <3>1, <3>2
  <2>12. Way(f, p, k)
    <3>1. Len(c) \in Nat /\ Len(c) >= 1
      BY <2>3, <2>6
    <3>2. ASSUME NEW i \in 1 .. Len(c) PROVE c[i] = Root <=> i = Len(c)
      <4>1. CASE i = 1
        BY <4>1, <2>3, <2>6
      <4>2. CASE i # 1
        <5>1. i - 1 \in 1 .. Len(d) /\ c[i] = d[i - 1]
          BY <4>2, <2>7
        <5>2. d[i - 1] = Root <=> i - 1 = Len(d)
          BY <5>1, <2>8
        <5>3. i - 1 = Len(d) <=> i = Len(c)
          BY <2>3, <2>6
        <5> QED BY <5>1, <5>2, <5>3
      <4> QED BY <4>1, <4>2
    <3>3. ASSUME NEW i \in 1 .. Len(c) - 1 PROVE c[i + 1] = p[c[i]]
      <4>1. i \in 1 .. Len(d) /\ c[i + 1] = d[i]
        BY <2>6, <2>3
      <4>2. CASE i = 1
        BY <4>1, <4>2, <2>6, <2>10 DEF u
      <4>3. CASE i # 1
        <5>1. i - 1 \in 1 .. Len(d) /\ c[i] = d[i - 1]
          BY <4>3, <2>7, <2>6
        <5>2. i - 1 < Len(d) /\ (i - 1) + 1 = i
          BY <4>1, <2>3
        <5>3. d[(i - 1) + 1] = p[d[i - 1]]
          BY <5>1, <5>2, <2>8
        <5> QED BY <4>1, <5>1, <5>2, <5>3
      <4> QED BY <4>2, <4>3
    <3>4. ASSUME NEW i \in 1 .. Len(c), NEW j \in 1 .. Len(c), c[i] = c[j] PROVE i = j
      <4>1. CASE i = 1 \/ j = 1
        BY <4>1, <3>4, <2>7, <2>6, <2>9
      <4>2. CASE i # 1 /\ j # 1
        <5>1. /\ i - 1 \in 1 .. Len(d) /\ c[i] = d[i - 1]
              /\ j - 1 \in 1 .. Len(d) /\ c[j] = d[j - 1]
          BY <4>2, <2>7
        <5>2. i - 1 = j - 1
          <6>1. d[i - 1] = d[j - 1]
            BY <5>1, <3>4
          <6>2. \A a, b \in 1 .. Len(d) : d[a] = d[b] => a = b
            BY <2>8
          <6> HIDE DEF d
          <6> QED BY <5>1, <6>1, <6>2
        <5> QED BY <5>2, <3>1
      <4> QED BY <4>1, <4>2
    <3>5. ASSUME NEW i \in 1 .. Len(c)
          PROVE  /\ Len(f[c[i]]) = Len(c) - i + 1
                 /\ \A j \in 1 .. Len(c) - i + 1 : f[c[i]][j] = c[i + j - 1]
      <4>1. CASE i = 1
        <5>1. f[c[i]] = c
          BY <4>1, <2>6 DEF c
        <5>2. \A j \in 1 .. Len(c) - i + 1 : i + j - 1 = j
          BY <4>1, <3>1
        <5> QED BY <4>1, <5>1, <5>2, <3>1
      <4>2. CASE i # 1
        <5>1. i - 1 \in 1 .. Len(d) /\ c[i] = d[i - 1]
          BY <4>2, <2>7
        <5>2. /\ Len(f[d[i - 1]]) = Len(d) - (i - 1) + 1
              /\ \A j \in 1 .. Len(d) - (i - 1) + 1 : f[d[i - 1]][j] = d[(i - 1) + j - 1]
          BY <5>1, <2>8
        <5>3. Len(d) - (i - 1) + 1 = Len(c) - i + 1
          BY <2>3, <2>6
        <5>4. ASSUME NEW j \in 1 .. Len(c) - i + 1 PROVE d[(i - 1) + j - 1] = c[i + j - 1]
          <6>1. /\ (i - 1) + j - 1 \in 1 .. Len(d)
                /\ ((i - 1) + j - 1) + 1 = i + j - 1
            BY <5>1, <2>3, <2>6
          <6>2. c[((i - 1) + j - 1) + 1] = d[(i - 1) + j - 1]
            BY <6>1, <2>6
          <6> QED BY <6>1, <6>2
        <5> QED BY <5>1, <5>2, <5>3, <5>4
      <4> QED BY <4>1, <4>2
    <3> QED BY <2>6, <3>1, <3>2, <3>3, <3>4, <3>5 DEF Way, c
  <2> QED BY <2>11, <2>12
<1> HIDE DEF P
<1>7. \A n \in Nat : n \in P
  BY <1>5, <1>6, NatInd
<1>8. \A k \in Node : r[k] <= r[k]
  BY <1>3
<1> QED BY <1>3, <1>7, <1>8 DEF P

LEMMA AllTrackersAreWays == Rooted(Parents) => WaysOf(AllTrackers, Parents)
<1> SUFFICES ASSUME Rooted(Parents) PROVE WaysOf(AllTrackers, Parents)
  OBVIOUS
<1>1. PICK f : WaysOf(f, Parents)
  BY WaysExist
<1>2. \A k \in Node : k # Root => Parents[k] = tree[k].parent
  BY DEF Parents, Node
<1>3. f = [k \in Node |-> IF k = Root THEN <<Root>> ELSE <<k>> \o f[tree[k].parent]]
  BY <1>1, <1>2 DEF WaysOf
<1>4. AllTrackers = [k \in Node |->
                       IF k = Root THEN <<Root>> ELSE <<k>> \o AllTrackers[tree[k].parent]]
  BY <1>3 DEF AllTrackers
<1> HIDE DEF AllTrackers
<1>5. \A k \in Node : (IF k = Root THEN <<Root>> ELSE <<k>> \o AllTrackers[tree[k].parent])
                      = (IF k = Root THEN <<Root>> ELSE <<k>> \o AllTrackers[Parents[k]])
  BY <1>2
<1>6. AllTrackers = [k \in Node |->
                       IF k = Root THEN <<Root>> ELSE <<k>> \o AllTrackers[Parents[k]]]
  BY <1>4, <1>5
<1> QED BY <1>6 DEF WaysOf

LEMMA AllTrackersStayWays == Rooted(Parents)' => WaysOf(AllTrackers', Parents')
<1>1. (Rooted(Parents) => WaysOf(AllTrackers, Parents))'
  BY AllTrackersAreWays, PTL
<1>2. WaysOf(AllTrackers, Parents)' <=> WaysOf(AllTrackers', Parents')
  BY DEF WaysOf
<1> QED BY <1>1, <1>2

-----------------------------------------------------------------------------
(* The registry.                                                           *)

Builds(th, t) == walk[th].at \in {"insert", "init"} /\ walk[th].temp = t

Ends(th, t) == walk[th].at \in {"destroy", "erase"} /\ walk[th].temp = t

\* A search may be interrupted by the destructor of a child it lets go.
Searches(th) ==
  \/ walk[th].at \in {"search", "compare"}
  \/ walk[th].at \in {"destroy", "erase"} /\ walk[th].back = "search"

\* What a search has not dropped.
InHand(th) ==
  walk[th].todo \cup walk[th].found
    \cup (IF walk[th].at = "compare" THEN {walk[th].temp} ELSE {})

\* The references of a walk v, and those that do not come from the walk of th.
Refs(v) ==
  v.found \cup (IF v.at = "list" THEN v.todo ELSE {})
    \cup (IF v.at \in {"compare", "insert", "init"} THEN {v.temp} ELSE {})

IsParent(t) == \E c \in Tracker : tree[c].state # "none" /\ tree[c].parent = t

Other(th, t) ==
  \/ \E u \in Thread : handle[u] = t
  \/ \E u \in Thread \ {th} : t \in Refs(walk[u])
  \/ IsParent(t)

HasRef(t) ==
  \/ \E u \in Thread : handle[u] = t
  \/ \E u \in Thread : t \in Refs(walk[u])
  \/ IsParent(t)

Walks == [at : WalkSteps, id : Name \cup {None}, todo : SUBSET Node, found : SUBSET Node,
          temp : Tracker \cup {None}, back : {"idle", "search", "listed"}]

RegType ==
  /\ tree \in [Tracker -> [state : {"none", "raw", "ready"},
                          id : Name \cup {None}, limit : Int, parent : Node, global : BOOLEAN]]
  /\ listed \subseteq Tracker
  /\ findLock \in Thread \cup {None}
  /\ handle \in [Thread -> Tracker \cup {None}]
  /\ walk \in [Thread -> Walks]

\* What a thread may have for its own: a tracker that is initialized, or one that
\* its search found as its creator, without the lock, had only listed it.
Handed(t) ==
  \/ tree[t].state = "ready"
  \/ /\ tree[t].state = "raw" /\ tree[t].parent = Root
     /\ ~tree[t].global /\ tree[t].id \in GlobalName

\* A thread with a tracker of its own charges it or builds a child of it.
Doing(th) ==
  /\ handle[th] # None =>
       walk[th].at \in {"idle", "insert", "init"} /\ Handed(handle[th])
  /\ walk[th].at = "idle" => walk[th] = NoWalk
  /\ walk[th].at = "copy" => walk[th].found = {}
  /\ \/ walk[th].at \in {"copy", "search", "compare"}
     \/ walk[th].at \in {"destroy", "erase"} /\ walk[th].back = "search"
     => walk[th].id \in GlobalName
  /\ walk[th].at \in {"compare", "insert", "init", "destroy", "erase"}
       => walk[th].temp \in Tracker
  /\ walk[th].at \in {"insert", "init"}
       => walk[th].found = {} /\ handle[th] \in {None, tree[walk[th].temp].parent}
  /\ walk[th].at \in {"destroy", "erase"} /\ walk[th].back = "idle"
       => walk[th].id = None /\ walk[th].todo = {} /\ walk[th].found = {}

\* A tracker is built by one thread, ended by one when nobody refers to it, and
\* never lost: its last reference is dropped by a thread that ends it.
Life(t) ==
  /\ tree[t].state = "none" => tree[t] = Unused /\ t \notin listed /\ ~HasRef(t)
  /\ tree[t].state = "raw" <=> \E th \in Thread : Builds(th, t)
  /\ tree[t].state = "ready" => t \in listed
  /\ tree[t].state # "none" => HasRef(t) \/ \E th \in Thread : Ends(th, t)
  /\ \A th \in Thread :
       /\ Ends(th, t) => tree[t].state # "none" /\ ~HasRef(t)
       /\ Builds(th, t) /\ walk[th].at = "init" => t \in listed
       /\ \A u \in Thread :
            (Builds(th, t) /\ Builds(u, t)) \/ (Ends(th, t) /\ Ends(u, t)) => th = u

\* A live tracker with the id i that FindOrCreateGlobalTracker has made.
Global(u, i) ==
  tree[u].global /\ tree[u].parent = Root /\ tree[u].id = i /\ HasRef(u)

BuildsGlobal(th) ==
  /\ walk[th].at \in {"insert", "init"}
  /\ tree[walk[th].temp].global /\ tree[walk[th].temp].parent = Root

\* A search that will create no tracker.
Decided(th) == walk[th].todo = {} /\ walk[th].found # {}

\* The search of FindOrCreateGlobalTracker, from a copy of the list, misses no
\* live tracker made by another with its id, because only the lock's holder makes
\* one, until it has one to hand out.
Search(th) ==
  /\ walk[th].at = "copy" \/ Searches(th) \/ BuildsGlobal(th) => findLock = th
  /\ Searches(th) =>
       /\ \A c \in InHand(th) :
            c \in Tracker /\ tree[c].parent = Root
       /\ \A c \in walk[th].found : tree[c].id = walk[th].id
       /\ Decided(th) \/ \A u \in listed : Global(u, walk[th].id) => u \in InHand(th)
  /\ BuildsGlobal(th) =>
       \A u \in listed : Global(u, tree[walk[th].temp].id) => u = walk[th].temp

Names == \A t, u \in listed : \A i : Global(t, i) /\ Global(u, i) => t = u

RegInv ==
  /\ RegType /\ Rooted(Parents) /\ Names
  /\ \A th \in Thread : Doing(th) /\ Search(th)
  /\ \A t \in Tracker : Life(t)

-----------------------------------------------------------------------------
(* References.                                                             *)

LEMMA RefsOfWalk ==
  ASSUME NEW th \in Thread
  PROVE  WalkRefs(th) = Refs(walk[th])
BY DEF WalkRefs, Refs

LEMMA WhoRefers ==
  ASSUME NEW t
  PROVE  /\ \A u : <<u, "handle">> \in References(t) <=> u \in Thread /\ handle[u] = t
         /\ \A u : <<u, "walk">> \in References(t) <=> u \in Thread /\ t \in Refs(walk[u])
         /\ \A c : <<c, "parent">> \in References(t)
                     <=> c \in Tracker /\ tree[c].state # "none" /\ tree[c].parent = t
         /\ \A e \in References(t) : \E x : e \in {<<x, "handle">>, <<x, "walk">>, <<x, "parent">>}
         /\ IsFiniteSet(References(t))
<1> DEFINE H == {<<th, "handle">> : th \in {u \in Thread : handle[u] = t}}
           W == {<<th, "walk">> : th \in {u \in Thread : t \in WalkRefs(u)}}
           C == {<<c, "parent">> : c \in {u \in Tracker : /\ tree[u].state # "none"
                                                         /\ tree[u].parent = t}}
<1>1. References(t) = H \cup W \cup C
  BY DEF References
<1>2. \A u : /\ <<u, "handle">> \in H <=> u \in Thread /\ handle[u] = t
             /\ <<u, "handle">> \notin W /\ <<u, "handle">> \notin C
  OBVIOUS
<1>3. \A u : /\ <<u, "walk">> \in W <=> u \in Thread /\ t \in WalkRefs(u)
             /\ <<u, "walk">> \notin H /\ <<u, "walk">> \notin C
  OBVIOUS
<1>4. \A c : /\ <<c, "parent">> \in C
                  <=> c \in Tracker /\ tree[c].state # "none" /\ tree[c].parent = t
             /\ <<c, "parent">> \notin H /\ <<c, "parent">> \notin W
  OBVIOUS
<1>5. \A e \in H \cup W \cup C : \E x : e \in {<<x, "handle">>, <<x, "walk">>, <<x, "parent">>}
  OBVIOUS
<1>6. IsFiniteSet(References(t))
  <2> DEFINE A == Thread \X {"handle", "walk"}  B == Tracker \X {"parent"}
  <2>1. IsFiniteSet({"handle", "walk"}) /\ IsFiniteSet({"parent"})
    <3>1. IsFiniteSet({}) /\ IsFiniteSet({"parent"}) /\ IsFiniteSet({"handle"})
      BY FS_EmptySet, FS_Singleton
    <3>2. IsFiniteSet({"handle"} \cup {"walk"})
      BY <3>1, FS_AddElement
    <3>3. {"handle"} \cup {"walk"} = {"handle", "walk"}
      OBVIOUS
    <3> QED BY <3>1, <3>2, <3>3
  <2>2. IsFiniteSet(A) /\ IsFiniteSet(B)
    BY <2>1, FS_Product, NodeAssumption
  <2>3. H \cup W \cup C \subseteq A \cup B
    OBVIOUS
  <2> HIDE DEF A, B, H, W, C
  <2>4. IsFiniteSet(A \cup B)
    BY <2>2, FS_Union
  <2> QED BY <2>3, <2>4, <1>1, FS_Subset
<1> HIDE DEF H, W, C
<1>7. \A u \in Thread : WalkRefs(u) = Refs(walk[u])
  BY RefsOfWalk
<1> QED BY <1>1, <1>2, <1>3, <1>4, <1>5, <1>6, <1>7

LEMMA LastOne ==
  ASSUME NEW t, NEW e \in References(t)
  PROVE  Cardinality(References(t)) = 1 <=> \A x \in References(t) : x = e
<1>1. IsFiniteSet(References(t))
  BY WhoRefers
<1>2. Cardinality(References(t)) = 1 <=> \E x : References(t) = {x}
  BY <1>1, FS_Singleton
<1> HIDE DEF References
<1> QED BY <1>2

LEMMA AliveIsReferred ==
  ASSUME NEW t
  PROVE  References(t) # {} <=> HasRef(t)
<1>1. ASSUME References(t) # {} PROVE HasRef(t)
  <2>1. PICK e : e \in References(t)
    BY <1>1
  <2>2. PICK x : e \in {<<x, "handle">>, <<x, "walk">>, <<x, "parent">>}
    BY <2>1, WhoRefers
  <2> QED BY <2>1, <2>2, WhoRefers DEF HasRef, IsParent
<1>2. ASSUME HasRef(t) PROVE References(t) # {}
  BY <1>2, WhoRefers DEF HasRef, IsParent
<1> QED BY <1>1, <1>2

\* The last reference, whether it is of a walk, a handle or a child.
LEMMA LastWalk ==
  ASSUME NEW t, NEW th \in Thread, t \in Refs(walk[th])
  PROVE  Cardinality(References(t)) = 1 <=> ~Other(th, t)
<1>1. <<th, "walk">> \in References(t)
  BY WhoRefers
<1>2. Cardinality(References(t)) = 1 <=> \A x \in References(t) : x = <<th, "walk">>
  BY <1>1, LastOne
<1>3. ASSUME Other(th, t) PROVE \E x \in References(t) : x # <<th, "walk">>
  <2>1. \A u : /\ <<u, "handle">> # <<th, "walk">> /\ <<u, "parent">> # <<th, "walk">>
               /\ u # th => <<u, "walk">> # <<th, "walk">>
    OBVIOUS
  <2>2. CASE \E u \in Thread : handle[u] = t
    <3>1. PICK u \in Thread : handle[u] = t
      BY <2>2
    <3>2. <<u, "handle">> \in References(t)
      BY <3>1, WhoRefers
    <3> QED BY <3>1, <3>2, <2>1
  <2>3. CASE \E u \in Thread \ {th} : t \in Refs(walk[u])
    BY <2>1, <2>3, WhoRefers
  <2>4. CASE IsParent(t)
    BY <2>1, <2>4, WhoRefers DEF IsParent
  <2> QED BY <1>3, <2>2, <2>3, <2>4 DEF Other
<1>4. ASSUME NEW x \in References(t), x # <<th, "walk">> PROVE Other(th, t)
  <2>1. PICK y : x \in {<<y, "handle">>, <<y, "walk">>, <<y, "parent">>}
    BY WhoRefers
  <2> QED BY <2>1, <1>4, WhoRefers DEF Other, IsParent
<1> QED BY <1>2, <1>3, <1>4

OtherHandle(th, t) ==
  \/ \E u \in Thread \ {th} : handle[u] = t
  \/ \E u \in Thread : t \in Refs(walk[u])
  \/ IsParent(t)

LEMMA LastHandle ==
  ASSUME NEW t, NEW th \in Thread, handle[th] = t
  PROVE  Cardinality(References(t)) = 1 <=> ~OtherHandle(th, t)
<1>1. <<th, "handle">> \in References(t)
  BY WhoRefers
<1>2. Cardinality(References(t)) = 1 <=> \A x \in References(t) : x = <<th, "handle">>
  BY <1>1, LastOne
<1>3. ASSUME OtherHandle(th, t) PROVE \E x \in References(t) : x # <<th, "handle">>
  <2>1. \A u : /\ <<u, "walk">> # <<th, "handle">> /\ <<u, "parent">> # <<th, "handle">>
               /\ u # th => <<u, "handle">> # <<th, "handle">>
    OBVIOUS
  <2>2. CASE \E u \in Thread \ {th} : handle[u] = t
    <3>1. PICK u \in Thread \ {th} : handle[u] = t
      BY <2>2
    <3>2. <<u, "handle">> \in References(t)
      BY <3>1, WhoRefers
    <3> QED BY <3>1, <3>2, <2>1
  <2>3. CASE \E u \in Thread : t \in Refs(walk[u])
    <3>1. PICK u \in Thread : t \in Refs(walk[u])
      BY <2>3
    <3>2. <<u, "walk">> \in References(t)
      BY <3>1, WhoRefers
    <3> QED BY <3>1, <3>2, <2>1
  <2>4. CASE IsParent(t)
    <3>1. PICK u \in Tracker : tree[u].state # "none" /\ tree[u].parent = t
      BY <2>4 DEF IsParent
    <3>2. <<u, "parent">> \in References(t)
      BY <3>1, WhoRefers
    <3> QED BY <3>1, <3>2, <2>1
  <2> QED BY <1>3, <2>2, <2>3, <2>4 DEF OtherHandle
<1>4. ASSUME NEW x \in References(t), x # <<th, "handle">> PROVE OtherHandle(th, t)
  <2>1. PICK y : x \in {<<y, "handle">>, <<y, "walk">>, <<y, "parent">>}
    BY WhoRefers
  <2> QED BY <2>1, <1>4, WhoRefers DEF OtherHandle, IsParent
<1> QED BY <1>2, <1>3, <1>4

OtherChild(d, t) ==
  \/ \E u \in Thread : handle[u] = t
  \/ \E u \in Thread : t \in Refs(walk[u])
  \/ \E c \in Tracker \ {d} : tree[c].state # "none" /\ tree[c].parent = t

LEMMA LastChild ==
  ASSUME NEW t, NEW d \in Tracker, tree[d].state # "none", tree[d].parent = t
  PROVE  Cardinality(References(t)) = 1 <=> ~OtherChild(d, t)
<1>1. <<d, "parent">> \in References(t)
  BY WhoRefers
<1>2. Cardinality(References(t)) = 1 <=> \A x \in References(t) : x = <<d, "parent">>
  BY <1>1, LastOne
<1>3. ASSUME OtherChild(d, t) PROVE \E x \in References(t) : x # <<d, "parent">>
  <2>1. \A u : /\ <<u, "walk">> # <<d, "parent">> /\ <<u, "handle">> # <<d, "parent">>
               /\ u # d => <<u, "parent">> # <<d, "parent">>
    OBVIOUS
  <2>2. CASE \E u \in Thread : handle[u] = t
    BY <2>1, <2>2, WhoRefers
  <2>3. CASE \E u \in Thread : t \in Refs(walk[u])
    <3>1. PICK u \in Thread : t \in Refs(walk[u])
      BY <2>3
    <3>2. <<u, "walk">> \in References(t)
      BY <3>1, WhoRefers
    <3> QED BY <3>1, <3>2, <2>1
  <2>4. CASE \E c \in Tracker \ {d} : tree[c].state # "none" /\ tree[c].parent = t
    <3>1. PICK c \in Tracker \ {d} : tree[c].state # "none" /\ tree[c].parent = t
      BY <2>4
    <3>2. <<c, "parent">> \in References(t)
      BY <3>1, WhoRefers
    <3> QED BY <3>1, <3>2, <2>1
  <2> QED BY <1>3, <2>2, <2>3, <2>4 DEF OtherChild
<1>4. ASSUME NEW x \in References(t), x # <<d, "parent">> PROVE OtherChild(d, t)
  <2>1. PICK y : x \in {<<y, "handle">>, <<y, "walk">>, <<y, "parent">>}
    BY WhoRefers
  <2> QED BY <2>1, <1>4, WhoRefers DEF OtherChild
<1> QED BY <1>2, <1>3, <1>4

-----------------------------------------------------------------------------
(* Steps that change a walk and nothing else of the registry.              *)

Over == {"destroy", "erase"}
Building == {"insert", "init"}

Moves(th, v) ==
  /\ v \in Walks
  /\ walk' = [walk EXCEPT ![th] = v]
  /\ UNCHANGED <<tree, listed, handle>>
  /\ findLock' \in Thread \cup {None}
  /\ \A u \in Thread \ {th} : findLock = u => findLock' = u
  /\ walk[th].at \notin Building /\ v.at \notin Building
  /\ \A t \in Refs(v) \cap Tracker : HasRef(t)
  /\ \A t \in (Refs(walk[th]) \ Refs(v)) \cap Tracker :
       ~Other(th, t) => v.at = "destroy" /\ v.temp = t
  /\ v.at \in Over =>
       \/ walk[th].at \in Over /\ walk[th].temp = v.temp
       \/ v.temp \in Refs(walk[th]) \ Refs(v) /\ ~Other(th, v.temp)
  /\ walk[th].at \in Over => v.at \in Over /\ v.temp = walk[th].temp

LEMMA ParentsStay ==
  ASSUME tree' = tree
  PROVE  Parents' = Parents /\ (Rooted(Parents) => Rooted(Parents)')
<1>1. Parents' = Parents
  BY DEF Parents
<1> QED BY <1>1 DEF Rooted, Ranked

LEMMA RefsSplit ==
  ASSUME NEW th \in Thread, NEW t
  PROVE  HasRef(t) <=> Other(th, t) \/ t \in Refs(walk[th])
BY DEF HasRef, Other

LEMMA MovedRefs ==
  ASSUME RegInv, NEW th \in Thread, NEW v, Moves(th, v), NEW t \in Tracker
  PROVE  /\ HasRef(t)' => HasRef(t)
         /\ HasRef(t) /\ ~HasRef(t)' => v.at = "destroy" /\ v.temp = t
         /\ v.at \in Over /\ v.temp = t =>
              \/ walk[th].at \in Over /\ walk[th].temp = t
              \/ HasRef(t) /\ ~HasRef(t)'
<1>1. walk \in [Thread -> Walks]
  BY DEF RegInv, RegType
<1>2. walk'[th] = v /\ \A u \in Thread \ {th} : walk'[u] = walk[u]
  BY <1>1 DEF Moves
<1>3. HasRef(t)' <=> Other(th, t) \/ t \in Refs(v)
  <2>1. IsParent(t)' <=> IsParent(t)
    BY DEF Moves, IsParent
  <2>2. (\E u \in Thread : handle'[u] = t) <=> (\E u \in Thread : handle[u] = t)
    BY DEF Moves
  <2>3. (\E u \in Thread : t \in Refs(walk'[u]))
          <=> t \in Refs(v) \/ \E u \in Thread \ {th} : t \in Refs(walk[u])
    BY <1>2
  <2> QED BY <2>1, <2>2, <2>3 DEF HasRef, Other
<1>4. HasRef(t) <=> Other(th, t) \/ t \in Refs(walk[th])
  BY RefsSplit
<1> QED BY <1>3, <1>4 DEF Moves

\* A step of th by which nothing gains a reference, and th ends what loses its
\* last.
Lets(th) ==
  /\ UNCHANGED <<tree, listed>>
  /\ \A u \in Thread \ {th} :
       /\ walk'[u] = walk[u] /\ handle'[u] = handle[u]
       /\ findLock = u => findLock' = u
  /\ \A t \in Tracker :
       /\ ~Builds(th, t) /\ ~Builds(th, t)'
       /\ HasRef(t)' => HasRef(t)
       /\ HasRef(t) /\ ~HasRef(t)' => Ends(th, t)'
       /\ Ends(th, t) => Ends(th, t)'
       /\ Ends(th, t)' => Ends(th, t) \/ (HasRef(t) /\ ~HasRef(t)')

LEMMA LetsHolds ==
  ASSUME RegInv, NEW th \in Thread, Lets(th), RegType', Doing(th)', Search(th)'
  PROVE  RegInv'
<1>1. RegType /\ Names /\ listed \subseteq Tracker
  BY DEF RegInv, RegType
<1>2. tree' = tree /\ listed' = listed
  BY DEF Lets
<1>a. \A u \in Thread \ {th} : walk'[u] = walk[u] /\ handle'[u] = handle[u]
                                /\ (findLock = u => findLock' = u)
  BY DEF Lets
<1>b. \A t \in Tracker : ~Builds(th, t) /\ ~Builds(th, t)'
  BY DEF Lets
<1>3. Rooted(Parents)'
  BY <1>2, ParentsStay DEF RegInv
<1>4. \A u \in Tracker : \A i : Global(u, i)' => Global(u, i)
  BY <1>2 DEF Global, Lets
<1>5. Names'
  BY <1>1, <1>2, <1>4 DEF Names
<1>6. ASSUME NEW u \in Thread \ {th} PROVE Doing(u)' /\ Search(u)'
  <2>1. Doing(u) /\ Search(u)
    BY DEF RegInv
  <2>2. walk'[u] = walk[u] /\ handle'[u] = handle[u] /\ (findLock = u => findLock' = u)
    BY <1>a
  <2>3. Doing(u)'
    BY <2>1, <2>2, <1>2 DEF Doing, Handed
  <2>4. /\ Searches(u)' <=> Searches(u)
        /\ BuildsGlobal(u)' <=> BuildsGlobal(u)
        /\ InHand(u)' = InHand(u) /\ (Decided(u)' <=> Decided(u))
    BY <2>2, <1>2 DEF Searches, BuildsGlobal, InHand, Decided
  <2>5. Search(u)'
    BY <2>1, <2>2, <2>4, <1>1, <1>2, <1>4 DEF Search
  <2> QED BY <2>3, <2>5
<1>7. ASSUME NEW t \in Tracker PROVE Life(t)'
  <2>1. Life(t)
    BY DEF RegInv
  <2>2. \A u \in Thread : Builds(u, t)' <=> Builds(u, t)
    <3>1. \A u \in Thread \ {th} : Builds(u, t)' <=> Builds(u, t)
      BY <1>a DEF Builds
    <3> QED BY <3>1, <1>b
  <2>3. \A u \in Thread \ {th} : Ends(u, t)' <=> Ends(u, t)
    BY <1>a DEF Ends
  <2>4. /\ HasRef(t)' => HasRef(t)
        /\ HasRef(t) /\ ~HasRef(t)' => Ends(th, t)'
        /\ Ends(th, t) => Ends(th, t)'
        /\ Ends(th, t)' => Ends(th, t) \/ (HasRef(t) /\ ~HasRef(t)')
    BY DEF Lets
  <2>5. \A u \in Thread : Builds(u, t) => walk'[u] = walk[u]
    BY <1>a, <1>b
  <2>6. tree'[t].state # "none" => HasRef(t)' \/ \E u \in Thread : Ends(u, t)'
    BY <2>1, <2>3, <2>4, <1>2 DEF Life
  <2>7. \A u, w \in Thread : Ends(u, t)' /\ Ends(w, t)' => u = w
    BY <2>1, <2>3, <2>4 DEF Life
  <2>8. \A u \in Thread : Ends(u, t)' => tree'[t].state # "none" /\ ~HasRef(t)'
    BY <2>1, <2>3, <2>4, <1>2 DEF Life
  <2>9. \A u, w \in Thread : Builds(u, t)' /\ Builds(w, t)' => u = w
    BY <2>1, <2>2 DEF Life
  <2>10. \A u \in Thread : Builds(u, t)' /\ walk'[u].at = "init" => t \in listed'
    BY <2>1, <2>2, <2>5, <1>2 DEF Life
  <2>11. /\ tree'[t].state = "none" => tree'[t] = Unused /\ t \notin listed' /\ ~HasRef(t)'
         /\ tree'[t].state = "raw" <=> \E u \in Thread : Builds(u, t)'
         /\ tree'[t].state = "ready" => t \in listed'
    BY <2>1, <2>2, <2>4, <1>2 DEF Life
  <2> QED BY <2>6, <2>7, <2>8, <2>9, <2>10, <2>11 DEF Life
<1>8. \A u \in Thread : Doing(u)' /\ Search(u)'
  BY <1>6
<1> QED BY <1>3, <1>5, <1>7, <1>8 DEF RegInv

LEMMA MovedHolds ==
  ASSUME RegInv, NEW th \in Thread, NEW v, Moves(th, v), Doing(th)', Search(th)'
  PROVE  RegInv'
<1>1. walk \in [Thread -> Walks] /\ RegType
  BY DEF RegInv, RegType
<1>2. walk'[th] = v /\ \A u \in Thread \ {th} : walk'[u] = walk[u]
  BY <1>1 DEF Moves
<1>3. tree' = tree /\ listed' = listed /\ handle' = handle
  BY DEF Moves
<1>4. RegType'
  <2>1. walk' \in [Thread -> Walks]
    BY <1>1 DEF Moves
  <2> QED BY <1>1, <1>3, <2>1 DEF RegType, Moves
<1>5. ASSUME NEW t \in Tracker
      PROVE  /\ ~Builds(th, t) /\ ~Builds(th, t)'
             /\ HasRef(t)' => HasRef(t)
             /\ HasRef(t) /\ ~HasRef(t)' => Ends(th, t)'
             /\ Ends(th, t) => Ends(th, t)'
             /\ Ends(th, t)' => Ends(th, t) \/ (HasRef(t) /\ ~HasRef(t)')
  <2>1. ~Builds(th, t) /\ ~Builds(th, t)'
    BY <1>2 DEF Moves, Builds, Building
  <2>2. Ends(th, t) => Ends(th, t)'
    BY <1>2 DEF Ends, Moves, Over
  <2>3. /\ HasRef(t)' => HasRef(t)
        /\ HasRef(t) /\ ~HasRef(t)' => Ends(th, t)'
        /\ Ends(th, t)' => Ends(th, t) \/ (HasRef(t) /\ ~HasRef(t)')
    BY <1>2, MovedRefs DEF Ends, Over
  <2> QED BY <2>1, <2>2, <2>3
<1>6. Lets(th)
  BY <1>2, <1>3, <1>5 DEF Lets, Moves
<1> QED BY <1>4, <1>6, LetsHolds

\* A step that leaves the registry alone.
LEMMA RegStays ==
  ASSUME RegInv, UNCHANGED <<tree, listed, findLock, handle, walk>>
  PROVE  RegInv'
<1>1. RegType' /\ Rooted(Parents)'
  BY ParentsStay DEF RegInv, RegType
<1>2. \A t : HasRef(t)' <=> HasRef(t)
  BY DEF HasRef, IsParent
<1>3. \A t, i : Global(t, i)' <=> Global(t, i)
  BY <1>2 DEF Global
<1>4. Names'
  BY <1>3 DEF RegInv, Names
<1>5. ASSUME NEW th \in Thread PROVE Doing(th)' /\ Search(th)'
  <2>1. Doing(th) /\ Search(th)
    BY DEF RegInv
  <2>2. Doing(th)'
    BY <2>1 DEF Doing, Handed
  <2>3. /\ Searches(th)' <=> Searches(th)
        /\ BuildsGlobal(th)' <=> BuildsGlobal(th)
        /\ InHand(th)' = InHand(th) /\ (Decided(th)' <=> Decided(th))
    BY DEF Searches, BuildsGlobal, InHand, Decided
  <2>4. Search(th)'
    BY <1>3, <2>1, <2>3 DEF Search
  <2> QED BY <2>2, <2>4
<1>6. ASSUME NEW t \in Tracker PROVE Life(t)'
  <2>1. Life(t)
    BY DEF RegInv
  <2>2. \A u \in Thread : (Builds(u, t)' <=> Builds(u, t)) /\ (Ends(u, t)' <=> Ends(u, t))
    BY DEF Builds, Ends
  <2> QED BY <2>1, <2>2, <1>2 DEF Life
<1> QED BY <1>1, <1>4, <1>5, <1>6 DEF RegInv

\* A walk of th that does not search or build.
LEMMA QuietWalk ==
  ASSUME NEW th \in Thread, NEW v, walk' = [walk EXCEPT ![th] = v], walk \in [Thread -> Walks],
         v.at \in {"idle", "list", "listed"} \/ (v.at \in Over /\ v.back # "search")
  PROVE  Search(th)'
<1>1. walk'[th] = v
  OBVIOUS
<1>2. ~(walk[th].at = "copy")' /\ ~Searches(th)' /\ ~BuildsGlobal(th)'
  BY <1>1 DEF Searches, BuildsGlobal, Over
<1> QED BY <1>2 DEF Search

-----------------------------------------------------------------------------
(* The steps of a lookup or a listing that only walk.                      *)

LEMMA WalkLetsGo ==
  ASSUME RegInv, NEW th \in Thread, NEW t \in Node, NEW w \in Walks, LetGo(th, t, w),
         w.at \in {"idle", "search", "listed"}, t \in Refs(walk[th])
  PROVE  \E v \in Walks :
           /\ walk' = [walk EXCEPT ![th] = v]
           /\ \/ /\ t \in Tracker /\ ~Other(th, t)
                 /\ v = [w EXCEPT !.at = "destroy", !.temp = t, !.back = w.at]
              \/ v = w /\ (t = Root \/ Other(th, t))
<1> DEFINE d == [w EXCEPT !.at = "destroy", !.temp = t, !.back = w.at]
           v == IF t # Root /\ ~Other(th, t) THEN d ELSE w
<1>1. Cardinality(References(t)) = 1 <=> ~Other(th, t)
  BY LastWalk
<1>2. walk' = [walk EXCEPT ![th] = v]
  BY <1>1 DEF LetGo
<1>3. t # Root => d \in Walks
  BY DEF Walks, WalkSteps, Node
<1>4. v \in Walks
  BY <1>3
<1> WITNESS v \in Walks
<1> QED BY <1>2 DEF Node

LEMMA WalkFacts ==
  ASSUME RegInv, NEW th \in Thread
  PROVE  /\ walk[th] \in Walks /\ handle[th] \in Tracker \cup {None}
         /\ Doing(th) /\ Search(th)
         /\ None \notin Tracker /\ Root \notin Tracker /\ None # Root
         /\ th # None
         /\ walk \in [Thread -> Walks]
         /\ findLock \in Thread \cup {None}
         /\ listed \subseteq Tracker
<1>1. RegType /\ Doing(th) /\ Search(th)
  BY DEF RegInv
<1>2. None \notin Tracker /\ Root \notin Tracker /\ None # Root /\ th # None
  BY NodeAssumption
<1> QED BY <1>1, <1>2 DEF RegType

LEMMA QuietMove ==
  ASSUME RegInv, NEW th \in Thread, NEW v, Moves(th, v), Doing(th)',
         v.at \in {"idle", "list", "listed"} \/ (v.at \in Over /\ v.back # "search")
  PROVE  RegInv'
<1>1. Search(th)'
  BY WalkFacts, QuietWalk DEF Moves
<1> QED BY <1>1, MovedHolds

LEMMA FindKeeps ==
  ASSUME RegInv, NEW th \in Thread, NEW n \in GlobalName, FindOrCreateGlobalTracker(th, n)
  PROVE  RegInv'
<1> DEFINE v == [NoWalk EXCEPT !.at = "copy", !.id = n]
<1>1. walk[th] = NoWalk /\ handle[th] = None /\ findLock = None
  BY WalkFacts DEF FindOrCreateGlobalTracker, MayStart, Ready, Doing
<1>2. v \in Walks
  BY LimitAssumption DEF NoWalk, Walks, WalkSteps
<1>3. walk' = [walk EXCEPT ![th] = v] /\ UNCHANGED <<tree, listed, handle>> /\ findLock' = th
  BY DEF FindOrCreateGlobalTracker
<1>4. Refs(v) = {} /\ Refs(walk[th]) = {}
  BY <1>1 DEF Refs, NoWalk
<1>5. Moves(th, v)
  BY <1>1, <1>2, <1>3, <1>4, WalkFacts DEF Moves, NoWalk, Building, Over
<1>6. walk'[th] = v
  BY <1>3, WalkFacts
<1>a. v.at = "copy" /\ v.found = {} /\ v.id = n
  BY DEF NoWalk
<1> HIDE DEF v
<1>7. Doing(th)'
  BY <1>1, <1>3, <1>6, <1>a DEF Doing
<1>8. Search(th)'
  BY <1>3, <1>6, <1>a DEF Search, Searches, BuildsGlobal
<1> QED BY <1>5, <1>7, <1>8, MovedHolds

LEMMA CopyKeeps ==
  ASSUME RegInv, NEW th \in Thread, CopyChildren(th)
  PROVE  RegInv'
<1> DEFINE v == [walk[th] EXCEPT !.at = "search", !.todo = Children(Root)]
<1>1. /\ walk[th].at = "copy" /\ walk[th].found = {} /\ findLock = th /\ handle[th] = None
      /\ walk[th].id \in GlobalName
  BY WalkFacts DEF CopyChildren, Doing, Search
<1>2. Children(Root) \subseteq Node
  <2>1. Children(Root) \subseteq listed
    BY DEF Children
  <2>2. listed \subseteq Tracker
    BY WalkFacts
  <2> QED BY <2>1, <2>2 DEF Node
<1>3. v \in Walks
  <2>1. walk[th] \in Walks
    BY WalkFacts
  <2>2. Children(Root) \in SUBSET Node
    BY <1>2
  <2> QED BY <2>1, <2>2 DEF Walks, WalkSteps
<1>4. walk' = [walk EXCEPT ![th] = v] /\ UNCHANGED <<tree, listed, handle, findLock>>
  <2>1. walk \in [Thread -> Walks]
    BY WalkFacts
  <2> QED BY <2>1 DEF CopyChildren
<1>5. v.at = "search" /\ v.todo = Children(Root) /\ v.found = {} /\ v.id = walk[th].id
  BY <1>1, WalkFacts DEF Walks
<1>6. Refs(v) = {} /\ Refs(walk[th]) = {}
  BY <1>1, <1>5 DEF Refs
<1> HIDE DEF v
<1>7. Moves(th, v)
  BY <1>1, <1>3, <1>4, <1>5, <1>6, WalkFacts DEF Moves, Building, Over
<1>8. walk'[th] = v
  BY <1>4, WalkFacts
<1>9. Doing(th)'
  BY <1>1, <1>4, <1>5, <1>8 DEF Doing
<1>10. \A c \in Children(Root) : c \in Tracker /\ tree[c].parent = Root
  BY WalkFacts DEF Children
<1>11. InHand(th)' = Children(Root)
  BY <1>5, <1>8 DEF InHand
<1>12. \A u \in listed' : Global(u, walk[th].id)' => u \in Children(Root)
  BY <1>4 DEF Global, Children
<1>13. ~BuildsGlobal(th)'
  BY <1>5, <1>8 DEF BuildsGlobal
<1>14. Search(th)'
  BY <1>1, <1>4, <1>5, <1>8, <1>10, <1>11, <1>12, <1>13 DEF Search
<1> QED BY <1>7, <1>9, <1>14, MovedHolds

LEMMA LocksKeeps ==
  ASSUME RegInv, NEW th \in Thread, NEW c \in Tracker, SearchLocks(th, c)
  PROVE  RegInv'
<1> DEFINE v == [walk[th] EXCEPT !.todo = @ \ {c},
                                 !.at = IF Alive(c) THEN "compare" ELSE "search",
                                 !.temp = IF Alive(c) THEN c ELSE None]
<1>1. walk[th].at = "search" /\ c \in walk[th].todo /\ Searches(th)
  BY DEF SearchLocks, Searches
<1>2. findLock = th /\ handle[th] = None /\ walk[th].id \in GlobalName
  <2>1. Doing(th) /\ Search(th)
    BY WalkFacts
  <2> QED BY <1>1, <2>1 DEF Doing, Search
<1>3. v \in Walks
  <2>1. walk[th] \in Walks
    BY WalkFacts
  <2>2. walk[th].todo \ {c} \in SUBSET Node
    BY <2>1 DEF Walks
  <2> QED BY <2>1, <2>2 DEF Walks, WalkSteps
<1>4. walk' = [walk EXCEPT ![th] = v] /\ UNCHANGED <<tree, listed, handle, findLock>>
  BY WalkFacts DEF SearchLocks
<1>5. /\ v.todo = walk[th].todo \ {c} /\ v.found = walk[th].found /\ v.id = walk[th].id
      /\ HasRef(c) => v.at = "compare" /\ v.temp = c
      /\ ~HasRef(c) => v.at = "search"
  BY <1>1, WalkFacts, AliveIsReferred DEF Walks, Alive
<1> HIDE DEF v
<1>6. /\ Refs(v) = walk[th].found \cup (IF HasRef(c) THEN {c} ELSE {})
      /\ Refs(walk[th]) = walk[th].found
  BY <1>1, <1>5 DEF Refs
<1>7. \A t \in walk[th].found : HasRef(t)
  BY <1>6 DEF HasRef
<1>8. Moves(th, v)
  BY <1>1, <1>2, <1>3, <1>4, <1>5, <1>6, <1>7, WalkFacts DEF Moves, Building, Over
<1>9. walk'[th] = v
  BY <1>4, WalkFacts
<1>10. Doing(th)'
  BY <1>1, <1>2, <1>4, <1>5, <1>9 DEF Doing
<1>11. InHand(th) = walk[th].todo \cup walk[th].found
  BY <1>1 DEF InHand
<1>12. InHand(th)' = IF HasRef(c) THEN InHand(th) ELSE (walk[th].todo \ {c}) \cup walk[th].found
  BY <1>1, <1>5, <1>9, <1>11 DEF InHand
<1>13. \A t \in Tracker : \A i : Global(t, i)' => Global(t, i)
  BY <1>4, <1>8, MovedRefs DEF Global
<1>14. \A u \in listed' : Global(u, walk[th].id)' => u \in InHand(th)'
  <2>1. Search(th) /\ listed \subseteq Tracker
    BY WalkFacts
  <2>2. SUFFICES ASSUME NEW u \in listed, Global(u, walk[th].id)' PROVE u \in InHand(th)'
    BY <1>4
  <2>3. u \in Tracker
    BY <2>1
  <2>4. walk'[th].id = walk[th].id
    BY <1>5, <1>9
  <2>5. Global(u, walk[th].id)
    BY <2>2, <2>3, <2>4, <1>13
  <2>6. u \in InHand(th) /\ HasRef(u)
    BY <1>1, <2>1, <2>5 DEF Search, Decided, Global
  <2> QED BY <2>6, <1>5, <1>11, <1>12
<1>15. ~BuildsGlobal(th)'
  BY <1>5, <1>9 DEF BuildsGlobal
<1>16. Search(th)'
  BY <1>1, <1>2, <1>4, <1>5, <1>9, <1>11, <1>12, <1>14, <1>15, WalkFacts DEF Search
<1> QED BY <1>8, <1>10, <1>16, MovedHolds

LEMMA ComparesKeeps ==
  ASSUME RegInv, NEW th \in Thread, SearchCompares(th)
  PROVE  RegInv'
<1> DEFINE c == walk[th].temp
           next == [walk[th] EXCEPT !.at = "search", !.temp = None]
           hit == [walk[th] EXCEPT !.at = "search", !.temp = None, !.found = @ \cup {c}]
           ends == [next EXCEPT !.at = "destroy", !.temp = c, !.back = next.at]
<1>1. walk[th].at = "compare" /\ Searches(th)
  BY DEF SearchCompares, Searches
<1>2. walk[th] \in Walks /\ Doing(th) /\ Search(th) /\ walk \in [Thread -> Walks]
      /\ listed \subseteq Tracker
  BY WalkFacts
<1>3. findLock = th /\ handle[th] = None /\ c \in Tracker
  BY <1>1, <1>2 DEF Doing, Search
<1>4. /\ InHand(th) = walk[th].todo \cup walk[th].found \cup {c}
      /\ Refs(walk[th]) = walk[th].found \cup {c}
  BY <1>1 DEF InHand, Refs
<1>5. \A t \in walk[th].found \cup {c} : HasRef(t)
  BY <1>4 DEF HasRef
<1>6. UNCHANGED <<tree, listed, handle, findLock>>
  BY DEF SearchCompares
<1>7. hit \in Walks /\ next \in Walks
  BY <1>2, <1>3 DEF Walks, WalkSteps, Node
<1>8. /\ next.todo = walk[th].todo /\ next.found = walk[th].found /\ next.id = walk[th].id
      /\ next.at = "search"
      /\ hit.todo = walk[th].todo /\ hit.found = walk[th].found \cup {c} /\ hit.id = walk[th].id
      /\ hit.at = "search"
      /\ ends.todo = walk[th].todo /\ ends.found = walk[th].found /\ ends.id = walk[th].id
      /\ ends.at = "destroy" /\ ends.temp = c /\ ends.back = "search"
  BY <1>2 DEF Walks
<1>9. \E v \in Walks :
        /\ walk' = [walk EXCEPT ![th] = v]
        /\ \/ tree[c].id = walk[th].id /\ v = hit
           \/ /\ tree[c].id # walk[th].id
              /\ v = next \/ (v = ends /\ ~Other(th, c))
              /\ v = next => Other(th, c)
  <2>1. CASE tree[c].id = walk[th].id
    <3>1. walk' = [walk EXCEPT ![th] = hit]
      BY <1>2, <2>1 DEF SearchCompares
    <3> HIDE DEF hit
    <3> QED BY <2>1, <3>1, <1>7
  <2>2. CASE tree[c].id # walk[th].id
    <3>1. LetGo(th, c, next)
      BY <2>2 DEF SearchCompares
    <3>2. c \in Node /\ c # Root /\ c \in Refs(walk[th])
      BY <1>3, <1>4, NodeAssumption DEF Node
    <3>a. next.at \in {"idle", "search", "listed"}
      BY <1>8
    <3> HIDE DEF next
    <3>3. \E v \in Walks :
           /\ walk' = [walk EXCEPT ![th] = v]
           /\ \/ c \in Tracker /\ ~Other(th, c) /\ v = ends
              \/ v = next /\ (c = Root \/ Other(th, c))
      BY <3>1, <3>2, <3>a, <1>7, WalkLetsGo
    <3>4. next # ends
      BY <1>8
    <3> HIDE DEF ends, c
    <3> QED BY <2>2, <3>2, <3>3, <3>4
  <2> QED BY <2>1, <2>2
<1>10. PICK v \in Walks :
        /\ walk' = [walk EXCEPT ![th] = v]
        /\ \/ tree[c].id = walk[th].id /\ v = hit
           \/ /\ tree[c].id # walk[th].id
              /\ v = next \/ (v = ends /\ ~Other(th, c))
              /\ v = next => Other(th, c)
  BY <1>9
<1>11. tree[c].id # walk[th].id => c \notin walk[th].found
  BY <1>1, <1>2 DEF Search
<1>12. /\ Refs(next) = walk[th].found /\ Refs(hit) = walk[th].found \cup {c}
       /\ Refs(ends) = walk[th].found
  BY <1>8 DEF Refs
<1> HIDE DEF next, hit, ends
<1>13. Moves(th, v)
  <2>1. walk[th].at \notin Building /\ walk[th].at \notin Over /\ v.at \notin Building
    BY <1>1, <1>8, <1>10 DEF Building, Over
  <2>2. \A t \in Refs(v) \cap Tracker : HasRef(t)
    BY <1>5, <1>10, <1>12
  <2>3. \A t \in Refs(walk[th]) \ Refs(v) : t = c /\ v # hit
    BY <1>4, <1>10, <1>12
  <2>4. v.at \in Over => v = ends
    BY <1>8, <1>10 DEF Over
  <2>5. v = ends => c \in Refs(walk[th]) \ Refs(v) /\ ~Other(th, c)
    BY <1>4, <1>8, <1>10, <1>11, <1>12
  <2>6. v = next \/ v = hit \/ v = ends
    BY <1>10
  <2>7. \A t \in (Refs(walk[th]) \ Refs(v)) \cap Tracker :
            ~Other(th, t) => v.at = "destroy" /\ v.temp = t
    BY <2>3, <2>6, <1>8, <1>10
  <2>8. v.at \in Over => v.temp \in Refs(walk[th]) \ Refs(v) /\ ~Other(th, v.temp)
    BY <2>4, <2>5, <1>8
  <2>9. findLock' \in Thread \cup {None} /\ \A u \in Thread \ {th} : findLock = u => findLock' = u
    BY <1>6, WalkFacts
  <2> QED BY <1>6, <1>10, <2>1, <2>2, <2>7, <2>8, <2>9 DEF Moves
<1>14. walk'[th] = v
  BY <1>2, <1>10
<1>15. Doing(th)'
  <2>1. handle'[th] = None
    BY <1>3, <1>6
  <2>2. v.at = "search" \/ (v.at = "destroy" /\ v.back = "search" /\ v.temp \in Tracker)
    BY <1>3, <1>8, <1>10
  <2>3. v.id = walk[th].id /\ walk[th].id \in GlobalName
    BY <1>1, <1>2, <1>8, <1>10 DEF Doing
  <2> QED BY <1>14, <2>1, <2>2, <2>3 DEF Doing
<1>16. InHand(th)' = walk[th].todo \cup v.found /\ Searches(th)' /\ ~BuildsGlobal(th)'
       /\ v.id = walk[th].id
  BY <1>8, <1>10, <1>14 DEF InHand, Searches, BuildsGlobal
<1>17. /\ v.found \subseteq walk[th].found \cup {c} /\ walk[th].found \subseteq v.found
       /\ \A t \in v.found : tree[t].id = walk[th].id
       /\ tree[c].id = walk[th].id => c \in v.found
  BY <1>1, <1>2, <1>8, <1>10 DEF Search
<1>b. v.todo = walk[th].todo
  BY <1>8, <1>10
<1>18. Decided(th)' \/ \A u \in listed' : Global(u, walk[th].id)' => u \in InHand(th)'
  <2>1. SUFFICES ASSUME ~Decided(th)', NEW u \in listed, Global(u, walk[th].id)'
                 PROVE  u \in InHand(th)'
    BY <1>6
  <2>a. ~Decided(th)
    BY <2>1, <1>14, <1>16, <1>17, <1>b DEF Decided
  <2>2. u \in Tracker
    BY <1>2
  <2>3. walk'[th].id = walk[th].id
    BY <1>14, <1>16
  <2>4. Global(u, walk[th].id)
    <3>1. HasRef(u)
      BY <2>1, <2>2, <1>13, MovedRefs DEF Global
    <3> QED BY <2>1, <2>3, <3>1, <1>6 DEF Global
  <2>5. u \in InHand(th) /\ tree[u].id = walk[th].id
    BY <2>4, <2>a, <1>1, <1>2 DEF Search, Global
  <2> QED BY <2>5, <1>4, <1>16, <1>17
<1>19. Search(th)'
  <2>1. \A t \in InHand(th)' : t \in InHand(th)
    BY <1>4, <1>16, <1>17
  <2>2. \A t \in InHand(th)' : t \in Tracker /\ tree'[t].parent = Root
    BY <2>1, <1>1, <1>2, <1>6 DEF Search
  <2>3. \A t \in walk'[th].found : tree'[t].id = walk'[th].id
    BY <1>14, <1>16, <1>17, <1>6
  <2>4. Decided(th)' \/ \A u \in listed' : Global(u, walk[th].id)' => u \in InHand(th)'
    BY <1>18
  <2> QED BY <2>2, <2>3, <2>4, <1>3, <1>6, <1>16 DEF Search
<1> QED BY <1>13, <1>15, <1>19, MovedHolds

LEMMA DropsDuplicateKeeps ==
  ASSUME RegInv, NEW th \in Thread, NEW k \in Node, DropsDuplicate(th, k)
  PROVE  RegInv'
<1> DEFINE next == [walk[th] EXCEPT !.found = @ \ {k}]
<1>1. /\ walk[th].at = "search" /\ walk[th].todo = {} /\ k \in walk[th].found
      /\ walk[th].found # {k} /\ LetGo(th, k, next) /\ UNCHANGED <<tree, listed, handle, findLock>>
  BY DEF DropsDuplicate
<1>2. walk[th] \in Walks /\ Doing(th) /\ Search(th) /\ walk \in [Thread -> Walks] /\ Searches(th)
  BY <1>1, WalkFacts DEF Searches
<1>3. findLock = th /\ handle[th] = None /\ walk[th].id \in GlobalName
  BY <1>1, <1>2 DEF Doing, Search
<1>4. Refs(walk[th]) = walk[th].found /\ InHand(th) = walk[th].found
  BY <1>1 DEF Refs, InHand
<1>5. /\ next \in Walks /\ next.at = "search" /\ next.todo = {} /\ next.id = walk[th].id
      /\ next.found = walk[th].found \ {k}
  BY <1>1, <1>2 DEF Walks, WalkSteps
<1> HIDE DEF next
<1>6. PICK v \in Walks :
        /\ walk' = [walk EXCEPT ![th] = v]
        /\ \/ /\ k \in Tracker /\ ~Other(th, k)
              /\ v = [next EXCEPT !.at = "destroy", !.temp = k, !.back = next.at]
           \/ v = next /\ (k = Root \/ Other(th, k))
  <2>1. k \in Refs(walk[th]) /\ next.at \in {"idle", "search", "listed"}
    BY <1>1, <1>4, <1>5
  <2>2. LetGo(th, k, next) /\ k \in Node
    BY <1>1
  <2>3. next \in Walks
    BY <1>5
  <2> QED BY <2>1, <2>2, <2>3, WalkLetsGo
<1>7. /\ v.id = walk[th].id /\ v.todo = {} /\ v.found = walk[th].found \ {k}
      /\ Refs(v) = walk[th].found \ {k}
      /\ \/ v.at = "search" /\ (k = Root \/ Other(th, k))
         \/ v.at = "destroy" /\ v.temp = k /\ v.back = "search" /\ k \in Tracker /\ ~Other(th, k)
  BY <1>5, <1>6, WalkFacts DEF Walks, Refs
<1>8. \A t \in Refs(walk[th]) : HasRef(t)
  BY DEF HasRef
<1>9. Moves(th, v)
  <2>1. walk[th].at \notin Building /\ walk[th].at \notin Over /\ v.at \notin Building
    BY <1>1, <1>7 DEF Building, Over
  <2>2. \A t \in Refs(v) \cap Tracker : HasRef(t)
    BY <1>4, <1>7, <1>8
  <2>3. \A t \in (Refs(walk[th]) \ Refs(v)) \cap Tracker :
            ~Other(th, t) => v.at = "destroy" /\ v.temp = t
    BY <1>4, <1>7, WalkFacts
  <2>4. v.at \in Over => v.temp \in Refs(walk[th]) \ Refs(v) /\ ~Other(th, v.temp)
    BY <1>1, <1>4, <1>7 DEF Over
  <2>5. findLock' \in Thread \cup {None} /\ \A u \in Thread \ {th} : findLock = u => findLock' = u
    BY <1>1, WalkFacts
  <2> QED BY <1>1, <1>6, <2>1, <2>2, <2>3, <2>4, <2>5 DEF Moves
<1>10. walk'[th] = v
  BY <1>2, <1>6
<1>11. Doing(th)'
  BY <1>1, <1>3, <1>7, <1>10 DEF Doing
<1>12. /\ Searches(th)' /\ ~BuildsGlobal(th)' /\ Decided(th)'
       /\ InHand(th)' = walk[th].found \ {k}
  <2>1. walk[th].found \ {k} # {}
    BY <1>1
  <2> QED BY <1>7, <1>10, <2>1 DEF Searches, BuildsGlobal, Decided, InHand
<1>13. Search(th)'
  BY <1>1, <1>2, <1>3, <1>4, <1>7, <1>10, <1>12 DEF Search
<1> QED BY <1>9, <1>11, <1>13, MovedHolds

LEMMA ListsKeeps ==
  ASSUME RegInv, NEW th \in Thread, ListTrackers(th)
  PROVE  RegInv'
<1> DEFINE v == [NoWalk EXCEPT !.at = "list", !.todo = {Root}]
<1>1. walk[th] = NoWalk /\ handle[th] = None
  BY WalkFacts DEF ListTrackers, MayStart, Ready, Doing
<1>2. v \in Walks
  BY DEF NoWalk, Walks, WalkSteps, Node
<1>3. walk' = [walk EXCEPT ![th] = v] /\ UNCHANGED <<tree, listed, handle, findLock>>
  BY DEF ListTrackers
<1>4. Refs(v) = {Root} /\ Refs(walk[th]) = {} /\ v.at = "list" /\ v.found = {}
  BY <1>1 DEF Refs, NoWalk
<1>5. walk[th].at = "idle"
  BY <1>1 DEF NoWalk
<1> HIDE DEF v
<1>6. Moves(th, v)
  BY <1>2, <1>3, <1>4, <1>5, WalkFacts DEF Moves, Building, Over
<1>7. walk'[th] = v
  BY <1>3, WalkFacts
<1>8. Doing(th)'
  BY <1>1, <1>3, <1>4, <1>7 DEF Doing
<1> QED BY <1>4, <1>6, <1>8, QuietMove

LEMMA VisitsKeeps ==
  ASSUME RegInv, NEW th \in Thread, NEW k \in Node, ListVisits(th, k)
  PROVE  RegInv'
<1> DEFINE live == {c \in Children(k) : Alive(c)}
           v == [walk[th] EXCEPT !.found = @ \cup {k}, !.todo = (@ \ {k}) \cup live]
<1>1. walk[th].at = "list" /\ k \in walk[th].todo /\ handle[th] = None /\ walk[th] \in Walks
  BY WalkFacts DEF ListVisits, Doing
<1>2. live \subseteq Tracker /\ \A c \in live : HasRef(c)
  <2>1. listed \subseteq Tracker /\ Root \notin Tracker
    BY WalkFacts
  <2> QED BY <2>1, AliveIsReferred DEF Children, Alive
<1>3. walk' = [walk EXCEPT ![th] = v] /\ UNCHANGED <<tree, listed, handle, findLock>>
  BY WalkFacts DEF ListVisits
<1> HIDE DEF live
<1>4. v \in Walks
  <2>1. (walk[th].todo \ {k}) \cup live \in SUBSET Node /\ walk[th].found \cup {k} \in SUBSET Node
    BY <1>1, <1>2 DEF Walks, Node
  <2> QED BY <1>1, <2>1 DEF Walks
<1>5. v.at = "list" /\ Refs(v) = Refs(walk[th]) \cup live
  BY <1>1 DEF Refs, Walks
<1>6. \A t \in Refs(walk[th]) : HasRef(t)
  BY DEF HasRef
<1> HIDE DEF v
<1>7. Moves(th, v)
  BY <1>1, <1>2, <1>3, <1>4, <1>5, <1>6, WalkFacts DEF Moves, Building, Over
<1>8. walk'[th] = v
  BY <1>3, WalkFacts
<1>9. Doing(th)'
  BY <1>1, <1>3, <1>5, <1>8 DEF Doing
<1> QED BY <1>5, <1>7, <1>9, QuietMove

LEMMA LetsGoKeeps ==
  ASSUME RegInv, NEW th \in Thread, NEW k \in Node, ListLetsGo(th, k)
  PROVE  RegInv'
<1> DEFINE w == IF walk[th].found = {k} THEN NoWalk
                ELSE [walk[th] EXCEPT !.at = "listed", !.found = @ \ {k}]
<1>1. /\ walk[th].at \in {"list", "listed"} /\ k \in walk[th].found /\ handle[th] = None
      /\ walk[th] \in Walks /\ (walk[th].at = "list" => walk[th].todo = {})
  BY WalkFacts DEF ListLetsGo, Doing
<1>2. Refs(walk[th]) = walk[th].found
  BY <1>1 DEF Refs
<1>3. w \in Walks
  <2>1. NoWalk \in Walks
    BY DEF NoWalk, Walks, WalkSteps
  <2>2. [walk[th] EXCEPT !.at = "listed", !.found = @ \ {k}] \in Walks
    BY <1>1 DEF Walks, WalkSteps
  <2> QED BY <2>1, <2>2
<1>4. /\ w = NoWalk \/ w.at = "listed"
      /\ w.found = walk[th].found \ {k} /\ w.at \in {"idle", "listed"}
      /\ w.at = "idle" => w = NoWalk
  <2>1. CASE walk[th].found = {k}
    BY <2>1 DEF NoWalk
  <2>2. CASE walk[th].found # {k}
    BY <1>1, <2>2 DEF Walks
  <2> QED BY <2>1, <2>2
<1>5. LetGo(th, k, w) /\ UNCHANGED <<tree, listed, handle, findLock>>
  BY DEF ListLetsGo
<1> HIDE DEF w
<1>6. PICK v \in Walks :
           /\ walk' = [walk EXCEPT ![th] = v]
           /\ \/ /\ k \in Tracker /\ ~Other(th, k)
                 /\ v = [w EXCEPT !.at = "destroy", !.temp = k, !.back = w.at]
              \/ v = w /\ (k = Root \/ Other(th, k))
  <2>1. k \in Refs(walk[th]) /\ w.at \in {"idle", "search", "listed"}
    BY <1>1, <1>2, <1>4
  <2>2. LetGo(th, k, w) /\ k \in Node
    BY <1>5
  <2> QED BY <1>3, <2>1, <2>2, WalkLetsGo
<1>7. /\ Refs(v) = walk[th].found \ {k}
      /\ \/ v = w /\ (k = Root \/ Other(th, k))
         \/ /\ v.at = "destroy" /\ v.temp = k /\ v.back = w.at /\ k \in Tracker /\ ~Other(th, k)
            /\ w = NoWalk => v.id = None /\ v.todo = {} /\ v.found = {}
  <2>1. CASE v = w /\ (k = Root \/ Other(th, k))
    BY <2>1, <1>4 DEF Refs
  <2>2. CASE ~(v = w /\ (k = Root \/ Other(th, k)))
    <3>1. v = [w EXCEPT !.at = "destroy", !.temp = k, !.back = w.at] /\ k \in Tracker
          /\ ~Other(th, k)
      BY <1>6, <2>2
    <3>2. v.at = "destroy" /\ v.temp = k /\ v.back = w.at /\ v.found = w.found
      BY <3>1, <1>3 DEF Walks
    <3>3. w = NoWalk => v.id = None /\ v.todo = {} /\ v.found = {}
      BY <3>1, <1>3 DEF NoWalk, Walks
    <3> QED BY <3>1, <3>2, <3>3, <1>4 DEF Refs
  <2> QED BY <2>1, <2>2
<1>8. \A t \in Refs(walk[th]) : HasRef(t)
  BY DEF HasRef
<1>9. Moves(th, v)
  <2>1. walk[th].at \notin Building /\ walk[th].at \notin Over /\ v.at \notin Building
    BY <1>1, <1>4, <1>7 DEF Building, Over
  <2>2. \A t \in Refs(v) \cap Tracker : HasRef(t)
    BY <1>2, <1>7, <1>8
  <2>3. \A t \in (Refs(walk[th]) \ Refs(v)) \cap Tracker :
            ~Other(th, t) => v.at = "destroy" /\ v.temp = t
    BY <1>2, <1>7, WalkFacts
  <2>4. v.at \in Over => v.temp \in Refs(walk[th]) \ Refs(v) /\ ~Other(th, v.temp)
    BY <1>1, <1>2, <1>4, <1>7 DEF Over
  <2>5. findLock' \in Thread \cup {None} /\ \A u \in Thread \ {th} : findLock = u => findLock' = u
    BY <1>5, WalkFacts
  <2> QED BY <1>5, <1>6, <2>1, <2>2, <2>3, <2>4, <2>5 DEF Moves
<1>10. walk'[th] = v
  BY <1>6, WalkFacts
<1>11. Doing(th)'
  <2>1. handle'[th] = None
    BY <1>1, <1>5
  <2>2. CASE v = w
    BY <1>4, <1>10, <2>1, <2>2 DEF Doing
  <2>3. CASE v # w
    BY <1>4, <1>7, <1>10, <2>1, <2>3 DEF Doing
  <2> QED BY <2>2, <2>3
<1>12. v.at \in {"idle", "list", "listed"} \/ (v.at \in Over /\ v.back # "search")
  BY <1>4, <1>7 DEF Over
<1> QED BY <1>9, <1>11, <1>12, QuietMove

LEMMA DestroyKeeps ==
  ASSUME RegInv, NEW th \in Thread, Destroy(th)
  PROVE  RegInv'
<1> DEFINE v == [walk[th] EXCEPT !.at = "erase"]
<1>1. /\ walk[th].at = "destroy" /\ walk[th] \in Walks /\ Doing(th) /\ Search(th)
      /\ walk \in [Thread -> Walks]
  BY WalkFacts DEF Destroy
<1>2. handle[th] = None /\ walk[th].temp \in Tracker
  BY <1>1 DEF Doing
<1>3. v \in Walks
  BY <1>1 DEF Walks, WalkSteps
<1>4. walk' = [walk EXCEPT ![th] = v] /\ UNCHANGED <<tree, listed, handle, findLock>>
  BY WalkFacts DEF Destroy
<1>5. /\ v.at = "erase" /\ v.found = walk[th].found /\ v.todo = walk[th].todo /\ v.id = walk[th].id
      /\ v.temp = walk[th].temp /\ v.back = walk[th].back
  BY <1>1 DEF Walks
<1>6. Refs(v) = Refs(walk[th])
  BY <1>1, <1>5 DEF Refs
<1>7. \A t \in Refs(walk[th]) : HasRef(t)
  BY DEF HasRef
<1> HIDE DEF v
<1>8. Moves(th, v)
  BY <1>1, <1>3, <1>4, <1>5, <1>6, <1>7, WalkFacts DEF Moves, Building, Over
<1>9. walk'[th] = v
  BY <1>4, WalkFacts
<1>10. Doing(th)'
  BY <1>1, <1>2, <1>4, <1>5, <1>9 DEF Doing
<1>11. /\ Searches(th)' <=> Searches(th)
       /\ ~BuildsGlobal(th)' /\ InHand(th)' = InHand(th) /\ (Decided(th)' <=> Decided(th))
  BY <1>1, <1>5, <1>9 DEF Searches, BuildsGlobal, InHand, Decided
<1>12. \A t \in Tracker : \A i : Global(t, i)' => Global(t, i)
  BY <1>4, <1>8, MovedRefs DEF Global
<1>13. Search(th)'
  BY <1>1, <1>4, <1>5, <1>9, <1>11, <1>12, WalkFacts DEF Search
<1> QED BY <1>8, <1>10, <1>13, MovedHolds

-----------------------------------------------------------------------------
(* The steps that hand a tracker out, and take it back.                    *)

LEMMA NoWalkType == NoWalk \in Walks
BY DEF NoWalk, Walks, WalkSteps

LEMMA FindsKeeps ==
  ASSUME RegInv, NEW th \in Thread, Finds(th)
  PROVE  RegInv'
<1>1. /\ walk[th].at = "search" /\ walk[th].todo = {}
      /\ UNCHANGED <<tree, listed>> /\ findLock' = None
      /\ walk' = [walk EXCEPT ![th] = NoWalk]
  BY DEF Finds
<1>2. PICK t \in walk[th].found :
        walk[th].found = {t} /\ handle' = [handle EXCEPT ![th] = t]
  BY DEF Finds
<1>3. /\ walk \in [Thread -> Walks] /\ handle \in [Thread -> Tracker \cup {None}]
      /\ Search(th) /\ Doing(th)
      /\ None \notin Tracker /\ RegType
  BY WalkFacts DEF RegInv, RegType
<1>4. findLock = th /\ handle[th] = None /\ Searches(th)
  BY <1>1, <1>3 DEF Search, Searches, Doing
<1>5. InHand(th) = walk[th].found /\ Refs(walk[th]) = walk[th].found
  BY <1>1 DEF InHand, Refs
<1>6. t \in Tracker /\ Handed(t)
  <2>1. /\ t \in Tracker /\ tree[t].parent = Root /\ tree[t].id = walk[th].id
        /\ walk[th].id \in GlobalName
    BY <1>1, <1>3, <1>4, <1>5 DEF Search, Doing
  <2>2. HasRef(t)
    BY <1>5 DEF HasRef
  <2>3. Life(t) /\ tree[t].state \in {"none", "raw", "ready"}
    BY <2>1, <1>3 DEF RegInv, RegType
  <2>4. tree[t].state # "none"
    BY <2>2, <2>3 DEF Life
  <2>5. tree[t].state = "raw" => ~tree[t].global
    <3>1. SUFFICES ASSUME tree[t].state = "raw", tree[t].global PROVE FALSE
      OBVIOUS
    <3>2. PICK u \in Thread : Builds(u, t)
      BY <3>1, <2>3 DEF Life
    <3>3. BuildsGlobal(u) /\ Search(u)
      BY <3>1, <3>2, <2>1 DEF BuildsGlobal, Builds, RegInv
    <3>4. u = th
      BY <3>3, <1>4 DEF Search
    <3> QED BY <3>2, <3>4, <1>1 DEF Builds
  <2> QED BY <2>1, <2>3, <2>4, <2>5 DEF Handed
<1>7. walk[th].found = {t}
  BY <1>2
<1>8. walk'[th] = NoWalk /\ handle'[th] = t
      /\ \A u \in Thread \ {th} : walk'[u] = walk[u] /\ handle'[u] = handle[u]
  BY <1>1, <1>2, <1>3
<1>9. Refs(NoWalk) = {}
  BY DEF Refs, NoWalk
<1>10. ASSUME NEW x \in Tracker PROVE HasRef(x)' <=> HasRef(x)
  <2>1. IsParent(x)' <=> IsParent(x)
    BY <1>1 DEF IsParent
  <2>2. (\E u \in Thread : x \in Refs(walk'[u])) <=> \E u \in Thread \ {th} : x \in Refs(walk[u])
    BY <1>8, <1>9
  <2>3. (\E u \in Thread : x \in Refs(walk[u]))
          <=> x = t \/ \E u \in Thread \ {th} : x \in Refs(walk[u])
    BY <1>5, <1>7
  <2>4. (\E u \in Thread : handle'[u] = x) <=> x = t \/ \E u \in Thread \ {th} : handle[u] = x
    BY <1>8
  <2>5. (\E u \in Thread : handle[u] = x) <=> \E u \in Thread \ {th} : handle[u] = x
    BY <1>3, <1>4
  <2> QED BY <2>1, <2>2, <2>3, <2>4, <2>5 DEF HasRef
<1>11. ASSUME NEW x \in Tracker
       PROVE  ~Builds(th, x) /\ ~Builds(th, x)' /\ ~Ends(th, x) /\ ~Ends(th, x)'
  BY <1>1, <1>8 DEF Builds, Ends, NoWalk
<1>12. \A u \in Thread \ {th} : findLock = u => findLock' = u
  BY <1>4
<1>13. Lets(th)
  BY <1>1, <1>8, <1>10, <1>11, <1>12 DEF Lets
<1>14. RegType'
  <2>1. walk' \in [Thread -> Walks] /\ handle' \in [Thread -> Tracker \cup {None}]
    BY <1>1, <1>2, <1>3, <1>6, NoWalkType
  <2> QED BY <2>1, <1>1, <1>3 DEF RegType
<1>15. Doing(th)'
  <2>1. Handed(t)'
    BY <1>1, <1>6 DEF Handed
  <2> QED BY <1>8, <2>1 DEF Doing, NoWalk
<1>16. Search(th)'
  <2>1. NoWalk.at = "idle"
    BY DEF NoWalk
  <2> QED BY <1>1, <1>3, <2>1, QuietWalk
<1> QED BY <1>13, <1>14, <1>15, <1>16, LetsHolds

LEMMA ResetKeeps ==
  ASSUME RegInv, NEW th \in Thread, ResetTracker(th)
  PROVE  RegInv'
<1> DEFINE t == handle[th]
           d == [NoWalk EXCEPT !.at = "destroy", !.temp = t, !.back = NoWalk.at]
           v == IF ~OtherHandle(th, t) THEN d ELSE NoWalk
<1>1. /\ Ready(th) /\ t # None /\ UNCHANGED <<tree, listed, findLock>>
      /\ handle' = [handle EXCEPT ![th] = None]
      /\ LetGo(th, t, NoWalk)
  BY DEF ResetTracker, MayLeave
<1>2. walk \in [Thread -> Walks] /\ handle \in [Thread -> Tracker \cup {None}] /\ Doing(th)
      /\ None \notin Tracker /\ Root \notin Tracker /\ RegType
  BY WalkFacts DEF RegInv, RegType
<1>3. walk[th] = NoWalk /\ t \in Tracker
  BY <1>1, <1>2 DEF Ready, Doing
<1>4. Cardinality(References(t)) = 1 <=> ~OtherHandle(th, t)
  BY LastHandle
<1>5. walk' = [walk EXCEPT ![th] = v]
  BY <1>1, <1>2, <1>3, <1>4 DEF LetGo
<1>6. d \in Walks /\ d.at = "destroy" /\ d.temp = t /\ d.id = None /\ d.todo = {} /\ d.found = {}
      /\ d.back = "idle" /\ Refs(d) = {} /\ Refs(NoWalk) = {} /\ NoWalk.at = "idle"
  BY <1>3 DEF NoWalk, Walks, WalkSteps, Refs
<1>7. v \in Walks /\ Refs(v) = {} /\ (v = NoWalk \/ v = d)
      /\ (v = d <=> ~OtherHandle(th, t))
  BY <1>6, NoWalkType
<1> HIDE DEF t, d, v
<1>8. walk'[th] = v /\ handle'[th] = None
      /\ \A u \in Thread \ {th} : walk'[u] = walk[u] /\ handle'[u] = handle[u]
  BY <1>1, <1>2, <1>5
<1>9. ASSUME NEW x \in Tracker
      PROVE  /\ HasRef(x)' <=> (IF x = t THEN OtherHandle(th, t) ELSE HasRef(x))
             /\ HasRef(t)
  <2>1. IsParent(x)' <=> IsParent(x)
    BY <1>1 DEF IsParent
  <2>2. (\E u \in Thread : x \in Refs(walk'[u])) <=> \E u \in Thread : x \in Refs(walk[u])
    BY <1>3, <1>6, <1>7, <1>8
  <2>3. (\E u \in Thread : handle'[u] = x) <=> \E u \in Thread \ {th} : handle[u] = x
    BY <1>2, <1>8
  <2>4. HasRef(x)' <=> OtherHandle(th, x)
    BY <2>1, <2>2, <2>3 DEF HasRef, OtherHandle
  <2>5. x # t => (OtherHandle(th, x) <=> HasRef(x))
    BY DEF OtherHandle, HasRef, t
  <2>6. HasRef(t)
    BY DEF HasRef, t
  <2> QED BY <2>4, <2>5, <2>6
<1>10. ASSUME NEW x \in Tracker
       PROVE  /\ ~Builds(th, x) /\ ~Builds(th, x)' /\ ~Ends(th, x)
              /\ Ends(th, x)' <=> v = d /\ x = t
  BY <1>3, <1>6, <1>7, <1>8 DEF Builds, Ends
<1>11. \A u \in Thread \ {th} : findLock = u => findLock' = u
  BY <1>1
<1>12. Lets(th)
  <2>1. ASSUME NEW x \in Tracker
        PROVE  /\ ~Builds(th, x) /\ ~Builds(th, x)'
               /\ HasRef(x)' => HasRef(x)
               /\ HasRef(x) /\ ~HasRef(x)' => Ends(th, x)'
               /\ Ends(th, x) => Ends(th, x)'
               /\ Ends(th, x)' => Ends(th, x) \/ (HasRef(x) /\ ~HasRef(x)')
    <3>1. /\ HasRef(x)' <=> (IF x = t THEN OtherHandle(th, t) ELSE HasRef(x))
          /\ HasRef(t)
      BY <1>9
    <3>2. /\ ~Builds(th, x) /\ ~Builds(th, x)' /\ ~Ends(th, x)
          /\ Ends(th, x)' <=> v = d /\ x = t
      BY <1>10
    <3> QED BY <3>1, <3>2, <1>7
  <2> QED BY <2>1, <1>1, <1>8, <1>11 DEF Lets
<1>13. RegType'
  <2>1. walk' \in [Thread -> Walks] /\ handle' \in [Thread -> Tracker \cup {None}]
    BY <1>1, <1>2, <1>5, <1>7
  <2> QED BY <2>1, <1>1, <1>2 DEF RegType
<1>14. Doing(th)'
  BY <1>3, <1>6, <1>7, <1>8 DEF Doing
<1>15. Search(th)'
  BY <1>2, <1>5, <1>6, <1>7, QuietWalk DEF Over
<1> QED BY <1>12, <1>13, <1>14, <1>15, LetsHolds

-----------------------------------------------------------------------------
(* The end of a destructor.                                                *)

LEMMA EraseKeeps ==
  ASSUME RegInv, NEW th \in Thread, Erase(th)
  PROVE  RegInv'
<1> DEFINE t == walk[th].temp
           p == tree[t].parent
           w == [walk[th] EXCEPT !.at = walk[th].back, !.temp = None, !.back = "idle"]
           d == [w EXCEPT !.at = "destroy", !.temp = p, !.back = w.at]
           v == IF p # Root /\ ~OtherChild(t, p) THEN d ELSE w
<1>1. /\ walk[th].at = "erase" /\ listed' = listed \ {t} /\ UNCHANGED <<findLock, handle>>
      /\ tree' = [tree EXCEPT ![t] = Unused]
      /\ LetGo(th, p, w)
  BY DEF Erase
<1>2. /\ walk \in [Thread -> Walks] /\ handle \in [Thread -> Tracker \cup {None}]
      /\ Doing(th) /\ Search(th) /\ walk[th] \in Walks
      /\ None \notin Tracker /\ Root \notin Tracker /\ RegType
  BY WalkFacts DEF RegInv, RegType
<1>3. handle[th] = None /\ t \in Tracker
  BY <1>1, <1>2 DEF Doing
<1>4. Life(t) /\ Ends(th, t)
  BY <1>1, <1>3 DEF RegInv, Ends
<1>5. tree[t].state # "none" /\ ~HasRef(t) /\ p \in Node /\ p # t
  <2>1. tree[t].state # "none" /\ ~HasRef(t)
    BY <1>4 DEF Life
  <2>2. p \in Node
    BY <1>2, <1>3 DEF RegType
  <2>3. p # t
    BY <2>1, <1>3 DEF HasRef, IsParent
  <2> QED BY <2>1, <2>2, <2>3
<1>6. Cardinality(References(p)) = 1 <=> ~OtherChild(t, p)
  BY <1>3, <1>5, LastChild
<1>7. walk' = [walk EXCEPT ![th] = v]
  <2> HIDE DEF t, p, w
  <2> QED BY <1>1, <1>6 DEF LetGo
<1>8. /\ w \in Walks /\ w.at = walk[th].back /\ w.back = "idle" /\ w.temp = None
      /\ w.id = walk[th].id /\ w.todo = walk[th].todo /\ w.found = walk[th].found
      /\ w.at \in {"idle", "search", "listed"}
  BY <1>2 DEF Walks, WalkSteps
<1>9. p # Root => d \in Walks /\ d.at = "destroy" /\ d.temp = p /\ d.back = w.at /\ p \in Tracker
                  /\ d.id = walk[th].id /\ d.todo = walk[th].todo /\ d.found = walk[th].found
  BY <1>5, <1>8 DEF Walks, WalkSteps, Node
<1>10. /\ v \in Walks /\ v.at \notin {"compare", "insert", "init", "list", "copy", "erase"}
       /\ v.id = walk[th].id /\ v.todo = walk[th].todo /\ v.found = walk[th].found
       /\ v.at # "destroy" => v = w /\ (p = Root \/ OtherChild(t, p))
       /\ v.at = "destroy" => /\ v.temp = p /\ v.back = walk[th].back /\ p # Root /\ p \in Tracker
                              /\ ~OtherChild(t, p)
  BY <1>8, <1>9
<1>11. Refs(v) = walk[th].found /\ Refs(walk[th]) = walk[th].found
  BY <1>1, <1>10 DEF Refs
<1> HIDE DEF t, p, d, v, w
<1>12. walk'[th] = v /\ \A u \in Thread \ {th} : walk'[u] = walk[u]
  BY <1>2, <1>7
<1>13. tree'[t] = Unused /\ \A x \in Tracker \ {t} : tree'[x] = tree[x]
  BY <1>1, <1>2, <1>3 DEF RegType
<1>14. ASSUME NEW x \in Tracker
       PROVE  HasRef(x)' <=> (IF x = p THEN OtherChild(t, p) ELSE HasRef(x))
  <2>1. IsParent(x)' <=> \E c \in Tracker \ {t} : tree[c].state # "none" /\ tree[c].parent = x
    BY <1>3, <1>13 DEF IsParent, Unused
  <2>2. (\E u \in Thread : x \in Refs(walk'[u])) <=> \E u \in Thread : x \in Refs(walk[u])
    BY <1>11, <1>12
  <2>3. HasRef(x)' <=> OtherChild(t, x)
    BY <2>1, <2>2, <1>1 DEF HasRef, OtherChild
  <2>4. x # p => (OtherChild(t, x) <=> HasRef(x))
    BY DEF OtherChild, HasRef, IsParent, p
  <2> QED BY <2>3, <2>4
<1>15. \A x \in Tracker : HasRef(x)' => HasRef(x)
  <2>1. OtherChild(t, p) => HasRef(p)
    BY DEF OtherChild, HasRef, IsParent
  <2> QED BY <2>1, <1>14
<1>16. RegType'
  <2>1. walk' \in [Thread -> Walks]
    BY <1>2, <1>7, <1>10
  <2>2. Unused \in [state : {"none", "raw", "ready"}, id : Name \cup {None}, limit : Int,
                   parent : Node, global : BOOLEAN]
    BY DEF Unused, Node
  <2>3. tree' \in [Tracker -> [state : {"none", "raw", "ready"},
                          id : Name \cup {None}, limit : Int, parent : Node, global : BOOLEAN]]
    BY <2>2, <1>1, <1>2 DEF RegType
  <2> QED BY <2>1, <2>3, <1>1, <1>2 DEF RegType
<1>17. Rooted(Parents)'
  <2>1. PICK B, r : Ranked(Parents, r, B)
    BY DEF RegInv, Rooted
  <2>2. Parents'[t] = Root /\ \A x \in Tracker \ {t} : Parents'[x] = Parents[x]
    BY <1>3, <1>13 DEF Parents, Unused
  <2>3. /\ B \in Nat /\ r \in [Node -> 0 .. B] /\ r[Root] = 0
        /\ \A x \in Tracker : Parents[x] \in Node /\ r[Parents[x]] < r[x]
    BY <2>1 DEF Ranked
  <2>4. r[t] > 0
    <3>1. Parents[t] \in Node /\ r[Parents[t]] < r[t] /\ t \in Node
      BY <2>3, <1>3 DEF Node
    <3>2. r[Parents[t]] \in 0 .. B /\ r[t] \in 0 .. B
      BY <2>3, <3>1
    <3> QED BY <3>1, <3>2, <2>3
  <2>5. \A x \in Tracker : Parents'[x] \in Node /\ r[Parents'[x]] < r[x]
    BY <2>2, <2>3, <2>4 DEF Node
  <2>6. Ranked(Parents', r, B)
    BY <2>3, <2>5 DEF Ranked
  <2>7. Rooted(Parents')
    BY <2>6 DEF Rooted
  <2> QED BY <2>7 DEF Rooted, Ranked, Parents
<1>18. listed' \subseteq listed /\ t \notin listed' /\ listed \subseteq Tracker
  BY <1>1, <1>2 DEF RegType
<1>19. \A x \in Tracker \ {t} : \A i : Global(x, i)' => Global(x, i)
  BY <1>13, <1>15 DEF Global
<1>20. \A x \in listed' : \A i : x \in listed /\ (Global(x, i)' => Global(x, i))
  BY <1>18, <1>19
<1>21. Names'
  BY <1>20 DEF Names, RegInv
<1>22. ASSUME NEW u \in Thread \ {th} PROVE Doing(u)' /\ Search(u)'
  <2>1. Doing(u) /\ Search(u)
    BY DEF RegInv
  <2>2. walk'[u] = walk[u] /\ handle'[u] = handle[u] /\ findLock' = findLock
    BY <1>1, <1>12
  <2>3. handle[u] # None => handle[u] \in Tracker /\ handle[u] # t
    BY <1>2, <1>5 DEF HasRef
  <2>4. t \notin Refs(walk[u])
    BY <1>5 DEF HasRef
  <2>5. walk[u].at \in {"compare", "insert", "init"} => walk[u].temp # t /\ walk[u].temp \in Tracker
    BY <2>1, <2>4 DEF Refs, Doing
  <2>6. Doing(u)'
    BY <2>1, <2>2, <2>3, <2>5, <1>13 DEF Doing, Handed
  <2>7. /\ Searches(u)' <=> Searches(u)
        /\ BuildsGlobal(u)' <=> BuildsGlobal(u)
        /\ InHand(u)' = InHand(u) /\ (Decided(u)' <=> Decided(u))
    BY <2>2, <2>5, <1>13 DEF Searches, BuildsGlobal, InHand, Decided
  <2>8. Searches(u) => \A c \in InHand(u) :
            c \in Tracker /\ tree'[c].parent = Root
    BY <2>1, <1>13 DEF Search, Unused
  <2>9. Searches(u) => \A c \in walk[u].found : tree'[c].id = walk[u].id
    <3>1. \A c \in walk[u].found : c \in InHand(u) /\ c # t
      BY <2>4 DEF InHand, Refs
    <3> QED BY <3>1, <2>1, <1>13 DEF Search
  <2>10. Searches(u) =>
           Decided(u) \/ \A x \in listed' : Global(x, walk[u].id)' => x \in InHand(u)
    BY <2>1, <2>2, <1>20 DEF Search
  <2>11. BuildsGlobal(u) =>
           \A x \in listed' : Global(x, tree[walk[u].temp].id)' => x = walk[u].temp
    <3>1. BuildsGlobal(u) => tree'[walk[u].temp] = tree[walk[u].temp]
      BY <2>5, <1>13 DEF BuildsGlobal
    <3> QED BY <3>1, <2>1, <2>2, <1>20 DEF Search
  <2>12. BuildsGlobal(u) => tree'[walk[u].temp].id = tree[walk[u].temp].id
    BY <2>5, <1>13 DEF BuildsGlobal
  <2>13. walk[u].at = "copy" \/ Searches(u) \/ BuildsGlobal(u) => findLock = u
    BY <2>1 DEF Search
  <2>14. Search(u)'
    BY <2>2, <2>7, <2>8, <2>9, <2>10, <2>11, <2>12, <2>13 DEF Search
  <2> QED BY <2>6, <2>14
<1>23. Doing(th)'
  <2>1. handle'[th] = None
    BY <1>1, <1>3
  <2>2. v.at = "idle" => v = NoWalk
    <3>1. SUFFICES ASSUME v.at = "idle" PROVE v = NoWalk
      OBVIOUS
    <3>2. v = w /\ walk[th].back = "idle"
      BY <3>1, <1>8, <1>10
    <3>3. walk[th].id = None /\ walk[th].todo = {} /\ walk[th].found = {}
      BY <3>2, <1>1, <1>2 DEF Doing
    <3> QED BY <3>1, <3>2, <3>3, <1>8 DEF NoWalk, Walks
  <2>3. v.at = "destroy" /\ v.back = "idle" => v.id = None /\ v.todo = {} /\ v.found = {}
    BY <1>1, <1>2, <1>10 DEF Doing
  <2>4. v.at = "search" \/ (v.at = "destroy" /\ v.back = "search") => v.id \in GlobalName
    BY <1>1, <1>2, <1>8, <1>10 DEF Doing
  <2> QED BY <2>1, <2>2, <2>3, <2>4, <1>10, <1>12 DEF Doing
<1>24. Search(th)'
  <2>1. Searches(th)' => walk[th].back = "search" /\ Searches(th) /\ findLock = th
    BY <1>1, <1>2, <1>8, <1>10, <1>12 DEF Searches, Search
  <2>2. ~BuildsGlobal(th)' /\ walk'[th].at # "copy"
    BY <1>10, <1>12 DEF BuildsGlobal
  <2>3. InHand(th)' = InHand(th) /\ (Decided(th)' <=> Decided(th))
    BY <1>1, <1>10, <1>12 DEF InHand, Decided
  <2>4. Searches(th) => \A c \in InHand(th) :
            c \in Tracker /\ tree'[c].parent = Root
    BY <1>2, <1>13 DEF Search, Unused
  <2>5. Searches(th) => \A c \in walk[th].found : tree'[c].id = walk[th].id
    <3>1. \A c \in walk[th].found : c \in InHand(th) /\ c # t
      BY <1>5, <1>11 DEF InHand, HasRef
    <3> QED BY <3>1, <1>2, <1>13 DEF Search
  <2>6. Searches(th) =>
          Decided(th) \/ \A x \in listed' : Global(x, walk[th].id)' => x \in InHand(th)
    <3>1. walk'[th].id = walk[th].id
      BY <1>10, <1>12
    <3> QED BY <3>1, <1>2, <1>20 DEF Search
  <2> QED BY <2>1, <2>2, <2>3, <2>4, <2>5, <2>6, <1>1, <1>10, <1>12 DEF Search
<1>25. ASSUME NEW x \in Tracker PROVE Life(x)'
  <2>1. Life(x)
    BY DEF RegInv
  <2>2. \A u \in Thread : Builds(u, x)' <=> Builds(u, x)
    BY <1>1, <1>10, <1>12 DEF Builds
  <2>3. \A u \in Thread \ {th} : Ends(u, x)' <=> Ends(u, x)
    BY <1>12 DEF Ends
  <2>4. Ends(th, x)' <=> x = p /\ p # Root /\ ~OtherChild(t, p)
    <3>1. v.at = "destroy" <=> p # Root /\ ~OtherChild(t, p)
      BY <1>10
    <3>2. v.at # "erase"
      BY <1>10
    <3> QED BY <3>1, <3>2, <1>10, <1>12 DEF Ends
  <2>5. CASE x = t
    <3>1. ~HasRef(x)' /\ tree'[x] = Unused /\ x \notin listed'
      BY <2>5, <1>5, <1>14, <1>13, <1>18
    <3>2. \A u \in Thread : ~Builds(u, x)
      <4>1. \A u \in Thread : x \notin Refs(walk[u])
        BY <2>5, <1>5 DEF HasRef
      <4> QED BY <4>1 DEF Builds, Refs
    <3>3. \A u \in Thread : ~Ends(u, x)'
      <4>1. \A u \in Thread : Ends(u, x) => u = th
        BY <2>5, <1>4 DEF Life
      <4> QED BY <4>1, <2>3, <2>4, <2>5, <1>5
    <3> QED BY <3>1, <3>2, <3>3, <2>2 DEF Life, Unused
  <2>6. CASE x # t
    <3>1. tree'[x] = tree[x] /\ (x \in listed' <=> x \in listed)
      BY <2>6, <1>1, <1>13
    <3>2. ~Ends(th, x) /\ (Ends(th, x)' => HasRef(x) /\ ~HasRef(x)')
      <4>1. ~Ends(th, x)
        BY <2>6 DEF Ends, t
      <4>2. HasRef(p)
        BY <1>3, <1>5 DEF HasRef, IsParent, p
      <4> QED BY <4>1, <4>2, <2>4, <1>14
    <3>3. HasRef(x) /\ ~HasRef(x)' => Ends(th, x)'
      BY <2>4, <1>2, <1>14
    <3>4. HasRef(x)' => HasRef(x)
      BY <1>15
    <3>5. \A u \in Thread : Builds(u, x)' => walk'[u] = walk[u]
      BY <1>10, <1>12 DEF Builds
    <3>6. /\ tree'[x].state = "none" => tree'[x] = Unused /\ x \notin listed' /\ ~HasRef(x)'
          /\ tree'[x].state = "raw" <=> \E u \in Thread : Builds(u, x)'
          /\ tree'[x].state = "ready" => x \in listed'
      BY <2>1, <2>2, <3>1, <3>4 DEF Life
    <3>7. tree'[x].state # "none" => HasRef(x)' \/ \E u \in Thread : Ends(u, x)'
      BY <2>1, <2>3, <3>1, <3>2, <3>3 DEF Life
    <3>8. \A u \in Thread : Ends(u, x)' => tree'[x].state # "none" /\ ~HasRef(x)'
      BY <2>1, <2>3, <3>1, <3>2, <3>4 DEF Life
    <3>9. \A u, y \in Thread : Ends(u, x)' /\ Ends(y, x)' => u = y
      BY <2>1, <2>3, <3>2 DEF Life
    <3>10. \A u \in Thread : Builds(u, x)' /\ walk'[u].at = "init" => x \in listed'
      BY <2>1, <2>2, <3>1, <3>5 DEF Life
    <3>11. \A u, y \in Thread : Builds(u, x)' /\ Builds(y, x)' => u = y
      BY <2>1, <2>2 DEF Life
    <3> QED BY <3>6, <3>7, <3>8, <3>9, <3>10, <3>11 DEF Life
  <2> QED BY <2>5, <2>6
<1>26. \A u \in Thread : Doing(u)' /\ Search(u)'
  BY <1>22, <1>23, <1>24
<1> QED BY <1>16, <1>17, <1>21, <1>25, <1>26 DEF RegInv

-----------------------------------------------------------------------------
(* The creation of a tracker.                                              *)

LEMMA ConstructKeeps ==
  ASSUME RegInv, NEW th \in Thread, NEW t \in Tracker, NEW n \in Name, NEW p \in Node,
         NEW g \in BOOLEAN, Construct(th, t, n, p, g),
         \/ /\ walk[th].at = "search" /\ walk[th].todo = {} /\ walk[th].found = {}
            /\ n = walk[th].id /\ p = Root
         \/ walk[th].at = "idle" /\ p = handle[th] /\ p \in Tracker /\ ~g
         \/ walk[th].at = "idle" /\ handle[th] = None /\ p = Root /\ ~g
  PROVE  RegInv'
<1> DEFINE v == [NoWalk EXCEPT !.at = "insert", !.temp = t]
           e == [state |-> "raw", id |-> n, limit |-> LimitOf[n], parent |-> p, global |-> g]
<1>1. /\ tree[t] = Unused /\ \A u \in Thread : t \notin walk[u].todo
      /\ tree' = [tree EXCEPT ![t] = e]
      /\ walk' = [walk EXCEPT ![th] = v]
      /\ UNCHANGED <<listed, findLock, handle>>
  BY DEF Construct
<1>2. /\ walk \in [Thread -> Walks] /\ handle \in [Thread -> Tracker \cup {None}]
      /\ Doing(th) /\ Search(th) /\ walk[th] \in Walks
      /\ None \notin Tracker /\ Root \notin Tracker /\ RegType /\ listed \subseteq Tracker
  BY WalkFacts DEF RegInv, RegType
<1>3. Life(t) /\ t \notin listed /\ ~HasRef(t) /\ tree[t].state = "none"
  BY <1>1 DEF RegInv, Life, Unused
<1>4. p # t /\ (p \in Tracker => HasRef(p))
  <2>1. p \in Tracker => HasRef(p)
    BY <1>2 DEF HasRef
  <2> QED BY <2>1, <1>2, <1>3
<1>5. v \in Walks /\ v.at = "insert" /\ v.temp = t /\ v.found = {} /\ Refs(v) = {t}
  BY DEF NoWalk, Walks, WalkSteps, Refs
<1>6. Refs(walk[th]) = {}
  BY <1>2 DEF Refs, Doing, NoWalk
<1>7. e.state = "raw" /\ e.id = n /\ e.parent = p /\ e.global = g
      /\ e \in [state : {"none", "raw", "ready"}, id : Name \cup {None}, limit : Int, parent : Node,
                global : BOOLEAN]
  BY LimitAssumption
<1> HIDE DEF v, e
<1>8. tree'[t] = e /\ \A x \in Tracker \ {t} : tree'[x] = tree[x]
  BY <1>1, <1>2 DEF RegType
<1>9. walk'[th] = v /\ \A u \in Thread \ {th} : walk'[u] = walk[u]
  BY <1>1, <1>2
<1>10. ASSUME NEW x \in Tracker PROVE HasRef(x)' <=> HasRef(x) \/ x = t
  <2>1. IsParent(x)' <=> IsParent(x) \/ x = p
    BY <1>3, <1>7, <1>8 DEF IsParent
  <2>2. (\E u \in Thread : x \in Refs(walk'[u])) <=> x = t \/ \E u \in Thread : x \in Refs(walk[u])
    BY <1>5, <1>6, <1>9
  <2> QED BY <2>1, <2>2, <1>1, <1>4 DEF HasRef
<1>11. RegType'
  <2>1. walk' \in [Thread -> Walks]
    BY <1>1, <1>2, <1>5
  <2>2. tree' \in [Tracker -> [state : {"none", "raw", "ready"},
                          id : Name \cup {None}, limit : Int, parent : Node, global : BOOLEAN]]
    BY <1>1, <1>2, <1>7 DEF RegType
  <2> QED BY <2>1, <2>2, <1>1, <1>2 DEF RegType
<1>12. Rooted(Parents)'
  <2>1. PICK B, r : Ranked(Parents, r, B)
    BY DEF RegInv, Rooted
  <2>2. Parents'[t] = p /\ \A x \in Tracker \ {t} : Parents'[x] = Parents[x]
    BY <1>7, <1>8 DEF Parents
  <2>3. /\ B \in Nat /\ r \in [Node -> 0 .. B] /\ r[Root] = 0
        /\ \A x \in Tracker : Parents[x] \in Node /\ r[Parents[x]] < r[x]
    BY <2>1 DEF Ranked
  <2>4. \A x \in Tracker : Parents[x] # t
    <3>1. SUFFICES ASSUME NEW x \in Tracker, tree[x].parent = t PROVE FALSE
      BY DEF Parents
    <3>2. CASE tree[x].state = "none"
      <4>1. tree[x] = Unused
        BY <3>2 DEF RegInv, Life
      <4> QED BY <4>1, <3>1, <1>2 DEF Unused
    <3>3. CASE tree[x].state # "none"
      BY <3>1, <3>3, <1>3 DEF HasRef, IsParent
    <3> QED BY <3>2, <3>3
  <2> DEFINE s == [r EXCEPT ![t] = r[p] + 1]
  <2>5. r[p] \in 0 .. B /\ t \in Node /\ t # Root
    BY <2>3, <1>2 DEF Node
  <2>6. s[t] = r[p] + 1 /\ (\A x \in Node \ {t} : s[x] = r[x]) /\ s \in [Node -> 0 .. (B + 1)]
    BY <2>3, <2>5
  <2> HIDE DEF s
  <2>7. ASSUME NEW x \in Tracker PROVE Parents'[x] \in Node /\ s[Parents'[x]] < s[x]
    <3>1. CASE x = t
      BY <3>1, <2>2, <2>5, <2>6, <1>4
    <3>2. CASE x # t
      <4>1. /\ Parents'[x] = Parents[x] /\ Parents[x] \in Node
            /\ r[Parents[x]] < r[x] /\ Parents[x] # t
        BY <3>2, <2>2, <2>3, <2>4
      <4> QED BY <4>1, <3>2, <2>6 DEF Node
    <3> QED BY <3>1, <3>2
  <2>8. s[Root] = 0 /\ B + 1 \in Nat
    BY <2>3, <2>5, <2>6 DEF Node
  <2>9. Ranked(Parents', s, B + 1)
    BY <2>6, <2>7, <2>8 DEF Ranked
  <2>10. Rooted(Parents')
    BY <2>9 DEF Rooted
  <2> QED BY <2>10 DEF Rooted, Ranked, Parents
<1>13. \A x \in listed : \A i : Global(x, i)' <=> Global(x, i)
  BY <1>2, <1>3, <1>8, <1>10 DEF Global
<1>14. Names'
  BY <1>1, <1>13 DEF RegInv, Names
<1>15. ASSUME NEW u \in Thread \ {th} PROVE Doing(u)' /\ Search(u)'
  <2>1. Doing(u) /\ Search(u)
    BY DEF RegInv
  <2>2. walk'[u] = walk[u] /\ handle'[u] = handle[u] /\ findLock' = findLock /\ listed' = listed
    BY <1>1, <1>9
  <2>3. handle[u] # None => handle[u] \in Tracker /\ handle[u] # t
    BY <1>2, <1>3 DEF HasRef
  <2>4. t \notin Refs(walk[u]) /\ t \notin walk[u].todo
    BY <1>1, <1>3 DEF HasRef
  <2>5. walk[u].at \in {"compare", "insert", "init"} => walk[u].temp # t /\ walk[u].temp \in Tracker
    BY <2>1, <2>4 DEF Refs, Doing
  <2>6. Doing(u)'
    BY <2>1, <2>2, <2>3, <2>5, <1>8 DEF Doing, Handed
  <2>7. /\ Searches(u)' <=> Searches(u)
        /\ BuildsGlobal(u)' <=> BuildsGlobal(u)
        /\ InHand(u)' = InHand(u) /\ (Decided(u)' <=> Decided(u))
    BY <2>2, <2>5, <1>8 DEF Searches, BuildsGlobal, InHand, Decided
  <2>8. \A c \in InHand(u) : c # t
    BY <2>4, <2>5 DEF InHand, Refs
  <2>9. Searches(u) => \A c \in InHand(u) :
            c \in Tracker /\ tree'[c].parent = Root
    BY <2>1, <2>8, <1>8 DEF Search
  <2>10. Searches(u) => \A c \in walk[u].found : tree'[c].id = walk[u].id
    <3>1. \A c \in walk[u].found : c \in InHand(u) /\ c # t
      BY <2>8 DEF InHand
    <3> QED BY <3>1, <2>1, <1>8 DEF Search
  <2>11. Searches(u) =>
           Decided(u) \/ \A x \in listed : Global(x, walk[u].id)' => x \in InHand(u)
    BY <2>1, <2>2, <1>13 DEF Search
  <2>12. BuildsGlobal(u) => tree'[walk[u].temp] = tree[walk[u].temp]
    BY <2>5, <1>8 DEF BuildsGlobal
  <2>13. BuildsGlobal(u) =>
           \A x \in listed : Global(x, tree[walk[u].temp].id)' => x = walk[u].temp
    BY <2>1, <2>2, <2>12, <1>13 DEF Search
  <2>14. walk[u].at = "copy" \/ Searches(u) \/ BuildsGlobal(u) => findLock = u
    BY <2>1 DEF Search
  <2>15. Search(u)'
    BY <2>2, <2>7, <2>9, <2>10, <2>11, <2>12, <2>13, <2>14 DEF Search
  <2> QED BY <2>6, <2>15
<1>16. Doing(th)'
  <2>1. handle'[th] \in {None, p}
    BY <1>1, <1>2 DEF Doing
  <2>2. handle[th] # None => Handed(handle[th])'
    <3>1. handle[th] # None => /\ handle[th] # t /\ handle[th] \in Tracker
                               /\ Handed(handle[th])
      BY <1>2, <1>3 DEF HasRef, Doing
    <3> QED BY <3>1, <1>1, <1>8 DEF Handed
  <2> QED BY <2>1, <2>2, <1>1, <1>5, <1>7, <1>8, <1>9 DEF Doing
<1>17. Search(th)'
  <2>1. ~Searches(th)' /\ walk'[th].at # "copy" /\ walk'[th].temp = t
    BY <1>5, <1>9 DEF Searches
  <2>2. BuildsGlobal(th)' => g
    BY <1>7, <1>8, <2>1 DEF BuildsGlobal
  <2>3. g => findLock = th /\ Searches(th) /\ InHand(th) = {} /\ ~Decided(th) /\ n = walk[th].id
    BY <1>2 DEF Search, Searches, InHand, Decided
  <2>4. g => \A x \in listed : ~Global(x, n)
    BY <2>3, <1>2 DEF Search
  <2>5. tree'[t].id = n /\ listed' = listed /\ findLock' = findLock
    BY <1>1, <1>7, <1>8
  <2>6. g => \A x \in listed' : ~Global(x, tree[walk[th].temp].id)'
    BY <2>1, <2>4, <2>5, <1>13
  <2> QED BY <2>1, <2>2, <2>3, <2>5, <2>6 DEF Search
<1>18. ASSUME NEW x \in Tracker PROVE Life(x)'
  <2>1. Life(x)
    BY DEF RegInv
  <2>2. \A u \in Thread \ {th} : (Builds(u, x)' <=> Builds(u, x)) /\ (Ends(u, x)' <=> Ends(u, x))
    BY <1>9 DEF Builds, Ends
  <2>3. ~Builds(th, x) /\ ~Ends(th, x) /\ ~Ends(th, x)' /\ (Builds(th, x)' <=> x = t)
    BY <1>5, <1>9 DEF Builds, Ends
  <2>4. CASE x = t
    <3>1. \A u \in Thread : ~Ends(u, x) /\ ~Builds(u, x)
      <4>1. \A u \in Thread : x \notin Refs(walk[u])
        BY <2>4, <1>3 DEF HasRef
      <4> QED BY <4>1, <2>1, <2>4, <1>3 DEF Life, Builds, Refs
    <3>2. HasRef(x)' /\ tree'[x].state = "raw" /\ walk'[th].at = "insert"
      BY <2>4, <1>5, <1>7, <1>8, <1>9, <1>10
    <3> QED BY <2>2, <2>3, <2>4, <3>1, <3>2 DEF Life
  <2>5. CASE x # t
    <3>1. tree'[x] = tree[x] /\ listed' = listed /\ (HasRef(x)' <=> HasRef(x))
      BY <2>5, <1>1, <1>8, <1>10
    <3>2. \A u \in Thread : Builds(u, x) => walk'[u] = walk[u]
      BY <2>3, <1>9
    <3>3. \A u \in Thread : (Builds(u, x)' <=> Builds(u, x)) /\ (Ends(u, x)' <=> Ends(u, x))
      BY <2>2, <2>3, <2>5
    <3> QED BY <2>1, <3>1, <3>2, <3>3 DEF Life
  <2> QED BY <2>4, <2>5
<1>19. \A u \in Thread : Doing(u)' /\ Search(u)'
  BY <1>15, <1>16, <1>17
<1> QED BY <1>11, <1>12, <1>14, <1>18, <1>19 DEF RegInv

LEMMA GlobalKeeps ==
  ASSUME RegInv, NEW th \in Thread, NEW t \in Tracker, CreatesGlobal(th, t)
  PROVE  RegInv'
<1>1. Doing(th)
  BY WalkFacts
<1>2. /\ walk[th].at = "search" /\ walk[th].todo = {} /\ walk[th].found = {}
      /\ Construct(th, t, walk[th].id, Root, TRUE)
  BY DEF CreatesGlobal
<1>3. walk[th].id \in Name /\ Root \in Node /\ TRUE \in BOOLEAN
  BY <1>1, <1>2, LimitAssumption DEF Doing, Node
<1> QED BY <1>2, <1>3, ConstructKeeps

LEMMA ChildKeeps ==
  ASSUME RegInv, NEW th \in Thread, NEW t \in Tracker, NEW n \in Name, CreateTracker(th, t, n)
  PROVE  RegInv'
<1>1. CASE MayLeave(th) /\ Construct(th, t, n, handle[th], FALSE)
  <2>1. walk[th].at = "idle" /\ handle[th] # None
    BY <1>1 DEF MayLeave, Ready
  <2>2. handle[th] \in Tracker /\ handle[th] \in Node /\ FALSE \in BOOLEAN
    BY <2>1, WalkFacts DEF Node
  <2> QED BY <1>1, <2>1, <2>2, ConstructKeeps
<1>2. CASE MayStart(th) /\ Construct(th, t, n, Root, FALSE)
  <2>1. walk[th].at = "idle" /\ handle[th] = None
    BY <1>2 DEF MayStart, Ready
  <2>2. Root \in Node /\ FALSE \in BOOLEAN
    BY DEF Node
  <2> QED BY <1>2, <2>1, <2>2, ConstructKeeps
<1> QED BY <1>1, <1>2 DEF CreateTracker

LEMMA AddChildKeeps ==
  ASSUME RegInv, NEW th \in Thread, AddChildTracker(th)
  PROVE  RegInv'
<1> DEFINE t == walk[th].temp
           v == [walk[th] EXCEPT !.at = "init"]
<1>1. /\ walk[th].at = "insert" /\ listed' = listed \cup {t}
      /\ walk' = [walk EXCEPT ![th] = v]
      /\ UNCHANGED <<tree, findLock, handle>>
  BY WalkFacts DEF AddChildTracker
<1>2. /\ walk \in [Thread -> Walks] /\ Doing(th) /\ Search(th) /\ walk[th] \in Walks /\ RegType
      /\ listed \subseteq Tracker
  BY WalkFacts DEF RegInv
<1>3. t \in Tracker /\ walk[th].found = {}
  BY <1>1, <1>2 DEF Doing
<1>4. v \in Walks /\ v.at = "init" /\ v.temp = t /\ v.found = {}
  BY <1>2, <1>3 DEF Walks, WalkSteps
<1>5. Refs(v) = {t} /\ Refs(walk[th]) = {t} /\ Builds(th, t)
  BY <1>1, <1>3, <1>4 DEF Refs, Builds
<1> HIDE DEF t, v
<1>6. walk'[th] = v /\ \A u \in Thread \ {th} : walk'[u] = walk[u]
  BY <1>1, <1>2
<1>7. \A x : HasRef(x)' <=> HasRef(x)
  <2> SUFFICES ASSUME NEW x PROVE HasRef(x)' <=> HasRef(x)
    OBVIOUS
  <2>1. IsParent(x)' <=> IsParent(x)
    BY <1>1 DEF IsParent
  <2>2. (\E u \in Thread : x \in Refs(walk'[u])) <=> (\E u \in Thread : x \in Refs(walk[u]))
    BY <1>5, <1>6
  <2> QED BY <2>1, <2>2, <1>1 DEF HasRef
<1>8. \A x, i : Global(x, i)' <=> Global(x, i)
  BY <1>1, <1>7 DEF Global
<1>9. tree[t].global /\ tree[t].parent = Root => BuildsGlobal(th) /\ findLock = th
  BY <1>1, <1>2 DEF BuildsGlobal, Search, t
<1>10. \A x \in listed : \A i : Global(t, i) /\ Global(x, i) => x = t
  <2>1. \A i : Global(t, i) => tree[t].global /\ tree[t].parent = Root /\ i = tree[t].id
    BY DEF Global
  <2>2. tree[t].global /\ tree[t].parent = Root => \A x \in listed : Global(x, tree[t].id) => x = t
    BY <1>2, <1>9 DEF Search, t
  <2> QED BY <2>1, <2>2
<1>11. Names'
  <2>1. \A x, y \in listed : \A i : Global(x, i) /\ Global(y, i) => x = y
    BY DEF RegInv, Names
  <2> QED BY <2>1, <1>1, <1>8, <1>10 DEF Names
<1>12. RegType'
  <2>1. walk' \in [Thread -> Walks]
    BY <1>1, <1>2, <1>4
  <2> QED BY <2>1, <1>1, <1>2, <1>3 DEF RegType
<1>13. Rooted(Parents)'
  BY <1>1, ParentsStay DEF RegInv
<1>14. ASSUME NEW u \in Thread PROVE Doing(u)' /\ Search(u)'
  <2>1. Doing(u) /\ Search(u)
    BY DEF RegInv
  <2>2. walk[u].at \in Building =>
          /\ walk'[u].at \in Building /\ walk'[u].temp = walk[u].temp
          /\ walk'[u].found = walk[u].found
    BY <1>3, <1>4, <1>6 DEF Building, t
  <2>3. u # th => walk'[u] = walk[u]
    BY <1>6
  <2>4. Doing(u)'
    <3>1. CASE u = th
      BY <3>1, <2>1, <1>1, <1>3, <1>4, <1>6 DEF Doing, Handed, t
    <3>2. CASE u # th
      BY <3>2, <2>1, <2>3, <1>1 DEF Doing, Handed
    <3> QED BY <3>1, <3>2
  <2>5. CASE u = th
    <3>1. /\ ~Searches(u)' /\ walk'[u].at # "copy"
          /\ BuildsGlobal(u)' <=> tree[t].global /\ tree[t].parent = Root
      BY <2>5, <1>1, <1>4, <1>6 DEF Searches, BuildsGlobal
    <3>2. walk'[u].temp = t
      BY <2>5, <1>4, <1>6
    <3>3. tree[t].global /\ tree[t].parent = Root =>
            \A x \in listed' : Global(x, tree[t].id) => x = t
      <4>1. tree[t].global /\ tree[t].parent = Root => Global(t, tree[t].id)
        <5>1. HasRef(t)
          BY <1>5 DEF HasRef
        <5> QED BY <5>1 DEF Global
      <4>2. \A x \in listed' : x = t \/ x \in listed
        BY <1>1
      <4> QED BY <4>1, <4>2, <1>10
    <3>4. BuildsGlobal(u)' =>
            \A x \in listed' : Global(x, tree[walk[u].temp].id)' => x = walk'[u].temp
      <4>1. SUFFICES ASSUME BuildsGlobal(u)', NEW x \in listed', Global(x, tree[walk[u].temp].id)'
                     PROVE  x = walk'[u].temp
        OBVIOUS
      <4>2. tree'[walk'[u].temp].id = tree[t].id
        BY <3>2, <1>1
      <4>3. Global(x, tree[t].id)
        BY <4>1, <4>2, <1>8
      <4> QED BY <3>1, <3>2, <3>3, <4>1, <4>3
    <3>5. BuildsGlobal(u)' => findLock' = u
      BY <3>1, <2>5, <1>1, <1>9
    <3> QED BY <3>1, <3>4, <3>5, <2>4 DEF Search
  <2>6. CASE u # th
    <3>1. /\ Searches(u)' <=> Searches(u)
          /\ BuildsGlobal(u)' <=> BuildsGlobal(u)
          /\ InHand(u)' = InHand(u) /\ (Decided(u)' <=> Decided(u))
      BY <2>6, <2>3, <1>1 DEF Searches, BuildsGlobal, InHand, Decided
    <3>2. walk[u].at = "copy" \/ Searches(u) \/ BuildsGlobal(u) => findLock = u
      BY <2>1 DEF Search
    <3>3. Searches(u) \/ BuildsGlobal(u) => \A i : ~Global(t, i)
      BY <3>2, <2>6, <1>9 DEF Global
    <3>4. Searches(u) =>
            Decided(u) \/ \A x \in listed' : Global(x, walk[u].id) => x \in InHand(u)
      BY <3>3, <2>1, <1>1 DEF Search
    <3>5. BuildsGlobal(u) =>
            \A x \in listed' : Global(x, tree[walk[u].temp].id) => x = walk[u].temp
      BY <3>3, <2>1, <1>1 DEF Search
    <3>6. Search(u)'
      BY <2>1, <2>3, <2>6, <3>1, <3>2, <3>4, <3>5, <1>1, <1>8 DEF Search
    <3> QED BY <3>6, <2>4
  <2> QED BY <2>5, <2>6
<1>15. ASSUME NEW x \in Tracker PROVE Life(x)'
  <2>1. Life(x)
    BY DEF RegInv
  <2>2. \A u \in Thread : (Builds(u, x)' <=> Builds(u, x)) /\ (Ends(u, x)' <=> Ends(u, x))
    <3>1. (Builds(th, x)' <=> Builds(th, x)) /\ (Ends(th, x)' <=> Ends(th, x))
      BY <1>1, <1>4, <1>6 DEF Builds, Ends, t
    <3>2. \A u \in Thread \ {th} : (Builds(u, x)' <=> Builds(u, x)) /\ (Ends(u, x)' <=> Ends(u, x))
      BY <1>6 DEF Builds, Ends
    <3> QED BY <3>1, <3>2
  <2>3. /\ tree'[x] = tree[x] /\ (x \in listed' <=> x \in listed \/ x = t)
        /\ (HasRef(x)' <=> HasRef(x))
    BY <1>1, <1>7
  <2>4. x = t => tree[x].state = "raw"
    BY <2>1, <1>5 DEF Life
  <2>5. \A u \in Thread : Builds(u, x)' /\ walk'[u].at = "init" => x \in listed'
    <3>1. \A u \in Thread \ {th} : Builds(u, x)' /\ walk'[u].at = "init" => x \in listed'
      BY <2>1, <2>2, <2>3, <1>6 DEF Life
    <3>2. Builds(th, x) => x = t
      BY DEF Builds, t
    <3> QED BY <3>1, <3>2, <2>2, <2>3
  <2>6. \A u, y \in Thread :
          (Builds(u, x)' /\ Builds(y, x)') \/ (Ends(u, x)' /\ Ends(y, x)') => u = y
    BY <2>1, <2>2 DEF Life
  <2>7. \A u \in Thread : Ends(u, x)' => tree'[x].state # "none" /\ ~HasRef(x)'
    BY <2>1, <2>2, <2>3 DEF Life
  <2>8. /\ tree'[x].state = "none" => tree'[x] = Unused /\ x \notin listed' /\ ~HasRef(x)'
        /\ tree'[x].state = "raw" <=> \E u \in Thread : Builds(u, x)'
        /\ tree'[x].state = "ready" => x \in listed'
        /\ tree'[x].state # "none" => HasRef(x)' \/ \E u \in Thread : Ends(u, x)'
    BY <2>1, <2>2, <2>3, <2>4 DEF Life
  <2> QED BY <2>5, <2>6, <2>7, <2>8 DEF Life
<1> QED BY <1>11, <1>12, <1>13, <1>14, <1>15 DEF RegInv

LEMMA InitializeKeeps ==
  ASSUME RegInv, NEW th \in Thread, Initialize(th)
  PROVE  RegInv'
<1> DEFINE t == walk[th].temp
<1>1. /\ walk[th].at = "init" /\ tree' = [tree EXCEPT ![t].state = "ready"]
      /\ handle' = [handle EXCEPT ![th] = t]
      /\ findLock' = (IF findLock = th THEN None ELSE findLock)
      /\ walk' = [walk EXCEPT ![th] = NoWalk]
      /\ listed' = listed
  BY DEF Initialize
<1>2. /\ walk \in [Thread -> Walks] /\ handle \in [Thread -> Tracker \cup {None}]
      /\ Doing(th) /\ Search(th) /\ walk[th] \in Walks
      /\ None \notin Tracker /\ Root \notin Tracker /\ RegType /\ listed \subseteq Tracker
      /\ findLock \in Thread \cup {None} /\ th # None
  BY WalkFacts DEF RegInv, RegType
<1>3. t \in Tracker /\ walk[th].found = {} /\ handle[th] \in {None, tree[t].parent}
  BY <1>1, <1>2 DEF Doing
<1>4. Life(t) /\ Builds(th, t)
  BY <1>1, <1>3 DEF RegInv, Builds
<1>5. Refs(walk[th]) = {t} /\ Refs(NoWalk) = {} /\ NoWalk.at = "idle"
  BY <1>1, <1>3 DEF Refs, NoWalk
<1>6. HasRef(t) /\ tree[t].state = "raw" /\ t \in listed
  BY <1>1, <1>4, <1>5 DEF HasRef, Life
<1> HIDE DEF t
<1>7. /\ walk'[th] = NoWalk /\ handle'[th] = t
      /\ \A u \in Thread \ {th} : walk'[u] = walk[u] /\ handle'[u] = handle[u]
  BY <1>1, <1>2
<1>8. /\ tree[t] \in [state : {"none", "raw", "ready"}, id : Name \cup {None}, limit : Int,
                      parent : Node, global : BOOLEAN]
      /\ tree'[t] = [tree[t] EXCEPT !.state = "ready"]
      /\ \A x \in Tracker \ {t} : tree'[x] = tree[x]
  BY <1>1, <1>2, <1>3 DEF RegType
<1>9. /\ tree'[t].state = "ready" /\ tree'[t].id = tree[t].id /\ tree'[t].parent = tree[t].parent
      /\ tree'[t].global = tree[t].global
      /\ tree'[t] \in [state : {"none", "raw", "ready"}, id : Name \cup {None}, limit : Int,
                       parent : Node, global : BOOLEAN]
  BY <1>8
<1>10. \A x \in Tracker : /\ tree'[x].parent = tree[x].parent /\ tree'[x].id = tree[x].id
                          /\ tree'[x].state = "none" <=> tree[x].state = "none"
                          /\ tree[x].state = "ready" => tree'[x].state = "ready"
                          /\ tree'[x].global = tree[x].global
                          /\ Handed(x) => Handed(x)'
  BY <1>6, <1>8, <1>9 DEF Handed
<1>11. ASSUME NEW x \in Tracker PROVE HasRef(x)' <=> HasRef(x)
  <2>1. IsParent(x)' <=> IsParent(x)
    BY <1>10 DEF IsParent
  <2>2. (\E u \in Thread : x \in Refs(walk'[u])) <=> \E u \in Thread \ {th} : x \in Refs(walk[u])
    BY <1>5, <1>7
  <2>3. (\E u \in Thread : handle'[u] = x) <=> x = t \/ \E u \in Thread \ {th} : handle[u] = x
    BY <1>7
  <2>4. handle[th] = x => IsParent(x)
    BY <1>2, <1>3, <1>6 DEF IsParent
  <2>5. (\E u \in Thread : x \in Refs(walk[u]))
          <=> x = t \/ \E u \in Thread \ {th} : x \in Refs(walk[u])
    BY <1>5
  <2>6. (\E u \in Thread : handle[u] = x)
          <=> handle[th] = x \/ \E u \in Thread \ {th} : handle[u] = x
    OBVIOUS
  <2> QED BY <2>1, <2>2, <2>3, <2>4, <2>5, <2>6 DEF HasRef
<1>12. \A x \in Tracker : \A i : Global(x, i)' <=> Global(x, i)
  BY <1>10, <1>11 DEF Global
<1>13. Names'
  <2>1. \A x, y \in listed : \A i : Global(x, i) /\ Global(y, i) => x = y
    BY DEF RegInv, Names
  <2> QED BY <2>1, <1>1, <1>2, <1>12 DEF Names
<1>14. RegType'
  <2>1. walk' \in [Thread -> Walks] /\ handle' \in [Thread -> Tracker \cup {None}]
    BY <1>1, <1>2, <1>3, NoWalkType
  <2>2. tree' \in [Tracker -> [state : {"none", "raw", "ready"},
                          id : Name \cup {None}, limit : Int, parent : Node, global : BOOLEAN]]
    <3>1. tree' = [tree EXCEPT ![t] = tree'[t]]
      BY <1>1, <1>2, <1>3, <1>8 DEF RegType
    <3> QED BY <3>1, <1>2, <1>9 DEF RegType
  <2> QED BY <2>1, <2>2, <1>1, <1>2 DEF RegType
<1>15. Rooted(Parents)'
  <2>1. Parents' = Parents
    BY <1>10 DEF Parents
  <2> QED BY <2>1 DEF RegInv, Rooted, Ranked
<1>16. \A u \in Thread \ {th} : findLock = u => findLock' = u
  BY <1>1
<1>17. ASSUME NEW u \in Thread \ {th} PROVE Doing(u)' /\ Search(u)'
  <2>1. Doing(u) /\ Search(u)
    BY DEF RegInv
  <2>2. walk'[u] = walk[u] /\ handle'[u] = handle[u] /\ listed' = listed
        /\ handle[u] \in Tracker \cup {None}
    BY <1>1, <1>2, <1>7
  <2>3. walk[u].at \in {"compare", "insert", "init"} => walk[u].temp \in Tracker
    BY <2>1 DEF Doing
  <2>4. Doing(u)'
    BY <2>1, <2>2, <2>3, <1>10 DEF Doing
  <2>5. /\ Searches(u)' <=> Searches(u)
        /\ BuildsGlobal(u)' <=> BuildsGlobal(u)
        /\ InHand(u)' = InHand(u) /\ (Decided(u)' <=> Decided(u))
    BY <2>2, <2>3, <1>10 DEF Searches, BuildsGlobal, InHand, Decided
  <2>6. Searches(u) => \A c \in InHand(u) :
            c \in Tracker /\ tree'[c].parent = Root
    BY <2>1, <1>10 DEF Search
  <2>7. Searches(u) => \A c \in walk[u].found : tree'[c].id = walk[u].id
    <3>1. \A c \in walk[u].found : c \in InHand(u)
      BY DEF InHand
    <3> QED BY <3>1, <2>1, <1>10 DEF Search
  <2>8. Searches(u) =>
          Decided(u) \/ \A x \in listed : Global(x, walk[u].id)' => x \in InHand(u)
    BY <2>1, <2>2, <1>2, <1>12 DEF Search
  <2>9. BuildsGlobal(u) => tree'[walk[u].temp].id = tree[walk[u].temp].id
    BY <2>3, <1>10 DEF BuildsGlobal
  <2>10. BuildsGlobal(u) =>
           \A x \in listed : Global(x, tree[walk[u].temp].id)' => x = walk[u].temp
    BY <2>1, <2>2, <2>9, <1>2, <1>12 DEF Search
  <2>11. walk[u].at = "copy" \/ Searches(u) \/ BuildsGlobal(u) => findLock' = u
    BY <2>1, <1>16 DEF Search
  <2>12. Search(u)'
    BY <2>2, <2>5, <2>6, <2>7, <2>8, <2>9, <2>10, <2>11 DEF Search
  <2> QED BY <2>4, <2>12
<1>18. Doing(th)'
  BY <1>5, <1>7, <1>9 DEF Doing, Handed
<1>19. Search(th)'
  BY <1>1, <1>2, <1>5, QuietWalk
<1>20. ASSUME NEW x \in Tracker PROVE Life(x)'
  <2>1. Life(x)
    BY DEF RegInv
  <2>2. \A u \in Thread \ {th} : (Builds(u, x)' <=> Builds(u, x)) /\ (Ends(u, x)' <=> Ends(u, x))
    BY <1>7 DEF Builds, Ends
  <2>3. ~Builds(th, x)' /\ ~Ends(th, x) /\ ~Ends(th, x)' /\ (Builds(th, x) <=> x = t)
    BY <1>1, <1>5, <1>7 DEF Builds, Ends, t
  <2>4. HasRef(x)' <=> HasRef(x)
    BY <1>11
  <2>5. CASE x = t
    <3>1. \A u \in Thread : ~Ends(u, x)' /\ ~Builds(u, x)'
      BY <2>1, <2>2, <2>3, <2>5, <1>6 DEF Life
    <3>2. HasRef(x)' /\ tree'[x].state = "ready" /\ x \in listed'
      BY <2>4, <2>5, <1>1, <1>6, <1>9
    <3> QED BY <3>1, <3>2 DEF Life
  <2>6. CASE x # t
    <3>1. tree'[x] = tree[x] /\ listed' = listed
      BY <2>6, <1>1, <1>8
    <3>2. \A u \in Thread : Builds(u, x) => walk'[u] = walk[u]
      BY <2>3, <2>6, <1>7
    <3>3. \A u \in Thread : (Builds(u, x)' <=> Builds(u, x)) /\ (Ends(u, x)' <=> Ends(u, x))
      BY <2>2, <2>3, <2>6
    <3> QED BY <2>1, <2>4, <3>1, <3>2, <3>3 DEF Life
  <2> QED BY <2>5, <2>6
<1>21. \A u \in Thread : Doing(u)' /\ Search(u)'
  BY <1>17, <1>18, <1>19
<1> QED BY <1>13, <1>14, <1>15, <1>20, <1>21 DEF RegInv

LEMMA RegInit == Init => RegInv
<1> SUFFICES ASSUME Init PROVE RegInv
  OBVIOUS
<1>1. /\ tree = [t \in Tracker |-> Unused] /\ listed = {} /\ findLock = None
      /\ handle = [th \in Thread |-> None] /\ walk = [th \in Thread |-> NoWalk]
  BY DEF Init
<1>2. Unused \in [state : {"none", "raw", "ready"}, id : Name \cup {None}, limit : Int,
                 parent : Node, global : BOOLEAN]
      /\ Unused.state = "none" /\ Unused.parent = Root
  BY DEF Unused, Node
<1>3. RegType
  BY <1>1, <1>2, NoWalkType DEF RegType
<1>4. NoWalk.at = "idle" /\ Refs(NoWalk) = {}
  BY DEF NoWalk, Refs
<1>5. Rooted(Parents)
  <2> DEFINE r == [k \in Node |-> IF k = Root THEN 0 ELSE 1]
  <2>1. Root \notin Tracker
    BY NodeAssumption
  <2>2. \A t \in Tracker : Parents[t] = Root
    BY <1>1, <1>2 DEF Parents
  <2>3. Ranked(Parents, r, 1)
    BY <2>1, <2>2 DEF Ranked, Node
  <2> HIDE DEF r
  <2> QED BY <2>3 DEF Rooted
<1>6. \A th \in Thread : walk[th] = NoWalk /\ handle[th] = None
  BY <1>1
<1>7. ASSUME NEW th \in Thread PROVE Doing(th) /\ Search(th)
  BY <1>4, <1>6 DEF Doing, Search, Searches, BuildsGlobal
<1>8. ASSUME NEW t \in Tracker PROVE Life(t)
  <2>1. ~HasRef(t)
    <3>1. ~IsParent(t)
      BY <1>1, <1>2 DEF IsParent
    <3>2. None \notin Tracker
      BY NodeAssumption
    <3> QED BY <3>1, <3>2, <1>4, <1>6 DEF HasRef
  <2>2. \A th \in Thread : ~Builds(th, t) /\ ~Ends(th, t)
    BY <1>4, <1>6 DEF Builds, Ends
  <2> QED BY <2>1, <2>2, <1>1, <1>2 DEF Life
<1> QED BY <1>1, <1>3, <1>5, <1>7, <1>8 DEF RegInv, Names

LEMMA RegNext == RegInv /\ [Next]_vars => RegInv'
<1> SUFFICES ASSUME RegInv, [Next]_vars PROVE RegInv'
  OBVIOUS
<1>1. CASE UNCHANGED vars
  BY <1>1, RegStays DEF vars, registry
<1>2. ASSUME NEW th \in Thread, LookupStep(th) PROVE RegInv'
  <2>1. CASE \E n \in GlobalName : FindOrCreateGlobalTracker(th, n)
    BY <2>1, FindKeeps
  <2>2. CASE CopyChildren(th)
    BY <2>2, CopyKeeps
  <2>3. CASE \E c \in Tracker : SearchLocks(th, c)
    BY <2>3, LocksKeeps
  <2>4. CASE SearchCompares(th) \/ Finds(th)
    BY <2>4, ComparesKeeps, FindsKeeps
  <2>8. CASE \E k \in Tracker : DropsDuplicate(th, k)
    BY <2>8, DropsDuplicateKeeps DEF Node
  <2>5. CASE \E t \in Tracker : CreatesGlobal(th, t)
    BY <2>5, GlobalKeeps
  <2>6. CASE \E t \in Tracker, n \in Name : CreateTracker(th, t, n)
    BY <2>6, ChildKeeps
  <2>7. CASE AddChildTracker(th) \/ Initialize(th)
    BY <2>7, AddChildKeeps, InitializeKeeps
  <2> QED BY <1>2, <2>1, <2>2, <2>3, <2>4, <2>5, <2>6, <2>7, <2>8 DEF LookupStep
<1>3. ASSUME NEW th \in Thread, LifetimeStep(th) PROVE RegInv'
  BY <1>3, ResetKeeps, ListsKeeps, VisitsKeeps, LetsGoKeeps, DestroyKeeps, EraseKeeps
     DEF LifetimeStep
<1>4. ASSUME NEW th \in Thread, ChargeStep(th) \/ CollectStep(th) PROVE RegInv'
  <2>1. UNCHANGED <<tree, listed, findLock, handle, walk>>
    <3>1. CASE ChargeStep(th)
      BY <3>1 DEF registry, ChargeStep, ChargesNothing, ReleasesNothing, Consume, Release,
         TryConsume, Allocate, ConsumeClimbs, ReleaseClimbs, TryAccepts, TryRefuses, Retry,
         UndoDescends, Refused, DelegateAllocates, DelegateFails, Descends, Undoes
    <3>2. CASE CollectStep(th)
      BY <3>2 DEF registry, CollectStep, FillCache, EmptyCache, LimitExceeded, GcLocks,
         GcFrees, GcChecks
    <3> QED BY <1>4, <3>1, <3>2
  <2> QED BY <2>1, RegStays
<1> QED BY <1>1, <1>2, <1>3, <1>4 DEF Next

-----------------------------------------------------------------------------
(* The accounts, and the steps of the registry.                            *)

OpRecs == [at : OpSteps, mode : Modes, bytes : 0 .. MaxHeld, minimal : 0 .. MaxHeld,
           pos : Nat, j : Nat, goal : Nat, freed : 0 .. MaxHeld]

AccType ==
  /\ consumption \in [Node -> Int]
  /\ cached \in [Node -> 0 .. MaxHeld]
  /\ gcLock \in [Node -> Thread \cup {None}]
  /\ held \in [Thread -> 0 .. MaxHeld]
  /\ op \in [Thread -> OpRecs]
  /\ forced \in BOOLEAN /\ missed \in BOOLEAN

\* Where a charge may stand: a thread charges its own tracker, the bytes it will
\* have fit the bound, and only Consume charges without asking.  Until bytes are
\* charged to nobody, who holds bytes has a tracker that is initialized.
Sound(th) ==
  /\ op[th].at = "none" => op[th] = NoOp
  /\ op[th].at # "none" \/ held[th] > 0 => handle[th] # None /\ walk[th].at = "idle"
  /\ op[th].at # "none" \/ (held[th] > 0 /\ ~missed) => IsWhole(th)
  /\ op[th].at # "none" => op[th].pos \in 1 .. Len(Chain(th))
  /\ held[th] + op[th].minimal <= MaxHeld
  /\ op[th].at \notin {"none", "release"} => held[th] + op[th].bytes <= MaxHeld
  /\ op[th].mode = "check" => op[th].bytes = 0 /\ op[th].minimal = 0
  /\ op[th].at = "undo" => op[th].j \in op[th].pos .. Len(Chain(th))
  /\ op[th].at = "free" => op[th].j \in 1 .. Len(Chain(th)) - op[th].pos + 1
  /\ op[th].at = "consume" => forced

Accounted == \A k \in Node : consumption[k] = Load(k)

AccInv ==
  /\ AccType /\ \A th \in Thread : Sound(th)
  /\ missed \/ (CachesAreWatched /\ Accounted /\ LimitHolds)

LEMMA NodesAreFinite == IsFiniteSet(Node) /\ IsFiniteSet(Thread)
BY FS_AddElement, NodeAssumption DEF Node

\* What the way of a tracker is good for, read off its parents.
LEMMA WaysHold ==
  ASSUME RegInv, NEW k \in Node
  PROVE  /\ Way(AllTrackers, Parents, k)
         /\ Len(AllTrackers[k]) \in Nat /\ Len(AllTrackers[k]) >= 1
         /\ \A i \in 1 .. Len(AllTrackers[k]) : AllTrackers[k][i] \in Node
<1>1. WaysOf(AllTrackers, Parents) /\ Rooted(Parents)
  BY AllTrackersAreWays DEF RegInv
<1>2. Way(AllTrackers, Parents, k)
  BY <1>1, WaysGood
<1>3. AllTrackers[k] \in Seq(Node) /\ Len(AllTrackers[k]) >= 1
  BY <1>2 DEF Way
<1> QED BY <1>2, <1>3

\* Nobody can charge, and no cache can be charged, below a tracker to which
\* nobody refers.
LEMMA NobodyBelow ==
  ASSUME RegInv, NEW t \in Tracker, NEW k \in Node, OnChain(t, AllTrackers[k]), k = t => HasRef(k)
  PROVE  HasRef(t)
<1> DEFINE c == AllTrackers[k]
<1>1. Way(AllTrackers, Parents, k) /\ \A i \in 1 .. Len(c) : c[i] \in Node
  BY WaysHold
<1>2. PICK i \in 1 .. Len(c) : c[i] = t
  BY DEF OnChain
<1>3. CASE i = 1
  BY <1>1, <1>2, <1>3 DEF Way
<1>4. CASE i # 1
  <2>1. i - 1 \in 1 .. Len(c) - 1 /\ i - 1 \in 1 .. Len(c) /\ (i - 1) + 1 = i
    BY <1>4, <1>1 DEF Way
  <2>2. c[i] = Parents[c[i - 1]]
    BY <1>1, <2>1 DEF Way
  <2>3. c[i - 1] # Root /\ c[i - 1] \in Node
    <3>1. i - 1 # Len(c)
      BY <2>1, <1>2
    <3> QED BY <1>1, <2>1, <3>1 DEF Way
  <2>4. c[i - 1] \in Tracker /\ tree[c[i - 1]].parent = t
    BY <2>2, <2>3, <1>2 DEF Node, Parents
  <2>5. tree[c[i - 1]].state # "none"
    <3>1. tree[c[i - 1]].state = "none" => tree[c[i - 1]].parent = Root
      BY <2>4 DEF RegInv, Life, Unused
    <3> QED BY <3>1, <2>4, NodeAssumption
  <2> QED BY <2>4, <2>5 DEF HasRef, IsParent
<1> QED BY <1>3, <1>4

LEMMA WhenNat ==
  ASSUME NEW b \in BOOLEAN, NEW n \in Nat
  PROVE  When(b, n) \in Nat /\ (n = 0 => When(b, n) = 0) /\ (~b => When(b, n) = 0)
         /\ (b => When(b, n) = n)
BY DEF When

SharesNat ==
  \A k \in Node :
    /\ \A th \in Thread : ThreadShare(th, k) \in Nat /\ Shares(k)[th] \in Nat
    /\ \A t \in Node : CacheShare(t, k) \in Nat /\ Caches(k)[t] \in Nat

LEMMA SharesAreNat == RegInv /\ AccType => SharesNat
<1> SUFFICES ASSUME RegInv, AccType, NEW k \in Node
             PROVE  /\ \A th \in Thread : ThreadShare(th, k) \in Nat /\ Shares(k)[th] \in Nat
                    /\ \A t \in Node : CacheShare(t, k) \in Nat /\ Caches(k)[t] \in Nat
  BY DEF SharesNat
<1>1. ASSUME NEW th \in Thread PROVE ThreadShare(th, k) \in Nat
  <2>1. held[th] \in Nat /\ op[th].bytes \in Nat /\ op[th].freed \in Nat
    BY LimitAssumption DEF AccType, OpRecs
  <2>2. \A b \in BOOLEAN : /\ When(b, held[th]) \in Nat /\ When(b, op[th].bytes) \in Nat
                           /\ When(b, op[th].freed) \in Nat
    BY <2>1, WhenNat
  <2>3. Share(k, Chain(th), held[th], op[th]) \in Nat
    <3> DEFINE a == OnTheWay(k, Chain(th), 1, Len(Chain(th)))
               b == IsCharged(k, Chain(th), op[th])
               f == op[th].at = "free"
                      /\ OnTheWay(k, Chain(th), op[th].pos + op[th].j - 1, Len(Chain(th)))
    <3>1. a \in BOOLEAN /\ b \in BOOLEAN /\ f \in BOOLEAN
      BY DEF OnTheWay, IsCharged
    <3>2. Share(k, Chain(th), held[th], op[th])
            = When(a, held[th]) + When(b, op[th].bytes) + When(f, op[th].freed)
      BY DEF Share
    <3> HIDE DEF a, b, f
    <3> QED BY <3>1, <3>2, <2>2
  <2> QED BY <2>3 DEF ThreadShare
<1>2. ASSUME NEW t \in Node PROVE CacheShare(t, k) \in Nat
  <2>1. cached[t] \in Nat
    BY LimitAssumption DEF AccType
  <2>2. OnChain(k, AllTrackers[t]) \in BOOLEAN
    BY DEF OnChain
  <2> QED BY <2>1, <2>2, WhenNat DEF CacheShare
<1> QED BY <1>1, <1>2 DEF Shares, Caches

LEMMA SharesStayNat == RegInv' /\ AccType' => SharesNat'
BY SharesAreNat, PTL

\* Consumption is never negative, and 0 where nobody refers.
LEMMA LoadsAreNat ==
  ASSUME RegInv, AccType
  PROVE  \A k \in Node : Load(k) \in Nat
<1>1. ASSUME NEW k \in Node PROVE Load(k) \in Nat
  <2>1. /\ \A th \in Thread : Shares(k)[th] \in Nat
        /\ \A t \in Node : Caches(k)[t] \in Nat
    BY SharesAreNat DEF SharesNat
  <2>2. Total(Shares(k), Thread) \in Nat /\ Total(Caches(k), Node) \in Nat
    BY <2>1, NodesAreFinite, TotalNat
  <2> QED BY <2>2 DEF Load
<1> QED BY <1>1

LEMMA LoadsOfTheUnreferred ==
  ASSUME RegInv, AccInv, ~missed, NEW t \in Tracker, ~HasRef(t)
  PROVE  consumption[t] = 0
<1>1. \A th \in Thread : Shares(t)[th] = 0
  <2> SUFFICES ASSUME NEW th \in Thread, handle[th] # None PROVE ThreadShare(th, t) = 0
    BY DEF Shares, ThreadShare
  <2> DEFINE c == AllTrackers[handle[th]]
  <2>1. handle[th] \in Tracker /\ handle[th] \in Node
    BY WalkFacts DEF Node
  <2>2. ~OnChain(t, c)
    BY <2>1, NobodyBelow DEF HasRef
  <2>3. Len(c) \in Nat
    BY <2>1, WaysHold
  <2>4. Sound(th) /\ op[th] \in OpRecs /\ held[th] \in Nat
    BY LimitAssumption DEF AccInv, AccType
  <2>5. \A lo, hi \in Int : lo >= 1 /\ hi <= Len(c) => ~OnTheWay(t, c, lo, hi)
    BY <2>2, <2>3 DEF OnChain, OnTheWay
  <2> HIDE DEF c
  <2>6. ~OnTheWay(t, c, 1, Len(c))
    BY <2>3, <2>5
  <2>7. ~IsCharged(t, c, op[th])
    <3>1. op[th].at # "none" => op[th].pos \in 1 .. Len(c)
      BY <2>4 DEF Sound, Chain, c
    <3>2. op[th].at = "undo" => op[th].j \in op[th].pos .. Len(c)
      BY <2>4 DEF Sound, Chain, c
    <3>3. op[th].pos \in Nat /\ op[th].j \in Nat
      BY <2>4 DEF OpRecs
    <3>4. op[th].at = "consume" => ~OnTheWay(t, c, 1, op[th].pos - 1)
      BY <3>1, <3>3, <2>3, <2>5
    <3>5. op[th].at = "release" => ~OnTheWay(t, c, op[th].pos, Len(c))
      BY <3>1, <3>3, <2>3, <2>5
    <3>6. op[th].at # "none" => ~OnTheWay(t, c, op[th].pos + 1, Len(c))
      BY <3>1, <3>3, <2>3, <2>5
    <3>7. op[th].at = "undo" => ~OnTheWay(t, c, op[th].pos + 1, op[th].j)
      BY <3>1, <3>2, <3>3, <2>3, <2>5
    <3> QED BY <3>4, <3>5, <3>6, <3>7, <2>6 DEF IsCharged
  <2>8. ~(op[th].at = "free" /\ OnTheWay(t, c, op[th].pos + op[th].j - 1, Len(c)))
    <3>1. op[th].at = "free" => /\ op[th].pos \in 1 .. Len(c)
                                /\ op[th].j \in 1 .. Len(c) - op[th].pos + 1
      BY <2>4 DEF Sound, Chain, c
    <3> QED BY <3>1, <2>3, <2>5
  <2> QED BY <2>6, <2>7, <2>8 DEF ThreadShare, Share, Chain, When, c
<1>2. \A m \in Node : Caches(t)[m] = 0
  <2> SUFFICES ASSUME NEW m \in Node PROVE CacheShare(m, t) = 0
    BY DEF Caches
  <2>1. cached[m] > 0 => ~OnChain(t, AllTrackers[m])
    <3> SUFFICES ASSUME cached[m] > 0 PROVE ~OnChain(t, AllTrackers[m])
      OBVIOUS
    <3>1. PICK th \in Thread : handle[th] = m
      BY DEF AccInv, CachesAreWatched
    <3> QED BY <3>1, NobodyBelow DEF HasRef
  <2> QED BY <2>1 DEF CacheShare, When
<1>3. Total(Shares(t), Thread) = 0 /\ Total(Caches(t), Node) = 0
  BY <1>1, <1>2, NodesAreFinite, TotalNat
<1> QED BY <1>3 DEF AccInv, Accounted, Load, Node

\* What a step of the registry does to the accounts: it moves one thread, which
\* charges nothing and leaves a cache to others only.
Leaves(th) ==
  /\ UNCHANGED <<missed, accounts>>
  /\ consumption' \in [Node -> Int] /\ (missed \/ consumption' = consumption)
  /\ \A u \in Thread \ {th} : walk'[u] = walk[u] /\ handle'[u] = handle[u]
  /\ handle[th] = None \/ walk[th].at # "idle" \/ MayLeave(th)
  /\ \A t \in Tracker : tree[t].state # "none" /\ tree'[t].state # "none"
                          => tree'[t].parent = tree[t].parent
  /\ \A t \in Tracker : tree[t].state = "ready" /\ tree'[t].state # "none"
                          => tree'[t].state = "ready"
  /\ \A t \in Tracker : \/ missed
                        \/ tree'[t].limit < 0
                        \/ tree'[t].limit = tree[t].limit
                        \/ consumption[t] = 0 /\ tree'[t].limit \in Nat

Here == {k \in Node : k = Root \/ (tree[k].state # "none" /\ tree'[k].state # "none")}

LEMMA WaysHere ==
  ASSUME RegInv, RegInv', NEW th \in Thread, Leaves(th)
  PROVE  \A k \in Here : AllTrackers'[k] = AllTrackers[k]
<1>1. WaysOf(AllTrackers, Parents) /\ Rooted(Parents)
  BY AllTrackersAreWays DEF RegInv
<1>2. WaysOf(AllTrackers', Parents')
  <2>1. Rooted(Parents)'
    BY DEF RegInv
  <2> QED BY <2>1, AllTrackersStayWays
<1>3. Here \in SUBSET Node
  BY DEF Here
<1>4. ASSUME NEW k \in Here, k # Root PROVE Parents'[k] = Parents[k] /\ Parents[k] \in Here
  <2>1. k \in Tracker /\ tree[k].state # "none" /\ tree'[k].state # "none"
    BY <1>4 DEF Here, Node
  <2>2. tree'[k].parent = tree[k].parent
    BY <2>1 DEF Leaves
  <2>3. Parents'[k] = Parents[k]
    BY <2>1, <2>2 DEF Parents
  <2>4. Parents[k] \in Node
    BY <2>1 DEF RegInv, RegType, Parents
  <2>5. ASSUME Parents[k] # Root
        PROVE  tree[Parents[k]].state # "none" /\ tree'[Parents[k]].state # "none"
    <3> DEFINE p == tree[k].parent
    <3>1. p \in Tracker /\ p = Parents[k]
      BY <2>1, <2>4, <2>5 DEF Node, Parents
    <3>2. HasRef(p)
      BY <2>1 DEF HasRef, IsParent
    <3>3. (\E c \in Tracker : tree[c].state # "none" /\ tree[c].parent = tree[k].parent)'
      BY <2>1
    <3>4. \E c \in Tracker : tree'[c].state # "none" /\ tree'[c].parent = p
      BY <3>3, <2>2
    <3> HIDE DEF p
    <3>5. tree[p].state # "none"
      BY <3>1, <3>2 DEF RegInv, Life
    <3>6. ASSUME NEW x \in Tracker,
                 \E c \in Tracker : tree'[c].state # "none" /\ tree'[c].parent = x
          PROVE  tree'[x].state # "none"
      <4>1. Life(x)'
        BY DEF RegInv
      <4>2. HasRef(x)'
        BY <3>6 DEF HasRef, IsParent
      <4> QED BY <4>1, <4>2 DEF Life
    <3>7. tree'[p].state # "none"
      BY <3>1, <3>4, <3>6
    <3> QED BY <3>1, <3>5, <3>7
  <2> QED BY <2>3, <2>4, <2>5 DEF Here
<1> HIDE DEF Here
<1> QED BY <1>1, <1>2, <1>3, <1>4, WaysSame

LEMMA LeavesHolds ==
  ASSUME RegInv, RegInv', AccInv, NEW th \in Thread, Leaves(th)
  PROVE  AccInv'
<1>1. cached' = cached /\ gcLock' = gcLock /\ held' = held /\ op' = op /\ forced' = forced
      /\ missed' = missed /\ consumption' \in [Node -> Int]
  BY DEF Leaves, accounts
<1>2. AccType'
  BY <1>1 DEF AccInv, AccType
<1>3. \A u \in Thread : op[u].at # "none" \/ held[u] > 0 =>
        u # th /\ handle[u] # None /\ walk[u].at = "idle"
  <2>1. ASSUME op[th].at # "none" \/ held[th] > 0 PROVE FALSE
    BY <2>1 DEF AccInv, Sound, Leaves, MayLeave, Ready
  <2> QED BY <2>1 DEF AccInv, Sound
<1>4. \A u \in Thread \ {th} : walk'[u] = walk[u] /\ handle'[u] = handle[u]
  BY DEF Leaves
<1>6. \A u \in Thread : handle[u] # None /\ handle'[u] = handle[u] => handle[u] \in Here
  <2> SUFFICES ASSUME NEW u \in Thread, handle[u] # None, handle'[u] = handle[u]
               PROVE  handle[u] \in Here
    OBVIOUS
  <2>1. handle[u] \in Tracker
    BY WalkFacts
  <2>2. tree[handle[u]].state # "none"
    BY DEF RegInv, Doing, Handed
  <2>3. tree'[handle'[u]].state # "none"
    <3>1. Doing(u)'
      BY DEF RegInv
    <3> QED BY <3>1 DEF Doing, Handed
  <2> QED BY <2>1, <2>2, <2>3 DEF Here, Node
<1>7. \A u \in Thread : op[u].at # "none" \/ held[u] > 0 => Chain(u)' = Chain(u)
  <2> SUFFICES ASSUME NEW u \in Thread, op[u].at # "none" \/ held[u] > 0 PROVE Chain(u)' = Chain(u)
    OBVIOUS
  <2>1. handle'[u] = handle[u] /\ handle[u] # None
    BY <1>3, <1>4
  <2>2. AllTrackers'[handle[u]] = AllTrackers[handle[u]]
    BY <2>1, <1>6, WaysHere
  <2> QED BY <2>1, <2>2 DEF Chain
<1>8. ASSUME NEW u \in Thread PROVE Sound(u)'
  <2>1. Sound(u) /\ NoOp.at = "none" /\ (op[u].at = "none" => op[u] = NoOp)
    BY DEF AccInv, Sound, NoOp
  <2>2. CASE op[u].at # "none" \/ held[u] > 0
    <3>1. Chain(u)' = Chain(u) /\ handle'[u] = handle[u] /\ walk'[u] = walk[u]
      BY <2>2, <1>3, <1>4, <1>7
    <3>2. IsWhole(u) => IsWhole(u)'
      <4>1. handle[u] \in Tracker /\ handle[u] \in Here
        BY <2>2, <3>1, <1>3, <1>6, WalkFacts
      <4>2. tree'[handle[u]].state # "none"
        BY <4>1, NodeAssumption DEF Here
      <4> QED BY <3>1, <4>1, <4>2 DEF IsWhole, Leaves
    <3> HIDE DEF Chain
    <3> QED BY <2>1, <3>1, <3>2, <1>1 DEF Sound
  <2>3. CASE ~(op[u].at # "none" \/ held[u] > 0)
    BY <2>1, <2>3, <1>1 DEF Sound, NoOp
  <2> QED BY <2>2, <2>3
<1>12. CASE missed
  BY <1>1, <1>2, <1>8, <1>12 DEF AccInv
<1> SUFFICES ASSUME ~missed PROVE AccInv'
  BY <1>12
<1>13. consumption' = consumption /\ CachesAreWatched /\ Accounted /\ LimitHolds
  BY DEF Leaves, AccInv
<1>5. CachesAreWatched'
  <2> SUFFICES ASSUME NEW k \in Node, cached[k] > 0
               PROVE  \E u \in Thread : handle'[u] = k /\ walk'[u].at = "idle"
    BY <1>1 DEF CachesAreWatched
  <2>1. PICK u \in Thread : handle[u] = k /\ walk[u].at = "idle"
    BY <1>13 DEF CachesAreWatched
  <2>2. CASE u # th
    BY <2>1, <2>2, <1>4
  <2>3. CASE u = th
    <3>1. handle[th] # None
      BY <2>1, <2>3, NodeAssumption DEF Node
    <3>2. MayLeave(th)
      BY <2>1, <2>3, <3>1 DEF Leaves
    <3>3. cached[handle[th]] # 0
      BY <2>1, <2>3 DEF AccInv, AccType
    <3>4. PICK w \in Thread \ {th} : handle[w] = handle[th] /\ walk[w].at = "idle"
      BY <3>2, <3>3 DEF MayLeave
    <3> QED BY <3>4, <2>1, <2>3, <1>4
  <2> QED BY <2>2, <2>3
<1>9. ASSUME NEW k \in Node PROVE Load(k)' = Load(k)
  <2>1. ASSUME NEW u \in Thread PROVE ThreadShare(u, k)' = ThreadShare(u, k)
    <3>1. CASE op[u].at # "none" \/ held[u] > 0
      <4>1. Chain(u)' = Chain(u) /\ handle'[u] = handle[u]
        BY <3>1, <1>3, <1>4, <1>7
      <4> HIDE DEF Chain
      <4> QED BY <4>1, <1>1 DEF ThreadShare
    <3>2. CASE ~(op[u].at # "none" \/ held[u] > 0)
      <4>1. held[u] = 0 /\ op[u] = NoOp
        BY <3>2, LimitAssumption DEF AccInv, AccType, Sound
      <4>2. \A c : Share(k, c, 0, NoOp) = 0
        BY DEF Share, When, NoOp
      <4>3. ThreadShare(u, k) = 0
        BY <4>1, <4>2 DEF ThreadShare
      <4>4. ThreadShare(u, k)' = 0
        BY <4>1, <4>2, <1>1 DEF ThreadShare
      <4> QED BY <4>3, <4>4
    <3> QED BY <3>1, <3>2
  <2>2. Shares(k)' = Shares(k)
    BY <2>1 DEF Shares
  <2>3. ASSUME NEW t \in Node PROVE CacheShare(t, k)' = CacheShare(t, k)
    <3>1. CASE cached[t] > 0
      <4>1. PICK u \in Thread : handle[u] = t
        BY <3>1, <1>13 DEF CachesAreWatched
      <4>2. PICK w \in Thread : handle'[w] = t
        BY <3>1, <1>1, <1>5 DEF CachesAreWatched
      <4>3. t \in Here
        <5>1. t # None => tree[t].state # "none"
          BY <4>1 DEF RegInv, Doing, Handed
        <5>2. t # None => tree'[t].state # "none"
          <6>1. Doing(w)'
            BY DEF RegInv
          <6> QED BY <6>1, <4>2 DEF Doing, Handed
        <5>3. t # Root => t \in Tracker /\ t # None
          BY WalkFacts DEF Node
        <5> QED BY <5>1, <5>2, <5>3 DEF Here
      <4>4. AllTrackers'[t] = AllTrackers[t]
        BY <4>3, WaysHere
      <4> QED BY <4>4, <1>1 DEF CacheShare
    <3>2. CASE ~(cached[t] > 0)
      BY <3>2, <1>1 DEF CacheShare, When
    <3> QED BY <3>1, <3>2
  <2>4. Caches(k)' = Caches(k)
    BY <2>3 DEF Caches
  <2> QED BY <2>2, <2>4 DEF Load
<1>10. Accounted'
  BY <1>9, <1>13 DEF Accounted
<1>11. LimitHolds'
  <2> SUFFICES ASSUME ~forced, NEW k \in Node PROVE Limit(k)' < 0 \/ consumption[k] <= Limit(k)'
    BY <1>1, <1>13 DEF LimitHolds
  <2>1. Limit(k) < 0 \/ consumption[k] <= Limit(k)
    BY <1>13 DEF LimitHolds
  <2>2. CASE k = Root
    BY <2>1, <2>2 DEF Limit
  <2>3. CASE k # Root
    <3>1. k \in Tracker
      BY <2>3 DEF Node
    <3>2. Limit(k)' = tree'[k].limit /\ Limit(k) = tree[k].limit
      BY <2>3 DEF Limit
    <3> QED BY <2>1, <3>1, <3>2 DEF Leaves
  <2> QED BY <2>2, <2>3
<1> QED BY <1>2, <1>5, <1>8, <1>10, <1>11 DEF AccInv

\* What the steps that only walk have in common.
LEMMA WalksLeave ==
  ASSUME RegInv, AccInv, NEW th \in Thread,
         UNCHANGED <<consumption, accounts, missed, tree, handle>>,
         handle[th] = None \/ walk[th].at # "idle",
         \E v : walk' = [walk EXCEPT ![th] = v]
  PROVE  Leaves(th)
<1>1. PICK v : walk' = [walk EXCEPT ![th] = v]
  OBVIOUS
<1>2. \A u \in Thread \ {th} : walk'[u] = walk[u]
  BY <1>1, WalkFacts
<1>3. consumption \in [Node -> Int]
  BY DEF AccInv, AccType
<1> QED BY <1>2, <1>3 DEF Leaves

LEMMA LetGoWalks ==
  ASSUME NEW th, NEW t, NEW w, LetGo(th, t, w)
  PROVE  \E v : walk' = [walk EXCEPT ![th] = v]
BY DEF LetGo

LEMMA ConstructLeaves ==
  ASSUME RegInv, AccInv, NEW th \in Thread, NEW t \in Tracker, NEW n \in Name, NEW p \in Node,
         NEW g, Construct(th, t, n, p, g),
         handle[th] = None \/ walk[th].at # "idle" \/ MayLeave(th)
  PROVE  Leaves(th)
<1>1. /\ tree[t] = Unused /\ UNCHANGED <<handle, missed, accounts>>
      /\ tree' = [tree EXCEPT ![t] = [state |-> "raw", id |-> n, limit |-> LimitOf[n],
                                      parent |-> p, global |-> g]]
      /\ consumption' = [consumption EXCEPT ![t] = 0]
      /\ \E v : walk' = [walk EXCEPT ![th] = v]
  BY DEF Construct
<1>2. missed \/ consumption[t] = 0
  <2>1. ~HasRef(t)
    BY <1>1 DEF RegInv, Life, Unused
  <2> QED BY <2>1, LoadsOfTheUnreferred
<1>3. consumption' \in [Node -> Int] /\ (missed \/ consumption' = consumption)
  <2>1. consumption \in [Node -> Int] /\ consumption' = [consumption EXCEPT ![t] = 0]
    BY <1>1 DEF AccInv, AccType
  <2>2. consumption' \in [Node -> Int]
    <3>1. \A k \in Node : consumption'[k] \in Int
      BY <2>1
    <3>2. consumption' = [k \in Node |-> consumption'[k]]
      BY <2>1
    <3> QED BY <3>1, <3>2, Zenon
  <2>3. ASSUME consumption[t] = 0 PROVE consumption' = consumption
    BY <2>1, <2>3
  <2> QED BY <1>2, <2>2, <2>3
<1>4. \A u \in Thread \ {th} : walk'[u] = walk[u] /\ handle'[u] = handle[u]
  BY <1>1, WalkFacts
<1>5. tree'[t].limit = LimitOf[n] /\ \A x \in Tracker \ {t} : tree'[x] = tree[x]
  BY <1>1 DEF RegInv, RegType
<1>6. LimitOf[n] < 0 \/ LimitOf[n] \in Nat
  BY LimitAssumption
<1>7. tree[t].state = "none"
  BY <1>1 DEF Unused
<1> QED BY <1>1, <1>2, <1>3, <1>4, <1>5, <1>6, <1>7 DEF Leaves

LEMMA LookupLeaves ==
  ASSUME RegInv, AccInv, NEW th \in Thread, LookupStep(th)
  PROVE  Leaves(th)
<1>1. CASE \E n \in GlobalName : FindOrCreateGlobalTracker(th, n)
  BY <1>1, WalksLeave DEF FindOrCreateGlobalTracker, MayStart
<1>2. CASE CopyChildren(th)
  <2>1. \E v : walk' = [walk EXCEPT ![th] = v]
    BY <1>2 DEF CopyChildren
  <2> QED BY <1>2, <2>1, WalksLeave DEF CopyChildren
<1>3. ASSUME NEW c \in Tracker, SearchLocks(th, c) PROVE Leaves(th)
  <2>1. \E v : walk' = [walk EXCEPT ![th] = v]
    BY <1>3 DEF SearchLocks
  <2> QED BY <1>3, <2>1, WalksLeave DEF SearchLocks
<1>4. CASE SearchCompares(th)
  <2>1. \E v : walk' = [walk EXCEPT ![th] = v]
    BY <1>4, LetGoWalks DEF SearchCompares
  <2> QED BY <1>4, <2>1, WalksLeave DEF SearchCompares
<1>10. ASSUME NEW k \in Tracker, DropsDuplicate(th, k) PROVE Leaves(th)
  <2>1. \E v : walk' = [walk EXCEPT ![th] = v]
    BY <1>10, LetGoWalks DEF DropsDuplicate
  <2> QED BY <1>10, <2>1, WalksLeave DEF DropsDuplicate
<1>5. CASE Finds(th)
  <2>1. \A u \in Thread \ {th} : walk'[u] = walk[u] /\ handle'[u] = handle[u]
    <3>1. walk \in [Thread -> Walks] /\ handle \in [Thread -> Tracker \cup {None}]
      BY DEF RegInv, RegType
    <3> QED BY <1>5, <3>1 DEF Finds
  <2>2. consumption \in [Node -> Int]
    BY DEF AccInv, AccType
  <2> QED BY <1>5, <2>1, <2>2 DEF Finds, Leaves
<1>6. ASSUME NEW t \in Tracker, CreatesGlobal(th, t) PROVE Leaves(th)
  <2>1. walk[th].at = "search" /\ Construct(th, t, walk[th].id, Root, TRUE)
    BY <1>6 DEF CreatesGlobal
  <2>2. walk[th].id \in Name
    BY <2>1, LimitAssumption DEF RegInv, Doing
  <2> QED BY <2>1, <2>2, ConstructLeaves DEF Node
<1>7. ASSUME NEW t \in Tracker, NEW n \in Name, CreateTracker(th, t, n) PROVE Leaves(th)
  <2>1. CASE MayLeave(th) /\ Construct(th, t, n, handle[th], FALSE)
    <3>1. handle[th] \in Node
      BY <2>1, WalkFacts DEF MayLeave, Node
    <3> QED BY <2>1, <3>1, ConstructLeaves
  <2>2. CASE MayStart(th) /\ Construct(th, t, n, Root, FALSE)
    <3>1. handle[th] = None /\ Root \in Node
      BY <2>2 DEF MayStart, Node
    <3> QED BY <2>2, <3>1, ConstructLeaves
  <2> QED BY <1>7, <2>1, <2>2 DEF CreateTracker
<1>8. CASE AddChildTracker(th)
  <2>1. \E v : walk' = [walk EXCEPT ![th] = v]
    BY <1>8 DEF AddChildTracker
  <2> QED BY <1>8, <2>1, WalksLeave DEF AddChildTracker
<1>9. CASE Initialize(th)
  <2> DEFINE t == walk[th].temp
  <2>1. /\ walk[th].at = "init" /\ tree' = [tree EXCEPT ![t].state = "ready"]
        /\ handle' = [handle EXCEPT ![th] = t] /\ walk' = [walk EXCEPT ![th] = NoWalk]
        /\ UNCHANGED <<consumption, missed, accounts>>
    BY <1>9 DEF Initialize
  <2>2. t \in Tracker
    BY <2>1 DEF RegInv, Doing
  <2> HIDE DEF t
  <2>3. \A u \in Thread \ {th} : walk'[u] = walk[u] /\ handle'[u] = handle[u]
    BY <2>1 DEF RegInv, RegType
  <2>4. \A x \in Tracker :
          /\ tree'[x].parent = tree[x].parent /\ tree'[x].limit = tree[x].limit
          /\ tree'[x].state \in {"ready", tree[x].state}
    BY <2>1, <2>2 DEF RegInv, RegType
  <2>5. consumption \in [Node -> Int]
    BY DEF AccInv, AccType
  <2> QED BY <2>1, <2>3, <2>4, <2>5 DEF Leaves
<1> QED BY <1>1, <1>2, <1>3, <1>4, <1>5, <1>6, <1>7, <1>8, <1>9, <1>10 DEF LookupStep

LEMMA LifetimeLeaves ==
  ASSUME RegInv, AccInv, NEW th \in Thread, LifetimeStep(th)
  PROVE  Leaves(th)
<1>1. CASE ResetTracker(th)
  <2>1. PICK v : walk' = [walk EXCEPT ![th] = v]
    BY <1>1, LetGoWalks DEF ResetTracker
  <2>2. handle' = [handle EXCEPT ![th] = None] /\ UNCHANGED <<tree, consumption, missed, accounts>>
        /\ MayLeave(th)
    BY <1>1 DEF ResetTracker
  <2>3. \A u \in Thread \ {th} : walk'[u] = walk[u] /\ handle'[u] = handle[u]
    BY <2>1, <2>2 DEF RegInv, RegType
  <2>4. consumption \in [Node -> Int]
    BY DEF AccInv, AccType
  <2> QED BY <2>2, <2>3, <2>4 DEF Leaves
<1>2. CASE ListTrackers(th)
  BY <1>2, WalksLeave DEF ListTrackers, MayStart
<1>3. ASSUME NEW k \in Node, ListVisits(th, k) PROVE Leaves(th)
  <2>1. \E v : walk' = [walk EXCEPT ![th] = v]
    BY <1>3 DEF ListVisits
  <2> QED BY <1>3, <2>1, WalksLeave DEF ListVisits
<1>4. ASSUME NEW k \in Node, ListLetsGo(th, k) PROVE Leaves(th)
  <2>1. \E v : walk' = [walk EXCEPT ![th] = v]
    BY <1>4, LetGoWalks DEF ListLetsGo
  <2> QED BY <1>4, <2>1, WalksLeave DEF ListLetsGo
<1>5. CASE Destroy(th)
  <2> DEFINE t == walk[th].temp
  <2>1. /\ walk[th].at = "destroy" /\ UNCHANGED <<tree, handle, missed, accounts>>
        /\ \E up : consumption' = [k \in Node |->
            IF \E i \in DOMAIN up : up[i] = k
            THEN consumption[k] - consumption[t] ELSE consumption[k]]
        /\ \E v : walk' = [walk EXCEPT ![th] = v]
    BY <1>5 DEF Destroy
  <2>2. t \in Tracker /\ ~HasRef(t)
    BY <2>1 DEF RegInv, Doing, Life, Ends
  <2> HIDE DEF t
  <2>3. missed \/ consumption[t] = 0
    BY <2>2, LoadsOfTheUnreferred
  <2>4. consumption' \in [Node -> Int] /\ (missed \/ consumption' = consumption)
    <3>1. consumption \in [Node -> Int] /\ consumption[t] \in Int
      BY <2>2 DEF AccInv, AccType, Node
    <3> QED BY <2>1, <2>3, <3>1
  <2>5. \A u \in Thread \ {th} : walk'[u] = walk[u]
    BY <2>1, WalkFacts
  <2> QED BY <2>1, <2>4, <2>5 DEF Leaves
<1>6. CASE Erase(th)
  <2> DEFINE t == walk[th].temp
  <2>1. /\ walk[th].at = "erase" /\ UNCHANGED <<handle, consumption, missed, accounts>>
        /\ tree' = [tree EXCEPT ![t] = Unused]
        /\ \E v : walk' = [walk EXCEPT ![th] = v]
    BY <1>6, LetGoWalks DEF Erase
  <2>2. t \in Tracker
    BY <2>1 DEF RegInv, Doing
  <2> HIDE DEF t
  <2>3. \A u \in Thread \ {th} : walk'[u] = walk[u]
    BY <2>1, WalkFacts
  <2>4. tree'[t] = Unused /\ \A x \in Tracker \ {t} : tree'[x] = tree[x]
    BY <2>1, <2>2 DEF RegInv, RegType
  <2>5. Unused.state = "none" /\ Unused.limit < 0
    BY DEF Unused
  <2>6. consumption \in [Node -> Int]
    BY DEF AccInv, AccType
  <2> QED BY <2>1, <2>3, <2>4, <2>5, <2>6 DEF Leaves
<1> QED BY <1>1, <1>2, <1>3, <1>4, <1>5, <1>6 DEF LifetimeStep

-----------------------------------------------------------------------------
(* Charges.  What a thread has charged on the i-th tracker of its way.     *)

ChargedAt(i, L, o) ==
  \/ o.at = "consume" /\ i < o.pos
  \/ o.at = "release" /\ i >= o.pos
  \/ o.at \in {"try", "gc", "free", "check", "retry"} /\ i > o.pos
  \/ o.at = "undo" /\ i > o.pos /\ i <= o.j
  \/ o.at = "delegate"

PosShare(i, L, n, o) ==
  n + (IF ChargedAt(i, L, o) THEN o.bytes ELSE 0)
    + (IF o.at = "free" /\ i >= o.pos + o.j - 1 THEN o.freed ELSE 0)

LEMMA ShareAt ==
  ASSUME NEW c, NEW n \in Nat, NEW o \in OpRecs, Len(c) \in Nat,
         \A i, j \in 1 .. Len(c) : c[i] = c[j] => i = j,
         o.at # "none" => o.pos \in 1 .. Len(c),
         o.at = "undo" => o.j \in o.pos .. Len(c),
         o.at = "free" => o.j \in 1 .. Len(c) - o.pos + 1
  PROVE  /\ \A i \in 1 .. Len(c) : Share(c[i], c, n, o) = PosShare(i, Len(c), n, o)
         /\ \A k : ~OnChain(k, c) => Share(k, c, n, o) = 0
<1> DEFINE L == Len(c)
<1>1. o.bytes \in Nat /\ o.freed \in Nat /\ o.pos \in Nat /\ o.j \in Nat /\ o.at \in OpSteps
  BY LimitAssumption DEF OpRecs
<1>2. ASSUME NEW i \in 1 .. L PROVE Share(c[i], c, n, o) = PosShare(i, L, n, o)
  <2>1. \A lo, hi \in Int : lo >= 1 /\ hi <= L => (OnTheWay(c[i], c, lo, hi) <=> lo <= i /\ i <= hi)
    BY DEF OnTheWay
  <2> HIDE DEF L
  <2>2. L \in Nat
    BY DEF L
  <2>3. OnTheWay(c[i], c, 1, L)
    BY <2>1, <2>2
  <2>4. IsCharged(c[i], c, o) <=> ChargedAt(i, L, o)
    <3>1. o.at = "consume" => (OnTheWay(c[i], c, 1, o.pos - 1) <=> i < o.pos)
      BY <1>1, <2>1, <2>2 DEF L
    <3>2. o.at = "release" => (OnTheWay(c[i], c, o.pos, L) <=> i >= o.pos)
      BY <1>1, <2>1, <2>2 DEF L
    <3>3. o.at # "none" => (OnTheWay(c[i], c, o.pos + 1, L) <=> i > o.pos)
      BY <1>1, <2>1, <2>2 DEF L
    <3>4. o.at = "undo" => (OnTheWay(c[i], c, o.pos + 1, o.j) <=> i > o.pos /\ i <= o.j)
      BY <1>1, <2>1, <2>2 DEF L
    <3> QED BY <3>1, <3>2, <3>3, <3>4, <2>3 DEF IsCharged, ChargedAt, L
  <2>5. o.at = "free" => (OnTheWay(c[i], c, o.pos + o.j - 1, L) <=> i >= o.pos + o.j - 1)
    BY <1>1, <2>1, <2>2 DEF L
  <2>6. Share(c[i], c, n, o)
          = When(TRUE, n) + When(ChargedAt(i, L, o), o.bytes)
              + When(o.at = "free" /\ i >= o.pos + o.j - 1, o.freed)
    <3>1. (OnTheWay(c[i], c, 1, L) <=> TRUE)
      BY <2>3
    <3>2. OnTheWay(c[i], c, 1, L) \in BOOLEAN /\ IsCharged(c[i], c, o) \in BOOLEAN
          /\ ChargedAt(i, L, o) \in BOOLEAN /\ OnTheWay(c[i], c, o.pos + o.j - 1, L) \in BOOLEAN
      BY DEF OnTheWay, IsCharged, ChargedAt
    <3>3. OnTheWay(c[i], c, 1, L) = TRUE /\ IsCharged(c[i], c, o) = ChargedAt(i, L, o)
      BY <3>1, <3>2, <2>4
    <3>4. (o.at = "free" /\ OnTheWay(c[i], c, o.pos + o.j - 1, L))
            = (o.at = "free" /\ i >= o.pos + o.j - 1)
      BY <2>5
    <3> QED BY <3>3, <3>4 DEF Share, L
  <2> QED BY <2>6, <1>1 DEF When, PosShare
<1>3. ASSUME NEW k, ~OnChain(k, c) PROVE Share(k, c, n, o) = 0
  <2>1. \A lo, hi \in Int : lo >= 1 /\ hi <= L => ~OnTheWay(k, c, lo, hi)
    BY <1>3 DEF OnTheWay, OnChain
  <2> HIDE DEF L
  <2>2. L \in Nat /\ ~OnTheWay(k, c, 1, L)
    BY <2>1 DEF L
  <2>3. ~IsCharged(k, c, o)
    <3>1. o.at = "consume" => ~OnTheWay(k, c, 1, o.pos - 1)
      BY <1>1, <2>1, <2>2 DEF L
    <3>2. o.at = "release" => ~OnTheWay(k, c, o.pos, L)
      BY <1>1, <2>1, <2>2 DEF L
    <3>3. o.at # "none" => ~OnTheWay(k, c, o.pos + 1, L)
      BY <1>1, <2>1, <2>2 DEF L
    <3>4. o.at = "undo" => ~OnTheWay(k, c, o.pos + 1, o.j)
      BY <1>1, <2>1, <2>2 DEF L
    <3> QED BY <3>1, <3>2, <3>3, <3>4, <2>2 DEF IsCharged, L
  <2>4. ~(o.at = "free" /\ OnTheWay(k, c, o.pos + o.j - 1, L))
    BY <1>1, <2>1, <2>2 DEF L
  <2> QED BY <2>2, <2>3, <2>4 DEF Share, When, L
<1> QED BY <1>2, <1>3

LEMMA ChainFacts ==
  ASSUME RegInv, NEW th \in Thread, handle[th] # None
  PROVE  /\ Len(Chain(th)) \in Nat /\ Len(Chain(th)) >= 1 /\ Chain(th)[1] = handle[th]
         /\ \A i \in 1 .. Len(Chain(th)) : Chain(th)[i] \in Node
         /\ \A i, j \in 1 .. Len(Chain(th)) : Chain(th)[i] = Chain(th)[j] => i = j
         /\ \A i \in 1 .. Len(Chain(th)) :
              /\ Len(AllTrackers[Chain(th)[i]]) = Len(Chain(th)) - i + 1
              /\ \A j \in 1 .. Len(Chain(th)) - i + 1 :
                   AllTrackers[Chain(th)[i]][j] = Chain(th)[i + j - 1]
<1>1. handle[th] \in Node
  BY WalkFacts DEF Node
<1> QED BY <1>1, WaysHold DEF Way, Chain

\* The cache of the p-th tracker counts there and above.
LEMMA CacheAt ==
  ASSUME RegInv, AccType, NEW th \in Thread, handle[th] # None, NEW p \in 1 .. Len(Chain(th))
  PROVE  /\ \A i \in 1 .. Len(Chain(th)) :
              OnChain(Chain(th)[i], AllTrackers[Chain(th)[p]]) <=> i >= p
         /\ \A k : OnChain(k, AllTrackers[Chain(th)[p]]) => OnChain(k, Chain(th))
<1> DEFINE c == Chain(th)  L == Len(c)  s == AllTrackers[c[p]]
<1>1. /\ L \in Nat /\ \A i, j \in 1 .. L : c[i] = c[j] => i = j
      /\ Len(s) = L - p + 1
      /\ \A j \in 1 .. L - p + 1 : s[j] = c[p + j - 1]
  BY ChainFacts
<1> HIDE DEF c, L, s
<1>2. p \in 1 .. L
  BY DEF L, c
<1>3. ASSUME NEW i \in 1 .. L PROVE OnChain(c[i], s) <=> i >= p
  <2>1. ASSUME i >= p PROVE OnChain(c[i], s)
    <3>1. i - p + 1 \in 1 .. L - p + 1 /\ p + (i - p + 1) - 1 = i
      BY <2>1, <1>1, <1>2
    <3>2. s[i - p + 1] = c[i]
      BY <3>1, <1>1
    <3> QED BY <3>1, <3>2, <1>1 DEF OnChain
  <2>2. ASSUME OnChain(c[i], s) PROVE i >= p
    <3>1. PICK j \in 1 .. L - p + 1 : s[j] = c[i]
      BY <2>2, <1>1 DEF OnChain
    <3>2. s[j] = c[p + j - 1] /\ p + j - 1 \in 1 .. L
      BY <3>1, <1>1, <1>2
    <3>3. p + j - 1 = i
      BY <3>1, <3>2, <1>1
    <3> QED BY <3>1, <3>3, <1>1, <1>2
  <2> QED BY <2>1, <2>2
<1>4. ASSUME NEW k, OnChain(k, s) PROVE OnChain(k, c)
  <2>1. PICK j \in 1 .. L - p + 1 : s[j] = k
    BY <1>4, <1>1 DEF OnChain
  <2>2. c[p + j - 1] = k /\ p + j - 1 \in 1 .. L
    BY <2>1, <1>1, <1>2
  <2> QED BY <2>2 DEF OnChain, L
<1> QED BY <1>3, <1>4 DEF c, L, s

\* A step of a charge: it charges d on the i0-th tracker of its way and leaves x
\* bytes in the cache of the p-th, in balance with what the thread has there.
Balances(th, i0, d, p, x) ==
  /\ i0 \in 1 .. Len(Chain(th)) /\ d \in Int
  /\ p \in 1 .. Len(Chain(th)) /\ x \in 0 .. MaxHeld
  /\ cached' = [cached EXCEPT ![Chain(th)[p]] = x]
  /\ x > cached[Chain(th)[p]] => p = 1
  /\ \A k \in Node :
       consumption'[k] = consumption[k] + (IF k = Chain(th)[i0] THEN d ELSE 0)
  /\ \A i \in 1 .. Len(Chain(th)) :
       PosShare(i, Len(Chain(th)), held'[th], op'[th]) + (IF i >= p THEN x ELSE 0)
         = PosShare(i, Len(Chain(th)), held[th], op[th])
             + (IF i >= p THEN cached[Chain(th)[p]] ELSE 0) + (IF i = i0 THEN d ELSE 0)
  /\ d > 0 /\ ~forced' => \/ Limit(Chain(th)[i0]) < 0
                          \/ consumption[Chain(th)[i0]] + d <= Limit(Chain(th)[i0])

LEMMA StepHolds ==
  ASSUME RegInv, AccInv, NEW th \in Thread, handle[th] # None, walk[th].at = "idle",
         UNCHANGED registry, AccType', Sound(th)', forced => forced',
         \A u \in Thread \ {th} : held'[u] = held[u] /\ op'[u] = op[u],
         NEW i0, NEW d, NEW p, NEW x, Balances(th, i0, d, p, x)
  PROVE  AccInv'
<1> SUFFICES
      ASSUME i0 \in 1 .. Len(Chain(th)), d \in Int,
             p \in 1 .. Len(Chain(th)), x \in 0 .. MaxHeld,
             cached' = [cached EXCEPT ![Chain(th)[p]] = x],
             x > cached[Chain(th)[p]] => p = 1,
             \A k \in Node :
               consumption'[k] = consumption[k] + (IF k = Chain(th)[i0] THEN d ELSE 0),
             \A i \in 1 .. Len(Chain(th)) :
               PosShare(i, Len(Chain(th)), held'[th], op'[th]) + (IF i >= p THEN x ELSE 0)
                 = PosShare(i, Len(Chain(th)), held[th], op[th])
                     + (IF i >= p THEN cached[Chain(th)[p]] ELSE 0) + (IF i = i0 THEN d ELSE 0),
             d > 0 /\ ~forced' => \/ Limit(Chain(th)[i0]) < 0
                                 \/ consumption[Chain(th)[i0]] + d <= Limit(Chain(th)[i0])
      PROVE  AccInv'
  BY DEF Balances
<1> DEFINE c == Chain(th)  L == Len(Chain(th))  m == Chain(th)[p]
<1>1. /\ tree' = tree /\ handle' = handle /\ walk' = walk /\ missed' = missed
      /\ listed' = listed /\ findLock' = findLock
  BY DEF registry
<1>2. AllTrackers' = AllTrackers
  BY <1>1 DEF AllTrackers
<1>3. \A u \in Thread : Chain(u)' = Chain(u)
  BY <1>1, <1>2 DEF Chain
<1>4. RegInv'
  BY <1>1, RegStays
<1>5. AccType /\ AccType' /\ Sound(th) /\ Sound(th)'
  BY DEF AccInv
<1>6. /\ L \in Nat /\ L >= 1 /\ c[1] = handle[th]
      /\ \A i \in 1 .. L : c[i] \in Node
      /\ \A i, j \in 1 .. L : c[i] = c[j] => i = j
  BY ChainFacts
<1>7. m \in Node /\ cached[m] \in 0 .. MaxHeld /\ cached'[m] = x
      /\ \A t \in Node \ {m} : cached'[t] = cached[t]
  BY <1>5, <1>6 DEF AccType
<1>8. /\ \A i \in 1 .. L : OnChain(c[i], AllTrackers[m]) <=> i >= p
      /\ \A k : OnChain(k, AllTrackers[m]) => OnChain(k, c)
  BY <1>5, CacheAt
<1>9. /\ \A i \in 1 .. L : Share(c[i], c, held[th], op[th]) = PosShare(i, L, held[th], op[th])
      /\ \A k : ~OnChain(k, c) => Share(k, c, held[th], op[th]) = 0
  <2>1. held[th] \in Nat /\ op[th] \in OpRecs
    BY <1>5, LimitAssumption DEF AccType
  <2> HIDE DEF Chain
  <2>2. /\ op[th].at # "none" => op[th].pos \in 1 .. Len(c)
        /\ op[th].at = "undo" => op[th].j \in op[th].pos .. Len(c)
        /\ op[th].at = "free" => op[th].j \in 1 .. Len(c) - op[th].pos + 1
    BY <1>5 DEF Sound
  <2>3. L = Len(c) /\ L \in Nat /\ \A i, j \in 1 .. Len(c) : c[i] = c[j] => i = j
    BY <1>6
  <2> HIDE DEF c, L
  <2>4. Len(c) \in Nat
    BY <2>3
  <2>5. /\ \A i \in 1 .. Len(c) :
             Share(c[i], c, held[th], op[th]) = PosShare(i, Len(c), held[th], op[th])
        /\ \A k : ~OnChain(k, c) => Share(k, c, held[th], op[th]) = 0
    BY <2>1, <2>2, <2>3, <2>4, ShareAt
  <2> QED BY <2>3, <2>5
<1>10. /\ \A i \in 1 .. L : Share(c[i], c, held'[th], op'[th]) = PosShare(i, L, held'[th], op'[th])
       /\ \A k : ~OnChain(k, c) => Share(k, c, held'[th], op'[th]) = 0
  <2>1. held'[th] \in Nat /\ op'[th] \in OpRecs
    BY <1>5, LimitAssumption DEF AccType
  <2>2. Chain(th)' = Chain(th)
    BY <1>3
  <2> HIDE DEF Chain
  <2>3. /\ op'[th].at # "none" => op'[th].pos \in 1 .. Len(c)
        /\ op'[th].at = "undo" => op'[th].j \in op'[th].pos .. Len(c)
        /\ op'[th].at = "free" => op'[th].j \in 1 .. Len(c) - op'[th].pos + 1
    BY <1>5, <2>2 DEF Sound
  <2>4. L = Len(c) /\ L \in Nat /\ \A i, j \in 1 .. Len(c) : c[i] = c[j] => i = j
    BY <1>6
  <2> HIDE DEF c, L
  <2>5. Len(c) \in Nat
    BY <2>4
  <2>6. /\ \A i \in 1 .. Len(c) :
             Share(c[i], c, held'[th], op'[th]) = PosShare(i, Len(c), held'[th], op'[th])
        /\ \A k : ~OnChain(k, c) => Share(k, c, held'[th], op'[th]) = 0
    BY <2>1, <2>3, <2>4, <2>5, ShareAt
  <2> QED BY <2>4, <2>6
<1> HIDE DEF c, L, m
<1>11. ASSUME NEW k \in Node
       PROVE  ThreadShare(th, k)' + CacheShare(m, k)'
                = ThreadShare(th, k) + CacheShare(m, k) + (IF k = c[i0] THEN d ELSE 0)
  <2>1. ThreadShare(th, k) = Share(k, c, held[th], op[th])
    BY DEF ThreadShare, c
  <2>2. ThreadShare(th, k)' = Share(k, c, held'[th], op'[th])
    BY <1>1, <1>3 DEF ThreadShare, c
  <2>3. CacheShare(m, k) = IF OnChain(k, AllTrackers[m]) THEN cached[m] ELSE 0
    BY <1>7, LimitAssumption DEF CacheShare, When
  <2>4. CacheShare(m, k)' = IF OnChain(k, AllTrackers[m]) THEN x ELSE 0
    <3>1. CacheShare(m, k)' = When(OnChain(k, AllTrackers[m]), x)
      BY <1>2, <1>3, <1>7 DEF CacheShare, m
    <3> QED BY <3>1, LimitAssumption DEF When
  <2>5. CASE OnChain(k, c)
    <3>1. PICK i \in 1 .. L : c[i] = k
      BY <2>5 DEF OnChain, L, c
    <3>2. OnChain(k, AllTrackers[m]) <=> i >= p
      BY <3>1, <1>8
    <3>3. k = c[i0] <=> i = i0
      BY <3>1, <1>6 DEF L, c
    <3>4. PosShare(i, L, held'[th], op'[th]) + (IF i >= p THEN x ELSE 0)
             = PosShare(i, L, held[th], op[th])
                 + (IF i >= p THEN cached[m] ELSE 0) + (IF i = i0 THEN d ELSE 0)
      BY <3>1 DEF L, m, c
    <3> QED BY <2>1, <2>2, <2>3, <2>4, <3>1, <3>2, <3>3, <3>4, <1>9, <1>10
  <2>6. CASE ~OnChain(k, c)
    <3>1. ~OnChain(k, AllTrackers[m])
      BY <2>6, <1>8
    <3>2. k # c[i0]
      BY <2>6 DEF OnChain, c
    <3> QED BY <2>1, <2>2, <2>3, <2>4, <2>6, <3>1, <3>2, <1>9, <1>10
  <2> QED BY <2>5, <2>6
<1>14. ASSUME NEW u \in Thread \ {th} PROVE Sound(u)'
  <2>1. Sound(u) /\ Chain(u)' = Chain(u) /\ held'[u] = held[u] /\ op'[u] = op[u]
    BY <1>3 DEF AccInv
  <2> HIDE DEF Chain
  <2> QED BY <2>1, <1>1 DEF Sound, IsWhole
<1>17. \A u \in Thread : Sound(u)'
  BY <1>5, <1>14
<1>18. CASE missed
  BY <1>1, <1>5, <1>17, <1>18 DEF AccInv
<1> SUFFICES ASSUME ~missed PROVE AccInv'
  BY <1>18
<1>19. CachesAreWatched /\ Accounted /\ LimitHolds
  BY DEF AccInv
<1>12. ASSUME NEW k \in Node PROVE consumption'[k] = Load(k)'
  <2>1. /\ \A u \in Thread : Shares(k)[u] \in Int /\ Shares(k)[u] = ThreadShare(u, k)
        /\ \A t \in Node : Caches(k)[t] \in Int /\ Caches(k)[t] = CacheShare(t, k)
    BY <1>5, SharesAreNat DEF Shares, Caches, SharesNat
  <2>2. /\ \A u \in Thread : Shares(k)'[u] \in Int /\ Shares(k)'[u] = ThreadShare(u, k)'
        /\ \A t \in Node : Caches(k)'[t] \in Int /\ Caches(k)'[t] = CacheShare(t, k)'
    <3>1. SharesNat'
      BY <1>4, <1>5, SharesStayNat
    <3> QED BY <3>1 DEF Shares, Caches, SharesNat
  <2>3. \A u \in Thread \ {th} : Shares(k)'[u] = Shares(k)[u]
    <3> SUFFICES ASSUME NEW u \in Thread \ {th} PROVE ThreadShare(u, k)' = ThreadShare(u, k)
      BY <2>1, <2>2
    <3>1. Chain(u)' = Chain(u) /\ held'[u] = held[u] /\ op'[u] = op[u]
      BY <1>3
    <3> HIDE DEF Chain
    <3> QED BY <3>1, <1>1 DEF ThreadShare
  <2>4. \A t \in Node \ {m} : Caches(k)'[t] = Caches(k)[t]
    <3> SUFFICES ASSUME NEW t \in Node \ {m} PROVE CacheShare(t, k)' = CacheShare(t, k)
      BY <2>1, <2>2
    <3> QED BY <1>2, <1>7 DEF CacheShare
  <2>5. /\ Total(Shares(k)', Thread) = Total(Shares(k), Thread) + Shares(k)'[th] - Shares(k)[th]
        /\ Total(Shares(k), Thread) \in Int
    <3>1. IsFiniteSet(Thread) /\ Thread \in SUBSET Thread
      BY NodesAreFinite
    <3>2. Total(Shares(k), Thread) \in Int
      BY <3>1, <2>1, TotalInt
    <3> DEFINE f == Shares(k)  g == Shares(k)'
    <3>3. /\ \A y \in Thread : f[y] \in Int /\ g[y] \in Int
          /\ \A y \in Thread \ {th} : g[y] = f[y]
      BY <2>1, <2>2, <2>3
    <3> HIDE DEF f, g
    <3>4. Total(g, Thread) = Total(f, Thread) + g[th] - f[th]
      BY <3>1, <3>3, TotalChange
    <3> QED BY <3>2, <3>4 DEF f, g
  <2>6. /\ Total(Caches(k)', Node) = Total(Caches(k), Node) + Caches(k)'[m] - Caches(k)[m]
        /\ Total(Caches(k), Node) \in Int
    <3>1. IsFiniteSet(Node) /\ Node \in SUBSET Node
      BY NodesAreFinite
    <3>2. Total(Caches(k), Node) \in Int
      BY <3>1, <2>1, TotalInt
    <3> DEFINE f == Caches(k)  g == Caches(k)'
    <3>3. /\ \A y \in Node : f[y] \in Int /\ g[y] \in Int
          /\ \A y \in Node \ {m} : g[y] = f[y]
      BY <2>1, <2>2, <2>4
    <3> HIDE DEF f, g
    <3>4. Total(g, Node) = Total(f, Node) + g[m] - f[m]
      BY <3>1, <3>3, <1>7, TotalChange
    <3> QED BY <3>2, <3>4 DEF f, g
  <2>7. consumption[k] = Total(Shares(k), Thread) + Total(Caches(k), Node)
    BY <1>19 DEF Accounted, Load
  <2>8. Load(k)' = Total(Shares(k)', Thread) + Total(Caches(k)', Node)
    BY DEF Load
  <2>9. Shares(k)'[th] + Caches(k)'[m]
          = Shares(k)[th] + Caches(k)[m] + (IF k = c[i0] THEN d ELSE 0)
    <3>1. Caches(k)'[m] = CacheShare(m, k)'
      BY <2>2, <1>7, <1>3 DEF m
    <3> QED BY <2>1, <2>2, <3>1, <1>7, <1>11
  <2>10. consumption'[k] = consumption[k] + (IF k = c[i0] THEN d ELSE 0)
    BY DEF c
  <2>11. /\ Shares(k)'[th] \in Int /\ Shares(k)[th] \in Int /\ Caches(k)'[m] \in Int
         /\ Caches(k)[m] \in Int
    BY <2>1, <2>2, <1>7
  <2> DEFINE e == IF k = c[i0] THEN d ELSE 0
             s == Total(Shares(k), Thread)  t == Total(Caches(k), Node)
             a == Shares(k)[th]  b == Shares(k)'[th]  f == Caches(k)[m]  g == Caches(k)'[m]
  <2>12. e \in Int /\ s \in Int /\ t \in Int /\ a \in Int /\ b \in Int /\ f \in Int /\ g \in Int
    BY <2>5, <2>6, <2>11
  <2>13. b + g = a + f + e /\ consumption[k] = s + t /\ consumption'[k] = consumption[k] + e
    BY <2>7, <2>9, <2>10
  <2>14. Load(k)' = (s + b - a) + (t + g - f)
    BY <2>5, <2>6, <2>8
  <2> HIDE DEF e, s, t, a, b, f, g
  <2> QED BY <2>12, <2>13, <2>14
<1>13. Accounted'
  BY <1>12 DEF Accounted
<1>15. CachesAreWatched'
  <2> SUFFICES ASSUME NEW k \in Node, cached'[k] > 0
               PROVE  \E u \in Thread : handle[u] = k /\ walk[u].at = "idle"
    BY <1>1 DEF CachesAreWatched
  <2>1. CASE cached[k] > 0
    BY <2>1, <1>19 DEF CachesAreWatched
  <2>2. CASE ~(cached[k] > 0)
    <3>1. k = m /\ cached[m] = 0 /\ x > 0
      BY <2>2, <1>5, <1>7, LimitAssumption DEF AccType
    <3>2. p = 1
      BY <3>1 DEF m
    <3> QED BY <3>1, <3>2, <1>6 DEF m, c
  <2> QED BY <2>1, <2>2
<1>16. LimitHolds'
  <2> SUFFICES ASSUME ~forced', NEW k \in Node PROVE Limit(k) < 0 \/ consumption'[k] <= Limit(k)
    BY <1>1 DEF LimitHolds, Limit
  <2>1. Limit(k) < 0 \/ consumption[k] <= Limit(k)
    BY <1>19 DEF LimitHolds
  <2>2. consumption[k] \in Int /\ Limit(k) \in Int
    <3>1. k # Root => tree[k].limit \in Int
      BY DEF RegInv, RegType, Node
    <3> QED BY <3>1, <1>5, LimitAssumption DEF AccType, Limit
  <2>3. CASE k = c[i0] /\ d > 0
    BY <2>3 DEF c
  <2>4. CASE ~(k = c[i0] /\ d > 0)
    <3>1. consumption'[k] <= consumption[k]
      BY <2>2, <2>4 DEF c
    <3>2. consumption'[k] \in Int
      BY <1>5 DEF AccType
    <3> QED BY <2>1, <2>2, <3>1, <3>2
  <2> QED BY <2>3, <2>4
<1> QED BY <1>5, <1>13, <1>15, <1>16, <1>17 DEF AccInv

\* Soundness of a charge q beside n bytes held, on a way of L trackers.
SoundOp(L, n, q) ==
  /\ q.at = "none" => q = NoOp
  /\ q.at # "none" => q.pos \in 1 .. L
  /\ n + q.minimal <= MaxHeld
  /\ q.at \notin {"none", "release"} => n + q.bytes <= MaxHeld
  /\ q.mode = "check" => q.bytes = 0 /\ q.minimal = 0
  /\ q.at = "undo" => q.j \in q.pos .. L
  /\ q.at = "free" => q.j \in 1 .. L - q.pos + 1

\* A thread holds n bytes after the step, and q is its charge.
Becomes(th, n, q) ==
  /\ n \in 0 .. MaxHeld /\ held' = [held EXCEPT ![th] = n]
  /\ q \in OpRecs /\ op' = [op EXCEPT ![th] = q]
  /\ SoundOp(Len(Chain(th)), n, q)
  /\ q.at = "consume" => forced'
  /\ forced' \in BOOLEAN /\ (forced => forced')

\* What the thread has on the i-th tracker of its way, before the step.
Had(th, i) == PosShare(i, Len(Chain(th)), held[th], op[th])

\* Whether the limit of tracker k leaves room for d more bytes, if it must.
Room(k, d) == d > 0 /\ ~forced' => Limit(k) < 0 \/ consumption[k] + d <= Limit(k)

Pays(th, n, q, i0, d, p, x) ==
  /\ Becomes(th, n, q)
  /\ i0 \in 1 .. Len(Chain(th)) /\ d \in Int
  /\ p \in 1 .. Len(Chain(th)) /\ x \in 0 .. MaxHeld
  /\ cached' = [cached EXCEPT ![Chain(th)[p]] = x]
  /\ x > cached[Chain(th)[p]] => p = 1
  /\ gcLock' \in [Node -> Thread \cup {None}]
  /\ consumption' = [consumption EXCEPT ![Chain(th)[i0]] = @ + d]
  /\ \A i \in 1 .. Len(Chain(th)) :
       PosShare(i, Len(Chain(th)), n, q) + (IF i >= p THEN x ELSE 0)
         = Had(th, i) + (IF i >= p THEN cached[Chain(th)[p]] ELSE 0) + (IF i = i0 THEN d ELSE 0)
  /\ Room(Chain(th)[i0], d)

\* A step that leaves the caches alone.
Charges(th, n, q, i0, d) ==
  /\ Becomes(th, n, q)
  /\ i0 \in 1 .. Len(Chain(th)) /\ d \in Int
  /\ UNCHANGED <<cached, gcLock>>
  /\ consumption' = [consumption EXCEPT ![Chain(th)[i0]] = @ + d]
  /\ \A i \in 1 .. Len(Chain(th)) :
       PosShare(i, Len(Chain(th)), n, q) = Had(th, i) + (IF i = i0 THEN d ELSE 0)
  /\ Room(Chain(th)[i0], d)

\* A step that changes no account.
Stands(th, n, q) ==
  /\ Becomes(th, n, q)
  /\ UNCHANGED <<consumption, cached>> /\ gcLock' \in [Node -> Thread \cup {None}]
  /\ \A i \in 1 .. Len(Chain(th)) : PosShare(i, Len(Chain(th)), n, q) = Had(th, i)

\* The thread of a step has a tracker that is initialized, and no errand.
Charging(th) ==
  handle[th] # None /\ walk[th].at = "idle" /\ IsWhole(th) /\ UNCHANGED registry

LEMMA PaysHold ==
  ASSUME RegInv, AccInv, NEW th \in Thread, Charging(th),
         NEW n, NEW q, NEW i0, NEW d, NEW p, NEW x, Pays(th, n, q, i0, d, p, x)
  PROVE  AccInv'
<1> DEFINE L == Len(Chain(th))
<1>1. AccType /\ handle[th] # None /\ walk[th].at = "idle" /\ UNCHANGED registry
      /\ IsWhole(th)
  BY DEF AccInv, Charging
<1>2. \A i \in 1 .. L : Chain(th)[i] \in Node
  BY <1>1, ChainFacts
<1>3. Becomes(th, n, q) /\ i0 \in 1 .. L /\ p \in 1 .. L /\ d \in Int /\ x \in 0 .. MaxHeld
  BY DEF Pays
<1>4. /\ held'[th] = n /\ op'[th] = q
      /\ \A u \in Thread \ {th} : held'[u] = held[u] /\ op'[u] = op[u]
  BY <1>1, <1>3 DEF AccType, Becomes
<1>5. AccType'
  <2>1. consumption' \in [Node -> Int] /\ cached' \in [Node -> 0 .. MaxHeld]
    BY <1>1, <1>2, <1>3 DEF AccType, Pays
  <2>2. held' \in [Thread -> 0 .. MaxHeld] /\ op' \in [Thread -> OpRecs] /\ forced' \in BOOLEAN
        /\ missed' \in BOOLEAN
    BY <1>1, <1>3 DEF AccType, Becomes, registry
  <2>3. gcLock' \in [Node -> Thread \cup {None}]
    BY DEF Pays
  <2> QED BY <2>1, <2>2, <2>3 DEF AccType
<1>6. \A k \in Node : consumption'[k] = consumption[k] + (IF k = Chain(th)[i0] THEN d ELSE 0)
  <2>1. consumption \in [Node -> Int] /\ Chain(th)[i0] \in Node
    BY <1>1, <1>2, <1>3 DEF AccType
  <2>2. consumption' = [consumption EXCEPT ![Chain(th)[i0]] = @ + d]
    BY DEF Pays
  <2> HIDE DEF Chain
  <2> QED BY <2>1, <2>2, <1>3
<1>7. Sound(th)'
  <2>1. Chain(th)' = Chain(th) /\ handle'[th] = handle[th] /\ walk'[th] = walk[th]
        /\ IsWhole(th)'
    BY <1>1 DEF Chain, AllTrackers, registry, IsWhole
  <2>2. SoundOp(L, n, q) /\ (q.at = "consume" => forced')
    BY <1>3 DEF Becomes
  <2> QED BY <2>1, <2>2, <1>1, <1>4 DEF Sound, SoundOp
<1>8. Balances(th, i0, d, p, x)
  BY <1>3, <1>4, <1>6 DEF Balances, Pays, Had, Room
<1>9. forced => forced'
  BY <1>3 DEF Becomes
<1> HIDE DEF L
<1> QED BY <1>1, <1>4, <1>5, <1>7, <1>8, <1>9, StepHolds

LEMMA PosShareInt ==
  ASSUME NEW i \in Int, NEW L \in Int, NEW n \in 0 .. MaxHeld, NEW o \in OpRecs
  PROVE  PosShare(i, L, n, o) \in Int
<1>1. n \in Int /\ o.bytes \in Int /\ o.freed \in Int
  BY LimitAssumption DEF OpRecs
<1> QED BY <1>1 DEF PosShare

LEMMA HadInt ==
  ASSUME RegInv, AccType, NEW th \in Thread, handle[th] # None
  PROVE  \A i \in 1 .. Len(Chain(th)) : Had(th, i) \in Int
<1>1. held[th] \in 0 .. MaxHeld /\ op[th] \in OpRecs /\ Len(Chain(th)) \in Nat
  BY ChainFacts DEF AccType
<1> SUFFICES ASSUME NEW i \in 1 .. Len(Chain(th)) PROVE Had(th, i) \in Int
  OBVIOUS
<1>2. i \in Int /\ Len(Chain(th)) \in Int
  BY <1>1
<1> QED BY <1>1, <1>2, PosShareInt DEF Had

LEMMA ChargesHold ==
  ASSUME RegInv, AccInv, NEW th \in Thread, Charging(th),
         NEW n, NEW q, NEW i0, NEW d, Charges(th, n, q, i0, d)
  PROVE  AccInv'
<1> DEFINE c == Chain(th)  x == cached[c[1]]
<1>1. AccType /\ handle[th] # None
  BY DEF AccInv, Charging
<1>2. 1 \in 1 .. Len(c) /\ c[1] \in Node
  BY <1>1, ChainFacts
<1>3. x \in 0 .. MaxHeld /\ x \in Int /\ cached' = [cached EXCEPT ![c[1]] = x]
      /\ gcLock' \in [Node -> Thread \cup {None}]
  BY <1>1, <1>2, LimitAssumption DEF AccType, Charges
<1>4. \A i \in 1 .. Len(c) : Had(th, i) \in Int
  BY <1>1, HadInt
<1>5. d \in Int /\ \A i \in 1 .. Len(c) :
        PosShare(i, Len(c), n, q) = Had(th, i) + (IF i = i0 THEN d ELSE 0)
  BY DEF Charges
<1> HIDE DEF c
<1>6. \A i \in 1 .. Len(c) :
        PosShare(i, Len(c), n, q) + (IF i >= 1 THEN x ELSE 0)
          = Had(th, i) + (IF i >= 1 THEN cached[c[1]] ELSE 0) + (IF i = i0 THEN d ELSE 0)
  <2> HIDE DEF x
  <2>1. x = cached[c[1]] /\ x \in Int
    BY <1>3 DEF x
  <2> QED BY <2>1, <1>4, <1>5
<1>7. Becomes(th, n, q) /\ i0 \in 1 .. Len(c) /\ Room(c[i0], d)
      /\ consumption' = [consumption EXCEPT ![c[i0]] = @ + d]
  BY DEF Charges, c
<1>8. ~(x > cached[c[1]])
  BY <1>3
<1>9. Pays(th, n, q, i0, d, 1, x)
  BY <1>2, <1>3, <1>5, <1>6, <1>7, <1>8 DEF Pays, c
<1> QED BY <1>9, PaysHold

LEMMA StandsHold ==
  ASSUME RegInv, AccInv, NEW th \in Thread, Charging(th), NEW n, NEW q, Stands(th, n, q)
  PROVE  AccInv'
<1> DEFINE c == Chain(th)  x == cached[c[1]]
<1>1. AccType /\ handle[th] # None
  BY DEF AccInv, Charging
<1>2. 1 \in 1 .. Len(c) /\ c[1] \in Node
  BY <1>1, ChainFacts
<1>3. x \in 0 .. MaxHeld /\ x \in Int /\ cached' = [cached EXCEPT ![c[1]] = x]
      /\ consumption' = [consumption EXCEPT ![c[1]] = @ + 0]
  BY <1>1, <1>2, LimitAssumption DEF AccType, Stands
<1>4. \A i \in 1 .. Len(c) : Had(th, i) \in Int
  BY <1>1, HadInt
<1>5. \A i \in 1 .. Len(c) : PosShare(i, Len(c), n, q) = Had(th, i)
  BY DEF Stands
<1> HIDE DEF c
<1>6. \A i \in 1 .. Len(c) :
        PosShare(i, Len(c), n, q) + (IF i >= 1 THEN x ELSE 0)
          = Had(th, i) + (IF i >= 1 THEN cached[c[1]] ELSE 0) + (IF i = 1 THEN 0 ELSE 0)
  <2> HIDE DEF x
  <2>1. x = cached[c[1]] /\ x \in Int
    BY <1>3 DEF x
  <2> QED BY <2>1, <1>4, <1>5
<1>7. Becomes(th, n, q) /\ Room(c[1], 0) /\ gcLock' \in [Node -> Thread \cup {None}]
  BY DEF Stands, Room
<1>8. ~(x > cached[c[1]])
  BY <1>3
<1>9. Pays(th, n, q, 1, 0, 1, x)
  BY <1>2, <1>3, <1>6, <1>7, <1>8 DEF Pays, c
<1> QED BY <1>9, PaysHold

-----------------------------------------------------------------------------
(* The steps of a charge.                                                  *)

LEMMA OpFacts ==
  ASSUME RegInv, AccInv, NEW th \in Thread
  PROVE  /\ op[th] \in OpRecs /\ held[th] \in 0 .. MaxHeld /\ MaxHeld \in Nat
         /\ op[th].at \in OpSteps /\ op[th].mode \in Modes
         /\ op[th].bytes \in 0 .. MaxHeld /\ op[th].minimal \in 0 .. MaxHeld
         /\ op[th].freed \in 0 .. MaxHeld
         /\ op[th].pos \in Nat /\ op[th].j \in Nat /\ op[th].goal \in Nat
         /\ forced \in BOOLEAN
         /\ SoundOp(Len(Chain(th)), held[th], op[th])
         /\ op[th].at # "none" \/ held[th] > 0 => handle[th] # None /\ walk[th].at = "idle"
         /\ op[th].at # "none" => IsWhole(th)
         /\ handle[th] # None => Len(Chain(th)) \in Nat /\ Len(Chain(th)) >= 1
<1>1. op[th] \in OpRecs /\ held[th] \in 0 .. MaxHeld /\ forced \in BOOLEAN /\ Sound(th)
  BY DEF AccInv, AccType
<1>2. handle[th] # None => Len(Chain(th)) \in Nat /\ Len(Chain(th)) >= 1
  BY ChainFacts
<1>3. SoundOp(Len(Chain(th)), held[th], op[th])
  BY <1>1 DEF Sound, SoundOp
<1> HIDE DEF Chain
<1> QED BY <1>1, <1>2, <1>3, LimitAssumption DEF OpRecs, Sound

LEMMA NoOpFacts ==
  /\ NoOp \in OpRecs /\ NoOp.at = "none" /\ NoOp.mode = "none" /\ NoOp.bytes = 0
  /\ NoOp.minimal = 0 /\ NoOp.pos = 0 /\ NoOp.j = 0 /\ NoOp.goal = 0 /\ NoOp.freed = 0
  /\ \A L : \A n \in 0 .. MaxHeld : SoundOp(L, n, NoOp)
  /\ \A i, L : \A n \in 0 .. MaxHeld : PosShare(i, L, n, NoOp) = n
<1>1. NoOp \in OpRecs
  BY LimitAssumption DEF OpRecs, NoOp, OpSteps, Modes
<1>2. \A L : \A n \in 0 .. MaxHeld : SoundOp(L, n, NoOp)
  BY LimitAssumption DEF SoundOp, NoOp
<1>3. \A i, L : \A n \in 0 .. MaxHeld : PosShare(i, L, n, NoOp) = n
  BY LimitAssumption DEF PosShare, ChargedAt, NoOp
<1> QED BY <1>1, <1>2, <1>3 DEF NoOp

\* A charge that starts, and one that takes a step.
Started(a, n) == [NoOp EXCEPT !.at = a, !.bytes = n, !.pos = 1]

LEMMA StartedFacts ==
  ASSUME NEW a \in OpSteps, NEW n \in 0 .. MaxHeld
  PROVE  /\ Started(a, n) \in OpRecs /\ Started(a, n).at = a /\ Started(a, n).pos = 1
         /\ Started(a, n).bytes = n /\ Started(a, n).minimal = 0 /\ Started(a, n).mode = "none"
BY NoOpFacts DEF OpRecs, Started

LEMMA Climbed ==
  ASSUME NEW o \in OpRecs, NEW q, q = [o EXCEPT !.pos = @ + 1]
  PROVE  /\ q \in OpRecs /\ q.at = o.at /\ q.pos = o.pos + 1 /\ q.bytes = o.bytes
         /\ q.minimal = o.minimal /\ q.mode = o.mode
BY DEF OpRecs

\* What a thread holds may be named even where it does not change.
LEMMA Rests ==
  ASSUME AccInv, NEW th \in Thread
  PROVE  /\ held' = held => held' = [held EXCEPT ![th] = held[th]]
         /\ op' = op => op' = [op EXCEPT ![th] = op[th]]
BY DEF AccInv, AccType

LEMMA ConsumeClimbsKeeps ==
  ASSUME RegInv, AccInv, NEW th \in Thread, ConsumeClimbs(th)
  PROVE  AccInv'
<1> DEFINE o == op[th]  L == Len(Chain(th))
<1>1. o.at = "consume" /\ UNCHANGED <<registry, cached, gcLock, forced>>
      /\ consumption' = [consumption EXCEPT ![Chain(th)[o.pos]] = @ + o.bytes]
  BY DEF ConsumeClimbs, Charge, At
<1>2. Charging(th) /\ L \in Nat /\ o.pos \in 1 .. L /\ o.bytes \in 0 .. MaxHeld
  BY <1>1, OpFacts DEF Charging, SoundOp
<1>3. forced
  BY <1>1 DEF AccInv, Sound
<1>4. Room(Chain(th)[o.pos], o.bytes)
  BY <1>1, <1>3 DEF Room
<1>5. CASE o.pos < L
  <2> DEFINE q == [o EXCEPT !.pos = @ + 1]
  <2>1. op' = [op EXCEPT ![th] = q] /\ held' = held
    BY <1>5 DEF ConsumeClimbs
  <2>2. q \in OpRecs /\ q.at = "consume" /\ q.pos = o.pos + 1 /\ q.bytes = o.bytes
        /\ q.minimal = o.minimal /\ q.mode = o.mode
    BY <1>1, OpFacts, Climbed
  <2> HIDE DEF q
  <2>3. SoundOp(L, held[th], q)
    BY <1>1, <1>2, <1>5, <2>2, OpFacts DEF SoundOp
  <2>4. Becomes(th, held[th], q)
    BY <1>1, <1>3, <2>1, <2>2, <2>3, OpFacts, Rests DEF Becomes
  <2>5. \A i \in 1 .. L :
          PosShare(i, L, held[th], q) = Had(th, i) + (IF i = o.pos THEN o.bytes ELSE 0)
    <3> HIDE DEF L
    <3> QED BY <1>1, <1>2, <2>2, OpFacts DEF PosShare, ChargedAt, Had, L
  <2>6. Charges(th, held[th], q, o.pos, o.bytes)
    BY <1>1, <1>2, <1>4, <2>4, <2>5 DEF Charges
  <2> QED BY <1>2, <2>6, ChargesHold
<1>6. CASE o.pos >= L /\ o.mode = "unenforced"
  <2> DEFINE q == [o EXCEPT !.at = "delegate"]
  <2>1. op' = [op EXCEPT ![th] = q] /\ held' = held
    BY <1>2, <1>6 DEF ConsumeClimbs, Goes
  <2>2. q \in OpRecs /\ q.at = "delegate" /\ q.pos = o.pos /\ q.bytes = o.bytes
        /\ q.minimal = o.minimal /\ q.mode = o.mode
    <3>1. o \in OpRecs
      BY OpFacts
    <3> HIDE DEF o
    <3> QED BY <3>1 DEF OpRecs, OpSteps
  <2> HIDE DEF q
  <2>3. SoundOp(L, held[th], q)
    BY <1>1, <1>2, <2>2, OpFacts DEF SoundOp
  <2>4. Becomes(th, held[th], q)
    BY <1>1, <1>3, <2>1, <2>2, <2>3, OpFacts, Rests DEF Becomes
  <2>5. \A i \in 1 .. L :
          PosShare(i, L, held[th], q) = Had(th, i) + (IF i = o.pos THEN o.bytes ELSE 0)
    <3>1. held[th] \in Int /\ o.bytes \in Int /\ o.pos \in Int /\ o.pos = L
      BY <1>2, <1>6, OpFacts
    <3>2. \A i \in 1 .. L : Had(th, i) = held[th] + (IF i < o.pos THEN o.bytes ELSE 0)
      <4> HIDE DEF L
      <4> QED BY <1>1, <3>1 DEF PosShare, ChargedAt, Had, L
    <3> HIDE DEF L, o
    <3>3. \A i \in 1 .. L : PosShare(i, L, held[th], q) = held[th] + o.bytes
      BY <1>2, <2>2, <3>1 DEF PosShare, ChargedAt
    <3> QED BY <1>2, <3>1, <3>2, <3>3
  <2>6. Charges(th, held[th], q, o.pos, o.bytes)
    BY <1>1, <1>2, <1>4, <2>4, <2>5 DEF Charges
  <2> QED BY <1>2, <2>6, ChargesHold
<1>7. CASE o.pos >= L /\ o.mode # "unenforced"
  <2>1. op' = [op EXCEPT ![th] = NoOp] /\ held' = [held EXCEPT ![th] = held[th] + o.bytes]
    BY <1>2, <1>7 DEF ConsumeClimbs, Finish, Holds
  <2>2. held[th] + o.bytes \in 0 .. MaxHeld
    BY <1>1, OpFacts DEF SoundOp
  <2>3. Becomes(th, held[th] + o.bytes, NoOp)
    BY <1>1, <1>3, <2>1, <2>2, NoOpFacts, OpFacts DEF Becomes
  <2>4. \A i \in 1 .. L :
          PosShare(i, L, held[th] + o.bytes, NoOp)
            = Had(th, i) + (IF i = o.pos THEN o.bytes ELSE 0)
    <3> HIDE DEF L
    <3> QED BY <1>1, <1>2, <1>7, OpFacts DEF PosShare, ChargedAt, Had, L, NoOp
  <2>5. Charges(th, held[th] + o.bytes, NoOp, o.pos, o.bytes)
    BY <1>1, <1>2, <1>4, <2>3, <2>4 DEF Charges
  <2> QED BY <1>2, <2>5, ChargesHold
<1> QED BY <1>2, <1>5, <1>6, <1>7

LEMMA RoomToCharge ==
  ASSUME RegInv, AccInv, NEW th \in Thread, NEW n \in Bytes, HasRoom(th, n)
  PROVE  held[th] + n <= MaxHeld
<1>1. handle[th] \in Node
  BY DEF HasRoom, RegInv, RegType, Node
<1>2. cached[handle[th]] \in 0 .. MaxHeld /\ held[th] \in 0 .. MaxHeld
  BY <1>1 DEF AccInv, AccType
<1>3. n \in Int /\ MaxHeld \in Nat
  BY LimitAssumption DEF Bytes
<1> QED BY <1>2, <1>3 DEF HasRoom

LEMMA ConsumeKeeps ==
  ASSUME RegInv, AccInv, NEW th \in Thread, NEW n \in Bytes, Consume(th, n)
  PROVE  AccInv'
<1> DEFINE L == Len(Chain(th))
           q == [NoOp EXCEPT !.at = "consume", !.bytes = n, !.pos = 1]
<1>1. /\ op[th].at = "none" /\ handle[th] # None /\ held[th] + n <= MaxHeld /\ forced'
      /\ forced' = TRUE /\ UNCHANGED <<registry, consumption, cached, gcLock, held>>
      /\ op' = [op EXCEPT ![th] = q] /\ Charging(th)
  BY RoomToCharge DEF Consume, MayCharge, HasRoom, Ready, Start, Charging
<1>2. op[th] = NoOp /\ n \in 1 .. MaxHeld
  BY <1>1, OpFacts DEF SoundOp, Bytes
<1>3. q \in OpRecs /\ q.at = "consume" /\ q.pos = 1 /\ q.bytes = n /\ q.minimal = 0
      /\ q.mode = "none"
  <2>1. n \in 0 .. MaxHeld /\ "consume" \in OpSteps
    BY <1>2, LimitAssumption DEF OpSteps
  <2>2. q = Started("consume", n)
    BY DEF Started
  <2> HIDE DEF q
  <2> QED BY <2>1, <2>2, StartedFacts
<1> HIDE DEF q
<1>4. SoundOp(L, held[th], q)
  BY <1>1, <1>2, <1>3, OpFacts DEF SoundOp
<1>5. Becomes(th, held[th], q)
  BY <1>1, <1>3, <1>4, OpFacts, Rests DEF Becomes
<1>6. \A i \in 1 .. L : PosShare(i, L, held[th], q) = Had(th, i)
  <2> HIDE DEF L
  <2> QED BY <1>1, <1>2, <1>3, NoOpFacts, OpFacts DEF PosShare, ChargedAt, Had, L, NoOp
<1>7. Stands(th, held[th], q)
  BY <1>1, <1>5, <1>6 DEF Stands, AccInv, AccType
<1> QED BY <1>1, <1>7, StandsHold

LEMMA ReleaseKeeps ==
  ASSUME RegInv, AccInv, NEW th \in Thread, NEW n \in Bytes, Release(th, n)
  PROVE  AccInv'
<1> DEFINE L == Len(Chain(th))
           q == [NoOp EXCEPT !.at = "release", !.bytes = n, !.pos = 1]
<1>1. /\ op[th].at = "none" /\ n <= held[th] /\ IsWhole(th)
      /\ UNCHANGED <<registry, consumption, cached, gcLock, forced>>
      /\ op' = [op EXCEPT ![th] = q] /\ held' = [held EXCEPT ![th] = held[th] + (-n)]
  BY DEF Release, Ready, Start, Holds
<1>2. /\ op[th] = NoOp /\ n \in 1 .. MaxHeld /\ held[th] - n \in 0 .. MaxHeld
      /\ held[th] > 0 /\ held' = [held EXCEPT ![th] = held[th] - n]
  <2>1. op[th] = NoOp
    BY <1>1, OpFacts DEF SoundOp
  <2>2. held[th] \in 0 .. MaxHeld /\ MaxHeld \in Nat /\ n \in 1 .. MaxHeld
    BY OpFacts DEF Bytes
  <2>3. held[th] - n = held[th] + (-n) /\ held[th] - n \in 0 .. MaxHeld /\ held[th] > 0
    BY <1>1, <2>2
  <2> QED BY <1>1, <2>1, <2>2, <2>3
<1>3. Charging(th) /\ L \in Nat /\ L >= 1
  BY <1>1, <1>2, OpFacts DEF Charging
<1>4. q \in OpRecs /\ q.at = "release" /\ q.pos = 1 /\ q.bytes = n /\ q.minimal = 0
      /\ q.mode = "none"
  <2>1. n \in 0 .. MaxHeld /\ "release" \in OpSteps
    BY <1>2, LimitAssumption DEF OpSteps
  <2>2. q = Started("release", n)
    BY DEF Started
  <2> HIDE DEF q
  <2> QED BY <2>1, <2>2, StartedFacts
<1> HIDE DEF q
<1>5. SoundOp(L, held[th] - n, q)
  BY <1>2, <1>3, <1>4, OpFacts DEF SoundOp
<1>6. Becomes(th, held[th] - n, q)
  BY <1>1, <1>2, <1>4, <1>5, OpFacts DEF Becomes
<1>7. \A i \in 1 .. L : PosShare(i, L, held[th] - n, q) = Had(th, i)
  <2> HIDE DEF L
  <2> QED BY <1>2, <1>3, <1>4, NoOpFacts, OpFacts DEF PosShare, ChargedAt, Had, L, NoOp
<1>8. Stands(th, held[th] - n, q)
  BY <1>1, <1>6, <1>7 DEF Stands, AccInv, AccType
<1> QED BY <1>3, <1>8, StandsHold

\* A new attempt, which has nothing charged yet.
LEMMA TryingFacts ==
  ASSUME RegInv, AccInv, NEW th \in Thread, handle[th] # None, NEW mode \in Modes,
         NEW n \in 0 .. MaxHeld, NEW m \in 0 .. MaxHeld,
         mode # "check", held[th] + n <= MaxHeld, held[th] + m <= MaxHeld
  PROVE  /\ Trying(th, mode, n, m) \in OpRecs /\ Trying(th, mode, n, m).at = "try"
         /\ SoundOp(Len(Chain(th)), held[th], Trying(th, mode, n, m))
         /\ \A i \in 1 .. Len(Chain(th)) :
              PosShare(i, Len(Chain(th)), held[th], Trying(th, mode, n, m)) = held[th]
<1> DEFINE L == Len(Chain(th))  q == Trying(th, mode, n, m)
<1>1. L \in Nat /\ L >= 1 /\ held[th] \in Nat
  BY OpFacts
<1>2. q = [NoOp EXCEPT !.at = "try", !.mode = mode, !.bytes = n, !.minimal = m, !.pos = L]
  BY DEF Trying
<1> HIDE DEF q, L
<1>3. q \in OpRecs /\ q.at = "try" /\ q.mode = mode /\ q.bytes = n /\ q.minimal = m /\ q.pos = L
  BY <1>1, <1>2, NoOpFacts DEF OpRecs, OpSteps
<1>4. SoundOp(L, held[th], q)
  BY <1>1, <1>3 DEF SoundOp
<1>5. \A i \in 1 .. L : PosShare(i, L, held[th], q) = held[th]
  BY <1>1, <1>3 DEF PosShare, ChargedAt
<1> QED BY <1>3, <1>4, <1>5 DEF q, L

LEMMA TryingKeeps ==
  ASSUME RegInv, AccInv, NEW th \in Thread, NEW mode \in Modes \ {"check"},
         NEW n \in Bytes, NEW m \in 0 .. n, MayCharge(th, n),
         Start(th, Trying(th, mode, n, m)),
         UNCHANGED <<registry, consumption, cached, gcLock, held, forced>>
  PROVE  AccInv'
<1> DEFINE q == Trying(th, mode, n, m)
<1>1. op[th].at = "none" /\ Charging(th) /\ held[th] + n <= MaxHeld
      /\ op' = [op EXCEPT ![th] = q]
  BY RoomToCharge DEF MayCharge, HasRoom, Ready, Charging, Start
<1>2. op[th] = NoOp
  BY <1>1, OpFacts DEF SoundOp
<1>3. m \in 0 .. MaxHeld /\ n \in 0 .. MaxHeld /\ held[th] + m <= MaxHeld
  BY <1>1, OpFacts DEF Bytes
<1>4. /\ q \in OpRecs /\ q.at = "try" /\ SoundOp(Len(Chain(th)), held[th], q)
      /\ \A i \in 1 .. Len(Chain(th)) : PosShare(i, Len(Chain(th)), held[th], q) = held[th]
  BY <1>1, <1>3, TryingFacts DEF Charging
<1> HIDE DEF q
<1>5. Becomes(th, held[th], q)
  BY <1>1, <1>4, OpFacts, Rests DEF Becomes
<1>6. \A i \in 1 .. Len(Chain(th)) : Had(th, i) = held[th]
  BY <1>2, NoOpFacts, OpFacts DEF Had
<1>7. Stands(th, held[th], q)
  BY <1>4, <1>5, <1>6 DEF Stands, AccInv, AccType
<1> QED BY <1>1, <1>7, StandsHold

\* An attempt that is over: another one follows, or none.
LEMMA NextAttemptFacts ==
  ASSUME RegInv, AccInv, NEW th \in Thread, op[th].at \in {"release", "undo"}, NextAttempt(th),
         held' = held, forced' = forced
  PROVE  \E q : /\ Becomes(th, held[th], q)
                /\ \A i \in 1 .. Len(Chain(th)) :
                     PosShare(i, Len(Chain(th)), held[th], q) = held[th]
<1>1. CASE op[th].minimal > 0
  <2> DEFINE q == Trying(th, op[th].mode, op[th].minimal, 0)
  <2>1. op' = [op EXCEPT ![th] = q]
    BY <1>1 DEF NextAttempt, Start
  <2>2. op[th].mode # "check" /\ held[th] + op[th].minimal <= MaxHeld /\ handle[th] # None
        /\ held[th] + 0 <= MaxHeld /\ 0 \in 0 .. MaxHeld
    BY <1>1, OpFacts DEF SoundOp
  <2>3. /\ q \in OpRecs /\ q.at = "try" /\ SoundOp(Len(Chain(th)), held[th], q)
        /\ \A i \in 1 .. Len(Chain(th)) : PosShare(i, Len(Chain(th)), held[th], q) = held[th]
    BY <2>2, OpFacts, TryingFacts
  <2> HIDE DEF q
  <2>4. Becomes(th, held[th], q)
    BY <2>1, <2>3, OpFacts, Rests DEF Becomes
  <2> QED BY <2>3, <2>4
<1>2. CASE ~(op[th].minimal > 0)
  <2>1. op' = [op EXCEPT ![th] = NoOp]
    BY <1>2 DEF NextAttempt, Finish
  <2>2. Becomes(th, held[th], NoOp)
    BY <2>1, NoOpFacts, OpFacts, Rests DEF Becomes
  <2> QED BY <2>2, NoOpFacts, OpFacts
<1> QED BY <1>1, <1>2

LEMMA ReleaseClimbsKeeps ==
  ASSUME RegInv, AccInv, NEW th \in Thread, ReleaseClimbs(th)
  PROVE  AccInv'
<1> DEFINE o == op[th]  L == Len(Chain(th))
<1>1. o.at = "release" /\ UNCHANGED <<registry, cached, gcLock, held, forced>>
      /\ consumption' = [consumption EXCEPT ![Chain(th)[o.pos]] = @ + (-o.bytes)]
  BY DEF ReleaseClimbs, Charge, At
<1>2. Charging(th) /\ L \in Nat /\ o.pos \in 1 .. L /\ o.bytes \in 0 .. MaxHeld
      /\ -o.bytes \in Int /\ ~(-o.bytes > 0)
  BY <1>1, OpFacts DEF Charging, SoundOp
<1>3. Room(Chain(th)[o.pos], -o.bytes)
  BY <1>2 DEF Room
<1>4. CASE o.pos < L
  <2> DEFINE q == [o EXCEPT !.pos = @ + 1]
  <2>1. op' = [op EXCEPT ![th] = q]
    BY <1>4 DEF ReleaseClimbs
  <2>2. q \in OpRecs /\ q.at = "release" /\ q.pos = o.pos + 1 /\ q.bytes = o.bytes
        /\ q.minimal = o.minimal /\ q.mode = o.mode
    BY <1>1, OpFacts, Climbed
  <2> HIDE DEF q
  <2>3. SoundOp(L, held[th], q)
    BY <1>1, <1>2, <1>4, <2>2, OpFacts DEF SoundOp
  <2>4. Becomes(th, held[th], q)
    BY <1>1, <2>1, <2>2, <2>3, OpFacts, Rests DEF Becomes
  <2>5. \A i \in 1 .. L :
          PosShare(i, L, held[th], q) = Had(th, i) + (IF i = o.pos THEN -o.bytes ELSE 0)
    <3> HIDE DEF L
    <3> QED BY <1>1, <1>2, <2>2, OpFacts DEF PosShare, ChargedAt, Had, L
  <2>6. Charges(th, held[th], q, o.pos, -o.bytes)
    BY <1>1, <1>2, <1>3, <2>4, <2>5 DEF Charges
  <2> QED BY <1>2, <2>6, ChargesHold
<1>5. CASE o.pos >= L
  <2>1. NextAttempt(th)
    BY <1>2, <1>5 DEF ReleaseClimbs
  <2>2. PICK q : /\ Becomes(th, held[th], q)
                 /\ \A i \in 1 .. L : PosShare(i, L, held[th], q) = held[th]
    BY <1>1, <2>1, NextAttemptFacts
  <2>3. \A i \in 1 .. L :
          PosShare(i, L, held[th], q) = Had(th, i) + (IF i = o.pos THEN -o.bytes ELSE 0)
    <3>1. \A i \in 1 .. L : held[th] = Had(th, i) + (IF i = o.pos THEN -o.bytes ELSE 0)
      <4> HIDE DEF L
      <4> QED BY <1>1, <1>2, <1>5, OpFacts DEF PosShare, ChargedAt, Had, L
    <3> QED BY <3>1, <2>2
  <2>4. Charges(th, held[th], q, o.pos, -o.bytes)
    BY <1>1, <1>2, <1>3, <2>2, <2>3 DEF Charges
  <2> QED BY <1>2, <2>4, ChargesHold
<1> QED BY <1>2, <1>4, <1>5

LEMMA DescendsKeeps ==
  ASSUME RegInv, AccInv, NEW th \in Thread, op[th].at \in {"try", "retry"},
         Fits(At(th), op[th].bytes), Descends(th)
  PROVE  AccInv'
<1> DEFINE o == op[th]  L == Len(Chain(th))
<1>1. UNCHANGED <<registry, cached, gcLock, forced>>
      /\ consumption' = [consumption EXCEPT ![Chain(th)[o.pos]] = @ + o.bytes]
  BY DEF Descends, Charge, At
<1>2. Charging(th) /\ L \in Nat /\ o.pos \in 1 .. L /\ o.bytes \in 0 .. MaxHeld
      /\ o.bytes \in Int
  BY <1>1, OpFacts DEF Charging, SoundOp
<1>3. Room(Chain(th)[o.pos], o.bytes)
  BY DEF Room, Fits, At
<1>4. CASE o.pos > 1
  <2> DEFINE q == [o EXCEPT !.pos = @ - 1, !.at = "try", !.goal = 0]
  <2>1. op' = [op EXCEPT ![th] = q] /\ held' = held
    BY <1>4 DEF Descends
  <2>2. q \in OpRecs /\ q.at = "try" /\ q.pos = o.pos - 1 /\ q.bytes = o.bytes
        /\ q.minimal = o.minimal /\ q.mode = o.mode
    <3>1. o \in OpRecs /\ o.pos - 1 \in Nat
      BY <1>2, <1>4, OpFacts
    <3> HIDE DEF o
    <3> QED BY <3>1 DEF OpRecs, OpSteps
  <2> HIDE DEF q
  <2>3. SoundOp(L, held[th], q)
    BY <1>2, <1>4, <2>2, OpFacts DEF SoundOp
  <2>4. Becomes(th, held[th], q)
    BY <1>1, <2>1, <2>2, <2>3, OpFacts, Rests DEF Becomes
  <2>5. \A i \in 1 .. L :
          PosShare(i, L, held[th], q) = Had(th, i) + (IF i = o.pos THEN o.bytes ELSE 0)
    <3> HIDE DEF L
    <3>1. \A i \in 1 .. L : Had(th, i) = held[th] + (IF i > o.pos THEN o.bytes ELSE 0)
      BY <1>2, OpFacts DEF PosShare, ChargedAt, Had, L
    <3>2. \A i \in 1 .. L : PosShare(i, L, held[th], q)
                               = held[th] + (IF i > o.pos - 1 THEN o.bytes ELSE 0)
      BY <1>2, <2>2, OpFacts DEF PosShare, ChargedAt
    <3>3. held[th] \in Int /\ o.pos \in Int
      BY OpFacts
    <3> HIDE DEF o
    <3> QED BY <1>2, <3>1, <3>2, <3>3
  <2>6. Charges(th, held[th], q, o.pos, o.bytes)
    BY <1>1, <1>2, <1>3, <2>4, <2>5 DEF Charges
  <2> QED BY <1>2, <2>6, ChargesHold
<1>5. CASE o.pos = 1 /\ o.mode = "direct"
  <2>1. op' = [op EXCEPT ![th] = NoOp] /\ held' = [held EXCEPT ![th] = held[th] + o.bytes]
    BY <1>5 DEF Descends, Finish, Holds
  <2>2. held[th] + o.bytes \in 0 .. MaxHeld
    BY OpFacts DEF SoundOp
  <2>3. Becomes(th, held[th] + o.bytes, NoOp)
    BY <1>1, <2>1, <2>2, NoOpFacts, OpFacts DEF Becomes
  <2>4. \A i \in 1 .. L :
          PosShare(i, L, held[th] + o.bytes, NoOp)
            = Had(th, i) + (IF i = o.pos THEN o.bytes ELSE 0)
    <3> HIDE DEF L
    <3> QED BY <1>2, <1>5, OpFacts DEF PosShare, ChargedAt, Had, L, NoOp
  <2>5. Charges(th, held[th] + o.bytes, NoOp, o.pos, o.bytes)
    BY <1>1, <1>2, <1>3, <2>3, <2>4 DEF Charges
  <2> QED BY <1>2, <2>5, ChargesHold
<1>6. CASE o.pos = 1 /\ o.mode # "direct"
  <2> DEFINE q == [o EXCEPT !.at = "delegate", !.goal = 0]
  <2>1. op' = [op EXCEPT ![th] = q] /\ held' = held
    <3>1. ~(op[th].pos > 1) /\ op[th].mode # "direct"
      BY <1>6
    <3> QED BY <3>1 DEF Descends
  <2>2. q \in OpRecs /\ q.at = "delegate" /\ q.pos = o.pos /\ q.bytes = o.bytes
        /\ q.minimal = o.minimal /\ q.mode = o.mode
    <3>1. o \in OpRecs
      BY OpFacts
    <3> HIDE DEF o
    <3> QED BY <3>1 DEF OpRecs, OpSteps
  <2> HIDE DEF q
  <2>3. SoundOp(L, held[th], q)
    BY <1>2, <2>2, OpFacts DEF SoundOp
  <2>4. Becomes(th, held[th], q)
    BY <1>1, <2>1, <2>2, <2>3, OpFacts, Rests DEF Becomes
  <2>5. \A i \in 1 .. L :
          PosShare(i, L, held[th], q) = Had(th, i) + (IF i = o.pos THEN o.bytes ELSE 0)
    <3> HIDE DEF L
    <3> QED BY <1>2, <1>6, <2>2, OpFacts DEF PosShare, ChargedAt, Had, L
  <2>6. Charges(th, held[th], q, o.pos, o.bytes)
    BY <1>1, <1>2, <1>3, <2>4, <2>5 DEF Charges
  <2> QED BY <1>2, <2>6, ChargesHold
<1> QED BY <1>2, <1>4, <1>5, <1>6

\* A charge is given up, by TryConsume itself or on the return of GcMemory.
LEMMA GivesUpKeeps ==
  ASSUME RegInv, AccInv, NEW th \in Thread, op[th].at \in {"try", "retry", "gc", "check"},
         GivesUp(th), UNCHANGED <<registry, consumption, cached, held, forced>>,
         gcLock' \in [Node -> Thread \cup {None}]
  PROVE  AccInv'
<1> DEFINE o == op[th]  L == Len(Chain(th))
           q == [o EXCEPT !.at = "undo", !.j = L, !.goal = 0, !.freed = 0]
<1>1. op' = [op EXCEPT ![th] = q]
  BY DEF GivesUp
<1>2. Charging(th) /\ L \in Nat /\ o.pos \in 1 .. L
  BY OpFacts DEF Charging, SoundOp
<1>3. q \in OpRecs /\ q.at = "undo" /\ q.pos = o.pos /\ q.bytes = o.bytes
      /\ q.minimal = o.minimal /\ q.mode = o.mode /\ q.j = L
  <2>1. o \in OpRecs /\ 0 \in 0 .. MaxHeld
    BY OpFacts
  <2> HIDE DEF o, L
  <2> QED BY <1>2, <2>1 DEF OpRecs, OpSteps
<1> HIDE DEF q
<1>4. SoundOp(L, held[th], q)
  BY <1>2, <1>3, OpFacts DEF SoundOp
<1>5. Becomes(th, held[th], q)
  BY <1>1, <1>3, <1>4, OpFacts, Rests DEF Becomes
<1>6. \A i \in 1 .. L : PosShare(i, L, held[th], q) = Had(th, i)
  <2> HIDE DEF L
  <2> QED BY <1>2, <1>3, OpFacts DEF PosShare, ChargedAt, Had, L
<1>7. Stands(th, held[th], q)
  BY <1>5, <1>6 DEF Stands
<1> QED BY <1>2, <1>7, StandsHold

LEMMA UndoesKeeps ==
  ASSUME RegInv, AccInv, NEW th \in Thread, op[th].at \in {"try", "retry"}, Undoes(th)
  PROVE  AccInv'
<1>1. gcLock' \in [Node -> Thread \cup {None}]
  BY DEF Undoes, AccInv, AccType
<1> QED BY <1>1, GivesUpKeeps DEF Undoes

LEMMA TryRefusesKeeps ==
  ASSUME RegInv, AccInv, NEW th \in Thread, TryRefuses(th)
  PROVE  AccInv'
<1> DEFINE o == op[th]  L == Len(Chain(th))  goal == Limit(At(th)) - o.bytes
           q == [o EXCEPT !.at = "gc", !.goal = goal]
<1>1. o.at = "try"
  BY DEF TryRefuses
<1>2. CASE Undoes(th)
  BY <1>1, <1>2, UndoesKeeps
<1>3. CASE /\ goal >= 0 /\ op' = [op EXCEPT ![th] = q]
           /\ UNCHANGED <<registry, consumption, cached, gcLock, held, forced>>
  <2>1. Charging(th) /\ L \in Nat /\ o.pos \in 1 .. L
    BY <1>1, <1>3, OpFacts DEF Charging, SoundOp
  <2>2. goal \in Nat
    <3>1. At(th) \in Node
      BY <2>1, ChainFacts DEF At, Charging
    <3>2. Limit(At(th)) \in Int
      BY <3>1, LimitAssumption DEF Limit, RegInv, RegType, Node
    <3> QED BY <1>3, <3>2, OpFacts
  <2>3. q \in OpRecs /\ q.at = "gc" /\ q.pos = o.pos /\ q.bytes = o.bytes
        /\ q.minimal = o.minimal /\ q.mode = o.mode
    <3>1. o \in OpRecs
      BY OpFacts
    <3> HIDE DEF o, goal
    <3> QED BY <2>2, <3>1 DEF OpRecs, OpSteps
  <2> HIDE DEF q
  <2>4. SoundOp(L, held[th], q)
    BY <1>1, <2>1, <2>3, OpFacts DEF SoundOp
  <2>5. \A i \in 1 .. L : PosShare(i, L, held[th], q) = Had(th, i)
    <3> HIDE DEF L
    <3> QED BY <1>1, <2>1, <2>3, OpFacts DEF PosShare, ChargedAt, Had, L
  <2>6. Becomes(th, held[th], q)
    BY <1>3, <2>3, <2>4, OpFacts, Rests DEF Becomes
  <2>7. Stands(th, held[th], q)
    BY <1>3, <2>5, <2>6 DEF Stands, AccInv, AccType
  <2> QED BY <2>1, <2>7, StandsHold
<1> QED BY <1>2, <1>3 DEF TryRefuses

LEMMA TryAcceptsKeeps ==
  ASSUME RegInv, AccInv, NEW th \in Thread, TryAccepts(th)
  PROVE  AccInv'
BY DescendsKeeps DEF TryAccepts

LEMMA RetryKeeps ==
  ASSUME RegInv, AccInv, NEW th \in Thread, Retry(th)
  PROVE  AccInv'
<1>1. CASE Fits(At(th), op[th].bytes)
  BY <1>1, DescendsKeeps DEF Retry
<1>2. CASE ~Fits(At(th), op[th].bytes)
  BY <1>2, UndoesKeeps DEF Retry
<1> QED BY <1>1, <1>2

LEMMA UndoDescendsKeeps ==
  ASSUME RegInv, AccInv, NEW th \in Thread, UndoDescends(th)
  PROVE  AccInv'
<1> DEFINE o == op[th]  L == Len(Chain(th))  q == [o EXCEPT !.j = @ - 1]
<1>1. /\ o.at = "undo" /\ o.j > o.pos /\ UNCHANGED <<registry, cached, gcLock, held, forced>>
      /\ op' = [op EXCEPT ![th] = q]
      /\ consumption' = [consumption EXCEPT ![Chain(th)[o.j]] = @ + (-o.bytes)]
  BY DEF UndoDescends, StillToUndo, Charge
<1>2. Charging(th) /\ L \in Nat /\ o.pos \in 1 .. L /\ o.j \in o.pos .. L /\ o.j \in 1 .. L
      /\ o.bytes \in 0 .. MaxHeld /\ -o.bytes \in Int /\ ~(-o.bytes > 0)
  BY <1>1, OpFacts DEF Charging, SoundOp
<1>3. q \in OpRecs /\ q.at = "undo" /\ q.pos = o.pos /\ q.bytes = o.bytes
      /\ q.minimal = o.minimal /\ q.mode = o.mode /\ q.j = o.j - 1
  <2>1. o \in OpRecs /\ o.j - 1 \in Nat
    BY <1>2, OpFacts
  <2> HIDE DEF o, L
  <2> QED BY <1>1, <2>1 DEF OpRecs, OpSteps
<1> HIDE DEF q
<1>4. SoundOp(L, held[th], q)
  <2>1. SoundOp(L, held[th], o) /\ o.j - 1 \in o.pos .. L
    BY <1>1, <1>2, OpFacts
  <2> HIDE DEF o, L
  <2> QED BY <1>1, <1>2, <1>3, <2>1 DEF SoundOp
<1>5. Becomes(th, held[th], q)
  BY <1>1, <1>3, <1>4, OpFacts, Rests DEF Becomes
<1>6. \A i \in 1 .. L :
        PosShare(i, L, held[th], q) = Had(th, i) + (IF i = o.j THEN -o.bytes ELSE 0)
  <2> HIDE DEF L
  <2>1. \A i \in 1 .. L : Had(th, i) = held[th] + (IF i > o.pos /\ i <= o.j THEN o.bytes ELSE 0)
    BY <1>1, <1>2, OpFacts DEF PosShare, ChargedAt, Had, L
  <2>2. \A i \in 1 .. L : PosShare(i, L, held[th], q)
                          = held[th] + (IF i > o.pos /\ i <= o.j - 1 THEN o.bytes ELSE 0)
    BY <1>1, <1>2, <1>3, OpFacts DEF PosShare, ChargedAt
  <2>3. held[th] \in Int /\ o.bytes \in Int /\ o.j \in Int /\ o.pos \in Int /\ o.j > o.pos
    BY <1>1, OpFacts
  <2> HIDE DEF o
  <2> QED BY <1>2, <2>1, <2>2, <2>3
<1>7. Room(Chain(th)[o.j], -o.bytes)
  BY <1>2 DEF Room
<1>8. Charges(th, held[th], q, o.j, -o.bytes)
  BY <1>1, <1>2, <1>5, <1>6, <1>7 DEF Charges
<1> QED BY <1>2, <1>8, ChargesHold

LEMMA RefusedKeeps ==
  ASSUME RegInv, AccInv, NEW th \in Thread, Refused(th)
  PROVE  AccInv'
<1> DEFINE o == op[th]  L == Len(Chain(th))
<1>1. /\ o.at = "undo" /\ ~(o.j > o.pos)
      /\ UNCHANGED <<registry, consumption, cached, gcLock, held>>
  BY DEF Refused, StillToUndo
<1>2. Charging(th) /\ L \in Nat /\ L >= 1 /\ o.pos \in 1 .. L /\ o.j = o.pos
  BY <1>1, OpFacts DEF Charging, SoundOp
<1>3. \A i \in 1 .. L : Had(th, i) = held[th]
  <2> HIDE DEF L
  <2> QED BY <1>1, <1>2, OpFacts DEF PosShare, ChargedAt, Had, L
<1>4. CASE o.mode = "unenforced"
  <2> DEFINE q == [o EXCEPT !.at = "consume", !.pos = 1, !.j = 0]
  <2>1. op' = [op EXCEPT ![th] = q] /\ forced' = TRUE
    BY <1>4 DEF Refused
  <2>2. q \in OpRecs /\ q.at = "consume" /\ q.pos = 1 /\ q.bytes = o.bytes
        /\ q.minimal = o.minimal /\ q.mode = o.mode
    <3>1. o \in OpRecs
      BY OpFacts
    <3> HIDE DEF o
    <3> QED BY <3>1 DEF OpRecs, OpSteps
  <2> HIDE DEF q
  <2>3. SoundOp(L, held[th], q)
    BY <1>1, <1>2, <2>2, OpFacts DEF SoundOp
  <2>4. \A i \in 1 .. L : PosShare(i, L, held[th], q) = Had(th, i)
    <3>1. \A i \in 1 .. L : PosShare(i, L, held[th], q) = held[th]
      <4> HIDE DEF L
      <4> QED BY <1>2, <2>2, OpFacts DEF PosShare, ChargedAt, L
    <3> QED BY <3>1, <1>3
  <2>5. Becomes(th, held[th], q)
    BY <1>1, <2>1, <2>2, <2>3, OpFacts, Rests DEF Becomes
  <2>6. Stands(th, held[th], q)
    BY <1>1, <2>4, <2>5 DEF Stands, AccInv, AccType
  <2> QED BY <1>2, <2>6, StandsHold
<1>5. CASE o.mode # "unenforced"
  <2>1. NextAttempt(th) /\ forced' = forced
    BY <1>5 DEF Refused
  <2>2. PICK q : /\ Becomes(th, held[th], q)
                 /\ \A i \in 1 .. L : PosShare(i, L, held[th], q) = held[th]
    BY <1>1, <2>1, NextAttemptFacts
  <2>3. \A i \in 1 .. L : PosShare(i, L, held[th], q) = Had(th, i)
    BY <1>3, <2>2
  <2>4. Stands(th, held[th], q)
    BY <1>1, <2>2, <2>3 DEF Stands, AccInv, AccType
  <2> QED BY <1>2, <2>4, StandsHold
<1> QED BY <1>4, <1>5

LEMMA DelegateAllocatesKeeps ==
  ASSUME RegInv, AccInv, NEW th \in Thread, DelegateAllocates(th)
  PROVE  AccInv'
<1> DEFINE o == op[th]  L == Len(Chain(th))  n == held[th] + o.bytes
<1>1. /\ o.at = "delegate" /\ UNCHANGED <<registry, consumption, cached, gcLock, forced>>
      /\ op' = [op EXCEPT ![th] = NoOp] /\ held' = [held EXCEPT ![th] = n]
  BY DEF DelegateAllocates, Finish, Holds
<1>2. Charging(th) /\ L \in Nat /\ n \in 0 .. MaxHeld
  BY <1>1, OpFacts DEF Charging, SoundOp
<1>3. Becomes(th, n, NoOp)
  BY <1>1, <1>2, NoOpFacts, OpFacts DEF Becomes
<1>4. \A i \in 1 .. L : PosShare(i, L, n, NoOp) = Had(th, i)
  <2> HIDE DEF L
  <2> QED BY <1>1, OpFacts DEF PosShare, ChargedAt, Had, L, NoOp
<1>5. Stands(th, n, NoOp)
  BY <1>1, <1>3, <1>4 DEF Stands, AccInv, AccType
<1> QED BY <1>2, <1>5, StandsHold

LEMMA DelegateFailsKeeps ==
  ASSUME RegInv, AccInv, NEW th \in Thread, DelegateFails(th)
  PROVE  AccInv'
<1> DEFINE o == op[th]  L == Len(Chain(th))  q == [o EXCEPT !.at = "release", !.pos = 1]
<1>1. /\ o.at = "delegate" /\ UNCHANGED <<registry, consumption, cached, gcLock, held, forced>>
      /\ op' = [op EXCEPT ![th] = q]
  BY DEF DelegateFails
<1>2. Charging(th) /\ L \in Nat /\ L >= 1
  BY <1>1, OpFacts DEF Charging
<1>3. q \in OpRecs /\ q.at = "release" /\ q.pos = 1 /\ q.bytes = o.bytes
      /\ q.minimal = o.minimal /\ q.mode = o.mode
  <2>1. o \in OpRecs
    BY OpFacts
  <2> HIDE DEF o
  <2> QED BY <2>1 DEF OpRecs, OpSteps
<1> HIDE DEF q
<1>4. SoundOp(L, held[th], q)
  BY <1>1, <1>2, <1>3, OpFacts DEF SoundOp
<1>5. Becomes(th, held[th], q)
  BY <1>1, <1>3, <1>4, OpFacts, Rests DEF Becomes
<1>6. \A i \in 1 .. L : PosShare(i, L, held[th], q) = Had(th, i)
  <2> HIDE DEF L
  <2> QED BY <1>1, <1>3, OpFacts DEF PosShare, ChargedAt, Had, L
<1>7. Stands(th, held[th], q)
  BY <1>1, <1>5, <1>6 DEF Stands, AccInv, AccType
<1> QED BY <1>2, <1>7, StandsHold

\* A thread charges to nobody, or releases what it charged to nobody.
LEMMA ChargesMissing ==
  ASSUME RegInv, AccInv, NEW th \in Thread, Ready(th), handle[th] # None,
         NEW n \in 0 .. MaxHeld, held' = [held EXCEPT ![th] = n], missed' = TRUE,
         UNCHANGED <<tree, handle, walk, consumption, cached, gcLock, op, forced>>
  PROVE  AccInv'
<1>1. AccType'
  BY DEF AccInv, AccType
<1>2. \A u \in Thread : Chain(u)' = Chain(u) /\ Sound(u)
  BY DEF Chain, AllTrackers, AccInv
<1>3. op[th] = NoOp /\ walk[th].at = "idle" /\ NoOp.at = "none" /\ NoOp.minimal = 0
      /\ NoOp.mode = "none" /\ held'[th] = n /\ n + 0 <= MaxHeld
  BY <1>2, NoOpFacts, LimitAssumption DEF AccInv, AccType, Sound, Ready
<1> HIDE DEF Chain
<1>4. Sound(th)'
  BY <1>3 DEF Sound
<1>5. ASSUME NEW u \in Thread \ {th} PROVE Sound(u)'
  BY <1>2 DEF AccInv, AccType, Sound, IsWhole
<1> QED BY <1>1, <1>4, <1>5 DEF AccInv

LEMMA ChargesNothingKeeps ==
  ASSUME RegInv, AccInv, NEW th \in Thread, NEW n \in Bytes, ChargesNothing(th, n)
  PROVE  AccInv'
<1>1. HasRoom(th, n)
  BY DEF ChargesNothing
<1>2. held[th] + n \in 0 .. MaxHeld
  BY <1>1, RoomToCharge, OpFacts DEF Bytes
<1>3. Ready(th) /\ handle[th] # None /\ held' = [held EXCEPT ![th] = held[th] + n]
  BY <1>1 DEF HasRoom, ChargesNothing, Holds
<1> QED BY <1>2, <1>3, ChargesMissing DEF ChargesNothing

LEMMA ReleasesNothingKeeps ==
  ASSUME RegInv, AccInv, NEW th \in Thread, NEW n \in Bytes, ReleasesNothing(th, n)
  PROVE  AccInv'
<1>1. Ready(th) /\ n <= held[th] /\ ~IsWhole(th)
      /\ held' = [held EXCEPT ![th] = held[th] + (-n)]
  BY DEF ReleasesNothing, Holds
<1>2. held[th] + (-n) \in 0 .. MaxHeld /\ held[th] > 0
  BY <1>1, OpFacts DEF Bytes
<1>3. Sound(th) /\ missed \in BOOLEAN
  BY DEF AccInv, AccType
<1>4. handle[th] # None /\ missed
  BY <1>1, <1>2, <1>3 DEF Sound
<1>5. missed' = TRUE /\ UNCHANGED <<tree, handle, walk, consumption, cached, gcLock, op, forced>>
  BY <1>3, <1>4 DEF ReleasesNothing, registry
<1> QED BY <1>1, <1>2, <1>4, <1>5, ChargesMissing

LEMMA ChargeStepKeeps ==
  ASSUME RegInv, AccInv, NEW th \in Thread, ChargeStep(th)
  PROVE  AccInv'
<1>1. ASSUME NEW n \in Bytes, TryConsume(th, n) PROVE AccInv'
  <2>1. 0 \in 0 .. n /\ "direct" \in Modes \ {"check"}
    BY LimitAssumption DEF Bytes, Modes
  <2> QED BY <1>1, <2>1, TryingKeeps DEF TryConsume
<1>2. ASSUME NEW n \in Bytes, NEW m \in Bytes, NEW mode \in {"enforced", "unenforced"},
             Allocate(th, mode, n, m)
      PROVE  AccInv'
  <2>1. m \in 0 .. n /\ mode \in Modes \ {"check"}
    BY <1>2, LimitAssumption DEF Bytes, Modes, Allocate
  <2> QED BY <1>2, <2>1, TryingKeeps DEF Allocate
<1> QED BY <1>1, <1>2, ChargesNothingKeeps, ReleasesNothingKeeps, ConsumeKeeps, ReleaseKeeps,
           ConsumeClimbsKeeps, ReleaseClimbsKeeps, TryAcceptsKeeps, TryRefusesKeeps, RetryKeeps,
           UndoDescendsKeeps, RefusedKeeps, DelegateAllocatesKeeps, DelegateFailsKeeps
           DEF ChargeStep

-----------------------------------------------------------------------------
(* The steps of garbage collection.                                        *)

LEMMA FillCacheKeeps ==
  ASSUME RegInv, AccInv, NEW th \in Thread, NEW n \in Bytes, FillCache(th, n)
  PROVE  AccInv'
<1> DEFINE c == Chain(th)  L == Len(c)  x == cached[c[1]] + n
<1>1. /\ op[th].at = "none" /\ n <= held[th] /\ IsWhole(th) /\ cached[handle[th]] + n < MaxHeld
      /\ UNCHANGED <<registry, consumption, gcLock, op, forced>>
      /\ held' = [held EXCEPT ![th] = held[th] + (-n)]
      /\ cached' = [cached EXCEPT ![handle[th]] = cached[handle[th]] + n]
  BY DEF FillCache, Ready, Holds
<1>2. /\ op[th] = NoOp /\ n \in 1 .. MaxHeld /\ held[th] - n \in 0 .. MaxHeld
      /\ held[th] > 0 /\ held' = [held EXCEPT ![th] = held[th] - n]
      /\ op' = [op EXCEPT ![th] = NoOp]
  <2>1. op[th] = NoOp /\ op' = [op EXCEPT ![th] = op[th]]
    BY <1>1, OpFacts, Rests DEF SoundOp
  <2>2. held[th] \in 0 .. MaxHeld /\ MaxHeld \in Nat /\ n \in 1 .. MaxHeld
    BY OpFacts DEF Bytes
  <2>3. held[th] - n = held[th] + (-n) /\ held[th] - n \in 0 .. MaxHeld /\ held[th] > 0
    BY <1>1, <2>2
  <2> QED BY <1>1, <2>1, <2>2, <2>3
<1>3. Charging(th) /\ L \in Nat /\ 1 \in 1 .. L /\ c[1] = handle[th] /\ c[1] \in Node
  BY <1>1, <1>2, OpFacts, ChainFacts DEF Charging
<1>4. Becomes(th, held[th] - n, NoOp)
  BY <1>1, <1>2, NoOpFacts, OpFacts DEF Becomes
<1>5. cached[c[1]] \in Int /\ x \in 0 .. MaxHeld /\ n \in Int /\ held[th] \in Int
  <2>1. cached[c[1]] \in 0 .. MaxHeld
    BY <1>3 DEF AccInv, AccType
  <2> HIDE DEF c
  <2> QED BY <1>1, <1>2, <1>3, <2>1, OpFacts
<1>6. \A i \in 1 .. L : Had(th, i) = held[th] /\ PosShare(i, L, held[th] - n, NoOp) = held[th] - n
  BY <1>2, NoOpFacts, OpFacts DEF Had
<1>7. \A i \in 1 .. L :
        PosShare(i, L, held[th] - n, NoOp) + (IF i >= 1 THEN x ELSE 0)
          = Had(th, i) + (IF i >= 1 THEN cached[c[1]] ELSE 0) + (IF i = 1 THEN 0 ELSE 0)
  <2>1. x = cached[c[1]] + n /\ x \in Int
    BY <1>5, LimitAssumption
  <2> HIDE DEF c, L, x
  <2> QED BY <1>5, <1>6, <2>1
<1>8. /\ cached' = [cached EXCEPT ![c[1]] = x]
      /\ consumption' = [consumption EXCEPT ![c[1]] = @ + 0]
      /\ gcLock' \in [Node -> Thread \cup {None}]
  BY <1>1, <1>3 DEF AccInv, AccType
<1>9. Room(c[1], 0)
  BY DEF Room
<1>10. Pays(th, held[th] - n, NoOp, 1, 0, 1, x)
  <2> HIDE DEF x
  <2> QED BY <1>3, <1>4, <1>5, <1>7, <1>8, <1>9 DEF Pays
<1> QED BY <1>3, <1>10, PaysHold

LEMMA EmptyCacheKeeps ==
  ASSUME RegInv, AccInv, NEW th \in Thread, EmptyCache(th)
  PROVE  AccInv'
<1> DEFINE c == Chain(th)  L == Len(c)  n == cached[c[1]]  q == Started("release", n)
<1>1. /\ op[th].at = "none" /\ handle[th] # None /\ Charging(th)
      /\ UNCHANGED <<registry, consumption, gcLock, held, forced>>
      /\ cached' = [cached EXCEPT ![handle[th]] = 0]
      /\ op' = [op EXCEPT ![th] = Started("release", cached[handle[th]])]
  BY DEF EmptyCache, Ready, Start, Started, Charging
<1>2. op[th] = NoOp /\ L \in Nat /\ L >= 1 /\ 1 \in 1 .. L /\ c[1] = handle[th] /\ c[1] \in Node
  BY <1>1, OpFacts, ChainFacts DEF SoundOp
<1>3. n \in 0 .. MaxHeld /\ n \in Int /\ MaxHeld \in Nat /\ held[th] \in 0 .. MaxHeld
      /\ op' = [op EXCEPT ![th] = q]
  BY <1>1, <1>2, LimitAssumption DEF AccInv, AccType
<1>4. q \in OpRecs /\ q.at = "release" /\ q.pos = 1 /\ q.bytes = n /\ q.minimal = 0
      /\ q.mode = "none"
  BY <1>3, StartedFacts DEF OpSteps
<1> HIDE DEF q, n
<1>5. SoundOp(L, held[th], q)
  <2> HIDE DEF L
  <2> QED BY <1>2, <1>3, <1>4 DEF SoundOp
<1>6. Becomes(th, held[th], q)
  BY <1>1, <1>3, <1>4, <1>5, OpFacts, Rests DEF Becomes
<1>7. \A i \in 1 .. L : Had(th, i) = held[th]
  BY <1>2, NoOpFacts, OpFacts DEF Had
<1>8. \A i \in 1 .. L : PosShare(i, L, held[th], q) = held[th] + n
  <2> HIDE DEF L
  <2> QED BY <1>2, <1>3, <1>4 DEF PosShare, ChargedAt
<1>9. \A i \in 1 .. L :
        PosShare(i, L, held[th], q) + (IF i >= 1 THEN 0 ELSE 0)
          = Had(th, i) + (IF i >= 1 THEN cached[c[1]] ELSE 0) + (IF i = 1 THEN 0 ELSE 0)
  <2>1. cached[c[1]] = n
    BY DEF n
  <2> HIDE DEF c, L
  <2> QED BY <1>3, <1>7, <1>8, <2>1
<1>10. /\ cached' = [cached EXCEPT ![c[1]] = 0]
       /\ consumption' = [consumption EXCEPT ![c[1]] = @ + 0]
       /\ gcLock' \in [Node -> Thread \cup {None}]
  BY <1>1, <1>2 DEF AccInv, AccType
<1>11. Room(c[1], 0) /\ ~(0 > cached[c[1]])
  BY <1>3 DEF Room, n
<1>12. Pays(th, held[th], q, 1, 0, 1, 0)
  BY <1>2, <1>3, <1>6, <1>9, <1>10, <1>11 DEF Pays
<1> QED BY <1>1, <1>12, PaysHold

LEMMA LimitExceededKeeps ==
  ASSUME RegInv, AccInv, NEW th \in Thread, NEW k \in Nat, LimitExceeded(th, k)
  PROVE  AccInv'
<1> DEFINE L == Len(Chain(th))  g == Limit(Chain(th)[k])
           q == [NoOp EXCEPT !.at = "gc", !.mode = "check", !.pos = k, !.goal = g]
<1>1. /\ op[th].at = "none" /\ Charging(th) /\ k \in DOMAIN Chain(th) /\ g >= 0
      /\ UNCHANGED <<registry, consumption, cached, gcLock, held, forced>>
      /\ op' = [op EXCEPT ![th] = q]
  BY DEF LimitExceeded, Ready, Start, Charging
<1>2. op[th] = NoOp /\ L \in Nat /\ k \in 1 .. L /\ g \in Nat
  <2>1. op[th] = NoOp
    BY <1>1, OpFacts DEF SoundOp
  <2>2. Chain(th) \in Seq(Node)
    <3>1. handle[th] \in Node
      BY <1>1, WalkFacts DEF Charging, Node
    <3> QED BY <3>1, WaysHold DEF Way, Chain
  <2>3. L \in Nat /\ k \in 1 .. L /\ Chain(th)[k] \in Node
    BY <1>1, <2>2
  <2>4. g \in Int
    BY <2>3, LimitAssumption DEF Limit, RegInv, RegType, Node
  <2> QED BY <1>1, <2>1, <2>3, <2>4
<1> HIDE DEF g
<1>3. q \in OpRecs /\ q.at = "gc" /\ q.pos = k /\ q.bytes = 0 /\ q.minimal = 0
      /\ q.mode = "check"
  BY <1>2, NoOpFacts DEF OpRecs, OpSteps, Modes
<1> HIDE DEF q
<1>4. SoundOp(L, held[th], q)
  BY <1>2, <1>3, OpFacts DEF SoundOp
<1>5. Becomes(th, held[th], q)
  BY <1>1, <1>3, <1>4, OpFacts, Rests DEF Becomes
<1>6. \A i \in 1 .. L : PosShare(i, L, held[th], q) = Had(th, i)
  <2> HIDE DEF L
  <2>1. \A i \in 1 .. L : Had(th, i) = held[th]
    BY <1>2, NoOpFacts, OpFacts DEF Had
  <2> QED BY <1>2, <1>3, <2>1, OpFacts DEF PosShare, ChargedAt
<1>7. Stands(th, held[th], q)
  BY <1>1, <1>5, <1>6 DEF Stands, AccInv, AccType
<1> QED BY <1>1, <1>7, StandsHold

Freed(o, a) == [o EXCEPT !.j = @ + 1, !.at = a]

LEMMA FreedFacts ==
  ASSUME NEW o \in OpRecs, NEW a \in OpSteps
  PROVE  /\ Freed(o, a) \in OpRecs /\ Freed(o, a).at = a /\ Freed(o, a).pos = o.pos
         /\ Freed(o, a).bytes = o.bytes /\ Freed(o, a).minimal = o.minimal
         /\ Freed(o, a).mode = o.mode /\ Freed(o, a).j = o.j + 1 /\ Freed(o, a).freed = o.freed
<1>1. o.j + 1 \in Nat
  BY DEF OpRecs
<1> QED BY <1>1 DEF OpRecs, Freed

LEMMA GcReturnsKeeps ==
  ASSUME RegInv, AccInv, NEW th \in Thread, op[th].at \in {"gc", "check"},
         NEW full, GcReturns(th, full),
         UNCHANGED <<registry, consumption, cached, held, forced>>,
         gcLock' \in [Node -> Thread \cup {None}]
  PROVE  AccInv'
<1> DEFINE o == op[th]  L == Len(Chain(th))
<1>1. Charging(th) /\ L \in Nat /\ o.pos \in 1 .. L
  BY OpFacts DEF Charging, SoundOp
<1>2. CASE o.mode = "check" /\ Finish(th)
  <2>1. o.bytes = 0 /\ op' = [op EXCEPT ![th] = NoOp]
    BY <1>2, OpFacts DEF SoundOp, Finish
  <2>2. Becomes(th, held[th], NoOp)
    BY <2>1, NoOpFacts, OpFacts, Rests DEF Becomes
  <2>3. \A i \in 1 .. L : Had(th, i) = held[th]
    <3> HIDE DEF L
    <3> QED BY <1>1, <2>1, OpFacts DEF PosShare, ChargedAt, Had, L
  <2>4. \A i \in 1 .. L : PosShare(i, L, held[th], NoOp) = Had(th, i)
    BY <2>3, NoOpFacts, OpFacts
  <2>5. Stands(th, held[th], NoOp)
    BY <2>2, <2>4 DEF Stands
  <2> QED BY <1>1, <2>5, StandsHold
<1>3. CASE GivesUp(th)
  BY <1>3, GivesUpKeeps
<1>4. CASE op' = [op EXCEPT ![th].at = "retry", ![th].j = 0, ![th].goal = 0,
                          ![th].freed = 0]
  <2> DEFINE q == [o EXCEPT !.at = "retry", !.j = 0, !.goal = 0, !.freed = 0]
  <2>1. op' = [op EXCEPT ![th] = q]
    BY <1>4
  <2>2. q \in OpRecs /\ q.at = "retry" /\ q.pos = o.pos /\ q.bytes = o.bytes
        /\ q.minimal = o.minimal /\ q.mode = o.mode
    <3>1. o \in OpRecs /\ 0 \in 0 .. MaxHeld
      BY OpFacts
    <3> HIDE DEF o
    <3> QED BY <3>1 DEF OpRecs, OpSteps
  <2> HIDE DEF q
  <2>3. SoundOp(L, held[th], q)
    BY <1>1, <2>2, OpFacts DEF SoundOp
  <2>4. Becomes(th, held[th], q)
    BY <2>1, <2>2, <2>3, OpFacts, Rests DEF Becomes
  <2>5. \A i \in 1 .. L : PosShare(i, L, held[th], q) = Had(th, i)
    <3> HIDE DEF L
    <3> QED BY <1>1, <2>2, OpFacts DEF PosShare, ChargedAt, Had, L
  <2>6. Stands(th, held[th], q)
    BY <2>4, <2>5 DEF Stands
  <2> QED BY <1>1, <2>6, StandsHold
<1> QED BY <1>2, <1>3, <1>4 DEF GcReturns

LEMMA GcLocksKeeps ==
  ASSUME RegInv, AccInv, NEW th \in Thread, GcLocks(th)
  PROVE  AccInv'
<1> DEFINE o == op[th]  L == Len(Chain(th))  p == o.pos  k == Chain(th)[p]  n == cached[k]
<1>1. o.at = "gc" /\ UNCHANGED <<registry, consumption, held, forced>>
  BY DEF GcLocks
<1>2. Charging(th) /\ L \in Nat /\ L >= 1 /\ p \in 1 .. L /\ k \in Node
  BY <1>1, OpFacts, ChainFacts DEF Charging, SoundOp
<1>3. n \in 0 .. MaxHeld /\ n \in Int /\ MaxHeld \in Nat
  BY <1>2, LimitAssumption DEF AccInv, AccType
<1>4. CASE GcReturns(th, FALSE) /\ UNCHANGED <<cached, gcLock>>
  <2>1. gcLock' \in [Node -> Thread \cup {None}]
    BY <1>4 DEF AccInv, AccType
  <2> QED BY <1>1, <1>4, <2>1, GcReturnsKeeps
<1>5. CASE /\ gcLock' = [gcLock EXCEPT ![k] = th]
           /\ cached' = [cached EXCEPT ![k] = 0]
           /\ op' = [op EXCEPT ![th].freed = n, ![th].j = 1,
                       ![th].at = IF n > 0 THEN "free" ELSE "check"]
  <2> DEFINE q == [o EXCEPT !.freed = n, !.j = 1, !.at = IF n > 0 THEN "free" ELSE "check"]
  <2>1. q \in OpRecs /\ q.at = (IF n > 0 THEN "free" ELSE "check") /\ q.pos = p
        /\ q.bytes = o.bytes /\ q.minimal = o.minimal /\ q.mode = o.mode
        /\ q.j = 1 /\ q.freed = n
    <3>1. o \in OpRecs
      BY OpFacts
    <3> HIDE DEF o, n
    <3> QED BY <1>3, <3>1 DEF OpRecs, OpSteps
  <2>2. op' = [op EXCEPT ![th] = q]
    BY <1>5
  <2> HIDE DEF q
  <2>3. SoundOp(L, held[th], q)
    <3> HIDE DEF n
    <3>1. SoundOp(L, held[th], o) /\ o.at = "gc"
      BY <1>1, OpFacts
    <3>2. L - p + 1 >= 1 /\ 1 \in 1 .. L - p + 1
      BY <1>2
    <3> HIDE DEF o, L, p
    <3> QED BY <1>2, <2>1, <3>1, <3>2 DEF SoundOp
  <2>4. Becomes(th, held[th], q)
    <3> HIDE DEF n
    <3> QED BY <1>1, <2>1, <2>2, <2>3, OpFacts, Rests DEF Becomes
  <2>5. \A i \in 1 .. L :
          PosShare(i, L, held[th], q) + (IF i >= p THEN 0 ELSE 0)
            = Had(th, i) + (IF i >= p THEN cached[k] ELSE 0) + (IF i = 1 THEN 0 ELSE 0)
    <3>1. cached[k] = n
      OBVIOUS
    <3> HIDE DEF L, n, k
    <3>2. \A i \in 1 .. L : Had(th, i) = held[th] + (IF i > p THEN o.bytes ELSE 0)
      BY <1>1, <1>2, OpFacts DEF PosShare, ChargedAt, Had, L
    <3>3. \A i \in 1 .. L : PosShare(i, L, held[th], q)
            = held[th] + (IF i > p THEN o.bytes ELSE 0) + (IF i >= p THEN n ELSE 0)
      BY <1>2, <1>3, <2>1, OpFacts DEF PosShare, ChargedAt
    <3>4. held[th] \in Int /\ o.bytes \in Int
      BY OpFacts
    <3> HIDE DEF o, p
    <3> QED BY <1>2, <1>3, <3>1, <3>2, <3>3, <3>4
  <2>6. gcLock' \in [Node -> Thread \cup {None}]
    BY <1>2, <1>5 DEF AccInv, AccType
  <2>7. Room(Chain(th)[1], 0) /\ ~(0 > cached[k]) /\ 1 \in 1 .. L /\ 0 \in 0 .. MaxHeld
    BY <1>2, <1>3 DEF Room
  <2>8. consumption' = [consumption EXCEPT ![Chain(th)[1]] = @ + 0]
    BY <1>1, <1>2, ChainFacts DEF AccInv, AccType, Charging
  <2>9. Pays(th, held[th], q, 1, 0, p, 0)
    BY <1>2, <1>5, <2>4, <2>5, <2>6, <2>7, <2>8 DEF Pays
  <2> QED BY <1>2, <2>9, PaysHold
<1> QED BY <1>4, <1>5 DEF GcLocks, At

LEMMA GcFreesKeeps ==
  ASSUME RegInv, AccInv, NEW th \in Thread, GcFrees(th)
  PROVE  AccInv'
<1> DEFINE o == op[th]  c == Chain(th)  L == Len(c)  up == AllTrackers[c[o.pos]]
           i0 == o.pos + o.j - 1
           q == [o EXCEPT !.j = @ + 1, !.at = IF o.j < Len(up) THEN "free" ELSE "check"]
<1>1. /\ o.at = "free" /\ UNCHANGED <<registry, cached, gcLock, held, forced>>
      /\ consumption' = [consumption EXCEPT ![up[o.j]] = @ + (-o.freed)]
      /\ op' = [op EXCEPT ![th] = q]
  BY DEF GcFrees, Charge, At
<1>2. Charging(th) /\ L \in Nat /\ o.pos \in 1 .. L /\ o.j \in 1 .. L - o.pos + 1
      /\ o.freed \in 0 .. MaxHeld /\ -o.freed \in Int /\ ~(-o.freed > 0)
  BY <1>1, OpFacts DEF Charging, SoundOp
<1>3. Len(up) = L - o.pos + 1 /\ up[o.j] = c[i0] /\ i0 \in 1 .. L
  <2>1. /\ Len(AllTrackers[c[o.pos]]) = L - o.pos + 1
        /\ \A j \in 1 .. L - o.pos + 1 : AllTrackers[c[o.pos]][j] = c[o.pos + j - 1]
    BY <1>2, ChainFacts DEF Charging
  <2>2. o.pos \in Int /\ o.j \in Int
    BY OpFacts
  <2> HIDE DEF c, L, o
  <2>3. o.pos + o.j - 1 \in 1 .. L /\ o.j \in 1 .. L - o.pos + 1
    BY <1>2, <2>2
  <2> QED BY <2>1, <2>3
<1> HIDE DEF up
<1>4. q \in OpRecs /\ q.at = (IF o.j < L - o.pos + 1 THEN "free" ELSE "check")
      /\ q.pos = o.pos /\ q.bytes = o.bytes /\ q.minimal = o.minimal /\ q.mode = o.mode
      /\ q.j = o.j + 1 /\ q.freed = o.freed
  <2>1. o \in OpRecs
    BY OpFacts
  <2>2. CASE o.j < Len(up)
    <3>1. q = Freed(o, "free") /\ "free" \in OpSteps /\ o.j < L - o.pos + 1
      BY <1>3, <2>2 DEF Freed, OpSteps
    <3> HIDE DEF o, L, c, q
    <3> QED BY <2>1, <3>1, FreedFacts
  <2>3. CASE ~(o.j < Len(up))
    <3>1. q = Freed(o, "check") /\ "check" \in OpSteps /\ ~(o.j < L - o.pos + 1)
      BY <1>3, <2>3 DEF Freed, OpSteps
    <3> HIDE DEF o, L, c, q
    <3> QED BY <2>1, <3>1, FreedFacts
  <2> QED BY <2>2, <2>3
<1> HIDE DEF q
<1>5. SoundOp(L, held[th], q)
  <2>1. SoundOp(L, held[th], o)
    BY OpFacts
  <2>2. q.at \in {"free", "check"} /\ (q.at = "free" => q.j \in 1 .. L - q.pos + 1)
    <3>1. o.pos \in Int /\ o.j \in Int
      BY OpFacts
    <3> HIDE DEF c, L, o
    <3> QED BY <1>2, <1>4, <3>1
  <2> HIDE DEF c, L, o
  <2> QED BY <1>1, <1>2, <1>4, <2>1, <2>2 DEF SoundOp
<1>6. Becomes(th, held[th], q)
  BY <1>1, <1>4, <1>5, OpFacts, Rests DEF Becomes
<1>7. \A i \in 1 .. L :
        PosShare(i, L, held[th], q) = Had(th, i) + (IF i = i0 THEN -o.freed ELSE 0)
  <2> HIDE DEF L
  <2>1. \A i \in 1 .. L :
          Had(th, i) = held[th] + (IF i > o.pos THEN o.bytes ELSE 0)
                         + (IF i >= i0 THEN o.freed ELSE 0)
    BY <1>1, <1>2, OpFacts DEF PosShare, ChargedAt, Had, L
  <2>2. \A i \in 1 .. L :
          PosShare(i, L, held[th], q) = held[th] + (IF i > o.pos THEN o.bytes ELSE 0)
                         + (IF o.j < L - o.pos + 1 /\ i >= i0 + 1 THEN o.freed ELSE 0)
    <3>1. o.pos \in Int /\ o.j \in Int /\ held[th] \in Int /\ o.bytes \in Int
      BY OpFacts
    <3> HIDE DEF o, L, c
    <3>2. \A i \in 1 .. L : ChargedAt(i, L, q) <=> i > o.pos
      BY <1>2, <1>4, <3>1 DEF ChargedAt
    <3>3. \A i \in 1 .. L : q.at = "free" /\ i >= q.pos + q.j - 1
                           <=> o.j < L - o.pos + 1 /\ i >= i0 + 1
      BY <1>2, <1>4, <3>1
    <3> HIDE DEF i0
    <3> QED BY <1>4, <3>2, <3>3 DEF PosShare
  <2>3. held[th] \in Int /\ o.bytes \in Int /\ o.freed \in Int /\ o.j \in Int /\ o.pos \in Int
    BY OpFacts
  <2> HIDE DEF o
  <2> QED BY <1>2, <2>1, <2>2, <2>3
<1>8. Room(c[i0], -o.freed)
  BY <1>2 DEF Room
<1>9. Charges(th, held[th], q, i0, -o.freed)
  BY <1>1, <1>2, <1>3, <1>6, <1>7, <1>8 DEF Charges
<1> QED BY <1>2, <1>9, ChargesHold

LEMMA GcChecksKeeps ==
  ASSUME RegInv, AccInv, NEW th \in Thread, GcChecks(th)
  PROVE  AccInv'
<1> DEFINE full == consumption[At(th)] > op[th].goal
<1>1. /\ op[th].at = "check" /\ UNCHANGED <<registry, consumption, cached, held, forced>>
      /\ gcLock' = [gcLock EXCEPT ![At(th)] = None]
      /\ GcReturns(th, full)
  BY DEF GcChecks
<1>2. gcLock' \in [Node -> Thread \cup {None}]
  BY <1>1 DEF AccInv, AccType
<1> HIDE DEF full
<1> QED BY <1>1, <1>2, GcReturnsKeeps

LEMMA CollectStepKeeps ==
  ASSUME RegInv, AccInv, NEW th \in Thread, CollectStep(th)
  PROVE  AccInv'
<1>1. ASSUME NEW i \in 1 .. Cardinality(Node), LimitExceeded(th, i) PROVE AccInv'
  <2>1. i \in Nat
    BY NodesAreFinite, FS_CardinalityType
  <2> QED BY <1>1, <2>1, LimitExceededKeeps
<1> QED BY <1>1, FillCacheKeeps, EmptyCacheKeeps, GcLocksKeeps, GcFreesKeeps, GcChecksKeeps
        DEF CollectStep

-----------------------------------------------------------------------------
(* The theorems.                                                           *)

LEMMA AccStays ==
  ASSUME RegInv, AccInv, UNCHANGED vars
  PROVE  AccInv'
<1>1. /\ tree' = tree /\ handle' = handle /\ walk' = walk /\ consumption' = consumption
      /\ cached' = cached /\ gcLock' = gcLock /\ held' = held /\ op' = op /\ forced' = forced
      /\ missed' = missed
  BY DEF vars, registry, accounts
<1>2. AllTrackers' = AllTrackers
  BY <1>1 DEF AllTrackers
<1>3. \A th \in Thread : Chain(th)' = Chain(th)
  BY <1>1, <1>2 DEF Chain
<1>4. AccType'
  BY <1>1 DEF AccInv, AccType
<1>5. ASSUME NEW th \in Thread PROVE Sound(th)'
  <2>1. Chain(th)' = Chain(th) /\ Sound(th)
    BY <1>3 DEF AccInv
  <2> HIDE DEF Chain
  <2> QED BY <2>1, <1>1 DEF Sound, IsWhole
<1>6. CASE missed
  BY <1>1, <1>4, <1>5, <1>6 DEF AccInv
<1> SUFFICES ASSUME ~missed PROVE AccInv'
  BY <1>6
<1>10. CachesAreWatched /\ Accounted /\ LimitHolds
  BY DEF AccInv
<1>11. CachesAreWatched'
  BY <1>1, <1>10 DEF CachesAreWatched
<1>7. ASSUME NEW k \in Node PROVE Load(k)' = Load(k)
  <2>1. \A th \in Thread : ThreadShare(th, k)' = ThreadShare(th, k)
    <3> SUFFICES ASSUME NEW th \in Thread PROVE ThreadShare(th, k)' = ThreadShare(th, k)
      OBVIOUS
    <3>1. Chain(th)' = Chain(th)
      BY <1>3
    <3> HIDE DEF Chain
    <3> QED BY <3>1, <1>1 DEF ThreadShare
  <2>2. \A t \in Node : CacheShare(t, k)' = CacheShare(t, k)
    BY <1>1, <1>2 DEF CacheShare
  <2>3. Shares(k)' = Shares(k) /\ Caches(k)' = Caches(k)
    BY <2>1, <2>2 DEF Shares, Caches
  <2> QED BY <2>3 DEF Load
<1>8. Accounted'
  BY <1>1, <1>7, <1>10 DEF Accounted
<1>9. LimitHolds'
  BY <1>1, <1>10 DEF LimitHolds, Limit
<1> QED BY <1>4, <1>5, <1>8, <1>9, <1>11 DEF AccInv

LEMMA AccInit == Init => AccInv
<1> SUFFICES ASSUME Init PROVE AccInv
  OBVIOUS
<1>1. /\ consumption = [k \in Node |-> 0] /\ cached = [k \in Node |-> 0]
      /\ gcLock = [k \in Node |-> None] /\ handle = [th \in Thread |-> None]
      /\ held = [th \in Thread |-> 0] /\ op = [th \in Thread |-> NoOp] /\ forced = FALSE
      /\ tree = [t \in Tracker |-> Unused] /\ missed = FALSE
  BY DEF Init
<1>2. AccType
  <2>1. 0 \in 0 .. MaxHeld /\ NoOp \in OpRecs
    BY NoOpFacts, LimitAssumption
  <2>2. /\ consumption \in [Node -> Int] /\ cached \in [Node -> 0 .. MaxHeld]
        /\ held \in [Thread -> 0 .. MaxHeld]
    BY <1>1, <2>1
  <2>3. gcLock \in [Node -> Thread \cup {None}] /\ op \in [Thread -> OpRecs] /\ forced \in BOOLEAN
        /\ missed \in BOOLEAN
    BY <1>1, <2>1
  <2> QED BY <2>2, <2>3 DEF AccType
<1>3. ASSUME NEW th \in Thread PROVE Sound(th)
  <2>1. op[th] = NoOp /\ held[th] = 0
    BY <1>1
  <2> HIDE DEF Chain
  <2> QED BY <2>1, NoOpFacts, LimitAssumption DEF Sound
<1>4. CachesAreWatched
  BY <1>1 DEF CachesAreWatched
<1>5. ASSUME NEW k \in Node PROVE Load(k) = 0
  <2>1. \A th \in Thread : Shares(k)[th] = 0
    BY <1>1 DEF Shares, ThreadShare
  <2>2. \A t \in Node : Caches(k)[t] = 0
    BY <1>1 DEF Caches, CacheShare, When
  <2>3. Total(Shares(k), Thread) = 0 /\ Total(Caches(k), Node) = 0
    BY <2>1, <2>2, NodesAreFinite, TotalNat
  <2> QED BY <2>3 DEF Load
<1>6. Accounted
  BY <1>1, <1>5 DEF Accounted
<1>7. LimitHolds
  <2>1. \A k \in Node : Limit(k) < 0 \/ 0 <= Limit(k)
    BY <1>1, LimitAssumption DEF Limit, Node, Unused
  <2> QED BY <1>1, <2>1 DEF LimitHolds
<1> QED BY <1>2, <1>3, <1>4, <1>6, <1>7 DEF AccInv

Inv == RegInv /\ AccInv

LEMMA InvInit == Init => Inv
BY RegInit, AccInit DEF Inv

LEMMA InvNext == Inv /\ [Next]_vars => Inv'
<1> SUFFICES ASSUME Inv, [Next]_vars PROVE Inv'
  OBVIOUS
<1>1. RegInv /\ AccInv /\ RegInv'
  BY RegNext DEF Inv
<1>2. CASE UNCHANGED vars
  BY <1>1, <1>2, AccStays DEF Inv
<1>3. ASSUME NEW th \in Thread, LookupStep(th) \/ LifetimeStep(th) PROVE Inv'
  <2>1. Leaves(th)
    BY <1>1, <1>3, LookupLeaves, LifetimeLeaves
  <2> QED BY <1>1, <2>1, LeavesHolds DEF Inv
<1>4. ASSUME NEW th \in Thread, ChargeStep(th) \/ CollectStep(th) PROVE Inv'
  BY <1>1, <1>4, ChargeStepKeeps, CollectStepKeeps DEF Inv
<1> QED BY <1>2, <1>3, <1>4 DEF Next

\* What the trackers and their accounts keep, of which the properties below are
\* the visible part.
THEOREM Invariance == Spec => []Inv
<1>1. Init => Inv
  BY InvInit
<1>2. Inv /\ [Next]_vars => Inv'
  BY InvNext
<1> QED BY <1>1, <1>2, PTL DEF Spec

LEMMA InvMem == Inv => MemInv
<1> SUFFICES ASSUME Inv PROVE MemInv
  OBVIOUS
<1>1. RegInv /\ AccInv
  BY DEF Inv
<1>2. TypeOK
  BY <1>1 DEF TypeOK, RegInv, RegType, AccInv, AccType, Walks, OpRecs
<1>3. \A t \in Tracker : References(t) # {} <=> HasRef(t)
  BY AliveIsReferred
<1>4. GlobalNamesAreUnique
  <2> SUFFICES ASSUME NEW t \in listed, NEW u \in listed,
                      tree[t].global, tree[t].parent = Root,
                      tree[u].global, tree[u].parent = Root,
                      tree[t].id = tree[u].id, Alive(t), Alive(u)
               PROVE  t = u
    BY DEF GlobalNamesAreUnique
  <2>1. t \in Tracker /\ u \in Tracker /\ t # Root /\ u # Root
    BY <1>1, NodeAssumption DEF RegInv, RegType
  <2>2. Global(t, tree[t].id) /\ Global(u, tree[t].id)
    BY <2>1, <1>3 DEF Global, Alive
  <2> QED BY <1>1, <2>2 DEF RegInv, Names
<1>5. HandlesAreWhole
  <2>1. \A th \in Thread : handle[th] # None => Handed(handle[th])
    BY <1>1 DEF RegInv, Doing
  <2>2. \A t \in Tracker : tree[t].state = "none" => References(t) = {}
    BY <1>1, <1>3 DEF RegInv, Life
  <2> QED BY <2>1, <2>2 DEF HandlesAreWhole, Handed
<1>6. NoneIsLost
  BY <1>1, <1>3 DEF RegInv, Life, Ends, NoneIsLost
<1> QED BY <1>2, <1>4, <1>5, <1>6 DEF MemInv

\* FindOrCreateGlobalTracker makes at most one live tracker of an id, also while
\* others create children of the root with the id; who charges a tracker that is
\* not initialized has got it from such a search; and every tracker is referred
\* to or being destroyed, whatever searches, listings and destructors overlap.
THEOREM TrackersAreWhole == Spec => []MemInv
<1>1. Spec => []Inv
  BY Invariance
<1>2. Inv => MemInv
  BY InvMem
<1> QED BY <1>1, <1>2, PTL

LEMMA InvAccounts == Inv => AccountsAreExact
<1> SUFFICES ASSUME Inv, ~missed
             PROVE  /\ CachesAreWatched
                    /\ \A k \in Node : consumption[k] = Load(k)
                    /\ \A k \in Node : consumption[k] >= 0
                    /\ \A th \in Thread :
                         walk[th].at = "destroy" => consumption[walk[th].temp] = 0
  BY DEF AccountsAreExact
<1>1. RegInv /\ AccInv
  BY DEF Inv
<1>2. \A k \in Node : consumption[k] = Load(k)
  BY <1>1 DEF AccInv, Accounted
<1>3. \A k \in Node : consumption[k] >= 0
  <2>1. \A k \in Node : Load(k) \in Nat
    BY <1>1, LoadsAreNat DEF AccInv
  <2> QED BY <1>2, <2>1
<1>4. ASSUME NEW th \in Thread, walk[th].at = "destroy" PROVE consumption[walk[th].temp] = 0
  <2>1. walk[th].temp \in Tracker
    BY <1>1, <1>4 DEF RegInv, Doing
  <2>2. Ends(th, walk[th].temp)
    BY <1>4 DEF Ends
  <2>3. ~HasRef(walk[th].temp)
    BY <1>1, <2>1, <2>2 DEF RegInv, Life
  <2> QED BY <1>1, <2>1, <2>3, LoadsOfTheUnreferred
<1> QED BY <1>1, <1>2, <1>3, <1>4 DEF AccInv

\* Unless bytes were charged on a tracker that was not initialized, no path of a
\* charge leaks bytes or releases them twice, on any tracker, and a destructor
\* finds 0.
THEOREM AccountsStayExact == Spec => []AccountsAreExact
<1>1. Spec => []Inv
  BY Invariance
<1>2. Inv => AccountsAreExact
  BY InvAccounts
<1> QED BY <1>1, <1>2, PTL

\* As long as everybody asks, and trackers are initialized before they are charged,
\* no tracker exceeds its limit.
THEOREM LimitsHold == Spec => []LimitHolds
<1>1. Spec => []Inv
  BY Invariance
<1>2. Inv => LimitHolds
  BY DEF Inv, AccInv, LimitHolds
<1> QED BY <1>1, <1>2, PTL
=============================================================================
