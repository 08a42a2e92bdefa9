---------------------------- MODULE InventoryProofs ----------------------------
(***************************************************************************)
(* Theorems about Inventory, the atomic promise of spools and slots, and   *)
(* about the two specifications that extend it: AmsReconciliation, which   *)
(* aligns the slots with what a printer reports, and Pages, which reads    *)
(* what Inventory does.  For every number of spools, slots, grams, trays,  *)
(* drawers and browsers.                                                   *)
(***************************************************************************)
EXTENDS Pages, AmsReconciliation, StockProofs, FiniteSetTheorems

-------------------------------------------------------------------------------
(* Numbers.                                                                *)

(* A set of numbers that has 0 and, with each number, the next has all.    *)
LEMMA Inductive ==
    ASSUME NEW S, 0 \in S, \A n \in Nat : n \in S => n + 1 \in S
    PROVE  \A n \in Nat : n \in S
  <1> DEFINE R == OpToRel(<, Nat)
             T == {n \in Nat : n \notin S}
  <1>1. \A x, y \in Nat : x < y => <<x, y>> \in R
    BY DEF OpToRel
  <1>2. IsWellFoundedOn(R, Nat)
    BY NatLessThanWellFounded
  <1> HIDE DEF R
  <1>3. SUFFICES ASSUME T # {} PROVE FALSE
    OBVIOUS
  <1>4. PICK x \in T : \A y \in T : ~ (<<y, x>> \in R)
    <2>1. T \subseteq Nat
      OBVIOUS
    <2> HIDE DEF T
    <2> QED BY <1>2, <1>3, <2>1, WFMin
  <1>5. x # 0 /\ x - 1 \in Nat /\ (x - 1) + 1 = x /\ x - 1 < x
    <2>1. x \in Nat /\ x # 0
      BY <1>4
    <2> QED BY <2>1
  <1>6. x - 1 \in S
    BY <1>1, <1>4, <1>5
  <1> QED BY <1>4, <1>5, <1>6

(* A set of numbers that is not empty has a least one.                     *)
LEMMA Least ==
    ASSUME NEW S \in SUBSET Nat, S # {}
    PROVE  \E n \in S : \A m \in S : n <= m
  <1> SUFFICES ASSUME ~ \E n \in S : \A m \in S : n <= m PROVE FALSE
    OBVIOUS
  <1> DEFINE T == {n \in Nat : \A m \in S : n <= m}
  <1>1. 0 \in T
    OBVIOUS
  <1>2. ASSUME NEW n \in Nat, n \in T PROVE n + 1 \in T
    <2>1. n \notin S
      BY <1>2
    <2>2. \A m \in S : n <= m /\ m # n /\ m \in Nat
      BY <1>2, <2>1
    <2> QED BY <2>2
  <1> HIDE DEF T
  <1>3. \A n \in Nat : n \in T
    BY <1>1, <1>2, Inductive
  <1>4. PICK s \in S : TRUE
    OBVIOUS
  <1>5. s \in Nat /\ s + 1 \in T
    BY <1>3
  <1> QED BY <1>5 DEF T

-------------------------------------------------------------------------------
(* Sums over finite sets.                                                  *)

(* The element a sum takes out of a set first.                             *)
Some(T) == CHOOSE x \in T : TRUE

(* w gives the sum of f over each of the subsets of D.                     *)
Sums(f, D, w) ==
    w = [T \in SUBSET D |-> IF T = {} THEN 0 ELSE f[Some(T)] + w[T \ {Some(T)}]]

(* The sums of f over the subsets of D.                                    *)
SumsOf(f, D) == CHOOSE w : Sums(f, D, w)

(* What the community module adds up is the entry of all elements.         *)
LEMMA SumIs == ASSUME NEW f PROVE SumFunction(f) = SumsOf(f, DOMAIN f)[DOMAIN f]
  BY Zenon DEF SumFunction, SumFunctionOnSet, FoldFunctionOnSet, MapThenFoldSet, SumsOf, Sums, Some

(* The subsets of a finite set, by their size.                             *)
LEMMA Smaller ==
    ASSUME NEW D, IsFiniteSet(D), NEW T \in SUBSET D
    PROVE  /\ IsFiniteSet(T) /\ Cardinality(T) \in Nat /\ Cardinality(T) <= Cardinality(D)
           /\ T = {} <=> Cardinality(T) = 0
           /\ \A x \in T : T \ {x} \in SUBSET D /\ Cardinality(T \ {x}) = Cardinality(T) - 1
           /\ T # {} => Some(T) \in T
  <1>1. IsFiniteSet(T) /\ Cardinality(T) <= Cardinality(D) /\ Cardinality(T) \in Nat
    BY FS_Subset, FS_CardinalityType
  <1>2. \A x \in T : Cardinality(T \ {x}) = Cardinality(T) - 1
    BY <1>1, FS_RemoveElement
  <1> QED BY <1>1, <1>2, FS_EmptySet DEF Some

(* The recursion over the subsets of a finite set has a solution.          *)
LEMMA SumsExist ==
    ASSUME NEW D, IsFiniteSet(D), NEW f
    PROVE  Sums(f, D, SumsOf(f, D))
  <1> DEFINE Term(w, T) == IF T = {} THEN 0 ELSE f[Some(T)] + w[T \ {Some(T)}]
             Upto(n) == {T \in SUBSET D : Cardinality(T) <= n}
             S == {n \in Nat : \E w : \A T \in Upto(n) : w[T] = Term(w, T)}
  <1>1. 0 \in S
    <2> DEFINE w == [T \in SUBSET D |-> 0]
    <2>1. \A T \in Upto(0) : w[T] = Term(w, T)
      BY Smaller
    <2> QED BY <2>1
  <1>2. ASSUME NEW n \in Nat, n \in S
        PROVE  n + 1 \in S
    <2>1. PICK w : \A T \in Upto(n) : w[T] = Term(w, T)
      BY <1>2
    <2> DEFINE v == [T \in SUBSET D |-> IF T \in Upto(n) THEN w[T] ELSE Term(w, T)]
    <2>2. ASSUME NEW T \in Upto(n + 1) PROVE v[T] = Term(v, T)
      <3>1. T # {} => T \ {Some(T)} \in Upto(n)
        BY <1>2, Smaller
      <3>2. v[T] = Term(w, T)
        BY <2>1
      <3> QED BY <3>1, <3>2
    <2> HIDE DEF v, Term, Upto
    <2>3. \E u : \A T \in Upto(n + 1) : u[T] = Term(u, T)
      BY <2>2
    <2> QED BY <2>3
  <1>3. Cardinality(D) \in Nat /\ \A T \in SUBSET D : T \in Upto(Cardinality(D))
    BY Smaller, FS_CardinalityType
  <1>4. Cardinality(D) \in S
    <2> HIDE DEF S
    <2> QED BY <1>1, <1>2, <1>3, Inductive
  <1>5. PICK w : \A T \in SUBSET D : w[T] = Term(w, T)
    BY <1>3, <1>4
  <1> DEFINE v == [T \in SUBSET D |-> w[T]]
  <1>6. Sums(f, D, v)
    <2>1. \A T \in SUBSET D : T \ {Some(T)} \in SUBSET D
      OBVIOUS
    <2> QED BY <1>5, <2>1 DEF Sums
  <1> HIDE DEF v
  <1> QED BY <1>6 DEF SumsOf

(* Sums over the subsets of two sets agree where the terms do.             *)
LEMMA SumsAgree ==
    ASSUME NEW D, IsFiniteSet(D), NEW C \in SUBSET D, NEW f, NEW g, NEW v, NEW w,
           Sums(f, D, v), Sums(g, C, w), \A x \in C : f[x] = g[x]
    PROVE  \A T \in SUBSET C : v[T] = w[T]
  <1> DEFINE S == {n \in Nat : \A T \in SUBSET C : Cardinality(T) = n => v[T] = w[T]}
  <1>1. IsFiniteSet(C)
    BY FS_Subset
  <1>2. 0 \in S
    <2> SUFFICES ASSUME NEW T \in SUBSET C, Cardinality(T) = 0 PROVE v[T] = w[T]
      OBVIOUS
    <2>1. T = {} /\ T \in SUBSET D
      BY <1>1, Smaller
    <2> QED BY <2>1 DEF Sums
  <1>3. ASSUME NEW n \in Nat, n \in S
        PROVE  n + 1 \in S
    <2> SUFFICES ASSUME NEW T \in SUBSET C, Cardinality(T) = n + 1 PROVE v[T] = w[T]
      OBVIOUS
    <2>1. /\ T # {} /\ Some(T) \in T /\ T \in SUBSET D
          /\ T \ {Some(T)} \in SUBSET C /\ Cardinality(T \ {Some(T)}) = n
      BY <1>1, Smaller
    <2>2. v[T \ {Some(T)}] = w[T \ {Some(T)}]
      BY <1>3, <2>1
    <2>3. v[T] = f[Some(T)] + v[T \ {Some(T)}] /\ w[T] = g[Some(T)] + w[T \ {Some(T)}]
      BY <2>1 DEF Sums
    <2> QED BY <2>1, <2>2, <2>3
  <1>4. \A n \in Nat : n \in S
    <2> HIDE DEF S
    <2> QED BY <1>2, <1>3, Inductive
  <1> QED BY <1>1, <1>4, Smaller

(* The sum over a part is the sum of the function on it.                   *)
LEMMA SumOfPart ==
    ASSUME NEW D, IsFiniteSet(D), NEW f, NEW w, Sums(f, D, w), NEW C \in SUBSET D
    PROVE  w[C] = SumFunction([x \in C |-> f[x]])
  <1> DEFINE g == [x \in C |-> f[x]]
  <1>1. SumFunction(g) = SumsOf(g, C)[C]
    BY SumIs
  <1>2. Sums(g, C, SumsOf(g, C))
    BY FS_Subset, SumsExist
  <1>3. \A x \in C : f[x] = g[x]
    OBVIOUS
  <1> HIDE DEF g
  <1>4. \A T \in SUBSET C : w[T] = SumsOf(g, C)[T]
    BY <1>2, <1>3, SumsAgree
  <1> QED BY <1>1, <1>4 DEF g

(* Any element may be added last.                                          *)
LEMMA SumsByAny ==
    ASSUME NEW D, IsFiniteSet(D), NEW f, \A x \in D : f[x] \in Nat, NEW w, Sums(f, D, w)
    PROVE  \A T \in SUBSET D : w[T] \in Nat /\ \A x \in T : w[T] = f[x] + w[T \ {x}]
  <1> DEFINE Good(T) == w[T] \in Nat /\ \A x \in T : w[T] = f[x] + w[T \ {x}]
             S == {n \in Nat : \A T \in SUBSET D : Cardinality(T) <= n => Good(T)}
  <1>1. 0 \in S
    <2> SUFFICES ASSUME NEW T \in SUBSET D, Cardinality(T) <= 0 PROVE Good(T)
      OBVIOUS
    <2>1. T = {}
      BY Smaller
    <2> QED BY <2>1 DEF Sums
  <1>2. ASSUME NEW n \in Nat, n \in S
        PROVE  n + 1 \in S
    <2> SUFFICES ASSUME NEW T \in SUBSET D, Cardinality(T) <= n + 1 PROVE Good(T)
      OBVIOUS
    <2>0. CASE T = {}
      BY <2>0 DEF Sums
    <2>1. CASE T # {}
      <3> DEFINE c == Some(T)
      <3>1. c \in T /\ c \in D /\ \A x \in T : T \ {x} \in SUBSET D /\ Cardinality(T \ {x}) <= n
        BY <2>1, Smaller
      <3>2. w[T] = f[c] + w[T \ {c}]
        BY <2>1 DEF Sums
      <3> HIDE DEF c
      <3>3. \A x \in T : Good(T \ {x})
        BY <1>2, <3>1
      <3>4. ASSUME NEW x \in T, x # c PROVE w[T] = f[x] + w[T \ {x}]
        <4> DEFINE U == (T \ {c}) \ {x}
        <4>1. (T \ {x}) \ {c} = U
          OBVIOUS
        <4>2. w[T \ {c}] = f[x] + w[U] /\ w[T \ {x}] = f[c] + w[U]
          BY <3>1, <3>3, <3>4, <4>1
        <4>3. w[U] \in Nat
          <5> DEFINE V == T \ {c}
          <5>1. V \in SUBSET D /\ x \in V /\ Cardinality(V) <= n
            BY <3>1, <3>4
          <5> HIDE DEF V
          <5>2. V \ {x} \in SUBSET D /\ Cardinality(V \ {x}) <= n
            BY <5>1, Smaller
          <5> QED BY <1>2, <5>2 DEF V
        <4> HIDE DEF U
        <4> QED BY <3>1, <3>2, <4>2, <4>3
      <3>5. w[T] \in Nat
        BY <3>1, <3>2, <3>3
      <3> QED BY <3>2, <3>4, <3>5
    <2> QED BY <2>0, <2>1
  <1>3. \A n \in Nat : n \in S
    <2> HIDE DEF S
    <2> QED BY <1>1, <1>2, Inductive
  <1>4. ASSUME NEW T \in SUBSET D PROVE Good(T)
    <2>1. Cardinality(T) \in Nat
      BY Smaller
    <2>2. Cardinality(T) \in S
      BY <1>3, <2>1
    <2> QED BY <2>1, <2>2
  <1> QED BY <1>4

(* The sum of f over T.                                                    *)
On(f, T) == SumFunction([x \in T |-> f[x]])

(* A sum over part of a finite set, with any element added last.           *)
LEMMA OnIs ==
    ASSUME NEW D, IsFiniteSet(D), NEW f, \A x \in D : f[x] \in Nat
    PROVE  /\ On(f, {}) = 0
           /\ \A T \in SUBSET D : On(f, T) \in Nat /\ \A x \in T : On(f, T) = f[x] + On(f, T \ {x})
  <1> DEFINE w == SumsOf(f, D)
  <1>1. Sums(f, D, w)
    BY SumsExist
  <1> HIDE DEF w
  <1>2. \A T \in SUBSET D : w[T] = On(f, T)
    BY <1>1, SumOfPart DEF On
  <1>3. \A T \in SUBSET D : w[T] \in Nat /\ \A x \in T : w[T] = f[x] + w[T \ {x}]
    BY <1>1, SumsByAny
  <1>4. w[{}] = 0
    BY <1>1 DEF Sums
  <1>5. \A T \in SUBSET D : \A x \in T : T \ {x} \in SUBSET D
    OBVIOUS
  <1> QED BY <1>2, <1>3, <1>4, <1>5

(* A sum is that of the sums over the classes of h.                        *)
Class(h, T, m) == {x \in T : h[x] = m}
ByClass(f, h, T) == [m \in {h[x] : x \in T} |-> On(f, Class(h, T, m))]

(* The image of a finite set is finite. *)
LEMMA ImageFinite ==
    ASSUME NEW S, IsFiniteSet(S), NEW f
    PROVE  IsFiniteSet({f[x] : x \in S})
  <1> DEFINE T == {f[x] : x \in S}
             g == [x \in S |-> f[x]]
  <1>1. g \in [S -> T] /\ \A y \in T : \E x \in S : g[x] = y
    OBVIOUS
  <1> HIDE DEF T, g
  <1>2. g \in Surjection(S, T)
    BY <1>1 DEF Surjection
  <1>3. IsFiniteSet(T)
    BY <1>2, FS_Surjection
  <1> QED BY <1>3 DEF T

(* The sums of the classes of h add up to the sum of all.                  *)
LEMMA Regroup ==
    ASSUME NEW D, IsFiniteSet(D), NEW f, \A x \in D : f[x] \in Nat, NEW h
    PROVE  SumFunction(ByClass(f, h, D)) = On(f, D)
  <1> DEFINE Groups(T) == {h[x] : x \in T}
             S == {n \in Nat : \A T \in SUBSET D :
                       Cardinality(T) <= n => SumFunction(ByClass(f, h, T)) = On(f, T)}
  <1>1. \A T \in SUBSET D : IsFiniteSet(Groups(T))
    <2> TAKE T \in SUBSET D
    <2>1. IsFiniteSet(T)
      BY FS_Subset
    <2> QED BY <2>1, ImageFinite
  <1>2. \A T \in SUBSET D : \A m : Class(h, T, m) \in SUBSET D /\ On(f, Class(h, T, m)) \in Nat
    BY OnIs DEF Class
  <1>3. ASSUME NEW T \in SUBSET D
        PROVE  /\ SumFunction(ByClass(f, h, T)) = On(ByClass(f, h, T), Groups(T))
               /\ \A m \in Groups(T) : ByClass(f, h, T)[m] = On(f, Class(h, T, m))
    BY DEF ByClass, On
  <1>4. 0 \in S
    <2> SUFFICES ASSUME NEW T \in SUBSET D, Cardinality(T) <= 0
                 PROVE  SumFunction(ByClass(f, h, T)) = On(f, T)
      OBVIOUS
    <2>1. T = {}
      BY Smaller
    <2>2. ByClass(f, h, T) = [x \in {} |-> f[x]]
      BY <2>1 DEF ByClass
    <2> QED BY <2>1, <2>2 DEF On
  <1>5. ASSUME NEW n \in Nat, n \in S
        PROVE  n + 1 \in S
    <2> SUFFICES ASSUME NEW T \in SUBSET D, Cardinality(T) <= n + 1
                 PROVE  SumFunction(ByClass(f, h, T)) = On(f, T)
      OBVIOUS
    <2>1. CASE T = {}
      <3>1. ByClass(f, h, T) = [x \in {} |-> f[x]]
        BY <2>1 DEF ByClass
      <3> QED BY <2>1, <3>1 DEF On
    <2>2. CASE T # {}
      <3> DEFINE c == Some(T)
                 m == h[c]
                 U == T \ {c}
                 b == ByClass(f, h, T)
                 d == ByClass(f, h, U)
                 G == Groups(T)
                 H == Groups(U)
      <3>1. c \in T /\ U \in SUBSET D /\ Cardinality(U) <= n
        BY <2>2, Smaller
      <3>2. SumFunction(d) = On(f, U)
        BY <1>5, <3>1
      <3> HIDE DEF c
      <3>3. G = H \cup {m} /\ G \ {m} = H \ {m}
        BY <3>1
      <3>4. /\ \A k : k # m => Class(h, T, k) = Class(h, U, k)
            /\ c \in Class(h, T, m) /\ Class(h, T, m) \ {c} = Class(h, U, m)
        BY <3>1 DEF Class
      <3>5. /\ \A k \in G : b[k] = On(f, Class(h, T, k)) /\ b[k] \in Nat
            /\ \A k \in H : d[k] = On(f, Class(h, U, k)) /\ d[k] \in Nat
            /\ SumFunction(b) = On(b, G) /\ SumFunction(d) = On(d, H)
        BY <1>2, <1>3, <3>1
      <3>6. IsFiniteSet(G) /\ IsFiniteSet(H)
        BY <1>1, <3>1
      <3>7. m \in G /\ b[m] = f[c] + On(f, Class(h, U, m)) /\ On(f, Class(h, U, m)) \in Nat
        <4>1. On(f, Class(h, T, m)) = f[c] + On(f, Class(h, U, m))
          <5> DEFINE C == Class(h, T, m)
          <5>1. C \in SUBSET D /\ c \in C
            BY <3>4 DEF Class
          <5> HIDE DEF C
          <5>2. On(f, C) = f[c] + On(f, C \ {c})
            BY <5>1, OnIs
          <5> QED BY <3>4, <5>2 DEF C
        <4> QED BY <1>2, <3>1, <3>3, <3>5, <4>1
      <3>8. m \notin H => Class(h, U, m) = {}
        BY DEF Class
      <3>9. \A k \in H \ {m} : b[k] = d[k]
        BY <3>3, <3>4, <3>5
      <3>10. On(f, T) = f[c] + On(f, U) /\ f[c] \in Nat /\ On(f, U) \in Nat
        BY <3>1, OnIs
      <3> HIDE DEF m, U, b, d, G, H
      <3>11. On(b, G) = b[m] + On(b, H \ {m})
        BY <3>3, <3>5, <3>6, <3>7, OnIs
      <3>12. On(b, H \ {m}) = On(d, H \ {m})
        <4>1. [x \in H \ {m} |-> b[x]] = [x \in H \ {m} |-> d[x]]
          BY <3>9
        <4> QED BY <4>1 DEF On
      <3>13. /\ On(f, {}) = 0
             /\ m \in H => On(d, H) = d[m] + On(d, H \ {m})
             /\ m \notin H => H \ {m} = H
             /\ On(d, H \ {m}) \in Nat
        <4>1. H \ {m} \in SUBSET H
          OBVIOUS
        <4>2. On(f, {}) = 0
          BY OnIs
        <4>3. \A C \in SUBSET H : On(d, C) \in Nat /\ \A x \in C : On(d, C) = d[x] + On(d, C \ {x})
          <5>1. IsFiniteSet(H) /\ \A x \in H : d[x] \in Nat
            BY <3>5, <3>6
          <5> QED BY <5>1, OnIs
        <4> QED BY <4>1, <4>2, <4>3
      <3>14. On(b, G) = On(f, T)
        <4> DEFINE rest == On(d, H \ {m})
                   part == On(f, Class(h, U, m))
        <4>1. /\ On(b, G) = (f[c] + part) + rest /\ On(f, T) = f[c] + On(d, H)
              /\ f[c] \in Nat /\ part \in Nat /\ rest \in Nat
          BY <3>2, <3>5, <3>7, <3>10, <3>11, <3>12, <3>13
        <4>2. m \in H => On(d, H) = part + rest
          BY <3>5, <3>13
        <4>3. m \notin H => On(d, H) = rest /\ part = 0
          BY <3>8, <3>13
        <4> HIDE DEF rest, part
        <4>4. CASE m \in H
          BY <4>1, <4>2, <4>4
        <4>5. CASE m \notin H
          BY <4>1, <4>3, <4>5
        <4> QED BY <4>4, <4>5
      <3> QED BY <3>5, <3>14 DEF b
    <2> QED BY <2>1, <2>2
  <1>6. Cardinality(D) \in S
    <2>1. Cardinality(D) \in Nat
      BY FS_CardinalityType
    <2> HIDE DEF S
    <2> QED BY <1>4, <1>5, <2>1, Inductive
  <1>7. Cardinality(D) <= Cardinality(D) /\ D \in SUBSET D
    BY FS_CardinalityType
  <1> QED BY <1>6, <1>7

-------------------------------------------------------------------------------
(* The promise itself.                                                     *)

(* Types, rows whose weight and status agree, and slots that hold only     *)
(* spools that are there and loadable, each in one slot.  The agreement is *)
(* needed for the types: a command computes a weight within the net weight *)
(* from one that is.                                                       *)
Inv ==
    /\ TypeOK
    /\ \A s \in Rows : Consistent(spools[s])
    /\ LoadedIsLoadable
    /\ Exclusive

(* No row yet, every slot empty.                                           *)
LEMMA InvInit == Init => Inv
  BY DEF Init, Inv, TypeOK, Rows, LoadedIsLoadable, Exclusive, HeldOnce

(* A command that leaves a spool neither Sealed nor Open found it so, or   *)
(* unloads it.                                                             *)
LEMMA OperateLoadable ==
    ASSUME NEW cmd \in Commands, NEW sp \in Spool, Loadable(sp)
    PROVE  Loadable(Apply(cmd, sp)) \/ Unloads(cmd, Apply(cmd, sp))
  <1>1. CASE cmd.op \notin {"assign_location", "memorize_ams_tag"}
    BY <1>1, ApplyUnloads
  <1>2. CASE cmd.op = "assign_location"
    BY <1>2 DEF Apply, Loadable, Spool
  <1>3. CASE cmd.op = "memorize_ams_tag"
    BY <1>3 DEF Apply, Loadable, Spool
  <1> QED BY <1>1, <1>2, <1>3

(* Each command preserves types, consistency and the slots.                *)
LEMMA InvStep == Inv /\ [Next]_vars => Inv'
  <1> SUFFICES ASSUME Inv, [Next]_vars
               PROVE  Inv'
    OBVIOUS
  <1> USE DEF Inv, TypeOK, Rows, LoadedIsLoadable, Exclusive, HeldOnce
  <1>1. ASSUME NEW s \in SpoolIds, Create(s)
        PROVE  Inv'
    <2> PICK condition \in Conditions, net \in NetWeights, entered \in Grams,
             location \in Locations \cup {NoLocation} :
             spools' = [spools EXCEPT ![s] = NewSpool(condition, net, entered, location)]
      BY <1>1 DEF Create
    <2> DEFINE new == NewSpool(condition, net, entered, location)
    <2>1. new \in Spool /\ Consistent(new)
      BY NewSpoolOK
    <2>2. spools' = [spools EXCEPT ![s] = new] /\ spools[s] = NoRow /\ UNCHANGED slots
      BY <1>1 DEF Create
    <2> HIDE DEF new
    <2>3. TypeOK' /\ \A t \in Rows' : Consistent(spools'[t])
      BY <2>1, <2>2, StockAssumption
    <2>4. \A t \in Rows : t \in Rows' /\ spools'[t] = spools[t]
      BY <2>1, <2>2, StockAssumption
    <2> QED BY <2>2, <2>3, <2>4
  <1>2. ASSUME NEW s \in SpoolIds, NEW cmd \in Commands, Operate(s, cmd)
        PROVE  Inv'
    <2> DEFINE row == Apply(cmd, spools[s])
    <2>1. spools[s] \in Spool /\ Consistent(spools[s])
      BY <1>2 DEF Operate
    <2>2. row \in Spool /\ Consistent(row) /\ row # NoRow
      BY <1>2, <2>1, ApplyOK, StockAssumption DEF Operate
    <2>3. Loadable(spools[s]) => Loadable(row) \/ Unloads(cmd, row)
      BY <2>1, OperateLoadable
    <2>4. /\ spools' = [spools EXCEPT ![s] = row]
          /\ slots' = IF Unloads(cmd, row) THEN Without(slots, s) ELSE slots
      BY <1>2 DEF Operate
    <2> HIDE DEF row
    <2>5. Without(slots, s) \in [SlotIds -> SpoolIds \cup {NoSpool}]
      BY WithoutType
    <2>6. \A sl \in SlotIds : Without(slots, s)[sl] =
             IF slots[sl] = s THEN NoSpool ELSE slots[sl]
      BY WithoutSlots
    <2> QED BY <2>2, <2>3, <2>4, <2>5, <2>6, SlotsAssumption
  <1>3. ASSUME NEW s \in SpoolIds, NEW target \in SlotIds, Load(s, target)
        PROVE  Inv'
    <2>1. Moved(slots, s, target) \in [SlotIds -> SpoolIds \cup {NoSpool}]
      BY MovedType
    <2>2. \A sl \in SlotIds : Moved(slots, s, target)[sl] =
             IF sl = target THEN s ELSE IF slots[sl] = s THEN NoSpool ELSE slots[sl]
      BY MovedSlots
    <2> QED BY <1>3, <2>1, <2>2, SlotsAssumption DEF Load
  <1>4. ASSUME NEW sl \in SlotIds, Unload(sl)
        PROVE  Inv'
    BY <1>4 DEF Unload
  <1>5. CASE UNCHANGED vars
    BY <1>5 DEF vars
  <1> QED BY <1>1, <1>2, <1>3, <1>4, <1>5 DEF Next

(* No spool is in two slots, whatever is created, changed, loaded and      *)
(* unloaded.                                                               *)
THEOREM InventoryExclusivity == Spec => []Exclusive
  <1>1. Inv => Exclusive
    BY DEF Inv
  <1> QED BY <1>1, InvInit, InvStep, PTL DEF Spec

(* A slot never keeps an Empty or Archived spool: every command that makes *)
(* a loaded spool so unloads it, relocations and tags leave a Sealed or    *)
(* Open spool as it is.                                                    *)
THEOREM LoadedStaysLoadable == Spec => []LoadedIsLoadable
  <1>1. Inv => LoadedIsLoadable
    BY DEF Inv
  <1> QED BY <1>1, InvInit, InvStep, PTL DEF Spec

-------------------------------------------------------------------------------
(* Exclusivity, whatever overlaps or is cut off.                           *)

(* No step depends on what a confirmation asks for: whichever spool or     *)
(* slot it names, a move empties before it fills.                          *)
SlotsInv ==
    /\ slots = [sl \in SlotIds |-> slots[sl]]
    /\ Exclusive

(* Emptying slots leaves no spool in two.                                  *)
LEMMA WithoutOnce ==
    ASSUME NEW held, HeldOnce(held), NEW s
    PROVE  HeldOnce(Without(held, s))
  BY DEF HeldOnce, Without

(* A move leaves the spool in its target only.                             *)
LEMMA MovedOnce ==
    ASSUME NEW held, HeldOnce(held), NEW s, NEW sl
    PROVE  HeldOnce(Moved(held, s, sl))
  BY DEF HeldOnce, Moved, Without

(* No step of a drawer or of another request puts a spool in two slots.    *)
LEMMA SlotsInvStep == SlotsInv /\ [AmsNext]_amsVars => SlotsInv'
  <1> SUFFICES ASSUME SlotsInv, [AmsNext]_amsVars
               PROVE  SlotsInv'
    OBVIOUS
  <1>1. ASSUME NEW s, slots' = Without(slots, s)
        PROVE  SlotsInv'
    BY <1>1, WithoutOnce DEF SlotsInv, Exclusive, Without
  <1>2. ASSUME NEW s, NEW sl, slots' = Moved(slots, s, sl)
        PROVE  SlotsInv'
    BY <1>2, MovedOnce DEF SlotsInv, Exclusive, Moved, Without
  <1>3. ASSUME NEW sl, slots' = [slots EXCEPT ![sl] = NoSpool]
        PROVE  SlotsInv'
    BY <1>3 DEF SlotsInv, Exclusive, HeldOnce
  <1>4. ASSUME slots' = slots
        PROVE  SlotsInv'
    BY <1>4 DEF SlotsInv, Exclusive
  <1>5. ASSUME NEW d \in Drawers, Reconcile(d)
        PROVE  SlotsInv'
    BY <1>2, <1>3, <1>4, <1>5
    DEF Reconcile, Sync, ApplyPlan, ListPrinters, FetchTrays, FetchFails, SetOffline,
        MatchTrays, OpenDrawer, CloseDrawer, Confirm, KeepRow, UnloadRow, FindSpool,
        SaveTag, SkipTag, CheckRow, MoveRow, RefuseRow, Finish
  <1>6. ASSUME NEW d \in Drawers, Abort(d)
        PROVE  SlotsInv'
    BY <1>4, <1>6 DEF Abort
  <1>7. ASSUME Others
        PROVE  SlotsInv'
    BY <1>1, <1>2, <1>3, <1>4, <1>7 DEF Others, Operate, Load, Unload
  <1>8. CASE UNCHANGED amsVars
    BY <1>4, <1>8 DEF amsVars
  <1> QED BY <1>5, <1>6, <1>7, <1>8 DEF AmsNext

(* No spool is in two slots, whatever confirmations, loads, unloads and    *)
(* finished spools overlap or are cut off (load_slot as confirm uses it).  *)
THEOREM AmsExclusivity == AmsSpec => []Exclusive
  <1>1. AmsInit => SlotsInv
    BY DEF AmsInit, SlotsInv, Exclusive, HeldOnce
  <1>2. SlotsInv => Exclusive
    BY DEF SlotsInv
  <1> QED BY <1>1, <1>2, SlotsInvStep, PTL DEF AmsSpec

(* A slot takes a spool only while it is Sealed or Open, however old the   *)
(* drawer a confirmation was chosen from (the locked second look).         *)
THEOREM AmsLoadingIsGuarded == AmsSpec => LoadsOnlyLoadable
  <1> DEFINE Guarded ==
        \A sl \in SlotIds : slots'[sl] \notin {slots[sl], NoSpool} =>
            Loadable(spools[slots'[sl]])
  <1>1. SlotsInv /\ [AmsNext]_amsVars => [Guarded]_amsVars
    <2> SUFFICES ASSUME SlotsInv, AmsNext
                 PROVE  Guarded
      BY DEF amsVars
    <2>1. ASSUME NEW s, slots' = Without(slots, s)
          PROVE  Guarded
      BY <2>1 DEF Without
    <2>2. ASSUME NEW s, NEW sl, Loadable(spools[s]), slots' = Moved(slots, s, sl)
          PROVE  Guarded
      BY <2>2 DEF Moved, Without
    <2>3. ASSUME NEW sl, slots' = [slots EXCEPT ![sl] = NoSpool]
          PROVE  Guarded
      BY <2>3 DEF SlotsInv
    <2>4. ASSUME slots' = slots
          PROVE  Guarded
      BY <2>4
    <2>5. ASSUME NEW d \in Drawers, Reconcile(d)
          PROVE  Guarded
      BY <2>2, <2>3, <2>4, <2>5
      DEF Reconcile, Sync, ApplyPlan, ListPrinters, FetchTrays, FetchFails, SetOffline,
          MatchTrays, OpenDrawer, CloseDrawer, Confirm, KeepRow, UnloadRow, FindSpool,
          SaveTag, SkipTag, CheckRow, MoveRow, RefuseRow, Finish
    <2>6. ASSUME NEW d \in Drawers, Abort(d)
          PROVE  Guarded
      BY <2>4, <2>6 DEF Abort
    <2>7. ASSUME Others
          PROVE  Guarded
      BY <2>1, <2>2, <2>3, <2>4, <2>7 DEF Others, Operate, Load, Unload
    <2> QED BY <2>5, <2>6, <2>7 DEF AmsNext
  <1>2. AmsInit => SlotsInv
    BY DEF AmsInit, SlotsInv, Exclusive, HeldOnce
  <1> QED BY <1>1, <1>2, SlotsInvStep, PTL DEF AmsSpec, LoadsOnlyLoadable

-------------------------------------------------------------------------------
(* What drawers and confirmations hold, and the rows of the tables.        *)

(* A drawer offers actions, none for a tray without a slot.                *)
OffersOK(rows) ==
    \A i \in Trays : /\ rows[i].choices \subseteq Actions
                     /\ rows[i].choices # {} => TrayOrder[i] \in SlotIds

(* What a drawer holds at each point, and which row a confirmation is at.  *)
TaskOK(q) ==
    /\ q.pc = "match" => q.trays \in Reports
    /\ q.pc \in {"report", "drawer"} \cup Applying => OffersOK(q.rows)
    /\ q.pc \in Applying => q.plan \in Plan /\ q.k \in Nat
    /\ q.pc \in {"save", "check", "move"} => q.k \in Trays /\ q.plan[q.k].op = "load"
    /\ q.pc = "save" => /\ q.copy \in Spool
                        /\ Consistent(q.copy)
                        /\ q.copy.tag = q.plan[q.k].tag

(* Every spool has a consistent row, every slot a spool or none.           *)
TablesOK ==
    /\ spools \in [SpoolIds -> Spool]
    /\ \A s \in SpoolIds : Consistent(spools[s])
    /\ slots \in [SlotIds -> SpoolIds \cup {NoSpool}]

(* Every drawer is where it should be.                                     *)
TasksOK ==
    /\ tasks = [d \in Drawers |-> tasks[d]]
    /\ \A d \in Drawers : TaskOK(tasks[d])

StateInv == TablesOK /\ TasksOK

(* An idle drawer holds nothing.                                           *)
LEMMA IdleOK == TaskOK(Idle)
  BY DEF TaskOK, Idle, Applying

(* A drawer that goes on with a good task leaves all tasks good.           *)
LEMMA GotoOK ==
    ASSUME TasksOK, NEW d \in Drawers, NEW q, TaskOK(q), Goto(d, q)
    PROVE  TasksOK'
  BY DEF TasksOK, Goto

(* Trays are counted.                                                      *)
LEMMA TraysNat == Trays \subseteq Nat
  BY AmsAssumption DEF Trays

(* A drawer offers actions, and none for a tray without a slot.            *)
LEMMA DrawerOK ==
    ASSUME NEW rows, NEW trays \in Reports
    PROVE  OffersOK(Drawer(rows, trays))
  <1> SUFFICES ASSUME NEW i \in Trays
               PROVE  /\ RowChoices(i, rows[i], trays[i]) \subseteq Actions
                      /\ RowChoices(i, rows[i], trays[i]) # {} => TrayOrder[i] \in SlotIds
    BY DEF OffersOK, Drawer
  <1>1. trays[i].tag \in Tags \cup {NoTag}
    BY DEF Reports, Reading
  <1> QED BY <1>1 DEF RowChoices, Reconcilable, Actions, Place

(* What the drawer posts are actions on slots.                             *)
LEMMA PlansOK ==
    ASSUME NEW rows, OffersOK(rows), NEW plan \in Plans(rows)
    PROVE  plan \in Plan
  <1>1. plan \in [Trays -> UNION {rows[i].choices : i \in Trays} \cup {Unlisted}]
    BY DEF Plans
  <1>2. ASSUME NEW i \in Trays
        PROVE  /\ plan[i] \in Actions
               /\ plan[i] # Unlisted => TrayOrder[i] \in SlotIds
    BY <1>2 DEF Plans, OffersOK, Actions
  <1> QED BY <1>1, <1>2 DEF Plan

(* What a row that loads asks for.                                         *)
LEMMA LoadAction ==
    ASSUME NEW action \in Actions, action.op = "load"
    PROVE  action.spool \in SpoolIds /\ action.tag \in Tags \cup {NoTag}
  BY DEF Actions, Keep, Vacate, Unlisted

(* Memorizing a tag changes the tag only; it is refused when already       *)
(* there.                                                                  *)
LEMMA MemorizeOK ==
    ASSUME NEW sp \in Spool, Consistent(sp), NEW tag \in Tags,
           NEW cmd, cmd = [op |-> "memorize_ams_tag", tag |-> tag]
    PROVE  /\ Apply(cmd, sp) \in Spool
           /\ Consistent(Apply(cmd, sp))
           /\ Apply(cmd, sp).tag = tag
           /\ ~Accepts(cmd, sp) => sp.tag = tag
  <1>1. Apply(cmd, sp) = [sp EXCEPT !.tag = tag]
    BY DEF Apply
  <1> QED BY <1>1 DEF Spool, Consistent, Accepts, WeightOps

(* The row a confirmation is at, once a guard has placed it there.         *)
LEMMA AtOK ==
    ASSUME TasksOK, NEW d \in Drawers, NEW pc \in Applying, NEW op, At(d, pc, op)
    PROVE  /\ TaskOK(tasks[d])
           /\ tasks[d].pc = pc
           /\ OffersOK(tasks[d].rows)
           /\ tasks[d].plan \in Plan
           /\ tasks[d].k \in Trays /\ tasks[d].k \in Nat
           /\ Action(d) = tasks[d].plan[tasks[d].k]
           /\ Action(d) \in Actions /\ Action(d).op = op
           /\ op \in {"load", "unload", "keep"} => Slot(d) \in SlotIds
  <1>1. /\ TaskOK(tasks[d]) /\ tasks[d].pc = pc
        /\ tasks[d].k \in Trays /\ Action(d).op = op
    BY DEF TasksOK, At, Action
  <1>2. OffersOK(tasks[d].rows) /\ tasks[d].plan \in Plan /\ tasks[d].k \in Nat
    BY <1>1 DEF TaskOK
  <1>3. Action(d) \in Actions /\ (Action(d) # Unlisted => Slot(d) \in SlotIds)
    BY <1>1, <1>2 DEF Plan, Action, Slot
  <1>4. op \in {"load", "unload", "keep"} => Action(d) # Unlisted
    BY <1>1 DEF Unlisted
  <1> QED BY <1>1, <1>2, <1>3, <1>4 DEF Action

(* Going to a row of the same plan.                                        *)
LEMMA GotoRowOK ==
    ASSUME TasksOK, NEW d \in Drawers, tasks[d].pc \in Applying,
           NEW pc \in {"apply", "check", "move"}, NEW k \in Nat,
           pc # "apply" => k \in Trays /\ tasks[d].plan[k].op = "load",
           GotoRow(d, pc, k)
    PROVE  TasksOK'
  <1> DEFINE q == [pc |-> pc, rows |-> tasks[d].rows, plan |-> tasks[d].plan, k |-> k]
  <1>1. OffersOK(tasks[d].rows) /\ tasks[d].plan \in Plan
    BY DEF TasksOK, TaskOK
  <1>2. /\ q.pc = pc /\ q.rows = tasks[d].rows
        /\ q.plan = tasks[d].plan /\ q.k = k
    OBVIOUS
  <1>3. Goto(d, q)
    BY DEF GotoRow
  <1> HIDE DEF q
  <1>4. TaskOK(q)
    BY <1>1, <1>2 DEF TaskOK
  <1> QED BY <1>3, <1>4, GotoOK

(* The drawer of an error answer shows what it showed.                     *)
LEMMA ReopenOK ==
    ASSUME TasksOK, NEW d \in Drawers, tasks[d].pc \in Applying, Reopen(d)
    PROVE  TasksOK'
  <1>1. OffersOK(tasks[d].rows)
    BY DEF TasksOK, TaskOK
  <1>2. TaskOK([pc |-> "drawer", rows |-> tasks[d].rows])
    BY <1>1 DEF TaskOK, Applying
  <1> QED BY <1>2, GotoOK DEF Reopen

(* A sync changes neither spools nor slots.                                *)
LEMMA SyncOK ==
    ASSUME TasksOK, NEW d \in Drawers, Sync(d)
    PROVE  TasksOK' /\ UNCHANGED <<spools, slots>>
  <1>1. CASE ListPrinters(d)
    <2>1. TaskOK([pc |-> "fetch", local |-> Local])
      BY DEF TaskOK, Applying
    <2> QED BY <1>1, <2>1, GotoOK DEF ListPrinters
  <1>2. ASSUME NEW trays \in Reports, FetchTrays(d, trays)
        PROVE  TasksOK' /\ UNCHANGED <<spools, slots>>
    <2>1. TaskOK([pc |-> "match", local |-> tasks[d].local, trays |-> trays])
      BY DEF TaskOK, Applying
    <2> QED BY <1>2, <2>1, GotoOK DEF FetchTrays
  <1>3. CASE FetchFails(d)
    <2>1. TaskOK([pc |-> "offline"])
      BY DEF TaskOK, Applying
    <2> QED BY <1>3, <2>1, GotoOK DEF FetchFails
  <1>4. CASE SetOffline(d) \/ CloseDrawer(d)
    BY <1>4, IdleOK, GotoOK DEF SetOffline, CloseDrawer
  <1>5. CASE MatchTrays(d)
    <2> DEFINE rows == Drawer(ReconcileTrays(tasks[d].local, tasks[d].trays), tasks[d].trays)
    <2>1. tasks[d].trays \in Reports
      BY <1>5 DEF MatchTrays, TasksOK, TaskOK
    <2>2. OffersOK(rows)
      BY <2>1, DrawerOK
    <2>3. Goto(d, [pc |-> "report", rows |-> rows]) /\ UNCHANGED <<spools, slots>>
      BY <1>5 DEF MatchTrays
    <2> HIDE DEF rows
    <2>4. TaskOK([pc |-> "report", rows |-> rows])
      BY <2>2 DEF TaskOK, Applying
    <2> QED BY <2>3, <2>4, GotoOK
  <1>6. CASE OpenDrawer(d)
    <2>1. OffersOK(tasks[d].rows)
      BY <1>6 DEF OpenDrawer, TasksOK, TaskOK
    <2>2. TaskOK([pc |-> "drawer", rows |-> tasks[d].rows])
      BY <2>1 DEF TaskOK, Applying
    <2> QED BY <1>6, <2>2, GotoOK DEF OpenDrawer
  <1> QED BY <1>1, <1>2, <1>3, <1>4, <1>5, <1>6 DEF Sync

(* A confirmation starts at its first row.                                 *)
LEMMA ConfirmOK ==
    ASSUME TasksOK, NEW d \in Drawers, tasks[d].pc = "drawer",
           NEW plan \in Plans(tasks[d].rows), Confirm(d, plan)
    PROVE  TasksOK'
  <1> DEFINE q == [pc |-> "apply", rows |-> tasks[d].rows, plan |-> plan, k |-> 1]
  <1>1. OffersOK(tasks[d].rows)
    BY DEF TasksOK, TaskOK
  <1>2. plan \in Plan
    BY <1>1, PlansOK
  <1>3. TaskOK(q)
    BY <1>1, <1>2 DEF TaskOK, Applying
  <1>4. Goto(d, q)
    BY DEF Confirm
  <1> HIDE DEF q
  <1> QED BY <1>3, <1>4, GotoOK

(* The copy a confirmation will save is a row with the tag of its tray.    *)
LEMMA FindSpoolOK ==
    ASSUME StateInv, NEW d \in Drawers, FindSpool(d)
    PROVE  StateInv'
  <1> DEFINE sp == spools[Action(d).spool]
             cmd == TagCommand(d)
             q == [pc |-> "save", rows |-> tasks[d].rows, plan |-> tasks[d].plan,
                   k |-> tasks[d].k, copy |-> Apply(cmd, sp)]
  <1>1. /\ OffersOK(tasks[d].rows) /\ tasks[d].plan \in Plan
        /\ tasks[d].k \in Trays /\ tasks[d].k \in Nat
        /\ Action(d) = tasks[d].plan[tasks[d].k]
        /\ Action(d) \in Actions /\ Action(d).op = "load"
    BY AtOK DEF FindSpool, StateInv, Applying
  <1>2. Action(d).spool \in SpoolIds /\ Action(d).tag \in Tags
    BY <1>1, LoadAction DEF FindSpool, Memorizes
  <1>3. sp \in Spool /\ Consistent(sp)
    BY <1>2 DEF StateInv, TablesOK
  <1>4. cmd = [op |-> "memorize_ams_tag", tag |-> Action(d).tag]
    BY DEF TagCommand
  <1>5. Goto(d, q) /\ UNCHANGED <<spools, slots>>
    BY DEF FindSpool
  <1> HIDE DEF sp, cmd
  <1>6. Apply(cmd, sp) \in Spool /\ Consistent(Apply(cmd, sp))
        /\ Apply(cmd, sp).tag = Action(d).tag
    BY <1>2, <1>3, <1>4, MemorizeOK
  <1>7. TaskOK(q)
    BY <1>1, <1>6 DEF TaskOK, Applying
  <1> HIDE DEF q
  <1>8. TasksOK'
    BY <1>5, <1>7, GotoOK DEF StateInv
  <1> QED BY <1>5, <1>8 DEF StateInv, TablesOK

(* Saving the copy keeps the rows good.                                    *)
LEMMA SaveTagOK ==
    ASSUME StateInv, NEW d \in Drawers, SaveTag(d)
    PROVE  StateInv'
  <1>1. /\ TaskOK(tasks[d]) /\ tasks[d].pc = "save"
        /\ tasks[d].k \in Trays /\ tasks[d].k \in Nat
        /\ Action(d) = tasks[d].plan[tasks[d].k] /\ Action(d).op = "load"
    BY AtOK DEF SaveTag, StateInv, Applying
  <1>2. tasks[d].copy \in Spool /\ Consistent(tasks[d].copy)
    BY <1>1 DEF TaskOK
  <1>3. TablesOK'
    BY <1>2 DEF SaveTag, StateInv, TablesOK
  <1>4. TasksOK'
    BY <1>1, GotoRowOK DEF SaveTag, StateInv, Applying
  <1> QED BY <1>3, <1>4 DEF StateInv

(* The steps that go to a row and leave the spools alone.                  *)
LEMMA RowStepOK ==
    ASSUME StateInv, NEW d \in Drawers,
           KeepRow(d) \/ UnloadRow(d) \/ SkipTag(d) \/ CheckRow(d) \/ MoveRow(d)
    PROVE  StateInv'
  <1>1. CASE KeepRow(d)
    <2>1. tasks[d].pc \in Applying /\ tasks[d].k + 1 \in Nat
      BY <1>1, AtOK DEF KeepRow, StateInv, Applying
    <2>2. TasksOK'
      BY <1>1, <2>1, GotoRowOK DEF KeepRow, NextRow, StateInv
    <2> QED BY <1>1, <2>2 DEF KeepRow, StateInv, TablesOK
  <1>2. CASE UnloadRow(d)
    <2>1. tasks[d].pc \in Applying /\ tasks[d].k + 1 \in Nat
      BY <1>2, AtOK DEF UnloadRow, StateInv, Applying
    <2>2. TasksOK'
      BY <1>2, <2>1, GotoRowOK DEF UnloadRow, NextRow, StateInv
    <2> QED BY <1>2, <2>2 DEF UnloadRow, StateInv, TablesOK
  <1>3. CASE SkipTag(d)
    <2>1. /\ tasks[d].pc \in Applying /\ tasks[d].k \in Trays /\ tasks[d].k \in Nat
          /\ tasks[d].plan[tasks[d].k].op = "load"
      BY <1>3, AtOK DEF SkipTag, StateInv, Applying, At
    <2>2. TasksOK'
      BY <1>3, <2>1, GotoRowOK DEF SkipTag, StateInv
    <2> QED BY <1>3, <2>2 DEF SkipTag, StateInv, TablesOK
  <1>4. CASE CheckRow(d)
    <2>1. /\ tasks[d].pc \in Applying /\ tasks[d].k \in Trays /\ tasks[d].k \in Nat
          /\ tasks[d].plan[tasks[d].k].op = "load"
      BY <1>4, AtOK DEF CheckRow, StateInv, Applying, At
    <2>2. TasksOK'
      BY <1>4, <2>1, GotoRowOK DEF CheckRow, StateInv
    <2> QED BY <1>4, <2>2 DEF CheckRow, StateInv, TablesOK
  <1>5. CASE MoveRow(d)
    <2>1. /\ tasks[d].pc \in Applying /\ tasks[d].k + 1 \in Nat
          /\ Action(d) \in Actions /\ Action(d).op = "load" /\ Slot(d) \in SlotIds
      BY <1>5, AtOK DEF MoveRow, StateInv, Applying
    <2>2. TasksOK'
      BY <1>5, <2>1, GotoRowOK DEF MoveRow, NextRow, StateInv
    <2>3. slots' \in [SlotIds -> SpoolIds \cup {NoSpool}]
      BY <1>5, <2>1, LoadAction, MovedType DEF MoveRow, StateInv, TablesOK
    <2> QED BY <1>5, <2>2, <2>3 DEF MoveRow, StateInv, TablesOK
  <1> QED BY <1>1, <1>2, <1>3, <1>4, <1>5

(* Other requests touch no drawer and keep the rows good.                  *)
LEMMA OthersOK ==
    ASSUME StateInv, Others
    PROVE  StateInv'
  <1>1. TasksOK'
    BY DEF Others, StateInv, TasksOK
  <1>2. ASSUME NEW s \in SpoolIds, NEW cmd \in Commands, Operate(s, cmd)
        PROVE  TablesOK'
    <2>1. Apply(cmd, spools[s]) \in Spool /\ Consistent(Apply(cmd, spools[s]))
      BY <1>2, ApplyOK DEF Operate, StateInv, TablesOK
    <2>2. Without(slots, s) \in [SlotIds -> SpoolIds \cup {NoSpool}]
      BY WithoutType DEF StateInv, TablesOK
    <2> QED BY <1>2, <2>1, <2>2 DEF Operate, StateInv, TablesOK
  <1>3. ASSUME NEW s \in SpoolIds, NEW sl \in SlotIds, Load(s, sl)
        PROVE  TablesOK'
    BY <1>3, MovedType DEF Load, StateInv, TablesOK
  <1>4. ASSUME NEW sl \in SlotIds, Unload(sl)
        PROVE  TablesOK'
    BY <1>4 DEF Unload, StateInv, TablesOK
  <1> QED BY <1>1, <1>2, <1>3, <1>4 DEF Others, StateInv

(* Every step, also one that cuts a confirmation off, keeps the types.     *)
LEMMA StateInvStep == StateInv /\ [AmsNext]_amsVars => StateInv'
  <1> SUFFICES ASSUME StateInv, [AmsNext]_amsVars
               PROVE  StateInv'
    OBVIOUS
  <1>1. ASSUME NEW d \in Drawers, Sync(d)
        PROVE  StateInv'
    BY <1>1, SyncOK DEF StateInv, TablesOK
  <1>2. ASSUME NEW d \in Drawers, tasks[d].pc = "drawer",
               NEW plan \in Plans(tasks[d].rows), Confirm(d, plan)
        PROVE  StateInv'
    BY <1>2, ConfirmOK DEF Confirm, StateInv, TablesOK
  <1>3. ASSUME NEW d \in Drawers, ApplyPlan(d)
        PROVE  StateInv'
    <2>1. CASE FindSpool(d)
      BY <2>1, FindSpoolOK
    <2>2. CASE SaveTag(d)
      BY <2>2, SaveTagOK
    <2>3. CASE KeepRow(d) \/ UnloadRow(d) \/ SkipTag(d) \/ CheckRow(d) \/ MoveRow(d)
      BY <2>3, RowStepOK
    <2>4. CASE RefuseRow(d)
      BY <2>4, ReopenOK DEF RefuseRow, At, Applying, StateInv, TablesOK
    <2>5. CASE Finish(d)
      BY <2>5, IdleOK, GotoOK DEF Finish, StateInv, TablesOK
    <2> QED BY <1>3, <2>1, <2>2, <2>3, <2>4, <2>5 DEF ApplyPlan
  <1>4. ASSUME NEW d \in Drawers, Abort(d)
        PROVE  StateInv'
    BY <1>4, ReopenOK DEF Abort, StateInv, TablesOK
  <1>5. CASE Others
    BY <1>5, OthersOK
  <1>6. CASE UNCHANGED amsVars
    BY <1>6 DEF amsVars, StateInv, TablesOK, TasksOK
  <1> QED BY <1>1, <1>2, <1>3, <1>4, <1>5, <1>6 DEF AmsNext, Reconcile

(* Full spools, empty slots, idle drawers.                                 *)
LEMMA StateInvInit == AmsInit => StateInv
  <1> SUFFICES ASSUME AmsInit
               PROVE  StateInv
    OBVIOUS
  <1>1. NewSpool("New", MaxNet, MaxNet, NoLocation) \in Spool
        /\ Consistent(NewSpool("New", MaxNet, MaxNet, NoLocation))
    BY NewSpoolOK, MaxNetAssumption DEF Conditions, NetWeights, Grams
  <1> QED BY <1>1, IdleOK DEF AmsInit, StateInv, TablesOK, TasksOK

-------------------------------------------------------------------------------
(* What a sync suggests.                                                   *)

(* The first of a list that is among S, if there is one, is among S.       *)
LEMMA FirstInOK ==
    ASSUME NEW seq \in Seq(SpoolIds), NEW S, FirstIn(seq, S) # NoSpool
    PROVE  FirstIn(seq, S) \in S
  <1> DEFINE found == {i \in DOMAIN seq : seq[i] \in S}
  <1>1. found # {} /\ FirstIn(seq, S) = seq[CHOOSE i \in found : \A j \in found : i <= j]
    BY DEF FirstIn
  <1>2. found \in SUBSET Nat
    OBVIOUS
  <1>3. \A i \in found : seq[i] \in S
    OBVIOUS
  <1> HIDE DEF found
  <1>4. \E i \in found : \A j \in found : i <= j
    BY <1>1, <1>2, Least
  <1>5. (CHOOSE i \in found : \A j \in found : i <= j) \in found
    BY <1>4
  <1> QED BY <1>1, <1>3, <1>5

(* The row of tray i, below the rows rows.                                 *)
RowAt(rows, local, trays, i) ==
    LET used == {rows[j].suggested : j \in 1 .. (i - 1)}
        here == LocalAt(local, TrayOrder[i])
        candidate == ByLook(trays[i].look, used)
        kind == Kind(trays[i], here, candidate)
    IN  [kind |-> kind, suggested |-> Suggestion(kind, trays[i], here, candidate)]

(* rows has one such row per tray.                                         *)
Matched(rows, local, trays) == rows = [i \in Trays |-> RowAt(rows, local, trays, i)]

(* The recursive definition of the matcher picks a solution.               *)
LEMMA ReconcileIs ==
    ASSUME NEW local, NEW trays
    PROVE  ReconcileTrays(local, trays) = CHOOSE rows : Matched(rows, local, trays)
  BY Zenon DEF ReconcileTrays, Matched, RowAt

(* The matcher goes down the report: each row is that below those above it.*)
LEMMA ReconcileRows ==
    ASSUME NEW local, NEW trays
    PROVE  Matched(ReconcileTrays(local, trays), local, trays)
  <1> DEFINE Upto(w, n) == \A i \in Trays : i <= n => w[i] = RowAt(w, local, trays, i)
             S == {n \in Nat : \E w : Upto(w, n)}
  <1>0. /\ Len(TrayOrder) \in Nat
        /\ \A i \in Trays : i \in Nat /\ i >= 1 /\ i <= Len(TrayOrder)
        /\ \A i \in Trays : \A j \in 1 .. (i - 1) : j \in Trays
    BY AmsAssumption DEF Trays
  <1>a. ASSUME NEW v, NEW w, NEW i \in Trays, \A j \in Trays : j < i => v[j] = w[j]
        PROVE  RowAt(v, local, trays, i) = RowAt(w, local, trays, i)
    <2>1. \A j \in 1 .. (i - 1) : v[j] = w[j]
      BY <1>0, <1>a
    <2>2. {v[j].suggested : j \in 1 .. (i - 1)} = {w[j].suggested : j \in 1 .. (i - 1)}
      BY <2>1
    <2> QED BY <2>2 DEF RowAt
  <1>1. 0 \in S
    <2>1. \A w : Upto(w, 0)
      BY <1>0
    <2> QED BY <2>1
  <1>2. ASSUME NEW n \in Nat, n \in S PROVE n + 1 \in S
    <2>1. PICK w : Upto(w, n)
      BY <1>2
    <2> DEFINE v == [i \in Trays |-> IF i <= n THEN w[i] ELSE RowAt(w, local, trays, i)]
    <2>2. ASSUME NEW i \in Trays, i <= n + 1 PROVE v[i] = RowAt(v, local, trays, i)
      <3>1. \A j \in Trays : j < i => v[j] = w[j]
        BY <1>0, <2>2
      <3>2. v[i] = RowAt(w, local, trays, i)
        BY <2>1
      <3> HIDE DEF v
      <3> QED BY <1>a, <3>1, <3>2
    <2> HIDE DEF v
    <2>3. Upto(v, n + 1)
      BY <2>2
    <2> QED BY <2>3
  <1>3. Len(TrayOrder) \in S
    <2> HIDE DEF S
    <2> QED BY <1>0, <1>1, <1>2, Inductive
  <1>4. PICK w : \A i \in Trays : w[i] = RowAt(w, local, trays, i)
    BY <1>0, <1>3
  <1> DEFINE v == [i \in Trays |-> w[i]]
  <1>5. ASSUME NEW i \in Trays PROVE v[i] = RowAt(v, local, trays, i)
    <2>1. \A j \in Trays : j < i => v[j] = w[j]
      OBVIOUS
    <2>2. v[i] = RowAt(w, local, trays, i)
      BY <1>4
    <2> HIDE DEF v
    <2> QED BY <1>a, <2>1, <2>2
  <1>6. Matched(v, local, trays)
    <2>1. v = [i \in Trays |-> v[i]]
      OBVIOUS
    <2> HIDE DEF v
    <2>2. [i \in Trays |-> v[i]] = [i \in Trays |-> RowAt(v, local, trays, i)]
      BY <1>5
    <2> QED BY <2>1, <2>2 DEF Matched
  <1> HIDE DEF v
  <1> QED BY <1>6, ReconcileIs

(* Only the candidate is attributed, and there is one.                     *)
LEMMA Attribution ==
    ASSUME NEW reading, NEW local, NEW candidate, Kind(reading, local, candidate) = "Attributed"
    PROVE  /\ candidate # NoSpool
           /\ Suggestion("Attributed", reading, local, candidate) = candidate
  <1>1. reading # EmptyTray
    BY DEF Kind
  <1>2. reading.tag = NoTag
    BY <1>1 DEF Kind
  <1>3. candidate # NoSpool
    BY <1>1, <1>2 DEF Kind
  <1> QED BY <1>3 DEF Suggestion

(* What a row attributes no row above it suggests.                         *)
SuggestedOnce(rows) ==
    \A i \in Trays : rows[i].kind = "Attributed" =>
        \A j \in Trays : j < i => rows[j].suggested # rows[i].suggested

(* What a row attributes was not suggested above it: the candidates        *)
(* exclude it.                                                             *)
LEMMA ReconcileOnce ==
    ASSUME NEW local, NEW trays \in Reports
    PROVE  SuggestedOnce(Drawer(ReconcileTrays(local, trays), trays))
  <1> DEFINE rows == ReconcileTrays(local, trays)
  <1>1. \A i \in Trays : rows[i] = RowAt(rows, local, trays, i)
    BY ReconcileRows DEF Matched
  <1> HIDE DEF rows
  <1>2. ASSUME NEW i \in Trays, rows[i].kind = "Attributed", NEW j \in Trays, j < i
        PROVE  rows[j].suggested # rows[i].suggested
    <2> DEFINE used == {rows[k].suggested : k \in 1 .. (i - 1)}
               here == LocalAt(local, TrayOrder[i])
               candidate == ByLook(trays[i].look, used)
    <2>1. /\ Kind(trays[i], here, candidate) = "Attributed"
          /\ rows[i].suggested = Suggestion("Attributed", trays[i], here, candidate)
      <3> DEFINE kind == Kind(trays[i], here, candidate)
      <3>1. rows[i] = [kind |-> kind, suggested |-> Suggestion(kind, trays[i], here, candidate)]
        BY <1>1 DEF RowAt
      <3> HIDE DEF kind, here, candidate
      <3>2. rows[i].kind = kind /\ rows[i].suggested = Suggestion(kind, trays[i], here, candidate)
        BY <3>1
      <3> QED BY <1>2, <3>2 DEF kind
    <2>2. rows[j].suggested \in used
      BY <1>2, AmsAssumption DEF Trays
    <2> HIDE DEF used, here, candidate
    <2>3. rows[i].suggested = candidate /\ candidate # NoSpool
      BY <2>1, Attribution
    <2>4. candidate \in Reconcilable \ (Loaded \cup used)
      <3>1. trays[i].look \in Looks \cup {NoLook}
        BY DEF Reports, Reading
      <3>2. /\ trays[i].look # NoLook
            /\ candidate = FirstIn(Closest[trays[i].look], Reconcilable \ (Loaded \cup used))
        BY <2>3 DEF candidate, ByLook
      <3>3. Closest[trays[i].look] \in Seq(SpoolIds)
        BY <3>1, <3>2, AmsAssumption
      <3> QED BY <2>3, <3>2, <3>3, FirstInOK
    <2> QED BY <2>2, <2>3, <2>4
  <1>3. \A i \in Trays : /\ Drawer(rows, trays)[i].kind = rows[i].kind
                         /\ Drawer(rows, trays)[i].suggested = rows[i].suggested
    BY DEF Drawer
  <1> QED BY <1>2, <1>3 DEF SuggestedOnce, rows

(* The rows a sync is about to show.                                       *)
ReportInv ==
    /\ StateInv
    /\ \A d \in Drawers : tasks[d].pc = "report" => SuggestedOnce(tasks[d].rows)

(* Only the rows of the drawer that moves are new.                         *)
LEMMA GotoReport ==
    ASSUME ReportInv, StateInv', NEW d \in Drawers, NEW q, Goto(d, q),
           q.pc = "report" => SuggestedOnce(q.rows)
    PROVE  ReportInv'
  BY DEF ReportInv, StateInv, TasksOK, Goto

(* Rows are computed in one step, and no other step changes them.          *)
LEMMA ReportInvStep == ReportInv /\ [AmsNext]_amsVars => ReportInv'
  <1> SUFFICES ASSUME ReportInv, [AmsNext]_amsVars
               PROVE  ReportInv'
    OBVIOUS
  <1>1. StateInv /\ StateInv'
    BY StateInvStep DEF ReportInv
  <1>2. ASSUME NEW d \in Drawers, MatchTrays(d)
        PROVE  ReportInv'
    <2> DEFINE rows == Drawer(ReconcileTrays(tasks[d].local, tasks[d].trays), tasks[d].trays)
               q == [pc |-> "report", rows |-> rows]
    <2>1. tasks[d].trays \in Reports
      BY <1>1, <1>2 DEF MatchTrays, StateInv, TasksOK, TaskOK
    <2>2. SuggestedOnce(rows)
      BY <2>1, ReconcileOnce
    <2>3. Goto(d, q)
      BY <1>2 DEF MatchTrays
    <2> HIDE DEF rows
    <2>4. q.pc = "report" /\ q.rows = rows
      OBVIOUS
    <2> HIDE DEF q
    <2> QED BY <1>1, <2>2, <2>3, <2>4, GotoReport
  <1>3. ASSUME NEW d \in Drawers, Reconcile(d) \/ Abort(d), ~MatchTrays(d)
        PROVE  ReportInv'
    <2>1. \E q : Goto(d, q) /\ q.pc # "report"
      <3>1. CASE Sync(d)
        <4>1. CASE ListPrinters(d) \/ FetchFails(d) \/ OpenDrawer(d)
          BY <4>1 DEF ListPrinters, FetchFails, OpenDrawer
        <4>2. ASSUME NEW trays \in Reports, FetchTrays(d, trays)
              PROVE  \E q : Goto(d, q) /\ q.pc # "report"
          BY <4>2 DEF FetchTrays
        <4>3. CASE SetOffline(d) \/ CloseDrawer(d)
          <5>1. Goto(d, Idle) /\ Idle.pc # "report"
            BY <4>3 DEF SetOffline, CloseDrawer, Idle
          <5> QED BY <5>1
        <4> QED BY <1>3, <3>1, <4>1, <4>2, <4>3 DEF Sync
      <3>2. ASSUME NEW plan, Confirm(d, plan)
            PROVE  \E q : Goto(d, q) /\ q.pc # "report"
        BY <3>2 DEF Confirm
      <3>3. ASSUME NEW pc \in {"apply", "check", "move"}, NEW k, GotoRow(d, pc, k)
            PROVE  \E q : Goto(d, q) /\ q.pc # "report"
        BY <3>3 DEF GotoRow
      <3>4. CASE KeepRow(d) \/ UnloadRow(d) \/ MoveRow(d)
        BY <3>3, <3>4 DEF KeepRow, UnloadRow, MoveRow, NextRow
      <3>5. CASE SaveTag(d) \/ SkipTag(d) \/ CheckRow(d)
        BY <3>3, <3>5 DEF SaveTag, SkipTag, CheckRow
      <3>6. CASE FindSpool(d)
        BY <3>6 DEF FindSpool
      <3>7. CASE RefuseRow(d) \/ Abort(d) \/ Finish(d)
        BY <3>7 DEF RefuseRow, Abort, Finish, Reopen, Idle
      <3> QED BY <1>3, <3>1, <3>2, <3>4, <3>5, <3>6, <3>7 DEF Reconcile, ApplyPlan
    <2> QED BY <1>1, <2>1, GotoReport
  <1>4. CASE Others
    BY <1>1, <1>4 DEF Others, ReportInv
  <1>5. CASE UNCHANGED amsVars
    BY <1>1, <1>5 DEF amsVars, ReportInv
  <1> QED BY <1>2, <1>3, <1>4, <1>5 DEF AmsNext

(* A sync never proposes one spool for two trays by its material and       *)
(* colour, nor one that a row above proposes for its tag, whatever happens *)
(* to the spools meanwhile (the set used of reconcile_trays).              *)
THEOREM AttributedAtMostOnce == AmsSpec => []AttributedOnce
  <1>1. AmsInit => ReportInv
    BY StateInvInit DEF AmsInit, ReportInv, Idle
  <1>2. ReportInv => AttributedOnce
    BY DEF ReportInv, SuggestedOnce, AttributedOnce
  <1> QED BY <1>1, <1>2, ReportInvStep, PTL DEF AmsSpec

-------------------------------------------------------------------------------
(* A confirmation served without interference.                             *)

(* One browser confirms.                                                   *)
OneDrawer == \A d, e \in Drawers : d = e

(* RowsInEffect of one task, for given slots.                              *)
InEffect(q, held) ==
    \A i \in Standing(q) :
        /\ q.plan[i].op = "unload" => held[TrayOrder[i]] = NoSpool
        /\ q.plan[i].op = "load" => held[TrayOrder[i]] = q.plan[i].spool

(* The spools that the applied rows have loaded carry the tags of their    *)
(* trays, unless the row being applied loads the same spool again; its own *)
(* spool carries its tag once that is saved.                               *)
Tagged(q, rows) ==
    /\ \A i \in Standing(q) :
          /\ q.plan[i].op = "load"
          /\ q.plan[i].tag # NoTag
          /\ q.pc \in {"check", "move"} => q.plan[i].spool # q.plan[q.k].spool
          => rows[q.plan[i].spool].tag = q.plan[i].tag
    /\ q.pc \in {"check", "move"} /\ q.plan[q.k].tag # NoTag =>
          rows[q.plan[q.k].spool].tag = q.plan[q.k].tag

(* What a confirmation under way has to have achieved.                     *)
EffectOK(q, held, rows) ==
    q.pc \in Applying => InEffect(q, held) /\ Tagged(q, rows)

(* The types, and what each confirmation has achieved so far.              *)
EffectInv ==
    /\ StateInv
    /\ \A d \in Drawers : EffectOK(tasks[d], slots, spools)

(* Only the confirmation that moves has new obligations.                   *)
LEMMA GotoEffect ==
    ASSUME OneDrawer, StateInv, StateInv', NEW d \in Drawers, NEW q, Goto(d, q),
           EffectOK(q, slots', spools')
    PROVE  EffectInv'
  BY DEF OneDrawer, StateInv, TasksOK, Goto, EffectInv

(* When row k is done, the rows that stand are row k and those that stood  *)
(* before, but for a row whose spool row k has taken.                      *)
LEMMA StandingNext ==
    ASSUME NEW q, NEW p, p.plan = q.plan, q.k \in Trays, p.k = q.k + 1,
           NEW i \in Standing(p)
    PROVE  \/ i = q.k
           \/ /\ i \in Standing(q) /\ i \in Trays /\ i # q.k
              /\ ~(/\ q.plan[i].op = "load" /\ q.plan[q.k].op = "load"
                   /\ q.plan[i].spool = q.plan[q.k].spool)
  <1>1. i \in Trays /\ i \in Nat /\ q.k \in Nat /\ i < q.k + 1
    BY TraysNat DEF Standing
  <1>2. CASE i = q.k
    BY <1>2
  <1>3. CASE i # q.k
    <2>1. i < q.k
      BY <1>1, <1>3
    <2>2. ASSUME NEW j \in Trays, i < j, j < q.k + 1
          PROVE  ~(/\ q.plan[i].op = "load" /\ q.plan[j].op = "load"
                   /\ q.plan[i].spool = q.plan[j].spool)
      BY <2>2 DEF Standing
    <2>3. \A j \in Trays : j < q.k => j < q.k + 1
      BY <1>1, TraysNat
    <2>4. i \in Standing(q)
      BY <1>1, <2>1, <2>2, <2>3 DEF Standing
    <2> QED BY <1>1, <1>3, <2>1, <2>2, <2>4
  <1> QED BY <1>2, <1>3

(* At its first row a confirmation has applied none.                       *)
LEMMA StandingFirst ==
    ASSUME NEW q, q.k = 1
    PROVE  Standing(q) = {}
  BY AmsAssumption DEF Standing, Trays

(* What stands depends on the plan and the row reached only.               *)
LEMMA StandingSame ==
    ASSUME NEW q, NEW p, p.plan = q.plan, p.k = q.k
    PROVE  Standing(p) = Standing(q)
  BY DEF Standing

(* Steps that end a confirmation, or are of a sync, owe nothing.           *)
LEMMA NotApplying ==
    ASSUME OneDrawer, StateInv, StateInv', NEW d \in Drawers, NEW q, Goto(d, q),
           q.pc \notin Applying
    PROVE  EffectInv'
  BY GotoEffect DEF EffectOK

(* A confirmation that starts has nothing in effect yet.                   *)
LEMMA ConfirmEffect ==
    ASSUME OneDrawer, EffectInv, StateInv', NEW d \in Drawers, NEW plan, Confirm(d, plan)
    PROVE  EffectInv'
  <1> DEFINE q == [pc |-> "apply", rows |-> tasks[d].rows, plan |-> plan, k |-> 1]
  <1>1. Goto(d, q) /\ q.k = 1 /\ q.pc = "apply"
    BY DEF Confirm
  <1> HIDE DEF q
  <1>2. EffectOK(q, slots', spools')
    BY <1>1, StandingFirst DEF EffectOK, InEffect, Tagged
  <1> QED BY <1>1, <1>2, GotoEffect DEF EffectInv

(* Steps within one row: no slot changes, and the tag of its spool is      *)
(* saved by the time it is checked.                                        *)
LEMMA WithinRowEffect ==
    ASSUME OneDrawer, EffectInv, StateInv', NEW d \in Drawers, NEW q, Goto(d, q),
           tasks[d].pc \in Applying, q.pc \in {"save", "check", "move"},
           q.plan = tasks[d].plan, q.k = tasks[d].k, q.k \in Trays,
           q.plan[q.k].op = "load", q.plan[q.k].spool \in SpoolIds,
           UNCHANGED slots,
           \/ spools' = spools
           \/ /\ q.pc = "check"
              /\ spools' = [spools EXCEPT ![q.plan[q.k].spool] = tasks[d].copy],
           q.pc = "save" => tasks[d].pc = "apply",
           q.pc = "move" => tasks[d].pc = "check",
           q.pc = "check" => tasks[d].pc \in {"apply", "save"},
           q.pc \in {"check", "move"} /\ q.plan[q.k].tag # NoTag =>
              spools'[q.plan[q.k].spool].tag = q.plan[q.k].tag
    PROVE  EffectInv'
  <1> DEFINE old == tasks[d]
  <1>1. EffectOK(old, slots, spools) /\ Standing(q) = Standing(old)
    BY StandingSame DEF EffectInv
  <1>2. InEffect(q, slots')
    BY <1>1 DEF EffectOK, InEffect
  <1>3. ASSUME NEW i \in Standing(q),
               q.plan[i].op = "load", q.plan[i].tag # NoTag,
               q.pc \in {"check", "move"} => q.plan[i].spool # q.plan[q.k].spool
        PROVE  spools'[q.plan[i].spool].tag = q.plan[i].tag
    <2>1. i \in Trays /\ q.plan[i] \in Actions
      BY DEF Standing, EffectInv, StateInv, TasksOK, TaskOK, Plan
    <2>2. q.plan[i].spool \in SpoolIds
      BY <1>3, <2>1, LoadAction
    <2>3. old.pc \in {"check", "move"} => q.plan[i].spool # q.plan[q.k].spool
      BY <1>3
    <2>4. spools[q.plan[i].spool].tag = q.plan[i].tag
      BY <1>1, <1>3, <2>3 DEF EffectOK, Tagged
    <2>5. spools'[q.plan[i].spool] = spools[q.plan[i].spool]
      BY <1>3, <2>2 DEF EffectInv, StateInv, TablesOK
    <2> QED BY <2>4, <2>5
  <1>4. Tagged(q, spools')
    BY <1>3 DEF Tagged
  <1> QED BY <1>2, <1>4, GotoEffect DEF EffectOK, EffectInv

(* Steps that are done with a row: it is in effect, and the rows that      *)
(* still stand were so before.                                             *)
LEMMA NextRowEffect ==
    ASSUME OneDrawer, EffectInv, StateInv', NEW d \in Drawers, NextRow(d),
           tasks[d].k \in Trays, UNCHANGED spools,
           \/ tasks[d].pc = "apply" /\ Action(d).op # "load"
           \/ tasks[d].pc = "move",
           Action(d).op = "unload" => slots'[Slot(d)] = NoSpool,
           Action(d).op = "load" => slots'[Slot(d)] = Action(d).spool,
           \A sl \in SlotIds \ {Slot(d)} :
              \/ slots'[sl] = slots[sl]
              \/ slots'[sl] = NoSpool /\ Action(d).op = "load" /\ slots[sl] = Action(d).spool
    PROVE  EffectInv'
  <1> DEFINE old == tasks[d]
             q == [pc |-> "apply", rows |-> old.rows, plan |-> old.plan, k |-> old.k + 1]
  <1>1. /\ Goto(d, q)
        /\ q.pc = "apply" /\ q.plan = old.plan /\ q.k = old.k + 1
    BY DEF NextRow, GotoRow
  <1>2. old.pc \in Applying /\ EffectOK(old, slots, spools) /\ TaskOK(old) /\ old.plan \in Plan
    BY DEF EffectInv, Applying, StateInv, TasksOK, TaskOK
  <1> HIDE DEF q
  <1>3. Action(d) = q.plan[old.k] /\ Slot(d) = TrayOrder[old.k]
    BY <1>1 DEF Action, Slot
  <1>4. ASSUME NEW i \in Standing(q)
        PROVE  /\ q.plan[i].op = "unload" => slots'[TrayOrder[i]] = NoSpool
               /\ q.plan[i].op = "load" => slots'[TrayOrder[i]] = q.plan[i].spool
               /\ q.plan[i].op = "load" /\ q.plan[i].tag # NoTag =>
                     spools[q.plan[i].spool].tag = q.plan[i].tag
    <2>1. CASE i = old.k
      <3>1. q.plan[i] = Action(d) /\ TrayOrder[i] = Slot(d)
        BY <1>3, <2>1
      <3>2. Action(d).op = "load" => old.pc = "move"
        OBVIOUS
      <3>3. old.pc = "move" /\ Action(d).tag # NoTag =>
               spools[Action(d).spool].tag = Action(d).tag
        BY <1>2 DEF EffectOK, Tagged, Action
      <3> QED BY <3>1, <3>2, <3>3
    <2>2. CASE i # old.k
      <3>1. /\ i \in Standing(old) /\ i \in Trays
            /\ ~(/\ q.plan[i].op = "load" /\ Action(d).op = "load"
                 /\ q.plan[i].spool = Action(d).spool)
        BY <1>1, <1>3, <2>2, StandingNext
      <3>2. /\ old.plan[i].op = "unload" => slots[TrayOrder[i]] = NoSpool
            /\ old.plan[i].op = "load" => slots[TrayOrder[i]] = old.plan[i].spool
        BY <1>2, <3>1 DEF EffectOK, InEffect
      <3>3. TrayOrder[i] # Slot(d)
        BY <1>3, <2>2, <3>1, AmsAssumption DEF Trays
      <3>4. old.plan[i].op \in {"load", "unload"} => TrayOrder[i] \in SlotIds
        BY <1>2, <3>1 DEF Plan, Unlisted
      <3>5. /\ q.plan[i].op = "unload" => slots'[TrayOrder[i]] = NoSpool
            /\ q.plan[i].op = "load" => slots'[TrayOrder[i]] = q.plan[i].spool
        BY <1>1, <3>1, <3>2, <3>3, <3>4
      <3>6. q.plan[i].op = "load" /\ q.plan[i].tag # NoTag =>
               spools[q.plan[i].spool].tag = q.plan[i].tag
        <4>1. old.pc = "move" => old.plan[old.k].op = "load"
          BY <1>2 DEF TaskOK
        <4>2. q.plan[i].op = "load" /\ old.pc \in {"check", "move"} =>
                 old.plan[i].spool # old.plan[old.k].spool
          BY <1>1, <1>3, <3>1, <4>1
        <4> QED BY <1>1, <1>2, <3>1, <4>2 DEF EffectOK, Tagged
      <3> QED BY <3>5, <3>6
    <2> QED BY <2>1, <2>2
  <1>5. InEffect(q, slots') /\ Tagged(q, spools')
    BY <1>1, <1>4 DEF InEffect, Tagged
  <1> QED BY <1>1, <1>5, GotoEffect DEF EffectOK, EffectInv

(* Applying a row puts it into effect and keeps those that stand.          *)
LEMMA RowEffect ==
    ASSUME OneDrawer, EffectInv, StateInv', NEW d \in Drawers,
           KeepRow(d) \/ UnloadRow(d) \/ MoveRow(d)
    PROVE  EffectInv'
  <1>1. TasksOK /\ TablesOK
    BY DEF EffectInv, StateInv
  <1>2. CASE KeepRow(d)
    <2>1. /\ tasks[d].pc = "apply" /\ tasks[d].k \in Trays
          /\ Action(d).op \in {"keep", "unlisted"}
      BY <1>2 DEF KeepRow, At, Action
    <2>2. NextRow(d) /\ UNCHANGED spools /\ \A sl : slots'[sl] = slots[sl]
      BY <1>2 DEF KeepRow
    <2> QED BY <2>1, <2>2, NextRowEffect
  <1>3. CASE UnloadRow(d)
    <2>1. /\ tasks[d].pc = "apply" /\ tasks[d].k \in Trays
          /\ Action(d).op = "unload" /\ Slot(d) \in SlotIds
      BY <1>1, <1>3, AtOK DEF UnloadRow, Applying
    <2>2. NextRow(d) /\ UNCHANGED spools
      BY <1>3 DEF UnloadRow
    <2>3. slots' = [slots EXCEPT ![Slot(d)] = NoSpool]
      BY <1>3 DEF UnloadRow
    <2>4. slots'[Slot(d)] = NoSpool /\ \A sl \in SlotIds \ {Slot(d)} : slots'[sl] = slots[sl]
      BY <1>1, <2>1, <2>3 DEF TablesOK
    <2> QED BY <2>1, <2>2, <2>4, NextRowEffect
  <1>4. CASE MoveRow(d)
    <2>1. /\ tasks[d].pc = "move" /\ tasks[d].k \in Trays
          /\ Action(d).op = "load" /\ Slot(d) \in SlotIds
      BY <1>1, <1>4, AtOK DEF MoveRow, Applying
    <2>2. NextRow(d) /\ UNCHANGED spools
      BY <1>4 DEF MoveRow
    <2>3. slots' = Moved(slots, Action(d).spool, Slot(d))
      BY <1>4 DEF MoveRow
    <2>4. /\ slots'[Slot(d)] = Action(d).spool
          /\ \A sl \in SlotIds \ {Slot(d)} :
                slots'[sl] = IF slots[sl] = Action(d).spool THEN NoSpool ELSE slots[sl]
      BY <1>1, <2>1, <2>3 DEF TablesOK, Moved, Without
    <2> QED BY <2>1, <2>2, <2>4, NextRowEffect
  <1> QED BY <1>2, <1>3, <1>4

(* Finding the spool, saving the tag, skipping it, the first look.         *)
LEMMA TagEffect ==
    ASSUME OneDrawer, EffectInv, StateInv', NEW d \in Drawers,
           FindSpool(d) \/ SaveTag(d) \/ SkipTag(d) \/ CheckRow(d)
    PROVE  EffectInv'
  <1> DEFINE old == tasks[d]
  <1>1. TasksOK /\ TablesOK /\ EffectOK(old, slots, spools)
    BY DEF EffectInv, StateInv
  <1>2. /\ old.pc \in {"apply", "save", "check"} /\ TaskOK(old)
        /\ old.k \in Trays /\ Action(d) = old.plan[old.k]
        /\ Action(d) \in Actions /\ Action(d).op = "load"
        /\ FindSpool(d) \/ SkipTag(d) => old.pc = "apply"
        /\ SaveTag(d) => old.pc = "save"
        /\ CheckRow(d) => old.pc = "check"
    BY <1>1, AtOK DEF FindSpool, SaveTag, SkipTag, CheckRow, Applying
  <1>3. /\ Action(d).spool \in SpoolIds /\ Action(d).tag \in Tags \cup {NoTag}
        /\ old.pc \in Applying
    BY <1>2, LoadAction DEF Applying
  <1>4. CASE FindSpool(d)
    <2> DEFINE q == [pc |-> "save", rows |-> old.rows, plan |-> old.plan, k |-> old.k,
                     copy |-> Apply(TagCommand(d), spools[Action(d).spool])]
    <2>1. /\ Goto(d, q) /\ UNCHANGED <<spools, slots>>
          /\ q.pc = "save" /\ q.plan = old.plan /\ q.k = old.k
      BY <1>4 DEF FindSpool
    <2>2. q.k \in Trays /\ q.plan[q.k] = Action(d)
      BY <1>2, <2>1
    <2> HIDE DEF q
    <2>3. Goto(d, q) /\ UNCHANGED <<spools, slots>>
      BY <2>1
    <2> QED BY <1>2, <1>3, <1>4, <2>1, <2>2, <2>3, WithinRowEffect
  <1>5. CASE SaveTag(d) \/ SkipTag(d) \/ CheckRow(d)
    <2> DEFINE to == IF CheckRow(d) THEN "move" ELSE "check"
               q == [pc |-> to, rows |-> old.rows, plan |-> old.plan, k |-> old.k]
    <2>1. /\ Goto(d, q) /\ UNCHANGED slots
          /\ q.pc = to /\ q.plan = old.plan /\ q.k = old.k
      BY <1>2, <1>5 DEF SaveTag, SkipTag, CheckRow, GotoRow
    <2>2. CASE SaveTag(d)
      <3>1. old.copy.tag = Action(d).tag
        BY <1>2, <2>2 DEF TaskOK
      <3>2. spools' = [spools EXCEPT ![Action(d).spool] = old.copy]
        BY <2>2 DEF SaveTag
      <3>3. spools'[Action(d).spool] = old.copy
        BY <1>1, <1>3, <3>2 DEF TablesOK
      <3>4. q.pc = "check" /\ q.k \in Trays /\ q.plan[q.k] = Action(d)
        BY <1>2, <2>1, <2>2
      <3> HIDE DEF q, to
      <3>5. Goto(d, q) /\ UNCHANGED slots /\ q.plan = old.plan /\ q.k = old.k
        BY <2>1
      <3> QED BY <1>2, <1>3, <2>2, <3>1, <3>2, <3>3, <3>4, <3>5, WithinRowEffect
    <2>3. CASE SkipTag(d)
      <3>1. UNCHANGED spools /\ ~Memorizes(d)
        BY <2>3 DEF SkipTag
      <3>2. spools[Action(d).spool] \in Spool /\ Consistent(spools[Action(d).spool])
        BY <1>1, <1>3 DEF TablesOK
      <3>3. Action(d).tag # NoTag => spools[Action(d).spool].tag = Action(d).tag
        BY <1>3, <3>1, <3>2, MemorizeOK DEF Memorizes, TagCommand
      <3>4. q.pc = "check" /\ q.k \in Trays /\ q.plan[q.k] = Action(d)
        BY <1>2, <2>1, <2>3
      <3> HIDE DEF q, to
      <3>5. Goto(d, q) /\ UNCHANGED slots /\ q.plan = old.plan /\ q.k = old.k
        BY <2>1
      <3> QED BY <1>2, <1>3, <2>3, <3>1, <3>3, <3>4, <3>5, WithinRowEffect
    <2>4. CASE CheckRow(d)
      <3>1. UNCHANGED spools /\ to = "move"
        BY <2>4 DEF CheckRow
      <3>2. Action(d).tag # NoTag => spools[Action(d).spool].tag = Action(d).tag
        BY <1>1, <1>2, <1>3, <2>4 DEF EffectOK, Tagged
      <3>3. q.pc = "move" /\ q.k \in Trays /\ q.plan[q.k] = Action(d)
        BY <1>2, <2>1, <3>1
      <3> HIDE DEF q, to
      <3>4. Goto(d, q) /\ UNCHANGED slots /\ q.plan = old.plan /\ q.k = old.k
        BY <2>1
      <3> QED BY <1>2, <1>3, <2>4, <3>1, <3>2, <3>3, <3>4, WithinRowEffect
    <2> QED BY <1>5, <2>2, <2>3, <2>4
  <1> QED BY <1>4, <1>5

(* Syncs, refusals and the last step owe nothing to a confirmation.        *)
(* A sync and the end of a confirmation lead to a state that applies none. *)
LEMMA IdleGoto ==
    ASSUME NEW d \in Drawers, Sync(d) \/ RefuseRow(d) \/ Finish(d)
    PROVE  \E q : Goto(d, q) /\ q.pc \notin Applying
  <1>1. CASE SetOffline(d) \/ CloseDrawer(d) \/ Finish(d)
    <2>1. Goto(d, Idle) /\ Idle.pc \notin Applying
      BY <1>1 DEF SetOffline, CloseDrawer, Finish, Idle, Applying
    <2> QED BY <2>1
  <1>2. CASE RefuseRow(d)
    <2> DEFINE q == [pc |-> "drawer", rows |-> tasks[d].rows]
    <2>1. Goto(d, q) /\ q.pc \notin Applying
      BY <1>2 DEF RefuseRow, Reopen, Applying
    <2> QED BY <2>1
  <1>3. CASE ListPrinters(d) \/ FetchFails(d) \/ OpenDrawer(d) \/ MatchTrays(d)
    BY <1>3 DEF ListPrinters, FetchFails, OpenDrawer, MatchTrays, Applying
  <1>4. ASSUME NEW trays \in Reports, FetchTrays(d, trays)
        PROVE  \E q : Goto(d, q) /\ q.pc \notin Applying
    BY <1>4 DEF FetchTrays, Applying
  <1> QED BY <1>1, <1>2, <1>3, <1>4 DEF Sync

(* Outside a confirmation nothing has to be in effect.                     *)
LEMMA IdleEffect ==
    ASSUME OneDrawer, EffectInv, StateInv', NEW d \in Drawers,
           Sync(d) \/ RefuseRow(d) \/ Finish(d)
    PROVE  EffectInv'
  BY IdleGoto, NotApplying DEF EffectInv

(* With one drawer, no step undoes an applied row.                         *)
LEMMA EffectInvStep ==
    ASSUME OneDrawer
    PROVE  EffectInv /\ [SerialNext]_amsVars => EffectInv'
  <1> SUFFICES ASSUME EffectInv, [SerialNext]_amsVars
               PROVE  EffectInv'
    OBVIOUS
  <1>1. [AmsNext]_amsVars
    BY DEF SerialNext, AmsNext
  <1>2. StateInv'
    BY <1>1, StateInvStep DEF EffectInv
  <1>3. ASSUME NEW d \in Drawers, Reconcile(d)
        PROVE  EffectInv'
    <2>1. CASE Sync(d) \/ RefuseRow(d) \/ Finish(d)
      BY <1>2, <2>1, IdleEffect
    <2>2. ASSUME NEW plan \in Plans(tasks[d].rows), Confirm(d, plan)
          PROVE  EffectInv'
      BY <1>2, <2>2, ConfirmEffect
    <2>3. CASE KeepRow(d) \/ UnloadRow(d) \/ MoveRow(d)
      BY <1>2, <2>3, RowEffect
    <2>4. CASE FindSpool(d) \/ SaveTag(d) \/ SkipTag(d) \/ CheckRow(d)
      BY <1>2, <2>4, TagEffect
    <2> QED BY <1>3, <2>1, <2>2, <2>3, <2>4 DEF Reconcile, ApplyPlan
  <1>4. CASE NoneServed /\ Others
    BY <1>2, <1>4 DEF NoneServed, Others, EffectInv, EffectOK, Applying
  <1>5. CASE UNCHANGED amsVars
    BY <1>2, <1>5 DEF amsVars, EffectInv
  <1> QED BY <1>3, <1>4, <1>5 DEF SerialNext

(* No confirmation is under way.                                           *)
LEMMA EffectInvInit == AmsInit => EffectInv
  BY StateInvInit DEF AmsInit, EffectInv, EffectOK, Idle, Applying

(* Served without interference, a confirmation puts each row it applied    *)
(* into effect and keeps it so while it applies the rest (confirm).        *)
THEOREM RowsTakeEffect ==
    ASSUME OneDrawer
    PROVE  SerialSpec => []RowsInEffect
  <1>1. EffectInv => RowsInEffect
    BY DEF EffectInv, EffectOK, InEffect, RowsInEffect
  <1>2. EffectInv /\ [SerialNext]_amsVars => EffectInv'
    BY EffectInvStep
  <1> QED BY <1>1, <1>2, EffectInvInit, PTL DEF SerialSpec

(* Served without interference, a tray with a tag for which a row was      *)
(* applied is a match for the next sync (confirm memorizes the tag).       *)
THEOREM NextSyncIsMatch ==
    ASSUME OneDrawer
    PROVE  SerialSpec => []NextSyncMatches
  <1>1. ASSUME EffectInv, NEW d \in Drawers, tasks[d].pc = "apply",
               NEW i \in Standing(tasks[d]),
               tasks[d].plan[i].op = "load", tasks[d].plan[i].tag # NoTag
        PROVE  Kind([tag |-> tasks[d].plan[i].tag, look |-> NoLook],
                    LocalAt(Local, TrayOrder[i]), NoSpool) = "Match"
    <2> DEFINE action == tasks[d].plan[i]
               sl == TrayOrder[i]
    <2>1. /\ i \in Trays /\ tasks[d].plan \in Plan
          /\ InEffect(tasks[d], slots) /\ Tagged(tasks[d], spools)
      BY <1>1 DEF Standing, EffectInv, EffectOK, StateInv, TasksOK, TaskOK, Applying
    <2>2. action \in Actions /\ sl \in SlotIds
      BY <1>1, <2>1 DEF Plan, Unlisted
    <2>3. action.spool \in SpoolIds
      BY <1>1, <2>2, LoadAction
    <2>4. slots[sl] = action.spool /\ spools[action.spool].tag = action.tag
      BY <1>1, <2>1 DEF InEffect, Tagged
    <2>5. LocalAt(Local, sl) = [spool |-> action.spool, tag |-> action.tag]
      BY <2>2, <2>3, <2>4, SlotsAssumption DEF LocalAt, Local
    <2> QED BY <1>1, <2>3, <2>5, SlotsAssumption DEF Kind, EmptyTray
  <1>2. EffectInv => NextSyncMatches
    BY <1>1 DEF NextSyncMatches
  <1>3. EffectInv /\ [SerialNext]_amsVars => EffectInv'
    BY EffectInvStep
  <1> QED BY <1>2, <1>3, EffectInvInit, PTL DEF SerialSpec

-------------------------------------------------------------------------------
(* A confirmation as a client of the atomic promise.                       *)

(* The copy about to be saved is still what memorizing makes of the row.   *)
CopyOK(q, rows) ==
    q.pc = "save" =>
        LET action == q.plan[q.k]
            cmd == [op |-> "memorize_ams_tag", tag |-> action.tag]
        IN  /\ action.tag \in Tags
            /\ Accepts(cmd, rows[action.spool])
            /\ q.copy = Apply(cmd, rows[action.spool])

(* The types, and the copies about to be saved.                            *)
CopyInv ==
    /\ StateInv
    /\ \A d \in Drawers : CopyOK(tasks[d], spools)

(* Only the confirmation that moves may hold a copy.                       *)
LEMMA GotoCopy ==
    ASSUME OneDrawer, StateInv, StateInv', NEW d \in Drawers, NEW q, Goto(d, q),
           CopyOK(q, spools')
    PROVE  CopyInv'
  BY DEF OneDrawer, StateInv, TasksOK, Goto, CopyInv

(* The copy found is the row with the tag put on it.                       *)
LEMMA FindCopies ==
    ASSUME OneDrawer, StateInv, StateInv', NEW d \in Drawers, FindSpool(d)
    PROVE  CopyInv'
  <1> DEFINE action == Action(d)
             cmd == TagCommand(d)
             q == [pc |-> "save", rows |-> tasks[d].rows, plan |-> tasks[d].plan,
                   k |-> tasks[d].k, copy |-> Apply(cmd, spools[action.spool])]
  <1>1. /\ tasks[d].k \in Trays /\ action = tasks[d].plan[tasks[d].k]
        /\ action \in Actions /\ action.op = "load"
    BY AtOK DEF FindSpool, StateInv, Applying
  <1>2. action.tag \in Tags /\ Accepts(cmd, spools[action.spool])
    BY <1>1, LoadAction DEF FindSpool, Memorizes
  <1>3. Goto(d, q) /\ spools' = spools
    BY DEF FindSpool
  <1>4. CopyOK(q, spools)
    BY <1>1, <1>2 DEF CopyOK, TagCommand
  <1> QED BY <1>3, <1>4, GotoCopy

(* No step but the find leaves a copy to be saved.                         *)
LEMMA OtherStepsKeepNoCopy ==
    ASSUME OneDrawer, StateInv, StateInv', NEW d \in Drawers, Reconcile(d), ~FindSpool(d)
    PROVE  CopyInv'
  <1>1. \E q : Goto(d, q) /\ q.pc # "save"
    <2>1. CASE Sync(d) \/ RefuseRow(d) \/ Finish(d)
      BY <2>1, IdleGoto DEF Applying
    <2>2. ASSUME NEW plan \in Plans(tasks[d].rows), Confirm(d, plan)
          PROVE  \E q : Goto(d, q) /\ q.pc # "save"
      BY <2>2 DEF Confirm
    <2>3. ASSUME NEW pc \in {"apply", "check", "move"}, NEW k, GotoRow(d, pc, k)
          PROVE  \E q : Goto(d, q) /\ q.pc # "save"
      BY <2>3 DEF GotoRow
    <2>4. CASE KeepRow(d) \/ UnloadRow(d) \/ MoveRow(d)
      BY <2>3, <2>4 DEF KeepRow, UnloadRow, MoveRow, NextRow
    <2>5. CASE SaveTag(d) \/ SkipTag(d) \/ CheckRow(d)
      BY <2>3, <2>5 DEF SaveTag, SkipTag, CheckRow
    <2> QED BY <2>1, <2>2, <2>4, <2>5 DEF Reconcile, ApplyPlan
  <1> QED BY <1>1, GotoCopy DEF CopyOK

(* With one drawer, the row does not change between find and save.         *)
LEMMA CopyInvStep ==
    ASSUME OneDrawer
    PROVE  CopyInv /\ [SerialNext]_amsVars => CopyInv'
  <1> SUFFICES ASSUME CopyInv, [SerialNext]_amsVars
               PROVE  CopyInv'
    OBVIOUS
  <1>1. StateInv /\ StateInv'
    BY StateInvStep DEF CopyInv, SerialNext, AmsNext
  <1>2. ASSUME NEW d \in Drawers, Reconcile(d)
        PROVE  CopyInv'
    BY <1>1, <1>2, FindCopies, OtherStepsKeepNoCopy
  <1>3. CASE NoneServed /\ Others
    BY <1>1, <1>3 DEF NoneServed, Others, CopyInv, CopyOK
  <1>4. CASE UNCHANGED amsVars
    BY <1>1, <1>4 DEF amsVars, CopyInv
  <1> QED BY <1>2, <1>3, <1>4 DEF SerialNext

(* No copy at first.                                                       *)
LEMMA CopyInvInit == AmsInit => CopyInv
  BY StateInvInit DEF AmsInit, CopyInv, CopyOK, Idle

(* In this module every id has a row.                                      *)
LEMMA EveryIdHasARow == TablesOK => Rows = SpoolIds
  BY StockAssumption DEF TablesOK, Rows

(* Saving the copy is one command on the row as it stands.                 *)
LEMMA SavesAtomically ==
    ASSUME CopyInv, NEW d \in Drawers, SaveTag(d)
    PROVE  Next
  <1> DEFINE action == Action(d)
             cmd == TagCommand(d)
  <1>1. /\ tasks[d].pc = "save" /\ action = tasks[d].plan[tasks[d].k]
        /\ action \in Actions /\ action.op = "load"
    BY AtOK DEF SaveTag, CopyInv, StateInv, Applying
  <1>2. action.spool \in SpoolIds /\ action.spool \in Rows
    BY <1>1, LoadAction, EveryIdHasARow DEF CopyInv, StateInv
  <1>3. /\ action.tag \in Tags /\ Accepts(cmd, spools[action.spool])
        /\ tasks[d].copy = Apply(cmd, spools[action.spool])
    BY <1>1 DEF CopyInv, CopyOK, TagCommand
  <1>4. cmd \in Commands /\ \A row : ~Unloads(cmd, row)
    BY <1>3 DEF TagCommand, Commands, MemorizeTag, Unloads, FinishedOps
  <1>5. Operate(action.spool, cmd)
    BY <1>2, <1>3, <1>4 DEF SaveTag, Operate
  <1> QED BY <1>2, <1>4, <1>5 DEF Next

(* A move or an unload of a row is that of Inventory.                      *)
LEMMA RowsMoveAtomically ==
    ASSUME StateInv, NEW d \in Drawers, MoveRow(d) \/ UnloadRow(d)
    PROVE  Next
  <1>1. PICK pc \in Applying, op \in {"load", "unload"} : At(d, pc, op)
    BY DEF MoveRow, UnloadRow, Applying
  <1>2. /\ tasks[d].k \in Trays /\ tasks[d].plan \in Plan /\ Action(d) = tasks[d].plan[tasks[d].k]
        /\ Action(d) \in Actions /\ Action(d).op = op
    BY <1>1, AtOK DEF StateInv
  <1>3. Slot(d) \in SlotIds
    BY <1>2 DEF Slot, Plan, Unlisted
  <1>4. CASE MoveRow(d)
    <2>1. Action(d).op = "load"
      BY <1>2, <1>4 DEF MoveRow, At
    <2>2. Action(d).spool \in SpoolIds /\ Action(d).spool \in Rows
      BY <1>2, <2>1, LoadAction, EveryIdHasARow DEF StateInv
    <2>3. Load(Action(d).spool, Slot(d))
      BY <1>4, <2>2 DEF MoveRow, Load
    <2> QED BY <1>3, <2>2, <2>3 DEF Next
  <1>5. CASE UnloadRow(d)
    <2>1. Unload(Slot(d))
      BY <1>5 DEF UnloadRow, Unload
    <2> QED BY <1>3, <2>1 DEF Next
  <1> QED BY <1>4, <1>5

(* Served without interference, whatever a confirmation does to spools and *)
(* slots a client of Inventory could have done: the tag it saves is put on *)
(* the row as it stands, and no unload is owed (memorize_ams_tag, confirm).*)
THEOREM ConfirmationsAreAtomic ==
    ASSUME OneDrawer
    PROVE  SerialSpec => StepsAreAtomic
  <1>1. CopyInv /\ [SerialNext]_amsVars => [Next]_vars
    <2> SUFFICES ASSUME CopyInv, [SerialNext]_amsVars
                 PROVE  [Next]_vars
      OBVIOUS
    <2>1. ASSUME NEW d \in Drawers, Sync(d)
          PROVE  UNCHANGED vars
      BY <2>1, SyncOK DEF CopyInv, StateInv, vars
    <2>2. ASSUME NEW d \in Drawers, NEW plan, Confirm(d, plan)
          PROVE  UNCHANGED vars
      BY <2>2 DEF Confirm, vars
    <2>3. ASSUME NEW d \in Drawers,
                 KeepRow(d) \/ FindSpool(d) \/ SkipTag(d) \/ CheckRow(d) \/ RefuseRow(d) \/ Finish(d)
          PROVE  UNCHANGED vars
      BY <2>3 DEF KeepRow, FindSpool, SkipTag, CheckRow, RefuseRow, Finish, vars
    <2>4. ASSUME NEW d \in Drawers, SaveTag(d) \/ MoveRow(d) \/ UnloadRow(d)
          PROVE  Next
      BY <2>4, SavesAtomically, RowsMoveAtomically DEF CopyInv
    <2>5. CASE NoneServed /\ Others
      BY <2>5 DEF Others, Next
    <2>6. CASE UNCHANGED amsVars
      BY <2>6 DEF amsVars, vars
    <2> QED BY <2>1, <2>2, <2>3, <2>4, <2>5, <2>6 DEF SerialNext, Reconcile, ApplyPlan
  <1>2. CopyInv /\ [SerialNext]_amsVars => CopyInv'
    BY CopyInvStep
  <1> QED BY <1>1, <1>2, CopyInvInit, PTL DEF SerialSpec, StepsAreAtomic

-------------------------------------------------------------------------------
(* Pages.                                                                  *)

(* A finite set as a sequence: each element once.                          *)
LEMMA SetToSeqOK ==
    ASSUME NEW S, IsFiniteSet(S)
    PROVE  /\ Cardinality(S) \in Nat
           /\ SetToSeq(S) \in [1 .. Cardinality(S) -> S] /\ IsInjective(SetToSeq(S))
           /\ \A x \in S : \E i \in 1 .. Cardinality(S) : SetToSeq(S)[i] = x
  <1> DEFINE n == Cardinality(S)
  <1>1. n \in Nat /\ ExistsBijection(1 .. n, S)
    BY FS_CardinalityType
  <1>2. PICK f \in Bijection(1 .. n, S) : TRUE
    BY <1>1 DEF ExistsBijection
  <1>3. f \in [1 .. n -> S] /\ IsInjective(f)
    BY <1>2 DEF Bijection, Injection
  <1>4. SetToSeq(S) \in [1 .. n -> S] /\ IsInjective(SetToSeq(S))
    BY <1>3 DEF SetToSeq
  <1>5. SetToSeq(S) \in Injection(1 .. n, S)
    BY <1>4 DEF Injection
  <1>6. Cardinality(1 .. n) = n
    BY <1>1, FS_Interval
  <1>7. SetToSeq(S) \in Surjection(1 .. n, S)
    BY <1>5, <1>6, FS_Injection
  <1> QED BY <1>1, <1>4, <1>7 DEF Surjection

(* The pages that read.                                                    *)
PageKinds == {"list", "rows", "home", "loading", "edit"}

(* The question for the choices of slot sl.                                *)
Offer(sl) == [ask |-> "offers", slot |-> sl]

(* The reads of a page: what is left to do is their end, and the answers   *)
(* seen are those to the others.                                           *)
Halfway(page, done) ==
    LET all == Reads(page.kind) IN
    /\ page.todo = [j \in 1 .. Len(all) - done |-> all[done + j]]
    /\ DOMAIN page.seen = {all[i] : i \in 1 .. done}

(* What a page has seen of the slots, of their choices and of the spool it *)
(* edits is how they are, until a write overlaps it.                       *)
UpToDate(page, rows, held) ==
    /\ page.kind = "loading" =>
          /\ Ask("printers") \in DOMAIN page.seen => page.seen[Ask("printers")] = held
          /\ \A sl \in SlotIds : Offer(sl) \in DOMAIN page.seen =>
                page.seen[Offer(sl)] = Offers(rows, held, held[sl])
    /\ page.kind = "edit" /\ Ask("view") \in DOMAIN page.seen =>
          page.seen[Ask("view")] = rows[page.spool]

(* A page is halfway through its reads; what it read it has, and what no   *)
(* write overlapped is as it was read.                                     *)
PageWell(page, rows, held) ==
    /\ page = [kind |-> page.kind, query |-> page.query, spool |-> page.spool,
               todo |-> page.todo, seen |-> page.seen, overlaps |-> page.overlaps]
    /\ page.kind \in PageKinds /\ page.overlaps \in Nat
    /\ \E done \in 0 .. Len(Reads(page.kind)) : Halfway(page, done)
    /\ page.overlaps = 0 => UpToDate(page, rows, held)
    /\ page.kind = "edit" =>
          /\ page.spool \in SpoolIds /\ rows[page.spool] # NoRow
          /\ Ask("view") \in DOMAIN page.seen => page.seen[Ask("view")] \in Spool

(* The atomic promise, and every page well.                                *)
PagesInv ==
    /\ Inv
    /\ pages = [b \in Browsers |-> pages[b]]
    /\ \A b \in Browsers : pages[b] = NoPage \/ PageWell(pages[b], spools, slots)

(* A function from 1 .. its length.                                        *)
IsSequence(seq) == seq = [j \in 1 .. Len(seq) |-> seq[j]]

(* A sequence is a function on 1 .. its length.                            *)
LEMMA SequencesAre ==
    ASSUME NEW S, NEW seq \in Seq(S)
    PROVE  Len(seq) \in Nat /\ IsSequence(seq)
  BY DEF IsSequence

(* A loading page asks for the slots first and then for the choices of     *)
(* each.                                                                   *)
LEMMA LoadingReads ==
    LET all == Reads("loading")  n == Cardinality(SlotIds) IN
    /\ n \in Nat /\ Len(all) = n + 2 /\ IsSequence(all)
    /\ all[1] = Ask("printers") /\ all[n + 2] = Ask("nav")
    /\ \A i \in 2 .. n + 1 : \E sl \in SlotIds : all[i] = Offer(sl)
    /\ \A sl \in SlotIds : \E i \in 2 .. n + 1 : all[i] = Offer(sl)
  <1> DEFINE n == Cardinality(SlotIds)
             f == SetToSeq(SlotIds)
             offers == [i \in 1 .. n |-> Offer(f[i])]
             all == Reads("loading")
  <1>1. /\ n \in Nat /\ f \in [1 .. n -> SlotIds]
        /\ \A x \in SlotIds : \E i \in 1 .. n : f[i] = x
    BY SetToSeqOK, ReadModelsAssumption
  <1>2. all = <<Ask("printers")>> \o offers \o <<Ask("nav")>>
    BY DEF Reads, OfferReads, Offer
  <1> HIDE DEF f
  <1>3. DOMAIN offers = 1 .. n /\ \A i \in 1 .. n : offers[i] = Offer(f[i])
    OBVIOUS
  <1>4. offers \in Seq({Offer(sl) : sl \in SlotIds})
    <2>1. offers \in [1 .. n -> {Offer(sl) : sl \in SlotIds}]
      BY <1>1
    <2> QED BY <1>1, <2>1
  <1>5. Len(offers) = n
    BY <1>1, <1>3, <1>4
  <1> HIDE DEF offers, n
  <1>6. /\ Len(all) = n + 2 /\ IsSequence(all) /\ all[1] = Ask("printers") /\ all[n + 2] = Ask("nav")
        /\ \A i \in 2 .. n + 1 : all[i] = offers[i - 1]
    <2> DEFINE U == {Offer(sl) : sl \in SlotIds} \cup {Ask("printers"), Ask("nav")}
    <2>1. /\ <<Ask("printers")>> \in Seq(U) /\ offers \in Seq(U) /\ <<Ask("nav")>> \in Seq(U)
      BY <1>4
    <2> HIDE DEF U
    <2> DEFINE head == <<Ask("printers")>>
               front == head \o offers
    <2>2. /\ Len(head) = 1 /\ head[1] = Ask("printers")
      OBVIOUS
    <2> HIDE DEF head
    <2>3. /\ front \in Seq(U) /\ Len(front) = n + 1 /\ front[1] = Ask("printers")
          /\ \A i \in 2 .. n + 1 : front[i] = offers[i - 1]
      BY <1>1, <1>5, <2>1, <2>2 DEF head
    <2>4. all = front \o <<Ask("nav")>>
      BY <1>2 DEF head
    <2> HIDE DEF front, all
    <2>5. all \in Seq(U)
      BY <2>1, <2>3, <2>4
    <2>6. IsSequence(all)
      BY <2>5, SequencesAre
    <2> DEFINE last == <<Ask("nav")>>
    <2>7. last \in Seq(U) /\ Len(last) = 1 /\ last[1] = Ask("nav")
      BY <2>1
    <2>8. all = front \o last
      BY <2>4
    <2> HIDE DEF last
    <2>9. /\ Len(all) = n + 2 /\ all[n + 2] = Ask("nav")
          /\ \A i \in 1 .. n + 1 : all[i] = front[i]
      <3> HIDE DEF n
      <3>1. \A g, h \in Seq(U) :
               /\ Len(g \o h) = Len(g) + Len(h)
               /\ \A i \in 1 .. Len(g) + Len(h) :
                     (g \o h)[i] = IF i <= Len(g) THEN g[i] ELSE h[i - Len(g)]
        OBVIOUS
      <3>2. /\ Len(all) = Len(front) + 1 /\ all[Len(front) + 1] = last[(Len(front) + 1) - Len(front)]
            /\ \A i \in 1 .. Len(front) : all[i] = front[i]
        <4> DEFINE lf == Len(front)
        <4>1. lf \in Nat /\ Len(last) = 1
          BY <1>1, <2>3, <2>7
        <4> HIDE DEF lf
        <4>2. /\ Len(all) = lf + 1
              /\ \A i \in 1 .. lf + 1 : all[i] = IF i <= lf THEN front[i] ELSE last[i - lf]
          BY <2>3, <2>7, <2>8, <3>1, <4>1 DEF lf
        <4> QED BY <4>1, <4>2 DEF lf
      <3>3. (Len(front) + 1) - Len(front) = 1
        BY <1>1, <2>3
      <3> QED BY <1>1, <2>3, <2>7, <3>2, <3>3
    <2> QED BY <1>1, <2>3, <2>6, <2>9
  <1>7. \A i \in 2 .. n + 1 : \E sl \in SlotIds : all[i] = Offer(sl)
    <2> TAKE i \in 2 .. n + 1
    <2>1. i - 1 \in 1 .. n
      BY <1>1
    <2>2. all[i] = Offer(f[i - 1]) /\ f[i - 1] \in SlotIds
      BY <1>1, <1>3, <1>6, <2>1
    <2> QED BY <2>2
  <1>8. \A sl \in SlotIds : \E i \in 2 .. n + 1 : all[i] = Offer(sl)
    <2> TAKE sl \in SlotIds
    <2>1. PICK i \in 1 .. n : f[i] = sl
      BY <1>1
    <2>2. i + 1 \in 2 .. n + 1 /\ (i + 1) - 1 = i
      BY <1>1, <2>1
    <2> QED BY <1>3, <1>6, <2>1, <2>2
  <1> QED BY <1>1, <1>6, <1>7, <1>8 DEF n

(* The reads of every page are a finite sequence.                          *)
LEMMA ReadsAre ==
    \A kind \in PageKinds : Len(Reads(kind)) \in Nat /\ IsSequence(Reads(kind))
  <1>1. Len(Reads("loading")) \in Nat /\ IsSequence(Reads("loading"))
    BY LoadingReads
  <1>2. ASSUME NEW kind \in PageKinds \ {"loading"}
        PROVE  Len(Reads(kind)) \in Nat /\ IsSequence(Reads(kind))
    <2> DEFINE U == {Ask(name) : name \in {"threshold", "total", "value", "list", "nav",
                                           "overview", "view"}}
    <2>1. /\ Ask("threshold") \in U /\ Ask("total") \in U /\ Ask("value") \in U
          /\ Ask("list") \in U /\ Ask("nav") \in U /\ Ask("overview") \in U
          /\ Ask("view") \in U
      OBVIOUS
    <2> HIDE DEF U
    <2>2. Reads(kind) \in Seq(U)
      BY <2>1 DEF PageKinds, Reads
    <2> QED BY <2>2, SequencesAre
  <1> QED BY <1>1, <1>2

(* Questions with different names differ.                                  *)
LEMMA Asks ==
    ASSUME NEW sl
    PROVE  /\ Ask("printers") # Offer(sl) /\ Ask("nav") # Offer(sl)
           /\ Ask("printers") # Ask("nav") /\ Offer(sl).ask = "offers" /\ Offer(sl).slot = sl
           /\ \A name : Ask(name).ask = name
  BY DEF Ask, Offer

(* The choices of different slots are different questions.                 *)
LEMMA Offered ==
    ASSUME NEW sl, NEW other, Offer(sl) = Offer(other)
    PROVE  sl = other
  BY Asks

(* No page is of no kind.                                                  *)
LEMMA NoPageIsNone == NoPage.kind = "none"
  BY DEF NoPage

(* A page that is opened has read nothing yet.                             *)
LEMMA OpenedWell ==
    ASSUME NEW kind \in PageKinds, NEW query, NEW s, kind = "edit" => s \in Rows
    PROVE  PageWell(Opened(kind, query, s), spools, slots)
  <1> DEFINE page == Opened(kind, query, s)
             all == Reads(kind)
  <1>1. /\ page = [kind |-> kind, query |-> query, spool |-> s, todo |-> all,
                   seen |-> <<>>, overlaps |-> 0]
        /\ page.kind = kind /\ page.todo = all /\ page.seen = <<>> /\ page.overlaps = 0
        /\ page.query = query /\ page.spool = s
    BY DEF Opened
  <1>2. Len(all) \in Nat /\ all = [j \in 1 .. Len(all) |-> all[j]]
    BY ReadsAre DEF IsSequence
  <1> HIDE DEF page, all
  <1>3. [j \in 1 .. Len(all) - 0 |-> all[0 + j]] = [j \in 1 .. Len(all) |-> all[j]]
    BY <1>2
  <1>4. DOMAIN page.seen = {} /\ {all[i] : i \in 1 .. 0} = {}
    BY <1>1
  <1>5. Halfway(page, 0)
    BY <1>1, <1>2, <1>3, <1>4 DEF Halfway, all
  <1>6. 0 \in 0 .. Len(Reads(kind))
    BY <1>2 DEF all
  <1>7. UpToDate(page, spools, slots)
    BY <1>4 DEF UpToDate
  <1> QED BY <1>1, <1>5, <1>6, <1>7 DEF PageWell, Rows, page

(* What a handler asks for next, and what it has asked for.                *)
LEMMA NextRead ==
    ASSUME NEW page, NEW rows, NEW held, PageWell(page, rows, held), page.todo # <<>>
    PROVE  LET all == Reads(page.kind) IN
           \E done \in Nat :
              /\ done < Len(all) /\ DOMAIN page.seen = {all[i] : i \in 1 .. done}
              /\ Head(page.todo) = all[done + 1]
              /\ Tail(page.todo) = [j \in 1 .. Len(all) - (done + 1) |-> all[(done + 1) + j]]
  <1> DEFINE all == Reads(page.kind)
             l == Len(all)
             read == Head(page.todo)
             left == Tail(page.todo)
  <1>1. PICK done \in 0 .. l : Halfway(page, done)
    BY DEF PageWell
  <1>2. l \in Nat
    BY ReadsAre DEF PageWell
  <1>3. /\ page.todo = [j \in 1 .. l - done |-> all[done + j]]
        /\ DOMAIN page.seen = {all[i] : i \in 1 .. done}
    BY <1>1 DEF Halfway
  <1> HIDE DEF l, all
  <1>4. page.todo \in Seq({all[i] : i \in 1 .. l}) /\ Len(page.todo) = l - done
    <2>1. \A j \in 1 .. l - done : done + j \in 1 .. l
      BY <1>2
    <2>2. l - done \in Nat
      BY <1>2
    <2> QED BY <1>3, <2>1, <2>2
  <1>5. done < l /\ done \in Nat
    BY <1>2, <1>4
  <1>6. /\ read = all[done + 1]
        /\ left = [j \in 1 .. l - (done + 1) |-> all[(done + 1) + j]]
    <2>1. l - done \in Nat /\ l - done >= 1 /\ done \in Nat
      BY <1>2, <1>5
    <2>2. read = page.todo[1] /\ page.todo[1] = all[done + 1]
      BY <1>3, <1>4, <2>1
    <2>3. left = [j \in 1 .. (l - done) - 1 |-> page.todo[j + 1]]
      BY <1>4, <2>1
    <2>4. \A j \in 1 .. (l - done) - 1 : page.todo[j + 1] = all[(done + 1) + j]
      BY <1>2, <1>3, <2>1
    <2>5. (l - done) - 1 = l - (done + 1)
      BY <1>2, <2>1
    <2> QED BY <2>2, <2>3, <2>4, <2>5
  <1> QED BY <1>3, <1>5, <1>6 DEF l, all

(* Nothing is forgotten, and what is read now is how it is.                *)
LEMMA ReadWell ==
    ASSUME NEW page, PageWell(page, spools, slots), page.todo # <<>>, TypeOK
    PROVE  PageWell([page EXCEPT !.todo = Tail(page.todo),
                                 !.seen = Answered(page, Head(page.todo))],
                    spools, slots)
  <1> DEFINE all == Reads(page.kind)
             read == Head(page.todo)
             left == Tail(page.todo)
             seen == Answered(page, read)
             new == [page EXCEPT !.todo = left, !.seen = seen]
  <1> DEFINE l == Len(all)
  <1>2. l \in Nat
    BY ReadsAre DEF PageWell
  <1>3. PICK done \in Nat :
           /\ done < l /\ DOMAIN page.seen = {all[i] : i \in 1 .. done}
           /\ read = all[done + 1]
           /\ left = [j \in 1 .. l - (done + 1) |-> all[(done + 1) + j]]
    BY NextRead
  <1> HIDE DEF all
  <1>7. /\ DOMAIN seen = DOMAIN page.seen \cup {read}
        /\ seen[read] = Answer(page, read)
        /\ \A r \in DOMAIN page.seen : r # read => seen[r] = page.seen[r]
    BY DEF Answered
  <1>8. DOMAIN seen = {all[i] : i \in 1 .. done + 1}
    <2>1. 1 .. done + 1 = (1 .. done) \cup {done + 1}
      OBVIOUS
    <2>2. {all[i] : i \in 1 .. done + 1} = {all[i] : i \in 1 .. done} \cup {all[done + 1]}
      BY <2>1
    <2> QED BY <1>3, <1>7, <2>2
  <1> HIDE DEF read, left, seen
  <1>9. /\ new = [kind |-> page.kind, query |-> page.query, spool |-> page.spool,
                  todo |-> left, seen |-> seen, overlaps |-> page.overlaps]
        /\ new.kind = page.kind /\ new.query = page.query /\ new.spool = page.spool
        /\ new.todo = left /\ new.seen = seen /\ new.overlaps = page.overlaps
    <2> DEFINE whole == [kind |-> page.kind, query |-> page.query, spool |-> page.spool,
                         todo |-> page.todo, seen |-> page.seen, overlaps |-> page.overlaps]
    <2>1. page = whole
      BY DEF PageWell
    <2>2. new = [whole EXCEPT !.todo = left, !.seen = seen]
      BY <2>1
    <2> HIDE DEF new
    <2>3. new = [kind |-> page.kind, query |-> page.query, spool |-> page.spool,
                 todo |-> left, seen |-> seen, overlaps |-> page.overlaps]
      BY <2>2
    <2> QED BY <2>3
  <1> HIDE DEF new
  <1>10. Halfway(new, done + 1) /\ done + 1 \in 0 .. l
    BY <1>2, <1>3, <1>8, <1>9 DEF Halfway, all
  <1>11. ASSUME page.overlaps = 0
         PROVE  UpToDate(new, spools, slots)
    <2>1. UpToDate(page, spools, slots)
      BY <1>11 DEF PageWell
    <2>2. CASE page.kind = "loading"
      <3>1. all[1] = Ask("printers")
        BY <2>2, LoadingReads DEF all
      <3>2. done # 0 => Ask("printers") \in DOMAIN page.seen
        BY <1>2, <1>3, <3>1
      <3>3. ASSUME Ask("printers") \in DOMAIN seen
            PROVE  seen[Ask("printers")] = slots
        <4>1. CASE Ask("printers") # read
          BY <1>7, <2>1, <2>2, <3>3, <4>1 DEF UpToDate
        <4>2. CASE Ask("printers") = read
          <5>1. Answer(page, Ask("printers")) = slots
            BY DEF Answer, Ask
          <5> QED BY <1>7, <4>2, <5>1
        <4> QED BY <4>1, <4>2
      <3>4. ASSUME NEW sl \in SlotIds, Offer(sl) \in DOMAIN seen
            PROVE  seen[Offer(sl)] = Offers(spools, slots, slots[sl])
        <4>1. CASE Offer(sl) # read
          BY <1>7, <2>1, <2>2, <3>4, <4>1 DEF UpToDate
        <4>2. CASE Offer(sl) = read
          <5>1. read = Offer(sl)
            BY <4>2
          <5>2. done # 0
            <6> SUFFICES ASSUME done = 0 PROVE FALSE
              OBVIOUS
            <6>1. done + 1 = 1
              OBVIOUS
            <6>2. read = all[1]
              BY <1>3, <6>1
            <6> QED BY <3>1, <5>1, <6>2, Asks
          <5>3. page.seen[Ask("printers")] = slots
            BY <2>1, <2>2, <3>2, <5>2 DEF UpToDate
          <5>4. Answer(page, Offer(sl))
                  = Offers(spools, slots, page.seen[Ask("printers")][sl])
            BY DEF Answer, Offer
          <5> QED BY <1>7, <4>2, <5>1, <5>3, <5>4
        <4> QED BY <4>1, <4>2
      <3> QED BY <1>9, <2>2, <3>3, <3>4 DEF UpToDate
    <2>3. CASE page.kind = "edit"
      <3>1. ASSUME Ask("view") \in DOMAIN seen
            PROVE  seen[Ask("view")] = spools[page.spool]
        <4>1. CASE Ask("view") # read
          BY <1>7, <2>1, <2>3, <3>1, <4>1 DEF UpToDate
        <4>2. CASE Ask("view") = read
          <5>1. Answer(page, Ask("view")) = spools[page.spool]
            BY DEF Answer, Ask
          <5> QED BY <1>7, <4>2, <5>1
        <4> QED BY <4>1, <4>2
      <3> QED BY <1>9, <2>3, <3>1 DEF UpToDate
    <2>4. CASE page.kind \notin {"loading", "edit"}
      BY <1>9, <2>4 DEF UpToDate
    <2> QED BY <2>2, <2>3, <2>4
  <1>12. ASSUME page.kind = "edit", Ask("view") \in DOMAIN seen
         PROVE  seen[Ask("view")] \in Spool
    <2>1. CASE Ask("view") # read
      BY <1>7, <1>12, <2>1 DEF PageWell
    <2>2. CASE Ask("view") = read
      <3>1. Answer(page, Ask("view")) = spools[page.spool]
        BY DEF Answer, Ask
      <3>2. spools[page.spool] \in Spool
        BY <1>12 DEF PageWell, TypeOK
      <3> QED BY <1>7, <2>2, <3>1, <3>2
    <2> QED BY <2>1, <2>2
  <1>13. PageWell(new, spools, slots)
    BY <1>9, <1>10, <1>11, <1>12 DEF PageWell, all
  <1> QED BY <1>13 DEF new, read, left, seen

(* A write that overlaps a page leaves it as it was read; rows stay.       *)
LEMMA OverlapWell ==
    ASSUME NEW page, NEW rows, NEW held, PageWell(page, rows, held),
           NEW newRows, NEW newHeld,
           \A s \in SpoolIds : rows[s] # NoRow => newRows[s] # NoRow
    PROVE  PageWell([page EXCEPT !.overlaps = page.overlaps + 1], newRows, newHeld)
  <1> DEFINE o == page.overlaps + 1
             new == [page EXCEPT !.overlaps = o]
  <1>1. o \in Nat /\ o # 0
    BY DEF PageWell
  <1> HIDE DEF o
  <1>2. /\ new = [kind |-> page.kind, query |-> page.query, spool |-> page.spool,
                  todo |-> page.todo, seen |-> page.seen, overlaps |-> o]
        /\ new.kind = page.kind /\ new.query = page.query /\ new.spool = page.spool
        /\ new.todo = page.todo /\ new.seen = page.seen /\ new.overlaps = o
    BY DEF PageWell
  <1> HIDE DEF new
  <1>3. PICK done \in 0 .. Len(Reads(page.kind)) : Halfway(page, done)
    BY DEF PageWell
  <1>4. Halfway(new, done)
    BY <1>2, <1>3 DEF Halfway
  <1>5. PageWell(new, newRows, newHeld)
    BY <1>1, <1>2, <1>3, <1>4 DEF PageWell
  <1> QED BY <1>5 DEF new, o

(* No command deletes a row.                                               *)
LEMMA RowsStay ==
    ASSUME Inv, Next
    PROVE  \A s \in SpoolIds : spools[s] # NoRow => spools'[s] # NoRow
  <1>1. ASSUME NEW s \in SpoolIds, Create(s)
        PROVE  \A t \in SpoolIds : spools[t] # NoRow => spools'[t] # NoRow
    BY <1>1 DEF Create, Rows, Inv, TypeOK
  <1>2. ASSUME NEW s \in SpoolIds, NEW cmd \in Commands, Operate(s, cmd)
        PROVE  \A t \in SpoolIds : spools[t] # NoRow => spools'[t] # NoRow
    <2>1. Apply(cmd, spools[s]) \in Spool
      BY <1>2, ApplyOK DEF Operate, Inv, TypeOK, Rows
    <2> QED BY <1>2, <2>1, StockAssumption DEF Operate, Inv, TypeOK
  <1>3. CASE spools' = spools
    BY <1>3
  <1> QED BY <1>1, <1>2, <1>3 DEF Next, Load, Unload

(* A write under open pages keeps them well.                               *)
LEMMA OverlapStep ==
    ASSUME PagesInv, NEW readers, Overlap(readers), [Next]_vars
    PROVE  PagesInv'
  <1>1. Inv'
    BY InvStep DEF PagesInv
  <1>2. \A s \in SpoolIds : spools[s] # NoRow => spools'[s] # NoRow
    BY RowsStay DEF PagesInv, vars
  <1>3. pages' = [b \in Browsers |-> pages'[b]]
    BY DEF Overlap
  <1>4. ASSUME NEW b \in Browsers
        PROVE  pages'[b] = NoPage \/ PageWell(pages'[b], spools', slots')
    <2>1. CASE b \in readers /\ Open(b)
      <3>1. pages'[b] = [pages[b] EXCEPT !.overlaps = pages[b].overlaps + 1]
        BY <2>1 DEF Overlap
      <3>2. PageWell(pages[b], spools, slots)
        BY <2>1, NoPageIsNone DEF PagesInv, Open
      <3> QED BY <1>2, <3>1, <3>2, OverlapWell
    <2>2. CASE b \in readers /\ ~Open(b)
      <3>1. pages[b] = NoPage
        BY <2>2 DEF PagesInv, Open, PageWell, PageKinds
      <3> QED BY <2>2, <3>1 DEF Overlap
    <2>3. CASE b \notin readers
      BY <2>3 DEF Overlap
    <2> QED BY <2>1, <2>2, <2>3
  <1> QED BY <1>1, <1>3, <1>4 DEF PagesInv

(* A page that is shown has read everything its handler asks for.          *)
LEMMA ShownSeen ==
    ASSUME PagesInv, NEW b \in Browsers, NEW kind, Is(b, kind)
    PROVE  /\ PageWell(pages[b], spools, slots)
           /\ DOMAIN pages[b].seen = {Reads(kind)[i] : i \in 1 .. Len(Reads(kind))}
           /\ kind = "edit" => Seen(b, "view") \in Spool
  <1> DEFINE page == pages[b]
             l == Len(Reads(kind))
  <1>1. PageWell(page, spools, slots) /\ page.kind = kind /\ page.todo = <<>>
    BY NoPageIsNone DEF Is, Shown, Open, PagesInv
  <1>2. l \in Nat /\ kind \in PageKinds
    BY <1>1, ReadsAre DEF PageWell
  <1>3. PICK done \in 0 .. l : Halfway(page, done)
    BY <1>1 DEF PageWell
  <1> HIDE DEF l
  <1>4. page.todo = [j \in 1 .. l - done |-> Reads(kind)[done + j]]
    BY <1>1, <1>3 DEF Halfway, l
  <1>5. done = l
    <2>1. DOMAIN page.todo = 1 .. l - done
      BY <1>4
    <2>2. DOMAIN page.todo = 1 .. 0
      BY <1>1
    <2>3. l - done \in Nat
      BY <1>2
    <2>4. \A k \in Nat : 1 .. k = 1 .. 0 => k = 0
      <3> SUFFICES ASSUME NEW k \in Nat, 1 .. k = 1 .. 0, k # 0 PROVE FALSE
        OBVIOUS
      <3>1. 1 \in 1 .. k /\ 1 \notin 1 .. 0
        OBVIOUS
      <3> QED BY <3>1
    <2>5. l - done = 0
      BY <2>1, <2>2, <2>3, <2>4
    <2> QED BY <1>2, <2>5
  <1>6. DOMAIN page.seen = {Reads(kind)[i] : i \in 1 .. l}
    BY <1>1, <1>3, <1>5 DEF Halfway
  <1>7. kind = "edit" => Ask("view") \in DOMAIN page.seen
    BY <1>6 DEF l, Reads
  <1> QED BY <1>1, <1>6, <1>7 DEF PageWell, Seen, l

(* What the edit page sends back is an edit command.                       *)
LEMMA FormsAreEdits ==
    ASSUME NEW sp \in Spool, NEW form \in Forms(sp)
    PROVE  form \in Commands
  <1>1. EditForm(sp) \in Edit
    BY DEF EditForm, Edit, Spool, Conditions
  <1>2. form \in Edit
    BY <1>1 DEF Forms, Edit, Conditions
  <1> QED BY <1>2 DEF Commands

(* Every read, visit and write keeps the pages well.                       *)
LEMMA PagesInvStep == PagesInv /\ [PagesNext]_pageVars => PagesInv'
  <1> SUFFICES ASSUME PagesInv, [PagesNext]_pageVars PROVE PagesInv'
    OBVIOUS
  <1>1. CASE Write
    BY <1>1, OverlapStep DEF Write
  <1>2. ASSUME NEW b \in Browsers, Visit(b)
        PROVE  PagesInv'
    <2>1. UNCHANGED <<spools, slots>> /\ Inv'
      BY <1>2, InvStep DEF Visit, PagesInv, vars
    <2>2. ASSUME NEW kind \in PageKinds, NEW query, NEW s, kind = "edit" => s \in Rows,
                 pages' = [pages EXCEPT ![b] = Opened(kind, query, s)]
          PROVE  PagesInv'
      <3>1. PageWell(Opened(kind, query, s), spools, slots)
        BY <2>2, OpenedWell
      <3> QED BY <2>1, <2>2, <3>1 DEF PagesInv
    <2>3. ASSUME NEW kind \in {"list", "rows"}, NEW query \in Queries,
                 pages' = [pages EXCEPT ![b] = Opened(kind, query, NoFacet)]
          PROVE  PagesInv'
      BY <2>2, <2>3 DEF PageKinds
    <2>4. ASSUME NEW kind \in {"home", "loading"},
                 pages' = [pages EXCEPT ![b] = Opened(kind, BlankQuery, NoFacet)]
          PROVE  PagesInv'
      BY <2>2, <2>4 DEF PageKinds
    <2>5. ASSUME NEW s \in Rows, pages' = [pages EXCEPT ![b] = Opened("edit", BlankQuery, s)]
          PROVE  PagesInv'
      BY <2>2, <2>5 DEF PageKinds
    <2> QED BY <1>2, <2>3, <2>4, <2>5 DEF Visit
  <1>3. ASSUME NEW b \in Browsers, Read(b)
        PROVE  PagesInv'
    <2> DEFINE new == [pages[b] EXCEPT !.todo = Tail(pages[b].todo),
                          !.seen = Answered(pages[b], Head(pages[b].todo))]
    <2>1. PageWell(pages[b], spools, slots) /\ pages[b].todo # <<>>
      BY <1>3, NoPageIsNone DEF Read, Shown, Open, PagesInv
    <2>2. PageWell(new, spools, slots)
      BY <2>1, ReadWell DEF PagesInv, Inv
    <2>3. pages' = [pages EXCEPT ![b] = new] /\ UNCHANGED <<spools, slots>>
      BY <1>3 DEF Read, PagesInv
    <2> HIDE DEF new
    <2>4. Inv'
      BY <2>3, InvStep DEF PagesInv, vars
    <2> QED BY <2>2, <2>3, <2>4 DEF PagesInv
  <1>4. ASSUME NEW b \in Browsers, Leave(b)
        PROVE  PagesInv'
    <2>1. UNCHANGED <<spools, slots>> /\ Inv'
      BY <1>4, InvStep DEF Leave, PagesInv, vars
    <2> QED BY <1>4, <2>1 DEF Leave, PagesInv
  <1>5. ASSUME NEW b \in Browsers, Submit(b)
        PROVE  PagesInv'
    <2>1. PICK form \in Forms(Seen(b, "view")) : Saved(b, form)
      BY <1>5 DEF Submit
    <2>2. Is(b, "edit")
      BY <1>5 DEF Submit
    <2>3. PageWell(pages[b], spools, slots) /\ Seen(b, "view") \in Spool
      BY <2>2, ShownSeen DEF PagesInv
    <2>4. form \in Commands
      BY <2>3, FormsAreEdits
    <2>5. Next /\ pages[b].spool \in SpoolIds
      BY <2>1, <2>2, <2>3, <2>4 DEF Saved, PageWell, Is, Next
    <2> QED BY <2>1, <2>5, OverlapStep DEF Saved
  <1>6. ASSUME NEW percent \in Percents, SetThreshold(percent)
        PROVE  PagesInv'
    BY <1>6, OverlapStep DEF SetThreshold, vars
  <1>7. CASE UNCHANGED pageVars
    <2>1. UNCHANGED <<spools, slots, pages>> /\ Inv'
      BY <1>7, InvStep DEF pageVars, PagesInv, vars
    <2> QED BY <2>1 DEF PagesInv
  <1> QED BY <1>1, <1>2, <1>3, <1>4, <1>5, <1>6, <1>7 DEF PagesNext

(* No page is open.                                                        *)
LEMMA PagesInvInit == PagesInit => PagesInv
  BY InvInit DEF PagesInit, PagesInv

(* The slots are right whatever page is being read or sent back.           *)
THEOREM PagesKeepInventory == PagesSpec => []LoadedIsLoadable
  <1>1. PagesInv => LoadedIsLoadable
    BY DEF PagesInv, Inv
  <1> QED BY <1>1, PagesInvInit, PagesInvStep, PTL DEF PagesSpec

(* The selectors of a loading page that no write overlapped: the spool in  *)
(* a slot is among its choices, and what another slot holds is not.        *)
THEOREM OffersFit == PagesSpec => []QuietOffersFit
  <1>1. ASSUME PagesInv, NEW b \in Browsers, Is(b, "loading"), Quiet(b),
               NEW sl \in SlotIds
        PROVE  LET held == Seen(b, "printers")
                   offers(k) == pages[b].seen[[ask |-> "offers", slot |-> k]] IN
               /\ held[sl] # NoSpool => held[sl] \in offers(sl)
               /\ \A other \in SlotIds \ {sl} : held[other] \notin offers(sl)
    <2>1. /\ PageWell(pages[b], spools, slots)
          /\ DOMAIN pages[b].seen = {Reads("loading")[i] : i \in 1 .. Len(Reads("loading"))}
      BY <1>1, ShownSeen
    <2>2. Ask("printers") \in DOMAIN pages[b].seen /\ Offer(sl) \in DOMAIN pages[b].seen
      <3> DEFINE all == Reads("loading")
      <3>1. /\ Len(all) \in Nat /\ 1 \in 1 .. Len(all) /\ all[1] = Ask("printers")
            /\ \E i \in 1 .. Len(all) : all[i] = Offer(sl)
        BY LoadingReads
      <3> HIDE DEF all
      <3> QED BY <2>1, <3>1 DEF all
    <2>3. UpToDate(pages[b], spools, slots) /\ pages[b].kind = "loading"
      BY <1>1, <2>1 DEF PageWell, Quiet, Is
    <2>4. /\ Seen(b, "printers") = slots
          /\ pages[b].seen[[ask |-> "offers", slot |-> sl]] = Offers(spools, slots, slots[sl])
      BY <2>2, <2>3 DEF UpToDate, Seen, Offer
    <2>5. slots[sl] # NoSpool => slots[sl] \in Offers(spools, slots, slots[sl])
      BY <1>1 DEF PagesInv, Inv, TypeOK, LoadedIsLoadable, Rows, Offers
    <2>6. ASSUME NEW other \in SlotIds \ {sl}
          PROVE  slots[other] \notin Offers(spools, slots, slots[sl])
      BY <1>1, <2>6, SlotsAssumption DEF PagesInv, Inv, TypeOK, Exclusive, HeldOnce, Offers
    <2> QED BY <2>4, <2>5, <2>6
  <1>2. PagesInv => QuietOffersFit
    BY <1>1 DEF QuietOffersFit
  <1> QED BY <1>2, PagesInvInit, PagesInvStep, PTL DEF PagesSpec

(* The edit page filled from a Sealed or Open spool gives that spool back. *)
LEMMA EditFormKeeps ==
    ASSUME NEW sp \in Spool, Consistent(sp), Loadable(sp)
    PROVE  Apply(EditForm(sp), sp) = sp /\ ~Unloads(EditForm(sp), sp)
  <1> DEFINE form == EditForm(sp)
  <1>1. form.op = "edit" /\ form.net = sp.net /\ form.location = sp.location
    BY DEF EditForm
  <1>2. ConditionStatus(form.condition) = sp.status
    BY DEF EditForm, ConditionStatus, Loadable
  <1>3. ConditionRemaining(form.condition, sp.net, form.entered) = sp.remaining
    BY MaxNetAssumption
       DEF EditForm, ConditionRemaining, Loadable, Consistent, Spool, Grams, NetWeights
  <1>4. Apply(form, sp) = Edited(sp, form)
    BY <1>1 DEF Apply
  <1>5. Edited(sp, form) = [sp EXCEPT !.net = sp.net, !.remaining = sp.remaining,
                                      !.status = sp.status, !.location = sp.location]
    BY <1>1, <1>2, <1>3 DEF Edited
  <1>6. [sp EXCEPT !.net = sp.net, !.remaining = sp.remaining,
                   !.status = sp.status, !.location = sp.location] = sp
    BY DEF Spool
  <1>7. ~Unloads(form, sp)
    BY <1>1 DEF Unloads, FinishedOps, Loadable
  <1> QED BY <1>4, <1>5, <1>6, <1>7

(* An edit page sent back as it was filled changes nothing: the condition  *)
(* and the weight it carries give back the status and the weight they were *)
(* read from.                                                              *)
THEOREM UntouchedEdit == PagesSpec => UntouchedEditKeeps
  <1>1. ASSUME PagesInv, NEW b \in Browsers, Is(b, "edit"), Quiet(b),
               Loadable(Seen(b, "view")), Saved(b, EditForm(Seen(b, "view")))
        PROVE  UNCHANGED <<spools, slots>>
    <2> DEFINE s == pages[b].spool
    <2>1. /\ PageWell(pages[b], spools, slots)
          /\ DOMAIN pages[b].seen = {Reads("edit")[i] : i \in 1 .. Len(Reads("edit"))}
      BY <1>1, ShownSeen
    <2>2. Ask("view") \in DOMAIN pages[b].seen /\ pages[b].kind = "edit"
      BY <1>1, <2>1 DEF Reads, Is
    <2>3. Seen(b, "view") = spools[s] /\ s \in SpoolIds /\ s \in Rows
      BY <1>1, <2>1, <2>2 DEF PageWell, UpToDate, Quiet, Seen, Rows
    <2>4. spools[s] \in Spool /\ Consistent(spools[s])
      BY <1>1, <2>3 DEF PagesInv, Inv, TypeOK, Rows
    <2> DEFINE form == EditForm(spools[s])
    <2>5. Apply(form, spools[s]) = spools[s] /\ ~Unloads(form, spools[s])
      BY <1>1, <2>3, <2>4, EditFormKeeps
    <2>6. Operate(s, form)
      BY <1>1, <2>3 DEF Saved
    <2> HIDE DEF form, s
    <2> QED BY <1>1, <2>3, <2>5, <2>6 DEF Operate, PagesInv, Inv, TypeOK
  <1>2. PagesInv => [\A b \in Browsers :
                        /\ Is(b, "edit")
                        /\ Quiet(b)
                        /\ Loadable(Seen(b, "view"))
                        /\ Saved(b, EditForm(Seen(b, "view")))
                        => UNCHANGED <<spools, slots>>]_pageVars
    BY <1>1
  <1> QED BY <1>2, PagesInvInit, PagesInvStep, PTL DEF PagesSpec, UntouchedEditKeeps

-------------------------------------------------------------------------------
(* The numbers of a page.                                                  *)

(* The sums of an overview, and the numbers another query gives for them.  *)
Adds(view) ==
    /\ view.active + view.empty = view.total
    /\ Cardinality(view.soon) <= view.active
    /\ view.remaining = SumFunction(view.breakdown)

(* What a page has seen of the stock.  Between the total and the list each *)
(* overlapping write moved at most one spool into the status scope, so the *)
(* scope itself has to be followed once the total is read.                 *)
Numbers(page, rows) ==
    LET seen == page.seen
        filter == ToFilter(page.query)
        has(name) == Ask(name) \in DOMAIN seen
        quiet == page.overlaps = 0
    IN  /\ page.kind \in {"list", "rows"} =>
             /\ page.query \in Queries
             /\ has("total") =>
                   /\ seen[Ask("total")] \in Nat
                   /\ Cardinality(Listed(rows, StatusScope(filter)))
                        <= seen[Ask("total")] + page.overlaps
             /\ has("list") =>
                   /\ has("total") /\ seen[Ask("list")] \in SUBSET SpoolIds
                   /\ Cardinality(seen[Ask("list")]) <= seen[Ask("total")] + page.overlaps
             /\ has("value") /\ quiet => seen[Ask("value")] = StockValue(rows, filter)
             /\ has("list") /\ quiet => seen[Ask("list")] = Listed(rows, filter)
        /\ page.kind = "home" =>
             /\ has("overview") => Adds(seen[Ask("overview")])
             /\ has("overview") /\ quiet =>
                   /\ seen[Ask("overview")].total = Count(rows, NoFilter)
                   /\ seen[Ask("overview")].value = StockValue(rows, NoFilter)
             /\ has("nav") /\ quiet => seen[Ask("nav")] = Count(rows, NoFilter)

(* Every page well, and its numbers right.                                 *)
NumbersInv ==
    /\ PagesInv
    /\ \A b \in Browsers : pages[b] = NoPage \/ Numbers(pages[b], spools)

(* A set of spools is finite.                                              *)
LEMMA SomeSpools ==
    ASSUME NEW set \in SUBSET SpoolIds
    PROVE  IsFiniteSet(set) /\ Cardinality(set) \in Nat
  BY FS_Subset, FS_CardinalityType, ReadModelsAssumption

(* Lists and stock are sets of spools.                                     *)
LEMMA ListedSpools ==
    ASSUME NEW rows, NEW filter
    PROVE  /\ Listed(rows, filter) \in SUBSET SpoolIds
           /\ InStock(rows, filter) \in SUBSET SpoolIds
  BY DEF Listed, InStock, Facets

(* The fields of a filter made from a query.                               *)
LEMMA FilterIs ==
    ASSUME NEW query \in Queries
    PROVE  ToFilter(query).status = IF query.status \in Statuses THEN query.status ELSE NoFacet
  BY PagesAssumption DEF ToFilter

(* The scope of a filter keeps its status and drops the rest.              *)
LEMMA ScopeIs ==
    ASSUME NEW filter
    PROVE  /\ StatusScope(filter).status = filter.status
           /\ StatusScope(filter).material = NoFacet /\ StatusScope(filter).manufacturer = NoFacet
           /\ StatusScope(filter).location = NoFacet /\ StatusScope(filter).search = NoFacet
  BY DEF StatusScope, NoFilter

(* The list is among the spools of its status.                             *)
LEMMA ListInScope ==
    ASSUME NEW rows, NEW filter
    PROVE  Cardinality(Listed(rows, filter)) <= Cardinality(Listed(rows, StatusScope(filter)))
  <1> DEFINE list == Listed(rows, filter)
             scope == Listed(rows, StatusScope(filter))
  <1>1. list \in SUBSET scope
    BY ScopeIs DEF Listed, Facets
  <1>2. scope \in SUBSET SpoolIds
    BY ListedSpools
  <1> HIDE DEF list, scope
  <1>3. IsFiniteSet(scope)
    BY <1>2, SomeSpools
  <1>4. Cardinality(list) <= Cardinality(scope)
    BY <1>1, <1>3, FS_Subset
  <1> QED BY <1>4 DEF list, scope

(* A row more or less in the scope.                                        *)
LEMMA ScopeMoves ==
    ASSUME NEW rows, NEW newRows, NEW s, \A t \in SpoolIds : t # s => newRows[t] = rows[t],
           NEW filter
    PROVE  Cardinality(Listed(newRows, filter)) <= Cardinality(Listed(rows, filter)) + 1
  <1> DEFINE old == Listed(rows, filter)
             new == Listed(newRows, filter)
  <1>1. old \in SUBSET SpoolIds /\ new \in SUBSET SpoolIds
    BY ListedSpools
  <1>2. new \subseteq old \cup {s}
    BY DEF Listed, Facets
  <1> HIDE DEF old, new
  <1>3. IsFiniteSet(old) /\ Cardinality(old) \in Nat /\ Cardinality(new) \in Nat
    BY <1>1, SomeSpools
  <1>4. IsFiniteSet(old \cup {s}) /\ Cardinality(old \cup {s}) <= Cardinality(old) + 1
        /\ Cardinality(old \cup {s}) \in Nat
    <2>1. /\ IsFiniteSet(old \cup {s})
          /\ Cardinality(old \cup {s}) =
                IF s \in old THEN Cardinality(old) ELSE Cardinality(old) + 1
      BY <1>3, FS_AddElement
    <2> QED BY <1>3, <2>1
  <1>5. Cardinality(new) <= Cardinality(old \cup {s})
    BY <1>2, <1>4, FS_Subset
  <1> QED BY <1>3, <1>4, <1>5 DEF old, new

(* A step of Inventory changes one row at most.                            *)
LEMMA OneRow ==
    ASSUME Inv, [Next]_vars
    PROVE  \E s : \A t \in SpoolIds : t # s => spools'[t] = spools[t]
  <1>1. ASSUME NEW s \in SpoolIds, Create(s) \/ \E cmd \in Commands : Operate(s, cmd)
        PROVE  \A t \in SpoolIds : t # s => spools'[t] = spools[t]
    BY <1>1 DEF Create, Operate, Inv, TypeOK
  <1>2. CASE spools' = spools
    BY <1>2
  <1> QED BY <1>1, <1>2 DEF Next, Load, Unload, vars

(* Without a filter, the stock is what the overview reads.                 *)
LEMMA StockIs ==
    ASSUME NEW rows
    PROVE  InStock(rows, NoFilter) = StockRows(rows) /\ StockRows(rows) \in SUBSET SpoolIds
  BY DEF InStock, Facets, NoFilter, StockRows

(* What is read in one SELECT adds up, and agrees with the other queries.  *)
LEMMA OverviewOK ==
    ASSUME NEW rows \in [SpoolIds -> Spool \cup {NoRow}],
           \A s \in SpoolIds : rows[s] # NoRow => Consistent(rows[s]), NEW percent
    PROVE  /\ Adds(Overview(rows, percent))
           /\ Overview(rows, percent).total = Count(rows, NoFilter)
           /\ Overview(rows, percent).value = StockValue(rows, NoFilter)
  <1> DEFINE set == StockRows(rows)
             active == {s \in set : rows[s].status \in {"Sealed", "Open"}}
             empty == {s \in set : rows[s].status = "Empty"}
             soon == {s \in set : LowStock(rows[s], percent)}
             view == Overview(rows, percent)
  <1>1. set \in SUBSET SpoolIds /\ InStock(rows, NoFilter) = set
    BY StockIs
  <1>2. /\ view.value = ValueOfAll(rows, set) /\ view.remaining = WeightOf(rows, set)
        /\ view.total = Cardinality(set) /\ view.active = Cardinality(active)
        /\ view.empty = Cardinality(empty) /\ view.breakdown = Breakdown(rows, set)
        /\ view.soon = soon
    BY DEF Overview
  <1>3. \A s \in set : rows[s] \in Spool /\ Consistent(rows[s]) /\ rows[s].status # "Archived"
    BY DEF StockRows
  <1> HIDE DEF set, view
  <1>4. Cardinality(active) + Cardinality(empty) = Cardinality(set)
    <2>1. active \cup empty = set /\ active \cap empty = {}
      BY <1>3 DEF Spool, Statuses
    <2>2. active \in SUBSET SpoolIds /\ empty \in SUBSET SpoolIds
      BY <1>1
    <2> HIDE DEF active, empty
    <2>3. /\ IsFiniteSet(active) /\ IsFiniteSet(empty)
          /\ Cardinality(active) \in Nat /\ Cardinality(empty) \in Nat
      BY <2>2, SomeSpools
    <2>4. Cardinality(active \cup empty)
            = Cardinality(active) + Cardinality(empty) - Cardinality(active \cap empty)
      BY <2>3, FS_Union
    <2>5. Cardinality({}) = 0
      BY FS_EmptySet
    <2>6. Cardinality(active \cup empty) = Cardinality(set) /\ Cardinality(active \cap empty) = 0
      BY <2>1, <2>5
    <2> QED BY <2>3, <2>4, <2>6
  <1>5. Cardinality(soon) <= Cardinality(active)
    <2>1. soon \subseteq active
      BY <1>3 DEF LowStock, Consistent, Spool, Statuses, Grams
    <2>2. active \in SUBSET SpoolIds
      BY <1>1
    <2> HIDE DEF soon, active
    <2>3. IsFiniteSet(active)
      BY <2>2, SomeSpools
    <2> QED BY <2>1, <2>3, FS_Subset
  <1>6. WeightOf(rows, set) = SumFunction(Breakdown(rows, set))
    <2> DEFINE f == [s \in set |-> rows[s].remaining]
    <2>1. \A s \in set : f[s] \in Nat
      BY <1>3 DEF Spool, Grams
    <2>2. ASSUME NEW part \in SUBSET set
          PROVE  On(f, part) = WeightOf(rows, part)
      <3>1. [s \in part |-> f[s]] = [s \in part |-> rows[s].remaining]
        OBVIOUS
      <3> QED BY <3>1 DEF On, WeightOf
    <2>3. \A m : Class(MaterialOf, set, m) = {s \in set : MaterialOf[s] = m}
      BY DEF Class
    <2> HIDE DEF f
    <2>4. \A m : {s \in set : MaterialOf[s] = m} \in SUBSET set
      OBVIOUS
    <2>5. \A m : On(f, Class(MaterialOf, set, m)) = WeightOf(rows, {s \in set : MaterialOf[s] = m})
      BY <2>2, <2>3, <2>4
    <2>6. ByClass(f, MaterialOf, set) = Breakdown(rows, set)
      BY <2>5 DEF ByClass, Breakdown
    <2>7. IsFiniteSet(set)
      BY <1>1, SomeSpools
    <2>8. SumFunction(ByClass(f, MaterialOf, set)) = On(f, set)
      BY <2>1, <2>7, Regroup
    <2>9. On(f, set) = WeightOf(rows, set)
      BY <2>2
    <2> QED BY <2>6, <2>8, <2>9
  <1> HIDE DEF active, empty, soon
  <1> QED BY <1>1, <1>2, <1>4, <1>5, <1>6 DEF Adds, Count, StockValue, view

(* The value of no spool.                                                  *)
LEMMA NothingIsWorthNothing == \A rows : ValueOfAll(rows, {}) = 0
  <1> TAKE rows
  <1> DEFINE f == [s \in {} |-> 0]
  <1>1. [s \in {} |-> ValueOf(rows, s)] = [s \in {} |-> f[s]]
    OBVIOUS
  <1>2. IsFiniteSet({})
    BY FS_EmptySet
  <1>3. On(f, {}) = 0
    <2> HIDE DEF f
    <2> QED BY <1>2, OnIs
  <1> QED BY <1>1, <1>3 DEF On, ValueOfAll

(* The stock is what the list shows, but for the archived.                 *)
LEMMA StockOfList ==
    ASSUME NEW rows, NEW query \in Queries
    PROVE  StockValue(rows, ToFilter(query)) =
              IF query.status = "Archived" THEN 0
              ELSE ValueOfAll(rows, Listed(rows, ToFilter(query)))
  <1> DEFINE filter == ToFilter(query)
  <1>1. filter.status = IF query.status \in Statuses THEN query.status ELSE NoFacet
    BY FilterIs
  <1>2. NoFacet \notin Statuses
    BY ReadModelsAssumption
  <1> HIDE DEF filter
  <1>3. CASE query.status = "Archived"
    <2>1. filter.status = "Archived" /\ filter.status # NoFacet
      BY <1>1, <1>2, <1>3 DEF Statuses
    <2>2. InStock(rows, filter) = {}
      BY <2>1 DEF InStock
    <2> QED BY <1>3, <2>2, NothingIsWorthNothing DEF StockValue, filter
  <1>4. CASE query.status # "Archived"
    <2>1. filter.status # "Archived"
      BY <1>1, <1>2, <1>4 DEF Statuses
    <2>2. InStock(rows, filter) = Listed(rows, filter)
      BY <2>1 DEF InStock, Listed
    <2> QED BY <1>4, <2>2 DEF StockValue, filter
  <1> QED BY <1>3, <1>4

(* A page that a write overlaps: one row is another.                       *)
LEMMA NumbersOverlap ==
    ASSUME NEW page, NEW rows, NEW held, PageWell(page, rows, held), Numbers(page, rows),
           NEW newRows, NEW s, \A t \in SpoolIds : t # s => newRows[t] = rows[t]
    PROVE  Numbers([page EXCEPT !.overlaps = page.overlaps + 1], newRows)
  <1> DEFINE o == page.overlaps + 1
             new == [page EXCEPT !.overlaps = o]
             scope == StatusScope(ToFilter(page.query))
             total == page.seen[Ask("total")]
  <1>1. o \in Nat /\ o # 0 /\ page.overlaps \in Nat
    BY DEF PageWell
  <1>2. /\ new.kind = page.kind /\ new.query = page.query /\ new.seen = page.seen
        /\ new.overlaps = o
    BY DEF PageWell
  <1>3. /\ Cardinality(Listed(newRows, scope)) <= Cardinality(Listed(rows, scope)) + 1
        /\ Cardinality(Listed(newRows, scope)) \in Nat /\ Cardinality(Listed(rows, scope)) \in Nat
    BY ScopeMoves, ListedSpools, SomeSpools
  <1>4. ASSUME page.kind \in {"list", "rows"}, Ask("total") \in DOMAIN page.seen
        PROVE  total \in Nat /\ Cardinality(Listed(newRows, scope)) <= total + o
    <2>1. total \in Nat /\ Cardinality(Listed(rows, scope)) <= total + page.overlaps
      BY <1>4 DEF Numbers
    <2> HIDE DEF scope, total
    <2> QED BY <1>1, <1>3, <2>1
  <1>5. ASSUME page.kind \in {"list", "rows"}, Ask("list") \in DOMAIN page.seen
        PROVE  /\ Ask("total") \in DOMAIN page.seen
               /\ Cardinality(page.seen[Ask("list")]) <= total + o
    <2>1. /\ Ask("total") \in DOMAIN page.seen /\ total \in Nat
          /\ Cardinality(page.seen[Ask("list")]) <= total + page.overlaps
          /\ page.seen[Ask("list")] \in SUBSET SpoolIds
      BY <1>5 DEF Numbers
    <2>2. Cardinality(page.seen[Ask("list")]) \in Nat
      BY <2>1, SomeSpools
    <2> HIDE DEF total
    <2> QED BY <1>1, <2>1, <2>2
  <1> HIDE DEF new, o
  <1>6. Numbers(new, newRows)
    BY <1>1, <1>2, <1>4, <1>5 DEF Numbers
  <1> QED BY <1>6 DEF new, o

(* The total is read before the list.                                      *)
LEMMA TotalBeforeList ==
    ASSUME NEW page, NEW rows, NEW held, PageWell(page, rows, held), page.todo # <<>>,
           page.kind \in {"list", "rows"}
    PROVE  /\ Head(page.todo) = Ask("total") => Ask("list") \notin DOMAIN page.seen
           /\ Head(page.todo) = Ask("list") => Ask("total") \in DOMAIN page.seen
  <1> DEFINE all == Reads(page.kind)
  <1>1. PICK done \in Nat :
           /\ done < Len(all) /\ DOMAIN page.seen = {all[i] : i \in 1 .. done}
           /\ Head(page.todo) = all[done + 1]
    BY NextRead
  <1>2. \A x, y : Ask(x) = Ask(y) => x = y
    BY DEF Ask
  <1>3. PICK t \in 2 .. 3 : /\ all[t] = Ask("total") /\ all[4] = Ask("list") /\ Len(all) \in 4 .. 5
                            /\ \A i \in 1 .. Len(all) : /\ all[i] = Ask("total") => i = t
                                                        /\ all[i] = Ask("list") => i = 4
    <2>1. CASE page.kind = "list"
      <3> DEFINE seq == <<Ask("threshold"), Ask("total"), Ask("value"), Ask("list"), Ask("nav")>>
      <3>1. all = seq /\ Len(seq) = 5
        BY <2>1 DEF Reads
      <3>2. /\ seq[1] = Ask("threshold") /\ seq[2] = Ask("total") /\ seq[3] = Ask("value")
            /\ seq[4] = Ask("list") /\ seq[5] = Ask("nav")
        OBVIOUS
      <3> HIDE DEF seq, all
      <3>3. \A i \in 1 .. 5 : i \in {1, 2, 3, 4, 5}
        OBVIOUS
      <3> QED BY <1>2, <3>1, <3>2, <3>3
    <2>2. CASE page.kind = "rows"
      <3> DEFINE seq == <<Ask("threshold"), Ask("value"), Ask("total"), Ask("list")>>
      <3>1. all = seq /\ Len(seq) = 4
        BY <2>2 DEF Reads
      <3>2. /\ seq[1] = Ask("threshold") /\ seq[2] = Ask("value") /\ seq[3] = Ask("total")
            /\ seq[4] = Ask("list")
        OBVIOUS
      <3> HIDE DEF seq, all
      <3>3. \A i \in 1 .. 4 : i \in {1, 2, 3, 4}
        OBVIOUS
      <3> QED BY <1>2, <3>1, <3>2, <3>3
    <2> QED BY <2>1, <2>2
  <1> HIDE DEF all
  <1> QED BY <1>1, <1>3

(* What is read now is how it is.                                          *)
LEMMA NumbersRead ==
    ASSUME NEW page, PageWell(page, spools, slots), Numbers(page, spools), Inv,
           page.todo # <<>>
    PROVE  Numbers([page EXCEPT !.todo = Tail(page.todo),
                                !.seen = Answered(page, Head(page.todo))], spools)
  <1> DEFINE read == Head(page.todo)
             left == Tail(page.todo)
             seen == Answered(page, read)
             new == [page EXCEPT !.todo = left, !.seen = seen]
             filter == ToFilter(page.query)
  <1>1. /\ DOMAIN seen = DOMAIN page.seen \cup {read}
        /\ seen[read] = Answer(page, read)
        /\ \A r \in DOMAIN page.seen : r # read => seen[r] = page.seen[r]
    BY DEF Answered
  <1>2. page.kind \in {"list", "rows"} =>
           /\ read = Ask("total") => Ask("list") \notin DOMAIN page.seen
           /\ read = Ask("list") => Ask("total") \in DOMAIN page.seen
    BY TotalBeforeList
  <1>3. /\ Answer(page, Ask("total")) = Total(spools, filter)
        /\ Answer(page, Ask("value")) = StockValue(spools, filter)
        /\ Answer(page, Ask("list")) = Listed(spools, filter)
        /\ Answer(page, Ask("nav")) = Count(spools, NoFilter)
        /\ Answer(page, Ask("overview")) = Overview(spools, page.seen[Ask("threshold")])
    BY DEF Answer, Ask
  <1> HIDE DEF read, left, seen
  <1>4. /\ new.kind = page.kind /\ new.query = page.query /\ new.seen = seen
        /\ new.overlaps = page.overlaps /\ page.overlaps \in Nat
    BY DEF PageWell
  <1> HIDE DEF new
  <1>5. Ask("total") # Ask("list")
    BY DEF Ask
  <1>6. ASSUME page.kind \in {"list", "rows"}
        PROVE  Numbers(new, spools)
    <2> DEFINE scope == Listed(spools, StatusScope(filter))
    <2>0. page.query \in Queries /\ new.kind # "home"
      BY <1>4, <1>6 DEF Numbers
    <2>1. ASSUME Ask("total") \in DOMAIN seen
          PROVE  /\ seen[Ask("total")] \in Nat
                 /\ Cardinality(scope) <= seen[Ask("total")] + page.overlaps
      <3>1. CASE read = Ask("total")
        <4>1. seen[Ask("total")] = Cardinality(scope)
          BY <1>1, <1>3, <3>1 DEF Total
        <4>2. Cardinality(scope) \in Nat
          BY ListedSpools, SomeSpools
        <4> HIDE DEF scope
        <4> QED BY <1>4, <4>1, <4>2
      <3>2. CASE read # Ask("total")
        BY <1>1, <1>6, <2>1, <3>2 DEF Numbers
      <3> QED BY <3>1, <3>2
    <2>2. ASSUME Ask("list") \in DOMAIN seen
          PROVE  /\ Ask("total") \in DOMAIN seen /\ seen[Ask("list")] \in SUBSET SpoolIds
                 /\ Cardinality(seen[Ask("list")]) <= seen[Ask("total")] + page.overlaps
      <3>1. CASE read = Ask("list")
        <4>1. seen[Ask("list")] = Listed(spools, filter) /\ Ask("total") \in DOMAIN seen
          BY <1>1, <1>2, <1>3, <1>6, <3>1
        <4>2. /\ Cardinality(Listed(spools, filter)) <= Cardinality(scope)
              /\ Cardinality(Listed(spools, filter)) \in Nat /\ Cardinality(scope) \in Nat
              /\ Listed(spools, filter) \in SUBSET SpoolIds
          BY ListInScope, ListedSpools, SomeSpools
        <4> HIDE DEF scope, filter
        <4> QED BY <1>4, <2>1, <4>1, <4>2
      <3>2. CASE read # Ask("list")
        <4>1. Ask("list") \in DOMAIN page.seen
          BY <1>1, <2>2, <3>2
        <4>2. /\ Ask("total") \in DOMAIN page.seen
              /\ page.seen[Ask("list")] \in SUBSET SpoolIds
              /\ Cardinality(page.seen[Ask("list")]) <= page.seen[Ask("total")] + page.overlaps
          BY <1>6, <4>1 DEF Numbers
        <4>3. read # Ask("total")
          BY <1>2, <1>6, <4>1
        <4> QED BY <1>1, <3>2, <4>1, <4>2, <4>3
      <3> QED BY <3>1, <3>2
    <2>3. ASSUME Ask("value") \in DOMAIN seen, page.overlaps = 0
          PROVE  seen[Ask("value")] = StockValue(spools, filter)
      <3>1. CASE read = Ask("value")
        BY <1>1, <1>3, <3>1
      <3>2. CASE read # Ask("value")
        BY <1>1, <1>6, <2>3, <3>2 DEF Numbers
      <3> QED BY <3>1, <3>2
    <2>4. ASSUME Ask("list") \in DOMAIN seen, page.overlaps = 0
          PROVE  seen[Ask("list")] = Listed(spools, filter)
      <3>1. CASE read = Ask("list")
        BY <1>1, <1>3, <3>1
      <3>2. CASE read # Ask("list")
        BY <1>1, <1>6, <2>4, <3>2 DEF Numbers
      <3> QED BY <3>1, <3>2
    <2> QED BY <1>4, <2>0, <2>1, <2>2, <2>3, <2>4 DEF Numbers
  <1>7. ASSUME page.kind = "home"
        PROVE  Numbers(new, spools)
    <2>1. ASSUME Ask("overview") \in DOMAIN seen
          PROVE  /\ Adds(seen[Ask("overview")])
                 /\ page.overlaps = 0 =>
                      /\ seen[Ask("overview")].total = Count(spools, NoFilter)
                      /\ seen[Ask("overview")].value = StockValue(spools, NoFilter)
      <3>1. CASE read = Ask("overview")
        <4>1. seen[Ask("overview")] = Overview(spools, page.seen[Ask("threshold")])
          BY <1>1, <1>3, <3>1
        <4>2. \A s \in SpoolIds : spools[s] # NoRow => Consistent(spools[s])
          BY DEF Inv, Rows
        <4>3. spools \in [SpoolIds -> Spool \cup {NoRow}]
          BY DEF Inv, TypeOK
        <4> QED BY <4>1, <4>2, <4>3, OverviewOK
      <3>2. CASE read # Ask("overview")
        BY <1>1, <1>7, <2>1, <3>2 DEF Numbers
      <3> QED BY <3>1, <3>2
    <2>2. ASSUME Ask("nav") \in DOMAIN seen, page.overlaps = 0
          PROVE  seen[Ask("nav")] = Count(spools, NoFilter)
      <3>1. CASE read = Ask("nav")
        BY <1>1, <1>3, <3>1
      <3>2. CASE read # Ask("nav")
        BY <1>1, <1>7, <2>2, <3>2 DEF Numbers
      <3> QED BY <3>1, <3>2
    <2> QED BY <1>4, <1>7, <2>1, <2>2 DEF Numbers
  <1>8. ASSUME page.kind \notin {"list", "rows"}, page.kind # "home"
        PROVE  Numbers(new, spools)
    BY <1>4, <1>8 DEF Numbers
  <1>9. Numbers(new, spools)
    BY <1>6, <1>7, <1>8
  <1> QED BY <1>9 DEF new, read, left, seen

(* A page just opened has seen nothing.                                    *)
LEMMA NumbersOpened ==
    ASSUME NEW kind, NEW query, NEW s, NEW rows,
           kind \in {"list", "rows"} => query \in Queries
    PROVE  Numbers(Opened(kind, query, s), rows)
  <1> DEFINE page == Opened(kind, query, s)
  <1>1. page.kind = kind /\ page.query = query /\ page.seen = <<>>
    BY DEF Opened
  <1>2. \A x : x \notin DOMAIN page.seen
    BY <1>1
  <1> HIDE DEF page
  <1> QED BY <1>1, <1>2 DEF Numbers, page

(* A write under open pages keeps their numbers within the overlaps.       *)
LEMMA NumbersOverlapStep ==
    ASSUME NumbersInv, PagesInv', NEW readers, Overlap(readers), [Next]_vars
    PROVE  NumbersInv'
  <1>1. PICK s : \A t \in SpoolIds : t # s => spools'[t] = spools[t]
    BY OneRow DEF NumbersInv, PagesInv
  <1>2. ASSUME NEW b \in Browsers
        PROVE  pages'[b] = NoPage \/ Numbers(pages'[b], spools')
    <2>1. CASE b \in readers /\ Open(b)
      <3>1. pages'[b] = [pages[b] EXCEPT !.overlaps = pages[b].overlaps + 1]
        BY <2>1 DEF Overlap
      <3>2. PageWell(pages[b], spools, slots) /\ Numbers(pages[b], spools)
        BY <2>1, NoPageIsNone DEF NumbersInv, PagesInv, Open
      <3> QED BY <1>1, <3>1, <3>2, NumbersOverlap
    <2>2. CASE b \in readers /\ ~Open(b)
      <3>1. pages[b] = NoPage
        BY <2>2 DEF NumbersInv, PagesInv, Open, PageWell, PageKinds
      <3> QED BY <2>2, <3>1 DEF Overlap
    <2>3. CASE b \notin readers
      BY <2>3 DEF Overlap
    <2> QED BY <2>1, <2>2, <2>3
  <1> QED BY <1>2 DEF NumbersInv

(* Every read, visit and write keeps the numbers.                          *)
LEMMA NumbersInvStep == NumbersInv /\ [PagesNext]_pageVars => NumbersInv'
  <1> SUFFICES ASSUME NumbersInv, [PagesNext]_pageVars PROVE NumbersInv'
    OBVIOUS
  <1>0. PagesInv /\ PagesInv'
    BY PagesInvStep DEF NumbersInv
  <1>1. CASE Write
    BY <1>0, <1>1, NumbersOverlapStep DEF Write
  <1>2. ASSUME NEW b \in Browsers, Visit(b)
        PROVE  NumbersInv'
    <2>1. UNCHANGED spools
      BY <1>2 DEF Visit
    <2>2. PICK kind, query, s : /\ pages' = [pages EXCEPT ![b] = Opened(kind, query, s)]
                                /\ kind \in {"list", "rows"} => query \in Queries
      <3>1. ASSUME NEW kind \in {"list", "rows"}, NEW query \in Queries,
                   pages' = [pages EXCEPT ![b] = Opened(kind, query, NoFacet)]
            PROVE  \E k, q, s : /\ pages' = [pages EXCEPT ![b] = Opened(k, q, s)]
                                /\ k \in {"list", "rows"} => q \in Queries
        BY <3>1
      <3>2. ASSUME NEW kind \in {"home", "loading", "edit"}, NEW s,
                   pages' = [pages EXCEPT ![b] = Opened(kind, BlankQuery, s)]
            PROVE  \E k, q, t : /\ pages' = [pages EXCEPT ![b] = Opened(k, q, t)]
                                /\ k \in {"list", "rows"} => q \in Queries
        <4>1. kind \notin {"list", "rows"}
          OBVIOUS
        <4> QED BY <3>2, <4>1
      <3> QED BY <1>2, <3>1, <3>2 DEF Visit
    <2>3. Numbers(Opened(kind, query, s), spools)
      BY <2>2, NumbersOpened
    <2> QED BY <1>0, <2>1, <2>2, <2>3 DEF NumbersInv, PagesInv
  <1>3. ASSUME NEW b \in Browsers, Read(b)
        PROVE  NumbersInv'
    <2> DEFINE new == [pages[b] EXCEPT !.todo = Tail(pages[b].todo),
                          !.seen = Answered(pages[b], Head(pages[b].todo))]
    <2>1. /\ PageWell(pages[b], spools, slots) /\ pages[b].todo # <<>>
          /\ Numbers(pages[b], spools)
      BY <1>3, NoPageIsNone DEF Read, Shown, Open, NumbersInv, PagesInv
    <2>2. Numbers(new, spools)
      BY <1>0, <2>1, NumbersRead DEF PagesInv
    <2>3. pages' = [pages EXCEPT ![b] = new] /\ UNCHANGED spools
      BY <1>3 DEF Read, NumbersInv, PagesInv
    <2> HIDE DEF new
    <2> QED BY <1>0, <2>2, <2>3 DEF NumbersInv, PagesInv
  <1>4. ASSUME NEW b \in Browsers, Leave(b)
        PROVE  NumbersInv'
    BY <1>0, <1>4 DEF Leave, NumbersInv, PagesInv
  <1>5. ASSUME NEW b \in Browsers, Submit(b)
        PROVE  NumbersInv'
    <2>1. PICK form \in Forms(Seen(b, "view")) : Saved(b, form)
      BY <1>5 DEF Submit
    <2>2. Is(b, "edit")
      BY <1>5 DEF Submit
    <2>3. PageWell(pages[b], spools, slots) /\ Seen(b, "view") \in Spool
      BY <1>0, <2>2, ShownSeen DEF PagesInv
    <2>4. form \in Commands
      BY <2>3, FormsAreEdits
    <2>5. Next
      BY <2>1, <2>2, <2>3, <2>4 DEF Saved, PageWell, Is, Next
    <2> QED BY <1>0, <2>1, <2>5, NumbersOverlapStep DEF Saved
  <1>6. ASSUME NEW percent \in Percents, SetThreshold(percent)
        PROVE  NumbersInv'
    BY <1>0, <1>6, NumbersOverlapStep DEF SetThreshold, vars
  <1>7. CASE UNCHANGED pageVars
    BY <1>0, <1>7 DEF pageVars, NumbersInv
  <1> QED BY <1>1, <1>2, <1>3, <1>4, <1>5, <1>6, <1>7 DEF PagesNext

(* No page has seen a number.                                              *)
LEMMA NumbersInvInit == PagesInit => NumbersInv
  BY PagesInvInit DEF PagesInit, NumbersInv

(* Whatever is written while a list is read, its rows exceed the total it  *)
(* shows by no more than the writes that overlapped it; if none did, the   *)
(* value shown is that of the rows shown, or 0 for the archived ones.      *)
THEOREM ListAddsUp == PagesSpec => []ListAdds
  <1>1. ASSUME NumbersInv, NEW b \in Browsers, Is(b, "list") \/ Is(b, "rows")
        PROVE  LET list == Seen(b, "list") IN
               /\ Cardinality(list) <= Seen(b, "total") + pages[b].overlaps
               /\ Quiet(b) => Seen(b, "value") =
                     IF pages[b].query.status = "Archived" THEN 0 ELSE ValueOfAll(spools, list)
    <2>1. PICK kind \in {"list", "rows"} : Is(b, kind)
      BY <1>1
    <2>2. /\ PageWell(pages[b], spools, slots)
          /\ DOMAIN pages[b].seen = {Reads(kind)[i] : i \in 1 .. Len(Reads(kind))}
      BY <1>1, <2>1, ShownSeen DEF NumbersInv
    <2>3. Ask("list") \in DOMAIN pages[b].seen /\ Ask("value") \in DOMAIN pages[b].seen
      BY <2>2 DEF Reads
    <2>4. pages[b].kind = kind /\ pages[b] # NoPage
      BY <2>1, NoPageIsNone DEF Is, Shown, Open
    <2>5. Numbers(pages[b], spools)
      BY <1>1, <2>4 DEF NumbersInv
    <2>6. /\ pages[b].query \in Queries
          /\ Cardinality(Seen(b, "list")) <= Seen(b, "total") + pages[b].overlaps
          /\ Quiet(b) => /\ Seen(b, "value") = StockValue(spools, ToFilter(pages[b].query))
                         /\ Seen(b, "list") = Listed(spools, ToFilter(pages[b].query))
      BY <2>3, <2>4, <2>5 DEF Numbers, Seen, Quiet
    <2> QED BY <2>6, StockOfList
  <1>2. NumbersInv => ListAdds
    BY <1>1 DEF ListAdds
  <1> QED BY <1>2, NumbersInvInit, NumbersInvStep, PTL DEF PagesSpec

(* Whatever is written, the numbers of the overview add up, for they are   *)
(* read in one statement; on a page that no write overlapped they are those*)
(* the other queries give (supply_overview, stock_value, count_spools).    *)
THEOREM OverviewAddsUp == PagesSpec => []OverviewAdds
  <1>1. ASSUME NumbersInv, NEW b \in Browsers, Is(b, "home")
        PROVE  LET view == Seen(b, "overview") IN
               /\ Adds(view)
               /\ Quiet(b) => /\ view.total = Seen(b, "nav")
                              /\ view.value = StockValue(spools, NoFilter)
    <2>1. /\ PageWell(pages[b], spools, slots)
          /\ DOMAIN pages[b].seen = {Reads("home")[i] : i \in 1 .. Len(Reads("home"))}
      BY <1>1, ShownSeen DEF NumbersInv
    <2>2. Ask("overview") \in DOMAIN pages[b].seen /\ Ask("nav") \in DOMAIN pages[b].seen
      BY <2>1 DEF Reads
    <2>3. pages[b].kind = "home" /\ pages[b] # NoPage
      BY <1>1, NoPageIsNone DEF Is, Shown, Open
    <2>4. Numbers(pages[b], spools)
      BY <1>1, <2>3 DEF NumbersInv
    <2> QED BY <2>2, <2>3, <2>4 DEF Numbers, Seen, Quiet
  <1>2. NumbersInv => OverviewAdds
    BY <1>1 DEF OverviewAdds, Adds
  <1> QED BY <1>2, NumbersInvInit, NumbersInvStep, PTL DEF PagesSpec
===============================================================================
