--------------------------- MODULE UnitSumsProofs ---------------------------
(***************************************************************************)
(* Facts about sums of amounts, by counting units: a sum is a natural      *)
(* number, depends on the amounts of its own payments only, grows with the *)
(* set, and grows by the amount of a payment that is added.                *)
(***************************************************************************)
EXTENDS UnitSums, FiniteSetTheorems, TLAPS

(***************************************************************************)
(* The units of one payment: as many as its amount.                        *)
(***************************************************************************)
LEMMA UnitsOfOne ==
    ASSUME NEW amount, NEW s, amount[s] \in Nat
    PROVE  /\ IsFiniteSet(UnitsOf(amount, s))
           /\ Cardinality(UnitsOf(amount, s)) = amount[s]
<1>1. IsFiniteSet({s}) /\ Cardinality({s}) = 1
  BY FS_Singleton
<1>2. IsFiniteSet(1 .. amount[s]) /\ Cardinality(1 .. amount[s]) = amount[s]
  BY FS_Interval
<1>3. /\ IsFiniteSet({s} \X (1 .. amount[s]))
      /\ Cardinality({s} \X (1 .. amount[s])) = 1 * amount[s]
  BY <1>1, <1>2, FS_Product
<1> QED
  BY <1>3 DEF UnitsOf

(***************************************************************************)
(* A finite set of payments holds finitely many units.                     *)
(***************************************************************************)
LEMMA UnitsFinite ==
    ASSUME NEW S, IsFiniteSet(S), NEW amount, \A s \in S : amount[s] \in Nat
    PROVE  IsFiniteSet(Units(amount, S))
<1> DEFINE U == { UnitsOf(amount, s) : s \in S }
           f == [s \in S |-> UnitsOf(amount, s)]
<1>1. f \in Surjection(S, U)
  BY DEF Surjection
<1>2. IsFiniteSet(U)
  BY <1>1, FS_Surjection
<1>3. \A T \in U : IsFiniteSet(T)
  BY UnitsOfOne
<1>4. IsFiniteSet(UNION U)
  BY <1>2, <1>3, FS_UNION
<1> QED
  BY <1>4 DEF Units

(***************************************************************************)
(* A sum of amounts is an amount.                                          *)
(***************************************************************************)
LEMMA SumNat ==
    ASSUME NEW S, IsFiniteSet(S), NEW amount, \A s \in S : amount[s] \in Nat
    PROVE  SumOf(amount, S) \in Nat
BY UnitsFinite, FS_CardinalityType DEF SumOf

(***************************************************************************)
(* No payments, no amount.                                                 *)
(***************************************************************************)
LEMMA SumEmpty ==
    ASSUME NEW amount
    PROVE  SumOf(amount, {}) = 0
<1>1. Units(amount, {}) = {}
  BY DEF Units
<1> QED
  BY <1>1, FS_EmptySet DEF SumOf

(***************************************************************************)
(* One payment is its own sum.                                             *)
(***************************************************************************)
LEMMA SumOne ==
    ASSUME NEW amount, NEW s, amount[s] \in Nat
    PROVE  SumOf(amount, {s}) = amount[s]
<1>1. Units(amount, {s}) = UnitsOf(amount, s)
  BY DEF Units
<1> QED
  BY <1>1, UnitsOfOne DEF SumOf

(***************************************************************************)
(* A payment that joins the set adds its amount to the sum.                *)
(***************************************************************************)
LEMMA SumAdd ==
    ASSUME NEW S, IsFiniteSet(S), NEW amount, NEW t,
           \A s \in S \cup {t} : amount[s] \in Nat, t \notin S
    PROVE  SumOf(amount, S \cup {t}) = SumOf(amount, S) + amount[t]
<1>1. Units(amount, S \cup {t}) = Units(amount, S) \cup UnitsOf(amount, t)
  BY DEF Units
<1>2. Units(amount, S) \cap UnitsOf(amount, t) = {}
  BY DEF Units, UnitsOf
<1>3. IsFiniteSet(Units(amount, S))
  BY UnitsFinite
<1>4. IsFiniteSet(UnitsOf(amount, t)) /\ Cardinality(UnitsOf(amount, t)) = amount[t]
  BY UnitsOfOne
<1>5. Cardinality(Units(amount, S) \cup UnitsOf(amount, t))
        = SumOf(amount, S) + amount[t] - Cardinality({})
  BY <1>2, <1>3, <1>4, FS_Union DEF SumOf
<1>6. SumOf(amount, S) \in Nat /\ amount[t] \in Nat
  BY SumNat
<1>7. Cardinality({}) = 0
  BY FS_EmptySet
<1>8. SumOf(amount, S \cup {t}) = SumOf(amount, S) + amount[t] - Cardinality({})
  BY <1>1, <1>5 DEF SumOf
<1> QED
  BY <1>6, <1>7, <1>8

(***************************************************************************)
(* Fewer payments hold no more.                                            *)
(***************************************************************************)
LEMMA SumMono ==
    ASSUME NEW S, IsFiniteSet(S), NEW amount, \A s \in S : amount[s] \in Nat,
           NEW T \in SUBSET S
    PROVE  /\ IsFiniteSet(T)
           /\ SumOf(amount, T) \in Nat
           /\ SumOf(amount, T) <= SumOf(amount, S)
<1>1. IsFiniteSet(Units(amount, S))
  BY UnitsFinite
<1>2. Units(amount, T) \subseteq Units(amount, S)
  BY DEF Units
<1>3. IsFiniteSet(T)
  BY FS_Subset
<1>4. SumOf(amount, T) \in Nat
  BY <1>3, SumNat
<1> QED
  BY <1>1, <1>2, <1>3, <1>4, FS_Subset DEF SumOf

(***************************************************************************)
(* A sum depends on the amounts of its payments alone.                     *)
(***************************************************************************)
LEMMA SumSame ==
    ASSUME NEW S, NEW amount, NEW other, \A s \in S : amount[s] = other[s]
    PROVE  SumOf(amount, S) = SumOf(other, S)
<1>1. Units(amount, S) = Units(other, S)
  BY DEF Units, UnitsOf
<1> QED
  BY <1>1 DEF SumOf

(***************************************************************************)
(* A sum over fewer payments, whose amounts are the same, is no larger.    *)
(***************************************************************************)
LEMMA SumShrink ==
    ASSUME NEW S, IsFiniteSet(S), NEW amount, \A s \in S : amount[s] \in Nat,
           NEW T \in SUBSET S, NEW other, \A t \in T : other[t] = amount[t]
    PROVE  /\ SumOf(other, T) \in Nat
           /\ SumOf(amount, S) \in Nat
           /\ SumOf(other, T) <= SumOf(amount, S)
<1>1. SumOf(other, T) = SumOf(amount, T)
  BY SumSame
<1>2. SumOf(amount, T) \in Nat /\ SumOf(amount, T) <= SumOf(amount, S)
  BY SumMono
<1>3. SumOf(amount, S) \in Nat
  BY SumNat
<1> QED
  BY <1>1, <1>2, <1>3

(***************************************************************************)
(* Payments without an amount can be left out of a sum.                    *)
(***************************************************************************)
LEMMA SumWithoutZeros ==
    ASSUME NEW S, NEW T \in SUBSET S, NEW amount,
           \A s \in S \ T : amount[s] = 0
    PROVE  SumOf(amount, S) = SumOf(amount, T)
<1>1. \A s \in S \ T : UnitsOf(amount, s) = {}
  BY SMT DEF UnitsOf
<1>2. Units(amount, S) = Units(amount, T)
  BY <1>1 DEF Units
<1> QED
  BY <1>2 DEF SumOf

(***************************************************************************)
(* What a unit of a sum is.                                                *)
(***************************************************************************)
LEMMA UnitsAre ==
    ASSUME NEW S, NEW amount
    PROVE  \A u : u \in Units(amount, S) <=>
              \E s \in S : \E n \in 1 .. amount[s] : u = <<s, n>>
BY DEF Units, UnitsOf

(***************************************************************************)
(* Two sets without a common payment add up.                               *)
(***************************************************************************)
LEMMA SumApart ==
    ASSUME NEW S, IsFiniteSet(S), NEW T, IsFiniteSet(T), S \cap T = {},
           NEW amount, \A s \in S \cup T : amount[s] \in Nat
    PROVE  SumOf(amount, S \cup T) = SumOf(amount, S) + SumOf(amount, T)
<1>1. Units(amount, S \cup T) = Units(amount, S) \cup Units(amount, T)
  BY DEF Units
<1>2. Units(amount, S) \cap Units(amount, T) = {}
  BY UnitsAre
<1>3. IsFiniteSet(Units(amount, S)) /\ IsFiniteSet(Units(amount, T))
  BY UnitsFinite
<1>4. Cardinality({}) = 0 /\ SumOf(amount, S) \in Nat /\ SumOf(amount, T) \in Nat
  BY SumNat, FS_EmptySet
<1>5. Cardinality(Units(amount, S) \cup Units(amount, T))
        = Cardinality(Units(amount, S)) + Cardinality(Units(amount, T))
             - Cardinality(Units(amount, S) \cap Units(amount, T))
  BY <1>3, FS_Union
<1>6. SumOf(amount, S \cup T) = SumOf(amount, S) + SumOf(amount, T) - 0
  BY <1>1, <1>2, <1>4, <1>5 DEF SumOf
<1> QED
  BY <1>4, <1>6

(***************************************************************************)
(* Payments that are grouped by a key: the sums of the groups add up to    *)
(* the sum of all.  Counting the units of each group numbers the units of  *)
(* the sum of sums.                                                        *)
(***************************************************************************)
Grouped(S, amount, K, key, group, own, total) ==
    /\ IsFiniteSet(S)
    /\ \A s \in S : amount[s] \in Nat /\ key[s] \in K
    /\ \A k \in K :
          /\ \A s : s \in group[k] <=> s \in S /\ key[s] = k
          /\ \A s \in group[k] : own[k][s] = amount[s]
          /\ total[k] = SumOf(own[k], group[k])

LEMMA SumOfGroups ==
    ASSUME NEW S, NEW amount, NEW K, NEW key, NEW group, NEW own, NEW total,
           Grouped(S, amount, K, key, group, own, total)
    PROVE  SumOf(total, K) = SumOf(amount, S)
<1> USE DEF Grouped
<1> DEFINE Group(k) == {s \in S : key[s] = k}
           U == Units(amount, S)
           V == Units(total, K)
           UnitsIn(k) == Units(amount, Group(k))
<1>1. \A k \in K : ExistsBijection(UnitsIn(k), 1 .. total[k])
  <2> SUFFICES ASSUME NEW k \in K PROVE ExistsBijection(UnitsIn(k), 1 .. total[k])
    OBVIOUS
  <2>1. group[k] = Group(k) /\ IsFiniteSet(Group(k))
    BY FS_Subset
  <2>2. total[k] = SumOf(amount, Group(k))
    <3>1. SumOf(own[k], group[k]) = SumOf(amount, group[k])
      BY SumSame
    <3> QED
      BY <2>1, <3>1
  <2>3. IsFiniteSet(UnitsIn(k)) /\ total[k] \in Nat /\ Cardinality(UnitsIn(k)) = total[k]
    BY <2>1, <2>2, UnitsFinite, SumNat DEF SumOf
  <2>4. IsFiniteSet(1 .. total[k]) /\ Cardinality(1 .. total[k]) = total[k]
    BY <2>3, FS_Interval
  <2> QED
    BY <2>3, <2>4, FS_SameCardinalityBij
<1> DEFINE number == [k \in K |-> CHOOSE g : g \in Bijection(UnitsIn(k), 1 .. total[k])]
<1>2. \A k \in K : number[k] \in Bijection(UnitsIn(k), 1 .. total[k])
  BY <1>1 DEF ExistsBijection
<1>3. \A u \in U : u[1] \in S /\ key[u[1]] \in K /\ u \in UnitsIn(key[u[1]])
  BY UnitsAre
<1>4. \A k \in K : \A u \in UnitsIn(k) : u \in U /\ key[u[1]] = k
  BY UnitsAre
<1> HIDE DEF number, UnitsIn, Group, U
<1> DEFINE h == [u \in U |-> <<key[u[1]], number[key[u[1]]][u]>>]
<1>5. \A k \in K : /\ \A u \in UnitsIn(k) : number[k][u] \in 1 .. total[k]
                   /\ \A u, v \in UnitsIn(k) : number[k][u] = number[k][v] => u = v
                   /\ \A n \in 1 .. total[k] : \E u \in UnitsIn(k) : number[k][u] = n
  BY <1>2 DEF Bijection, Injection, Surjection, IsInjective
<1>6. h \in [U -> V]
  <2> SUFFICES ASSUME NEW u \in U PROVE <<key[u[1]], number[key[u[1]]][u]>> \in V
    OBVIOUS
  <2> QED
    BY <1>3, <1>5, UnitsAre
<1>7. \A u, v \in U : h[u] = h[v] => u = v
  BY <1>3, <1>5
<1>8. \A w \in V : \E u \in U : h[u] = w
  <2> SUFFICES ASSUME NEW w \in V PROVE \E u \in U : h[u] = w
    OBVIOUS
  <2>1. PICK k \in K : \E n \in 1 .. total[k] : w = <<k, n>>
    BY UnitsAre
  <2>2. PICK n \in 1 .. total[k] : w = <<k, n>>
    BY <2>1
  <2>3. PICK u \in UnitsIn(k) : number[k][u] = n
    BY <1>5
  <2>4. u \in U /\ h[u] = w
    BY <1>4, <2>2, <2>3
  <2> QED
    BY <2>4
<1> HIDE DEF h, V
<1>9. ExistsBijection(U, V)
  BY <1>6, <1>7, <1>8 DEF ExistsBijection, Bijection, Injection, Surjection, IsInjective
<1>10. IsFiniteSet(U)
  BY UnitsFinite DEF U
<1>11. Cardinality(V) = Cardinality(U)
  BY <1>9, <1>10, FS_Bijection
<1> QED
  BY <1>11 DEF SumOf, U, V

=============================================================================
