----------------------------- MODULE RoutingProofs -----------------------------
(***************************************************************************)
(* The choice of a server, for any number of servers, any weights and any  *)
(* ring: the state is well typed, no server that serves is held back, every*)
(* booking finds its server, the rotations starve nobody, the accounts of  *)
(* the weighted one balance group by group, and a server that goes moves no*)
(* keys but its own.  For up to three servers, as the dashboard has, the   *)
(* bounds on the accounts and on the waits are closer.                     *)
(***************************************************************************)
EXTENDS Routing, FiniteSetTheorems, WellFoundedInduction, TLAPS

-----------------------------------------------------------------------------
\* Sums, counted in units.

\* n units, or none if n is negative.
LEMMA Units ==
  ASSUME NEW x, NEW n \in Int
  PROVE  /\ IsFiniteSet({x} \X (1 .. n))
         /\ Cardinality({x} \X (1 .. n)) = IF n >= 0 THEN n ELSE 0
<1>1. IsFiniteSet(1 .. n) /\ Cardinality(1 .. n) = IF 1 > n THEN 0 ELSE n - 1 + 1
  BY FS_Interval
<1>2. IsFiniteSet({x}) /\ Cardinality({x}) = 1
  BY FS_Singleton
<1>3. /\ IsFiniteSet({x} \X (1 .. n))
      /\ Cardinality({x} \X (1 .. n)) = Cardinality({x}) * Cardinality(1 .. n)
  BY <1>1, <1>2, FS_Product
<1> QED BY <1>1, <1>2, <1>3

\* There are finitely many servers.
LEMMA ServersFinite ==
  ASSUME NEW A \in SUBSET Servers
  PROVE  IsFiniteSet(A)
<1>1. IsFiniteSet(Servers)
  BY NAssumption, FS_Interval DEF Servers
<1> QED BY <1>1, FS_Subset

\* The units of finitely many servers are finite in number, too.
LEMMA UnitsFinite ==
  ASSUME NEW f \in [Servers -> Int], NEW A \in SUBSET Servers
  PROVE  IsFiniteSet(UNION {{s} \X (1 .. f[s]) : s \in A})
<1> DEFINE T == {{s} \X (1 .. f[s]) : s \in A}
           g == [s \in A |-> {s} \X (1 .. f[s])]
<1>1. g \in Surjection(A, T)
  BY DEF Surjection
<1>2. IsFiniteSet(T)
  BY <1>1, ServersFinite, FS_Surjection
<1>3. ASSUME NEW s \in A PROVE IsFiniteSet({s} \X (1 .. f[s]))
  BY Units
<1>4. \A U \in T : IsFiniteSet(U)
  BY <1>3
<1> QED BY <1>2, <1>4, FS_UNION

\* The other sign.
LEMMA Negated ==
  ASSUME NEW f \in [Servers -> Int]
  PROVE  /\ [s \in Servers |-> -f[s]] \in [Servers -> Int]
         /\ \A A \in SUBSET Servers : Debts(f, A) = Credits([s \in Servers |-> -f[s]], A)
<1> DEFINE g == [s \in Servers |-> -f[s]]
<1>1. g \in [Servers -> Int] /\ \A s \in Servers : g[s] = -f[s]
  OBVIOUS
<1> HIDE DEF g
<1>2. ASSUME NEW A \in SUBSET Servers PROVE Debts(f, A) = Credits(g, A)
  <2>1. {{s} \X (1 .. -f[s]) : s \in A} = {{s} \X (1 .. g[s]) : s \in A}
    BY <1>1
  <2> QED BY <2>1 DEF Debts, Credits
<1> QED BY <1>1, <1>2 DEF g

\* A sum is an integer.
LEMMA SumType ==
  ASSUME NEW f \in [Servers -> Int], NEW A \in SUBSET Servers
  PROVE  /\ IsFiniteSet(Credits(f, A)) /\ IsFiniteSet(Debts(f, A))
         /\ SumOver(f, A) \in Int
<1>1. IsFiniteSet(Credits(f, A))
  BY UnitsFinite DEF Credits
<1>2. IsFiniteSet(Debts(f, A))
  <2> DEFINE g == [s \in Servers |-> -f[s]]
  <2>1. g \in [Servers -> Int] /\ Debts(f, A) = Credits(g, A)
    BY Negated
  <2> HIDE DEF g
  <2> QED BY <2>1, UnitsFinite DEF Credits
<1> QED BY <1>1, <1>2, FS_CardinalityType DEF SumOver

\* One more server adds its units to the others'.
LEMMA CreditsAdd ==
  ASSUME NEW f \in [Servers -> Int], NEW A \in SUBSET Servers, NEW x \in Servers \ A
  PROVE  Cardinality(Credits(f, A \cup {x})) =
           Cardinality(Credits(f, A)) + (IF f[x] >= 0 THEN f[x] ELSE 0)
<1> DEFINE U == {x} \X (1 .. f[x])
<1>1. f[x] \in Int
  OBVIOUS
<1>2. IsFiniteSet(U) /\ Cardinality(U) = IF f[x] >= 0 THEN f[x] ELSE 0
  BY <1>1, Units
<1>3. Credits(f, A \cup {x}) = Credits(f, A) \cup U
  BY DEF Credits
<1>4. Credits(f, A) \cap U = {}
  BY DEF Credits
<1>5. IsFiniteSet(Credits(f, A)) /\ Cardinality(Credits(f, A)) \in Nat
  BY SumType, FS_CardinalityType
<1> HIDE DEF U
<1>6. Cardinality(Credits(f, A) \cup U) =
        Cardinality(Credits(f, A)) + Cardinality(U) - Cardinality(Credits(f, A) \cap U)
  BY <1>2, <1>5, FS_Union
<1>7. Cardinality(Credits(f, A) \cap U) = 0
  BY <1>4, FS_EmptySet
<1>8. Cardinality(Credits(f, A \cup {x})) = Cardinality(Credits(f, A)) + Cardinality(U) - 0
  BY <1>3, <1>6, <1>7
<1> QED BY <1>1, <1>2, <1>5, <1>8

\* One more server adds its account to the sum.
LEMMA SumAdd ==
  ASSUME NEW f \in [Servers -> Int], NEW A \in SUBSET Servers, NEW x \in Servers \ A
  PROVE  SumOver(f, A \cup {x}) = SumOver(f, A) + f[x]
<1> DEFINE g == [s \in Servers |-> -f[s]]
<1>1. /\ g \in [Servers -> Int] /\ g[x] = -f[x] /\ f[x] \in Int
      /\ Debts(f, A) = Credits(g, A) /\ Debts(f, A \cup {x}) = Credits(g, A \cup {x})
  BY Negated
<1> HIDE DEF g
<1>2. Cardinality(Credits(f, A \cup {x})) =
        Cardinality(Credits(f, A)) + (IF f[x] >= 0 THEN f[x] ELSE 0)
  BY CreditsAdd
<1>3. Cardinality(Credits(g, A \cup {x})) =
        Cardinality(Credits(g, A)) + (IF g[x] >= 0 THEN g[x] ELSE 0)
  BY <1>1, CreditsAdd
<1>4. Cardinality(Credits(f, A)) \in Nat /\ Cardinality(Credits(g, A)) \in Nat
  BY <1>1, SumType, FS_CardinalityType
<1> QED BY <1>1, <1>2, <1>3, <1>4 DEF SumOver

\* Nothing adds up to nothing.
LEMMA SumEmpty ==
  ASSUME NEW f
  PROVE  SumOver(f, {}) = 0
<1>1. Credits(f, {}) = {} /\ Debts(f, {}) = {}
  BY DEF Credits, Debts
<1> QED BY <1>1, FS_EmptySet DEF SumOver

\* Sums add up server by server.  A smallest set for which they did not would
\* have a member, and the set without it would be no counterexample.
LEMMA SumPlus ==
  ASSUME NEW f \in [Servers -> Int], NEW g \in [Servers -> Int], NEW h \in [Servers -> Int],
         \A s \in Servers : h[s] = f[s] + g[s]
  PROVE  \A A \in SUBSET Servers : SumOver(h, A) = SumOver(f, A) + SumOver(g, A)
<1> DEFINE Bad == {A \in SUBSET Servers : SumOver(h, A) # SumOver(f, A) + SumOver(g, A)}
<1> SUFFICES ASSUME Bad # {} PROVE FALSE
  OBVIOUS
<1>1. Bad \subseteq FiniteSubsetsOf(Servers)
  BY ServersFinite DEF FiniteSubsetsOf
<1>2. PICK A \in Bad : \A B \in Bad : <<B, A>> \notin StrictSubsetOrdering(Servers)
  <2> HIDE DEF Bad
  <2> QED BY <1>1, WFMin, FS_StrictSubsetOrderingWellFounded
<1>3. A \in SUBSET Servers /\ SumOver(h, A) # SumOver(f, A) + SumOver(g, A)
  OBVIOUS
<1>4. PICK x : x \in A
  <2>1. SumOver(f, {}) = 0 /\ SumOver(g, {}) = 0 /\ SumOver(h, {}) = 0
    BY SumEmpty
  <2>2. SumOver(h, {}) = SumOver(f, {}) + SumOver(g, {})
    BY <2>1
  <2>3. A # {}
    BY <1>3, <2>2, Zenon
  <2> QED BY <2>3
<1> DEFINE B == A \ {x}
<1>5. /\ B \in SUBSET Servers /\ x \in Servers \ B
      /\ A = B \cup {x} /\ B \subseteq A /\ B # A
  BY <1>3, <1>4
<1> HIDE DEF B
<1>6. <<B, A>> \in StrictSubsetOrdering(Servers)
  BY <1>3, <1>5 DEF StrictSubsetOrdering
<1>7. SumOver(h, B) = SumOver(f, B) + SumOver(g, B)
  BY <1>2, <1>5, <1>6
<1>8. /\ SumOver(f, A) = SumOver(f, B) + f[x]
      /\ SumOver(g, A) = SumOver(g, B) + g[x]
      /\ SumOver(h, A) = SumOver(h, B) + h[x]
  BY <1>5, SumAdd
<1>9. /\ SumOver(f, B) \in Int /\ SumOver(g, B) \in Int
      /\ f[x] \in Int /\ g[x] \in Int /\ h[x] = f[x] + g[x]
  BY <1>5, SumType
<1> QED BY <1>3, <1>7, <1>8, <1>9

\* Sums over a set look at nothing else.
LEMMA SumSame ==
  ASSUME NEW f, NEW g, NEW A, \A s \in A : f[s] = g[s]
  PROVE  SumOver(f, A) = SumOver(g, A)
<1>1. {{s} \X (1 .. f[s]) : s \in A} = {{s} \X (1 .. g[s]) : s \in A}
  OBVIOUS
<1>2. \A s \in A : -f[s] = -g[s]
  OBVIOUS
<1>3. {{s} \X (1 .. -f[s]) : s \in A} = {{s} \X (1 .. -g[s]) : s \in A}
  BY <1>2, Zenon
<1> QED BY <1>1, <1>3 DEF SumOver, Credits, Debts

\* What a group gains, server by server.
LEMMA SumGain ==
  ASSUME NEW f \in [Servers -> Int], NEW g \in [Servers -> Int], NEW h,
         NEW A \in SUBSET Servers, \A s \in A : h[s] = f[s] + g[s]
  PROVE  SumOver(h, A) = SumOver(f, A) + SumOver(g, A)
<1>1. PICK e : e = [s \in Servers |-> f[s] + g[s]]
  OBVIOUS
<1>2. e \in [Servers -> Int] /\ \A s \in Servers : e[s] = f[s] + g[s]
  BY <1>1
<1>3. SumOver(e, A) = SumOver(f, A) + SumOver(g, A)
  BY <1>2, SumPlus
<1>4. SumOver(h, A) = SumOver(e, A)
  BY <1>2, SumSame
<1> QED BY <1>3, <1>4

\* Two groups that share nobody.
LEMMA CreditsSplit ==
  ASSUME NEW f \in [Servers -> Int], NEW A \in SUBSET Servers, NEW B \in SUBSET Servers,
         A \cap B = {}
  PROVE  Cardinality(Credits(f, A \cup B)) =
           Cardinality(Credits(f, A)) + Cardinality(Credits(f, B))
<1>1. Credits(f, A \cup B) = Credits(f, A) \cup Credits(f, B)
  BY DEF Credits
<1>2. Credits(f, A) \cap Credits(f, B) = {}
  BY DEF Credits
<1>3. /\ IsFiniteSet(Credits(f, A)) /\ Cardinality(Credits(f, A)) \in Nat
      /\ IsFiniteSet(Credits(f, B)) /\ Cardinality(Credits(f, B)) \in Nat
  BY SumType, FS_CardinalityType
<1>4. Cardinality(Credits(f, A) \cap Credits(f, B)) = 0
  BY <1>2, FS_EmptySet
<1>5. Cardinality(Credits(f, A) \cup Credits(f, B)) =
        Cardinality(Credits(f, A)) + Cardinality(Credits(f, B)) - 0
  BY <1>3, <1>4, FS_Union
<1>6. Cardinality(Credits(f, A)) + Cardinality(Credits(f, B)) - 0 =
        Cardinality(Credits(f, A)) + Cardinality(Credits(f, B))
  BY <1>3
<1> QED BY <1>1, <1>5, <1>6, Zenon

LEMMA SumSplit ==
  ASSUME NEW f \in [Servers -> Int], NEW A \in SUBSET Servers, NEW B \in SUBSET Servers,
         A \cap B = {}
  PROVE  SumOver(f, A \cup B) = SumOver(f, A) + SumOver(f, B)
<1> DEFINE g == [s \in Servers |-> -f[s]]
<1>1. g \in [Servers -> Int] /\ \A C \in SUBSET Servers : Debts(f, C) = Credits(g, C)
  BY Negated
<1> HIDE DEF g
<1>2. A \cup B \in SUBSET Servers
  OBVIOUS
<1>3. /\ Cardinality(Credits(f, A \cup B)) =
           Cardinality(Credits(f, A)) + Cardinality(Credits(f, B))
      /\ Cardinality(Credits(g, A \cup B)) =
           Cardinality(Credits(g, A)) + Cardinality(Credits(g, B))
  BY <1>1, CreditsSplit
<1>4. /\ Cardinality(Credits(f, A)) \in Nat /\ Cardinality(Credits(f, B)) \in Nat
      /\ Cardinality(Credits(g, A)) \in Nat /\ Cardinality(Credits(g, B)) \in Nat
  BY <1>1, SumType, FS_CardinalityType
<1>5. /\ Debts(f, A) = Credits(g, A) /\ Debts(f, B) = Credits(g, B)
      /\ Debts(f, A \cup B) = Credits(g, A \cup B)
  BY <1>1, <1>2
<1> QED BY <1>3, <1>4, <1>5 DEF SumOver

\* Finitely many numbers, none above m, add up to m for each of them at most.  A
\* smallest set for which they did not would have a member to do without.
LEMMA SumAtMost ==
  ASSUME NEW f \in [Servers -> Int], NEW m \in Int, NEW C \in SUBSET Servers,
         \A s \in C : f[s] <= m
  PROVE  SumOver(f, C) <= Cardinality(C) * m
<1> DEFINE Fits(A) == SumOver(f, A) <= Cardinality(A) * m
           Bad == {A \in SUBSET C : ~Fits(A)}
<1> SUFFICES ASSUME Bad # {} PROVE FALSE
  OBVIOUS
<1>1. Bad \subseteq FiniteSubsetsOf(Servers)
  BY ServersFinite DEF FiniteSubsetsOf
<1>2. PICK A \in Bad : \A B \in Bad : <<B, A>> \notin StrictSubsetOrdering(Servers)
  <2> HIDE DEF Bad
  <2> QED BY <1>1, WFMin, FS_StrictSubsetOrderingWellFounded
<1>3. A \in SUBSET C /\ ~Fits(A)
  OBVIOUS
<1>4. PICK x : x \in A
  <2>1. SumOver(f, {}) = 0 /\ Cardinality({}) = 0 /\ 0 <= 0 * m
    BY SumEmpty, FS_EmptySet
  <2>2. Fits({})
    BY <2>1, Zenon
  <2>3. A # {}
    BY <1>3, <2>2, Zenon
  <2> QED BY <2>3
<1> DEFINE B == A \ {x}
<1>5. /\ B \in SUBSET Servers /\ B \in SUBSET C /\ x \in Servers \ B
      /\ A = B \cup {x} /\ B \subseteq A /\ B # A /\ f[x] <= m
  BY <1>3, <1>4
<1> HIDE DEF B
<1>6. <<B, A>> \in StrictSubsetOrdering(Servers)
  BY <1>3, <1>5 DEF StrictSubsetOrdering
<1>7. Fits(B)
  BY <1>2, <1>5, <1>6
<1>8. SumOver(f, A) = SumOver(f, B) + f[x]
  BY <1>5, SumAdd
<1>9. IsFiniteSet(B) /\ Cardinality(B) \in Nat /\ Cardinality(A) = Cardinality(B) + 1
  BY <1>5, ServersFinite, FS_CardinalityType, FS_AddElement
<1>10. PICK k \in Nat, y \in Int, z \in Int :
         k = Cardinality(B) /\ y = SumOver(f, B) /\ z = f[x]
  BY <1>5, <1>9, SumType
<1>11. y <= k * m /\ z <= m
  BY <1>5, <1>7, <1>10
<1>12. y + z <= (k + 1) * m
  BY <1>11
<1>13. Fits(A)
  BY <1>8, <1>9, <1>10, <1>12
<1> QED BY <1>3, <1>13

\* One account that changes changes the sum by as much.
LEMMA SumExcept ==
  ASSUME NEW f \in [Servers -> Int], NEW x \in Servers, NEW n \in Int
  PROVE  SumOver([f EXCEPT ![x] = n], Servers) = SumOver(f, Servers) - f[x] + n
<1>0. PICK g : g = [f EXCEPT ![x] = n]
  OBVIOUS
<1> DEFINE B == Servers \ {x}
<1>1. /\ g \in [Servers -> Int] /\ g[x] = n /\ f[x] \in Int
      /\ \A s \in B : g[s] = f[s]
      /\ B \in SUBSET Servers /\ x \in Servers \ B /\ B \cup {x} = Servers
  BY <1>0
<1> HIDE DEF B
<1>2. SumOver(g, B) = SumOver(f, B)
  BY <1>1, SumSame
<1>3. /\ SumOver(g, B \cup {x}) = SumOver(g, B) + g[x]
      /\ SumOver(f, B \cup {x}) = SumOver(f, B) + f[x]
  BY <1>1, SumAdd
<1>4. SumOver(f, B) \in Int
  BY <1>1, SumType
<1>5. PICK k \in Int : k = SumOver(f, B)
  BY <1>4
<1>6. SumOver(g, Servers) = k + n /\ SumOver(f, Servers) = k + f[x]
  BY <1>1, <1>2, <1>3, <1>5, Zenon
<1>7. SumOver(g, Servers) = SumOver(f, Servers) - f[x] + n
  BY <1>1, <1>6
<1> QED BY <1>0, <1>7

\* Nothing in every account.
LEMMA SumZero ==
  ASSUME NEW A \in SUBSET Servers
  PROVE  SumOver([s \in Servers |-> 0], A) = 0
<1>0. PICK z : z = [s \in Servers |-> 0]
  OBVIOUS
<1>1. z \in [Servers -> Int] /\ \A s \in Servers : z[s] = 0 /\ z[s] = z[s] + z[s]
  BY <1>0
<1>2. SumOver(z, A) = SumOver(z, A) + SumOver(z, A)
  BY <1>1, SumPlus
<1>3. SumOver(z, A) \in Int
  BY <1>1, SumType
<1>4. \A k \in Int : k = k + k => k = 0
  OBVIOUS
<1>5. SumOver(z, A) = 0
  BY <1>2, <1>3, <1>4, Zenon
<1> QED BY <1>0, <1>5

\* The weights of a set of servers, as a sum over all of them.
LEMMA WeightOf ==
  ASSUME NEW A \in SUBSET Servers
  PROVE  SumOver([s \in Servers |-> IF s \in A THEN Weight[s] ELSE 0], Servers) = TotalWeight(A)
<1> DEFINE w == [s \in Servers |-> IF s \in A THEN Weight[s] ELSE 0]
<1>1. w \in [Servers -> Int] /\ \A s \in Servers : w[s] = IF s \in A THEN Weight[s] ELSE 0
  BY WeightAssumption
<1> HIDE DEF w
<1> DEFINE U(s) == {s} \X (1 .. w[s])
<1>2. Credits(w, Servers) = Credits(Weight, A)
  <2>1. \A s \in Servers \ A : U(s) = {}
    BY <1>1
  <2>2. {{s} \X (1 .. Weight[s]) : s \in A} = {U(s) : s \in A}
    BY <1>1
  <2> HIDE DEF U
  <2>3. UNION {U(s) : s \in Servers} = UNION {U(s) : s \in A}
    BY <2>1
  <2> QED BY <2>2, <2>3 DEF Credits, U
<1>3. Debts(w, Servers) = {} /\ Debts(Weight, A) = {}
  <2>1. ASSUME NEW s \in Servers PROVE {s} \X (1 .. -w[s]) = {}
    BY <1>1, WeightAssumption
  <2>2. ASSUME NEW s \in A PROVE {s} \X (1 .. -Weight[s]) = {}
    BY WeightAssumption
  <2> QED BY <2>1, <2>2 DEF Debts
<1>4. SumOver(w, Servers) = SumOver(Weight, A)
  BY <1>2, <1>3 DEF SumOver
<1> QED BY <1>4 DEF w, TotalWeight

\* Weights are not negative, and neither are their sums.
LEMMA TotalWeightType ==
  ASSUME NEW A \in SUBSET Servers
  PROVE  TotalWeight(A) \in Nat
<1>1. Weight \in [Servers -> Int]
  BY WeightAssumption
<1>2. Debts(Weight, A) = {}
  BY WeightAssumption DEF Debts
<1>3. Cardinality(Credits(Weight, A)) \in Nat /\ Cardinality(Debts(Weight, A)) = 0
  BY <1>1, <1>2, SumType, FS_CardinalityType, FS_EmptySet
<1> QED BY <1>3 DEF TotalWeight, SumOver

\* Among finitely many servers one has the most.  A smallest set for which this
\* failed would have a member, and what is left without it has its own greatest.
LEMMA Greatest ==
  ASSUME NEW f \in [Servers -> Int]
  PROVE  \A A \in SUBSET Servers : A # {} => \E x \in A : \A y \in A : f[y] <= f[x]
<1> DEFINE Best(A) == \E x \in A : \A y \in A : f[y] <= f[x]
           Bad == {A \in SUBSET Servers : A # {} /\ ~Best(A)}
<1> SUFFICES ASSUME Bad # {} PROVE FALSE
  OBVIOUS
<1>1. Bad \subseteq FiniteSubsetsOf(Servers)
  BY ServersFinite DEF FiniteSubsetsOf
<1>2. PICK A \in Bad : \A B \in Bad : <<B, A>> \notin StrictSubsetOrdering(Servers)
  <2> HIDE DEF Bad
  <2> QED BY <1>1, WFMin, FS_StrictSubsetOrderingWellFounded
<1>3. A \in SUBSET Servers /\ A # {} /\ ~Best(A)
  OBVIOUS
<1>4. PICK x : x \in A
  BY <1>3
<1> DEFINE B == A \ {x}
<1>5. B \in SUBSET Servers /\ A = B \cup {x} /\ B \subseteq A /\ B # A
  BY <1>3, <1>4
<1> HIDE DEF B
<1>6. <<B, A>> \in StrictSubsetOrdering(Servers)
  BY <1>3, <1>5 DEF StrictSubsetOrdering
<1>7. CASE B = {}
  BY <1>3, <1>4, <1>5, <1>7
<1>8. CASE B # {}
  <2>1. PICK m \in B : \A y \in B : f[y] <= f[m]
    BY <1>2, <1>5, <1>6, <1>8
  <2>2. f[m] \in Int /\ f[x] \in Int /\ \A y \in B : f[y] \in Int
    BY <1>3, <1>4, <1>5, <2>1
  <2>3. CASE f[x] <= f[m]
    BY <1>3, <1>5, <2>1, <2>3
  <2>4. CASE f[m] <= f[x]
    <3>1. \A y \in A : f[y] <= f[x]
      BY <1>5, <2>1, <2>2, <2>4
    <3> QED BY <1>3, <1>4, <3>1
  <2> QED BY <2>2, <2>3, <2>4
<1> QED BY <1>7, <1>8

\* The heaviest weight is a weight, and no other exceeds it.
LEMMA MaxWeightType ==
  /\ MaxWeight \in Nat \ {0}
  /\ \A s \in Servers : Weight[s] <= MaxWeight
<1> DEFINE S == {Weight[s] : s \in Servers}
<1>1. Weight \in [Servers -> Int] /\ Servers \in SUBSET Servers /\ Servers # {}
  <2>1. 1 \in Servers
    BY NAssumption DEF Servers
  <2> QED BY <2>1, WeightAssumption
<1>2. PICK x \in Servers : \A y \in Servers : Weight[y] <= Weight[x]
  BY <1>1, Greatest
<1>3. \A y \in Servers : Weight[y] \in Nat \ {0} /\ Weight[x] >= Weight[y]
  BY <1>2, WeightAssumption
<1>4. Weight[x] \in S /\ \A n \in S : Weight[x] >= n
  BY <1>3
<1>5. Max(S) \in S /\ \A n \in S : Max(S) >= n
  <2> HIDE DEF S
  <2> QED BY <1>4 DEF Max
<1>6. MaxWeight = Max(S)
  BY DEF MaxWeight
<1>7. MaxWeight \in S /\ \A n \in S : MaxWeight >= n
  BY <1>5, <1>6, Zenon
<1>8. MaxWeight \in Nat \ {0}
  BY <1>3, <1>7
<1>9. ASSUME NEW s \in Servers PROVE Weight[s] <= MaxWeight
  <2>1. MaxWeight >= Weight[s]
    BY <1>7
  <2> QED BY <1>3, <1>8, <2>1
<1> QED BY <1>8, <1>9

-----------------------------------------------------------------------------
\* The state is well typed.

\* A counter that stops at its bound.
LEMMA UpToBound ==
  ASSUME NEW b \in Nat, NEW n \in Nat
  PROVE  UpTo(b, n) \in 0 .. b /\ UpTo(b, n) \in Nat /\ UpTo(b, n) <= n
BY DEF UpTo

\* update_health keeps a server's record a record.
LEMMA ReportedType ==
  ASSUME NEW h \in Health, NEW good \in BOOLEAN
  PROVE  Reported(h, good) \in Health
<1>1. h.healthy \in BOOLEAN /\ h.fails \in 0 .. Threshold /\ h.recoveries \in 0 .. Threshold
  BY DEF Health
<1>2. Threshold \in Nat /\ h.fails + 1 \in Nat /\ h.recoveries + 1 \in Nat
  BY <1>1, HealthAssumption
<1>3. /\ UpTo(Threshold, h.fails + 1) \in 0 .. Threshold
      /\ UpTo(Threshold, h.recoveries + 1) \in 0 .. Threshold
  BY <1>2, UpToBound
<1>4. 0 \in 0 .. Threshold
  BY <1>2
<1>5. PICK fails \in 0 .. Threshold : fails = IF good THEN 0 ELSE UpTo(Threshold, h.fails + 1)
  BY <1>3, <1>4
<1>6. PICK recoveries \in 0 .. Threshold :
        recoveries = IF good THEN UpTo(Threshold, h.recoveries + 1) ELSE 0
  BY <1>3, <1>4
<1>7. Reported(h, good) =
        [fails |-> fails, recoveries |-> recoveries,
         healthy |-> (h.healthy /\ fails < Threshold) \/ (good /\ recoveries >= Threshold)]
  BY <1>5, <1>6, Zenon DEF Reported
<1> QED BY <1>7 DEF Health

\* The bounds of the counters.
LEMMA Bounds ==
  /\ MaxPassed \in Nat /\ 0 \in 0 .. MaxPassed
  /\ N \in Nat /\ N >= 1 /\ 0 \in 0 .. N /\ Servers \subseteq 0 .. N
  /\ 0 \in 0 .. Threshold /\ 1 \in 0 .. Threshold
<1>1. MaxPassed \in Nat
  BY NAssumption, MaxWeightType DEF MaxPassed
<1>2. \A n \in Nat : 0 \in 0 .. n
  OBVIOUS
<1>3. N \in Nat /\ N >= 1 /\ Servers \subseteq 0 .. N
  BY NAssumption DEF Servers
<1>4. 0 \in 0 .. Threshold /\ 1 \in 0 .. Threshold
  BY HealthAssumption
<1> QED BY <1>1, <1>2, <1>3, <1>4

\* The initial state is well typed.
LEMMA InitType == Init => TypeOK
<1> SUFFICES ASSUME Init PROVE TypeOK
  OBVIOUS
<1>1. [healthy |-> TRUE, fails |-> 0, recoveries |-> 1] \in Health
  BY Bounds DEF Health
<1>2. health \in [Servers -> Health]
  BY <1>1 DEF Init
<1>3. passed \in [Servers -> 0 .. MaxPassed] /\ index \in 0 .. N
  BY Bounds DEF Init
<1>4. strategy \in Strategies /\ routing \in BOOLEAN
  BY DEF Init, Strategies
<1>5. current \in [Servers -> Int] /\ circuit \in [Servers -> {"CLOSED", "OPEN", "HALF_OPEN"}]
  <2>1. current = [s \in Servers |-> 0] /\ circuit = [s \in Servers |-> "CLOSED"]
    BY Zenon DEF Init
  <2> QED BY <2>1
<1>6. up \subseteq Servers /\ joined \subseteq Servers /\ online \subseteq Servers
  BY Zenon DEF Init
<1> QED BY <1>2, <1>3, <1>4, <1>5, <1>6 DEF TypeOK

\* The step of a booking, seen from the server it is given.
BookOn(s) ==
  /\ s \in online
  /\ Pick(s)
  /\ Outcome(SafeServer(s))
  /\ passed' = [t \in Servers |->
        IF strategy \in {"Round Robin", "Weighted Round Robin"} /\ t \in online \ {s}
        THEN UpTo(MaxPassed, passed[t] + 1) ELSE 0]
  /\ routing' = FALSE /\ online' = {}
  /\ UNCHANGED <<strategy, clusterVars>>

\* A booking is given some server.
LEMMA BookPicks == ASSUME TypeOK, Book PROVE \E s \in Servers : BookOn(s)
BY DEF TypeOK, Book, BookOn

\* The weighted rotation: every account after it.
LEMMA Accounts ==
  ASSUME TypeOK, NEW s \in Servers, s \in online, WeightedRoundRobin(s)
  PROVE  \E raised \in [Servers -> Int] :
           /\ \A t \in Servers : raised[t] = current[t] + (IF t \in online THEN Weight[t] ELSE 0)
           /\ current' = [raised EXCEPT ![s] = raised[s] - TotalWeight(online)]
           /\ current' \in [Servers -> Int]
<1>1. PICK raised :
        raised = [t \in Servers |-> IF t \in online THEN current[t] + Weight[t] ELSE current[t]]
  OBVIOUS
<1>2. current' = [raised EXCEPT ![s] = @ - TotalWeight(online)]
  BY <1>1 DEF WeightedRoundRobin, Raised
<1>3. raised \in [Servers -> Int]
  BY <1>1, WeightAssumption DEF TypeOK
<1>4. TotalWeight(online) \in Nat
  BY TotalWeightType DEF TypeOK
<1>5. current' \in [Servers -> Int]
  BY <1>2, <1>3, <1>4
<1>6. \A t \in Servers : raised[t] = current[t] + (IF t \in online THEN Weight[t] ELSE 0)
  BY <1>1, WeightAssumption DEF TypeOK
<1> QED BY <1>2, <1>3, <1>5, <1>6

\* Every step keeps the types.
LEMMA StepType ==
  ASSUME TypeOK, [Next]_vars
  PROVE  TypeOK'
<1>1. CASE \E s \in Servers : Toggle(s)
  <2>1. PICK s \in Servers : Toggle(s)
    BY <1>1
  <2>2. Reported(health[s], s \notin up) \in Health
    BY ReportedType DEF TypeOK
  <2>3. health' \in [Servers -> Health]
    BY <2>1, <2>2 DEF TypeOK, Toggle
  <2> QED BY <2>1, <2>3 DEF TypeOK, Toggle, Rejoined, balancerVars
<1>2. CASE \E name \in Strategies : SetStrategy(name)
  <2>1. passed' \in [Servers -> 0 .. MaxPassed]
    BY <1>2, Bounds DEF SetStrategy, FreshStrategy
  <2>2. index' \in 0 .. N /\ current' \in [Servers -> Int]
    BY <1>2, Bounds DEF SetStrategy, FreshStrategy
  <2> QED BY <1>2, <2>1, <2>2 DEF TypeOK, SetStrategy, FreshStrategy, clusterVars
<1>3. CASE Snapshot
  BY <1>3 DEF TypeOK, Snapshot, LookAtBreakers, balancerVars, clusterVars
<1>4. CASE Measure
  BY <1>4 DEF TypeOK, Measure, LookAtBreakers, balancerVars, clusterVars
<1>5. CASE Book
  <2>1. PICK s \in Servers : BookOn(s)
    BY <1>5, BookPicks
  <2>2. index' \in 0 .. N /\ current' \in [Servers -> Int]
    <3>1. CASE WeightedRoundRobin(s)
      BY <2>1, <3>1, Accounts DEF BookOn, WeightedRoundRobin, TypeOK
    <3>2. CASE ~WeightedRoundRobin(s)
      BY <2>1, <3>2, Bounds DEF BookOn, Pick, RoundRobin, ConsistentHashing, Scored, TypeOK
    <3> QED BY <3>1, <3>2
  <2>3. circuit' \in [Servers -> {"CLOSED", "OPEN", "HALF_OPEN"}]
    BY <2>1 DEF BookOn, Outcome, TypeOK
  <2>4. passed' \in [Servers -> 0 .. MaxPassed]
    <3>1. ASSUME NEW t \in Servers PROVE UpTo(MaxPassed, passed[t] + 1) \in 0 .. MaxPassed
      <4>1. passed[t] + 1 \in Nat
        BY DEF TypeOK
      <4> QED BY <4>1, Bounds, UpToBound
    <3> QED BY <2>1, <3>1, Bounds DEF BookOn
  <2> QED BY <2>1, <2>2, <2>3, <2>4 DEF BookOn, TypeOK, clusterVars
<1>6. CASE Refuse
  BY <1>6 DEF TypeOK, Refuse, balancerVars, clusterVars
<1>7. CASE UNCHANGED vars
  BY <1>7 DEF TypeOK, vars, balancerVars, clusterVars
<1> QED BY <1>1, <1>2, <1>3, <1>4, <1>5, <1>6, <1>7 DEF Next

(***************************************************************************)
(* The state of routing is well typed: the round robin's index never leaves*)
(* the list of the servers, and the failover manager's counters never pass *)
(* their thresholds.                                                       *)
(***************************************************************************)
THEOREM RoutingType == Spec => []TypeOK
BY InitType, StepType, PTL DEF Spec

-----------------------------------------------------------------------------
\* What the toggles have made of a server's health: a failure is not counted
\* any more once the server is back, and one recovery is enough if one failure is.
Toggled ==
  \A s \in Servers :
    IF s \in up
    THEN health[s].healthy /\ health[s].fails = 0
    ELSE health[s].recoveries = 0 /\ (health[s].healthy \/ Threshold = 1)

\* What one report makes of a record.
LEMMA OneReport ==
  ASSUME NEW h \in Health
  PROVE  /\ Reported(h, FALSE).recoveries = 0 /\ Reported(h, TRUE).fails = 0
         /\ h.healthy /\ h.fails = 0 => Reported(h, FALSE).healthy \/ Threshold = 1
         /\ h.recoveries = 0 /\ (h.healthy \/ Threshold = 1) => Reported(h, TRUE).healthy
<1>1. Threshold \in Nat \ {0}
  BY HealthAssumption
<1>2. PICK one : one = UpTo(Threshold, 0 + 1) /\ one = 1
  BY <1>1 DEF UpTo
<1>3. Reported(h, FALSE).recoveries = 0 /\ Reported(h, TRUE).fails = 0
  BY DEF Reported
<1>4. ASSUME h.healthy, h.fails = 0 PROVE Reported(h, FALSE).healthy \/ Threshold = 1
  <2>1. Reported(h, FALSE).healthy <=> h.healthy /\ UpTo(Threshold, h.fails + 1) < Threshold
    BY Zenon DEF Reported
  <2>2. UpTo(Threshold, h.fails + 1) = 1
    BY <1>2, <1>4
  <2>3. 1 < Threshold \/ Threshold = 1
    BY <1>1
  <2> QED BY <1>4, <2>1, <2>2, <2>3, Zenon
<1>5. ASSUME h.recoveries = 0, h.healthy \/ Threshold = 1 PROVE Reported(h, TRUE).healthy
  <2>1. Reported(h, TRUE).healthy <=>
          (h.healthy /\ 0 < Threshold) \/ UpTo(Threshold, h.recoveries + 1) >= Threshold
    BY Zenon DEF Reported
  <2>2. UpTo(Threshold, h.recoveries + 1) = 1
    BY <1>2, <1>5
  <2>3. 0 < Threshold /\ (Threshold = 1 => 1 >= Threshold)
    BY <1>1
  <2> QED BY <1>5, <2>1, <2>2, <2>3, Zenon
<1> QED BY <1>3, <1>4, <1>5

\* A toggle reports once.
LEMMA ToggleReports ==
  ASSUME TypeOK, Toggled, NEW s \in Servers, Toggle(s)
  PROVE  Toggled'
<1>1. health[s] \in Health /\ Threshold \in Nat \ {0}
  BY HealthAssumption DEF TypeOK
<1>2. /\ s \in up' <=> s \notin up
      /\ health' = [health EXCEPT ![s] = Reported(health[s], s \notin up)]
      /\ \A t \in Servers \ {s} : t \in up' <=> t \in up
  BY DEF Toggle
<1>3. /\ health'[s] = Reported(health[s], s \notin up)
      /\ \A t \in Servers \ {s} : health'[t] = health[t]
  BY <1>2 DEF TypeOK
<1>4. CASE s \in up
  <2>1. health[s].healthy /\ health[s].fails = 0
    BY <1>4 DEF Toggled
  <2>2. /\ Reported(health[s], FALSE).recoveries = 0
        /\ Reported(health[s], FALSE).healthy \/ Threshold = 1
    BY <1>1, <2>1, OneReport
  <2>3. health'[s].recoveries = 0 /\ (health'[s].healthy \/ Threshold = 1)
    BY <1>3, <1>4, <2>2
  <2> QED BY <1>2, <1>3, <1>4, <2>3 DEF Toggled
<1>5. CASE s \notin up
  <2>1. health[s].recoveries = 0 /\ (health[s].healthy \/ Threshold = 1)
    BY <1>5 DEF Toggled
  <2>2. Reported(health[s], TRUE).healthy /\ Reported(health[s], TRUE).fails = 0
    BY <1>1, <2>1, OneReport
  <2>3. health'[s].healthy /\ health'[s].fails = 0
    BY <1>3, <1>5, <2>2
  <2> QED BY <1>2, <1>3, <1>5, <2>3 DEF Toggled
<1> QED BY <1>4, <1>5

\* Nothing else reports.
LEMMA ToggledAlways == Spec => []Toggled
<1>1. Init => Toggled
  <2> SUFFICES ASSUME Init, NEW s \in Servers
               PROVE  s \in up /\ health[s].healthy /\ health[s].fails = 0
    BY DEF Toggled
  <2>1. up = Servers /\ health[s] = [healthy |-> TRUE, fails |-> 0, recoveries |-> 1]
    BY Zenon DEF Init
  <2> QED BY <2>1
<1>2. TypeOK /\ Toggled /\ [Next]_vars => Toggled'
  <2> SUFFICES ASSUME TypeOK, Toggled, [Next]_vars PROVE Toggled'
    OBVIOUS
  <2>1. CASE \E s \in Servers : Toggle(s)
    BY <2>1, ToggleReports
  <2>2. CASE ~\E s \in Servers : Toggle(s)
    <3>1. UNCHANGED clusterVars
      BY <2>2 DEF Next, SetStrategy, Snapshot, Measure, Book, Refuse, vars
    <3> QED BY <3>1 DEF clusterVars, Toggled
  <2> QED BY <2>1, <2>2
<1> QED BY <1>1, <1>2, RoutingType, PTL DEF Spec

(***************************************************************************)
(* No server that is up is held back as unhealthy, whatever the thresholds *)
(* and however often it was toggled.                                       *)
(***************************************************************************)
THEOREM RoutingNobodyHeldBack == Spec => []NobodyHeldBack
<1>1. TypeOK /\ Toggled => NobodyHeldBack
  BY DEF TypeOK, Toggled, NobodyHeldBack
<1> QED BY <1>1, RoutingType, ToggledAlways, PTL

(***************************************************************************)
(* Nor is any other server, unless a single report is enough: with the     *)
(* manager's own threshold of 2 an administrator's toggles make no server  *)
(* unhealthy, although each of them is reported to it.                     *)
(***************************************************************************)
THEOREM RoutingNeverUnhealthy ==
  ASSUME Threshold # 1 PROVE Spec => [](\A s \in Servers : health[s].healthy)
<1>1. Toggled => \A s \in Servers : health[s].healthy
  BY DEF Toggled
<1> QED BY <1>1, ToggledAlways, PTL

-----------------------------------------------------------------------------
\* A nonempty set of naturals has a minimum.
LEMMA MinOfNaturals ==
  ASSUME NEW S \in SUBSET Nat, S # {}
  PROVE  Min(S) \in S /\ \A y \in S : Min(S) <= y
<1>1. PICK x \in S : \A y \in S : <<y, x>> \notin OpToRel(<, Nat)
  BY NatLessThanWellFounded, WFMin
<1>2. ASSUME NEW y \in S PROVE x <= y
  <2>1. ~(y < x)
    BY <1>1 DEF OpToRel
  <2> QED BY <2>1
<1> QED BY <1>2 DEF Min

\* What is left of a set keeps its minimum, if that is left.
LEMMA MinStays ==
  ASSUME NEW S \in SUBSET Nat, NEW T \in SUBSET S, S # {}, Min(S) \in T
  PROVE  Min(T) = Min(S)
<1>1. Min(T) \in T /\ Min(T) <= Min(S)
  BY MinOfNaturals
<1>2. Min(S) <= Min(T)
  BY <1>1, MinOfNaturals
<1>3. Min(S) \in Nat /\ Min(T) \in Nat
  BY <1>1
<1> QED BY <1>1, <1>2, <1>3

\* The search round the ring ends at a server.
LEMMA OwnerFound ==
  ASSUME NEW set \in SUBSET Servers, set # {}, NEW key \in Nat
  PROVE  Owner(key, set) \in set
<1> DEFINE ring == UNION {VNodes[t] : t \in set}
           after == {h \in ring : h >= key}
           place == Min(IF after # {} THEN after ELSE ring)
           there == {t \in set : place \in VNodes[t]}
<1>1. Owner(key, set) = Min(there)
  BY DEF Owner
<1>2. ring \subseteq Nat /\ ring # {} /\ after \subseteq ring
  BY RingAssumption
<1>3. place \in ring
  <2> HIDE DEF ring, after
  <2> QED BY <1>2, MinOfNaturals
<1>4. there # {} /\ there \subseteq set /\ there \subseteq Nat
  <2> HIDE DEF place
  <2>1. Servers \subseteq Nat
    BY NAssumption DEF Servers
  <2>2. PICK t \in set : place \in VNodes[t]
    BY <1>3
  <2> QED BY <2>1, <2>2
<1> HIDE DEF there
<1> QED BY <1>1, <1>4, MinOfNaturals

\* A server that goes moves no keys but its own.
LEMMA OthersStay ==
  ASSUME NEW set \in SUBSET Servers, NEW s \in set, NEW key \in Nat,
         set # {s}, Owner(key, set) # s
  PROVE  Owner(key, set \ {s}) = Owner(key, set)
<1> DEFINE Ring(A) == UNION {VNodes[t] : t \in A}
           After(A) == {h \in Ring(A) : h >= key}
           Place(A) == Min(IF After(A) # {} THEN After(A) ELSE Ring(A))
           At(A, p) == {t \in A : p \in VNodes[t]}
           rest == set \ {s}
           p == Place(set)
           o == Min(At(set, p))
<1>1. \A A : Owner(key, A) = Min(At(A, Place(A)))
  BY DEF Owner
<1>2. Ring(set) \subseteq Nat /\ Ring(rest) \subseteq Ring(set) /\ Ring(set) # {}
  BY RingAssumption
<1>3. /\ After(set) \subseteq Ring(set) /\ After(rest) \subseteq After(set)
      /\ \A h \in Ring(rest) : h \in After(set) => h \in After(rest)
  BY <1>2
<1>4. p \in Ring(set) /\ (After(set) # {} => p \in After(set))
  <2> HIDE DEF Ring, After
  <2> QED BY <1>2, <1>3, MinOfNaturals
<1>5. At(set, p) # {} /\ At(set, p) \subseteq Nat /\ At(rest, p) \subseteq At(set, p)
  <2> HIDE DEF p
  <2>1. Servers \subseteq Nat
    BY NAssumption DEF Servers
  <2>2. PICK t \in set : p \in VNodes[t]
    BY <1>4
  <2> QED BY <2>1, <2>2
<1>6. o \in At(set, p)
  <2> HIDE DEF At, p
  <2> QED BY <1>5, MinOfNaturals
<1>7. o # s
  BY <1>1
<1>8. o \in rest /\ o \in At(rest, p) /\ p \in Ring(rest)
  <2> HIDE DEF p, o
  <2> QED BY <1>6, <1>7
<1>9. Place(rest) = p
  <2> HIDE DEF Ring, After, o
  <2>1. CASE After(set) # {}
    <3>1. p \in After(rest)
      BY <1>3, <1>4, <1>8, <2>1
    <3> QED BY <1>2, <1>3, <2>1, <3>1, MinStays
  <2>2. CASE After(set) = {}
    BY <1>2, <1>3, <1>8, <2>2, MinStays
  <2> QED BY <2>1, <2>2
<1>10. Min(At(rest, p)) = o
  <2> HIDE DEF At, p
  <2> QED BY <1>5, <1>8, MinStays
<1> QED BY <1>1, <1>9, <1>10

(***************************************************************************)
(* The ring minimizes remapping: of the keys, those alone move whose server*)
(* has gone, wherever the virtual nodes lie.                               *)
(***************************************************************************)
THEOREM RoutingKeysStay == Spec => []KeysStay
<1>1. TypeOK => KeysStay
  BY OthersStay, KeyAssumption DEF TypeOK, KeysStay
<1> QED BY <1>1, RoutingType, PTL

-----------------------------------------------------------------------------
\* The distance from the round robin's index to a server, once round the list.
LEMMA Distance ==
  ASSUME NEW i \in 0 .. N, NEW s \in Servers
  PROVE  (s + N - i - 1) % N = IF i < s THEN s - i - 1 ELSE s + N - i - 1
<1>1. ASSUME NEW n \in Nat \ {0}, NEW x \in Nat, x < 2 * n
      PROVE  x % n = IF x < n THEN x ELSE x - n
  BY <1>1
<1>2. N \in Nat \ {0} /\ s \in 1 .. N /\ i \in 0 .. N
  BY NAssumption DEF Servers
<1>3. PICK x : x = s + N - i - 1
  OBVIOUS
<1>4. x \in Nat /\ x < 2 * N /\ (x < N <=> ~(i < s)) /\ x - N = s - i - 1
  BY <1>2, <1>3
<1>5. x % N = IF x < N THEN x ELSE x - N
  BY <1>1, <1>2, <1>4
<1>6. x % N = IF i < s THEN s - i - 1 ELSE x
  BY <1>4, <1>5
<1> QED BY <1>3, <1>6, Zenon

\* A server that has been passed over is that much nearer to its turn.
Rotating == strategy = "Round Robin"

TurnComes ==
  Rotating => \A s \in Servers : passed[s] + Ahead(s) <= N - 1

\* What is known of a server in a round.
LEMMA InRound ==
  ASSUME TypeOK, TurnComes, Rotating, NEW t \in Servers
  PROVE  /\ N \in Nat /\ N >= 1 /\ t \in 1 .. N
         /\ index \in 0 .. N /\ Ahead(t) \in 0 .. N - 1
         /\ passed[t] \in Nat /\ passed[t] + 1 \in Nat
         /\ passed[t] + Ahead(t) <= N - 1
<1>1. N \in Nat /\ N >= 1 /\ t \in 1 .. N
  BY Bounds DEF Servers
<1>2. index \in 0 .. N /\ passed[t] + 1 \in Nat /\ passed[t] \in Nat
  BY DEF TypeOK
<1>3. Ahead(t) = IF index < t THEN t - index - 1 ELSE t + N - index - 1
  BY <1>2, Distance DEF Ahead
<1>4. Ahead(t) \in 0 .. N - 1
  BY <1>1, <1>2, <1>3
<1>5. passed[t] + Ahead(t) <= N - 1
  BY DEF TurnComes
<1> QED BY <1>1, <1>2, <1>4, <1>5

\* The round robin goes to the nearest server: it comes nearer to all the others.
LEMMA RoundRobinTurns ==
  ASSUME TypeOK, TurnComes, Rotating, NEW s \in Servers, BookOn(s)
  PROVE  TurnComes'
<1>0. N \in Nat /\ N >= 1 /\ index \in 0 .. N
  BY Bounds DEF TypeOK
<1>1. /\ strategy' = strategy /\ index' = s /\ s \in online
      /\ \A t \in online : Ahead(s) <= Ahead(t)
  BY DEF BookOn, Pick, RoundRobin, Turn, WeightedRoundRobin, ConsistentHashing, Scored, Rotating
<1>2. ASSUME NEW t \in Servers
      PROVE  /\ Ahead(t) = IF index < t THEN t - index - 1 ELSE t + N - index - 1
             /\ Ahead(t)' = IF s < t THEN t - s - 1 ELSE t + N - s - 1
  BY <1>0, <1>1, Distance, Bounds DEF Ahead
<1>3. ASSUME NEW t \in Servers
      PROVE  passed'[t] + Ahead(t)' <= N - 1
  <2>1. t \in 1 .. N /\ s \in 1 .. N
    BY InRound
  <2>2. PICK i \in 0 .. N : i = index
    BY <1>0
  <2>3. PICK p \in Nat : p = passed[t] /\ p + 1 = passed[t] + 1 /\ p + 1 \in Nat
    BY InRound
  <2>4. PICK a \in Int : a = Ahead(t) /\ a = IF i < t THEN t - i - 1 ELSE t + N - i - 1
    BY <1>0, <1>2, <2>1, <2>2
  <2>5. PICK d \in 0 .. N - 1 : d = Ahead(t)' /\ d = IF s < t THEN t - s - 1 ELSE t + N - s - 1
    BY <1>0, <1>2, <2>1
  <2>6. CASE t \in online \ {s}
    <3>1. PICK q \in Nat : q = passed'[t] /\ q <= p + 1
      <4>1. strategy \in {"Round Robin", "Weighted Round Robin"}
        BY DEF Rotating
      <4>2. passed'[t] = UpTo(MaxPassed, passed[t] + 1)
        BY <2>6, <4>1 DEF BookOn
      <4>3. UpTo(MaxPassed, p + 1) \in Nat /\ UpTo(MaxPassed, p + 1) <= p + 1
        <5>1. MaxPassed \in Nat /\ p + 1 \in Nat
          BY <2>3, Bounds
        <5> QED BY <5>1, UpToBound, Zenon
      <4> QED BY <2>3, <4>2, <4>3, Zenon
    <3>2. PICK c \in Int : c = Ahead(s) /\ c = IF i < s THEN s - i - 1 ELSE s + N - i - 1
      BY <1>0, <1>2, <2>1, <2>2
    <3>3. c <= a /\ t # s /\ p + a <= N - 1
      BY <1>1, <2>3, <2>4, <2>6, <3>2, InRound
    <3>4. q + d <= N - 1
      BY <1>0, <2>1, <2>4, <2>5, <3>1, <3>2, <3>3
    <3> QED BY <2>5, <3>1, <3>4
  <2>7. CASE t \notin online \ {s}
    <3>1. passed'[t] = 0
      BY <2>7 DEF BookOn
    <3>2. 0 + d <= N - 1
      BY <1>0
    <3> QED BY <2>5, <3>1, <3>2
  <2> QED BY <2>6, <2>7
<1> QED BY <1>1, <1>3 DEF TurnComes

\* Every step keeps the turns coming.
LEMMA StepTurns ==
  ASSUME TypeOK, TurnComes, [Next]_vars
  PROVE  TurnComes'
<1>1. CASE \E name \in Strategies : SetStrategy(name)
  <2>1. index' = 0 /\ \A s \in Servers : passed'[s] = 0
    BY <1>1 DEF SetStrategy, FreshStrategy
  <2>2. ASSUME NEW s \in Servers PROVE passed'[s] + Ahead(s)' <= N - 1
    <3>1. N \in Nat /\ N >= 1 /\ s \in 1 .. N /\ 0 \in 0 .. N
      BY Bounds DEF Servers
    <3>2. Ahead(s)' = s - 0 - 1
      BY <2>1, <3>1, Distance DEF Ahead
    <3> QED BY <2>1, <3>1, <3>2
  <2> QED BY <2>2 DEF TurnComes
<1>2. CASE Book
  <2>1. PICK s \in Servers : BookOn(s)
    BY <1>2, BookPicks
  <2>2. Rotating' <=> Rotating
    BY <2>1 DEF BookOn, Rotating
  <2> QED BY <2>1, <2>2, RoundRobinTurns DEF TurnComes
<1>3. CASE ~Book /\ ~\E name \in Strategies : SetStrategy(name)
  <2>1. UNCHANGED balancerVars
    BY <1>3 DEF Next, Toggle, Snapshot, Measure, Refuse, vars
  <2> QED BY <2>1 DEF balancerVars, TurnComes, Ahead, Rotating
<1> QED BY <1>1, <1>2, <1>3

\* No two servers are equally far from their turn.
LEMMA NearestTurn ==
  ASSUME TypeOK, online # {}
  PROVE  \E s \in online : \A t \in online : Turn(t) <=> t = s
<1>1. online \in SUBSET Servers /\ index \in 0 .. N /\ N \in Nat
  BY Bounds DEF TypeOK
<1>2. ASSUME NEW s \in Servers
      PROVE  s \in 1 .. N /\ Ahead(s) = IF index < s THEN s - index - 1 ELSE s + N - index - 1
  BY <1>1, Distance DEF Ahead, Servers
<1>3. ASSUME NEW s \in Servers PROVE Ahead(s) \in Int
  BY <1>1, <1>2
<1>4. ASSUME NEW s \in Servers, NEW t \in Servers, Ahead(s) = Ahead(t)
      PROVE  s = t
  BY <1>1, <1>2, <1>4
<1>5. PICK f : f = [s \in Servers |-> -Ahead(s)]
  OBVIOUS
<1>6. f \in [Servers -> Int] /\ \A s \in Servers : f[s] = -Ahead(s)
  BY <1>3, <1>5
<1>7. PICK s \in online : \A t \in online : f[t] <= f[s]
  BY <1>1, <1>6, Greatest
<1>8. \A t \in online : Ahead(s) <= Ahead(t)
  BY <1>1, <1>3, <1>6, <1>7
<1>9. Turn(s)
  BY <1>8 DEF Turn
<1>10. ASSUME NEW t \in online, Turn(t) PROVE t = s
  <2>1. Ahead(t) <= Ahead(s)
    BY <1>10 DEF Turn
  <2>2. Ahead(t) \in Int /\ Ahead(s) \in Int /\ Ahead(s) <= Ahead(t)
    BY <1>1, <1>3, <1>8
  <2>3. Ahead(s) = Ahead(t)
    BY <2>1, <2>2
  <2> QED BY <1>1, <1>4, <2>3
<1> QED BY <1>7, <1>9, <1>10

\* Of the servers with the most, one is the first.
LEMMA FirstHeaviest ==
  ASSUME TypeOK, online # {}
  PROVE  \E s \in online : \A t \in online : Heaviest(t) <=> t = s
<1>1. online \in SUBSET Servers /\ Servers \subseteq Nat
  BY NAssumption DEF TypeOK, Servers
<1>2. Raised \in [Servers -> Int]
  BY WeightAssumption DEF TypeOK, Raised
<1>3. PICK m \in online : \A t \in online : Raised[t] <= Raised[m]
  BY <1>1, <1>2, Greatest
<1> DEFINE T == {t \in online : Raised[t] = Raised[m]}
<1>4. T \subseteq Nat /\ T # {}
  BY <1>1, <1>3
<1>5. PICK s \in T : \A t \in T : s <= t
  <2> HIDE DEF T
  <2> QED BY <1>4, MinOfNaturals
<1>6. \A t \in online : Raised[t] \in Int /\ t \in Nat
  BY <1>1, <1>2
<1>7. Heaviest(s)
  BY <1>3, <1>5, <1>6 DEF Heaviest
<1>8. ASSUME NEW t \in online, Heaviest(t) PROVE t = s
  <2>1. Raised[s] < Raised[t] \/ (Raised[s] = Raised[t] /\ t <= s)
    BY <1>8 DEF Heaviest
  <2>2. Raised[t] < Raised[s] \/ (Raised[t] = Raised[s] /\ s <= t)
    BY <1>7 DEF Heaviest
  <2> QED BY <1>6, <2>1, <2>2
<1> QED BY <1>7, <1>8

(***************************************************************************)
(* The balancer finds a server whenever one is online, for any number of   *)
(* servers, any weights and any ring, and the two rotations find one only: *)
(* "No online server is available" is never said while one is.             *)
(***************************************************************************)
THEOREM RoutingServerFound == Spec => []ServerFound
<1>1. TypeOK => ServerFound
  <2> SUFFICES ASSUME TypeOK, online # {} PROVE ServerFound
    BY DEF ServerFound
  <2>1. \A key \in KeyHashes : Owner(key, online) \in online
    BY OwnerFound, KeyAssumption DEF TypeOK
  <2>2. \E s \in online : \A t \in online : Turn(t) <=> t = s
    BY NearestTurn
  <2>3. \E s \in online : \A t \in online : Heaviest(t) <=> t = s
    BY FirstHeaviest
  <2> QED BY <2>1, <2>2, <2>3, Zenon DEF ServerFound
<1> QED BY <1>1, RoutingType, PTL

-----------------------------------------------------------------------------
(***************************************************************************)
(* The round robin starves nobody, for any number of servers: one that     *)
(* every booking could have used is passed over N - 1 times in a row at    *)
(* most, however the others come and go.                                   *)
(***************************************************************************)
THEOREM RoundRobinRotates == Spec => [](strategy = "Round Robin" => Rotates)
<1>1. Init => TurnComes
  <2> SUFFICES ASSUME Init, NEW s \in Servers PROVE passed[s] + Ahead(s) <= N - 1
    BY DEF TurnComes
  <2>1. index = 0 /\ passed[s] = 0
    BY Zenon DEF Init
  <2>2. N \in Nat /\ N >= 1 /\ s \in 1 .. N /\ 0 \in 0 .. N
    BY Bounds DEF Servers
  <2>3. Ahead(s) = s - 0 - 1
    BY <2>1, <2>2, Distance DEF Ahead
  <2> QED BY <2>1, <2>2, <2>3
<1>2. TypeOK /\ TurnComes => (Rotating => Rotates)
  <2> SUFFICES ASSUME TypeOK, TurnComes, Rotating, NEW s \in Servers
               PROVE  passed[s] <= N - 1
    BY DEF Rotates, Rotating
  <2>1. /\ N \in Nat /\ Ahead(s) \in 0 .. N - 1
        /\ passed[s] \in Nat /\ passed[s] + Ahead(s) <= N - 1
    BY InRound
  <2>2. \A p \in Nat : \A a \in 0 .. N - 1 : p + a <= N - 1 => p <= N - 1
    BY <2>1
  <2> QED BY <2>1, <2>2, Zenon
<1>3. Rotating <=> strategy = "Round Robin"
  BY DEF Rotating
<1> QED BY <1>1, <1>2, <1>3, StepTurns, RoutingType, PTL DEF Spec

-----------------------------------------------------------------------------
(***************************************************************************)
(* What the online servers gain in a weighted booking is what the server   *)
(* picked pays, and nobody else's account moves: the sum stays 0, for any  *)
(* weights and whichever servers are offline.                              *)
(***************************************************************************)
THEOREM RoutingAccountsBalance == Spec => []AccountsBalance
<1>1. Init => AccountsBalance
  <2>1. Init => current = [s \in Servers |-> 0]
    BY Zenon DEF Init
  <2> QED BY <2>1, SumZero DEF AccountsBalance
<1>2. TypeOK /\ AccountsBalance /\ [Next]_vars => AccountsBalance'
  <2> SUFFICES ASSUME TypeOK, AccountsBalance, [Next]_vars PROVE AccountsBalance'
    OBVIOUS
  <2>1. CASE \E name \in Strategies : SetStrategy(name)
    <3>1. current' = [s \in Servers |-> 0]
      BY <2>1 DEF SetStrategy, FreshStrategy
    <3> QED BY <3>1, SumZero DEF AccountsBalance
  <2>2. CASE Book
    <3>1. PICK s \in Servers : BookOn(s)
      BY <2>2, BookPicks
    <3>2. CASE ~WeightedRoundRobin(s)
      BY <3>1, <3>2 DEF BookOn, Pick, RoundRobin, ConsistentHashing, Scored, AccountsBalance
    <3>3. CASE WeightedRoundRobin(s)
      <4>1. PICK raised \in [Servers -> Int] :
              /\ \A t \in Servers : raised[t] = current[t] + (IF t \in online THEN Weight[t] ELSE 0)
              /\ current' = [raised EXCEPT ![s] = raised[s] - TotalWeight(online)]
        BY <3>1, <3>3, Accounts DEF BookOn
      <4>2. PICK w : w = [t \in Servers |-> IF t \in online THEN Weight[t] ELSE 0]
        OBVIOUS
      <4>3. w \in [Servers -> Int] /\ \A t \in Servers : raised[t] = current[t] + w[t]
        <5>1. w \in [Servers -> Int]
          BY <4>2, WeightAssumption
        <5>2. \A t \in Servers : w[t] = IF t \in online THEN Weight[t] ELSE 0
          BY <4>2
        <5> QED BY <4>1, <5>1, <5>2
      <4>4. current \in [Servers -> Int] /\ online \in SUBSET Servers /\ Servers \in SUBSET Servers
        BY DEF TypeOK
      <4>5. SumOver(raised, Servers) = SumOver(current, Servers) + SumOver(w, Servers)
        BY <4>3, <4>4, SumPlus
      <4>6. SumOver(w, Servers) = TotalWeight(online)
        BY <4>2, <4>4, WeightOf
      <4>7. PICK total \in Int : total = TotalWeight(online)
        BY <4>4, TotalWeightType
      <4>8. raised[s] \in Int /\ raised[s] - total \in Int
        BY <4>7
      <4>9. SumOver(current', Servers) = SumOver(raised, Servers) - raised[s] + (raised[s] - total)
        BY <4>1, <4>7, <4>8, SumExcept
      <4>10. SumOver(raised, Servers) = total
        <5>1. SumOver(raised, Servers) = 0 + total
          BY <4>5, <4>6, <4>7, Zenon DEF AccountsBalance
        <5> QED BY <4>7, <5>1
      <4>11. total - raised[s] + (raised[s] - total) = 0
        BY <4>7, <4>8
      <4> QED BY <4>9, <4>10, <4>11, Zenon DEF AccountsBalance
    <3> QED BY <3>2, <3>3
  <2>3. CASE ~Book /\ ~\E name \in Strategies : SetStrategy(name)
    <3>1. UNCHANGED balancerVars
      BY <2>3 DEF Next, Toggle, Snapshot, Measure, Refuse, vars
    <3> QED BY <3>1 DEF balancerVars, AccountsBalance
  <2> QED BY <2>1, <2>2, <2>3
<1> QED BY <1>1, <1>2, RoutingType, PTL DEF Spec
-----------------------------------------------------------------------------
\* The accounts of a cluster of up to three servers.

\* Sums over one, two and three servers.
LEMMA SmallSums ==
  ASSUME NEW f \in [Servers -> Int], NEW s \in Servers
  PROVE  /\ SumOver(f, {s}) = f[s]
         /\ \A t \in Servers \ {s} : SumOver(f, {s, t}) = f[s] + f[t]
         /\ \A t \in Servers \ {s}, r \in Servers \ {s} :
              r # t => SumOver(f, {s, t, r}) = f[s] + f[t] + f[r]
<1>1. SumOver(f, {s}) = f[s]
  <2>1. {} \in SUBSET Servers /\ s \in Servers \ {} /\ {} \cup {s} = {s}
    OBVIOUS
  <2>2. SumOver(f, {} \cup {s}) = SumOver(f, {}) + f[s]
    BY <2>1, SumAdd
  <2>3. SumOver(f, {s}) = 0 + f[s]
    BY <2>1, <2>2, SumEmpty, Zenon
  <2> QED BY <2>3
<1>2. ASSUME NEW t \in Servers \ {s} PROVE SumOver(f, {s, t}) = f[s] + f[t]
  <2>1. {s} \in SUBSET Servers /\ t \in Servers \ {s} /\ {s} \cup {t} = {s, t}
    OBVIOUS
  <2>2. SumOver(f, {s} \cup {t}) = SumOver(f, {s}) + f[t]
    BY <2>1, SumAdd
  <2> QED BY <1>1, <2>1, <2>2, Zenon
<1>3. ASSUME NEW t \in Servers \ {s}, NEW r \in Servers \ {s}, r # t
      PROVE  SumOver(f, {s, t, r}) = f[s] + f[t] + f[r]
  <2>1. {s, t} \in SUBSET Servers /\ r \in Servers \ {s, t} /\ {s, t} \cup {r} = {s, t, r}
    BY <1>3
  <2>2. SumOver(f, {s, t} \cup {r}) = SumOver(f, {s, t}) + f[r]
    BY <2>1, SumAdd
  <2> QED BY <1>2, <2>1, <2>2, Zenon
<1> QED BY <1>1, <1>2, <1>3

\* What a weighted booking does to each account, and why it went to s.
LEMMA WeightedStep ==
  ASSUME TypeOK, NEW s \in Servers, s \in online, WeightedRoundRobin(s)
  PROVE  /\ current'[s] = current[s] + Weight[s] - TotalWeight(online)
         /\ \A t \in Servers \ {s} :
              current'[t] = IF t \in online THEN current[t] + Weight[t] ELSE current[t]
         /\ \A t \in online : current[t] + Weight[t] <= current[s] + Weight[s]
<1>1. PICK raised :
        raised = [t \in Servers |-> IF t \in online THEN current[t] + Weight[t] ELSE current[t]]
  OBVIOUS
<1>2. /\ \A t \in online : raised[t] < raised[s] \/ (raised[t] = raised[s] /\ s <= t)
      /\ current' = [raised EXCEPT ![s] = @ - TotalWeight(online)]
  BY <1>1 DEF WeightedRoundRobin, Heaviest, Raised
<1>3. \A t \in Servers : raised[t] = IF t \in online THEN current[t] + Weight[t] ELSE current[t]
  BY <1>1
<1>4. raised \in [Servers -> Int] /\ online \subseteq Servers
  BY <1>1, WeightAssumption DEF TypeOK
<1>5. \A t \in online : raised[t] <= raised[s]
  BY <1>2, <1>4
<1>6. current' = [raised EXCEPT ![s] = raised[s] - TotalWeight(online)]
  BY <1>2
<1>7. current'[s] = raised[s] - TotalWeight(online) /\ \A t \in Servers \ {s} : current'[t] = raised[t]
  BY <1>4, <1>6
<1>8. s \in online /\ raised[s] = current[s] + Weight[s]
  BY <1>3
<1>9. \A t \in online : current[t] + Weight[t] <= current[s] + Weight[s]
  BY <1>3, <1>4, <1>5, <1>8
<1>10. current'[s] = current[s] + Weight[s] - TotalWeight(online)
  <2>1. PICK total \in Nat : total = TotalWeight(online)
    BY <1>4, TotalWeightType
  <2>2. current'[s] = raised[s] - total
    BY <1>7, <2>1
  <2>3. current[s] \in Int /\ Weight[s] \in Int /\ raised[s] \in Int
    BY <1>4, WeightAssumption DEF TypeOK
  <2>4. current'[s] = current[s] + Weight[s] - total
    BY <1>8, <2>2, <2>3
  <2> QED BY <2>1, <2>4
<1> QED BY <1>3, <1>7, <1>9, <1>10

-----------------------------------------------------------------------------
\* The accounts of a cluster of any size.

\* As many times as much, of the smaller of two numbers, is the smaller one.
LEMMA Cancel ==
  ASSUME NEW a \in Int, NEW b \in Int, NEW j \in Nat, (1 + j) * a <= (1 + j) * b
  PROVE  a <= b
<1> SUFFICES ASSUME b < a PROVE FALSE
  OBVIOUS
<1>1. PICK d \in Nat : a = b + 1 + d
  <2>1. a - b - 1 \in Nat /\ a = b + 1 + (a - b - 1)
    OBVIOUS
  <2> QED BY <2>1
<1>2. (1 + j) * a = (1 + j) * b + (1 + j) + (1 + j) * d
  BY <1>1
<1>3. (1 + j) * d >= 0
  OBVIOUS
<1>4. (1 + j) * a \in Int /\ (1 + j) * b \in Int
  OBVIOUS
<1> QED BY <1>2, <1>3, <1>4

\* Of a group of k of n servers j are online, and gain v together.  With y owed to
\* the others of the group, z to those j, and c to the server picked instead, whose
\* weight is w: the group stays within the limit if its offline part was, if it was
\* together with the server picked, and if each of the j has no more than that one.
LEMMA GroupBound ==
  ASSUME NEW n \in Int, NEW M \in Int, NEW k \in Nat, NEW j \in Nat,
         NEW y \in Int, NEW z \in Int, NEW c \in Int, NEW v \in Int, NEW w \in Int,
         y <= (k - j) * (n - (k - j)) * M,
         y + z + c <= (k + 1) * (n - (k + 1)) * M,
         z + v <= j * (c + w), v <= j * M, w <= M
  PROVE  y + z + v <= k * (n - k) * M
<1>1. PICK L1 \in Int : L1 = (k - j) * (n - (k - j)) * M
  OBVIOUS
<1>2. PICK L2 \in Int : L2 = (k + 1) * (n - (k + 1)) * M
  OBVIOUS
<1>3. PICK L \in Int : L = k * (n - k) * M
  OBVIOUS
<1>4. j * (y + z + c) <= j * L2
  BY <1>2
<1>5. j * w <= j * M /\ j * v <= j * (j * M)
  OBVIOUS
<1>6. (1 + j) * (y + z + v) <= L1 + j * L2 + j * M + j * (j * M)
  <2>1. y <= L1
    BY <1>1
  <2>2. (1 + j) * (y + z + v) = y + (z + v) + j * (y + z) + j * v
    OBVIOUS
  <2>3. j * (y + z + c) = j * (y + z) + j * c
    OBVIOUS
  <2>4. j * (c + w) = j * c + j * w
    OBVIOUS
  <2>5. PICK jx \in Int, jc \in Int, jv \in Int, jw \in Int, jl \in Int, jm \in Int, jjm \in Int :
          /\ jx = j * (y + z) /\ jc = j * c /\ jv = j * v /\ jw = j * w
          /\ jl = j * L2 /\ jm = j * M /\ jjm = j * (j * M)
    OBVIOUS
  <2>6. jx + jc <= jl /\ jw <= jm /\ jv <= jjm /\ z + v <= jc + jw
    BY <1>4, <1>5, <2>3, <2>4, <2>5
  <2>7. y + (z + v) + jx + jv <= L1 + jl + jm + jjm
    BY <2>1, <2>6
  <2> QED BY <2>2, <2>5, <2>7
<1>7. L1 + j * L2 + j * M + j * (j * M) = (1 + j) * L
  BY <1>1, <1>2, <1>3
<1>8. (1 + j) * (y + z + v) <= (1 + j) * L
  BY <1>6, <1>7
<1>9. y + z + v <= L
  BY <1>8, Cancel
<1> QED BY <1>3, <1>9

\* Sizes of groups.
LEMMA GroupSize ==
  ASSUME NEW A \in SUBSET Servers
  PROVE  /\ Cardinality(A) \in 0 .. N /\ Cardinality(Servers) = N
         /\ Cardinality(Servers \ A) = N - Cardinality(A)
         /\ \A B \in SUBSET A : /\ Cardinality(B) \in 0 .. N
                                /\ Cardinality(A \ B) = Cardinality(A) - Cardinality(B)
         /\ \A s \in Servers \ A : Cardinality(A \cup {s}) = Cardinality(A) + 1
<1>1. IsFiniteSet(Servers) /\ Cardinality(Servers) = N /\ N \in Nat
  BY NAssumption, FS_Interval DEF Servers
<1>2. ASSUME NEW B \in SUBSET Servers PROVE IsFiniteSet(B) /\ Cardinality(B) \in 0 .. N
  BY <1>1, FS_Subset, FS_CardinalityType
<1>3. ASSUME NEW B \in SUBSET Servers, NEW C \in SUBSET B
      PROVE  Cardinality(B \ C) = Cardinality(B) - Cardinality(C)
  <2>1. B \cap C = C
    OBVIOUS
  <2>2. Cardinality(B \ C) = Cardinality(B) - Cardinality(B \cap C)
    BY <1>2, FS_Difference
  <2> QED BY <2>1, <2>2
<1>4. ASSUME NEW s \in Servers \ A PROVE Cardinality(A \cup {s}) = Cardinality(A) + 1
  BY <1>2, FS_AddElement
<1> QED BY <1>1, <1>2, <1>3, <1>4

\* The limit of a group is a number, and none is below 0.
LEMMA LimitType ==
  ASSUME NEW A \in SUBSET Servers
  PROVE  GroupLimit(Cardinality(A)) \in Nat
<1>1. Cardinality(A) \in 0 .. N
  BY GroupSize
<1>2. N \in Nat
  BY NAssumption
<1>3. PICK k \in Nat, n \in Nat : k = Cardinality(A) /\ n = N /\ k <= n
  BY <1>1, <1>2
<1>4. PICK M \in Nat : M = MaxWeight
  BY MaxWeightType
<1>5. PICK m \in Nat : m = n - k
  BY <1>3
<1>6. k * m \in Nat
  OBVIOUS
<1>7. (k * m) * M \in Nat
  BY <1>6
<1>8. GroupLimit(Cardinality(A)) = (k * m) * M
  BY <1>3, <1>4, <1>5 DEF GroupLimit
<1> QED BY <1>7, <1>8

\* What a weighted booking adds to a group that it passes over.
LEMMA PassedOver ==
  ASSUME TypeOK, NEW s \in Servers, s \in online, WeightedRoundRobin(s),
         NEW A \in SUBSET Servers, s \notin A
  PROVE  /\ SumOver(current', A \ online) = SumOver(current, A \ online)
         /\ SumOver(current', A \cap online) =
              SumOver(current, A \cap online) + TotalWeight(A \cap online)
         /\ SumOver(current', A) = SumOver(current, A) + TotalWeight(A \cap online)
<1> DEFINE P == A \ online
           B == A \cap online
<1>1. P \in SUBSET Servers /\ B \in SUBSET Servers /\ P \cap B = {} /\ P \cup B = A
  OBVIOUS
<1>2. /\ \A t \in P : current'[t] = current[t]
      /\ \A t \in B : current'[t] = current[t] + Weight[t]
  BY WeightedStep
<1>3. /\ current \in [Servers -> Int] /\ current' \in [Servers -> Int]
      /\ Weight \in [Servers -> Int]
  BY Accounts, WeightAssumption DEF TypeOK
<1> HIDE DEF P, B
<1>4. SumOver(current', P) = SumOver(current, P)
  BY <1>2, SumSame
<1>5. SumOver(current', B) = SumOver(current, B) + TotalWeight(B)
  BY <1>1, <1>2, <1>3, SumGain DEF TotalWeight
<1>6. /\ SumOver(current', P \cup B) = SumOver(current', P) + SumOver(current', B)
      /\ SumOver(current, P \cup B) = SumOver(current, P) + SumOver(current, B)
  BY <1>1, <1>3, SumSplit
<1>7. PICK x \in Int, y \in Int, v \in Nat :
        x = SumOver(current, P) /\ y = SumOver(current, B) /\ v = TotalWeight(B)
  BY <1>1, <1>3, SumType, TotalWeightType
<1>8. SumOver(current', A) = x + (y + v) /\ SumOver(current, A) = x + y
  BY <1>1, <1>4, <1>5, <1>6, <1>7, Zenon
<1>9. SumOver(current', A) = SumOver(current, A) + TotalWeight(B)
  BY <1>7, <1>8
<1> QED BY <1>4, <1>5, <1>9 DEF P, B

\* A larger group is no lighter.
LEMMA HeavierGroup ==
  ASSUME NEW A \in SUBSET Servers, NEW B \in SUBSET A
  PROVE  TotalWeight(B) <= TotalWeight(A)
<1>1. /\ B \in SUBSET Servers /\ A \ B \in SUBSET Servers
      /\ B \cap (A \ B) = {} /\ B \cup (A \ B) = A /\ Weight \in [Servers -> Int]
  BY WeightAssumption
<1>2. SumOver(Weight, B \cup (A \ B)) = SumOver(Weight, B) + SumOver(Weight, A \ B)
  BY <1>1, SumSplit
<1>3. PICK x \in Nat, y \in Nat : x = TotalWeight(B) /\ y = TotalWeight(A \ B)
  BY <1>1, TotalWeightType
<1>4. TotalWeight(A) = x + y
  BY <1>1, <1>2, <1>3, Zenon DEF TotalWeight
<1> QED BY <1>3, <1>4

\* No group is owed more than its limit.
GroupsOwed ==
  \A set \in SUBSET Servers : SumOver(current, set) <= GroupLimit(Cardinality(set))

\* The group of the server picked is owed no more than before: it gains what its
\* own servers weigh and pays for all.
LEMMA PickedGroup ==
  ASSUME TypeOK, GroupsOwed, NEW s \in Servers, s \in online, WeightedRoundRobin(s),
         NEW A \in SUBSET Servers, s \in A
  PROVE  SumOver(current', A) <= GroupLimit(Cardinality(A))
<1> DEFINE R == A \ {s}
           B == R \cap online
<1>1. /\ R \in SUBSET Servers /\ s \in Servers \ R /\ R \cup {s} = A
      /\ B \in SUBSET Servers /\ s \in Servers \ B /\ B \cup {s} \in SUBSET online
      /\ online \in SUBSET Servers
  BY DEF TypeOK
<1>2. /\ current \in [Servers -> Int] /\ current' \in [Servers -> Int]
      /\ Weight \in [Servers -> Int] /\ s \notin R
  BY <1>1, Accounts, WeightAssumption DEF TypeOK
<1>3. SumOver(current', R) = SumOver(current, R) + TotalWeight(B)
  BY <1>1, <1>2, PassedOver
<1> HIDE DEF R, B
<1>4. /\ SumOver(current', A) = SumOver(current', R) + current'[s]
      /\ SumOver(current, A) = SumOver(current, R) + current[s]
  BY <1>1, <1>2, SumAdd
<1>5. TotalWeight(B \cup {s}) = TotalWeight(B) + Weight[s]
  BY <1>1, <1>2, SumAdd DEF TotalWeight
<1>6. TotalWeight(B \cup {s}) <= TotalWeight(online)
  BY <1>1, HeavierGroup
<1>7. current'[s] = current[s] + Weight[s] - TotalWeight(online)
  BY WeightedStep
<1>8. PICK x \in Int, b \in Nat, c \in Int, w \in Int, all \in Nat :
        /\ x = SumOver(current, R) /\ b = TotalWeight(B) /\ c = current[s]
        /\ w = Weight[s] /\ all = TotalWeight(online)
  BY <1>1, <1>2, SumType, TotalWeightType
<1>9. /\ SumOver(current', A) = (x + b) + (c + w - all) /\ SumOver(current, A) = x + c
      /\ b + w <= all
  BY <1>3, <1>4, <1>5, <1>6, <1>7, <1>8
<1>10. SumOver(current', A) <= SumOver(current, A) /\ SumOver(current', A) \in Int
       /\ SumOver(current, A) \in Int
  BY <1>9
<1>11. SumOver(current, A) <= GroupLimit(Cardinality(A))
  BY DEF GroupsOwed
<1>12. GroupLimit(Cardinality(A)) \in Int
  BY LimitType
<1> QED BY <1>10, <1>11, <1>12

\* A group that is passed over had less than the server picked.
LEMMA PassedGroup ==
  ASSUME TypeOK, GroupsOwed, NEW s \in Servers, s \in online, WeightedRoundRobin(s),
         NEW A \in SUBSET Servers, s \notin A
  PROVE  SumOver(current', A) <= GroupLimit(Cardinality(A))
<1> DEFINE P == A \ online
           B == A \cap online
<1>1. /\ P \in SUBSET Servers /\ B \in SUBSET Servers /\ B \in SUBSET A
      /\ P \cap B = {} /\ P \cup B = A /\ A \ B = P
      /\ s \in Servers \ A /\ A \cup {s} \in SUBSET Servers
  OBVIOUS
<1>2. /\ current \in [Servers -> Int] /\ current' \in [Servers -> Int]
      /\ Weight \in [Servers -> Int]
  BY Accounts, WeightAssumption DEF TypeOK
<1>3. PICK M \in Nat : M = MaxWeight /\ \A t \in Servers : Weight[t] <= M
  BY MaxWeightType
<1>4. PICK k \in Nat, j \in Nat :
        /\ k = Cardinality(A) /\ j = Cardinality(B)
        /\ Cardinality(P) = k - j /\ Cardinality(A \cup {s}) = k + 1
  <2>1. Cardinality(A) \in Nat /\ Cardinality(B) \in Nat
    <3>1. Cardinality(A) \in 0 .. N /\ Cardinality(B) \in 0 .. N
      BY <1>1, GroupSize
    <3> QED BY <3>1, NAssumption
  <2>2. Cardinality(P) = Cardinality(A) - Cardinality(B)
    BY <1>1, GroupSize
  <2>3. Cardinality(A \cup {s}) = Cardinality(A) + 1
    BY <1>1, GroupSize
  <2> QED BY <2>1, <2>2, <2>3
<1>5. PICK y \in Int, z \in Int, c \in Int, v \in Int, w \in Int :
        /\ y = SumOver(current, P) /\ z = SumOver(current, B) /\ c = current[s]
        /\ v = TotalWeight(B) /\ w = Weight[s]
  <2>1. SumOver(current, P) \in Int /\ SumOver(current, B) \in Int
    BY <1>1, <1>2, SumType
  <2>2. TotalWeight(B) \in Int
    BY <1>1, TotalWeightType
  <2>3. current[s] \in Int /\ Weight[s] \in Int
    BY <1>2
  <2> QED BY <2>1, <2>2, <2>3
<1>6. /\ SumOver(current', P) = y /\ SumOver(current', B) = z + v
  BY <1>5, PassedOver
<1>7. B \subseteq online /\ \A t \in B : current'[t] = current[t] + Weight[t]
  BY <1>1, WeightedStep
<1> HIDE DEF P, B
<1>8. /\ SumOver(current, A) = y + z
      /\ SumOver(current, A \cup {s}) = y + z + c
      /\ SumOver(current', A) = y + (z + v)
  <2>1. SumOver(current, P \cup B) = y + z /\ SumOver(current', P \cup B) = y + (z + v)
    BY <1>1, <1>2, <1>5, <1>6, SumSplit
  <2>2. SumOver(current, A \cup {s}) = SumOver(current, A) + current[s]
    BY <1>1, <1>2, SumAdd
  <2> QED BY <1>1, <1>5, <2>1, <2>2
<1>9. y <= (k - j) * (N - (k - j)) * M /\ y + z + c <= (k + 1) * (N - (k + 1)) * M
  <2>1. y <= GroupLimit(k - j)
    BY <1>1, <1>4, <1>5 DEF GroupsOwed
  <2>2. y + z + c <= GroupLimit(k + 1)
    BY <1>1, <1>4, <1>8 DEF GroupsOwed
  <2> QED BY <1>3, <2>1, <2>2 DEF GroupLimit
<1>10. z + v <= j * (c + w)
  <2>1. \A t \in B : current'[t] <= c + w
    BY <1>5, <1>7, WeightedStep
  <2>2. SumOver(current', B) <= Cardinality(B) * (c + w)
    BY <1>1, <1>2, <2>1, SumAtMost
  <2> QED BY <1>4, <1>6, <2>2
<1>11. v <= j * M
  <2>1. \A t \in B : Weight[t] <= M
    BY <1>1, <1>3
  <2>2. SumOver(Weight, B) <= Cardinality(B) * M
    BY <1>1, <1>2, <2>1, SumAtMost
  <2> QED BY <1>4, <1>5, <2>2 DEF TotalWeight
<1>12. w <= M /\ N \in Int
  BY <1>3, <1>5, NAssumption
<1>13. y + z + v <= k * (N - k) * M
  BY <1>9, <1>10, <1>11, <1>12, GroupBound
<1>14. y + (z + v) = y + z + v
  OBVIOUS
<1> QED BY <1>3, <1>4, <1>8, <1>13, <1>14 DEF GroupLimit

\* Nobody is owed anything.
LEMMA FreshGroups ==
  ASSUME NEW A \in SUBSET Servers
  PROVE  SumOver([s \in Servers |-> 0], A) <= GroupLimit(Cardinality(A))
<1>1. SumOver([s \in Servers |-> 0], A) = 0
  BY SumZero
<1> QED BY <1>1, LimitType

\* Every step keeps the groups within their limits.
LEMMA StepGroups ==
  ASSUME TypeOK, GroupsOwed, [Next]_vars
  PROVE  GroupsOwed'
<1>1. CASE \E name \in Strategies : SetStrategy(name)
  <2>1. current' = [s \in Servers |-> 0]
    BY <1>1 DEF SetStrategy, FreshStrategy
  <2> QED BY <2>1, FreshGroups DEF GroupsOwed
<1>2. CASE Book
  <2>1. PICK s \in Servers : BookOn(s)
    BY <1>2, BookPicks
  <2>2. CASE WeightedRoundRobin(s)
    BY <2>1, <2>2, PickedGroup, PassedGroup DEF BookOn, GroupsOwed
  <2>3. CASE ~WeightedRoundRobin(s)
    BY <2>1, <2>3 DEF BookOn, Pick, RoundRobin, ConsistentHashing, Scored, GroupsOwed
  <2> QED BY <2>2, <2>3
<1>3. CASE ~Book /\ ~\E name \in Strategies : SetStrategy(name)
  <2>1. UNCHANGED balancerVars
    BY <1>3 DEF Next, Toggle, Snapshot, Measure, Refuse, vars
  <2> QED BY <2>1 DEF balancerVars, GroupsOwed
<1> QED BY <1>1, <1>2, <1>3

\* What a group is owed and what the others owe is the same.
GroupsBalance ==
  \A set \in SUBSET Servers :
    SumOver(current, set) \in -GroupLimit(Cardinality(set)) .. GroupLimit(Cardinality(set))

LEMMA BothSides ==
  ASSUME TypeOK, AccountsBalance, GroupsOwed
  PROVE  GroupsBalance
<1> SUFFICES ASSUME NEW A \in SUBSET Servers
             PROVE  SumOver(current, A) \in -GroupLimit(Cardinality(A)) .. GroupLimit(Cardinality(A))
  BY DEF GroupsBalance
<1>1. /\ current \in [Servers -> Int] /\ Servers \ A \in SUBSET Servers
      /\ A \cap (Servers \ A) = {} /\ A \cup (Servers \ A) = Servers
  BY DEF TypeOK
<1>2. SumOver(current, Servers) = SumOver(current, A) + SumOver(current, Servers \ A)
  BY <1>1, SumSplit
<1>3. PICK x \in Int, y \in Int : x = SumOver(current, A) /\ y = SumOver(current, Servers \ A)
  BY <1>1, SumType
<1>4. x + y = 0
  BY <1>2, <1>3, Zenon DEF AccountsBalance
<1>5. PICK k \in Nat, n \in Nat, M \in Nat :
        k = Cardinality(A) /\ n = N /\ Cardinality(Servers \ A) = n - k /\ M = MaxWeight
  BY GroupSize, NAssumption, MaxWeightType
<1>6. x <= k * (n - k) * M /\ y <= (n - k) * (n - (n - k)) * M
  BY <1>1, <1>3, <1>5 DEF GroupsOwed, GroupLimit
<1>7. PICK L \in Int : L = k * (n - k) * M /\ L = (n - k) * (n - (n - k)) * M
  OBVIOUS
<1>8. x \in -L .. L
  BY <1>4, <1>6, <1>7
<1> QED BY <1>3, <1>5, <1>7, <1>8 DEF GroupLimit

(***************************************************************************)
(* However many servers there are, whatever they weigh and however they    *)
(* come and go: k of N of them are never owed more than k * (N - k) times  *)
(* the heaviest weight, and never owe more.  Of one server alone that is   *)
(* its worst backlog.                                                      *)
(***************************************************************************)
THEOREM RoutingGroupsBalance == Spec => []GroupsBalance
<1>1. Init => GroupsOwed
  <2>1. Init => current = [s \in Servers |-> 0]
    BY Zenon DEF Init
  <2> QED BY <2>1, FreshGroups DEF GroupsOwed
<1>2. TypeOK /\ GroupsOwed /\ [Next]_vars => GroupsOwed'
  BY StepGroups
<1>3. TypeOK /\ AccountsBalance /\ GroupsOwed => GroupsBalance
  BY BothSides
<1> QED BY <1>1, <1>2, <1>3, RoutingType, RoutingAccountsBalance, PTL DEF Spec
-----------------------------------------------------------------------------
\* How long the weighted rotation keeps anybody waiting.

\* A weighted booking adds to the account of whoever it passes over as much as
\* one more turn counts, so that the turns missed stay within the account and
\* whatever the account may be below 0.
LEMMA OneMoreTurn ==
  ASSUME TypeOK, NEW s \in Servers, BookOn(s), WeightedRoundRobin(s),
         NEW t \in Servers, NEW L \in Int,
         passed[t] * Weight[t] <= current[t] + L, 0 <= current'[t] + L
  PROVE  passed'[t] * Weight[t] <= current'[t] + L
<1>1. PICK w \in Nat : w = Weight[t]
  BY WeightAssumption
<1>2. s \in online /\ strategy = "Weighted Round Robin"
  BY DEF BookOn, WeightedRoundRobin
<1>3. PICK new \in Int : new = current'[t] /\ 0 <= new + L
  BY <1>2, Accounts
<1>4. CASE t \in online \ {s}
  <2>1. PICK old \in Int, p \in Nat : old = current[t] /\ p = passed[t]
    BY DEF TypeOK
  <2>2. p * w <= old + L
    BY <1>1, <2>1, Zenon
  <2>3. new = old + w
    BY <1>1, <1>2, <1>3, <1>4, <2>1, WeightedStep
  <2>4. PICK q \in Nat : q = passed'[t] /\ q <= p + 1
    <3>1. passed'[t] = UpTo(MaxPassed, p + 1)
      BY <1>2, <1>4, <2>1 DEF BookOn
    <3>2. UpTo(MaxPassed, p + 1) \in Nat /\ UpTo(MaxPassed, p + 1) <= p + 1
      <4>1. MaxPassed \in Nat /\ p + 1 \in Nat
        BY Bounds
      <4> QED BY <4>1, UpToBound, Zenon
    <3> QED BY <3>1, <3>2, Zenon
  <2>5. q * w <= p * w + w
    <3>1. q * w <= (p + 1) * w
      BY <2>4
    <3> QED BY <3>1
  <2>6. q * w <= new + L
    BY <2>2, <2>3, <2>5
  <2> QED BY <1>1, <1>3, <2>4, <2>6, Zenon
<1>5. CASE t \notin online \ {s}
  <2>1. passed'[t] = 0
    BY <1>5 DEF BookOn
  <2>2. 0 * w <= new + L
    BY <1>3
  <2> QED BY <1>1, <1>3, <2>1, <2>2, Zenon
<1> QED BY <1>4, <1>5

\* What one server may be owed or owe: its limit as a group of its own.
LEMMA OneInLimit ==
  ASSUME TypeOK, GroupsBalance, NEW t \in Servers
  PROVE  /\ (N - 1) * MaxWeight \in Nat
         /\ current[t] \in -((N - 1) * MaxWeight) .. (N - 1) * MaxWeight
<1>1. PICK n \in Nat, M \in Nat : n = N - 1 /\ M = MaxWeight
  BY NAssumption, MaxWeightType
<1>2. PICK L \in Nat : L = n * M
  OBVIOUS
<1>3. {t} \in SUBSET Servers /\ Cardinality({t}) = 1
  BY FS_Singleton
<1>4. SumOver(current, {t}) = current[t]
  <2>1. {} \in SUBSET Servers /\ t \in Servers \ {} /\ {} \cup {t} = {t}
        /\ current \in [Servers -> Int]
    BY DEF TypeOK
  <2>2. SumOver(current, {} \cup {t}) = SumOver(current, {}) + current[t]
    BY <2>1, SumAdd
  <2>3. SumOver(current, {t}) = 0 + current[t]
    BY <2>1, <2>2, SumEmpty, Zenon
  <2>4. current[t] \in Int
    BY <2>1
  <2> QED BY <2>3, <2>4
<1>5. GroupLimit(1) = L
  BY <1>1, <1>2 DEF GroupLimit
<1>6. current[t] \in -L .. L
  BY <1>3, <1>4, <1>5, Zenon DEF GroupsBalance
<1> QED BY <1>1, <1>2, <1>6, Zenon

\* What the limits of groups say of each server.
OneLimited ==
  \A t \in Servers : current[t] \in -((N - 1) * MaxWeight) .. (N - 1) * MaxWeight

Weighting == strategy = "Weighted Round Robin"

\* The turns that anybody misses are paid for by its account.
TurnsOwed ==
  Weighting => \A t \in Servers : passed[t] * Weight[t] <= current[t] + (N - 1) * MaxWeight

\* Nobody has missed a turn when a strategy is new.
LEMMA FreshTurns ==
  ASSUME TypeOK, GroupsBalance,
         \A t \in Servers : current[t] = 0 /\ passed[t] = 0
  PROVE  TurnsOwed
<1> SUFFICES ASSUME NEW t \in Servers
             PROVE  passed[t] * Weight[t] <= current[t] + (N - 1) * MaxWeight
  BY DEF TurnsOwed
<1>1. PICK L \in Nat, w \in Nat : L = (N - 1) * MaxWeight /\ w = Weight[t]
  BY OneInLimit, WeightAssumption
<1>2. 0 * w <= 0 + L
  BY <1>1
<1> QED BY <1>1, <1>2, Zenon

\* Every step keeps what is owed in proportion to the turns missed.
LEMMA StepTurnsOwed ==
  ASSUME TypeOK, GroupsBalance, OneLimited', TurnsOwed, [Next]_vars
  PROVE  TurnsOwed'
<1>1. CASE \E name \in Strategies : SetStrategy(name)
  <2>1. \A t \in Servers : current'[t] = 0 /\ passed'[t] = 0
    BY <1>1 DEF SetStrategy, FreshStrategy
  <2> SUFFICES ASSUME NEW t \in Servers
               PROVE  passed'[t] * Weight[t] <= current'[t] + (N - 1) * MaxWeight
    BY DEF TurnsOwed
  <2>2. PICK L \in Nat, w \in Nat : L = (N - 1) * MaxWeight /\ w = Weight[t]
    BY OneInLimit, WeightAssumption
  <2>3. 0 * w <= 0 + L
    BY <2>2
  <2> QED BY <2>1, <2>2, <2>3, Zenon
<1>2. CASE Book
  <2>1. PICK s \in Servers : BookOn(s)
    BY <1>2, BookPicks
  <2>2. CASE WeightedRoundRobin(s)
    <3>1. strategy = "Weighted Round Robin" /\ s \in online
      BY <2>1, <2>2 DEF BookOn, WeightedRoundRobin
    <3> SUFFICES ASSUME NEW t \in Servers
                 PROVE  passed'[t] * Weight[t] <= current'[t] + (N - 1) * MaxWeight
      BY DEF TurnsOwed
    <3>2. PICK L \in Nat : L = (N - 1) * MaxWeight
      BY OneInLimit
    <3>3. passed[t] * Weight[t] <= current[t] + L
      BY <3>1, <3>2, Zenon DEF TurnsOwed, Weighting
    <3>4. 0 <= current'[t] + L
      <4>1. current'[t] \in -L .. L
        BY <3>2, Zenon DEF OneLimited
      <4> QED BY <4>1
    <3>5. passed'[t] * Weight[t] <= current'[t] + L
      BY <2>1, <2>2, <3>2, <3>3, <3>4, OneMoreTurn
    <3> QED BY <3>2, <3>5, Zenon
  <2>3. CASE ~WeightedRoundRobin(s)
    <3>1. strategy # "Weighted Round Robin" /\ strategy' = strategy
      BY <2>1, <2>3 DEF BookOn, Pick, RoundRobin, ConsistentHashing, Scored
    <3> QED BY <3>1 DEF TurnsOwed, Weighting
  <2> QED BY <2>2, <2>3
<1>3. CASE ~Book /\ ~\E name \in Strategies : SetStrategy(name)
  <2>1. UNCHANGED balancerVars
    BY <1>3 DEF Next, Toggle, Snapshot, Measure, Refuse, vars
  <2>2. strategy' = strategy /\ current' = current /\ passed' = passed
    BY <2>1 DEF balancerVars
  <2> QED BY <2>2, Zenon DEF TurnsOwed, Weighting
<1> QED BY <1>1, <1>2, <1>3

\* From the most that a server may owe to the most that it may be owed.
WaitsBounded ==
  Weighting => \A t \in Servers : passed[t] * Weight[t] <= 2 * (N - 1) * MaxWeight

LEMMA TurnsOwedBounded ==
  ASSUME TypeOK, GroupsBalance, TurnsOwed
  PROVE  WaitsBounded
<1> SUFFICES ASSUME Weighting, NEW t \in Servers
             PROVE  passed[t] * Weight[t] <= 2 * (N - 1) * MaxWeight
  BY DEF WaitsBounded
<1>1. PICK n \in Nat, M \in Nat : n = N - 1 /\ M = MaxWeight
  BY NAssumption, MaxWeightType
<1>2. PICK L \in Nat, owed \in Int, turns \in Nat :
        /\ L = (N - 1) * MaxWeight /\ owed = current[t] /\ owed <= L
        /\ turns = passed[t] * Weight[t]
  <2>1. (N - 1) * MaxWeight \in Nat /\ current[t] \in -((N - 1) * MaxWeight) .. (N - 1) * MaxWeight
    BY OneInLimit
  <2>2. PICK p \in Nat, w \in Nat : p = passed[t] /\ w = Weight[t]
    BY WeightAssumption DEF TypeOK
  <2>3. p * w \in Nat
    OBVIOUS
  <2> QED BY <2>1, <2>2, <2>3
<1>3. turns <= owed + L
  BY <1>2, Zenon DEF TurnsOwed
<1>4. turns <= L + L
  BY <1>2, <1>3
<1>5. 2 * n * M = L + L
  BY <1>1, <1>2
<1> QED BY <1>1, <1>2, <1>4, <1>5

(***************************************************************************)
(* In a cluster of any size, for any weights and however the servers come  *)
(* and go, the weighted rotation passes a server over at most as often as  *)
(* its weight goes into twice the heaviest weight for every other server:  *)
(* WaitsBounded is invariant, so that no server is starved.                *)
(***************************************************************************)
THEOREM RoutingWaitsBounded == Spec => []WaitsBounded
<1>1. Init /\ TypeOK /\ GroupsBalance => TurnsOwed
  <2>1. Init => \A t \in Servers : current[t] = 0 /\ passed[t] = 0
    BY Zenon DEF Init
  <2> QED BY <2>1, FreshTurns
<1>2. TypeOK /\ GroupsBalance => OneLimited
  BY OneInLimit DEF OneLimited
<1>3. TypeOK /\ GroupsBalance /\ OneLimited' /\ TurnsOwed /\ [Next]_vars => TurnsOwed'
  BY StepTurnsOwed
<1>4. TypeOK /\ GroupsBalance /\ TurnsOwed => WaitsBounded
  BY TurnsOwedBounded
<1> QED BY <1>1, <1>2, <1>3, <1>4, RoutingType, RoutingGroupsBalance, PTL DEF Spec

-----------------------------------------------------------------------------
\* The accounts of a cluster of up to three servers, once more.
Bounded ==
  \A s \in Servers : current[s] \in -TotalWeight(Servers) + 1 .. TotalWeight(Servers) - 1

\* Every server has some weight, so that nothing is within the bounds.
LEMMA ZeroBounded == 0 \in -TotalWeight(Servers) + 1 .. TotalWeight(Servers) - 1
<1>1. PICK W \in Nat : W = TotalWeight(Servers)
  BY TotalWeightType
<1>2. W # 0
  <2>1. 1 \in Servers /\ Servers \in SUBSET Servers
    BY NAssumption DEF Servers
  <2>2. Servers \ {1} \in SUBSET Servers /\ 1 \in Servers \ (Servers \ {1})
        /\ (Servers \ {1}) \cup {1} = Servers /\ Weight \in [Servers -> Int]
    BY <2>1, WeightAssumption
  <2>3. SumOver(Weight, (Servers \ {1}) \cup {1}) = SumOver(Weight, Servers \ {1}) + Weight[1]
    BY <2>2, SumAdd
  <2>4. PICK V \in Nat : V = TotalWeight(Servers \ {1})
    BY <2>2, TotalWeightType
  <2>5. W = V + Weight[1]
    BY <1>1, <2>2, <2>3, <2>4, Zenon DEF TotalWeight
  <2>6. Weight[1] \in Nat /\ Weight[1] # 0
    BY <2>1, WeightAssumption
  <2> QED BY <2>4, <2>5, <2>6
<1>3. 0 \in -W + 1 .. W - 1
  BY <1>2
<1> QED BY <1>1, <1>3, Zenon

\* Beside two servers stands a third or nobody, who keeps the sums.
LEMMA TheRest ==
  ASSUME N <= 3, TypeOK, AccountsBalance, NEW s \in Servers, NEW t \in Servers \ {s}
  PROVE  \/ /\ Servers = {s, t}
            /\ current[s] + current[t] = 0
            /\ Weight[s] + Weight[t] = TotalWeight(Servers)
         \/ \E r \in Servers \ {s, t} :
              /\ Servers = {s, t, r}
              /\ current[s] + current[t] + current[r] = 0
              /\ Weight[s] + Weight[t] + Weight[r] = TotalWeight(Servers)
<1>1. current \in [Servers -> Int] /\ Weight \in [Servers -> Int]
  BY WeightAssumption DEF TypeOK
<1>2. Servers = {s, t} \/ \E r \in Servers \ {s, t} : Servers = {s, t, r}
  <2>1. N = 1 \/ N = 2 \/ N = 3
    BY NAssumption
  <2>2. Servers = {1} \/ Servers = {1, 2} \/ Servers = {1, 2, 3}
    BY <2>1 DEF Servers
  <2>3. CASE Servers = {1}
    BY <2>3
  <2>4. CASE Servers = {1, 2}
    BY <2>4
  <2>5. CASE Servers = {1, 2, 3}
    <3>1. PICK r \in Servers : r # s /\ r # t
      BY <2>5
    <3>2. Servers = {s, t, r}
      BY <2>5, <3>1
    <3> QED BY <3>1, <3>2
  <2> QED BY <2>2, <2>3, <2>4, <2>5
<1>3. CASE Servers = {s, t}
  <2>1. SumOver(current, {s, t}) = current[s] + current[t]
    BY <1>1, SmallSums
  <2>2. SumOver(Weight, {s, t}) = Weight[s] + Weight[t]
    BY <1>1, SmallSums
  <2> QED BY <1>3, <2>1, <2>2, Zenon DEF AccountsBalance, TotalWeight
<1>4. ASSUME NEW r \in Servers \ {s, t}, Servers = {s, t, r}
      PROVE  /\ current[s] + current[t] + current[r] = 0
             /\ Weight[s] + Weight[t] + Weight[r] = TotalWeight(Servers)
  <2>1. t \in Servers \ {s} /\ r \in Servers \ {s} /\ r # t
    OBVIOUS
  <2>2. SumOver(current, {s, t, r}) = current[s] + current[t] + current[r]
    BY <1>1, <2>1, SmallSums
  <2>3. SumOver(Weight, {s, t, r}) = Weight[s] + Weight[t] + Weight[r]
    BY <1>1, <2>1, SmallSums
  <2> QED BY <1>4, <2>2, <2>3, Zenon DEF AccountsBalance, TotalWeight
<1> QED BY <1>2, <1>3, <1>4

\* Who is passed over in a weighted booking is owed less than a cycle, and who
\* is picked owes less than one: the third server makes up for no more.
LEMMA WeightedBounded ==
  ASSUME N <= 3, TypeOK, AccountsBalance, Bounded,
         NEW s \in Servers, s \in online, WeightedRoundRobin(s)
  PROVE  Bounded'
<1>1. PICK W \in Nat : W = TotalWeight(Servers)
  BY TotalWeightType
<1>2. \A t \in Servers : /\ current[t] \in Int /\ -W + 1 <= current[t] /\ current[t] <= W - 1
                        /\ Weight[t] \in Int /\ Weight[t] >= 1
  BY <1>1, WeightAssumption DEF TypeOK, Bounded
<1>3. /\ online \subseteq Servers
      /\ \A t \in Servers \ {s} :
           current'[t] = IF t \in online THEN current[t] + Weight[t] ELSE current[t]
      /\ \A t \in online : current[t] + Weight[t] <= current[s] + Weight[s]
  BY WeightedStep DEF TypeOK
<1>4. ASSUME NEW t \in Servers \ {s}
      PROVE  -W + 1 <= current'[t] /\ current'[t] <= W - 1
  <2>1. CASE t \notin online
    BY <1>2, <1>3, <2>1
  <2>2. CASE t \in online
    <3>1. current'[t] = current[t] + Weight[t] /\ current[t] + Weight[t] <= current[s] + Weight[s]
      BY <1>3, <2>2
    <3>2. CASE current[s] + current[t] = 0 /\ Weight[s] + Weight[t] = W
      BY <1>2, <3>1, <3>2
    <3>3. ASSUME NEW r \in Servers, current[s] + current[t] + current[r] = 0,
                 Weight[s] + Weight[t] + Weight[r] = W
          PROVE  -W + 1 <= current'[t] /\ current'[t] <= W - 1
      BY <1>2, <3>1, <3>3
    <3> QED BY <1>1, <3>2, <3>3, TheRest
  <2> QED BY <2>1, <2>2
<1>5. -W + 1 <= current'[s] /\ current'[s] <= W - 1
  <2>1. PICK T \in Nat : T = TotalWeight(online)
    BY <1>3, TotalWeightType
  <2>2. current'[s] = current[s] + Weight[s] - T
    BY <2>1, WeightedStep
  <2>3. Weight \in [Servers -> Int]
    BY WeightAssumption
  <2>4. CASE online = {s}
    <3>1. T = Weight[s]
      BY <2>1, <2>3, <2>4, SmallSums, Zenon DEF TotalWeight
    <3> QED BY <1>2, <2>2, <3>1
  <2>5. ASSUME NEW t \in online \ {s} PROVE -W + 1 <= current'[s] /\ current'[s] <= W - 1
    <3>1. t \in Servers \ {s} /\ current[t] + Weight[t] <= current[s] + Weight[s]
      BY <1>3
    <3>2. SumOver(Weight, {s, t}) = Weight[s] + Weight[t]
      BY <2>3, <3>1, SmallSums
    <3>3. CASE /\ Servers = {s, t} /\ current[s] + current[t] = 0
               /\ Weight[s] + Weight[t] = W
      <4>1. online = {s, t}
        BY <1>3, <3>3
      <4>2. T = Weight[s] + Weight[t]
        BY <2>1, <3>2, <4>1, Zenon DEF TotalWeight
      <4> QED BY <1>2, <2>2, <3>1, <3>3, <4>2
    <3>4. ASSUME NEW r \in Servers \ {s, t}, Servers = {s, t, r},
                 current[s] + current[t] + current[r] = 0,
                 Weight[s] + Weight[t] + Weight[r] = W
          PROVE  -W + 1 <= current'[s] /\ current'[s] <= W - 1
      <4>1. CASE r \notin online
        <5>1. online = {s, t}
          BY <1>3, <3>4, <4>1
        <5>2. T = Weight[s] + Weight[t]
          BY <2>1, <3>2, <5>1, Zenon DEF TotalWeight
        <5> QED BY <1>2, <2>2, <3>1, <3>4, <5>2
      <4>2. CASE r \in online
        <5>1. online = Servers
          BY <1>3, <3>4, <4>2
        <5>2. T = W
          BY <1>1, <2>1, <5>1, Zenon
        <5>3. current[r] + Weight[r] <= current[s] + Weight[s]
          BY <1>3, <4>2
        <5> QED BY <1>2, <2>2, <3>1, <3>4, <5>2, <5>3
      <4> QED BY <4>1, <4>2
    <3> QED BY <1>1, <3>1, <3>3, <3>4, TheRest
  <2> QED BY <2>4, <2>5
<1>6. ASSUME NEW t \in Servers PROVE current'[t] \in Int
  <2>1. current' \in [Servers -> Int]
    BY Accounts
  <2> QED BY <2>1
<1>7. ASSUME NEW t \in Servers PROVE current'[t] \in -W + 1 .. W - 1
  BY <1>4, <1>5, <1>6
<1> QED BY <1>1, <1>7 DEF Bounded

\* Every step keeps the accounts within a cycle.
LEMMA StepBounded ==
  ASSUME N <= 3, TypeOK, AccountsBalance, Bounded, [Next]_vars
  PROVE  Bounded'
<1>1. CASE \E name \in Strategies : SetStrategy(name)
  <2>1. \A s \in Servers : current'[s] = 0
    BY <1>1 DEF SetStrategy, FreshStrategy
  <2> QED BY <2>1, ZeroBounded DEF Bounded
<1>2. CASE Book
  <2>1. PICK s \in Servers : BookOn(s)
    BY <1>2, BookPicks
  <2>2. CASE WeightedRoundRobin(s)
    BY <2>1, <2>2, WeightedBounded DEF BookOn
  <2>3. CASE ~WeightedRoundRobin(s)
    BY <2>1, <2>3 DEF BookOn, Pick, RoundRobin, ConsistentHashing, Scored, Bounded
  <2> QED BY <2>2, <2>3
<1>3. CASE ~Book /\ ~\E name \in Strategies : SetStrategy(name)
  <2>1. UNCHANGED balancerVars
    BY <1>3 DEF Next, Toggle, Snapshot, Measure, Refuse, vars
  <2> QED BY <2>1 DEF balancerVars, Bounded
<1> QED BY <1>1, <1>2, <1>3

(***************************************************************************)
(* The accounts of the weighted rotation balance, those of every group of  *)
(* servers and, with up to three of them, each to within a cycle, for any  *)
(* weights and whichever servers come and go: SharesBalance is invariant.  *)
(***************************************************************************)
THEOREM RoutingSharesBalance == Spec => []SharesBalance
<1>1. Init => (N <= 3 => Bounded)
  <2>1. Init => current = [s \in Servers |-> 0]
    BY Zenon DEF Init
  <2> QED BY <2>1, ZeroBounded DEF Bounded
<1>2. TypeOK /\ AccountsBalance /\ (N <= 3 => Bounded) /\ [Next]_vars => (N <= 3 => Bounded)'
  BY StepBounded
<1>3. GroupsBalance /\ (N <= 3 => Bounded) => SharesBalance
  BY DEF Bounded, GroupsBalance, SharesBalance
<1> QED BY <1>1, <1>2, <1>3, RoutingType, RoutingAccountsBalance, RoutingGroupsBalance, PTL DEF Spec

-----------------------------------------------------------------------------
\* A server that is passed over is owed more every time, and its account stays
\* within a cycle on both sides.
Owed ==
  Weighting =>
    \A s \in Servers : passed[s] * Weight[s] <= current[s] + TotalWeight(Servers) - 1

\* The same accounts hold whoever is passed over often enough.
LEMMA WeightedOwed ==
  ASSUME N <= 3, TypeOK, AccountsBalance, Bounded, Owed,
         NEW s \in Servers, BookOn(s), WeightedRoundRobin(s)
  PROVE  Owed'
<1>1. PICK W \in Nat, L \in Int : W = TotalWeight(Servers) /\ L = W - 1
  BY TotalWeightType
<1>2. s \in online /\ strategy = "Weighted Round Robin" /\ strategy' = strategy
  BY DEF BookOn, WeightedRoundRobin
<1>3. Bounded'
  BY <1>2, WeightedBounded
<1>4. ASSUME NEW t \in Servers PROVE passed'[t] * Weight[t] <= current'[t] + W - 1
  <2>1. PICK new \in Int, old \in Int, p \in Nat, w \in Nat :
          new = current'[t] /\ old = current[t] /\ p = passed[t] /\ w = Weight[t]
    <3>1. current'[t] \in Int
      BY <1>2, Accounts
    <3>2. current[t] \in Int /\ passed[t] \in Nat
      BY DEF TypeOK
    <3>3. Weight[t] \in Nat
      BY WeightAssumption
    <3> QED BY <3>1, <3>2, <3>3
  <2>2. 0 <= new + L
    BY <1>1, <1>3, <2>1 DEF Bounded
  <2>3. p * w <= old + W - 1
    BY <1>1, <1>2, <2>1, Zenon DEF Owed, Weighting
  <2>4. p * w <= old + L
    BY <1>1, <2>3
  <2>5. passed'[t] * Weight[t] <= new + L
    BY <2>1, <2>2, <2>4, OneMoreTurn, Zenon
  <2>6. new + L = new + W - 1
    BY <1>1
  <2> QED BY <2>1, <2>5, <2>6, Zenon
<1>5. \A t \in Servers : passed'[t] * Weight[t] <= current'[t] + TotalWeight(Servers) - 1
  BY <1>1, <1>4, Zenon
<1> QED BY <1>5, Zenon DEF Owed

\* Nobody has been passed over, and nothing is owed.
LEMMA FreshOwed ==
  ASSUME NEW t \in Servers
  PROVE  0 * Weight[t] <= 0 + TotalWeight(Servers) - 1
<1>1. PICK W \in Nat : W = TotalWeight(Servers)
  BY TotalWeightType
<1>2. 0 <= W - 1
  BY <1>1, ZeroBounded
<1>3. PICK w \in Nat : w = Weight[t]
  BY WeightAssumption
<1>4. 0 * w <= 0 + W - 1
  BY <1>2
<1> QED BY <1>1, <1>3, <1>4, Zenon

\* Every step keeps what is owed in proportion to the turns missed.
LEMMA StepOwed ==
  ASSUME N <= 3, TypeOK, AccountsBalance, Bounded, Owed, [Next]_vars
  PROVE  Owed'
<1>1. CASE \E name \in Strategies : SetStrategy(name)
  <2>1. \A t \in Servers : current'[t] = 0 /\ passed'[t] = 0
    BY <1>1 DEF SetStrategy, FreshStrategy
  <2>2. \A t \in Servers : passed'[t] * Weight[t] <= current'[t] + TotalWeight(Servers) - 1
    BY <2>1, FreshOwed, Zenon
  <2> QED BY <2>1, <2>2, Zenon DEF Owed
<1>2. CASE Book
  <2>1. PICK s \in Servers : BookOn(s)
    BY <1>2, BookPicks
  <2>2. CASE WeightedRoundRobin(s)
    BY <2>1, <2>2, WeightedOwed
  <2>3. CASE ~WeightedRoundRobin(s)
    <3>1. strategy # "Weighted Round Robin" /\ strategy' = strategy
      BY <2>1, <2>3 DEF BookOn, Pick, RoundRobin, ConsistentHashing, Scored
    <3> QED BY <3>1, Zenon DEF Owed, Weighting
  <2> QED BY <2>2, <2>3
<1>3. CASE ~Book /\ ~\E name \in Strategies : SetStrategy(name)
  <2>1. UNCHANGED balancerVars
    BY <1>3 DEF Next, Toggle, Snapshot, Measure, Refuse, vars
  <2>2. strategy' = strategy /\ current' = current /\ passed' = passed
    BY <2>1 DEF balancerVars
  <2> QED BY <2>2, Zenon DEF Owed, Weighting
<1> QED BY <1>1, <1>2, <1>3

\* Between less than a cycle on one side and on the other lie few turns.
ShortWaits ==
  Weighting => \A s \in Servers : passed[s] * Weight[s] <= 2 * (TotalWeight(Servers) - 1)

LEMMA OwedShort ==
  ASSUME TypeOK, Bounded, Owed
  PROVE  ShortWaits
<1> SUFFICES ASSUME Weighting, NEW s \in Servers
             PROVE  passed[s] * Weight[s] <= 2 * (TotalWeight(Servers) - 1)
  BY DEF ShortWaits
<1>1. PICK W \in Nat : W = TotalWeight(Servers)
  BY TotalWeightType
<1>2. PICK owed \in Int : owed = current[s] /\ owed <= W - 1
  BY <1>1 DEF TypeOK, Bounded
<1>3. PICK p \in Nat, w \in Nat : p = passed[s] /\ w = Weight[s]
  BY WeightAssumption DEF TypeOK
<1>4. p * w <= owed + W - 1
  BY <1>1, <1>2, <1>3, Zenon DEF Owed
<1>5. p * w <= 2 * (W - 1)
  BY <1>2, <1>4
<1> QED BY <1>1, <1>3, <1>5, Zenon

\* Under the other strategies nobody counts turns.
Uncounted == ~Rotating /\ ~Weighting => \A s \in Servers : passed[s] = 0

LEMMA StepUncounted == TypeOK /\ Uncounted /\ [Next]_vars => Uncounted'
<1> SUFFICES ASSUME TypeOK, Uncounted, [Next]_vars, ~Rotating', ~Weighting', NEW t \in Servers
             PROVE  passed'[t] = 0
  BY DEF Uncounted
<1>1. CASE \E name \in Strategies : SetStrategy(name)
  BY <1>1 DEF SetStrategy, FreshStrategy
<1>2. CASE Book
  <2>1. PICK s \in Servers : BookOn(s)
    BY <1>2, BookPicks
  <2>2. strategy' = strategy
    BY <1>2 DEF Book
  <2>3. strategy \notin {"Round Robin", "Weighted Round Robin"}
    BY <2>2 DEF Rotating, Weighting
  <2> QED BY <2>1, <2>3 DEF BookOn
<1>3. CASE ~Book /\ ~\E name \in Strategies : SetStrategy(name)
  <2>1. UNCHANGED balancerVars
    BY <1>3 DEF Next, Toggle, Snapshot, Measure, Refuse, vars
  <2>2. strategy' = strategy /\ passed' = passed
    BY <2>1 DEF balancerVars
  <2> QED BY <2>2, Zenon DEF Uncounted, Rotating, Weighting
<1> QED BY <1>1, <1>2, <1>3

(***************************************************************************)
(* The rotations starve nobody, in a cluster of any size, for any weights  *)
(* and whichever servers come and go: Rotates is invariant.  The account of*)
(* whoever the weighted rotation passes over climbs by its weight each     *)
(* time, from the most that it may owe to the most that it may be owed;    *)
(* with up to three servers either is less than a cycle.                   *)
(***************************************************************************)
THEOREM RoutingRotates == Spec => []Rotates
<1>1. Init => Uncounted /\ (N <= 3 => Bounded /\ Owed)
  <2> SUFFICES ASSUME Init PROVE Uncounted /\ Bounded /\ Owed
    OBVIOUS
  <2>1. \A t \in Servers : current[t] = 0 /\ passed[t] = 0
    BY Zenon DEF Init
  <2>2. \A t \in Servers : passed[t] * Weight[t] <= current[t] + TotalWeight(Servers) - 1
    BY <2>1, FreshOwed, Zenon
  <2> QED BY <2>1, <2>2, ZeroBounded, Zenon DEF Bounded, Owed, Uncounted
<1>2. /\ TypeOK /\ AccountsBalance /\ (N <= 3 => Bounded /\ Owed) /\ [Next]_vars
      => (N <= 3 => Bounded /\ Owed)'
  BY StepBounded, StepOwed
<1>3. /\ TypeOK /\ Uncounted /\ WaitsBounded /\ (N <= 3 => Bounded /\ Owed)
      /\ (strategy = "Round Robin" => Rotates)
      => Rotates
  <2> SUFFICES ASSUME TypeOK, Uncounted, WaitsBounded, N <= 3 => ShortWaits, ~Rotating
               PROVE  Rotates
    BY OwedShort DEF Rotating
  <2>1. ASSUME Weighting, NEW s \in Servers
        PROVE  /\ passed[s] * Weight[s] <= 2 * (N - 1) * MaxWeight
               /\ N <= 3 => passed[s] * Weight[s] <= 2 * (TotalWeight(Servers) - 1)
    BY <2>1, Zenon DEF WaitsBounded, ShortWaits
  <2>2. ASSUME ~Weighting, NEW s \in Servers PROVE passed[s] <= N - 1
    <3>1. passed[s] = 0
      BY <2>2, Zenon DEF Uncounted
    <3>2. 0 <= N - 1
      BY NAssumption
    <3> QED BY <3>1, <3>2, Zenon
  <2> QED BY <2>1, <2>2, Zenon DEF Rotates, Weighting
<1> QED BY <1>1, <1>2, <1>3, StepUncounted, RoutingType, RoutingAccountsBalance,
           RoutingWaitsBounded, RoundRobinRotates, PTL DEF Spec
===============================================================================
