------------------------- MODULE SecondaryGie_proofs -------------------------
(* Proofs about the secondary engines, for any number and configuration of them. *)
EXTENDS SecondaryGie, DataInduction, FiniteSetTheorems, TLAPS

(* The recursion of should_create_secondary_gie *)

\* The sequence of calls is a recursive function: what it is to be one.
IsCalls(i, c) ==
  c = [k \in 0..NumGies |->
         IF k = 0 THEN i ELSE IF Settled(c[k - 1]) THEN c[k - 1] ELSE Provider(c[k - 1])]

Prefix(i, c, n) ==
  c = [k \in 0..n |->
         IF k = 0 THEN i ELSE IF Settled(c[k - 1]) THEN c[k - 1] ELSE Provider(c[k - 1])]

\* Such a function exists, call by call, so Calls is one.
LEMMA CallsExist == ASSUME NEW i PROVE IsCalls(i, Calls(i))
<1> DEFINE Defined == {n \in Nat : \E c : Prefix(i, c, n)}
<1>1. 0 \in Defined
  <2>1. Prefix(i, [k \in 0..0 |-> i], 0)
    BY DEF Prefix
  <2>2. QED BY <2>1
<1>2. ASSUME NEW n \in Nat, n \in Defined PROVE n + 1 \in Defined
  <2>1. PICK c : Prefix(i, c, n)
    BY <1>2
  <2> DEFINE next == IF Settled(c[n]) THEN c[n] ELSE Provider(c[n])
             longer == [k \in 0..(n + 1) |-> IF k = n + 1 THEN next ELSE c[k]]
  <2>2. \A k \in 0..n : longer[k] = c[k]
    OBVIOUS
  <2>3. c[0] = i
    BY <2>1 DEF Prefix
  <2>4. \A k \in 1..n : c[k] = IF Settled(c[k - 1]) THEN c[k - 1] ELSE Provider(c[k - 1])
    BY <2>1 DEF Prefix
  <2>5. ASSUME NEW k \in 0..(n + 1)
        PROVE  longer[k] = IF k = 0 THEN i
                           ELSE IF Settled(longer[k - 1]) THEN longer[k - 1] ELSE Provider(longer[k - 1])
    <3>1. CASE k = 0
      BY <3>1, <2>2, <2>3
    <3>2. CASE k \in 1..n
      <4>1. k - 1 \in 0..n
        BY <3>2
      <4>2. longer[k - 1] = c[k - 1] /\ longer[k] = c[k]
        BY <3>2, <4>1, <2>2
      <4> HIDE DEF longer
      <4>3. QED BY <3>2, <4>2, <2>4
    <3>3. CASE k = n + 1
      <4>1. k - 1 = n /\ longer[k - 1] = c[n] /\ longer[k] = next
        BY <3>3, <2>2
      <4> HIDE DEF longer
      <4>2. QED BY <3>3, <4>1
    <3>4. QED BY <3>1, <3>2, <3>3
  <2>6. Prefix(i, longer, n + 1)
    <3>1. longer = [k \in 0..(n + 1) |-> longer[k]]
      OBVIOUS
    <3> HIDE DEF longer
    <3>2. QED BY <3>1, <2>5 DEF Prefix
  <2>7. QED BY <2>6
<1>3. \A n \in Nat : n \in Defined
  <2> HIDE DEF Defined
  <2>1. QED BY <1>1, <1>2, SetInduction
<1>4. \E c : IsCalls(i, c)
  BY <1>3, GiesAssumption DEF IsCalls, Prefix
<1>5. Calls(i) = CHOOSE c : IsCalls(i, c)
  BY DEF Calls, IsCalls
<1>6. QED BY <1>4, <1>5, Zenon

\* The provider of an engine is one of its providers.
LEMMA ProviderIsOne ==
  ASSUME NEW i, Providers(i) # {}
  PROVE  Provider(i) \in Providers(i) /\ Provider(i) \in Gies
<1>1. Providers(i) \subseteq Nat
  BY GiesAssumption DEF Providers, Gies
<1>2. \E x \in Providers(i) : \A y \in Providers(i) : x <= y
  BY <1>1, LeastElement
<1>3. QED BY <1>2 DEF Provider, Min, Providers

Depth(i) == Min(Depths(i))
Call(i, k) == Calls(i)[k]

\* Where the recursion ends: at the first call that is settled.
LEMMA DepthIsLeast ==
  ASSUME NEW i, Depths(i) # {}
  PROVE  /\ Depth(i) \in 0..NumGies
         /\ Settled(Call(i, Depth(i)))
         /\ \A k \in 0..(Depth(i) - 1) : ~Settled(Call(i, k))
<1>1. Depths(i) \subseteq 0..NumGies
  BY DEF Depths
<1>2. \E x \in Depths(i) : \A y \in Depths(i) : x <= y
  BY <1>1, GiesAssumption, LeastElement
<1>3. Depth(i) \in Depths(i) /\ \A y \in Depths(i) : Depth(i) <= y
  BY <1>2 DEF Depth, Min
<1>4. \A k \in 0..(Depth(i) - 1) : k \in 0..NumGies /\ ~(Depth(i) <= k)
  BY <1>1, <1>3, GiesAssumption
<1>5. \A k \in 0..(Depth(i) - 1) : k \notin Depths(i)
  BY <1>3, <1>4
<1>6. QED BY <1>1, <1>3, <1>4, <1>5 DEF Depths, Call

\* The calls go from an engine to its provider and stay with the engines.
LEMMA CallSteps ==
  ASSUME NEW i \in Gies, Depths(i) # {}
  PROVE  /\ Call(i, 0) = i
         /\ \A k \in 0..Depth(i) : Call(i, k) \in Gies
         /\ \A k \in 0..(Depth(i) - 1) : Call(i, k + 1) = Provider(Call(i, k))
<1>1. Depth(i) \in 0..NumGies
  BY DepthIsLeast
<1>2. Calls(i) = [k \in 0..NumGies |->
                    IF k = 0 THEN i
                    ELSE IF Settled(Calls(i)[k - 1]) THEN Calls(i)[k - 1] ELSE Provider(Calls(i)[k - 1])]
  BY CallsExist DEF IsCalls
<1>3. Call(i, 0) = i
  BY <1>2, GiesAssumption DEF Call
<1>4. ASSUME NEW k \in 0..(Depth(i) - 1) PROVE Call(i, k + 1) = Provider(Call(i, k))
  <2>1. k + 1 \in 0..NumGies /\ k + 1 # 0 /\ (k + 1) - 1 = k
    BY <1>1, GiesAssumption
  <2>2. Call(i, k + 1) = IF Settled(Call(i, k)) THEN Call(i, k) ELSE Provider(Call(i, k))
    BY <1>2, <2>1 DEF Call
  <2>3. QED BY <2>2, DepthIsLeast
<1> DEFINE Within == {n \in Nat : n <= Depth(i) => Call(i, n) \in Gies}
<1>5. 0 \in Within
  BY <1>3
<1>6. ASSUME NEW n \in Nat, n \in Within PROVE n + 1 \in Within
  <2>1. SUFFICES ASSUME n + 1 <= Depth(i) PROVE Call(i, n + 1) \in Gies
    OBVIOUS
  <2>2. n \in 0..(Depth(i) - 1)
    BY <2>1, <1>1
  <2>3. ~Settled(Call(i, n))
    BY <2>2, DepthIsLeast
  <2>4. Provider(Call(i, n)) \in Gies
    BY <2>3, ProviderIsOne DEF Settled
  <2>5. QED BY <2>2, <2>4, <1>4
<1>7. \A n \in Nat : n \in Within
  <2> HIDE DEF Within
  <2>1. QED BY <1>5, <1>6, SetInduction
<1>8. \A k \in 0..Depth(i) : Call(i, k) \in Gies
  BY <1>7, <1>1
<1>9. QED BY <1>3, <1>4, <1>8

\* Two calls for the same engine would repeat for ever: each engine is called for once.
LEMMA CallsDiffer ==
  ASSUME NEW i \in Gies, Depths(i) # {},
         NEW a \in 0..Depth(i), NEW b \in 0..Depth(i), a < b
  PROVE  Call(i, a) # Call(i, b)
<1> SUFFICES ASSUME Call(i, a) = Call(i, b) PROVE FALSE
  OBVIOUS
<1>1. Depth(i) \in Nat
  BY DepthIsLeast
<1> DEFINE Same == {n \in Nat : b + n <= Depth(i) => Call(i, a + n) = Call(i, b + n)}
<1>2. 0 \in Same
  OBVIOUS
<1>3. ASSUME NEW n \in Nat, n \in Same PROVE n + 1 \in Same
  <2>1. SUFFICES ASSUME b + (n + 1) <= Depth(i) PROVE Call(i, a + (n + 1)) = Call(i, b + (n + 1))
    OBVIOUS
  <2>2. a + n \in 0..(Depth(i) - 1) /\ b + n \in 0..(Depth(i) - 1) /\ b + n <= Depth(i)
    BY <2>1, <1>1
  <2>3. Call(i, a + n) = Call(i, b + n)
    BY <1>3, <2>2
  <2>4. Call(i, (a + n) + 1) = Provider(Call(i, a + n)) /\ Call(i, (b + n) + 1) = Provider(Call(i, b + n))
    BY <2>2, CallSteps
  <2>5. (a + n) + 1 = a + (n + 1) /\ (b + n) + 1 = b + (n + 1)
    OBVIOUS
  <2>6. QED BY <2>3, <2>4, <2>5
<1>4. \A n \in Nat : n \in Same
  <2> HIDE DEF Same
  <2>1. QED BY <1>2, <1>3, SetInduction
<1>5. Depth(i) - b \in Nat /\ b + (Depth(i) - b) = Depth(i) /\ a + (Depth(i) - b) \in 0..(Depth(i) - 1)
  BY <1>1
<1>6. Call(i, a + (Depth(i) - b)) = Call(i, Depth(i))
  BY <1>4, <1>5
<1>7. QED BY <1>5, <1>6, DepthIsLeast

-------------------------------------------------------------------------------
(* One decision *)

\* What the construction knows of the engines, whatever the buffers do.
TreeType ==
  /\ configs \in [Gies -> GieConfig]
  /\ index \in 0..NumGies
  /\ create \subseteq Gies
  /\ parent_index \in [Gies -> Gies \cup {-1}]
  /\ num_children \in [Gies -> Nat]

Chain(i) == {Call(i, k) : k \in 0..Depth(i)}
Last(i) == Call(i, Depth(i))

\* The calls before the last one are for engines that were not created before.
LEMMA NewEngines ==
  ASSUME NEW i \in Gies, Depths(i) # {}, NEW k \in 0..(Depth(i) - 1)
  PROVE  Call(i, k) \notin create /\ Call(i, k) # Last(i)
<1>1. ~Settled(Call(i, k)) /\ Settled(Last(i))
  BY DepthIsLeast DEF Last
<1>2. QED BY <1>1 DEF Settled

\* What a granted decision writes, engine by engine.
LEMMA DecisionWrites ==
  ASSUME TreeType, Decide, Granted(Last(index))
  PROVE  /\ index \in Gies /\ Depths(index) # {}
         /\ create' = create \cup Chain(index)
         /\ \A j \in create : parent_index'[j] = parent_index[j]
         /\ \A k \in 0..(Depth(index) - 1) : parent_index'[Call(index, k)] = Call(index, k + 1)
         /\ Last(index) \notin create => parent_index'[Last(index)] = -1
         /\ \A k \in 1..Depth(index) :
              num_children'[Call(index, k)] = num_children[Call(index, k)] + 1
         /\ \A j \in Gies : (\A k \in 1..Depth(index) : j # Call(index, k))
                              => num_children'[j] = num_children[j]
         /\ parent_index' \in [Gies -> Gies \cup {-1}]
         /\ num_children' \in [Gies -> Nat]
<1> DEFINE i == index
           above == {Call(i, k) : k \in 1..Depth(i)}
<1>1. i \in Gies /\ Depths(i) # {}
  BY GiesAssumption DEF Decide, TreeType, Gies
<1>2. Depth(i) \in 0..NumGies /\ Depth(i) \in Nat
  BY <1>1, DepthIsLeast, GiesAssumption
<1>3. Calls(i)[Depth(i)] = Last(i)
  BY DEF Last, Call
<1>4. /\ create' = create \cup {Last(i), i} \cup above
      /\ parent_index' = [j \in Gies |->
               IF j = Last(i) THEN IF j \in create THEN parent_index[j] ELSE -1
               ELSE IF j \in above \cup {i} THEN Provider(j) ELSE parent_index[j]]
      /\ num_children' = [j \in Gies |->
               IF j \in above THEN num_children[j] + 1 ELSE num_children[j]]
  BY <1>3, Zenon DEF Decide, Depth, Call, Last
<1>5. /\ Call(i, 0) = i
      /\ \A k \in 0..Depth(i) : Call(i, k) \in Gies
      /\ \A k \in 0..(Depth(i) - 1) : Call(i, k + 1) = Provider(Call(i, k))
  BY <1>1, CallSteps
<1>6. Chain(i) = above \cup {i} /\ Last(i) \in Chain(i)
  <2>1. 0..Depth(i) = {0} \cup 1..Depth(i) /\ Depth(i) \in 0..Depth(i)
    BY <1>2
  <2>2. QED BY <2>1, <1>5 DEF Chain, Last
<1>7. \A k \in 0..(Depth(i) - 1) : Call(i, k) \notin create /\ Call(i, k) # Last(i)
  BY <1>1, NewEngines
<1>8. ASSUME NEW j \in create PROVE j = Last(i) \/ j \notin Chain(i)
  <2>1. \A k \in 0..Depth(i) : k = Depth(i) \/ k \in 0..(Depth(i) - 1)
    BY <1>2
  <2>2. QED BY <2>1, <1>7 DEF Chain, Last
<1>9. create' = create \cup Chain(i)
  BY <1>4, <1>6
<1>10. ASSUME NEW j \in create PROVE parent_index'[j] = parent_index[j]
  <2>1. j \in Gies
    BY DEF TreeType
  <2>2. j = Last(i) \/ j \notin above \cup {i}
    BY <1>8, <1>6
  <2>3. QED BY <2>1, <2>2, <1>4
<1>11. ASSUME NEW k \in 0..(Depth(i) - 1) PROVE parent_index'[Call(i, k)] = Call(i, k + 1)
  <2>1. k \in 0..Depth(i)
    BY <1>2
  <2>2. Call(i, k) \in Gies /\ Call(i, k) \in above \cup {i} /\ Call(i, k) # Last(i)
    BY <2>1, <1>5, <1>6, <1>7 DEF Chain
  <2>3. QED BY <2>2, <1>4, <1>5
<1>12. Last(i) \in Gies
  BY <1>2, <1>5 DEF Last
<1>13. Last(i) \notin create => parent_index'[Last(i)] = -1
  BY <1>4, <1>12
<1>14. above \subseteq Gies
  BY <1>5, <1>2
<1>15. \A j \in Gies : num_children'[j] = IF j \in above THEN num_children[j] + 1 ELSE num_children[j]
  BY <1>4
<1>16. \A k \in 1..Depth(i) : num_children'[Call(i, k)] = num_children[Call(i, k)] + 1
  BY <1>14, <1>15
<1>17. \A j \in Gies : (\A k \in 1..Depth(i) : j # Call(i, k)) => num_children'[j] = num_children[j]
  BY <1>15
<1>18. num_children' \in [Gies -> Nat]
  BY <1>4 DEF TreeType
<1>19. parent_index' \in [Gies -> Gies \cup {-1}]
  <2>1. ASSUME NEW j \in above \cup {i}, j # Last(i) PROVE Provider(j) \in Gies
    <3>1. PICK k \in 0..Depth(i) : j = Call(i, k)
      BY <1>6 DEF Chain
    <3>2. k \in 0..(Depth(i) - 1) /\ k + 1 \in 0..Depth(i)
      BY <2>1, <3>1, <1>2 DEF Last
    <3>3. QED BY <3>1, <3>2, <1>5
  <2>2. \A j \in Gies : parent_index[j] \in Gies \cup {-1}
    BY DEF TreeType
  <2>3. QED BY <2>1, <2>2, <1>4
<1>20. QED
  BY <1>1, <1>9, <1>10, <1>11, <1>13, <1>16, <1>17, <1>18, <1>19

-------------------------------------------------------------------------------
(* Children are counted *)

Children(j) == {i \in create : parent_index[i] = j}

\* Sets of engines are finite, and no larger than num_secondary_gie.
LEMMA GiesFinite == \A S \in SUBSET Gies : IsFiniteSet(S) /\ Cardinality(S) \in 0..NumGies
<1> TAKE S \in SUBSET Gies
<1>1. IsFiniteSet(Gies) /\ Cardinality(Gies) = NumGies
  <2>1. 0 \in Int /\ NumGies - 1 \in Int /\ (0 > NumGies - 1 <=> NumGies = 0)
    BY GiesAssumption
  <2>2. QED BY <2>1, FS_Interval, GiesAssumption DEF Gies
<1>2. IsFiniteSet(S) /\ Cardinality(S) <= Cardinality(Gies)
  BY <1>1, FS_Subset
<1>3. Cardinality(S) \in Nat
  BY <1>2, FS_CardinalityType
<1>4. QED BY <1>1, <1>2, <1>3, GiesAssumption

\* A decision that creates engines gives one child to each engine above, and to no other.
LEMMA DecisionCounts ==
  ASSUME TreeType, ChildrenCounted, Decide, Granted(Last(index))
  PROVE  ChildrenCounted'
<1> DEFINE i == index
<1>1. i \in Gies /\ Depths(i) # {}
  BY DecisionWrites
<1>2. Depth(i) \in Nat
  BY <1>1, DepthIsLeast, GiesAssumption
<1>3. /\ create' = create \cup Chain(i)
      /\ \A j \in create : parent_index'[j] = parent_index[j]
      /\ \A k \in 0..(Depth(i) - 1) : parent_index'[Call(i, k)] = Call(i, k + 1)
      /\ Last(i) \notin create => parent_index'[Last(i)] = -1
  BY DecisionWrites
<1>4. /\ \A k \in 1..Depth(i) : num_children'[Call(i, k)] = num_children[Call(i, k)] + 1
      /\ \A j \in Gies : (\A k \in 1..Depth(i) : j # Call(i, k)) => num_children'[j] = num_children[j]
  BY DecisionWrites
<1>5. \A k \in 0..Depth(i) : Call(i, k) \in Gies
  BY <1>1, CallSteps
<1>6. \A k \in 0..(Depth(i) - 1) : Call(i, k) \notin create
  BY <1>1, NewEngines
<1>7. SUFFICES ASSUME NEW j \in Gies
               PROVE  num_children'[j] = Cardinality({x \in create' : parent_index'[x] = j})
  BY Zenon DEF ChildrenCounted
<1>8. num_children[j] = Cardinality(Children(j))
  BY DEF ChildrenCounted, Children
<1>9. IsFiniteSet(Children(j))
  BY GiesFinite DEF Children, TreeType
<1>10. ASSUME NEW x \in create', x \notin create
       PROVE  \/ \E k \in 0..(Depth(i) - 1) : x = Call(i, k) /\ parent_index'[x] = Call(i, k + 1)
              \/ parent_index'[x] = -1
  <2>1. PICK k \in 0..Depth(i) : x = Call(i, k)
    BY <1>10, <1>3 DEF Chain
  <2>2. CASE k = Depth(i)
    BY <2>1, <2>2, <1>10, <1>3 DEF Last
  <2>3. CASE k \in 0..(Depth(i) - 1)
    BY <2>1, <2>3, <1>3
  <2>4. QED BY <2>2, <2>3, <1>2
<1>11. -1 \notin Gies
  BY DEF Gies
<1>12. CASE \A k \in 1..Depth(i) : j # Call(i, k)
  <2>1. \A k \in 0..(Depth(i) - 1) : k + 1 \in 1..Depth(i)
    BY <1>2
  <2>2. \A x \in create' : parent_index'[x] = j => x \in create
    BY <2>1, <1>10, <1>11, <1>12
  <2>3. {x \in create' : parent_index'[x] = j} = Children(j)
    BY <2>2, <1>3 DEF Children
  <2>4. QED BY <2>3, <1>4, <1>8, <1>12
<1>13. ASSUME NEW m \in 1..Depth(i), j = Call(i, m)
       PROVE  num_children'[j] = Cardinality({x \in create' : parent_index'[x] = j})
  <2>1. m - 1 \in 0..(Depth(i) - 1) /\ (m - 1) + 1 = m /\ m - 1 \in 0..Depth(i)
    BY <1>2
  <2> DEFINE child == Call(i, m - 1)
  <2>2. child \notin create /\ parent_index'[child] = j /\ child \in create'
    BY <2>1, <1>3, <1>6, <1>13 DEF Chain
  <2>3. ASSUME NEW k \in 0..(Depth(i) - 1), Call(i, k + 1) = j PROVE k = m - 1
    <3>1. k + 1 \in 0..Depth(i) /\ m \in 0..Depth(i)
      BY <1>2
    <3>2. ~(k + 1 < m) /\ ~(m < k + 1)
      BY <3>1, <2>3, <1>1, <1>13, CallsDiffer
    <3>3. QED BY <3>2, <1>2
  <2>4. \A x \in create' : parent_index'[x] = j => x \in create \/ x = child
    BY <2>3, <1>10, <1>11
  <2>5. {x \in create' : parent_index'[x] = j} = Children(j) \cup {child}
    <3> HIDE DEF child
    <3>1. QED BY <2>2, <2>4, <1>3 DEF Children
  <2>6. child \notin Children(j)
    BY <2>2 DEF Children
  <2>7. Cardinality(Children(j) \cup {child}) = Cardinality(Children(j)) + 1
    BY <2>6, <1>9, FS_AddElement
  <2>8. QED BY <2>5, <2>7, <1>4, <1>8, <1>13
<1>14. QED BY <1>12, <1>13

-------------------------------------------------------------------------------
(* Which engines hang on the primary one *)

\* An engine that its provider reaches is reached: what Reachable is closed under.
LEMMA ReachableCloses ==
  ASSUME NEW i \in Gies, configs[i].enable,
         OnPrimary(i) \/ (Providers(i) # {} /\ Provider(i) \in Reachable)
  PROVE  i \in Reachable
BY DEF Reachable, Reaches

\* A granted decision creates only engines that hang on the primary one.
LEMMA DecisionReaches ==
  ASSUME TreeType, create \subseteq Reachable, Decide, Granted(Last(index))
  PROVE  Chain(index) \subseteq Reachable
<1> DEFINE i == index
<1>1. i \in Gies /\ Depths(i) # {}
  BY DecisionWrites
<1>2. Depth(i) \in Nat
  BY <1>1, DepthIsLeast, GiesAssumption
<1>3. /\ \A k \in 0..Depth(i) : Call(i, k) \in Gies
      /\ \A k \in 0..(Depth(i) - 1) : Call(i, k + 1) = Provider(Call(i, k))
  BY <1>1, CallSteps
<1> DEFINE S == {k \in 0..Depth(i) : Call(i, k) \in Reachable}
<1>4. Depth(i) \in S
  <2>1. Last(i) \in Gies
    BY <1>2, <1>3 DEF Last
  <2>2. Last(i) \in Reachable
    BY <2>1, ReachableCloses DEF Granted
  <2>3. QED BY <2>2, <1>2 DEF Last
<1>5. ASSUME NEW k \in 1..Depth(i), k \in S PROVE k - 1 \in S
  <2>1. k - 1 \in 0..(Depth(i) - 1) /\ k - 1 \in 0..Depth(i) /\ (k - 1) + 1 = k
    BY <1>2
  <2>2. ~Settled(Call(i, k - 1)) /\ Call(i, k - 1) \in Gies
    BY <2>1, <1>1, <1>3, DepthIsLeast
  <2>3. Provider(Call(i, k - 1)) \in Reachable
    BY <2>1, <1>3, <1>5
  <2>4. Call(i, k - 1) \in Reachable
    BY <2>2, <2>3, ReachableCloses DEF Settled
  <2>5. QED BY <2>1, <2>4
<1>6. \A k \in 0..Depth(i) : k \in S
  <2> HIDE DEF S
  <2>1. QED BY <1>2, <1>4, <1>5, DownInduction
<1>7. QED BY <1>6 DEF Chain

\* An engine for which the decision is not granted does not hang on the primary one.
LEMMA RefusedIsApart ==
  ASSUME NEW i \in Gies, Depths(i) # {}, ~Granted(Last(i)), create \subseteq Gies
  PROVE  i \notin Reachable
<1>1. Depth(i) \in Nat
  BY DepthIsLeast, GiesAssumption
<1>2. /\ Call(i, 0) = i
      /\ \A k \in 0..Depth(i) : Call(i, k) \in Gies
      /\ \A k \in 0..(Depth(i) - 1) : Call(i, k + 1) = Provider(Call(i, k))
  BY CallSteps
<1> DEFINE S == Gies \ Chain(i)
<1>3. i \notin S
  BY <1>1, <1>2 DEF Chain
<1>4. ASSUME NEW x \in Gies, configs[x].enable,
             OnPrimary(x) \/ (Providers(x) # {} /\ Provider(x) \in S)
      PROVE  x \in S
  <2>1. SUFFICES ASSUME NEW k \in 0..Depth(i), x = Call(i, k) PROVE FALSE
    BY DEF Chain
  <2>2. CASE k = Depth(i)
    <3>1. Settled(x) /\ ~Granted(x)
      BY <2>1, <2>2, DepthIsLeast DEF Last
    <3>2. Providers(x) = {} /\ ~OnPrimary(x)
      BY <3>1, <1>4 DEF Settled, Granted
    <3>3. QED BY <3>2, <1>4
  <2>3. CASE k \in 0..(Depth(i) - 1)
    <3>1. ~Settled(x)
      BY <2>1, <2>3, DepthIsLeast
    <3>2. ~OnPrimary(x)
      BY <3>1 DEF Settled
    <3>3. k + 1 \in 0..Depth(i) /\ Provider(x) = Call(i, k + 1)
      BY <2>1, <2>3, <1>1, <1>2
    <3>4. Provider(x) \notin S
      BY <3>3 DEF Chain
    <3>5. QED BY <3>2, <3>4, <1>4
  <2>4. QED BY <2>2, <2>3, <1>1
<1>5. Reaches(S)
  <2> HIDE DEF S
  <2>1. QED BY <1>4 DEF Reaches
<1>6. QED BY <1>3, <1>5 DEF Reachable

-------------------------------------------------------------------------------
(* The tree *)

\* While the engines are decided, those before the next one are what they should be;
\* what elements there are were given out when nothing was left to decide, so the
\* decisions of a recreated pipeline change no counter they depend on.
TreeInv ==
  /\ TreeType
  /\ phase \in {"decide", "build", "running", "overflow", "failed"}
  /\ ChildrenCounted
  /\ create \subseteq Reachable
  /\ \A i \in create : parent_index[i] \in create \cup {-1}
  /\ phase = "decide" => \A i \in Gies : i < index /\ i \in Reachable => i \in create
  /\ phase \in {"build", "running"} \/ queue \cup sink \cup tee # {} => Reachable \subseteq create
  /\ queue \subseteq create
  /\ sink \subseteq {i \in create : num_children[i] = 0}
  /\ tee \subseteq {i \in create : num_children[i] > 1}

\* At first no engine is decided for and all counters are zero.
LEMMA TreeInit == Init => TreeInv
<1> SUFFICES ASSUME Init PROVE TreeInv
  OBVIOUS
<1>1. TreeType
  BY GiesAssumption DEF Init, TreeType, Gies
<1>2. ChildrenCounted
  BY FS_EmptySet DEF Init, ChildrenCounted
<1>3. QED
  BY <1>1, <1>2, GiesAssumption DEF Init, TreeInv, Gies

\* The engines that hang on the primary one depend on the configuration alone.
LEMMA ReachableStays == UNCHANGED configs => UNCHANGED Reachable
<1> SUFFICES ASSUME configs' = configs PROVE Reachable' = Reachable
  OBVIOUS
<1>1. \A i : Providers(i)' = Providers(i)
  BY DEF Providers
<1>2. \A i : Provider(i)' = Provider(i)
  BY <1>1, Zenon DEF Provider
<1>3. \A i : OnPrimary(i)' = OnPrimary(i)
  BY Zenon DEF OnPrimary
<1>4. \A S : Reaches(S)' = Reaches(S)
  BY <1>1, <1>2, <1>3, Zenon DEF Reaches
<1>5. QED BY <1>4, Zenon DEF Reachable

\* One decision, granted or not.
LEMMA DecideKeepsTree == TreeInv /\ Decide => TreeInv'
<1> SUFFICES ASSUME TreeInv, Decide PROVE TreeInv'
  OBVIOUS
<1> DEFINE i == index
<1>1. /\ i \in Gies /\ Depths(i) # {}
      /\ index' = i + 1 /\ i + 1 \in 0..NumGies
      /\ UNCHANGED <<configs, phase, queue, sink, tee>> /\ phase = "decide"
  BY GiesAssumption DEF Decide, TreeInv, TreeType, Gies, element_vars
<1>2. Reachable' = Reachable
  BY <1>1, ReachableStays
<1>3. Calls(i)[Min(Depths(i))] = Last(i)
  BY DEF Last, Call, Depth
<1>4. Call(i, 0) = i /\ Depth(i) \in Nat
  BY <1>1, CallSteps, DepthIsLeast, GiesAssumption
<1>5. CASE Granted(Last(i))
  <2>1. /\ create' = create \cup Chain(i)
        /\ \A j \in Gies : (\A k \in 1..Depth(i) : j # Call(i, k)) => num_children'[j] = num_children[j]
        /\ parent_index' \in [Gies -> Gies \cup {-1}]
        /\ num_children' \in [Gies -> Nat]
    BY <1>5, DecisionWrites DEF TreeInv
  <2>2. ChildrenCounted'
    BY <1>5, DecisionCounts DEF TreeInv
  <2>3. Chain(i) \subseteq Reachable
    BY <1>5, DecisionReaches DEF TreeInv
  <2>4. Chain(i) \subseteq Gies
    BY <1>1, CallSteps DEF Chain
  <2>5. i \in Chain(i)
    BY <1>4 DEF Chain
  <2>6. create' \subseteq Reachable'
    BY <2>1, <2>3, <1>2 DEF TreeInv
  <2>7. TreeType'
    BY <2>1, <2>4, <1>1 DEF TreeType, TreeInv
  <2>8. \A j \in Gies : j < i + 1 => j < i \/ j = i
    BY <1>1 DEF Gies
  <2>9. \A j \in Gies : j < index' /\ j \in Reachable' => j \in create'
    BY <2>8, <2>1, <2>5, <1>1, <1>2 DEF TreeInv
  <2>13. ASSUME NEW x \in create' PROVE parent_index'[x] \in create' \cup {-1}
    <3>1. CASE x \in create
      BY <3>1, <1>5, <2>1, DecisionWrites DEF TreeInv
    <3>2. CASE x \notin create
      <4>1. PICK k \in 0..Depth(i) : x = Call(i, k)
        BY <3>2, <2>1 DEF Chain
      <4>2. CASE k = Depth(i)
        BY <4>1, <4>2, <3>2, <1>5, DecisionWrites DEF TreeInv, Last
      <4>3. CASE k \in 0..(Depth(i) - 1)
        <5>1. parent_index'[x] = Call(i, k + 1) /\ k + 1 \in 0..Depth(i)
          BY <4>1, <4>3, <1>4, <1>5, DecisionWrites DEF TreeInv
        <5>2. QED BY <5>1, <2>1 DEF Chain
      <4>4. QED BY <4>2, <4>3, <1>4
    <3>3. QED BY <3>1, <3>2
  <2>10. CASE queue \cup sink \cup tee = {}
    <3>1. queue' = {} /\ sink' = {} /\ tee' = {}
      BY <2>10, <1>1
    <3>2. QED BY <3>1, <2>2, <2>6, <2>7, <2>9, <2>13, <1>1 DEF TreeInv
  <2>11. CASE queue \cup sink \cup tee # {}
    <3>1. Reachable \subseteq create
      BY <2>11 DEF TreeInv
    <3>2. create' = create
      BY <3>1, <2>1, <2>3
    <3>3. \A k \in 1..Depth(i) : FALSE
      <4>1. SUFFICES ASSUME Depth(i) # 0 PROVE FALSE
        BY <1>4
      <4>2. 0 \in 0..(Depth(i) - 1)
        BY <4>1, <1>4
      <4>3. Call(i, 0) \notin create
        BY <4>2, <1>1, NewEngines
      <4>4. QED BY <4>3, <1>4, <2>5, <2>3, <3>1
    <3>4. \A j \in Gies : num_children'[j] = num_children[j]
      BY <2>1, <3>3
    <3>5. create \subseteq Gies
      BY DEF TreeInv, TreeType
    <3>6. /\ queue' \subseteq create'
          /\ sink' \subseteq {j \in create' : num_children'[j] = 0}
          /\ tee' \subseteq {j \in create' : num_children'[j] > 1}
      BY <3>2, <3>4, <3>5, <1>1 DEF TreeInv
    <3>7. Reachable' \subseteq create'
      BY <3>1, <3>2, <1>2
    <3>8. QED BY <3>6, <3>7, <2>2, <2>6, <2>7, <2>9, <2>13, <1>1 DEF TreeInv
  <2>12. QED BY <2>10, <2>11
<1>6. CASE ~Granted(Last(i))
  <2>1. UNCHANGED <<create, parent_index, num_children>>
    BY <1>6, <1>3, Zenon DEF Decide, tree_vars
  <2>2. i \notin Reachable
    BY <1>1, <1>6, RefusedIsApart DEF TreeInv, TreeType
  <2>3. \A j \in Gies : j < i + 1 => j < i \/ j = i
    BY <1>1 DEF Gies
  <2>4. \A j \in Gies : j < index' /\ j \in Reachable' => j \in create'
    BY <2>1, <2>2, <2>3, <1>1, <1>2 DEF TreeInv
  <2>5. TreeType'
    BY <2>1, <1>1 DEF TreeType, TreeInv
  <2>6. ChildrenCounted'
    BY <2>1, Zenon DEF TreeInv, ChildrenCounted
  <2>7. QED BY <2>1, <2>4, <2>5, <2>6, <1>1, <1>2 DEF TreeInv
<1>7. QED BY <1>5, <1>6

\* A step that leaves the engines and their elements alone.
LEMMA TreeRests ==
  ASSUME TreeInv, UNCHANGED <<configs, create, parent_index, num_children, queue, sink, tee>>,
         \/ UNCHANGED <<phase, index>>
         \/ phase' \in {"overflow", "failed"} /\ index' = index
         \/ phase = "running" /\ phase' = "decide" /\ index' = 0
  PROVE  TreeInv'
<1>1. Reachable' = Reachable
  BY ReachableStays
<1>2. ChildrenCounted'
  BY Zenon DEF TreeInv, ChildrenCounted
<1>3. TreeType'
  BY GiesAssumption DEF TreeInv, TreeType
<1>4. \A i \in Gies : ~(i < 0)
  BY DEF Gies
<1>5. QED BY <1>1, <1>2, <1>3, <1>4 DEF TreeInv

\* Every step keeps the tree invariant; only Decide, Build and Recreate touch the tree.
LEMMA TreeNext == TreeInv /\ [Next]_vars => TreeInv'
<1> SUFFICES ASSUME TreeInv, [Next]_vars
             PROVE  TreeInv'
  OBVIOUS
<1>1. CASE Decide
  BY <1>1, DecideKeepsTree
<1>2. CASE Overflow
  BY <1>2, TreeRests DEF Overflow, tree_vars, element_vars
<1>3. CASE Decided
  <2>1. /\ phase = "decide" /\ index = NumGies /\ phase' = "build"
        /\ UNCHANGED <<configs, index, create, parent_index, num_children, queue, sink, tee>>
    BY <1>3 DEF Decided, tree_vars, element_vars
  <2>2. Reachable' = Reachable
    BY <2>1, ReachableStays
  <2>3. ChildrenCounted'
    BY <2>1, Zenon DEF TreeInv, ChildrenCounted
  <2>4. TreeType'
    BY <2>1 DEF TreeInv, TreeType
  <2>5. \A i \in Gies : i < index
    BY <2>1, GiesAssumption DEF Gies
  <2>6. Reachable \subseteq create
    <3>1. Reachable \subseteq Gies
      BY DEF Reachable
    <3>2. QED BY <3>1, <2>1, <2>5 DEF TreeInv
  <2>7. QED BY <2>1, <2>2, <2>3, <2>4, <2>6 DEF TreeInv
<1>4. CASE Build
  <2>1. /\ phase = "build" /\ phase' \in {"running", "failed"}
        /\ UNCHANGED <<configs, index, create, parent_index, num_children>>
    BY <1>4, Zenon DEF Build, tree_vars
  <2>2. \/ /\ queue' = queue \cup {i \in create : NeedsQueue(i)}
           /\ sink' = sink \cup {i \in create : num_children[i] = 0}
           /\ tee' = tee \cup {i \in create : num_children[i] > 1}
        \/ UNCHANGED <<queue, sink, tee>>
    BY <1>4, Zenon DEF Build, element_vars
  <2>3. Reachable' = Reachable
    BY <2>1, ReachableStays
  <2>4. ChildrenCounted'
    BY <2>1, Zenon DEF TreeInv, ChildrenCounted
  <2>5. TreeType'
    BY <2>1 DEF TreeInv, TreeType
  <2>6. /\ queue' \subseteq create'
        /\ sink' \subseteq {i \in create' : num_children'[i] = 0}
        /\ tee' \subseteq {i \in create' : num_children'[i] > 1}
    BY <2>1, <2>2 DEF TreeInv
  <2>7. QED BY <2>1, <2>3, <2>4, <2>5, <2>6 DEF TreeInv
<1>5. CASE Push \/ Eos \/ Leave \/ Recreate \/ \E i \in Gies : Infer(i)
  BY <1>5, TreeRests DEF Push, Eos, Leave, Recreate, Infer, tree_vars, element_vars
<1>6. CASE UNCHANGED vars
  BY <1>6, TreeRests DEF vars, tree_vars, element_vars
<1>7. QED
  BY <1>1, <1>2, <1>3, <1>4, <1>5, <1>6, Zenon DEF Next, Construct

\* Whatever the order of the groups, whichever engines operate on each other and however
\* often the pipeline is recreated: those built are the ones that hang on the primary
\* engine, and each counts its children (should_create_secondary_gie).
THEOREM TreeAlwaysAsConfigured == Spec => []TreeAsConfigured
<1>1. TreeInv => TreeAsConfigured
  BY DEF TreeInv, TreeAsConfigured, CreatedAreReachable
<1>2. QED BY <1>1, TreeInit, TreeNext, PTL DEF Spec

\* No queue is missing and no pad taken when the branches are linked, in the first
\* pipeline and in each recreated one, which finds the elements' flags of the former
\* (create_secondary_gie).
THEOREM BranchesAlwaysLinked == Spec => []AlwaysLinked
<1> DEFINE queues == queue \cup {i \in create : NeedsQueue(i)}
           sinks == sink \cup {i \in create : num_children[i] = 0}
           tees == tee \cup {i \in create : num_children[i] > 1}
<1>1. ASSUME TreeInv PROVE Linked(queues, sinks, tees)
  <2>1. tees = {i \in create : num_children[i] > 1} /\ sinks = {i \in create : num_children[i] = 0}
    BY <1>1 DEF TreeInv
  <2>2. SUFFICES ASSUME NEW i \in create
                 PROVE  LET p == parent_index[i] IN
                        IF p = -1 \/ p \in tees THEN i \in queues
                        ELSE p \notin sinks /\ \A j \in create \ {i} : parent_index[j] # p
    BY Zenon DEF Linked
  <2> DEFINE p == parent_index[i]
  <2>3. create \subseteq Gies /\ p \in Gies \cup {-1}
    BY <1>1 DEF TreeInv, TreeType
  <2>4. CASE p = -1 \/ p \in tees
    BY <2>1, <2>4 DEF NeedsQueue
  <2>5. CASE p # -1 /\ p \notin tees
    <3>1. p \in Gies
      BY <2>3, <2>5
    <3>2. num_children[p] = Cardinality(Children(p)) /\ num_children[p] \in Nat
      BY <1>1, <3>1 DEF TreeInv, TreeType, ChildrenCounted, Children
    <3>3. IsFiniteSet(Children(p)) /\ i \in Children(p)
      BY <2>3, GiesFinite DEF Children
    <3>4. num_children[p] # 0
      BY <3>2, <3>3, FS_EmptySet
    <3>5. ASSUME NEW j \in create \ {i}, parent_index[j] = p PROVE p \in tees
      <4>1. {i, j} \subseteq Children(p)
        BY <3>3, <3>5 DEF Children
      <4>2. IsFiniteSet({i}) /\ Cardinality({i}) = 1
        BY FS_Singleton
      <4>3. Cardinality({i} \cup {j}) = 2
        BY <4>2, FS_AddElement
      <4>4. {i} \cup {j} \in SUBSET Children(p)
        BY <4>1
      <4>5. 2 <= Cardinality(Children(p))
        BY <4>3, <4>4, <3>3, FS_Subset
      <4>6. num_children[p] > 1
        BY <4>5, <3>2
      <4>7. p \in create
        BY <1>1, <2>5 DEF TreeInv
      <4>8. QED BY <4>6, <4>7, <2>1
    <3>6. QED BY <3>4, <3>5, <2>5, <2>1
  <2>6. QED BY <2>4, <2>5
<1>2. TreeInv => AlwaysLinked
  BY <1>1 DEF AlwaysLinked
<1>3. QED BY <1>2, TreeInit, TreeNext, PTL DEF Spec

-------------------------------------------------------------------------------
(* Types *)

BarrierType ==
  /\ {stop, eos, early} \subseteq BOOLEAN
  /\ waiting \in Seq(SUBSET create)
  /\ phase # "running" => waiting = <<>>
  /\ pushed \in 0..MaxBuffers
  /\ recreates \in 0..MaxRecreates

\* Every step keeps the buffers well typed: references are given back one at a time.
LEMMA BarrierNext == TreeInv /\ BarrierType /\ [Next]_vars => BarrierType'
<1> SUFFICES ASSUME TreeInv, BarrierType, [Next]_vars
             PROVE  BarrierType'
  OBVIOUS
<1> USE GiesAssumption
<1>1. CASE Construct
  <2>1. phase \in {"decide", "build"} /\ UNCHANGED barrier_vars
    BY <1>1 DEF Construct, Decide, Overflow, Decided, Build
  <2>2. waiting = <<>> /\ waiting' = <<>>
    BY <2>1 DEF BarrierType, barrier_vars
  <2>3. waiting' \in Seq(SUBSET create')
    BY <2>2
  <2>4. QED BY <2>1, <2>2, <2>3 DEF BarrierType, barrier_vars
<1>2. CASE Push
  <2>1. create' = create /\ waiting' = Append(waiting, {}) /\ phase = "running" /\ phase' = phase
        /\ pushed < MaxBuffers /\ pushed' = pushed + 1 /\ UNCHANGED <<stop, eos, early, recreates>>
    BY <1>2 DEF Push, tree_vars
  <2>2. {} \in SUBSET create
    OBVIOUS
  <2>3. waiting' \in Seq(SUBSET create')
    BY <2>1, <2>2 DEF BarrierType
  <2>4. pushed' \in 0..MaxBuffers
    BY <2>1 DEF BarrierType
  <2>5. QED BY <2>1, <2>3, <2>4 DEF BarrierType
<1>3. CASE Eos
  BY <1>3 DEF Eos, tree_vars, BarrierType
<1>4. CASE Leave
  <2>1. create' = create /\ waiting # <<>> /\ waiting' = Tail(waiting) /\ phase = "running" /\ phase' = phase
        /\ UNCHANGED <<stop, eos, pushed, recreates>>
    BY <1>4 DEF Leave, tree_vars
  <2>2. waiting' \in Seq(SUBSET create')
    BY <2>1 DEF BarrierType
  <2>3. early' \in BOOLEAN
    BY <1>4 DEF Leave, BarrierType
  <2>4. QED BY <2>1, <2>2, <2>3 DEF BarrierType
<1>5. CASE Recreate
  <2>1. create' = create /\ waiting' = <<>> /\ pushed' = 0 /\ stop' \in {stop, TRUE} /\ eos' = FALSE
        /\ recreates < MaxRecreates /\ recreates' = recreates + 1 /\ UNCHANGED early
    BY <1>5 DEF Recreate, tree_vars
  <2>2. recreates' \in 0..MaxRecreates /\ waiting' \in Seq(SUBSET create')
    BY <2>1 DEF BarrierType
  <2>3. {stop', eos', early'} \subseteq BOOLEAN
    BY <2>1 DEF BarrierType
  <2>4. pushed' \in 0..MaxBuffers
    BY <2>1
  <2>5. QED BY <2>1, <2>2, <2>3, <2>4 DEF BarrierType
<1>6. ASSUME NEW i \in Gies, Infer(i) PROVE BarrierType'
  <2>1. i \in create /\ create' = create /\ phase = "running" /\ phase' = phase
        /\ UNCHANGED <<stop, eos, early, pushed, recreates>>
    BY <1>6 DEF Infer, tree_vars
  <2>2. PICK k \in 1..Len(waiting) : waiting' = [waiting EXCEPT ![k] = waiting[k] \cup {i}]
    BY <1>6 DEF Infer
  <2>3. waiting[k] \cup {i} \in SUBSET create
    BY <2>1, <2>2 DEF BarrierType
  <2>4. waiting' \in Seq(SUBSET create')
    BY <2>1, <2>2, <2>3 DEF BarrierType
  <2>5. QED BY <2>1, <2>4 DEF BarrierType
<1>7. CASE UNCHANGED vars
  BY <1>7 DEF vars, tree_vars, barrier_vars, BarrierType
<1>8. QED
  BY <1>1, <1>2, <1>3, <1>4, <1>5, <1>6, <1>7 DEF Next

\* Every variable keeps its type; that a counter of children never exceeds the number of
\* engines rests on what it counts.
THEOREM TypeCorrect == Spec => []TypeOK
<1>1. Init => BarrierType
  <2> SUFFICES ASSUME Init PROVE BarrierType
    OBVIOUS
  <2>1. {stop, eos, early} \subseteq BOOLEAN
    BY DEF Init
  <2>2. waiting \in Seq(SUBSET create) /\ waiting = <<>>
    BY DEF Init
  <2>3. pushed \in 0..MaxBuffers /\ recreates \in 0..MaxRecreates
    BY GiesAssumption DEF Init
  <2>4. QED BY <2>1, <2>2, <2>3 DEF BarrierType
<1>2. TreeInv /\ BarrierType => TypeOK
  <2> SUFFICES ASSUME TreeInv, BarrierType PROVE TypeOK
    OBVIOUS
  <2>1. ASSUME NEW i \in Gies PROVE num_children[i] \in 0..NumGies
    <3>1. num_children[i] = Cardinality(Children(i))
      BY DEF TreeInv, ChildrenCounted, Children
    <3>2. Children(i) \in SUBSET Gies
      BY DEF TreeInv, TreeType, Children
    <3>3. QED BY <3>1, <3>2, GiesFinite
  <2>2. num_children \in [Gies -> 0..NumGies]
    BY <2>1 DEF TreeInv, TreeType
  <2>3. sink \subseteq create /\ tee \subseteq create /\ queue \subseteq create
    BY DEF TreeInv
  <2>4. QED BY <2>2, <2>3 DEF TreeInv, TreeType, BarrierType, TypeOK
<1>3. QED BY <1>1, <1>2, TreeInit, TreeNext, BarrierNext, PTL DEF Spec

-------------------------------------------------------------------------------
(* The wait for the engines *)

\* In the first pipeline nothing but an EOS ends the wait; the EOS that goes before a
\* recreation sets the flag for good, so this is lost with the first recreation.
WaitInv ==
  /\ recreates \in Nat
  /\ recreates = 0 => (stop => eos)
  /\ recreates = 0 => ~early

\* Nothing has left.
LEMMA WaitInit == Init => WaitInv
BY DEF Init, WaitInv

\* A buffer leaves when nobody else holds it, or when an EOS or a recreation has set stop.
LEMMA WaitNext == WaitInv /\ [Next]_vars => WaitInv'
<1> SUFFICES ASSUME WaitInv, [Next]_vars
             PROVE  WaitInv'
  OBVIOUS
<1> USE DEF WaitInv
<1>1. CASE Construct
  <2>1. UNCHANGED barrier_vars
    BY <1>1 DEF Construct, Decide, Overflow, Decided, Build
  <2>2. QED BY <2>1 DEF barrier_vars
<1>2. CASE Push
  BY <1>2 DEF Push
<1>3. CASE Eos
  BY <1>3 DEF Eos
<1>4. CASE Leave
  <2>1. UNCHANGED <<recreates, stop, eos>>
    BY <1>4 DEF Leave
  <2>2. ~eos /\ ~stop => Head(waiting) = create
    BY <1>4 DEF Leave, Released
  <2>3. early' = (early \/ (~eos /\ Head(waiting) # create))
    BY <1>4 DEF Leave
  <2>4. QED BY <2>1, <2>2, <2>3
<1>5. CASE Recreate
  <2>1. recreates' = recreates + 1
    BY <1>5 DEF Recreate
  <2>2. recreates' \in Nat /\ recreates' # 0
    BY <2>1
  <2>3. QED BY <2>2
<1>6. CASE \E i \in Gies : Infer(i)
  BY <1>6 DEF Infer
<1>7. CASE UNCHANGED vars
  BY <1>7 DEF vars, barrier_vars
<1>8. QED
  BY <1>1, <1>2, <1>3, <1>4, <1>5, <1>6, <1>7 DEF Next

\* A buffer of the first pipeline leaves only when each engine that was built is done
\* with it, unless an EOS has passed (wait_queue_buf_probe).
THEOREM FirstPipelineAlwaysWaits == Spec => []FirstPipelineWaits
<1>1. WaitInv => FirstPipelineWaits
  BY DEF WaitInv, FirstPipelineWaits
<1>2. QED BY <1>1, WaitInit, WaitNext, PTL DEF Spec
===============================================================================
