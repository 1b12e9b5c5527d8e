------------------------------ MODULE ImportProofs ------------------------------
(***************************************************************************)
(* For every list of extracts: what itinera import keeps of the ways of an *)
(* extract, and what itinera serve makes of it.  Where a way is split its  *)
(* nodes are those two ways share, or one passes twice, or where one ends; *)
(* the edges are exactly the stretches between them, each once in each     *)
(* direction it may be driven.  From that follow the two indices, the      *)
(* restrictions, what the matcher is given, and that no distance changes.  *)
(***************************************************************************)
EXTENDS Import, OperatorTheorems, SequenceTheorems

-----------------------------------------------------------------------------
(* What the extract holds.                                                 *)

Last(y) == Len(Ways[y].node_refs)

LEMMA WaysTyped ==
    ASSUME extract \in Extracts
    PROVE  /\ Ways \in Seq(OsmWay) /\ Len(Ways) \in Nat /\ DOMAIN Ways = 1 .. Len(Ways)
           /\ \A y \in DOMAIN Ways :
                 /\ Ways[y] \in OsmWay
                 /\ Refs(y) \in Seq(Nat) /\ Last(y) \in Nat /\ DOMAIN Refs(y) = 1 .. Last(y)
                 /\ \A k \in 1 .. Last(y) : Refs(y)[k] \in Nat
<1>. DEFINE K == {y \in DOMAIN extract.ways : extract.ways[y].road_class > 0}
<1>1. extract.ways \in Seq(OsmWay)
  BY ExtractsAssumption DEF IsExtract
<1>2. Picked(extract.ways, K) \in Seq(OsmWay)
  BY <1>1, PickedFacts
<1>3. Ways \in Seq(OsmWay)
  BY <1>2 DEF Ways
<1>4. \A y \in DOMAIN Ways : Ways[y] \in OsmWay
  BY <1>3
<1>5. \A x \in OsmWay : x.node_refs \in Seq(Nat)
  BY DEF OsmWay
<1>6. \A y \in DOMAIN Ways : Refs(y) \in Seq(Nat)
  BY <1>4, <1>5 DEF Refs
<1>7. \A s \in Seq(Nat) :
          Len(s) \in Nat /\ DOMAIN s = 1 .. Len(s) /\ \A k \in 1 .. Len(s) : s[k] \in Nat
  OBVIOUS
<1>. QED
  BY <1>3, <1>4, <1>6, <1>7 DEF Refs, Last

LEMMA RelationsTyped ==
    ASSUME extract \in Extracts
    PROVE  /\ Relations \in Seq(OsmRestriction) 
           /\ \A r \in DOMAIN Relations :
                 /\ Relations[r] \in OsmRestriction
                 /\ Relations[r].from_way # 0 /\ Relations[r].to_way # 0
<1>. DEFINE s == extract.relations
            K == {r \in DOMAIN s : 0 \notin {s[r].from_way, s[r].to_way, s[r].via}}
<1>1. s \in Seq(OsmRestriction)
  BY ExtractsAssumption DEF IsExtract
<1>2. Relations = Picked(s, K)
  BY DEF Relations
<1>. HIDE DEF s
<1>3. K \in SUBSET DOMAIN s /\ \A r \in K : s[r].from_way # 0 /\ s[r].to_way # 0
  OBVIOUS
<1>. HIDE DEF K
<1>4. Relations \in Seq(OsmRestriction)
  BY <1>1, <1>2, <1>3, PickedFacts
<1>5. PICK at : Rising(at, K) /\ Relations = [k \in 1 .. Cardinality(K) |-> s[at[k]]]
  BY <1>1, <1>2, <1>3, PickedFacts
<1>6. \A r \in DOMAIN Relations : Relations[r].from_way # 0 /\ Relations[r].to_way # 0
  BY <1>3, <1>5 DEF Rising
<1>7. \A r \in DOMAIN Relations : Relations[r] \in OsmRestriction
  BY <1>4
<1>. QED
  BY <1>4, <1>6, <1>7

-----------------------------------------------------------------------------
(* Counting.                                                               *)

LEMMA UsesOfFacts ==
    ASSUME NEW refs \in Seq(Nat), NEW o
    PROVE  /\ UsesOf(refs, o) \in Nat
           /\ \A k \in DOMAIN refs : refs[k] = o =>
                 /\ UsesOf(refs, o) >= 1
                 /\ k \in {1, Len(refs)} => UsesOf(refs, o) >= 2
                 /\ \A j \in DOMAIN refs : refs[j] = o /\ j # k => UsesOf(refs, o) >= 2
<1>. DEFINE S == {x \in DOMAIN refs : refs[x] = o}
            weight == [k \in S |-> IF k \in {1, Len(refs)} THEN 2 ELSE 1]
<1>1. UsesOf(refs, o) = Total(weight)
  BY DEF UsesOf
<1>2. IsFiniteSet(S)
  <2>1. DOMAIN refs = 1 .. Len(refs) /\ Len(refs) \in Nat
    OBVIOUS
  <2>2. IsFiniteSet(1 .. Len(refs))
    BY <2>1, FS_Interval
  <2>. QED
    BY <2>1, <2>2, FS_Subset
<1>3. /\ weight \in [S -> Nat]
      /\ \A k \in S : weight[k] >= 1 /\ (k \in {1, Len(refs)} => weight[k] = 2)
  OBVIOUS
<1>. HIDE DEF weight
<1>4. Total(weight) \in Nat
  BY <1>2, <1>3, TotalTyped
<1>5. /\ \A x \in S : weight[x] <= Total(weight)
      /\ \A x, y \in S : x # y => weight[x] + weight[y] <= Total(weight)
  BY <1>2, <1>3, TotalAtLeast
<1>. DEFINE t == Total(weight)
<1>. HIDE DEF t
<1>6. ASSUME NEW k \in S
      PROVE  /\ t >= 1 
             /\ k \in {1, Len(refs)} => t >= 2
             /\ \A j \in S : j # k => t >= 2
  <2>1. weight[k] \in Nat /\ weight[k] >= 1 /\ weight[k] <= t /\ t \in Nat
    BY <1>3, <1>4, <1>5 DEF t
  <2>2. ASSUME NEW j \in S, j # k PROVE t >= 2
    <3>1. weight[j] \in Nat /\ weight[j] >= 1 /\ weight[k] + weight[j] <= t
      BY <1>3, <1>5, <2>2 DEF t
    <3>. QED
      BY <2>1, <3>1
  <2>. QED
    BY <1>3, <2>1, <2>2
<1>. QED
  BY <1>1, <1>4, <1>6 DEF t

(* The ways counted so far.                                                *)
Counting == IF pc = "count" THEN 1 .. w - 1 ELSE DOMAIN Ways

(* What the count knows of the k-th node of a way.                         *)
UsedAt(y, k) ==
    /\ Refs(y)[k] \in DOMAIN node_usage
    /\ node_usage[Refs(y)[k]] >= 1
    /\ k \in {1, Last(y)} => node_usage[Refs(y)[k]] >= 2
    /\ \A z \in Counting : \A j \in 1 .. Last(z) :
          Refs(z)[j] = Refs(y)[k] /\ ~(z = y /\ j = k) => node_usage[Refs(y)[k]] >= 2

Used ==
    /\ IsFiniteSet(DOMAIN node_usage)
    /\ \A o \in DOMAIN node_usage :
          /\ node_usage[o] \in Nat
          /\ \E y \in Counting : \E k \in 1 .. Last(y) : Refs(y)[k] = o
    /\ \A y \in Counting : \A k \in 1 .. Last(y) : UsedAt(y, k)

LEMMA UsedStep ==
    ASSUME extract \in Extracts, w \in Nat \ {0}, Used, Count PROVE Used'
<1>1. /\ pc = "count" /\ pc' = "count" /\ w <= Len(Ways) /\ w' = w + 1 /\ extract' = extract
  BY DEF Count
<1>. DEFINE on == {Refs(w)[k] : k \in DOMAIN Refs(w)}
            before(o) == IF o \in DOMAIN node_usage THEN node_usage[o] ELSE 0
            uses(o) == UsesOf(Refs(w), o)
<1>2. node_usage' = [o \in DOMAIN node_usage \cup on |-> before(o) + uses(o)]
  BY DEF Count, Refs
<1>3. /\ w \in DOMAIN Ways /\ Refs(w) \in Seq(Nat) /\ DOMAIN Refs(w) = 1 .. Last(w)
      /\ Last(w) = Len(Refs(w)) /\ Last(w) \in Nat /\ Len(Ways) \in Nat
      /\ \A y \in 1 .. Len(Ways) : Last(y) \in Nat
  BY <1>1, WaysTyped DEF Refs, Last
<1>4. /\ Ways' = Ways /\ \A y : Refs(y)' = Refs(y) /\ Last(y)' = Last(y)
      /\ Counting = 1 .. w - 1 /\ Counting' = Counting \cup {w} /\ w \notin Counting
  BY <1>1 DEF Ways, Refs, Last, Counting
<1>5. on = {Refs(w)[k] : k \in 1 .. Last(w)}
  BY <1>3
<1>6. IsFiniteSet(DOMAIN node_usage')
  <2>1. IsFiniteSet(1 .. Last(w))
    BY <1>3, FS_Interval
  <2>2. IsFiniteSet(on)
    <3>1. [k \in 1 .. Last(w) |-> Refs(w)[k]] \in Surjection(1 .. Last(w), on)
      BY <1>5 DEF Surjection
    <3>. QED
      BY <2>1, <3>1, FS_Surjection
  <2>3. DOMAIN node_usage' = DOMAIN node_usage \cup on
    BY <1>2
  <2>. HIDE DEF on
  <2>. QED
    <3>1. IsFiniteSet(DOMAIN node_usage)
      BY DEF Used
    <3>. QED
      BY <2>2, <2>3, <3>1, FS_Union
<1>7. /\ \A o : before(o) \in Nat /\ uses(o) \in Nat
      /\ \A k \in 1 .. Last(w) :
            /\ uses(Refs(w)[k]) >= 1
            /\ k \in {1, Last(w)} => uses(Refs(w)[k]) >= 2
            /\ \A j \in 1 .. Last(w) : Refs(w)[j] = Refs(w)[k] /\ j # k => uses(Refs(w)[k]) >= 2
  <2>1. \A o : before(o) \in Nat
    BY DEF Used
  <2>2. \A o : uses(o) \in Nat
    BY <1>3, UsesOfFacts
  <2>3. ASSUME NEW k \in 1 .. Last(w)
        PROVE  /\ uses(Refs(w)[k]) >= 1
               /\ k \in {1, Last(w)} => uses(Refs(w)[k]) >= 2
               /\ \A j \in 1 .. Last(w) : Refs(w)[j] = Refs(w)[k] /\ j # k => uses(Refs(w)[k]) >= 2
    BY <1>3, UsesOfFacts
  <2>. QED
    BY <2>1, <2>2, <2>3
<1>8. \A o \in DOMAIN node_usage' : node_usage'[o] \in Nat
  BY <1>2, <1>7
<1>9. \A o \in DOMAIN node_usage' :
         \E y \in Counting \cup {w} : \E k \in 1 .. Last(y) : Refs(y)[k] = o
  <2>. HIDE DEF before, uses
  <2>. QED
    BY <1>2, <1>4, <1>5 DEF Used
<1>10. ASSUME NEW y \in Counting', NEW k \in 1 .. Last(y)' PROVE UsedAt(y, k)'
  <2>a. y \in Counting \cup {w} /\ k \in 1 .. Last(y)
    BY <1>4
  <2>. DEFINE o == Refs(y)[k]
  <2>. HIDE DEF uses
  <2>1. o \in DOMAIN node_usage \cup on /\ o \in DOMAIN node_usage'
    BY <1>2, <1>5, <2>a DEF Used, UsedAt
  <2>2. node_usage'[o] = before(o) + uses(o) /\ before(o) \in Nat /\ uses(o) \in Nat
    <3>. HIDE DEF before, o, on
    <3>. QED
      BY <1>2, <1>7, <2>1
  <2>3. ASSUME y \in Counting
        PROVE  /\ before(o) >= 1
               /\ k \in {1, Last(y)} => before(o) >= 2
               /\ \A z \in Counting : \A j \in 1 .. Last(z) :
                     Refs(z)[j] = o /\ ~(z = y /\ j = k) => before(o) >= 2
    BY <2>3, <2>a DEF Used, UsedAt
  <2>4. ASSUME y = w
        PROVE  /\ uses(o) >= 1
               /\ k \in {1, Last(y)} => uses(o) >= 2
               /\ \A j \in 1 .. Last(w) : Refs(w)[j] = o /\ j # k => uses(o) >= 2
    BY <1>7, <2>4, <2>a
  <2>5. \A z \in Counting : \A j \in 1 .. Last(z) : Refs(z)[j] = o => before(o) >= 1
    <3>. SUFFICES ASSUME NEW z \in Counting, NEW j \in 1 .. Last(z), Refs(z)[j] = o
                  PROVE  before(o) >= 1
      OBVIOUS
    <3>. QED
      BY DEF Used, UsedAt
  <2>6. \A j \in 1 .. Last(w) : Refs(w)[j] = o => uses(o) >= 1
    BY <1>7
  <2>. DEFINE u == node_usage'[o]
              b == before(o)
              s == uses(o)
  <2>7. u = b + s /\ b \in Nat /\ s \in Nat
    BY <2>2
  <2>. HIDE DEF before, u, b, s, o
  <2>8. u >= 1 /\ (k \in {1, Last(y)} => u >= 2)
    BY <2>a, <2>3, <2>4, <2>7 DEF b, s
  <2>9. ASSUME NEW z \in Counting \cup {w}, NEW j \in 1 .. Last(z),
               Refs(z)[j] = o, ~(z = y /\ j = k)
        PROVE  u >= 2
    <3>1. CASE y \in Counting /\ z \in Counting
      BY <2>3, <2>7, <2>9, <3>1 DEF b, s
    <3>2. CASE y = w /\ z = w
      BY <2>4, <2>7, <2>9, <3>2 DEF b, s
    <3>3. CASE y # w /\ z = w
      BY <2>a, <2>3, <2>6, <2>7, <2>9, <3>3 DEF b, s
    <3>4. CASE y = w /\ z # w
      BY <2>4, <2>5, <2>7, <2>9, <3>4 DEF b, s
    <3>. QED
      BY <2>a, <2>9, <3>1, <3>2, <3>3, <3>4
  <2>. QED
    BY <1>4, <2>1, <2>8, <2>9 DEF UsedAt, o, u
<1>. HIDE DEF before, uses, on
<1>. QED
  BY <1>4, <1>6, <1>8, <1>9, <1>10 DEF Used

(* Numbers that rise through all of 1 .. n are in their places.            *)
LEMMA RisesThroughAll ==
    ASSUME NEW n \in Nat, NEW at, Rising(at, 1 .. n)
    PROVE  Cardinality(1 .. n) = n /\ \A k \in 1 .. n : at[k] = k
<1>1. Cardinality(1 .. n) = n
  BY FS_Interval
<1>2. /\ at \in [1 .. n -> 1 .. n]
      /\ \A x \in 1 .. n : \E k \in 1 .. n : at[k] = x
      /\ \A j, k \in 1 .. n : j < k => at[j] < at[k]
  BY <1>1 DEF Rising
<1>. DEFINE Off == {k \in 1 .. n : at[k] # k}
<1>. SUFFICES ASSUME Off # {} PROVE FALSE
  BY <1>1
<1>3. PICK k \in Off : \A j \in Off : k <= j
  <2>1. Off \in SUBSET Nat
    OBVIOUS
  <2>. HIDE DEF Off
  <2>. QED
    BY <2>1, LeastNatural
<1>4. k \in 1 .. n /\ at[k] \in 1 .. n /\ at[k] # k
  BY <1>2, <1>3
<1>5. \A j \in 1 .. n : j < k => at[j] = j
  <2>. SUFFICES ASSUME NEW j \in 1 .. n, j < k, at[j] # j PROVE FALSE
    OBVIOUS
  <2>1. j \in Off
    OBVIOUS
  <2>. QED
    BY <1>3, <1>4, <2>1
<1>6. at[k] > k
  <2>. SUFFICES ASSUME at[k] < k PROVE FALSE
    BY <1>4
  <2>1. at[at[k]] = at[k]
    BY <1>4, <1>5
  <2>. QED
    BY <1>2, <1>4, <2>1
<1>7. PICK j \in 1 .. n : at[j] = k
  BY <1>2, <1>4
<1>8. CASE j < k
  BY <1>5, <1>7, <1>8
<1>9. CASE j = k
  BY <1>4, <1>7, <1>9
<1>10. CASE j > k
  <2>1. at[k] < at[j]
    BY <1>2, <1>4, <1>10
  <2>. QED
    BY <1>4, <1>6, <1>7, <2>1
<1>. QED
  BY <1>4, <1>7, <1>8, <1>9, <1>10

-----------------------------------------------------------------------------
(* Numbering.                                                              *)

Crossings == {o \in DOMAIN node_usage : node_usage[o] >= 2}

Numbered ==
    /\ DOMAIN osm_to_internal = {o \in Crossings : Located(o)}
    /\ \A o \in DOMAIN osm_to_internal : osm_to_internal[o] \in Nat
    /\ \A o, q \in DOMAIN osm_to_internal :
          osm_to_internal[o] = osm_to_internal[q] => o = q
    /\ node_ids \in Seq(Nat) /\ nodes \in Seq(DOMAIN osm_to_internal)
    /\ Len(nodes) = Len(node_ids)
    /\ \A k \in DOMAIN nodes : node_ids[k] = osm_to_internal[nodes[k]]
    /\ \A o \in DOMAIN osm_to_internal : \E k \in DOMAIN nodes : nodes[k] = o
    /\ \A j, k \in DOMAIN node_ids : j < k => node_ids[j] < node_ids[k]
    /\ Complete => \A k \in DOMAIN node_ids : node_ids[k] = k - 1

LEMMA NumberNumbers ==
    ASSUME extract \in Extracts, w \in Nat, w <= Len(Ways) + 1, Used, Number PROVE Numbered'
<1>. DEFINE n == Cardinality(Crossings)
<1>1. PICK order \in Enumerations(Crossings) :
          LET all   == [k \in DOMAIN order |-> k]
              known == Picked(all, {k \in DOMAIN order : Located(order[k])})
          IN  /\ nodes' = [k \in DOMAIN known |-> order[known[k]]]
              /\ node_ids' = [k \in DOMAIN known |-> known[k] - 1]
              /\ osm_to_internal' =
                    [o \in {order[k] : k \in {known[x] : x \in DOMAIN known}} |->
                        (CHOOSE k \in DOMAIN order : order[k] = o) - 1]
  BY DEF Number, Crossings
<1>2. /\ order \in [1 .. n -> Crossings]
      /\ {order[k] : k \in DOMAIN order} = Crossings
  BY DEF Enumerations
<1>3. IsFiniteSet(Crossings) /\ n \in Nat
  <2>1. IsFiniteSet(DOMAIN node_usage) /\ Crossings \in SUBSET DOMAIN node_usage
    BY DEF Used, Crossings
  <2>. QED
    BY <2>1, FS_Subset, FS_CardinalityType
<1>. HIDE DEF n
<1>4. \A j, k \in 1 .. n : order[j] = order[k] => j = k
  <2>1. order \in Surjection(1 .. n, Crossings)
    BY <1>2 DEF Surjection
  <2>2. IsFiniteSet(1 .. n) /\ Cardinality(1 .. n) = n
    BY <1>3, FS_Interval
  <2>3. order \in Injection(1 .. n, Crossings)
    BY <2>1, <2>2, FS_Surjection DEF n
  <2>. QED
    BY <2>3 DEF Injection, IsInjective
<1>. DEFINE K == {k \in DOMAIN order : Located(order[k])}
            all == [k \in DOMAIN order |-> k]
            known == Picked(all, K)
            m == Cardinality(K)
<1>5. /\ all \in Seq(Nat) /\ DOMAIN all = 1 .. n
      /\ K \in SUBSET (1 .. n) /\ K \in SUBSET DOMAIN all
      /\ \A k \in 1 .. n : all[k] = k
  BY <1>2, <1>3
<1>6. K = {k \in 1 .. n : Located(order[k])}
  BY <1>2
<1>. DEFINE Number2 ==
        /\ nodes' = [k \in DOMAIN known |-> order[known[k]]]
        /\ node_ids' = [k \in DOMAIN known |-> known[k] - 1]
        /\ osm_to_internal' =
              [o \in {order[k] : k \in {known[x] : x \in DOMAIN known}} |->
                  (CHOOSE k \in DOMAIN order : order[k] = o) - 1]
<1>7. Number2
  BY <1>1
<1>. HIDE DEF all, K
<1>8. PICK at : Rising(at, K) /\ known = [k \in 1 .. m |-> all[at[k]]]
  <2>1. all \in Seq(Nat) /\ K \in SUBSET DOMAIN all
    BY <1>5
  <2>. QED
    BY <2>1, PickedFacts, Zenon
<1>. HIDE DEF known, m
<1>9. /\ m \in Nat /\ at \in [1 .. m -> K] /\ known = at /\ DOMAIN known = 1 .. m
      /\ \A x \in K : \E k \in 1 .. m : at[k] = x
      /\ \A j, k \in 1 .. m : j < k => at[j] < at[k]
  <2>1. /\ m \in Nat /\ at \in [1 .. m -> K]
        /\ \A x \in K : \E k \in 1 .. m : at[k] = x
        /\ \A j, k \in 1 .. m : j < k => at[j] < at[k]
    BY <1>8 DEF Rising, m
  <2>2. \A k \in 1 .. m : all[at[k]] = at[k]
    BY <1>5, <2>1
  <2>. QED
    BY <1>8, <2>1, <2>2
<1>10. {known[x] : x \in DOMAIN known} = K
  BY <1>9
<1>11. /\ DOMAIN osm_to_internal' = {order[k] : k \in K}
       /\ \A k \in K : osm_to_internal'[order[k]] = k - 1
  <2>1. \A k \in 1 .. n : (CHOOSE j \in DOMAIN order : order[j] = order[k]) = k
    <3>. SUFFICES ASSUME NEW k \in 1 .. n
                  PROVE  (CHOOSE j \in DOMAIN order : order[j] = order[k]) = k
      OBVIOUS
    <3>. DEFINE c == CHOOSE j \in DOMAIN order : order[j] = order[k]
    <3>1. c \in DOMAIN order /\ order[c] = order[k]
      BY <1>2
    <3>. HIDE DEF c
    <3>. QED
      BY <1>2, <1>4, <3>1 DEF c
  <2>2. osm_to_internal' = [o \in {order[k] : k \in K} |->
                               (CHOOSE k \in DOMAIN order : order[k] = o) - 1]
    BY <1>7, <1>10
  <2>3. K \in SUBSET (1 .. n)
    BY <1>5
  <2>. QED
    BY <2>1, <2>2, <2>3
<1>12. {order[k] : k \in K} = {o \in Crossings : Located(o)}
  BY <1>2, <1>6
<1>13. Crossings' = Crossings /\ (\A o : Located(o)' = Located(o)) /\ Complete' = Complete
       /\ Ways' = Ways
  BY DEF Number, Crossings, Located, Complete, Ways
<1>14. DOMAIN osm_to_internal' = {o \in Crossings : Located(o)}
  BY <1>11, <1>12
<1>15. /\ \A o \in DOMAIN osm_to_internal' : osm_to_internal'[o] \in Nat
       /\ \A o, q \in DOMAIN osm_to_internal' :
             osm_to_internal'[o] = osm_to_internal'[q] => o = q
  <2>1. \A k \in K : k \in Nat /\ k - 1 \in Nat
    BY <1>3, <1>5
  <2>2. \A j, k \in K : j - 1 = k - 1 => j = k
    BY <2>1
  <2>3. \A o \in DOMAIN osm_to_internal' : \E k \in K :
            o = order[k] /\ osm_to_internal'[o] = k - 1
    BY <1>11
  <2>. QED
    BY <2>1, <2>2, <2>3
<1>16. /\ nodes' = [k \in 1 .. m |-> order[at[k]]]
       /\ node_ids' = [k \in 1 .. m |-> at[k] - 1]
  BY <1>7, <1>9
<1>17. \A k \in 1 .. m : at[k] \in K /\ at[k] \in Nat /\ at[k] - 1 \in Nat
  <2>1. \A x \in K : x \in Nat /\ x - 1 \in Nat
    BY <1>3, <1>5
  <2>2. \A k \in 1 .. m : at[k] \in K
    BY <1>9
  <2>. QED
    BY <2>1, <2>2
<1>18. /\ node_ids' \in Seq(Nat) /\ nodes' \in Seq(DOMAIN osm_to_internal')
       /\ Len(nodes') = m /\ Len(node_ids') = m
       /\ DOMAIN nodes' = 1 .. m /\ DOMAIN node_ids' = 1 .. m
  <2>1. \A k \in 1 .. m : order[at[k]] \in DOMAIN osm_to_internal'
    BY <1>11, <1>17
  <2>. QED
    BY <1>9, <1>16, <1>17, <2>1
<1>19. /\ \A k \in DOMAIN nodes' : node_ids'[k] = osm_to_internal'[nodes'[k]]
       /\ \A o \in DOMAIN osm_to_internal' : \E k \in DOMAIN nodes' : nodes'[k] = o
  <2>1. ASSUME NEW k \in DOMAIN nodes' PROVE node_ids'[k] = osm_to_internal'[nodes'[k]]
    BY <1>11, <1>16, <1>17, <1>18
  <2>2. ASSUME NEW o \in DOMAIN osm_to_internal' PROVE \E k \in DOMAIN nodes' : nodes'[k] = o
    <3>1. PICK x \in K : o = order[x]
      BY <1>11
    <3>2. PICK k \in 1 .. m : at[k] = x
      BY <1>9
    <3>. QED
      BY <1>16, <1>18, <3>1, <3>2
  <2>. QED
    BY <2>1, <2>2
<1>20. \A j, k \in DOMAIN node_ids' : j < k => node_ids'[j] < node_ids'[k]
  BY <1>9, <1>16, <1>17, <1>18
<1>21. ASSUME Complete PROVE \A k \in DOMAIN node_ids' : node_ids'[k] = k - 1
  <2>1. \A o \in DOMAIN node_usage : Located(o)
    <3>. SUFFICES ASSUME NEW o \in DOMAIN node_usage PROVE Located(o)
      OBVIOUS
    <3>1. PICK y \in Counting : \E k \in 1 .. Last(y) : Refs(y)[k] = o
      BY DEF Used
    <3>2. y \in DOMAIN Ways
      <4>1. Counting \subseteq DOMAIN Ways
        <5>1. pc = "count" /\ w > Len(Ways)
          BY DEF Number
        <5>2. DOMAIN Ways = 1 .. Len(Ways) /\ Len(Ways) \in Nat
          BY WaysTyped
        <5>. QED
          BY <5>1, <5>2 DEF Counting
      <4>. QED
        BY <4>1
    <3>. QED
      BY <1>21, <3>1, <3>2, WaysTyped DEF Complete, Refs, Last
  <2>2. K = 1 .. n
    BY <1>2, <1>6, <2>1 DEF Crossings
  <2>3. Rising(at, 1 .. n)
    BY <1>8, <2>2
  <2>4. m = n /\ \A k \in 1 .. n : at[k] = k
    BY <1>3, <2>2, <2>3, RisesThroughAll DEF m
  <2>. QED
    BY <1>16, <1>18, <2>4
<1>. QED
  BY <1>13, <1>14, <1>15, <1>18, <1>19, <1>20, <1>21 DEF Numbered

-----------------------------------------------------------------------------
(* Splitting.                                                              *)

OsmEdge ==
    [from : Nat, to : Nat, way : Nat, distance : Nat, road_class : Nat, oneway : BOOLEAN]

Stop(y, k) == Refs(y)[k] \in DOMAIN osm_to_internal

(* From a to b way y passes no graph node.                                 *)
Strip(y, a, b) ==
    /\ y \in DOMAIN Ways /\ a \in 1 .. Last(y) /\ b \in 1 .. Last(y) /\ a < b
    /\ Stop(y, a) /\ Stop(y, b)
    /\ \A k \in a + 1 .. b - 1 : ~Stop(y, k)

(* A strip driven ahead (TRUE) or back, and its edge.                      *)
Lane(p) == Strip(p[1], p[2], p[3]) /\ (p[4] \/ ~Ways[p[1]].oneway)

EdgeAlong(p) ==
    LET a == Refs(p[1])[p[2]]
        b == Refs(p[1])[p[3]]
        d == LengthOf(Refs(p[1]), p[2], p[3])
    IN  IF p[4] THEN EdgeOf(Ways[p[1]], a, b, d) ELSE EdgeOf(Ways[p[1]], b, a, d)

SplitAt(y, b) ==
    /\ pc # "count"
    /\ pc = "split" => y < w \/ (y = w /\ b < i)

Lanes == {p \in (DOMAIN Ways) \X Nat \X Nat \X BOOLEAN : Lane(p) /\ SplitAt(p[1], p[3])}

(* es lists the edges of the lanes L once each, f which.                   *)
Lists(f, es, L) ==
    /\ es \in Seq(OsmEdge) /\ f \in [1 .. Len(es) -> L]
    /\ \A p \in L : \E k \in 1 .. Len(es) : f[k] = p
    /\ \A j, k \in 1 .. Len(es) : f[j] = f[k] => j = k
    /\ \A k \in 1 .. Len(es) : es[k] = EdgeAlong(f[k])

EdgesListed == \E f : Lists(f, edges, Lanes)

LEMMA LegsTyped ==
    ASSUME extract \in Extracts, NEW refs, NEW a \in Int, NEW b \in Int
    PROVE  LengthOf(refs, a, b) \in Nat
<1>. DEFINE S == {x \in a .. b - 1 : Located(refs[x]) /\ Located(refs[x + 1])}
            weight == [k \in S |-> Apart(extract.located[refs[k]], extract.located[refs[k + 1]])]
<1>1. IsFiniteSet(S)
  <2>1. IsFiniteSet(a .. b - 1)
    BY FS_Interval
  <2>. QED
    BY <2>1, FS_Subset
<1>2. weight \in [S -> Nat]
  <2>1. \A x, y \in Int : Apart(x, y) \in Nat
    BY DEF Apart
  <2>2. \A o : Located(o) => extract.located[o] \in Int
    BY ExtractsAssumption DEF IsExtract, Located
  <2>. QED
    BY <2>1, <2>2
<1>. QED
  BY <1>1, <1>2, TotalTyped DEF LengthOf

LEMMA LaneFacts ==
    ASSUME extract \in Extracts, Numbered, NEW p, Lane(p), p[4] \in BOOLEAN
    PROVE  /\ EdgeAlong(p) \in OsmEdge
           /\ EdgeAlong(p).distance = LengthOf(Refs(p[1]), p[2], p[3])
           /\ EdgeAlong(p).way = Ways[p[1]].way_id
           /\ EdgeAlong(p).oneway = Ways[p[1]].oneway
           /\ {EdgeAlong(p).from, EdgeAlong(p).to}
                 = {osm_to_internal[Refs(p[1])[p[2]]], osm_to_internal[Refs(p[1])[p[3]]]}
           /\ EdgeAlong(p).from = osm_to_internal[Refs(p[1])[IF p[4] THEN p[2] ELSE p[3]]]
           /\ EdgeAlong(p).to = osm_to_internal[Refs(p[1])[IF p[4] THEN p[3] ELSE p[2]]]
<1>. DEFINE a == Refs(p[1])[p[2]]
            b == Refs(p[1])[p[3]]
            d == LengthOf(Refs(p[1]), p[2], p[3])
            way == Ways[p[1]]
<1>1. /\ a \in DOMAIN osm_to_internal /\ b \in DOMAIN osm_to_internal
      /\ p[1] \in DOMAIN Ways /\ p[2] \in Int /\ p[3] \in Int
  BY DEF Lane, Strip, Stop
<1>2. osm_to_internal[a] \in Nat /\ osm_to_internal[b] \in Nat
  BY <1>1 DEF Numbered
<1>3. d \in Nat
  BY <1>1, LegsTyped
<1>4. way.way_id \in Nat /\ way.road_class \in Nat /\ way.oneway \in BOOLEAN
  BY <1>1, WaysTyped DEF OsmWay
<1>5. EdgeAlong(p) = IF p[4] THEN EdgeOf(way, a, b, d) ELSE EdgeOf(way, b, a, d)
  BY DEF EdgeAlong
<1>. HIDE DEF a, b, d, way
<1>6. EdgeAlong(p) \in OsmEdge
  BY <1>2, <1>3, <1>4, <1>5 DEF EdgeOf, OsmEdge
<1>7. /\ EdgeAlong(p).distance = d /\ EdgeAlong(p).way = way.way_id
      /\ EdgeAlong(p).oneway = way.oneway
      /\ {EdgeAlong(p).from, EdgeAlong(p).to} = {osm_to_internal[a], osm_to_internal[b]}
      /\ EdgeAlong(p).from = osm_to_internal[IF p[4] THEN a ELSE b]
      /\ EdgeAlong(p).to = osm_to_internal[IF p[4] THEN b ELSE a]
  BY <1>5 DEF EdgeOf
<1>. QED
  BY <1>6, <1>7 DEF a, b, d, way

LEMMA ListsOneMore ==
    ASSUME NEW f, NEW es, NEW L, Lists(f, es, L), NEW p, p \notin L, EdgeAlong(p) \in OsmEdge
    PROVE  \E g : Lists(g, es \o <<EdgeAlong(p)>>, L \cup {p})
<1>. DEFINE n == Len(es)
            e == EdgeAlong(p)
            new == es \o <<e>>
            g == [k \in 1 .. n + 1 |-> IF k = n + 1 THEN p ELSE f[k]]
<1>1. /\ n \in Nat /\ es \in Seq(OsmEdge) /\ f \in [1 .. n -> L]
      /\ \A x \in L : \E k \in 1 .. n : f[k] = x
      /\ \A j, k \in 1 .. n : f[j] = f[k] => j = k
      /\ \A k \in 1 .. n : es[k] = EdgeAlong(f[k])
  BY DEF Lists
<1>2. /\ new \in Seq(OsmEdge) /\ Len(new) = n + 1 /\ new[n + 1] = e
      /\ \A k \in 1 .. n : new[k] = es[k]
  <2>1. <<e>> \in Seq(OsmEdge) /\ Len(<<e>>) = 1 /\ <<e>>[1] = e
    OBVIOUS
  <2>. HIDE DEF e
  <2>. QED
    BY <1>1, <2>1, ConcatProperties
<1>. HIDE DEF e, new, n
<1>3. /\ g \in [1 .. n + 1 -> L \cup {p}] /\ g[n + 1] = p
      /\ \A k \in 1 .. n : g[k] = f[k] /\ g[k] \in L
  BY <1>1
<1>. HIDE DEF g
<1>4. \A k \in 1 .. n + 1 : k \in 1 .. n \/ k = n + 1
  BY <1>1
<1>5. \A k \in 1 .. n + 1 : new[k] = EdgeAlong(g[k])
  BY <1>1, <1>2, <1>3, <1>4 DEF e
<1>6. \A x \in L \cup {p} : \E k \in 1 .. n + 1 : g[k] = x
  <2>1. n + 1 \in 1 .. n + 1 /\ \A k \in 1 .. n : k \in 1 .. n + 1
    BY <1>1
  <2>. QED
    BY <1>1, <1>3, <2>1
<1>7. \A j, k \in 1 .. n + 1 : g[j] = g[k] => j = k
  BY <1>1, <1>3, <1>4
<1>8. Lists(g, new, L \cup {p})
  BY <1>2, <1>3, <1>5, <1>6, <1>7 DEF Lists
<1>. QED
  BY <1>8 DEF new, e

(* A rearrangement of 1 .. n.                                              *)
Rearranges(order, n) ==
    /\ n \in Nat /\ order \in [1 .. n -> 1 .. n]
    /\ \A x \in 1 .. n : \E k \in 1 .. n : order[k] = x
    /\ \A j, k \in 1 .. n : order[j] = order[k] => j = k

(* Listed in another order.                                                *)
LEMMA ListsInOrder ==
    ASSUME NEW f, NEW es, NEW L, Lists(f, es, L),
           NEW order, Rearranges(order, Len(es))
    PROVE  \E g : Lists(g, [k \in 1 .. Len(es) |-> es[order[k]]], L)
<1>. DEFINE n == Len(es)
            new == [k \in 1 .. n |-> es[order[k]]]
            g == [k \in 1 .. n |-> f[order[k]]]
<1>1. /\ n \in Nat /\ \A k \in 1 .. n : es[k] \in OsmEdge
      /\ f \in [1 .. n -> L]
      /\ \A x \in L : \E k \in 1 .. n : f[k] = x
      /\ \A j, k \in 1 .. n : f[j] = f[k] => j = k
      /\ \A k \in 1 .. n : es[k] = EdgeAlong(f[k])
  BY DEF Lists
<1>. HIDE DEF n
<1>2. order \in [1 .. n -> 1 .. n]
      /\ (\A x \in 1 .. n : \E k \in 1 .. n : order[k] = x)
      /\ (\A j, k \in 1 .. n : order[j] = order[k] => j = k)
  BY DEF n, Rearranges
<1>3. new \in Seq(OsmEdge) /\ Len(new) = n
  <2>1. \A k \in 1 .. n : es[order[k]] \in OsmEdge
    BY <1>1, <1>2
  <2>. QED
    BY <1>1, <2>1
<1>4. g \in [1 .. n -> L] /\ \A k \in 1 .. n : new[k] = EdgeAlong(g[k])
  BY <1>1, <1>2
<1>5. \A x \in L : \E k \in 1 .. n : g[k] = x
  <2>. SUFFICES ASSUME NEW x \in L PROVE \E k \in 1 .. n : g[k] = x
    OBVIOUS
  <2>1. PICK j \in 1 .. n : f[j] = x
    BY <1>1
  <2>2. PICK k \in 1 .. n : order[k] = j
    BY <1>2
  <2>. QED
    BY <2>1, <2>2
<1>6. \A j, k \in 1 .. n : g[j] = g[k] => j = k
  <2>. SUFFICES ASSUME NEW j \in 1 .. n, NEW k \in 1 .. n, g[j] = g[k] PROVE j = k
    OBVIOUS
  <2>1. f[order[j]] = f[order[k]] /\ order[j] \in 1 .. n /\ order[k] \in 1 .. n
    BY <1>2
  <2>. QED
    BY <1>1, <1>2, <2>1
<1>. HIDE DEF new, g
<1>7. Lists(g, new, L)
  BY <1>3, <1>4, <1>5, <1>6 DEF Lists
<1>. QED
  BY <1>7 DEF new, n

Shape ==
    /\ extract \in Extracts
    /\ pc \in {"count", "split", "match", "done"}
    /\ w \in Nat \ {0} /\ w <= Len(Ways) + 1
    /\ i \in Nat /\ segment_start \in Nat \ {0} /\ segment_start < i
    /\ pc = "count" =>
          /\ i = 2 /\ segment_start = 1
          /\ edges = <<>> /\ nodes = <<>> /\ node_ids = <<>>

(* From where this way was split last no node before the i-th is a graph   *)
(* node; it was split at one, but for its first node and its last.         *)
Placed ==
    pc = "split" /\ w \in DOMAIN Ways =>
        /\ i <= Last(w) + 1 \/ i = 2
        /\ \A k \in segment_start + 1 .. i - 1 : ~Stop(w, k)
        /\ i <= Last(w) => segment_start = 1 \/ Stop(w, segment_start)

LEMMA SameStreets ==
    ASSUME UNCHANGED <<extract, osm_to_internal>>
    PROVE  /\ Ways' = Ways /\ Relations' = Relations /\ Complete' = Complete
           /\ \A y : Refs(y)' = Refs(y) /\ Last(y)' = Last(y)
           /\ \A o : Located(o)' = Located(o)
           /\ \A y, k : Stop(y, k)' = Stop(y, k)
           /\ \A y, a, b : Strip(y, a, b)' = Strip(y, a, b)
           /\ \A p : Lane(p)' = Lane(p) /\ EdgeAlong(p)' = EdgeAlong(p)
<1>1. Ways' = Ways /\ Relations' = Relations /\ (\A o : Located(o)' = Located(o))
  BY DEF Ways, Relations, Located
<1>2. /\ \A y : Refs(y)' = Refs(y) /\ Last(y)' = Last(y)
      /\ Complete' = Complete
  BY <1>1 DEF Refs, Last, Complete
<1>3. \A y, k : Stop(y, k)' = Stop(y, k)
  BY <1>2 DEF Stop
<1>4. \A y, a, b : Strip(y, a, b)' = Strip(y, a, b)
  BY <1>1, <1>2, <1>3 DEF Strip
<1>5. \A p : Lane(p)' = Lane(p)
  BY <1>1, <1>4 DEF Lane
<1>6. \A refs, a, b : LengthOf(refs, a, b)' = LengthOf(refs, a, b)
  BY DEF LengthOf, Located
<1>7. \A way, a, b, d : EdgeOf(way, a, b, d)' = EdgeOf(way, a, b, d)
  BY DEF EdgeOf
<1>8. \A p : EdgeAlong(p)' = EdgeAlong(p)
  BY <1>1, <1>2, <1>6, <1>7 DEF EdgeAlong
<1>. QED
  BY <1>1, <1>2, <1>3, <1>4, <1>5, <1>8

LEMMA StillListed ==
    ASSUME UNCHANGED <<extract, osm_to_internal>>,
           NEW f, NEW es, NEW L, Lists(f, es, L), edges' = es, Lanes' = L
    PROVE  EdgesListed'
<1>1. \A p : EdgeAlong(p)' = EdgeAlong(p)
  BY SameStreets
<1>. QED
  BY <1>1 DEF Lists, EdgesListed

LEMMA SplitSplits ==
    ASSUME Shape, Placed, Numbered, EdgesListed, Split
    PROVE  EdgesListed' /\ Placed' /\ Shape'
<1>. PICK s : s = segment_start
  OBVIOUS
<1>. DEFINE ends == Stop(w, i) \/ i = Last(w)
            ahead == <<w, s, i, TRUE>>
            back == <<w, s, i, FALSE>>
<1>1. /\ pc = "split" /\ pc' = "split" /\ w \in DOMAIN Ways /\ i <= Last(w)
      /\ edges' = IF ends THEN edges \o EdgesOf(Ways[w], s, i) ELSE edges
      /\ segment_start' = IF ends THEN i ELSE s
      /\ i' = i + 1
      /\ UNCHANGED <<extract, pc, w, node_usage, osm_to_internal, nodes, node_ids>>
  <2>1. DOMAIN Ways = 1 .. Len(Ways) /\ Len(Ways) \in Nat
    BY WaysTyped DEF Shape
  <2>2. w \in DOMAIN Ways
    BY <2>1 DEF Shape, Split
  <2>. QED
    BY <2>2 DEF Split, Stop, Refs, Last, counted, numbered
<1>2. /\ i \in Nat /\ s \in Nat /\ s >= 1 /\ s < i /\ Last(w) \in Nat /\ i <= Last(w)
      /\ extract \in Extracts /\ DOMAIN Refs(w) = 1 .. Last(w)
  BY <1>1, WaysTyped DEF Shape
<1>. HIDE DEF ends
<1>3. /\ \A k \in s + 1 .. i - 1 : ~Stop(w, k)
      /\ s = 1 \/ Stop(w, s)
  BY <1>1 DEF Placed
<1>4. Shape'
  <2>1. Ways' = Ways
    BY <1>1, SameStreets
  <2>. QED
    BY <1>1, <1>2, <2>1 DEF Shape
<1>5. Placed'
  <2>1. /\ Ways' = Ways /\ \A y : Last(y)' = Last(y)
        /\ \A y, k : Stop(y, k)' = Stop(y, k)
    BY <1>1, SameStreets
  <2>2. CASE ends
    <3>1. /\ segment_start' = i /\ i' = i + 1 
          /\ \A k \in i + 1 .. i + 1 - 1 : FALSE
          /\ i + 1 <= Last(w) + 1
      BY <1>1, <1>2, <2>2
    <3>2. i' <= Last(w) => Stop(w, i)
      BY <1>1, <1>2, <2>2 DEF ends
    <3>. QED
      BY <1>1, <2>1, <3>1, <3>2 DEF Placed
  <2>3. CASE ~ends
    <3>1. segment_start' = s /\ i' = i + 1 /\ i + 1 <= Last(w) + 1
      BY <1>1, <1>2, <2>3
    <3>2. \A k \in s + 1 .. i + 1 - 1 : ~Stop(w, k)
      BY <1>2, <1>3, <2>3 DEF ends
    <3>3. w' = w /\ pc' = pc
      BY <1>1
    <3>. DEFINE y == w
                a == s
                j == i + 1
    <3>4. \A k \in a + 1 .. j - 1 : ~Stop(y, k)
      BY <1>2, <3>2
    <3>5. j <= Last(y) => a = 1 \/ Stop(y, a)
      BY <1>3
    <3>6. j <= Last(y) + 1
      BY <3>1
    <3>. QED
      BY <2>1, <3>1, <3>3, <3>4, <3>5, <3>6 DEF Placed
  <2>. QED
    BY <2>2, <2>3
<1>. DEFINE new == {p \in (DOMAIN Ways) \X Nat \X Nat \X BOOLEAN :
                       Lane(p) /\ p[1] = w /\ p[3] = i}
<1>6. Lanes' = Lanes \cup new /\ new \cap Lanes = {}
  <2>1. Ways' = Ways /\ \A p : Lane(p)' = Lane(p)
    BY <1>1, SameStreets
  <2>2. \A y, b : b \in Int => (SplitAt(y, b)' <=> SplitAt(y, b) \/ (y = w /\ b = i))
    BY <1>1, <1>2 DEF SplitAt
  <2>3. \A b \in Int : b = i => ~SplitAt(w, b)
    BY <1>1, <1>2 DEF SplitAt, Shape
  <2>4. \A p \in (DOMAIN Ways) \X Nat \X Nat \X BOOLEAN : p[3] \in Int /\ p[1] \in DOMAIN Ways
    OBVIOUS
  <2>. QED
    BY <2>1, <2>2, <2>3, <2>4 DEF Lanes
<1>7. PICK f : Lists(f, edges, Lanes)
  BY DEF EdgesListed
<1>8. CASE ~(Stop(w, i) /\ Stop(w, s))
  <2>1. new = {}
    <3>. SUFFICES ASSUME NEW p \in new PROVE FALSE
      OBVIOUS
    <3>1. /\ p[2] \in Int /\ p[2] < i /\ p[2] >= 1 /\ Stop(w, p[2]) /\ Stop(w, i)
          /\ \A k \in p[2] + 1 .. i - 1 : ~Stop(w, k)
      BY DEF Lane, Strip
    <3>2. s = 1 /\ ~Stop(w, s)
      BY <1>3, <1>8, <3>1
    <3>3. p[2] # s /\ p[2] \in s + 1 .. i - 1
      BY <1>2, <3>1, <3>2
    <3>. QED
      BY <1>3, <3>1, <3>3
  <2>2. EdgesOf(Ways[w], s, i) = <<>>
    BY <1>8 DEF EdgesOf, Stop, Refs
  <2>3. edges \in Seq(OsmEdge)
    BY <1>7 DEF Lists
  <2>4. edges' = edges
    BY <1>1, <2>2, <2>3, ConcatEmptySeq
  <2>5. Lanes' = Lanes
    BY <1>6, <2>1
  <2>. QED
    BY <1>1, <1>4, <1>5, <1>7, <2>4, <2>5, StillListed
<1>9. CASE Stop(w, i) /\ Stop(w, s)
  <2>1. Strip(w, s, i)
    BY <1>1, <1>2, <1>3, <1>9 DEF Strip
  <2>2. \A a \in Nat : Strip(w, a, i) => a = s
    <3>. SUFFICES ASSUME NEW a \in Nat, Strip(w, a, i), a # s PROVE FALSE
      OBVIOUS
    <3>1. a < i /\ a >= 1 /\ Stop(w, a) /\ \A k \in a + 1 .. i - 1 : ~Stop(w, k)
      BY DEF Strip
    <3>2. CASE a < s
      <4>1. s \in a + 1 .. i - 1
        BY <1>2, <3>2
      <4>. QED
        BY <1>9, <3>1, <4>1
    <3>3. CASE s < a
      <4>1. a \in s + 1 .. i - 1
        BY <1>2, <3>1, <3>3
      <4>. QED
        BY <1>3, <3>1, <4>1
    <3>. QED
      BY <1>2, <3>2, <3>3
  <2>3. /\ ahead \in (DOMAIN Ways) \X Nat \X Nat \X BOOLEAN
        /\ back \in (DOMAIN Ways) \X Nat \X Nat \X BOOLEAN
        /\ ahead[1] = w /\ ahead[2] = s /\ ahead[3] = i /\ ahead[4] = TRUE
        /\ back[1] = w /\ back[2] = s /\ back[3] = i /\ back[4] = FALSE
        /\ ahead # back
    BY <1>1, <1>2
  <2>4. \A p \in (DOMAIN Ways) \X Nat \X Nat \X BOOLEAN :
            p[1] = w /\ p[2] = s /\ p[3] = i => p = ahead \/ p = back
    <3>. SUFFICES ASSUME NEW p \in (DOMAIN Ways) \X Nat \X Nat \X BOOLEAN,
                         p[1] = w, p[2] = s, p[3] = i
                  PROVE  p = ahead \/ p = back
      OBVIOUS
    <3>1. p = <<w, s, i, p[4]>> /\ p[4] \in BOOLEAN
      OBVIOUS
    <3>2. p[4] = TRUE \/ p[4] = FALSE
      BY <3>1
    <3>. QED
      BY <3>1, <3>2
  <2>. HIDE DEF ahead, back
  <2>5. Lane(ahead) /\ (Lane(back) <=> ~Ways[w].oneway)
    BY <2>1, <2>3 DEF Lane
  <2>6. new = {p \in {ahead, back} : Lane(p)}
    <3>1. \A p \in new : Strip(w, p[2], i) /\ p[2] \in Nat
      BY DEF Lane
    <3>2. \A p \in new : p[2] = s
      BY <2>2, <3>1
    <3>. QED
      BY <2>3, <2>4, <3>2
  <2>7. edges' = edges \o EdgesOf(Ways[w], s, i)
    BY <1>1, <1>9 DEF ends
  <2>8. /\ Ways[w].oneway \in BOOLEAN
        /\ EdgesOf(Ways[w], s, i) = IF Ways[w].oneway THEN <<EdgeAlong(ahead)>>
                                    ELSE <<EdgeAlong(ahead)>> \o <<EdgeAlong(back)>>
    <3>1. Ways[w].oneway \in BOOLEAN
      BY <1>1, <1>2, WaysTyped DEF OsmWay
    <3>2. {Ways[w].node_refs[s], Ways[w].node_refs[i]} \subseteq DOMAIN osm_to_internal
      BY <1>9 DEF Stop, Refs
    <3>3. /\ EdgeAlong(ahead) = EdgeOf(Ways[w], Ways[w].node_refs[s], Ways[w].node_refs[i],
                                       LengthOf(Ways[w].node_refs, s, i))
          /\ EdgeAlong(back) = EdgeOf(Ways[w], Ways[w].node_refs[i], Ways[w].node_refs[s],
                                      LengthOf(Ways[w].node_refs, s, i))
      BY <2>3 DEF EdgeAlong, Refs
    <3>. QED
      BY <3>1, <3>2, <3>3 DEF EdgesOf
  <2>9. EdgeAlong(ahead) \in OsmEdge /\ ahead \notin Lanes
    BY <1>2, <1>6, <2>3, <2>5, <2>6, LaneFacts
  <2>10. PICK g : Lists(g, edges \o <<EdgeAlong(ahead)>>, Lanes \cup {ahead})
    BY <1>7, <2>9, ListsOneMore
  <2>11. CASE Ways[w].oneway
    <3>1. Lanes' = Lanes \cup {ahead} /\ edges' = edges \o <<EdgeAlong(ahead)>>
      BY <1>6, <2>5, <2>6, <2>7, <2>8, <2>11
    <3>. QED
      BY <1>1, <1>4, <1>5, <2>10, <3>1, StillListed
  <2>12. CASE ~Ways[w].oneway
    <3>1. EdgeAlong(back) \in OsmEdge /\ back \notin Lanes \cup {ahead}
      BY <1>2, <1>6, <2>3, <2>5, <2>6, <2>12, LaneFacts
    <3>2. PICK h : Lists(h, (edges \o <<EdgeAlong(ahead)>>) \o <<EdgeAlong(back)>>,
                         (Lanes \cup {ahead}) \cup {back})
      BY <2>10, <3>1, ListsOneMore
    <3>3. Lanes' = (Lanes \cup {ahead}) \cup {back}
      BY <1>6, <2>5, <2>6, <2>12
    <3>4. edges' = (edges \o <<EdgeAlong(ahead)>>) \o <<EdgeAlong(back)>>
      <4>1. edges \in Seq(OsmEdge) /\ <<EdgeAlong(ahead)>> \in Seq(OsmEdge)
            /\ <<EdgeAlong(back)>> \in Seq(OsmEdge)
        BY <1>7, <2>9, <3>1 DEF Lists
      <4>. QED
        BY <2>7, <2>8, <2>12, <4>1, ConcatAssociative
    <3>. QED
      BY <1>1, <1>4, <1>5, <3>2, <3>3, <3>4, StillListed
  <2>. QED
    BY <2>8, <2>11, <2>12
<1>. QED
  BY <1>8, <1>9

-----------------------------------------------------------------------------
(* The indices of edges.                                                   *)

LEMMA InitialSegment ==
    ASSUME NEW m \in Nat, NEW K \in SUBSET (1 .. m), \A k \in K : \A j \in 1 .. k : j \in K
    PROVE  Cardinality(K) \in 0 .. m /\ K = 1 .. Cardinality(K)
<1>. DEFINE Off == {k \in 1 .. m : k \notin K}
<1>1. CASE Off = {}
  <2>1. K = 1 .. m
    BY <1>1
  <2>2. Cardinality(1 .. m) = m
    BY FS_Interval
  <2>. QED
    BY <2>1, <2>2
<1>2. CASE Off # {}
  <2>1. PICK c \in Off : \A d \in Off : c <= d
    <3>1. Off \in SUBSET Nat
      OBVIOUS
    <3>. HIDE DEF Off
    <3>. QED
      BY <1>2, <3>1, LeastNatural
  <2>2. c \in 1 .. m /\ c \notin K
    BY <2>1
  <2>3. ASSUME NEW j \in 1 .. c - 1 PROVE j \in K
    <3>. SUFFICES ASSUME j \notin K PROVE FALSE
      OBVIOUS
    <3>1. j \in Off
      BY <2>2
    <3>. QED
      BY <2>1, <2>2, <3>1
  <2>4. ASSUME NEW k \in K PROVE k \in 1 .. c - 1
    BY <2>2
  <2>5. K = 1 .. c - 1
    BY <2>3, <2>4
  <2>6. Cardinality(1 .. c - 1) = c - 1
    BY <2>2, FS_Interval
  <2>. QED
    BY <2>2, <2>5, <2>6
<1>. QED
  BY <1>1, <1>2

(* Of numbers in order those below u are the first, as many as the offset  *)
(* of u says.                                                              *)
Climbing(at, m) ==
    /\ m \in Nat /\ at \in [1 .. m -> Nat]
    /\ \A j, k \in 1 .. m : j < k => at[j] <= at[k]

LEMMA CountsTheFirst ==
    ASSUME NEW m, NEW at, Climbing(at, m), NEW u \in Nat
    PROVE  /\ Cardinality({k \in 1 .. m : at[k] < u}) \in Nat
           /\ \A k \in 1 .. m : k <= Cardinality({j \in 1 .. m : at[j] < u}) <=> at[k] < u
<1>. DEFINE K == {k \in 1 .. m : at[k] < u}
<1>1. m \in Nat /\ at \in [1 .. m -> Nat] /\ \A j, k \in 1 .. m : j < k => at[j] <= at[k]
  BY DEF Climbing
<1>2. \A k \in K : \A j \in 1 .. k : j \in K
  <2>. SUFFICES ASSUME NEW k \in K, NEW j \in 1 .. k PROVE j \in K
    OBVIOUS
  <2>1. j \in 1 .. m /\ k \in 1 .. m /\ at[k] < u /\ (j < k \/ j = k)
    BY <1>1
  <2>2. at[j] \in Nat /\ at[k] \in Nat /\ at[j] <= at[k]
    BY <1>1, <2>1
  <2>. QED
    BY <2>1, <2>2
<1>3. K \in SUBSET (1 .. m)
  OBVIOUS
<1>. DEFINE c == Cardinality(K)
<1>. HIDE DEF K
<1>4. c \in 0 .. m /\ K = 1 .. c
  BY <1>1, <1>2, <1>3, InitialSegment
<1>. HIDE DEF c
<1>5. \A k \in 1 .. m : k <= c <=> k \in K
  BY <1>1, <1>4
<1>6. \A k \in 1 .. m : k \in K <=> at[k] < u
  BY DEF K
<1>. QED
  BY <1>4, <1>5, <1>6 DEF c, K

(* Between the offsets of u and of its successor stands u.                 *)
IndexOf(range, at, m, n) ==
    /\ \A u \in 0 .. n : range[u] \in Nat
    /\ \A u \in 0 .. n - 1 : \A k \in Int :
          k \in range[u] + 1 .. range[u + 1] <=> k \in 1 .. m /\ at[k] = u

LEMMA OffsetsIndex ==
    ASSUME NEW m, NEW at, Climbing(at, m), NEW n \in Nat
    PROVE  IndexOf(Offsets(n, at), at, m, n)
<1>. DEFINE Below(u) == Cardinality({k \in 1 .. m : at[k] < u})
            range == Offsets(n, at)
<1>1. m \in Nat /\ DOMAIN at = 1 .. m /\ \A k \in 1 .. m : at[k] \in Nat
  BY DEF Climbing
<1>2. \A u \in 0 .. n : range[u] = Below(u)
  BY <1>1 DEF Offsets
<1>3. \A u \in Nat : Below(u) \in Nat /\ \A k \in 1 .. m : k <= Below(u) <=> at[k] < u
  BY CountsTheFirst
<1>4. \A u \in Nat : Below(u) <= m
  <2>. SUFFICES ASSUME NEW u \in Nat PROVE Below(u) <= m
    OBVIOUS
  <2>1. IsFiniteSet(1 .. m) /\ Cardinality(1 .. m) = m
    BY <1>1, FS_Interval
  <2>2. {k \in 1 .. m : at[k] < u} \in SUBSET (1 .. m)
    OBVIOUS
  <2>. QED
    BY <2>1, <2>2, FS_Subset
<1>. HIDE DEF Below, range
<1>5. \A u \in 0 .. n : range[u] \in Nat
  BY <1>2, <1>3
<1>6. ASSUME NEW u \in 0 .. n - 1, NEW k \in Int
      PROVE  k \in range[u] + 1 .. range[u + 1] <=> k \in 1 .. m /\ at[k] = u
  <2>1. /\ range[u] = Below(u) /\ range[u + 1] = Below(u + 1)
        /\ Below(u) \in Nat /\ Below(u + 1) \in Nat /\ Below(u + 1) <= m
        /\ u \in Nat /\ u + 1 \in Nat
    BY <1>2, <1>3, <1>4
  <2>2. CASE k \notin 1 .. m
    BY <1>1, <2>1, <2>2
  <2>3. CASE k \in 1 .. m
    <3>1. (k <= Below(u) <=> at[k] < u) /\ (k <= Below(u + 1) <=> at[k] < u + 1)
      BY <1>3, <2>1, <2>3
    <3>. QED
      BY <1>1, <2>1, <2>3, <3>1
  <2>. QED
    BY <2>2, <2>3
<1>. QED
  BY <1>5, <1>6 DEF IndexOf, range

(* Sorting by a key, equal keys in the order they had.                     *)
ByKey(key, S) ==
    {p \in S \X S : key[p[1]] < key[p[2]] \/ (key[p[1]] = key[p[2]] /\ p[1] < p[2])}

(* order lists S once each, with the keys climbing.                        *)
Arranges(order, S, key) ==
    LET c == Cardinality(S)
    IN  /\ c \in Nat /\ order \in [1 .. c -> S]
        /\ \A x \in S : \E k \in 1 .. c : order[k] = x
        /\ \A j, k \in 1 .. c : order[j] = order[k] => j = k
        /\ Climbing([k \in 1 .. c |-> key[order[k]]], c)

LEMMA KeysArranged ==
    ASSUME NEW S \in SUBSET Nat, IsFiniteSet(S), NEW key \in [S -> Nat]
    PROVE  Arranges(InOrder(S, ByKey(key, S)), S, key)
<1>. DEFINE c == Cardinality(S)
            R == ByKey(key, S)
            order == InOrder(S, R)
            Sooner(x, y) == key[x] < key[y] \/ (key[x] = key[y] /\ x < y)
<1>1. \A x, y \in S : <<x, y>> \in R <=> Sooner(x, y)
  BY DEF ByKey
<1>2. \A x \in S : x \in Nat /\ key[x] \in Nat
  OBVIOUS
<1>. HIDE DEF R
<1>3. IsOrder(R, S)
  <2>1. \A x \in S : <<x, x>> \notin R
    BY <1>1, <1>2
  <2>2. \A x, y \in S : x # y => <<x, y>> \in R \/ <<y, x>> \in R
    BY <1>1, <1>2
  <2>3. ASSUME NEW x \in S, NEW y \in S, NEW z \in S, <<x, y>> \in R, <<y, z>> \in R
        PROVE  <<x, z>> \in R
    <3>1. Sooner(x, y) /\ Sooner(y, z)
      BY <1>1, <2>3
    <3>2. Sooner(x, z)
      BY <1>2, <3>1
    <3>. QED
      BY <1>1, <3>2
  <2>. QED
    BY <2>1, <2>2, <2>3 DEF IsOrder
<1>4. Sorted(order, S, R, c)
  BY <1>3, InOrderSorts
<1>. HIDE DEF order, c
<1>5. /\ c \in Nat /\ order \in [1 .. c -> S]
      /\ \A x \in S : \E k \in 1 .. c : order[k] = x
      /\ \A j, k \in 1 .. c : j < k => <<order[j], order[k]>> \in R /\ order[j] # order[k]
  BY <1>4 DEF Sorted
<1>6. \A j, k \in 1 .. c : order[j] = order[k] => j = k
  <2>. SUFFICES ASSUME NEW j \in 1 .. c, NEW k \in 1 .. c, order[j] = order[k], j # k PROVE FALSE
    OBVIOUS
  <2>1. j < k \/ k < j
    BY <1>5
  <2>. QED
    BY <1>5, <2>1
<1>. DEFINE at == [k \in 1 .. c |-> key[order[k]]]
<1>7. Climbing(at, c)
  <2>1. at \in [1 .. c -> Nat]
    BY <1>5
  <2>2. ASSUME NEW j \in 1 .. c, NEW k \in 1 .. c, j < k PROVE at[j] <= at[k]
    <3>1. order[j] \in S /\ order[k] \in S /\ <<order[j], order[k]>> \in R
      BY <1>5, <2>2
    <3>2. Sooner(order[j], order[k])
      BY <1>1, <3>1
    <3>3. \A x, y \in S : Sooner(x, y) => key[x] <= key[y]
      BY <1>2
    <3>4. key[order[j]] <= key[order[k]]
      BY <3>1, <3>2, <3>3
    <3>. QED
      BY <3>4
  <2>. HIDE DEF at
  <2>. QED
    BY <1>5, <2>1, <2>2 DEF Climbing
<1>. QED
  BY <1>5, <1>6, <1>7 DEF Arranges, order, c, R

LEMMA EdgesTyped ==
    ASSUME NEW s \in Seq(OsmEdge)
    PROVE  /\ Len(s) \in Nat /\ DOMAIN s = 1 .. Len(s)
           /\ IsFiniteSet(DOMAIN s) /\ Cardinality(DOMAIN s) = Len(s)
           /\ \A k \in DOMAIN s :
                 /\ k \in Nat /\ s[k] \in OsmEdge
                 /\ s[k].from \in Nat /\ s[k].to \in Nat /\ s[k].distance \in Nat
                 /\ s[k].oneway \in BOOLEAN
<1>1. /\ Len(s) \in Nat /\ DOMAIN s = 1 .. Len(s)
      /\ \A k \in DOMAIN s : k \in Nat /\ s[k] \in OsmEdge
  OBVIOUS
<1>2. \A e \in OsmEdge : /\ e.from \in Nat /\ e.to \in Nat /\ e.distance \in Nat
                          /\ e.oneway \in BOOLEAN
  BY DEF OsmEdge
<1>3. IsFiniteSet(1 .. Len(s)) /\ Cardinality(1 .. Len(s)) = Len(s)
  BY <1>1, FS_Interval
<1>. QED
  BY <1>1, <1>2, <1>3

LEMMA SortsByFrom ==
    ASSUME NEW s \in Seq(OsmEdge)
    PROVE  /\ \E order : /\ Rearranges(order, Len(s))
                         /\ SortedByFrom(s) = [k \in 1 .. Len(s) |-> s[order[k]]]
           /\ Climbing(Starts(SortedByFrom(s)), Len(s))
<1>. DEFINE n == Len(s)
            key == [k \in DOMAIN s |-> s[k].from]
            order == InOrder(DOMAIN s, ByKey(key, DOMAIN s))
<1>1. /\ n \in Nat /\ DOMAIN s = 1 .. n /\ key \in [DOMAIN s -> Nat]
      /\ IsFiniteSet(DOMAIN s) /\ Cardinality(DOMAIN s) = n /\ DOMAIN s \in SUBSET Nat
  BY EdgesTyped
<1>2. SortedByFrom(s) = [k \in DOMAIN s |-> s[order[k]]]
  <2>1. ByKey(key, DOMAIN s) =
            {p \in (DOMAIN s) \X (DOMAIN s) :
                \/ s[p[1]].from < s[p[2]].from
                \/ s[p[1]].from = s[p[2]].from /\ p[1] < p[2]}
    BY DEF ByKey
  <2>. QED
    BY <2>1 DEF SortedByFrom
<1>. HIDE DEF key
<1>3. Arranges(order, DOMAIN s, key)
  BY <1>1, KeysArranged
<1>. HIDE DEF order, n
<1>4. /\ order \in [1 .. n -> 1 .. n]
      /\ \A x \in 1 .. n : \E k \in 1 .. n : order[k] = x
      /\ \A j, k \in 1 .. n : order[j] = order[k] => j = k
      /\ Climbing([k \in 1 .. n |-> key[order[k]]], n)
  BY <1>1, <1>3 DEF Arranges
<1>5. Rearranges(order, n)
  BY <1>1, <1>4 DEF Rearranges
<1>6. Starts(SortedByFrom(s)) = [k \in 1 .. n |-> key[order[k]]]
  BY <1>1, <1>2, <1>4 DEF Starts, key
<1>7. SortedByFrom(s) = [k \in 1 .. n |-> s[order[k]]]
  BY <1>1, <1>2
<1>8. Climbing(Starts(SortedByFrom(s)), n)
  BY <1>4, <1>6
<1>. QED
  BY <1>5, <1>7, <1>8 DEF n

(* rev lists, between the offsets of each node, the edges into it.         *)
ReverseOf(range, rev, s, n) ==
    \A u \in 0 .. n - 1 :
        /\ \A x \in range[u] + 1 .. range[u + 1] : rev[x] \in DOMAIN s /\ s[rev[x]].to = u
        /\ \A k \in DOMAIN s : s[k].to = u =>
              \E x \in range[u] + 1 .. range[u + 1] : rev[x] = k

LEMMA ReverseIndexes ==
    ASSUME NEW s \in Seq(OsmEdge), NEW n \in Nat
    PROVE  ReverseOf(Offsets(n, Ends(s)), ReverseIndices(n, s), s, n)
<1>. DEFINE led == {k \in DOMAIN s : s[k].to < n}
            key == [k \in led |-> s[k].to]
            order == InOrder(led, ByKey(key, led))
            rev == ReverseIndices(n, s)
            c == Cardinality(led)
<1>1. rev = [k \in DOMAIN s |-> IF k \in DOMAIN order THEN order[k] ELSE 1]
  <2>1. ByKey(key, led) = {p \in led \X led :
                              \/ s[p[1]].to < s[p[2]].to
                              \/ s[p[1]].to = s[p[2]].to /\ p[1] < p[2]}
    BY DEF ByKey
  <2>. HIDE DEF led, key
  <2>. QED
    BY <2>1 DEF ReverseIndices, led
<1>2. /\ Len(s) \in Nat /\ DOMAIN s = 1 .. Len(s) /\ led \in SUBSET DOMAIN s
      /\ IsFiniteSet(DOMAIN s) /\ Cardinality(DOMAIN s) = Len(s)
      /\ (\A k \in DOMAIN s : k \in Nat /\ s[k].to \in Nat)
      /\ (\A k \in DOMAIN s : s[k].to < n <=> k \in led)
  BY EdgesTyped
<1>. HIDE DEF led, rev
<1>3. key \in [led -> Nat] /\ led \in SUBSET Nat /\ \A k \in led : key[k] = s[k].to
  BY <1>2
<1>4. IsFiniteSet(led) /\ c \in Nat /\ c <= Len(s)
  BY <1>2, FS_Subset, FS_CardinalityType
<1>. HIDE DEF key
<1>5. Arranges(order, led, key)
  BY <1>3, <1>4, KeysArranged
<1>. HIDE DEF order, c
<1>. DEFINE at == [x \in 1 .. c |-> key[order[x]]]
<1>8. /\ order \in [1 .. c -> led] /\ DOMAIN order = 1 .. c
      /\ (\A x \in led : \E k \in 1 .. c : order[k] = x)
      /\ (\A j, k \in 1 .. c : order[j] = order[k] => j = k)
      /\ Climbing(at, c)
  BY <1>5 DEF Arranges, c
<1>9. \A x \in 1 .. c : rev[x] = order[x]
  BY <1>1, <1>2, <1>4, <1>8
<1>11. IndexOf(Offsets(n, at), at, c, n)
  BY <1>8, OffsetsIndex
<1>10. \A x \in 1 .. c : at[x] = s[order[x]].to /\ order[x] \in led
  BY <1>3, <1>8
<1>. HIDE DEF at
<1>12. Offsets(n, Ends(s)) = Offsets(n, at)
  <2>. DEFINE A(u) == {k \in DOMAIN s : s[k].to < u}
              B(u) == {x \in 1 .. c : at[x] < u}
  <2>1. \A u \in 0 .. n : Cardinality(A(u)) = Cardinality(B(u))
    <3>. SUFFICES ASSUME NEW u \in 0 .. n PROVE Cardinality(A(u)) = Cardinality(B(u))
      OBVIOUS
    <3>1. IsFiniteSet(B(u))
      <4>1. IsFiniteSet(1 .. c)
        BY <1>4, FS_Interval
      <4>. QED
        BY <4>1, FS_Subset
    <3>. DEFINE h == [x \in B(u) |-> order[x]]
    <3>2. \A x \in B(u) : x \in 1 .. c /\ order[x] \in A(u)
      BY <1>2, <1>10
    <3>3. \A k \in A(u) : \E x \in B(u) : order[x] = k
      <4>. SUFFICES ASSUME NEW k \in A(u) PROVE \E x \in B(u) : order[x] = k
        OBVIOUS
      <4>1. k \in led
        BY <1>2
      <4>. QED
        BY <1>8, <1>10, <4>1
    <3>4. \A x, y \in B(u) : order[x] = order[y] => x = y
      BY <1>8
    <3>. HIDE DEF A, B
    <3>5. h \in Bijection(B(u), A(u))
      BY <3>2, <3>3, <3>4 DEF Bijection, Injection, Surjection, IsInjective
    <3>6. ExistsBijection(B(u), A(u))
      BY <3>5 DEF ExistsBijection
    <3>. QED
      BY <3>1, <3>6, FS_Bijection
  <2>2. Offsets(n, Ends(s)) = [u \in 0 .. n |-> Cardinality(A(u))]
    BY DEF Offsets, Ends
  <2>3. Offsets(n, at) = [u \in 0 .. n |-> Cardinality(B(u))]
    BY <1>8 DEF Offsets, at
  <2>. HIDE DEF A, B
  <2>. QED
    BY <2>1, <2>2, <2>3
<1>. DEFINE range == Offsets(n, at)
<1>13. /\ \A u \in 0 .. n : range[u] \in Nat
       /\ \A u \in 0 .. n - 1 : \A x \in Int :
             x \in range[u] + 1 .. range[u + 1] <=> x \in 1 .. c /\ at[x] = u
  BY <1>11 DEF IndexOf
<1>. HIDE DEF range
<1>14. ASSUME NEW u \in 0 .. n - 1, NEW x \in range[u] + 1 .. range[u + 1]
       PROVE  rev[x] \in DOMAIN s /\ s[rev[x]].to = u
  <2>1. x \in 1 .. c /\ at[x] = u
    BY <1>13
  <2>. QED
    BY <1>2, <1>9, <1>10, <2>1
<1>15. ASSUME NEW u \in 0 .. n - 1, NEW k \in DOMAIN s, s[k].to = u
       PROVE  \E x \in range[u] + 1 .. range[u + 1] : rev[x] = k
  <2>1. k \in led
    BY <1>2, <1>15
  <2>2. PICK x \in 1 .. c : order[x] = k
    BY <1>8, <2>1
  <2>3. x \in range[u] + 1 .. range[u + 1]
    BY <1>10, <1>13, <1>15, <2>2
  <2>. QED
    BY <1>9, <2>2, <2>3
<1>. QED
  BY <1>12, <1>14, <1>15 DEF ReverseOf, range, rev

-----------------------------------------------------------------------------
(* The inductive invariant: the count is right, the way at hand has been   *)
(* split where it should, the edges so far are those of the lanes so far,  *)
(* and what is built of them later is what the indices need.               *)

SplitRight == pc # "count" => Numbered /\ EdgesListed

Kept == {r \in DOMAIN Relations : /\ Relations[r].via \in DOMAIN osm_to_internal
                                  /\ Relations[r].kind # "other"}

BuiltRight ==
    Built =>
        /\ IndexOf(offsets, Starts(edges), Len(edges), Len(nodes))
        /\ ReverseOf(rev_offsets, rev_edge_indices, edges, Len(nodes))
        /\ restrictions = {RestrictionOf(Relations[r]) : r \in Kept}

Served ==
    segments = IF pc = "done"
               THEN {k \in DOMAIN edges :
                        /\ ~Dropped(k)
                        /\ edges[k].from < Len(nodes) /\ edges[k].to < Len(nodes)}
               ELSE {}

IInv == Shape /\ Used /\ Placed /\ SplitRight /\ BuiltRight /\ Served

LEMMA Initially == Init => IInv
<1>. SUFFICES ASSUME Init PROVE IInv
  OBVIOUS
<1>1. Counting = {} /\ DOMAIN node_usage = {} /\ Len(Ways) \in Nat
  BY WaysTyped DEF Init, Counting
<1>2. Shape
  BY <1>1 DEF Init, Shape
<1>3. Used
  BY <1>1, FS_EmptySet DEF Used
<1>4. Placed /\ SplitRight /\ BuiltRight /\ Served
  BY DEF Init, Placed, SplitRight, BuiltRight, Built, Served
<1>. QED
  BY <1>2, <1>3, <1>4 DEF IInv

LEMMA CountStep == ASSUME IInv, Count PROVE IInv'
<1>1. /\ pc = "count" /\ pc' = "count" /\ w <= Len(Ways) /\ w' = w + 1
      /\ UNCHANGED <<extract, i, segment_start, nodes, node_ids, edges, segments>>
  BY DEF Count, numbered
<1>2. Used'
  BY UsedStep DEF IInv, Shape
<1>3. Shape'
  BY <1>1, WaysTyped DEF IInv, Shape, Ways
<1>. QED
  BY <1>1, <1>2, <1>3 DEF IInv, Placed, SplitRight, BuiltRight, Built, Served

LEMMA NumberStep == ASSUME IInv, Number PROVE IInv'
<1>1. /\ pc = "count" /\ pc' = "split" /\ w > Len(Ways) /\ w' = 1
      /\ UNCHANGED <<extract, i, segment_start, node_usage, edges, segments>>
  BY DEF Number
<1>2. /\ extract \in Extracts /\ i = 2 /\ segment_start = 1 /\ edges = <<>> /\ Len(Ways) \in Nat
      /\ w \in Nat /\ w <= Len(Ways) + 1 /\ DOMAIN Ways = 1 .. Len(Ways)
  BY <1>1, WaysTyped DEF IInv, Shape
<1>3. Numbered'
  BY <1>2, NumberNumbers DEF IInv
<1>4. Ways' = Ways /\ (\A y : Last(y)' = Last(y)) /\ (\A y : Refs(y)' = Refs(y))
  BY <1>1 DEF Ways, Last, Refs
<1>5. Shape'
  BY <1>1, <1>2, <1>4 DEF IInv, Shape
<1>6. Used'
  <2>1. Counting = DOMAIN Ways /\ Counting' = DOMAIN Ways
    BY <1>1, <1>2, <1>4 DEF Counting
  <2>2. \A y, k : UsedAt(y, k)' = UsedAt(y, k)
    BY <1>1, <1>4, <2>1 DEF UsedAt
  <2>. QED
    BY <1>1, <1>4, <2>1, <2>2 DEF IInv, Used
<1>7. Placed'
  BY <1>1, <1>2 DEF Placed
<1>8. EdgesListed'
  <2>1. Lanes' = {}
    <3>1. \A y, b : SplitAt(y, b)' => y < 1 \/ (y = 1 /\ b < 2)
      BY <1>1, <1>2 DEF SplitAt
    <3>2. \A y, a, b : Strip(y, a, b)' => y \in DOMAIN Ways /\ b \in Int /\ b >= 2
      <4>1. \A y \in DOMAIN Ways : Last(y) \in Nat
        BY <1>2, WaysTyped
      <4>. QED
        BY <1>4, <4>1 DEF Strip
    <3>3. \A p \in Lanes' : Strip(p[1], p[2], p[3])' /\ SplitAt(p[1], p[3])'
      BY DEF Lanes, Lane
    <3>. QED
      BY <1>2, <3>1, <3>2, <3>3
  <2>. SUFFICES \E f : /\ edges' \in Seq(OsmEdge) /\ f \in [1 .. Len(edges') -> Lanes']
                       /\ \A p \in Lanes' : \E k \in 1 .. Len(edges') : f[k] = p
                       /\ \A j, k \in 1 .. Len(edges') : f[j] = f[k] => j = k
                       /\ \A k \in 1 .. Len(edges') : edges'[k] = EdgeAlong(f[k])'
    BY DEF EdgesListed, Lists
  <2>2. edges' = <<>> /\ 1 .. Len(edges') = {} /\ edges' \in Seq(OsmEdge)
    BY <1>1, <1>2
  <2>. WITNESS <<>>
  <2>3. <<>> \in [1 .. Len(edges') -> Lanes']
    BY <2>2
  <2>. QED
    BY <2>1, <2>2, <2>3
<1>. QED
  BY <1>1, <1>2, <1>3, <1>5, <1>6, <1>7, <1>8 DEF IInv, SplitRight, BuiltRight, Built, Served

(* What stays as it is when the counts and the numbers do.                 *)
LEMMA NumbersStay ==
    ASSUME UNCHANGED <<extract, node_usage, osm_to_internal, nodes, node_ids>>,
           pc # "count", pc' # "count", Used, Numbered
    PROVE  Used' /\ Numbered'
<1>1. Ways' = Ways /\ (\A y : Refs(y)' = Refs(y) /\ Last(y)' = Last(y)) /\ Complete' = Complete
      /\ (\A o : Located(o)' = Located(o))
  BY SameStreets
<1>2. Counting' = Counting
  BY <1>1 DEF Counting
<1>3. \A y, k : UsedAt(y, k)' = UsedAt(y, k)
  BY <1>1, <1>2 DEF UsedAt
<1>4. Used'
  BY <1>1, <1>2, <1>3 DEF Used
<1>5. Crossings' = Crossings
  BY DEF Crossings
<1>6. Numbered'
  BY <1>1, <1>5 DEF Numbered
<1>. QED
  BY <1>4, <1>6

LEMMA SplitStep == ASSUME IInv, Split PROVE IInv'
<1>1. /\ pc = "split" /\ pc' = "split"
      /\ UNCHANGED <<extract, node_usage, osm_to_internal, nodes, node_ids, segments>>
  BY DEF Split, counted, numbered
<1>2. EdgesListed' /\ Placed' /\ Shape'
  BY <1>1, SplitSplits DEF IInv, SplitRight
<1>3. Used' /\ Numbered'
  BY <1>1, NumbersStay DEF IInv, SplitRight
<1>4. Served'
  BY <1>1 DEF IInv, Served
<1>. QED
  BY <1>1, <1>2, <1>3, <1>4 DEF IInv, SplitRight, BuiltRight, Built

LEMMA NextWayStep == ASSUME IInv, NextWay PROVE IInv'
<1>1. /\ pc = "split" /\ pc' = "split" /\ w' = w + 1 /\ i' = 2 /\ segment_start' = 1
      /\ w <= Len(Ways) /\ i > Last(w)
      /\ UNCHANGED <<extract, node_usage, osm_to_internal, nodes, node_ids, edges, segments>>
  BY DEF NextWay, counted, numbered, Last
<1>2. Used' /\ Numbered'
  BY <1>1, NumbersStay DEF IInv, SplitRight
<1>3. /\ Ways' = Ways /\ (\A p : Lane(p)' = Lane(p))
  BY <1>1, SameStreets
<1>4. /\ Len(Ways) \in Nat /\ DOMAIN Ways = 1 .. Len(Ways) /\ w \in DOMAIN Ways
      /\ w \in Nat /\ i \in Nat /\ \A y \in DOMAIN Ways : Last(y) \in Nat
  BY <1>1, WaysTyped DEF IInv, Shape
<1>5. Shape'
  BY <1>1, <1>3, <1>4 DEF IInv, Shape
<1>6. Placed'
  BY <1>1 DEF Placed
<1>7. Lanes' = Lanes
  <2>1. \A p \in (DOMAIN Ways) \X Nat \X Nat \X BOOLEAN :
           Lane(p) => (SplitAt(p[1], p[3])' <=> SplitAt(p[1], p[3]))
    <3>. SUFFICES ASSUME NEW p \in (DOMAIN Ways) \X Nat \X Nat \X BOOLEAN, Lane(p)
                  PROVE  SplitAt(p[1], p[3])' <=> SplitAt(p[1], p[3])
      OBVIOUS
    <3>1. p[1] \in 1 .. Len(Ways) /\ p[3] \in 1 .. Last(p[1])
      BY <1>4 DEF Lane, Strip
    <3>2. p[1] = w => p[3] < i
      BY <1>1, <1>4, <3>1
    <3>3. SplitAt(p[1], p[3])' <=> p[1] < w + 1 \/ (p[1] = w + 1 /\ p[3] < 2)
      BY <1>1 DEF SplitAt
    <3>4. SplitAt(p[1], p[3]) <=> p[1] < w \/ (p[1] = w /\ p[3] < i)
      BY <1>1 DEF SplitAt
    <3>5. p[1] = w + 1 => p[3] >= 2
      BY <1>4, <3>1 DEF Lane, Strip
    <3>. QED
      BY <1>4, <3>1, <3>2, <3>3, <3>4, <3>5
  <2>. QED
    BY <1>3, <2>1 DEF Lanes
<1>8. EdgesListed'
  <2>1. PICK f : Lists(f, edges, Lanes)
    BY <1>1 DEF IInv, SplitRight, EdgesListed
  <2>. QED
    BY <1>1, <1>7, <2>1, StillListed
<1>. QED
  BY <1>1, <1>2, <1>5, <1>6, <1>8 DEF IInv, SplitRight, BuiltRight, Built, Served

LEMMA AllSplit ==
    ASSUME Shape, pc # "count", pc = "split" => w > Len(Ways)
    PROVE  Lanes = {p \in (DOMAIN Ways) \X Nat \X Nat \X BOOLEAN : Lane(p)}
<1>1. DOMAIN Ways = 1 .. Len(Ways) /\ Len(Ways) \in Nat
  BY WaysTyped DEF Shape
<1>2. \A y \in DOMAIN Ways : \A b : SplitAt(y, b)
  BY <1>1 DEF SplitAt, Shape
<1>. QED
  BY <1>2 DEF Lanes

LEMMA BuildStep == ASSUME IInv, Build PROVE IInv'
<1>1. /\ pc = "split" /\ pc' = "match" /\ w > Len(Ways)
      /\ edges' = SortedByFrom(edges)
      /\ offsets' = Offsets(Len(nodes), Starts(edges'))
      /\ rev_offsets' = Offsets(Len(nodes), Ends(edges'))
      /\ rev_edge_indices' = ReverseIndices(Len(nodes), edges')
      /\ restrictions' = {RestrictionOf(Relations[r]) : r \in Kept}
      /\ UNCHANGED <<extract, w, i, segment_start, node_usage, osm_to_internal, nodes, node_ids,
                     segments>>
  BY DEF Build, Kept, counted, numbered
<1>2. Used' /\ Numbered'
  BY <1>1, NumbersStay DEF IInv, SplitRight
<1>3. Ways' = Ways /\ Relations' = Relations /\ (\A p : Lane(p)' = Lane(p))
  BY <1>1, SameStreets
<1>4. Shape'
  BY <1>1, <1>3 DEF IInv, Shape
<1>5. Lanes' = Lanes
  <2>1. Lanes = {p \in (DOMAIN Ways) \X Nat \X Nat \X BOOLEAN : Lane(p)}
    BY <1>1, AllSplit DEF IInv
  <2>2. \A y, b : SplitAt(y, b)'
    BY <1>1 DEF SplitAt
  <2>3. Lanes' = {p \in (DOMAIN Ways) \X Nat \X Nat \X BOOLEAN : Lane(p)}
    BY <1>3, <2>2 DEF Lanes
  <2>. QED
    BY <2>1, <2>3
<1>6. PICK f : Lists(f, edges, Lanes)
  BY <1>1 DEF IInv, SplitRight, EdgesListed
<1>7. edges \in Seq(OsmEdge)
  BY <1>6 DEF Lists
<1>8. PICK order : /\ Rearranges(order, Len(edges))
                   /\ edges' = [k \in 1 .. Len(edges) |-> edges[order[k]]]
  BY <1>1, <1>7, SortsByFrom
<1>9. PICK g : Lists(g, edges', Lanes)
  <2>1. \E g : Lists(g, [k \in 1 .. Len(edges) |-> edges[order[k]]], Lanes)
    BY <1>6, <1>8, ListsInOrder
  <2>. QED
    BY <1>8, <2>1
<1>10. EdgesListed'
  BY <1>1, <1>5, <1>9, StillListed
<1>11. edges' \in Seq(OsmEdge) /\ Len(edges') = Len(edges)
  <2>1. edges' \in Seq(OsmEdge)
    BY <1>9 DEF Lists
  <2>2. Len(edges) \in Nat
    BY <1>7
  <2>. QED
    BY <1>8, <2>1, <2>2
<1>12. Len(nodes) \in Nat
  BY <1>1 DEF IInv, SplitRight, Numbered
<1>13. IndexOf(offsets', Starts(edges'), Len(edges'), Len(nodes))
  <2>1. Climbing(Starts(edges'), Len(edges'))
    BY <1>1, <1>7, <1>11, SortsByFrom
  <2>. QED
    BY <1>1, <1>12, <2>1, OffsetsIndex
<1>14. ReverseOf(rev_offsets', rev_edge_indices', edges', Len(nodes))
  BY <1>1, <1>11, <1>12, ReverseIndexes
<1>15. (restrictions = {RestrictionOf(Relations[r]) : r \in Kept})'
  <2>1. Kept' = Kept
    BY <1>1, <1>3 DEF Kept
  <2>2. \A r : RestrictionOf(Relations[r])' = RestrictionOf(Relations[r])
    BY <1>1, <1>3 DEF RestrictionOf
  <2>. QED
    BY <1>1, <2>1, <2>2
<1>16. BuiltRight'
  BY <1>1, <1>13, <1>14, <1>15 DEF BuiltRight
<1>17. Served' /\ Placed'
  BY <1>1 DEF IInv, Served, Placed
<1>. QED
  BY <1>2, <1>4, <1>10, <1>16, <1>17 DEF IInv, SplitRight

LEMMA ServeStep == ASSUME IInv, Serve PROVE IInv'
<1>1. /\ pc = "match" /\ pc' = "done"
      /\ segments' = {k \in DOMAIN edges :
                         /\ ~Dropped(k)
                         /\ edges[k].from < Len(nodes) /\ edges[k].to < Len(nodes)}
      /\ UNCHANGED <<extract, w, i, segment_start, node_usage, osm_to_internal, nodes, node_ids,
                     edges, offsets, rev_offsets, rev_edge_indices, restrictions>>
  BY DEF Serve, counted, numbered, indices
<1>2. Used' /\ Numbered'
  BY <1>1, NumbersStay DEF IInv, SplitRight
<1>3. Ways' = Ways /\ Relations' = Relations /\ (\A p : Lane(p)' = Lane(p))
  BY <1>1, SameStreets
<1>4. Shape' /\ Placed'
  BY <1>1, <1>3 DEF IInv, Shape, Placed
<1>5. Lanes' = Lanes
  <2>1. \A y, b : SplitAt(y, b)' /\ SplitAt(y, b)
    BY <1>1 DEF SplitAt
  <2>. QED
    BY <1>3, <2>1 DEF Lanes
<1>6. PICK f : Lists(f, edges, Lanes)
  BY <1>1 DEF IInv, SplitRight, EdgesListed
<1>7. EdgesListed'
  BY <1>1, <1>5, <1>6, StillListed
<1>8. BuiltRight'
  <2>1. Kept' = Kept /\ \A r : RestrictionOf(Relations[r])' = RestrictionOf(Relations[r])
    BY <1>1, <1>3 DEF Kept, RestrictionOf
  <2>. QED
    BY <1>1, <2>1 DEF IInv, BuiltRight, Built
<1>9. Served'
  BY <1>1 DEF Served, Dropped, Street
<1>. QED
  BY <1>2, <1>4, <1>7, <1>8, <1>9 DEF IInv, SplitRight

LEMMA Inductive == IInv /\ [Next]_vars => IInv'
<1>. SUFFICES ASSUME IInv, [Next]_vars PROVE IInv'
  OBVIOUS
<1>1. CASE UNCHANGED vars
  <2>1. UNCHANGED <<extract, pc, w, i, segment_start, node_usage, osm_to_internal, nodes,
                    node_ids, edges, offsets, rev_offsets, rev_edge_indices, restrictions,
                    segments>>
    BY <1>1 DEF vars
  <2>2. /\ Ways' = Ways /\ Relations' = Relations /\ Complete' = Complete
        /\ (\A p : Lane(p)' = Lane(p) /\ EdgeAlong(p)' = EdgeAlong(p))
        /\ (\A y : Refs(y)' = Refs(y) /\ Last(y)' = Last(y))
        /\ (\A y, k : Stop(y, k)' = Stop(y, k)) /\ (\A o : Located(o)' = Located(o))
    BY <2>1, SameStreets
  <2>3. Shape' /\ Placed'
    BY <2>1, <2>2 DEF IInv, Shape, Placed
  <2>4. Used'
    <3>1. Counting' = Counting
      BY <2>1, <2>2 DEF Counting
    <3>2. \A y, k : UsedAt(y, k)' = UsedAt(y, k)
      BY <2>1, <2>2, <3>1 DEF UsedAt
    <3>. QED
      BY <2>1, <2>2, <3>1, <3>2 DEF IInv, Used
  <2>5. SplitRight'
    <3>1. Crossings' = Crossings
      BY <2>1 DEF Crossings
    <3>2. Numbered' = Numbered
      BY <2>1, <2>2, <3>1 DEF Numbered
    <3>3. Lanes' = Lanes
      <4>1. \A y, b : SplitAt(y, b)' = SplitAt(y, b)
        BY <2>1 DEF SplitAt
      <4>. QED
        BY <2>2, <4>1 DEF Lanes
    <3>4. EdgesListed => EdgesListed'
      <4>. SUFFICES ASSUME EdgesListed PROVE EdgesListed'
        OBVIOUS
      <4>1. PICK f : Lists(f, edges, Lanes)
        BY DEF EdgesListed
      <4>. QED
        BY <2>1, <3>3, <4>1, StillListed
    <3>. QED
      BY <2>1, <3>2, <3>4 DEF IInv, SplitRight
  <2>6. BuiltRight'
    <3>1. Kept' = Kept /\ \A r : RestrictionOf(Relations[r])' = RestrictionOf(Relations[r])
      BY <2>1, <2>2 DEF Kept, RestrictionOf
    <3>. QED
      BY <2>1, <3>1 DEF IInv, BuiltRight, Built
  <2>7. Served'
    BY <2>1 DEF IInv, Served, Dropped, Street
  <2>. QED
    BY <2>3, <2>4, <2>5, <2>6, <2>7 DEF IInv
<1>. QED
  BY <1>1, CountStep, NumberStep, SplitStep, NextWayStep, BuildStep, ServeStep DEF Next

LEMMA Reachable == Spec => []IInv
<1>. QED
  BY Initially, Inductive, PTL DEF Spec

-----------------------------------------------------------------------------
(* The indices, whole.                                                     *)

(* Each edge of the array is that of a lane.                               *)
LEMMA EdgeIsALane ==
    ASSUME IInv, pc # "count", NEW k \in DOMAIN edges
    PROVE  /\ edges \in Seq(OsmEdge) /\ edges[k] \in OsmEdge
           /\ \E p \in Lanes : /\ Lane(p) /\ p[4] \in BOOLEAN /\ edges[k] = EdgeAlong(p)
<1>1. PICK f : Lists(f, edges, Lanes)
  BY DEF IInv, SplitRight, EdgesListed
<1>2. /\ edges \in Seq(OsmEdge) /\ f \in [1 .. Len(edges) -> Lanes]
      /\ \A j \in 1 .. Len(edges) : edges[j] = EdgeAlong(f[j])
  BY <1>1 DEF Lists
<1>3. k \in 1 .. Len(edges) /\ edges[k] \in OsmEdge
  BY <1>2
<1>4. f[k] \in Lanes /\ edges[k] = EdgeAlong(f[k])
  BY <1>2, <1>3
<1>5. \A p \in Lanes : Lane(p) /\ p[4] \in BOOLEAN
  BY DEF Lanes
<1>. QED
  BY <1>2, <1>3, <1>4, <1>5

(* It starts and ends at graph nodes, which have their numbers.            *)
LEMMA EdgeEnds ==
    ASSUME IInv, pc # "count", NEW k \in DOMAIN edges
    PROVE  \A u \in {edges[k].from, edges[k].to} :
               \E x \in DOMAIN nodes :
                  /\ node_ids[x] = u /\ osm_to_internal[nodes[x]] = u
<1>1. Numbered /\ extract \in Extracts
  BY DEF IInv, SplitRight, Shape
<1>2. PICK p \in Lanes : Lane(p) /\ p[4] \in BOOLEAN /\ edges[k] = EdgeAlong(p)
  BY EdgeIsALane
<1>3. {edges[k].from, edges[k].to}
          = {osm_to_internal[Refs(p[1])[p[2]]], osm_to_internal[Refs(p[1])[p[3]]]}
  BY <1>1, <1>2, LaneFacts
<1>4. Refs(p[1])[p[2]] \in DOMAIN osm_to_internal /\ Refs(p[1])[p[3]] \in DOMAIN osm_to_internal
  BY <1>2 DEF Lane, Strip, Stop
<1>5. \A o \in DOMAIN osm_to_internal : \E x \in DOMAIN nodes :
          nodes[x] = o /\ node_ids[x] = osm_to_internal[o]
  BY <1>1 DEF Numbered
<1>. QED
  BY <1>3, <1>4, <1>5

(* Type correctness of an import and of what is served from it, for every  *)
(* list of extracts: every edge joins nodes of the graph, whose numbers    *)
(* rise, and what the matcher is given are edges of the graph.             *)
THEOREM ImportTyped == Spec => []TypeOK
<1>1. ASSUME IInv PROVE TypeOK
  <2>1. Shape /\ SplitRight /\ Served
    BY <1>1 DEF IInv
  <2>2. /\ extract \in Extracts /\ pc \in {"count", "split", "match", "done"}
        /\ segment_start < i
    BY <2>1 DEF Shape
  <2>3. Len(nodes) = Len(node_ids)
    BY <2>1 DEF Shape, SplitRight, Numbered
  <2>4. \A k \in 1 .. Len(node_ids) - 1 : node_ids[k] < node_ids[k + 1]
    <3>1. CASE pc = "count"
      <4>1. 1 .. Len(node_ids) - 1 = {}
        BY <2>1, <3>1 DEF Shape
      <4>. QED
        BY <4>1
    <3>2. CASE pc # "count"
      <4>1. /\ node_ids \in Seq(Nat)
            /\ \A j, k \in DOMAIN node_ids : j < k => node_ids[j] < node_ids[k]
        BY <2>1, <3>2 DEF SplitRight, Numbered
      <4>2. \A k \in 1 .. Len(node_ids) - 1 :
               k \in DOMAIN node_ids /\ k + 1 \in DOMAIN node_ids /\ k < k + 1
        BY <4>1
      <4>. QED
        BY <4>1, <4>2
    <3>. QED
      BY <3>1, <3>2
  <2>5. \A e \in {edges[k] : k \in DOMAIN edges} :
            {e.from, e.to} \subseteq {node_ids[k] : k \in DOMAIN node_ids}
    <3>1. CASE pc = "count"
      <4>1. edges = <<>>
        BY <2>1, <3>1 DEF Shape
      <4>. QED
        BY <4>1
    <3>2. CASE pc # "count"
      <4>. SUFFICES ASSUME NEW k \in DOMAIN edges, NEW u \in {edges[k].from, edges[k].to}
                    PROVE  u \in {node_ids[x] : x \in DOMAIN node_ids}
        OBVIOUS
      <4>1. PICK x \in DOMAIN nodes : node_ids[x] = u
        BY <1>1, <3>2, EdgeEnds
      <4>2. DOMAIN nodes = DOMAIN node_ids
        BY <2>1, <3>2 DEF SplitRight, Numbered
      <4>. QED
        BY <4>1, <4>2
    <3>. QED
      BY <3>1, <3>2
  <2>6. segments \subseteq DOMAIN edges
    BY <2>1 DEF Served
  <2>. QED
    BY <2>2, <2>3, <2>4, <2>5, <2>6 DEF TypeOK
<1>. QED
  BY <1>1, Reachable, PTL

(* Whatever the extracts: the two indices of Graph::build list at a node   *)
(* only edges that leave it, or lead to it, and of an extract that is      *)
(* complete every edge at its two ends, which are the nodes that           *)
(* osm_to_internal numbers so.                                             *)
THEOREM IndicesAreRight == Spec => []IndicesRight
<1>1. ASSUME IInv, Built PROVE /\ Len(nodes) \in Nat /\ edges \in Seq(OsmEdge) /\ pc # "count"
                               /\ DOMAIN edges = 1 .. Len(edges) /\ Len(edges) \in Nat
                               /\ \A k \in DOMAIN edges : Starts(edges)[k] = edges[k].from
                               /\ IndexOf(offsets, Starts(edges), Len(edges), Len(nodes))
                               /\ ReverseOf(rev_offsets, rev_edge_indices, edges, Len(nodes))
  <2>1. pc # "count"
    BY <1>1 DEF Built
  <2>2. PICK f : Lists(f, edges, Lanes)
    BY <1>1, <2>1 DEF IInv, SplitRight, EdgesListed
  <2>3. edges \in Seq(OsmEdge)
    BY <2>2 DEF Lists
  <2>4. DOMAIN edges = 1 .. Len(edges) /\ Len(edges) \in Nat
    BY <2>3
  <2>5. Len(nodes) \in Nat
    BY <1>1, <2>1 DEF IInv, SplitRight, Numbered
  <2>6. \A k \in DOMAIN edges : Starts(edges)[k] = edges[k].from
    BY DEF Starts
  <2>. QED
    BY <1>1, <2>1, <2>3, <2>4, <2>5, <2>6 DEF IInv, BuiltRight
<1>2. ASSUME IInv, Complete, Built PROVE EveryEdgeFound
  <2>. SUFFICES ASSUME NEW k \in DOMAIN edges
                PROVE  LET f == edges[k].from
                           t == edges[k].to
                       IN  /\ f < Len(nodes) /\ t < Len(nodes)
                           /\ k \in offsets[f] + 1 .. offsets[f + 1]
                           /\ k \in {rev_edge_indices[x] :
                                        x \in rev_offsets[t] + 1 .. rev_offsets[t + 1]}
                           /\ osm_to_internal[nodes[f + 1]] = f
    BY DEF EveryEdgeFound
  <2>. DEFINE f == edges[k].from
              t == edges[k].to
  <2>1. Numbered /\ k \in 1 .. Len(edges) /\ k \in Int
    BY <1>1, <1>2 DEF IInv, SplitRight
  <2>2. \A x \in DOMAIN nodes : x \in 1 .. Len(nodes) /\ node_ids[x] = x - 1
    BY <1>2, <2>1 DEF Numbered
  <2>3. \A u \in {f, t} : u \in 0 .. Len(nodes) - 1 /\ osm_to_internal[nodes[u + 1]] = u
    <3>. SUFFICES ASSUME NEW u \in {f, t}
                  PROVE  u \in 0 .. Len(nodes) - 1 /\ osm_to_internal[nodes[u + 1]] = u
      OBVIOUS
    <3>1. PICK x \in DOMAIN nodes : node_ids[x] = u /\ osm_to_internal[nodes[x]] = u
      BY <1>1, <1>2, EdgeEnds
    <3>2. x \in 1 .. Len(nodes) /\ u = x - 1
      BY <2>2, <3>1
    <3>3. u + 1 = x /\ u \in 0 .. Len(nodes) - 1
      BY <1>1, <1>2, <3>2
    <3>. QED
      BY <3>1, <3>3
  <2>4. f \in 0 .. Len(nodes) - 1 /\ t \in 0 .. Len(nodes) - 1
        /\ osm_to_internal[nodes[f + 1]] = f
    BY <2>3
  <2>5. k \in offsets[f] + 1 .. offsets[f + 1]
    <3>1. Starts(edges)[k] = f
      BY <1>1, <1>2
    <3>2. IndexOf(offsets, Starts(edges), Len(edges), Len(nodes))
      BY <1>1, <1>2
    <3>. HIDE DEF f
    <3>. QED
      BY <2>1, <2>4, <3>1, <3>2 DEF IndexOf
  <2>6. \E x \in rev_offsets[t] + 1 .. rev_offsets[t + 1] : rev_edge_indices[x] = k
    <3>1. ReverseOf(rev_offsets, rev_edge_indices, edges, Len(nodes))
      BY <1>1, <1>2
    <3>. QED
      BY <2>4, <3>1 DEF ReverseOf
  <2>7. f < Len(nodes) /\ t < Len(nodes)
    BY <1>1, <1>2, <2>4
  <2>. QED
    BY <2>4, <2>5, <2>6, <2>7
<1>3. ASSUME IInv, Built, NEW u \in 0 .. Len(nodes) - 1
      PROVE  /\ \A k \in offsets[u] + 1 .. offsets[u + 1] : edges[k].from = u
             /\ \A x \in rev_offsets[u] + 1 .. rev_offsets[u + 1] : edges[rev_edge_indices[x]].to = u
  <2>1. ASSUME NEW k \in offsets[u] + 1 .. offsets[u + 1] PROVE edges[k].from = u
    <3>1. k \in Int
      OBVIOUS
    <3>2. k \in 1 .. Len(edges) /\ Starts(edges)[k] = u
      BY <1>1, <1>3, <3>1 DEF IndexOf
    <3>. QED
      BY <1>1, <1>3, <3>2
  <2>2. ASSUME NEW x \in rev_offsets[u] + 1 .. rev_offsets[u + 1]
        PROVE  edges[rev_edge_indices[x]].to = u
    BY <1>1, <1>3 DEF ReverseOf
  <2>. QED
    BY <2>1, <2>2
<1>4. ASSUME IInv PROVE IndicesRight
  BY <1>2, <1>3, <1>4 DEF IndicesRight, EveryEdgeFound
<1>. QED
  BY <1>4, Reachable, PTL

-----------------------------------------------------------------------------
(* Restrictions.                                                           *)

(* A node of two ways, or in two places of one, is a crossing.             *)
LEMMA SharedNodes ==
    ASSUME IInv, pc # "count",
           NEW y \in DOMAIN Ways, NEW k \in 1 .. Last(y),
           NEW z \in DOMAIN Ways, NEW j \in 1 .. Last(z),
           Refs(y)[k] = Refs(z)[j], ~(z = y /\ j = k), Located(Refs(y)[k])
    PROVE  Stop(y, k)
<1>1. Used /\ Numbered /\ Counting = DOMAIN Ways
  BY DEF IInv, SplitRight, Counting
<1>2. UsedAt(y, k)
  BY <1>1 DEF Used
<1>3. Refs(y)[k] \in DOMAIN node_usage /\ node_usage[Refs(y)[k]] >= 2
  BY <1>1, <1>2 DEF UsedAt
<1>. QED
  BY <1>1, <1>3 DEF Numbered, Crossings, Stop

(* The ends of ways are crossings.                                         *)
LEMMA EndsAreStops ==
    ASSUME IInv, pc # "count", NEW y \in DOMAIN Ways, NEW k \in 1 .. Last(y), k \in {1, Last(y)},
           Located(Refs(y)[k])
    PROVE  Stop(y, k)
<1>1. Used /\ Numbered /\ Counting = DOMAIN Ways
  BY DEF IInv, SplitRight, Counting
<1>2. UsedAt(y, k)
  BY <1>1 DEF Used
<1>3. Refs(y)[k] \in DOMAIN node_usage /\ node_usage[Refs(y)[k]] >= 2
  BY <1>1, <1>2 DEF UsedAt
<1>. QED
  BY <1>1, <1>3 DEF Numbered, Crossings, Stop

(* The restrictions at a crossing are those of its relations.              *)
LEMMA RestrictionsAt ==
    ASSUME IInv, Built, NEW o \in DOMAIN osm_to_internal
    PROVE  /\ \A r \in restrictions : r.via = osm_to_internal[o] =>
                 \E x \in DOMAIN Relations :
                    /\ Relations[x].via = o /\ Relations[x].kind = r.kind
                    /\ Relations[x].from_way = r.from_way /\ Relations[x].to_way = r.to_way
           /\ \A x \in DOMAIN Relations : Relations[x].via = o /\ Relations[x].kind # "other" =>
                 \E r \in restrictions :
                    /\ r.via = osm_to_internal[o] /\ Relations[x].kind = r.kind
                    /\ Relations[x].from_way = r.from_way /\ Relations[x].to_way = r.to_way
<1>1. Numbered /\ restrictions = {RestrictionOf(Relations[x]) : x \in Kept}
  BY DEF IInv, SplitRight, BuiltRight, Built
<1>2. \A q : /\ RestrictionOf(q).via = osm_to_internal[q.via]
             /\ RestrictionOf(q).kind = q.kind
             /\ RestrictionOf(q).from_way = q.from_way /\ RestrictionOf(q).to_way = q.to_way
  BY DEF RestrictionOf
<1>3. ASSUME NEW r \in restrictions, r.via = osm_to_internal[o]
      PROVE  \E x \in DOMAIN Relations :
                /\ Relations[x].via = o /\ Relations[x].kind = r.kind
                /\ Relations[x].from_way = r.from_way /\ Relations[x].to_way = r.to_way
  <2>1. PICK x \in Kept : r = RestrictionOf(Relations[x])
    BY <1>1
  <2>2. x \in DOMAIN Relations /\ Relations[x].via \in DOMAIN osm_to_internal
    BY DEF Kept
  <2>3. Relations[x].via = o
    BY <1>1, <1>2, <1>3, <2>1, <2>2 DEF Numbered
  <2>. QED
    BY <1>2, <2>1, <2>2, <2>3
<1>4. ASSUME NEW x \in DOMAIN Relations, Relations[x].via = o, Relations[x].kind # "other"
      PROVE  \E r \in restrictions :
                /\ r.via = osm_to_internal[o] /\ Relations[x].kind = r.kind
                /\ Relations[x].from_way = r.from_way /\ Relations[x].to_way = r.to_way
  <2>1. x \in Kept
    BY <1>4 DEF Kept
  <2>2. RestrictionOf(Relations[x]) \in restrictions
    BY <1>1, <2>1
  <2>. QED
    BY <1>2, <1>4, <2>2
<1>. QED
  BY <1>3, <1>4

(* Whatever the extracts, where two ways meet Graph::turn_is_banned        *)
(* forbids the turn from one into the other if and only if a relation      *)
(* does, "only" relations included.                                        *)
THEOREM RestrictionsAreKept == Spec => []RestrictionsKept
<1>1. ASSUME IInv, pc = "done",
             NEW a \in WayIds \ {0}, NEW b \in WayIds \ {0}, NEW o \in DOMAIN extract.located,
             a # b, On(o, a), On(o, b)
      PROVE  /\ o \in DOMAIN osm_to_internal
             /\ turn_is_banned([restrictions |-> restrictions], osm_to_internal[o], a, b)
                   <=> Forbids(o, a, b)
  <2>1. PICK y \in DOMAIN Ways : Ways[y].way_id = a /\ \E k \in 1 .. Last(y) : Refs(y)[k] = o
    BY <1>1, WaysTyped DEF On, Refs, Last, IInv, Shape
  <2>2. PICK z \in DOMAIN Ways : Ways[z].way_id = b /\ \E k \in 1 .. Last(z) : Refs(z)[k] = o
    BY <1>1, WaysTyped DEF On, Refs, Last, IInv, Shape
  <2>3. PICK k \in 1 .. Last(y) : Refs(y)[k] = o
    BY <2>1
  <2>4. PICK j \in 1 .. Last(z) : Refs(z)[j] = o
    BY <2>2
  <2>5. o \in DOMAIN osm_to_internal
    <3>1. z # y
      BY <1>1, <2>1, <2>2
    <3>2. Located(Refs(y)[k])
      BY <1>1, <2>3 DEF Located
    <3>3. Stop(y, k)
      BY <1>1, <2>3, <2>4, <3>1, <3>2, SharedNodes
    <3>. QED
      BY <2>3, <3>3 DEF Stop
  <2>. DEFINE at == {r \in restrictions : r.via = osm_to_internal[o] /\ r.from_way = a}
              rel == {r \in {Relations[x] : x \in DOMAIN Relations} :
                         r.via = o /\ r.from_way = a}
  <2>6. Built
    BY <1>1 DEF Built
  <2>7. \A r \in at : \E q \in rel : q.kind = r.kind /\ q.to_way = r.to_way
    <3>. SUFFICES ASSUME NEW r \in at PROVE \E q \in rel : q.kind = r.kind /\ q.to_way = r.to_way
      OBVIOUS
    <3>1. PICK x \in DOMAIN Relations :
                    /\ Relations[x].via = o /\ Relations[x].kind = r.kind
                    /\ Relations[x].from_way = r.from_way /\ Relations[x].to_way = r.to_way
      BY <1>1, <2>5, <2>6, RestrictionsAt
    <3>. QED
      BY <3>1
  <2>8. \A q \in rel : q.kind # "other" => \E r \in at : q.kind = r.kind /\ q.to_way = r.to_way
    <3>. SUFFICES ASSUME NEW x \in DOMAIN Relations, Relations[x].via = o,
                         Relations[x].from_way = a, Relations[x].kind # "other"
                  PROVE  \E r \in at : Relations[x].kind = r.kind /\ Relations[x].to_way = r.to_way
      OBVIOUS
    <3>1. PICK r \in restrictions :
                    /\ r.via = osm_to_internal[o] /\ Relations[x].kind = r.kind
                    /\ Relations[x].from_way = r.from_way /\ Relations[x].to_way = r.to_way
      BY <1>1, <2>5, <2>6, RestrictionsAt
    <3>. QED
      BY <3>1
  <2>9. turn_is_banned([restrictions |-> restrictions], osm_to_internal[o], a, b) <=>
            \/ \E r \in at : r.kind = "no" /\ r.to_way = b
            \/ (\E r \in at : r.kind = "only") /\ \A r \in at : r.kind = "only" => r.to_way # b
    <3>1. a # 0 /\ b # 0
      OBVIOUS
    <3>. QED
      BY <3>1 DEF turn_is_banned
  <2>10. Forbids(o, a, b) <=>
            \/ \E r \in rel : r.kind = "no" /\ r.to_way = b
            \/ (\E r \in rel : r.kind = "only") /\ \A r \in rel : r.kind = "only" => r.to_way # b
    BY DEF Forbids
  <2>. HIDE DEF at, rel
  <2>. QED
    BY <2>5, <2>7, <2>8, <2>9, <2>10
<1>2. ASSUME IInv PROVE RestrictionsKept
  BY <1>1, <1>2 DEF RestrictionsKept
<1>. QED
  BY <1>2, Reachable, PTL

-----------------------------------------------------------------------------
(* Roads.                                                                  *)

LEMMA StripAround ==
    ASSUME IInv, pc # "count", Complete, NEW y \in DOMAIN Ways, NEW k \in 1 .. Last(y) - 1
    PROVE  \E a, b \in Nat : Strip(y, a, b) /\ a <= k /\ k < b
<1>1. /\ Last(y) \in Nat /\ DOMAIN Refs(y) = 1 .. Last(y)
      /\ k \in Nat /\ 1 <= k /\ k < Last(y)
  BY WaysTyped DEF IInv, Shape
<1>2. \A x \in 1 .. Last(y) : Located(Refs(y)[x])
  BY <1>1 DEF Complete, Refs
<1>3. Stop(y, 1) /\ Stop(y, Last(y))
  <2>1. 1 \in 1 .. Last(y) /\ Last(y) \in 1 .. Last(y)
    BY <1>1
  <2>. QED
    BY <1>2, <2>1, EndsAreStops
<1>. DEFINE After == {b \in Nat : k < b /\ b <= Last(y) /\ Stop(y, b)}
            Back == {d \in Nat : d < k /\ Stop(y, k - d)}
<1>4. PICK b \in After : \A c \in After : b <= c
  <2>1. Last(y) \in After
    BY <1>1, <1>3
  <2>2. After \in SUBSET Nat /\ After # {}
    BY <2>1
  <2>. HIDE DEF After
  <2>. QED
    BY <2>2, LeastNatural
<1>5. PICK d \in Back : \A c \in Back : d <= c
  <2>1. k - 1 \in Back
    <3>1. k - (k - 1) = 1 /\ k - 1 \in Nat /\ k - 1 < k
      BY <1>1
    <3>. QED
      BY <1>3, <3>1
  <2>2. Back \in SUBSET Nat /\ Back # {}
    BY <2>1
  <2>. HIDE DEF Back
  <2>. QED
    BY <2>2, LeastNatural
<1>6. PICK a \in Nat : a = k - d /\ 1 <= a /\ a <= k /\ Stop(y, a)
  BY <1>1, <1>5
<1>7. b \in Nat /\ k < b /\ b <= Last(y) /\ Stop(y, b)
  BY <1>4
<1>8. ASSUME NEW x \in a + 1 .. b - 1 PROVE ~Stop(y, x)
  <2>. SUFFICES ASSUME Stop(y, x) PROVE FALSE
    OBVIOUS
  <2>1. x \in Nat /\ a < x /\ x < b
    BY <1>6, <1>7
  <2>2. CASE x <= k
    <3>1. k - x \in Nat /\ k - x < k /\ k - (k - x) = x /\ k - x < d
      BY <1>1, <1>5, <1>6, <2>1, <2>2
    <3>2. k - x \in Back
      BY <3>1
    <3>. QED
      BY <1>5, <3>1, <3>2
  <2>3. CASE k < x
    <3>1. x \in After
      BY <1>1, <1>7, <2>1, <2>3
    <3>. QED
      BY <1>4, <1>7, <2>1, <3>1
  <2>. QED
    BY <1>1, <2>1, <2>2, <2>3
<1>9. Strip(y, a, b)
  BY <1>1, <1>6, <1>7, <1>8 DEF Strip
<1>. QED
  BY <1>6, <1>7, <1>9

LEMMA OneStripAround ==
    ASSUME NEW y, NEW k \in Int, Last(y) \in Nat,
           NEW a, NEW b, Strip(y, a, b), a <= k, k < b,
           NEW c, NEW d, Strip(y, c, d), c <= k, k < d
    PROVE  a = c /\ b = d
<1>1. a \in Int /\ b \in Int /\ c \in Int /\ d \in Int
  BY DEF Strip
<1>2. Stop(y, a) /\ Stop(y, b) /\ Stop(y, c) /\ Stop(y, d)
      /\ (\A x \in a + 1 .. b - 1 : ~Stop(y, x)) /\ (\A x \in c + 1 .. d - 1 : ~Stop(y, x))
  BY DEF Strip
<1>3. ~(a < c) /\ ~(c < a)
  BY <1>1, <1>2
<1>4. ~(b < d) /\ ~(d < b)
  BY <1>1, <1>2
<1>. QED
  BY <1>1, <1>3, <1>4

LEMMA LegFacts ==
    ASSUME extract \in Extracts, Complete, NEW y \in DOMAIN Ways
    PROVE  /\ \A k \in 1 .. Last(y) - 1 : Leg(y, k) \in Nat
           /\ LengthOfWay(y) = Total([k \in 1 .. Last(y) - 1 |-> Leg(y, k)])
           /\ \A a, b \in 1 .. Last(y) :
                 LengthOf(Refs(y), a, b) = Total([k \in a .. b - 1 |-> Leg(y, k)])
<1>1. Last(y) \in Nat /\ DOMAIN Refs(y) = 1 .. Last(y)
  BY WaysTyped
<1>2. \A k \in 1 .. Last(y) : Located(Refs(y)[k])
  BY <1>1 DEF Complete, Refs
<1>3. \A o : Located(o) => extract.located[o] \in Int
  BY ExtractsAssumption DEF IsExtract, Located
<1>4. ASSUME NEW k \in 1 .. Last(y) - 1 PROVE Leg(y, k) \in Nat
  <2>1. k \in 1 .. Last(y) /\ k + 1 \in 1 .. Last(y)
    BY <1>1
  <2>2. extract.located[Refs(y)[k]] \in Int /\ extract.located[Refs(y)[k + 1]] \in Int
    BY <1>2, <1>3, <2>1
  <2>3. \A c, d \in Int : Apart(c, d) \in Nat
    BY DEF Apart
  <2>. QED
    BY <2>2, <2>3 DEF Leg
<1>5. LengthOfWay(y) = Total([k \in 1 .. Last(y) - 1 |-> Leg(y, k)])
  BY DEF LengthOfWay, Refs, Last
<1>6. ASSUME NEW a \in 1 .. Last(y), NEW b \in 1 .. Last(y)
      PROVE  LengthOf(Refs(y), a, b) = Total([k \in a .. b - 1 |-> Leg(y, k)])
  <2>1. \A k \in a .. b - 1 : k \in 1 .. Last(y) /\ k + 1 \in 1 .. Last(y)
    BY <1>1
  <2>2. {x \in a .. b - 1 : Located(Refs(y)[x]) /\ Located(Refs(y)[x + 1])} = a .. b - 1
    BY <1>2, <2>1
  <2>. QED
    BY <2>2 DEF LengthOf, Leg
<1>. QED
  BY <1>4, <1>5, <1>6

Strips == {t \in (DOMAIN Ways) \X Nat \X Nat : Strip(t[1], t[2], t[3])}

LengthOfStrip(t) == LengthOf(Refs(t[1]), t[2], t[3])

LEMMA StretchesAreStrips == ASSUME extract \in Extracts PROVE Stretches = Strips
<1>1. \A y \in DOMAIN Ways : Last(y) \in Nat /\ DOMAIN Refs(y) = 1 .. Last(y)
  BY WaysTyped
<1>2. ASSUME NEW y \in DOMAIN Ways, NEW a \in 1 .. Last(y), NEW b \in 1 .. Last(y), a < b
      PROVE  Strip(y, a, b) <=> {a, b} = {k \in a .. b : Refs(y)[k] \in DOMAIN osm_to_internal}
  <2>1. /\ a \in Int /\ b \in Int /\ a \in a .. b /\ b \in a .. b
        /\ \A k \in a .. b : k = a \/ k = b \/ k \in a + 1 .. b - 1
        /\ \A k \in a + 1 .. b - 1 : k \in a .. b /\ k # a /\ k # b
    BY <1>1, <1>2
  <2>2. ASSUME Strip(y, a, b)
        PROVE  {a, b} = {k \in a .. b : Refs(y)[k] \in DOMAIN osm_to_internal}
    BY <2>1, <2>2 DEF Strip, Stop
  <2>3. ASSUME {a, b} = {k \in a .. b : Refs(y)[k] \in DOMAIN osm_to_internal}
        PROVE  Strip(y, a, b)
    BY <1>2, <2>1, <2>3 DEF Strip, Stop
  <2>. QED
    BY <2>2, <2>3
<1>3. ASSUME NEW t \in Stretches PROVE t \in Strips
  <2>1. PICK y \in DOMAIN Ways : t \in {y} \X (DOMAIN Refs(y)) \X (DOMAIN Refs(y))
    BY DEF Stretches
  <2>2. /\ t = <<y, t[2], t[3]>> /\ t[1] = y /\ t[2] \in 1 .. Last(y) /\ t[3] \in 1 .. Last(y)
        /\ t[2] < t[3]
        /\ {t[2], t[3]} = {k \in t[2] .. t[3] : Refs(y)[k] \in DOMAIN osm_to_internal}
    BY <1>1, <2>1 DEF Stretches
  <2>3. t[2] \in Nat /\ t[3] \in Nat
    BY <1>1, <2>2
  <2>4. Strip(t[1], t[2], t[3])
    BY <1>2, <2>2
  <2>. QED
    BY <2>2, <2>3, <2>4 DEF Strips
<1>4. ASSUME NEW t \in Strips PROVE t \in Stretches
  <2>1. t = <<t[1], t[2], t[3]>> /\ Strip(t[1], t[2], t[3])
    BY DEF Strips
  <2>2. /\ t[1] \in DOMAIN Ways /\ t[2] \in 1 .. Last(t[1]) /\ t[3] \in 1 .. Last(t[1])
        /\ t[2] < t[3]
    BY <2>1 DEF Strip
  <2>3. {t[2], t[3]} = {k \in t[2] .. t[3] : Refs(t[1])[k] \in DOMAIN osm_to_internal}
    BY <1>2, <2>1, <2>2
  <2>4. t \in {t[1]} \X (DOMAIN Refs(t[1])) \X (DOMAIN Refs(t[1]))
    BY <1>1, <2>1, <2>2
  <2>. QED
    BY <2>2, <2>3, <2>4 DEF Stretches
<1>. QED
  BY <1>3, <1>4

(* Each stretch is of one road.                                            *)
LEMMA RoadsPart ==
    ASSUME NEW t \in Stretches
    PROVE  /\ t \in RoadWith(t) /\ RoadWith(t) \in SUBSET Stretches
           /\ \A s \in RoadWith(t) : RoadWith(s) = RoadWith(t)
           /\ \A s \in Stretches : RoadWith(s) = RoadWith(t) => s \in RoadWith(t)
<1>1. t \in RoadWith(t) /\ RoadWith(t) \in SUBSET Stretches
  BY DEF RoadWith
<1>2. ASSUME NEW s \in RoadWith(t) PROVE RoadWith(s) = RoadWith(t)
  <2>1. CASE s = t
    BY <2>1
  <2>2. CASE Twins(s, t)
    <3>1. \A r \in Stretches : (r = s \/ Twins(r, s)) <=> (r = t \/ Twins(r, t))
      BY <2>2 DEF Twins
    <3>. QED
      BY <3>1 DEF RoadWith
  <2>. QED
    BY <2>1, <2>2 DEF RoadWith
<1>3. \A s \in Stretches : s \in RoadWith(s)
  BY DEF RoadWith
<1>. QED
  BY <1>1, <1>2, <1>3

(* Two lanes of two-way roads are of one street if their stretches are of  *)
(* one road.                                                               *)
LEMMA StreetsAreRoads ==
    ASSUME IInv, pc # "count",
           NEW p, Lane(p), p[4] \in BOOLEAN, NEW q, Lane(q), q[4] \in BOOLEAN,
           NEW s, s = <<p[1], p[2], p[3]>>, NEW t, t = <<q[1], q[2], q[3]>>
    PROVE  Street(EdgeAlong(p)) = Street(EdgeAlong(q)) <=>
               Ways[s[1]].way_id = Ways[t[1]].way_id /\ JoinedBy(s) = JoinedBy(t)
<1>. DEFINE m == osm_to_internal
            a == Refs(p[1])[p[2]]
            b == Refs(p[1])[p[3]]
            c == Refs(q[1])[q[2]]
            d == Refs(q[1])[q[3]]
<1>1. Numbered /\ extract \in Extracts
  BY DEF IInv, SplitRight, Shape
<1>2. /\ Street(EdgeAlong(p)) = <<{m[a], m[b]}, Ways[p[1]].way_id>>
      /\ Street(EdgeAlong(q)) = <<{m[c], m[d]}, Ways[q[1]].way_id>>
  BY <1>1, LaneFacts DEF Street
<1>3. a \in DOMAIN m /\ b \in DOMAIN m /\ c \in DOMAIN m /\ d \in DOMAIN m
  BY DEF Lane, Strip, Stop
<1>4. \A x, y \in DOMAIN m : m[x] = m[y] => x = y
  BY <1>1 DEF Numbered
<1>5. JoinedBy(s) = {a, b} /\ JoinedBy(t) = {c, d} /\ s[1] = p[1] /\ t[1] = q[1]
  BY DEF JoinedBy
<1>. HIDE DEF a, b, c, d, m
<1>6. ASSUME {m[a], m[b]} = {m[c], m[d]} PROVE {a, b} = {c, d}
  <2>1. \/ m[a] = m[c] /\ m[b] = m[d]
        \/ m[a] = m[d] /\ m[b] = m[c]
    BY <1>6
  <2>. QED
    BY <1>3, <1>4, <2>1
<1>7. ASSUME {a, b} = {c, d} PROVE {m[a], m[b]} = {m[c], m[d]}
  <2>1. (a = c /\ b = d) \/ (a = d /\ b = c)
    BY <1>7
  <2>. QED
    BY <2>1
<1>. QED
  BY <1>2, <1>5, <1>6, <1>7

(* Of the edges of each road the matcher has one.                          *)
LEMMA SegmentsAreRoads ==
    ASSUME IInv, pc = "done", Complete
    PROVE  \E g : /\ g \in [segments -> Stretches]
                  /\ \A k \in segments : Shows(k, g[k])
                  /\ \A t \in Stretches : \E k \in segments : g[k] \in RoadWith(t)
                  /\ \A j, k \in segments : g[j] \in RoadWith(g[k]) => j = k
<1>1. PICK f : Lists(f, edges, Lanes)
  BY DEF IInv, SplitRight, EdgesListed
<1>2. /\ DOMAIN edges = 1 .. Len(edges) /\ Len(edges) \in Nat /\ f \in [DOMAIN edges -> Lanes]
      /\ (\A p \in Lanes : \E k \in DOMAIN edges : f[k] = p)
      /\ (\A j, k \in DOMAIN edges : f[j] = f[k] => j = k)
      /\ (\A k \in DOMAIN edges : edges[k] = EdgeAlong(f[k]))
  BY <1>1 DEF Lists
<1>3. Lanes = {p \in (DOMAIN Ways) \X Nat \X Nat \X BOOLEAN : Lane(p)}
  BY AllSplit DEF IInv
<1>4. \A k \in DOMAIN edges : /\ Lane(f[k]) /\ f[k][4] \in BOOLEAN
                              /\ f[k][1] \in DOMAIN Ways /\ f[k][2] \in Nat /\ f[k][3] \in Nat
                              /\ f[k] = <<f[k][1], f[k][2], f[k][3], f[k][4]>>
  <2>. SUFFICES ASSUME NEW k \in DOMAIN edges
                PROVE  /\ Lane(f[k]) /\ f[k][4] \in BOOLEAN
                       /\ f[k][1] \in DOMAIN Ways /\ f[k][2] \in Nat /\ f[k][3] \in Nat
                       /\ f[k] = <<f[k][1], f[k][2], f[k][3], f[k][4]>>
    OBVIOUS
  <2>1. f[k] \in Lanes
    BY <1>2
  <2>. QED
    BY <1>3, <2>1
<1>5. segments = {k \in DOMAIN edges : ~Dropped(k)}
  <2>1. segments = {k \in DOMAIN edges :
                        /\ ~Dropped(k)
                        /\ edges[k].from < Len(nodes) /\ edges[k].to < Len(nodes)}
    BY DEF IInv, Served
  <2>2. ASSUME NEW k \in DOMAIN edges, NEW u \in {edges[k].from, edges[k].to} PROVE u < Len(nodes)
    <3>1. PICK x \in DOMAIN nodes : node_ids[x] = u
      BY EdgeEnds
    <3>2. Numbered
      BY DEF IInv, SplitRight
    <3>3. x \in DOMAIN node_ids /\ x \in 1 .. Len(nodes) /\ Len(nodes) \in Nat
      BY <3>1, <3>2 DEF Numbered
    <3>. QED
      BY <3>1, <3>2, <3>3 DEF Numbered
  <2>. QED
    BY <2>1, <2>2
<1>. DEFINE of(k) == <<f[k][1], f[k][2], f[k][3]>>
<1>0. extract \in Extracts /\ Stretches = Strips
  BY StretchesAreStrips DEF IInv, Shape
<1>6. ASSUME NEW k \in DOMAIN edges
      PROVE  /\ of(k) \in Stretches /\ Shows(k, of(k))
             /\ edges[k].oneway = Ways[of(k)[1]].oneway
  <2>1. Lane(f[k]) /\ f[k][4] \in BOOLEAN /\ edges[k] = EdgeAlong(f[k])
    BY <1>2, <1>4
  <2>2. of(k) \in Stretches
    BY <1>0, <1>4, <2>1 DEF Strips, Lane
  <2>. DEFINE y == f[k][1]
              a == f[k][2]
              b == f[k][3]
  <2>3. /\ edges[k].distance = LengthOf(Refs(y), a, b)
        /\ edges[k].way = Ways[y].way_id
        /\ edges[k].oneway = Ways[y].oneway
        /\ {edges[k].from, edges[k].to} = {osm_to_internal[Refs(y)[a]], osm_to_internal[Refs(y)[b]]}
        /\ edges[k].from = osm_to_internal[Refs(y)[IF f[k][4] THEN a ELSE b]]
    BY <2>1, LaneFacts DEF IInv, SplitRight, Shape
  <2>4. Ways[y].oneway => f[k][4] = TRUE
    BY <2>1 DEF Lane
  <2>5. LengthOf(Refs(y), a, b) = LengthOfStretch(of(k))
    <3>1. y \in DOMAIN Ways /\ a \in 1 .. Last(y) /\ b \in 1 .. Last(y)
      BY <2>1 DEF Lane, Strip
    <3>2. LengthOf(Refs(y), a, b) = Total([x \in a .. b - 1 |-> Leg(y, x)])
      BY <1>0, <3>1, LegFacts
    <3>. QED
      BY <3>2 DEF LengthOfStretch
  <2>6. {osm_to_internal[o] : o \in JoinedBy(of(k))}
            = {osm_to_internal[Refs(y)[a]], osm_to_internal[Refs(y)[b]]}
    BY DEF JoinedBy
  <2>7. of(k)[1] = y /\ of(k)[2] = a
    OBVIOUS
  <2>. HIDE DEF of, y, a, b
  <2>8. Shows(k, of(k))
    BY <2>3, <2>4, <2>5, <2>6, <2>7 DEF Shows
  <2>. QED
    BY <2>2, <2>3, <2>7, <2>8
<1>7. ASSUME NEW j \in DOMAIN edges, NEW k \in DOMAIN edges, ~edges[j].oneway, ~edges[k].oneway
      PROVE  Street(edges[j]) = Street(edges[k]) <=> of(j) \in RoadWith(of(k))
  <2>1. Street(EdgeAlong(f[j])) = Street(EdgeAlong(f[k])) <=>
            Ways[of(j)[1]].way_id = Ways[of(k)[1]].way_id /\ JoinedBy(of(j)) = JoinedBy(of(k))
    <3>1. /\ Lane(f[j]) /\ f[j][4] \in BOOLEAN /\ of(j) = <<f[j][1], f[j][2], f[j][3]>>
          /\ Lane(f[k]) /\ f[k][4] \in BOOLEAN /\ of(k) = <<f[k][1], f[k][2], f[k][3]>>
      BY <1>4
    <3>. HIDE DEF of
    <3>. QED
      BY <3>1, StreetsAreRoads
  <2>2. edges[j] = EdgeAlong(f[j]) /\ edges[k] = EdgeAlong(f[k])
    BY <1>2
  <2>3. /\ of(j) \in Stretches
        /\ ~Ways[of(j)[1]].oneway /\ ~Ways[of(k)[1]].oneway
    BY <1>6, <1>7
  <2>. HIDE DEF of
  <2>. QED
    BY <2>1, <2>2, <2>3 DEF RoadWith, Twins
<1>8. ASSUME NEW j \in segments, NEW k \in segments, of(j) \in RoadWith(of(k)) PROVE j = k
  <2>1. j \in DOMAIN edges /\ k \in DOMAIN edges /\ ~Dropped(j) /\ ~Dropped(k)
    BY <1>5
  <2>0. /\ edges[j].oneway = Ways[of(j)[1]].oneway /\ edges[k].oneway = Ways[of(k)[1]].oneway
        /\ of(j) = of(k) \/ (~edges[j].oneway /\ ~edges[k].oneway)
    <3>1. /\ edges[j].oneway = Ways[of(j)[1]].oneway /\ edges[k].oneway = Ways[of(k)[1]].oneway
      BY <1>6, <2>1
    <3>. HIDE DEF of
    <3>. QED
      BY <1>8, <3>1 DEF RoadWith, Twins
  <2>2. CASE edges[j].oneway
    <3>3. f[j][1] = f[k][1] /\ f[j][2] = f[k][2] /\ f[j][3] = f[k][3]
      BY <2>0, <2>2
    <3>1. Ways[f[j][1]].oneway /\ Ways[f[k][1]].oneway
      BY <2>0, <2>2, <3>3
    <3>2. f[j][4] = TRUE /\ f[k][4] = TRUE
      BY <1>4, <2>1, <3>1 DEF Lane
    <3>4. f[j] = f[k]
      BY <1>4, <2>1, <3>2, <3>3
    <3>. QED
      BY <1>2, <2>1, <3>4
  <2>3. CASE ~edges[j].oneway
    <3>1. ~edges[k].oneway /\ Street(edges[j]) = Street(edges[k])
      <4>1. ~edges[k].oneway
        <5>. HIDE DEF of
        <5>. QED
          BY <2>0, <2>3
      <4>. QED
        BY <1>7, <1>8, <2>1, <2>3, <4>1
    <3>2. ~(j < k)
      <4>. SUFFICES ASSUME j < k PROVE FALSE
        OBVIOUS
      <4>1. j \in 1 .. k - 1
        BY <1>2, <2>1
      <4>. QED
        BY <2>1, <2>3, <3>1, <4>1 DEF Dropped
    <3>3. ~(k < j)
      <4>. SUFFICES ASSUME k < j PROVE FALSE
        OBVIOUS
      <4>1. k \in 1 .. j - 1
        BY <1>2, <2>1
      <4>. QED
        BY <2>1, <2>3, <3>1, <4>1 DEF Dropped
    <3>. QED
      BY <1>2, <2>1, <3>2, <3>3
  <2>. QED
    BY <2>2, <2>3
<1>9. ASSUME NEW t \in Stretches PROVE \E k \in segments : of(k) \in RoadWith(t)
  <2>. DEFINE lane == <<t[1], t[2], t[3], TRUE>>
              Its == {k \in DOMAIN edges : of(k) \in RoadWith(t)}
  <2>1. t = <<t[1], t[2], t[3]>> /\ lane \in Lanes
    <3>1. t = <<t[1], t[2], t[3]>> /\ t[1] \in DOMAIN Ways /\ t[2] \in Nat /\ t[3] \in Nat
          /\ Strip(t[1], t[2], t[3])
      BY <1>0 DEF Strips
    <3>2. Lane(lane)
      BY <3>1 DEF Lane
    <3>3. lane \in (DOMAIN Ways) \X Nat \X Nat \X BOOLEAN
      BY <3>1
    <3>. HIDE DEF lane
    <3>. QED
      BY <1>3, <3>1, <3>2, <3>3
  <2>2. Its # {}
    <3>1. PICK k \in DOMAIN edges : f[k] = lane
      BY <1>2, <2>1
    <3>2. of(k) = t
      BY <2>1, <3>1
    <3>3. of(k) \in RoadWith(t)
      <4>. HIDE DEF of
      <4>. QED
        BY <3>2, RoadsPart
    <3>. QED
      BY <3>3
  <2>3. PICK k \in Its : \A j \in Its : k <= j
    <3>1. Its \in SUBSET Nat
      BY <1>2
    <3>. HIDE DEF Its
    <3>. QED
      BY <2>2, <3>1, LeastNatural
  <2>4. ~Dropped(k)
    <3>. SUFFICES ASSUME NEW x \in 1 .. k - 1, Street(edges[x]) = Street(edges[k]),
                         ~edges[x].oneway, ~edges[k].oneway
                  PROVE  FALSE
      BY DEF Dropped
    <3>1. k \in DOMAIN edges /\ x \in DOMAIN edges /\ x < k /\ x \in Nat /\ k \in Nat
      BY <1>2, <2>3
    <3>2. of(x) \in RoadWith(of(k)) /\ of(k) \in RoadWith(t)
      BY <1>7, <2>3, <3>1
    <3>3. x \in Its
      <4>1. RoadWith(of(k)) = RoadWith(t)
        <5>. HIDE DEF of
        <5>. QED
          BY <3>2, RoadsPart
      <4>. QED
        BY <3>1, <3>2, <4>1
    <3>. QED
      <4>. HIDE DEF Its
      <4>1. k <= x
        BY <2>3, <3>3
      <4>. QED
        BY <3>1, <4>1
  <2>. QED
    BY <1>5, <2>3, <2>4
<1>. DEFINE h == [k \in segments |-> of(k)]
<1>10. h \in [segments -> Stretches] /\ \A k \in segments : h[k] = of(k) /\ Shows(k, h[k])
  <2>1. \A k \in segments : k \in DOMAIN edges
    BY <1>5
  <2>2. \A k \in segments : of(k) \in Stretches /\ Shows(k, of(k))
    BY <1>6, <2>1
  <2>. HIDE DEF of
  <2>. QED
    BY <2>2
<1>11. /\ \A t \in Stretches : \E k \in segments : h[k] \in RoadWith(t)
       /\ \A j, k \in segments : h[j] \in RoadWith(h[k]) => j = k
  <2>. HIDE DEF of, h
  <2>. QED
    BY <1>8, <1>9, <1>10
<1>. HIDE DEF h
<1>. QED
  BY <1>10, <1>11

Pieces == {x \in (DOMAIN Ways) \X Nat : x[2] \in 1 .. Last(x[1]) - 1}

LengthOfPiece == [x \in Pieces |-> Leg(x[1], x[2])]

LEMMA PiecesFinite == ASSUME extract \in Extracts PROVE IsFiniteSet(Pieces)
<1>. DEFINE Of(y) == {x \in Pieces : x[1] = y}
            All == {Of(y) : y \in DOMAIN Ways}
<1>1. IsFiniteSet(DOMAIN Ways) /\ \A y \in DOMAIN Ways : Last(y) \in Nat
  <2>1. DOMAIN Ways = 1 .. Len(Ways) /\ Len(Ways) \in Nat /\ \A y \in DOMAIN Ways : Last(y) \in Nat
    BY WaysTyped
  <2>. QED
    BY <2>1, FS_Interval
<1>2. ASSUME NEW y \in DOMAIN Ways PROVE IsFiniteSet(Of(y))
  <2>1. IsFiniteSet(1 .. Last(y) - 1)
    BY <1>1, FS_Interval
  <2>2. [k \in 1 .. Last(y) - 1 |-> <<y, k>>] \in Surjection(1 .. Last(y) - 1, Of(y))
    <3>1. \A k \in 1 .. Last(y) - 1 : <<y, k>> \in Of(y)
      BY <1>1 DEF Pieces
    <3>2. \A x \in Of(y) : \E k \in 1 .. Last(y) - 1 : <<y, k>> = x
      BY DEF Pieces
    <3>. HIDE DEF Of
    <3>. QED
      BY <3>1, <3>2 DEF Surjection
  <2>. QED
    BY <2>1, <2>2, FS_Surjection
<1>3. IsFiniteSet(All)
  <2>1. [y \in DOMAIN Ways |-> Of(y)] \in Surjection(DOMAIN Ways, All)
    BY DEF Surjection
  <2>. QED
    BY <1>1, <2>1, FS_Surjection
<1>4. Pieces = UNION All
  BY DEF Pieces
<1>5. \A T \in All : IsFiniteSet(T)
  BY <1>2
<1>. HIDE DEF All
<1>. QED
  BY <1>3, <1>4, <1>5, FS_UNION

(* The pieces of a stretch of one way are together as long as it.          *)
LEMMA StretchIsItsPieces ==
    ASSUME extract \in Extracts, Complete, NEW y \in DOMAIN Ways,
           NEW a \in 1 .. Last(y), NEW b \in Int, b <= Last(y) - 1,
           NEW P, P = {x \in Pieces : x[1] = y /\ x[2] \in a .. b}
    PROVE  Total(Restrict(LengthOfPiece, P)) = Total([k \in a .. b |-> Leg(y, k)])
<1>. DEFINE weight == [k \in a .. b |-> Leg(y, k)]
            g == [k \in a .. b |-> <<y, k>>]
            part == Restrict(LengthOfPiece, P)
<1>1. Last(y) \in Nat /\ \A k \in a .. b : k \in 1 .. Last(y) - 1 /\ k \in Nat
  BY WaysTyped
<1>2. \A k \in a .. b : <<y, k>> \in P /\ <<y, k>> \in Pieces
  BY <1>1 DEF Pieces
<1>3. \A x \in P : \E k \in a .. b : x = <<y, k>>
  BY DEF Pieces
<1>4. \A k \in a .. b : Leg(y, k) \in Nat
  BY <1>1, LegFacts
<1>5. IsFiniteSet(a .. b) /\ IsFiniteSet(P)
  <2>1. P \in SUBSET Pieces
    OBVIOUS
  <2>2. IsFiniteSet(a .. b)
    BY <1>1, FS_Interval
  <2>. QED
    BY <2>1, <2>2, PiecesFinite, FS_Subset
<1>6. weight \in [a .. b -> Nat]
  BY <1>4
<1>7. part = [x \in P |-> Leg(x[1], x[2])]
  BY DEF Restrict, LengthOfPiece
<1>. HIDE DEF part
<1>8. part \in [P -> Nat] /\ \A k \in a .. b : part[<<y, k>>] = Leg(y, k)
  <2>1. \A x \in P : Leg(x[1], x[2]) \in Nat
    BY <1>3, <1>4
  <2>. QED
    BY <1>2, <1>7, <2>1
<1>9. /\ g \in [a .. b -> P] /\ (\A x \in P : \E k \in a .. b : g[k] = x)
      /\ (\A j, k \in a .. b : g[j] = g[k] => j = k)
      /\ (\A k \in a .. b : part[g[k]] = weight[k])
  <2>1. g \in [a .. b -> P] /\ \A k \in a .. b : g[k] = <<y, k>>
    BY <1>2
  <2>2. \A k \in a .. b : weight[k] = Leg(y, k)
    OBVIOUS
  <2>. HIDE DEF g, weight
  <2>3. \A x \in P : \E k \in a .. b : g[k] = x
    BY <1>3, <2>1
  <2>4. \A j, k \in a .. b : g[j] = g[k] => j = k
    BY <2>1
  <2>5. \A k \in a .. b : part[g[k]] = weight[k]
    BY <1>8, <2>1, <2>2
  <2>. QED
    BY <2>1, <2>3, <2>4, <2>5
<1>. DEFINE S == a .. b
<1>. HIDE DEF g, weight
<1>10. /\ IsFiniteSet(S) /\ weight \in [S -> Nat]
       /\ g \in [S -> P] /\ (\A x \in P : \E k \in S : g[k] = x)
       /\ (\A j, k \in S : g[j] = g[k] => j = k)
       /\ (\A k \in S : part[g[k]] = weight[k])
       /\ IsFiniteSet(P) /\ part \in [P -> Nat]
  BY <1>5, <1>6, <1>8, <1>9
<1>. HIDE DEF S
<1>11. Total(weight) = Total(part)
  BY <1>10, TotalMoved
<1>. QED
  BY <1>11 DEF part, weight

LEMMA PiecesByWay ==
    ASSUME extract \in Extracts, Complete
    PROVE  Total(LengthOfPiece) = Total([y \in DOMAIN Ways |-> LengthOfWay(y)])
<1>. DEFINE share == [y \in DOMAIN Ways |-> LengthOfWay(y)]
            g == [x \in Pieces |-> x[1]]
<1>1. /\ IsFiniteSet(DOMAIN Ways) /\ IsFiniteSet(Pieces)
      /\ \A y \in DOMAIN Ways : Last(y) \in Nat
  <2>1. DOMAIN Ways = 1 .. Len(Ways) /\ Len(Ways) \in Nat /\ \A y \in DOMAIN Ways : Last(y) \in Nat
    BY WaysTyped
  <2>. QED
    BY <2>1, FS_Interval, PiecesFinite
<1>2. LengthOfPiece \in [Pieces -> Nat]
  <2>1. \A x \in Pieces : Leg(x[1], x[2]) \in Nat
    BY LegFacts DEF Pieces
  <2>. QED
    BY <2>1 DEF LengthOfPiece
<1>3. g \in [Pieces -> DOMAIN Ways]
  BY DEF Pieces
<1>4. ASSUME NEW y \in DOMAIN Ways
      PROVE  share[y] \in Nat /\ share[y] = Total(Restrict(LengthOfPiece, Fibre(g, Pieces, y)))
  <2>. DEFINE P == {x \in Pieces : x[1] = y /\ x[2] \in 1 .. Last(y) - 1}
  <2>1. Fibre(g, Pieces, y) = P
    BY DEF Fibre, Pieces
  <2>2. LengthOfWay(y) = Total([k \in 1 .. Last(y) - 1 |-> Leg(y, k)])
    BY LegFacts
  <2>3. LengthOfWay(y) \in Nat
    <3>1. [k \in 1 .. Last(y) - 1 |-> Leg(y, k)] \in [1 .. Last(y) - 1 -> Nat]
      BY LegFacts
    <3>2. IsFiniteSet(1 .. Last(y) - 1)
      BY <1>1, FS_Interval
    <3>. QED
      BY <2>2, <3>1, <3>2, TotalTyped
  <2>4. CASE Last(y) >= 1
    <3>1. 1 \in 1 .. Last(y) /\ Last(y) - 1 \in Int
      BY <1>1, <2>4
    <3>2. Total(Restrict(LengthOfPiece, P)) = Total([k \in 1 .. Last(y) - 1 |-> Leg(y, k)])
      <4>. HIDE DEF P
      <4>. QED
        BY <1>1, <3>1, StretchIsItsPieces DEF P
    <3>. QED
      BY <2>1, <2>2, <2>3, <3>2
  <2>5. CASE Last(y) = 0
    <3>1. 1 .. Last(y) - 1 = {} /\ P = {}
      BY <2>5
    <3>2. /\ [k \in 1 .. Last(y) - 1 |-> Leg(y, k)] \in [{} -> Nat]
          /\ Restrict(LengthOfPiece, P) \in [{} -> Nat]
      BY <3>1 DEF Restrict
    <3>. QED
      BY <2>1, <2>2, <2>3, <3>2, TotalOfNone
  <2>. QED
    BY <1>1, <2>4, <2>5
<1>5. share \in [DOMAIN Ways -> Nat]
  BY <1>4
<1>. HIDE DEF share, g
<1>. QED
  BY <1>1, <1>2, <1>3, <1>4, <1>5, TotalByParts DEF share

LEMMA PiecesByStrip ==
    ASSUME IInv, pc # "count", Complete, IsFiniteSet(Strips)
    PROVE  /\ Total(LengthOfPiece) = Total([t \in Strips |-> LengthOfStrip(t)])
           /\ \A t \in Strips : LengthOfStrip(t) \in Nat
<1>. DEFINE share == [t \in Strips |-> LengthOfStrip(t)]
            around(x, t) == t[1] = x[1] /\ t[2] <= x[2] /\ x[2] < t[3]
            g == [x \in Pieces |-> CHOOSE t \in Strips : around(x, t)]
<1>0. extract \in Extracts
  BY DEF IInv, Shape
<1>1. IsFiniteSet(Pieces) /\ \A y \in DOMAIN Ways : Last(y) \in Nat
  BY <1>0, PiecesFinite, WaysTyped
<1>2. LengthOfPiece \in [Pieces -> Nat]
  <2>1. \A x \in Pieces : Leg(x[1], x[2]) \in Nat
    BY <1>0, LegFacts DEF Pieces
  <2>. QED
    BY <2>1 DEF LengthOfPiece
<1>3. ASSUME NEW x \in Pieces PROVE \E t \in Strips : around(x, t)
  <2>1. x[1] \in DOMAIN Ways /\ x[2] \in 1 .. Last(x[1]) - 1
    BY DEF Pieces
  <2>2. PICK a \in Nat, b \in Nat : Strip(x[1], a, b) /\ a <= x[2] /\ x[2] < b
    BY <2>1, StripAround
  <2>3. <<x[1], a, b>> \in Strips /\ around(x, <<x[1], a, b>>)
    BY <2>1, <2>2 DEF Strips
  <2>. QED
    BY <2>3
<1>4. \A t \in Strips : /\ t[1] \in DOMAIN Ways /\ t[2] \in Nat /\ t[3] \in Nat
                        /\ t = <<t[1], t[2], t[3]>> /\ Strip(t[1], t[2], t[3])
  BY DEF Strips
<1>5. ASSUME NEW x \in Pieces, NEW s \in Strips, NEW t \in Strips, around(x, s), around(x, t)
      PROVE  s = t
  <2>1. x[1] \in DOMAIN Ways /\ x[2] \in Int
    BY DEF Pieces
  <2>2. s[2] = t[2] /\ s[3] = t[3]
    <3>1. Strip(x[1], s[2], s[3]) /\ Strip(x[1], t[2], t[3])
      BY <1>4, <1>5
    <3>. QED
      BY <1>1, <1>5, <2>1, <3>1, OneStripAround
  <2>. QED
    BY <1>4, <1>5, <2>2
<1>6. g \in [Pieces -> Strips] /\ \A x \in Pieces : \A t \in Strips : g[x] = t <=> around(x, t)
  <2>1. \A x \in Pieces : g[x] \in Strips /\ around(x, g[x])
    BY <1>3
  <2>2. g \in [Pieces -> Strips]
    BY <2>1
  <2>. HIDE DEF g, around
  <2>. QED
    BY <1>5, <2>1, <2>2
<1>. HIDE DEF g
<1>7. ASSUME NEW t \in Strips
      PROVE  LengthOfStrip(t) \in Nat
             /\ LengthOfStrip(t) = Total(Restrict(LengthOfPiece, Fibre(g, Pieces, t)))
  <2>1. /\ t[1] \in DOMAIN Ways /\ t[2] \in 1 .. Last(t[1]) /\ t[3] \in 1 .. Last(t[1])
        /\ t[2] < t[3] /\ t[3] - 1 \in Int /\ t[3] - 1 <= Last(t[1]) - 1
    BY <1>1, <1>4 DEF Strip
  <2>. DEFINE P == {x \in Pieces : x[1] = t[1] /\ x[2] \in t[2] .. t[3] - 1}
  <2>2. Fibre(g, Pieces, t) = P
    <3>1. Fibre(g, Pieces, t) = {x \in Pieces : around(x, t)}
      BY <1>6 DEF Fibre
    <3>2. \A x \in Pieces : x[2] \in Int
      BY DEF Pieces
    <3>. QED
      BY <2>1, <3>1, <3>2
  <2>3. LengthOfStrip(t) = Total([k \in t[2] .. t[3] - 1 |-> Leg(t[1], k)])
    BY <1>0, <2>1, LegFacts DEF LengthOfStrip
  <2>4. LengthOfStrip(t) \in Nat
    BY <1>0, <2>1, LegsTyped DEF LengthOfStrip
  <2>5. Total(Restrict(LengthOfPiece, P)) = Total([k \in t[2] .. t[3] - 1 |-> Leg(t[1], k)])
    <3>. HIDE DEF P
    <3>. QED
      BY <1>0, <2>1, StretchIsItsPieces DEF P
  <2>. QED
    BY <2>2, <2>3, <2>4, <2>5
<1>8. share \in [Strips -> Nat] /\ \A t \in Strips : share[t] = LengthOfStrip(t)
  BY <1>7
<1>. HIDE DEF share
<1>9. Total(LengthOfPiece) = Total(share)
  BY <1>1, <1>2, <1>6, <1>7, <1>8, TotalByParts
<1>. QED
  BY <1>7, <1>9 DEF share

(* Of every extract with coordinates for all its nodes, on whatever ways:  *)
(* road_network_from_graph keeps exactly one edge of each road, two-way    *)
(* stretches of one way id between the same two nodes being one road, with *)
(* the ends and the length of a stretch; and where each stretch is a road  *)
(* of its own the lengths of the segments add up to those of the ways.     *)
THEOREM MatcherKnowsEach == Spec => []MatcherKnowsEachRoadOnce
<1>1. ASSUME IInv, pc = "done", Complete PROVE MatcherKnowsEachRoadOnce
  <2>1. PICK g : /\ g \in [segments -> Stretches]
                 /\ \A k \in segments : Shows(k, g[k])
                 /\ \A t \in Stretches : \E k \in segments : g[k] \in RoadWith(t)
                 /\ \A j, k \in segments : g[j] \in RoadWith(g[k]) => j = k
    BY <1>1, SegmentsAreRoads
  <2>2. IsFiniteSet(segments)
    <3>1. PICK f : Lists(f, edges, Lanes)
      BY <1>1 DEF IInv, SplitRight, EdgesListed
    <3>2. IsFiniteSet(DOMAIN edges)
      BY <3>1, EdgesTyped DEF Lists
    <3>3. segments \in SUBSET DOMAIN edges
      BY <1>1 DEF IInv, Served
    <3>. QED
      BY <3>2, <3>3, FS_Subset
  <2>3. Cardinality(segments) = Cardinality({RoadWith(t) : t \in Stretches})
    <3>. DEFINE h == [k \in segments |-> RoadWith(g[k])]
                Roads == {RoadWith(t) : t \in Stretches}
    <3>1. h \in [segments -> Roads] /\ \A k \in segments : h[k] = RoadWith(g[k])
      BY <2>1
    <3>. HIDE DEF h
    <3>2. \A j, k \in segments : h[j] = h[k] => j = k
      BY <2>1, <3>1, RoadsPart
    <3>3. ASSUME NEW t \in Stretches PROVE \E k \in segments : h[k] = RoadWith(t)
      BY <2>1, <3>1, RoadsPart
    <3>4. \A r \in Roads : \E k \in segments : h[k] = r
      BY <3>3
    <3>. HIDE DEF Roads
    <3>5. h \in Bijection(segments, Roads)
      BY <3>1, <3>2, <3>4 DEF Bijection, Injection, Surjection, IsInjective
    <3>6. Cardinality(segments) = Cardinality(Roads)
      BY <2>2, <3>5, FS_Bijection DEF ExistsBijection
    <3>. QED
      BY <3>6 DEF Roads
  <2>4. ASSUME \A t \in Stretches : RoadWith(t) = {t}
        PROVE  Total([k \in segments |-> edges[k].distance])
                   = Total([y \in DOMAIN Ways |-> LengthOfWay(y)])
    <3>1. /\ \A t \in Strips : \E k \in segments : g[k] = t
          /\ \A j, k \in segments : g[j] = g[k] => j = k
          /\ g \in [segments -> Strips]
      BY <1>1, <2>1, <2>4, StretchesAreStrips DEF IInv, Shape
    <3>2. IsFiniteSet(Strips)
      <4>1. g \in Surjection(segments, Strips)
        BY <3>1 DEF Surjection
      <4>. QED
        BY <2>2, <4>1, FS_Surjection
    <3>. DEFINE weight == [k \in segments |-> edges[k].distance]
                share == [t \in Strips |-> LengthOfStrip(t)]
    <3>3. /\ Total(LengthOfPiece) = Total(share)
          /\ \A t \in Strips : LengthOfStrip(t) \in Nat
      BY <1>1, <3>2, PiecesByStrip
    <3>4. ASSUME NEW k \in segments PROVE edges[k].distance = LengthOfStrip(g[k])
      <4>1. edges[k].distance = LengthOfStretch(g[k]) /\ g[k] \in Strips
        BY <2>1, <3>1 DEF Shows
      <4>2. g[k][1] \in DOMAIN Ways /\ g[k][2] \in 1 .. Last(g[k][1]) /\ g[k][3] \in 1 .. Last(g[k][1])
        BY <4>1 DEF Strips, Strip
      <4>. QED
        BY <1>1, <4>1, <4>2, LegFacts DEF LengthOfStretch, LengthOfStrip, IInv, Shape
    <3>5. /\ share \in [Strips -> Nat] /\ weight \in [segments -> Nat]
          /\ \A k \in segments : share[g[k]] = weight[k]
      BY <3>1, <3>3, <3>4
    <3>. HIDE DEF weight, share
    <3>6. Total(weight) = Total(share)
      BY <2>2, <3>1, <3>2, <3>5, TotalMoved
    <3>7. Total(LengthOfPiece) = Total([y \in DOMAIN Ways |-> LengthOfWay(y)])
      BY <1>1, PiecesByWay DEF IInv, Shape
    <3>. QED
      BY <3>3, <3>6, <3>7 DEF weight
  <2>5. \A t \in Stretches : \E k \in segments : \E s \in RoadWith(t) : Shows(k, s)
    BY <2>1
  <2>. QED
    BY <2>1, <2>3, <2>4, <2>5 DEF MatcherKnowsEachRoadOnce
<1>2. ASSUME IInv PROVE MatcherKnowsEachRoadOnce
  BY <1>1, <1>2 DEF MatcherKnowsEachRoadOnce
<1>. QED
  BY <1>2, Reachable, PTL

-----------------------------------------------------------------------------
(* Distances.                                                              *)

LEMMA LengthsAdd ==
    ASSUME extract \in Extracts, Complete, NEW y \in DOMAIN Ways,
           NEW k \in 1 .. Last(y) - 1
    PROVE  /\ \A a \in 1 .. k : LengthOf(Refs(y), a, k + 1) = LengthOf(Refs(y), a, k) + Leg(y, k)
           /\ \A b \in k + 1 .. Last(y) :
                 LengthOf(Refs(y), k, b) = Leg(y, k) + LengthOf(Refs(y), k + 1, b)
           /\ Leg(y, k) \in Nat
<1>1. /\ Last(y) \in Nat /\ k \in 1 .. Last(y) /\ k + 1 \in 1 .. Last(y) /\ k \in Nat
      /\ Leg(y, k) \in Nat
  <2>1. Last(y) \in Nat
    BY WaysTyped
  <2>2. Leg(y, k) \in Nat
    BY LegFacts
  <2>. QED
    BY <2>1, <2>2
<1>2. \A a, b \in 1 .. Last(y) :
          LengthOf(Refs(y), a, b) = Total([x \in a .. b - 1 |-> Leg(y, x)])
  BY LegFacts
<1>3. \A x \in 1 .. Last(y) - 1 : Leg(y, x) \in Nat
  BY LegFacts
<1>4. ASSUME NEW a \in 1 .. Last(y), NEW b \in 1 .. Last(y), k \in a .. b - 1
      PROVE  LET weight == [x \in a .. b - 1 |-> Leg(y, x)]
             IN  LengthOf(Refs(y), a, b)
                     = Leg(y, k) + Total([x \in (a .. b - 1) \ {k} |-> Leg(y, x)])
                 /\ Total([x \in (a .. b - 1) \ {k} |-> Leg(y, x)]) \in Nat
  <2>. DEFINE S == a .. b - 1
              weight == [x \in S |-> Leg(y, x)]
  <2>1. weight \in [S -> Nat] /\ k \in S /\ weight[k] = Leg(y, k)
    BY <1>1, <1>3, <1>4
  <2>2. IsFiniteSet(S)
    BY <1>1, FS_Interval
  <2>3. Restrict(weight, S \ {k}) = [x \in S \ {k} |-> Leg(y, x)]
    BY DEF Restrict
  <2>4. LengthOf(Refs(y), a, b) = Total(weight)
    BY <1>2
  <2>. HIDE DEF S, weight
  <2>5. /\ Total(weight) = weight[k] + Total(Restrict(weight, S \ {k}))
        /\ Total(Restrict(weight, S \ {k})) \in Nat
    BY <2>1, <2>2, TotalWithout
  <2>. QED
    BY <2>1, <2>3, <2>4, <2>5 DEF S
<1>5. ASSUME NEW a \in 1 .. k
      PROVE  LengthOf(Refs(y), a, k + 1) = LengthOf(Refs(y), a, k) + Leg(y, k)
  <2>1. a \in 1 .. Last(y) /\ k \in a .. k + 1 - 1 /\ (a .. k + 1 - 1) \ {k} = a .. k - 1
    BY <1>1
  <2>2. LengthOf(Refs(y), a, k) = Total([x \in a .. k - 1 |-> Leg(y, x)])
    BY <1>1, <1>2, <2>1
  <2>3. /\ LengthOf(Refs(y), a, k + 1)
              = Leg(y, k) + Total([x \in (a .. k + 1 - 1) \ {k} |-> Leg(y, x)])
        /\ Total([x \in (a .. k + 1 - 1) \ {k} |-> Leg(y, x)]) \in Nat
    BY <1>1, <1>4, <2>1
  <2>. QED
    BY <1>1, <2>1, <2>2, <2>3
<1>6. ASSUME NEW b \in k + 1 .. Last(y)
      PROVE  LengthOf(Refs(y), k, b) = Leg(y, k) + LengthOf(Refs(y), k + 1, b)
  <2>1. b \in 1 .. Last(y) /\ k \in k .. b - 1 /\ (k .. b - 1) \ {k} = k + 1 .. b - 1
    BY <1>1
  <2>2. LengthOf(Refs(y), k + 1, b) = Total([x \in k + 1 .. b - 1 |-> Leg(y, x)])
    BY <1>1, <1>2, <2>1
  <2>3. LengthOf(Refs(y), k, b) = Leg(y, k) + Total([x \in (k .. b - 1) \ {k} |-> Leg(y, x)])
    BY <1>1, <1>4, <2>1
  <2>. QED
    BY <2>1, <2>2, <2>3
<1>. QED
  BY <1>1, <1>5, <1>6

LEMMA NoLength ==
    ASSUME extract \in Extracts, Complete, NEW y \in DOMAIN Ways, NEW a \in 1 .. Last(y)
    PROVE  LengthOf(Refs(y), a, a) = 0
<1>1. LengthOf(Refs(y), a, a) = Total([x \in a .. a - 1 |-> Leg(y, x)])
  BY LegFacts
<1>2. a .. a - 1 = {} /\ [x \in {} |-> Leg(y, x)] \in [{} -> Nat]
  BY WaysTyped
<1>. QED
  BY <1>1, <1>2, TotalOfNone

(* How far the k-th node of its way is along a lane, and where a lane      *)
(* starts.                                                                 *)
Along(p, k) ==
    IF p[4] THEN LengthOf(Refs(p[1]), p[2], k) ELSE LengthOf(Refs(p[1]), k, p[3])

Foot(p) == IF p[4] THEN p[2] ELSE p[3]
Tip(p) == IF p[4] THEN p[3] ELSE p[2]

LEMMA AlongFacts ==
    ASSUME extract \in Extracts, Complete, NEW p, Lane(p), p[4] \in BOOLEAN
    PROVE  /\ p[1] \in DOMAIN Ways /\ p[2] \in 1 .. Last(p[1]) /\ p[3] \in 1 .. Last(p[1])
           /\ p[2] < p[3] /\ Last(p[1]) \in Nat
           /\ \A k \in p[2] .. p[3] : k \in 1 .. Last(p[1]) /\ Along(p, k) \in Nat
           /\ Along(p, Foot(p)) = 0
           /\ Along(p, Tip(p)) = LengthOf(Refs(p[1]), p[2], p[3])
           /\ \A k \in p[2] .. p[3] - 1 :
                 /\ Leg(p[1], k) \in Nat
                 /\ p[4] => Along(p, k + 1) = Along(p, k) + Leg(p[1], k)
                 /\ ~p[4] => Along(p, k) = Along(p, k + 1) + Leg(p[1], k)
<1>1. /\ p[1] \in DOMAIN Ways /\ p[2] \in 1 .. Last(p[1]) /\ p[3] \in 1 .. Last(p[1])
      /\ p[2] < p[3] /\ Last(p[1]) \in Nat
  BY WaysTyped DEF Lane, Strip
<1>2. \A k \in p[2] .. p[3] : k \in 1 .. Last(p[1]) /\ k \in Int
  BY <1>1
<1>3. \A k \in p[2] .. p[3] : Along(p, k) \in Nat
  BY <1>1, <1>2, LegsTyped DEF Along
<1>4. Along(p, Foot(p)) = 0 /\ Along(p, Tip(p)) = LengthOf(Refs(p[1]), p[2], p[3])
  BY <1>1, NoLength DEF Along, Foot, Tip
<1>5. ASSUME NEW k \in p[2] .. p[3] - 1
      PROVE  /\ Leg(p[1], k) \in Nat
             /\ p[4] => Along(p, k + 1) = Along(p, k) + Leg(p[1], k)
             /\ ~p[4] => Along(p, k) = Along(p, k + 1) + Leg(p[1], k)
  <2>1. /\ k \in 1 .. Last(p[1]) - 1 /\ p[2] \in 1 .. k /\ p[3] \in k + 1 .. Last(p[1])
        /\ k + 1 \in p[2] .. p[3]
    BY <1>1
  <2>2. Leg(p[1], k) \in Nat
    BY <1>1, <2>1, LengthsAdd
  <2>3. LengthOf(Refs(p[1]), p[2], k + 1) = LengthOf(Refs(p[1]), p[2], k) + Leg(p[1], k)
    BY <1>1, <2>1, LengthsAdd
  <2>4. LengthOf(Refs(p[1]), k, p[3]) = Leg(p[1], k) + LengthOf(Refs(p[1]), k + 1, p[3])
    BY <1>1, <2>1, LengthsAdd
  <2>5. LengthOf(Refs(p[1]), k + 1, p[3]) \in Nat
    BY <1>1, <2>1, LegsTyped
  <2>. QED
    BY <2>2, <2>3, <2>4, <2>5 DEF Along
<1>. QED
  BY <1>1, <1>2, <1>3, <1>4, <1>5

(* From the x-th node of way y to its z-th, the next or the one before.    *)
Moves(y, x, z) ==
    /\ y \in DOMAIN Ways /\ x \in 1 .. Last(y) /\ z \in 1 .. Last(y)
    /\ z = x + 1 \/ (x = z + 1 /\ ~Ways[y].oneway)

Dist(y, x, z) == Apart(extract.located[Refs(y)[x]], extract.located[Refs(y)[z]])

LEMMA MovesAlongLegs ==
    ASSUME extract \in Extracts, Complete, NEW y, NEW x, NEW z, Moves(y, x, z)
    PROVE  /\ z = x + 1 => Dist(y, x, z) = Leg(y, x) /\ x \in 1 .. Last(y) - 1
           /\ x = z + 1 => Dist(y, x, z) = Leg(y, z) /\ z \in 1 .. Last(y) - 1
           /\ Dist(y, x, z) \in Nat
<1>1. /\ y \in DOMAIN Ways /\ x \in 1 .. Last(y) /\ z \in 1 .. Last(y) /\ Last(y) \in Nat
      /\ DOMAIN Refs(y) = 1 .. Last(y) /\ (z = x + 1 \/ x = z + 1)
  BY WaysTyped DEF Moves
<1>2. extract.located[Refs(y)[x]] \in Int /\ extract.located[Refs(y)[z]] \in Int
  BY <1>1, ExtractsAssumption DEF IsExtract, Complete, Located, Refs
<1>3. \A c, d \in Int : Apart(c, d) = Apart(d, c) /\ Apart(c, d) \in Nat
  BY DEF Apart
<1>4. z = x + 1 => Dist(y, x, z) = Leg(y, x) /\ x \in 1 .. Last(y) - 1
  BY <1>1 DEF Dist, Leg
<1>5. x = z + 1 => Dist(y, x, z) = Leg(y, z) /\ z \in 1 .. Last(y) - 1
  <2>. SUFFICES ASSUME x = z + 1
                PROVE  Dist(y, x, z) = Leg(y, z) /\ z \in 1 .. Last(y) - 1
    OBVIOUS
  <2>1. Leg(y, z) = Apart(extract.located[Refs(y)[z]], extract.located[Refs(y)[x]])
    BY DEF Leg
  <2>2. Dist(y, x, z) = Leg(y, z)
    BY <1>2, <1>3, <2>1 DEF Dist
  <2>. QED
    BY <1>1, <2>2
<1>6. Dist(y, x, z) \in Nat
  BY <1>2, <1>3 DEF Dist
<1>. QED
  BY <1>4, <1>5, <1>6

LEMMA LegsAreMoves ==
    ASSUME extract \in Extracts
    PROVE  /\ \A leg \in Legs : \E y, x, z :
                 Moves(y, x, z) /\ leg = <<Refs(y)[x], Refs(y)[z]>>
           /\ \A y, x, z : Moves(y, x, z) => <<Refs(y)[x], Refs(y)[z]>> \in Legs
<1>. DEFINE There(y) == {<<Refs(y)[k], Refs(y)[k + 1]>> : k \in 1 .. Last(y) - 1}
            Back(y) == {<<Refs(y)[k + 1], Refs(y)[k]>> :
                           k \in {x \in 1 .. Last(y) - 1 : ~Ways[y].oneway}}
<1>1. Legs = UNION {There(y) \cup Back(y) : y \in DOMAIN Ways}
  BY DEF Legs, Refs, Last
<1>2. \A y \in DOMAIN Ways : Last(y) \in Nat
  BY WaysTyped
<1>3. ASSUME NEW y \in DOMAIN Ways, NEW leg \in There(y) \cup Back(y)
      PROVE  \E x, z : Moves(y, x, z) /\ leg = <<Refs(y)[x], Refs(y)[z]>>
  <2>1. CASE leg \in There(y)
    <3>1. PICK k \in 1 .. Last(y) - 1 : leg = <<Refs(y)[k], Refs(y)[k + 1]>>
      BY <2>1
    <3>2. Moves(y, k, k + 1)
      BY <1>2 DEF Moves
    <3>. QED
      BY <3>1, <3>2
  <2>2. CASE leg \in Back(y)
    <3>1. PICK k \in 1 .. Last(y) - 1 : ~Ways[y].oneway /\ leg = <<Refs(y)[k + 1], Refs(y)[k]>>
      BY <2>2
    <3>2. Moves(y, k + 1, k)
      BY <1>2, <3>1 DEF Moves
    <3>. QED
      BY <3>1, <3>2
  <2>. QED
    BY <1>3, <2>1, <2>2
<1>4. ASSUME NEW y, NEW x, NEW z, Moves(y, x, z)
      PROVE  y \in DOMAIN Ways /\ <<Refs(y)[x], Refs(y)[z]>> \in There(y) \cup Back(y)
  <2>1. y \in DOMAIN Ways /\ x \in 1 .. Last(y) /\ z \in 1 .. Last(y) /\ Last(y) \in Nat
    BY <1>2, <1>4 DEF Moves
  <2>2. CASE z = x + 1
    <3>1. x \in 1 .. Last(y) - 1
      BY <2>1, <2>2
    <3>. QED
      BY <2>1, <2>2, <3>1
  <2>3. CASE x = z + 1 /\ ~Ways[y].oneway
    <3>1. z \in {k \in 1 .. Last(y) - 1 : ~Ways[y].oneway}
      BY <2>1, <2>3
    <3>. QED
      BY <2>1, <2>3, <3>1
  <2>. QED
    BY <1>4, <2>2, <2>3 DEF Moves
<1>. HIDE DEF There, Back
<1>5. \A leg \in Legs : \E y \in DOMAIN Ways : leg \in There(y) \cup Back(y)
  BY <1>1
<1>6. \A y \in DOMAIN Ways : \A leg \in There(y) \cup Back(y) : leg \in Legs
  BY <1>1
<1>. QED
  BY <1>3, <1>4, <1>5, <1>6

StreetRoads(o) ==
    [at \in {o} \cup {leg[2] : leg \in Legs} |->
        {<<leg[2], Apart(extract.located[leg[1]], extract.located[leg[2]])>> :
            leg \in {x \in Legs : x[1] = at}}]

LEMMA LegsFinite == ASSUME extract \in Extracts PROVE IsFiniteSet(Legs)
<1>. DEFINE g == [q \in Pieces \X BOOLEAN |->
                    IF q[2] THEN <<Refs(q[1][1])[q[1][2]], Refs(q[1][1])[q[1][2] + 1]>>
                    ELSE <<Refs(q[1][1])[q[1][2] + 1], Refs(q[1][1])[q[1][2]]>>]
            All == {g[q] : q \in Pieces \X BOOLEAN}
<1>1. IsFiniteSet(Pieces \X BOOLEAN)
  <2>1. IsFiniteSet(BOOLEAN)
    <3>1. IsFiniteSet({} \cup {TRUE})
      BY FS_EmptySet, FS_AddElement
    <3>2. IsFiniteSet(({} \cup {TRUE}) \cup {FALSE})
      BY <3>1, FS_AddElement
    <3>3. BOOLEAN = ({} \cup {TRUE}) \cup {FALSE}
      OBVIOUS
    <3>. QED
      BY <3>2, <3>3
  <2>. QED
    BY <2>1, PiecesFinite, FS_Product
<1>2. IsFiniteSet(All)
  <2>1. g \in Surjection(Pieces \X BOOLEAN, All)
    BY DEF Surjection
  <2>. QED
    BY <1>1, <2>1, FS_Surjection
<1>3. \A k \in Pieces : g[<<k, TRUE>>] \in All /\ g[<<k, FALSE>>] \in All
  OBVIOUS
<1>4. Legs \subseteq All
  <2>. SUFFICES ASSUME NEW leg \in Legs PROVE leg \in All
    OBVIOUS
  <2>1. PICK y, x, z : Moves(y, x, z) /\ leg = <<Refs(y)[x], Refs(y)[z]>>
    BY LegsAreMoves
  <2>2. /\ y \in DOMAIN Ways /\ x \in 1 .. Last(y) /\ z \in 1 .. Last(y) /\ Last(y) \in Nat
        /\ (z = x + 1 \/ x = z + 1)
    BY <2>1, WaysTyped DEF Moves
  <2>3. CASE z = x + 1
    <3>1. <<y, x>> \in Pieces
      BY <2>2, <2>3 DEF Pieces
    <3>2. g[<<<<y, x>>, TRUE>>] = leg
      BY <2>1, <2>3, <3>1
    <3>. QED
      BY <1>3, <3>1, <3>2
  <2>4. CASE x = z + 1
    <3>1. <<y, z>> \in Pieces
      BY <2>2, <2>4 DEF Pieces
    <3>2. g[<<<<y, z>>, FALSE>>] = leg
      BY <2>1, <2>4, <3>1
    <3>. QED
      BY <1>3, <3>1, <3>2
  <2>. QED
    BY <2>2, <2>3, <2>4
<1>. QED
  BY <1>2, <1>4, FS_Subset

LEMMA StreetRoadsFacts ==
    ASSUME extract \in Extracts, Complete, NEW o
    PROVE  /\ AreRoads(o, StreetRoads(o)) /\ IsFiniteSet(DOMAIN StreetRoads(o))
           /\ \A at \in DOMAIN StreetRoads(o) : \A r \in StreetRoads(o)[at] :
                 \E y, x, z : /\ Moves(y, x, z) /\ Refs(y)[x] = at
                              /\ r = <<Refs(y)[z], Dist(y, x, z)>>
           /\ \A y, x, z : Moves(y, x, z) /\ Refs(y)[x] \in DOMAIN StreetRoads(o) =>
                 <<Refs(y)[z], Dist(y, x, z)>> \in StreetRoads(o)[Refs(y)[x]]
<1>. DEFINE S == {o} \cup {leg[2] : leg \in Legs}
            Out(at) == {<<leg[2], Apart(extract.located[leg[1]], extract.located[leg[2]])>> :
                           leg \in {x \in Legs : x[1] = at}}
            roads == StreetRoads(o)
<1>1. DOMAIN roads = S /\ \A at \in S : roads[at] = Out(at)
  BY DEF StreetRoads
<1>. HIDE DEF roads
<1>2. ASSUME NEW at \in S, NEW r \in Out(at)
      PROVE  \E y, x, z : /\ Moves(y, x, z) /\ Refs(y)[x] = at
                          /\ r = <<Refs(y)[z], Dist(y, x, z)>>
  <2>1. PICK leg \in Legs : leg[1] = at
              /\ r = <<leg[2], Apart(extract.located[leg[1]], extract.located[leg[2]])>>
    OBVIOUS
  <2>2. PICK y, x, z : Moves(y, x, z) /\ leg = <<Refs(y)[x], Refs(y)[z]>>
    BY LegsAreMoves
  <2>3. r = <<Refs(y)[z], Dist(y, x, z)>> /\ Refs(y)[x] = at
    BY <2>1, <2>2 DEF Dist
  <2>. QED
    BY <2>2, <2>3
<1>3. ASSUME NEW y, NEW x, NEW z, Moves(y, x, z)
      PROVE  /\ <<Refs(y)[z], Dist(y, x, z)>> \in Out(Refs(y)[x])
             /\ Refs(y)[z] \in S
  <2>. DEFINE leg == <<Refs(y)[x], Refs(y)[z]>>
  <2>1. leg \in Legs /\ leg[1] = Refs(y)[x] /\ leg[2] = Refs(y)[z]
    BY <1>3, LegsAreMoves
  <2>2. Dist(y, x, z) = Apart(extract.located[leg[1]], extract.located[leg[2]])
    BY <2>1 DEF Dist
  <2>. HIDE DEF leg
  <2>. QED
    BY <2>1, <2>2
<1>4. IsFiniteSet(S)
  <2>. DEFINE T == {leg[2] : leg \in Legs}
  <2>1. [leg \in Legs |-> leg[2]] \in Surjection(Legs, T)
    BY DEF Surjection
  <2>2. IsFiniteSet(T)
    BY <2>1, LegsFinite, FS_Surjection
  <2>. HIDE DEF T
  <2>3. IsFiniteSet(T \cup {o})
    BY <2>2, FS_AddElement
  <2>. QED
    BY <2>3 DEF T
<1>5. \A at \in S : Out(at) \subseteq S \X Nat
  <2>. SUFFICES ASSUME NEW at \in S, NEW r \in Out(at) PROVE r \in S \X Nat
    OBVIOUS
  <2>1. PICK y, x, z : /\ Moves(y, x, z) /\ Refs(y)[x] = at
                       /\ r = <<Refs(y)[z], Dist(y, x, z)>>
    BY <1>2
  <2>2. Dist(y, x, z) \in Nat /\ Refs(y)[z] \in S
    BY <1>3, <2>1, MovesAlongLegs
  <2>. HIDE DEF S
  <2>. QED
    BY <2>1, <2>2
<1>6. roads = [at \in S |-> Out(at)]
  BY DEF roads, StreetRoads
<1>. HIDE DEF S, Out
<1>7. AreRoads(o, roads)
  <2>1. o \in S
    BY DEF S
  <2>. QED
    BY <1>1, <1>5, <1>6, <2>1 DEF AreRoads
<1>. QED
  BY <1>1, <1>2, <1>3, <1>4, <1>7 DEF roads

GraphRoads(u) ==
    [at \in {u} \cup {edges[k].to : k \in DOMAIN edges} |->
        {<<edges[k].to, edges[k].distance>> : k \in {x \in DOMAIN edges : edges[x].from = at}}]

LEMMA GraphRoadsFacts ==
    ASSUME edges \in Seq(OsmEdge), NEW u
    PROVE  /\ AreRoads(u, GraphRoads(u)) /\ IsFiniteSet(DOMAIN GraphRoads(u))
           /\ \A at \in DOMAIN GraphRoads(u) : \A r \in GraphRoads(u)[at] :
                 \E k \in DOMAIN edges :
                    /\ edges[k].from = at /\ r = <<edges[k].to, edges[k].distance>>
           /\ \A k \in DOMAIN edges : edges[k].from \in DOMAIN GraphRoads(u) =>
                 <<edges[k].to, edges[k].distance>> \in GraphRoads(u)[edges[k].from]
<1>. DEFINE S == {u} \cup {edges[k].to : k \in DOMAIN edges}
            Out(at) == {<<edges[k].to, edges[k].distance>> :
                           k \in {x \in DOMAIN edges : edges[x].from = at}}
            roads == GraphRoads(u)
<1>1. DOMAIN roads = S /\ (\A at \in S : roads[at] = Out(at)) /\ roads = [at \in S |-> Out(at)]
  BY DEF GraphRoads
<1>2. IsFiniteSet(DOMAIN edges) /\ \A k \in DOMAIN edges : edges[k].distance \in Nat
  BY EdgesTyped
<1>3. IsFiniteSet(S)
  <2>. DEFINE T == {edges[k].to : k \in DOMAIN edges}
  <2>1. [k \in DOMAIN edges |-> edges[k].to] \in Surjection(DOMAIN edges, T)
    BY DEF Surjection
  <2>2. IsFiniteSet(T)
    BY <1>2, <2>1, FS_Surjection
  <2>. HIDE DEF T
  <2>3. IsFiniteSet(T \cup {u})
    BY <2>2, FS_AddElement
  <2>. QED
    BY <2>3 DEF T
<1>4. \A at \in S : Out(at) \subseteq S \X Nat
  BY <1>2
<1>5. \A at : \A r \in Out(at) : \E k \in DOMAIN edges :
          edges[k].from = at /\ r = <<edges[k].to, edges[k].distance>>
  OBVIOUS
<1>6. \A k \in DOMAIN edges : <<edges[k].to, edges[k].distance>> \in Out(edges[k].from)
  OBVIOUS
<1>7. u \in S
  OBVIOUS
<1>. HIDE DEF S, Out, roads
<1>8. AreRoads(u, roads)
  BY <1>1, <1>4, <1>7 DEF AreRoads
<1>. QED
  BY <1>1, <1>3, <1>5, <1>6, <1>8 DEF roads

LEMMA LaneMoves ==
    ASSUME extract \in Extracts, NEW p, Lane(p), p[4] \in BOOLEAN, NEW k \in p[2] .. p[3] - 1
    PROVE  /\ p[4] => Moves(p[1], k, k + 1)
           /\ ~p[4] => Moves(p[1], k + 1, k)
<1>1. /\ p[1] \in DOMAIN Ways /\ p[2] \in 1 .. Last(p[1]) /\ p[3] \in 1 .. Last(p[1])
      /\ Last(p[1]) \in Nat /\ (p[4] \/ ~Ways[p[1]].oneway)
  BY WaysTyped DEF Lane, Strip
<1>2. k \in 1 .. Last(p[1]) /\ k + 1 \in 1 .. Last(p[1])
  BY <1>1
<1>. QED
  BY <1>1, <1>2 DEF Moves

(* Costs that no move betters.                                             *)
StreetsSolved(over) ==
    /\ \A q \in DOMAIN over : over[q] \in Nat
    /\ \A y, x, z : Moves(y, x, z) /\ Refs(y)[x] \in DOMAIN over =>
          /\ Refs(y)[z] \in DOMAIN over
          /\ over[Refs(y)[z]] <= over[Refs(y)[x]] + Dist(y, x, z)

(* Then no lane betters them either.                                       *)
LEMMA LanesAreSolved ==
    ASSUME extract \in Extracts, Complete, NEW p, Lane(p), p[4] \in BOOLEAN,
           NEW over, StreetsSolved(over), Refs(p[1])[Foot(p)] \in DOMAIN over
    PROVE  /\ Refs(p[1])[Tip(p)] \in DOMAIN over
           /\ over[Refs(p[1])[Tip(p)]]
                 <= over[Refs(p[1])[Foot(p)]] + LengthOf(Refs(p[1]), p[2], p[3])
<1>. DEFINE y == p[1]
            n == p[3] - p[2]
            pos(h) == IF p[4] THEN p[2] + h ELSE p[3] - h
            start == over[Refs(y)[Foot(p)]]
            Good(k) == /\ Refs(y)[k] \in DOMAIN over
                       /\ over[Refs(y)[k]] <= start + Along(p, k)
            T == {h \in Nat : h <= n => Good(pos(h))}
<1>1. /\ y \in DOMAIN Ways /\ p[2] \in Nat /\ p[3] \in Nat /\ p[2] < p[3]
      /\ \A k \in p[2] .. p[3] : Along(p, k) \in Nat
      /\ Along(p, Foot(p)) = 0 /\ Along(p, Tip(p)) = LengthOf(Refs(y), p[2], p[3])
      /\ \A k \in p[2] .. p[3] - 1 :
            /\ Leg(y, k) \in Nat
            /\ p[4] => Along(p, k + 1) = Along(p, k) + Leg(y, k)
            /\ ~p[4] => Along(p, k) = Along(p, k + 1) + Leg(y, k)
  BY AlongFacts
<1>2. \A q \in DOMAIN over : over[q] \in Nat
  BY DEF StreetsSolved
<1>3. start \in Nat
  BY <1>2
<1>4. pos(0) = Foot(p) /\ pos(n) = Tip(p) /\ n \in Nat
  BY <1>1 DEF Foot, Tip
<1>. HIDE DEF start
<1>5. Good(Foot(p))
  <2>1. Refs(y)[Foot(p)] \in DOMAIN over /\ over[Refs(y)[Foot(p)]] = start
    BY DEF start
  <2>. QED
    BY <1>1, <1>3, <2>1
<1>6. ASSUME NEW k, NEW z, Moves(y, k, z), Good(k), Along(p, k) \in Nat,
             Along(p, z) = Along(p, k) + Dist(y, k, z)
      PROVE  Good(z)
  <2>1. Refs(y)[z] \in DOMAIN over /\ over[Refs(y)[z]] <= over[Refs(y)[k]] + Dist(y, k, z)
    BY <1>6 DEF StreetsSolved
  <2>2. over[Refs(y)[z]] \in Nat /\ over[Refs(y)[k]] \in Nat /\ Dist(y, k, z) \in Nat
    BY <1>2, <1>6, <2>1, MovesAlongLegs
  <2>3. over[Refs(y)[k]] <= start + Along(p, k)
    BY <1>6
  <2>4. over[Refs(y)[z]] <= start + Along(p, z)
    <3>. DEFINE u == over[Refs(y)[z]]
                v == over[Refs(y)[k]]
                d == Dist(y, k, z)
                c == Along(p, k)
                e == Along(p, z)
    <3>1. /\ u \in Nat /\ v \in Nat /\ d \in Nat /\ c \in Nat /\ start \in Nat
          /\ u <= v + d /\ v <= start + c /\ e = c + d
      BY <1>3, <1>6, <2>1, <2>2, <2>3
    <3>. HIDE DEF u, v, d, c, e
    <3>2. u <= start + e
      BY <3>1
    <3>. QED
      BY <3>2 DEF u, e
  <2>. QED
    BY <2>1, <2>4
<1>. HIDE DEF Good
<1>7. 0 \in T
  BY <1>4, <1>5
<1>8. ASSUME NEW h \in Nat, h \in T PROVE h + 1 \in T
  <2>. SUFFICES ASSUME h + 1 <= n PROVE Good(pos(h + 1))
    OBVIOUS
  <2>1. Good(pos(h))
    BY <1>4, <1>8
  <2>2. CASE p[4]
    <3>. DEFINE k == p[2] + h
    <3>1. k \in p[2] .. p[3] - 1 /\ k \in p[2] .. p[3] /\ pos(h) = k /\ pos(h + 1) = k + 1
      BY <1>1, <2>2
    <3>. HIDE DEF k, pos
    <3>2. Moves(y, k, k + 1)
      BY <2>2, <3>1, LaneMoves
    <3>3. Dist(y, k, k + 1) = Leg(y, k)
      BY <3>2, MovesAlongLegs
    <3>4. Along(p, k) \in Nat /\ Along(p, k + 1) = Along(p, k) + Dist(y, k, k + 1)
      BY <1>1, <2>2, <3>1, <3>3
    <3>5. Good(k + 1)
      BY <1>6, <2>1, <3>1, <3>2, <3>4
    <3>. QED
      BY <3>1, <3>5
  <2>3. CASE ~p[4]
    <3>. DEFINE k == p[3] - (h + 1)
    <3>1. k \in p[2] .. p[3] - 1 /\ k + 1 \in p[2] .. p[3] /\ pos(h) = k + 1 /\ pos(h + 1) = k
      BY <1>1, <2>3
    <3>. HIDE DEF k, pos
    <3>2. Moves(y, k + 1, k)
      BY <2>3, <3>1, LaneMoves
    <3>3. Dist(y, k + 1, k) = Leg(y, k)
      BY <3>2, MovesAlongLegs
    <3>4. Along(p, k + 1) \in Nat /\ Along(p, k) = Along(p, k + 1) + Dist(y, k + 1, k)
      BY <1>1, <2>3, <3>1, <3>3
    <3>5. Good(k)
      BY <1>6, <2>1, <3>1, <3>2, <3>4
    <3>. QED
      BY <3>1, <3>5
  <2>. QED
    BY <2>2, <2>3
<1>9. n \in T
  <2>. HIDE DEF T
  <2>. QED
    BY <1>4, <1>7, <1>8, InductionOverNat
<1>10. Good(Tip(p))
  <2>1. Good(pos(n))
    BY <1>4, <1>9
  <2>. HIDE DEF pos
  <2>. QED
    BY <1>4, <2>1
<1>. QED
  BY <1>1, <1>10 DEF Good, start

(* Costs that no edge betters.                                             *)
EdgesSolved(here) ==
    /\ \A u \in DOMAIN here : here[u] \in Nat
    /\ \A k \in DOMAIN edges : edges[k].from \in DOMAIN here =>
          /\ edges[k].to \in DOMAIN here
          /\ here[edges[k].to] <= here[edges[k].from] + edges[k].distance

(* Who drives for c from the start may be at the k-th node of the lane p,  *)
(* having entered the lane at its foot.                                    *)
Near(p, k, c, here) ==
    /\ p \in Lanes /\ k \in p[2] .. p[3] /\ c \in Nat
    /\ EdgeAlong(p).from \in DOMAIN here
    /\ here[EdgeAlong(p).from] + Along(p, k) <= c

Knows(q, c, here) ==
    /\ c \in Nat
    /\ IF q \in DOMAIN osm_to_internal
       THEN osm_to_internal[q] \in DOMAIN here /\ here[osm_to_internal[q]] <= c
       ELSE \E p, k : Near(p, k, c, here) /\ Refs(p[1])[k] = q

LEMMA NearMoves ==
    ASSUME extract \in Extracts, Complete, NEW here, EdgesSolved(here),
           NEW p, NEW x, NEW c, Near(p, x, c, here),
           NEW z, z \in p[2] .. p[3], Moves(p[1], x, z)
    PROVE  Near(p, z, c + Dist(p[1], x, z), here)
<1>1. Lane(p) /\ p[4] \in BOOLEAN
  BY DEF Near, Lanes
<1>2. /\ p[2] \in Nat /\ p[3] \in Nat /\ x \in p[2] .. p[3]
      /\ \A k \in p[2] .. p[3] : Along(p, k) \in Nat
      /\ \A k \in p[2] .. p[3] - 1 :
            /\ Leg(p[1], k) \in Nat
            /\ p[4] => Along(p, k + 1) = Along(p, k) + Leg(p[1], k)
            /\ ~p[4] => Along(p, k) = Along(p, k + 1) + Leg(p[1], k)
  BY <1>1, AlongFacts DEF Near
<1>3. /\ Dist(p[1], x, z) \in Nat /\ (z = x + 1 \/ x = z + 1)
      /\ z = x + 1 => Dist(p[1], x, z) = Leg(p[1], x)
      /\ x = z + 1 => Dist(p[1], x, z) = Leg(p[1], z)
  BY MovesAlongLegs DEF Moves
<1>4. Along(p, z) <= Along(p, x) + Dist(p[1], x, z)
  <2>1. CASE z = x + 1
    <3>1. x \in p[2] .. p[3] - 1
      BY <1>2, <2>1
    <3>2. /\ Leg(p[1], x) \in Nat /\ Along(p, x) \in Nat /\ Along(p, z) \in Nat
          /\ p[4] => Along(p, z) = Along(p, x) + Leg(p[1], x)
          /\ ~p[4] => Along(p, x) = Along(p, z) + Leg(p[1], x)
          /\ Dist(p[1], x, z) = Leg(p[1], x)
      BY <1>2, <1>3, <2>1, <3>1
    <3>. QED
      BY <3>2
  <2>2. CASE x = z + 1
    <3>1. z \in p[2] .. p[3] - 1
      BY <1>2, <2>2
    <3>2. /\ Leg(p[1], z) \in Nat /\ Along(p, x) \in Nat /\ Along(p, z) \in Nat
          /\ p[4] => Along(p, x) = Along(p, z) + Leg(p[1], z)
          /\ ~p[4] => Along(p, z) = Along(p, x) + Leg(p[1], z)
          /\ Dist(p[1], x, z) = Leg(p[1], z)
      BY <1>2, <1>3, <2>2, <3>1
    <3>. QED
      BY <3>2
  <2>. QED
    BY <1>3, <2>1, <2>2
<1>. DEFINE u == here[EdgeAlong(p).from]
            a == Along(p, x)
            b == Along(p, z)
            d == Dist(p[1], x, z)
<1>5. /\ u \in Nat /\ a \in Nat /\ b \in Nat /\ d \in Nat /\ c \in Nat
      /\ u + a <= c /\ b <= a + d
      /\ p \in Lanes /\ EdgeAlong(p).from \in DOMAIN here
  BY <1>2, <1>3, <1>4 DEF Near, EdgesSolved
<1>. HIDE DEF u, a, b, d
<1>6. u + b <= c + d /\ c + d \in Nat
  BY <1>5
<1>. QED
  BY <1>5, <1>6 DEF Near, u, b, d

LEMMA NearIsKnown ==
    ASSUME IInv, pc = "done", Complete, NEW here, EdgesSolved(here),
           NEW p, NEW k, NEW c, Near(p, k, c, here)
    PROVE  Knows(Refs(p[1])[k], c, here)
<1>1. /\ p \in Lanes /\ Lane(p) /\ p[4] \in BOOLEAN /\ c \in Nat
      /\ extract \in Extracts /\ Numbered /\ EdgesListed
  BY DEF Near, Lanes, IInv, Shape, SplitRight
<1>2. CASE ~Stop(p[1], k)
  BY <1>1, <1>2 DEF Knows, Stop
<1>3. CASE Stop(p[1], k)
  <2>1. k = Foot(p) \/ k = Tip(p)
    <3>1. p[2] \in Int /\ p[3] \in Int /\ k \in p[2] .. p[3]
      BY <1>1 DEF Near, Lane, Strip
    <3>2. k \notin p[2] + 1 .. p[3] - 1
      BY <1>1, <1>3 DEF Lane, Strip
    <3>3. k = p[2] \/ k = p[3]
      BY <3>1, <3>2
    <3>. QED
      BY <3>3 DEF Foot, Tip
  <2>2. /\ EdgeAlong(p).from = osm_to_internal[Refs(p[1])[Foot(p)]]
        /\ EdgeAlong(p).to = osm_to_internal[Refs(p[1])[Tip(p)]]
        /\ EdgeAlong(p).distance = LengthOf(Refs(p[1]), p[2], p[3])
    BY <1>1, LaneFacts DEF Foot, Tip
  <2>3. /\ Along(p, Foot(p)) = 0
        /\ Along(p, Tip(p)) = LengthOf(Refs(p[1]), p[2], p[3])
    BY <1>1, AlongFacts
  <2>4. /\ EdgeAlong(p).from \in DOMAIN here /\ here[EdgeAlong(p).from] \in Nat
        /\ here[EdgeAlong(p).from] + Along(p, k) <= c
    BY DEF Near, EdgesSolved
  <2>5. CASE k = Foot(p)
    <3>1. here[EdgeAlong(p).from] + 0 <= c
      BY <2>3, <2>4, <2>5
    <3>2. here[EdgeAlong(p).from] <= c
      BY <1>1, <2>4, <3>1
    <3>. QED
      BY <1>1, <1>3, <2>2, <2>4, <2>5, <3>2 DEF Knows, Stop
  <2>6. CASE k = Tip(p)
    <3>1. PICK e \in DOMAIN edges : edges[e] = EdgeAlong(p)
      <4>1. PICK f : Lists(f, edges, Lanes)
        BY <1>1 DEF EdgesListed
      <4>2. PICK e \in 1 .. Len(edges) : f[e] = p
        BY <1>1, <4>1 DEF Lists
      <4>3. edges \in Seq(OsmEdge) /\ edges[e] = EdgeAlong(p)
        BY <4>1, <4>2 DEF Lists
      <4>. QED
        BY <4>3
    <3>2. /\ EdgeAlong(p).to \in DOMAIN here
          /\ here[EdgeAlong(p).to] <= here[EdgeAlong(p).from] + EdgeAlong(p).distance
      BY <2>4, <3>1 DEF EdgesSolved
    <3>3. EdgeAlong(p).distance = Along(p, k)
      BY <2>2, <2>3, <2>6
    <3>4. Along(p, k) \in Nat /\ here[EdgeAlong(p).to] \in Nat
      BY <1>1, <3>2, AlongFacts DEF Near, EdgesSolved
    <3>5. here[EdgeAlong(p).to] <= c
      BY <1>1, <2>4, <3>2, <3>3, <3>4
    <3>. QED
      BY <1>1, <1>3, <2>2, <2>6, <3>2, <3>5 DEF Knows, Stop
  <2>. QED
    BY <2>1, <2>5, <2>6
<1>. QED
  BY <1>2, <1>3

(* What the edges know of a node they know of those next to it.            *)
LEMMA KnowsMoves ==
    ASSUME IInv, pc = "done", Complete, NEW here, EdgesSolved(here),
           NEW y, NEW x, NEW z, Moves(y, x, z), NEW c, Knows(Refs(y)[x], c, here)
    PROVE  Knows(Refs(y)[z], c + Dist(y, x, z), here)
<1>1. /\ y \in DOMAIN Ways /\ x \in 1 .. Last(y) /\ z \in 1 .. Last(y) /\ Last(y) \in Nat
      /\ z = x + 1 \/ (x = z + 1 /\ ~Ways[y].oneway)
      /\ extract \in Extracts /\ Numbered /\ DOMAIN Refs(y) = 1 .. Last(y)
  BY WaysTyped DEF Moves, IInv, Shape, SplitRight
<1>2. SUFFICES ASSUME NEW p, p[1] = y, Near(p, x, c, here), z \in p[2] .. p[3]
               PROVE  Knows(Refs(y)[z], c + Dist(y, x, z), here)
  <2>1. CASE Stop(y, x)
    <3>. DEFINE k == IF z = x + 1 THEN x ELSE z
                ahead == z = x + 1
    <3>1. k \in 1 .. Last(y) - 1 /\ k \in Int
      BY <1>1
    <3>. HIDE DEF k
    <3>2. PICK a, b \in Nat : Strip(y, a, b) /\ a <= k /\ k < b
      BY <1>1, <3>1, StripAround
    <3>. DEFINE p == <<y, a, b, ahead>>
    <3>3. /\ p[1] = y /\ p[2] = a /\ p[3] = b /\ p[4] = ahead /\ ahead \in BOOLEAN
          /\ p \in (DOMAIN Ways) \X Nat \X Nat \X BOOLEAN
      BY <1>1
    <3>4. \A h \in a + 1 .. b - 1 : ~Stop(y, h)
      BY <3>2 DEF Strip
    <3>5. /\ x \in a .. b /\ z \in a .. b
          /\ x = IF ahead THEN a ELSE b
      BY <1>1, <2>1, <3>1, <3>2, <3>4 DEF k
    <3>. HIDE DEF p
    <3>6. Lane(p)
      BY <1>1, <3>2, <3>3 DEF Lane
    <3>. HIDE DEF ahead
    <3>7. p \in Lanes
      BY <3>3, <3>6 DEF Lanes, SplitAt
    <3>8. x = Foot(p)
      BY <3>3, <3>5 DEF Foot
    <3>9. EdgeAlong(p).from = osm_to_internal[Refs(y)[x]]
      BY <1>1, <3>3, <3>6, <3>8, LaneFacts DEF Foot
    <3>10. Along(p, x) = 0
      BY <1>1, <3>3, <3>6, <3>8, AlongFacts
    <3>11. /\ osm_to_internal[Refs(y)[x]] \in DOMAIN here /\ c \in Nat
           /\ here[osm_to_internal[Refs(y)[x]]] <= c
           /\ here[osm_to_internal[Refs(y)[x]]] \in Nat
      BY <2>1 DEF Knows, Stop, EdgesSolved
    <3>12. here[EdgeAlong(p).from] + Along(p, x) <= c
      BY <3>9, <3>10, <3>11
    <3>13. Near(p, x, c, here)
      BY <3>3, <3>5, <3>7, <3>9, <3>11, <3>12 DEF Near
    <3>. QED
      BY <1>2, <3>3, <3>5, <3>13
  <2>2. CASE ~Stop(y, x)
    <3>1. PICK p, j : Near(p, j, c, here) /\ Refs(p[1])[j] = Refs(y)[x]
      BY <2>2 DEF Knows, Stop
    <3>2. /\ Lane(p) /\ p[4] \in BOOLEAN /\ j \in p[2] .. p[3]
      BY <3>1 DEF Near, Lanes
    <3>3. /\ p[1] \in DOMAIN Ways /\ j \in 1 .. Last(p[1])
      BY <1>1, <3>2, AlongFacts
    <3>4. Located(Refs(y)[x])
      BY <1>1 DEF Complete, Refs
    <3>5. p[1] = y /\ j = x
      BY <1>1, <2>2, <3>1, <3>3, <3>4, SharedNodes
    <3>6. /\ p[2] \in Int /\ p[3] \in Int /\ Stop(y, p[2]) /\ Stop(y, p[3])
      BY <3>2, <3>5 DEF Lane, Strip
    <3>7. x # p[2] /\ x # p[3]
      BY <2>2, <3>6
    <3>8. z \in p[2] .. p[3]
      BY <1>1, <3>2, <3>5, <3>6, <3>7
    <3>. QED
      BY <1>2, <3>1, <3>5, <3>8
  <2>. QED
    BY <2>1, <2>2
<1>3. Near(p, z, c + Dist(y, x, z), here)
  BY <1>1, <1>2, NearMoves
<1>. QED
  BY <1>2, <1>3, NearIsKnown

LEMMA GraphSolves ==
    ASSUME IInv, pc = "done", NEW u, NEW here, here = GraphDistances(u)
    PROVE  EdgesSolved(here) /\ u \in DOMAIN here /\ here[u] = 0
<1>. DEFINE roads == GraphRoads(u)
<1>1. edges \in Seq(OsmEdge)
  BY DEF IInv, SplitRight, EdgesListed, Lists
<1>2. AreRoads(u, roads) /\ IsFiniteSet(DOMAIN roads)
  BY <1>1, GraphRoadsFacts
<1>3. here = LeastCostsOver(u, roads)
  BY DEF GraphDistances, GraphRoads
<1>4. \A k \in DOMAIN edges : edges[k].from \in DOMAIN roads =>
          <<edges[k].to, edges[k].distance>> \in roads[edges[k].from]
  BY <1>1, GraphRoadsFacts
<1>. HIDE DEF roads
<1>5. /\ DOMAIN here \subseteq DOMAIN roads
      /\ u \in DOMAIN here /\ here[u] = 0
      /\ \A k \in DOMAIN here :
            /\ here[k] \in Nat
            /\ \A r \in roads[k] : r[1] \in DOMAIN here /\ here[r[1]] <= here[k] + r[2]
  BY <1>2, <1>3, LeastCostsSolve
<1>6. ASSUME NEW k \in DOMAIN edges, edges[k].from \in DOMAIN here
      PROVE  /\ edges[k].to \in DOMAIN here
             /\ here[edges[k].to] <= here[edges[k].from] + edges[k].distance
  <2>. DEFINE r == <<edges[k].to, edges[k].distance>>
  <2>1. r \in roads[edges[k].from] /\ r[1] = edges[k].to /\ r[2] = edges[k].distance
    BY <1>4, <1>5, <1>6
  <2>. HIDE DEF r
  <2>2. r[1] \in DOMAIN here /\ here[r[1]] <= here[edges[k].from] + r[2]
    BY <1>5, <1>6, <2>1
  <2>. QED
    BY <2>1, <2>2
<1>. QED
  BY <1>5, <1>6 DEF EdgesSolved

LEMMA StreetsSolve ==
    ASSUME extract \in Extracts, Complete, NEW o, NEW over, over = StreetDistances(o)
    PROVE  StreetsSolved(over) /\ o \in DOMAIN over /\ over[o] = 0
<1>. DEFINE roads == StreetRoads(o)
<1>1. /\ AreRoads(o, roads) /\ IsFiniteSet(DOMAIN roads)
      /\ \A y, x, z : Moves(y, x, z) /\ Refs(y)[x] \in DOMAIN roads =>
            <<Refs(y)[z], Dist(y, x, z)>> \in roads[Refs(y)[x]]
  BY StreetRoadsFacts
<1>2. over = LeastCostsOver(o, roads)
  BY DEF StreetDistances, StreetRoads
<1>. HIDE DEF roads
<1>3. /\ DOMAIN over \subseteq DOMAIN roads
      /\ o \in DOMAIN over /\ over[o] = 0
      /\ \A k \in DOMAIN over :
            /\ over[k] \in Nat
            /\ \A r \in roads[k] : r[1] \in DOMAIN over /\ over[r[1]] <= over[k] + r[2]
  BY <1>1, <1>2, LeastCostsSolve
<1>4. ASSUME NEW y, NEW x, NEW z, Moves(y, x, z), Refs(y)[x] \in DOMAIN over
      PROVE  /\ Refs(y)[z] \in DOMAIN over
             /\ over[Refs(y)[z]] <= over[Refs(y)[x]] + Dist(y, x, z)
  <2>. DEFINE r == <<Refs(y)[z], Dist(y, x, z)>>
  <2>1. r \in roads[Refs(y)[x]] /\ r[1] = Refs(y)[z] /\ r[2] = Dist(y, x, z)
    BY <1>1, <1>3, <1>4
  <2>. HIDE DEF r
  <2>2. r[1] \in DOMAIN over /\ over[r[1]] <= over[Refs(y)[x]] + r[2]
    BY <1>3, <1>4, <2>1
  <2>. QED
    BY <2>1, <2>2
<1>. QED
  BY <1>3, <1>4 DEF StreetsSolved

(* The edges lead everywhere the ways do, and at no greater cost.          *)
LEMMA EdgesReachAll ==
    ASSUME IInv, pc = "done", Complete, NEW o \in DOMAIN osm_to_internal,
           NEW over, over = StreetDistances(o),
           NEW here, here = GraphDistances(osm_to_internal[o]),
           NEW q \in DOMAIN osm_to_internal, q \in DOMAIN over
    PROVE  /\ osm_to_internal[q] \in DOMAIN here
           /\ here[osm_to_internal[q]] <= over[q]
<1>. DEFINE roads == StreetRoads(o)
            S == {d \in Drives(roads) : Knows(d[1], d[2], here)}
<1>1. extract \in Extracts
  BY DEF IInv, Shape
<1>2. AreRoads(o, roads) /\ IsFiniteSet(DOMAIN roads)
  BY <1>1, StreetRoadsFacts
<1>3. EdgesSolved(here) /\ osm_to_internal[o] \in DOMAIN here /\ here[osm_to_internal[o]] = 0
  BY GraphSolves
<1>4. over = LeastCostsOver(o, roads)
  BY DEF StreetDistances, StreetRoads
<1>5. <<o, 0>> \in S
  BY <1>2, <1>3 DEF Knows, Drives, AreRoads
<1>6. ASSUME NEW d \in S \cap Drives(roads), NEW r \in roads[d[1]]
      PROVE  <<r[1], d[2] + r[2]>> \in S
  <2>1. d[1] \in DOMAIN roads /\ d[2] \in Nat /\ Knows(d[1], d[2], here)
    BY DEF Drives
  <2>2. PICK y, x, z : /\ Moves(y, x, z) /\ Refs(y)[x] = d[1]
                       /\ r = <<Refs(y)[z], Dist(y, x, z)>>
    BY <1>1, <2>1, StreetRoadsFacts
  <2>3. Knows(Refs(y)[z], d[2] + Dist(y, x, z), here)
    BY <1>3, <2>1, <2>2, KnowsMoves
  <2>4. r[1] \in DOMAIN roads /\ r[2] \in Nat
    BY <1>2, <2>1 DEF AreRoads
  <2>. HIDE DEF roads
  <2>5. <<r[1], d[2] + r[2]>> \in Drives(roads)
    BY <2>1, <2>4 DEF Drives
  <2>6. Knows(r[1], d[2] + r[2], here)
    BY <2>2, <2>3
  <2>. QED
    BY <2>5, <2>6
<1>. HIDE DEF roads, S
<1>7. <<q, over[q]>> \in S
  BY <1>2, <1>4, <1>5, <1>6, LeastCostsAreDriven
<1>8. Knows(q, over[q], here)
  BY <1>7 DEF S
<1>. QED
  BY <1>8 DEF Knows

(* They lead nowhere else, and at no smaller cost.                         *)
LEMMA WaysReachAll ==
    ASSUME IInv, pc = "done", Complete, NEW o \in DOMAIN osm_to_internal,
           NEW over, over = StreetDistances(o),
           NEW here, here = GraphDistances(osm_to_internal[o]),
           NEW u \in DOMAIN here
    PROVE  \E q \in DOMAIN osm_to_internal :
               osm_to_internal[q] = u /\ q \in DOMAIN over /\ over[q] <= here[u]
<1>. DEFINE start == osm_to_internal[o]
            roads == GraphRoads(start)
            Reaches(v, c) == \E q \in DOMAIN osm_to_internal :
                                osm_to_internal[q] = v /\ q \in DOMAIN over /\ over[q] <= c
            S == {d \in Drives(roads) : Reaches(d[1], d[2])}
<1>1. /\ extract \in Extracts /\ Numbered /\ edges \in Seq(OsmEdge)
      /\ \A q, r \in DOMAIN osm_to_internal : osm_to_internal[q] = osm_to_internal[r] => q = r
  BY DEF IInv, Shape, SplitRight, EdgesListed, Lists, Numbered
<1>2. AreRoads(start, roads) /\ IsFiniteSet(DOMAIN roads)
  BY <1>1, GraphRoadsFacts
<1>3. StreetsSolved(over) /\ o \in DOMAIN over /\ over[o] = 0
  BY <1>1, StreetsSolve
<1>4. here = LeastCostsOver(start, roads)
  BY DEF GraphDistances, GraphRoads
<1>5. <<start, 0>> \in S
  BY <1>2, <1>3 DEF Drives, AreRoads
<1>6. ASSUME NEW d \in S \cap Drives(roads), NEW r \in roads[d[1]]
      PROVE  <<r[1], d[2] + r[2]>> \in S
  <2>1. d[1] \in DOMAIN roads /\ d[2] \in Nat /\ Reaches(d[1], d[2])
    BY DEF Drives
  <2>2. PICK q \in DOMAIN osm_to_internal :
            osm_to_internal[q] = d[1] /\ q \in DOMAIN over /\ over[q] <= d[2]
    BY <2>1
  <2>3. PICK k \in DOMAIN edges : edges[k].from = d[1] /\ r = <<edges[k].to, edges[k].distance>>
    BY <1>1, <2>1, GraphRoadsFacts
  <2>4. PICK p \in Lanes : Lane(p) /\ p[4] \in BOOLEAN /\ edges[k] = EdgeAlong(p)
    BY EdgeIsALane
  <2>5. /\ r[2] = LengthOf(Refs(p[1]), p[2], p[3])
        /\ d[1] = osm_to_internal[Refs(p[1])[Foot(p)]]
        /\ r[1] = osm_to_internal[Refs(p[1])[Tip(p)]]
    BY <1>1, <2>3, <2>4, LaneFacts DEF Foot, Tip
  <2>6. /\ Refs(p[1])[Foot(p)] \in DOMAIN osm_to_internal
        /\ Refs(p[1])[Tip(p)] \in DOMAIN osm_to_internal
    BY <2>4 DEF Lane, Strip, Stop, Foot, Tip
  <2>7. Refs(p[1])[Foot(p)] = q
    BY <1>1, <2>2, <2>5, <2>6
  <2>8. /\ Refs(p[1])[Tip(p)] \in DOMAIN over
        /\ over[Refs(p[1])[Tip(p)]] <= over[q] + r[2]
    BY <1>1, <1>3, <2>2, <2>4, <2>5, <2>7, LanesAreSolved
  <2>9. r[1] \in DOMAIN roads /\ r[2] \in Nat
    BY <1>2, <2>1 DEF AreRoads
  <2>. HIDE DEF roads
  <2>10. <<r[1], d[2] + r[2]>> \in Drives(roads)
    BY <2>1, <2>9 DEF Drives
  <2>11. over[q] \in Nat /\ over[Refs(p[1])[Tip(p)]] \in Nat
    BY <1>3, <2>2, <2>8 DEF StreetsSolved
  <2>12. over[Refs(p[1])[Tip(p)]] <= d[2] + r[2]
    BY <2>1, <2>2, <2>8, <2>9, <2>11
  <2>13. Reaches(r[1], d[2] + r[2])
    BY <2>5, <2>6, <2>8, <2>12
  <2>. QED
    BY <2>10, <2>13
<1>. HIDE DEF roads, start, S
<1>7. <<u, here[u]>> \in S
  BY <1>2, <1>4, <1>5, <1>6, LeastCostsAreDriven
<1>8. Reaches(u, here[u])
  BY <1>7 DEF S
<1>. QED
  BY <1>8

(* Of every complete extract: between any two nodes of the graph the least *)
(* distance over its edges is the least over the ways of the extract, leg  *)
(* by leg, and one can be driven if and only if the other can.             *)
THEOREM DistancesDoSurvive == Spec => []DistancesSurvive
<1>1. ASSUME IInv PROVE DistancesSurvive
  <2>. SUFFICES ASSUME pc = "done", Complete, NEW o \in DOMAIN osm_to_internal,
                       NEW over, over = StreetDistances(o),
                       NEW here, here = GraphDistances(osm_to_internal[o]),
                       NEW q \in DOMAIN osm_to_internal
                PROVE  /\ q \in DOMAIN over <=> osm_to_internal[q] \in DOMAIN here
                       /\ q \in DOMAIN over => over[q] = here[osm_to_internal[q]]
    BY DEF DistancesSurvive
  <2>1. /\ StreetsSolved(over) /\ EdgesSolved(here)
        /\ \A p, r \in DOMAIN osm_to_internal : osm_to_internal[p] = osm_to_internal[r] => p = r
    BY <1>1, StreetsSolve, GraphSolves DEF IInv, Shape, SplitRight, Numbered
  <2>2. q \in DOMAIN over =>
            osm_to_internal[q] \in DOMAIN here /\ here[osm_to_internal[q]] <= over[q]
    BY <1>1, EdgesReachAll
  <2>3. osm_to_internal[q] \in DOMAIN here =>
            q \in DOMAIN over /\ over[q] <= here[osm_to_internal[q]]
    BY <1>1, <2>1, WaysReachAll
  <2>4. q \in DOMAIN over => over[q] \in Nat /\ here[osm_to_internal[q]] \in Nat
    BY <2>1, <2>2 DEF StreetsSolved, EdgesSolved
  <2>. QED
    BY <2>2, <2>3, <2>4
<1>. QED
  BY <1>1, Reachable, PTL
=================================================================================
