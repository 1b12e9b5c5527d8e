---------------------------- MODULE IsochroneProofs -----------------------------
(***************************************************************************)
(* For every road graph, profile and budget: isochrone never revises the   *)
(* cost of a node it has expanded, answers the nearest first, the costs it *)
(* answers solve the equations of the least costs, and they are the least  *)
(* costs of exactly the nodes within the budget.                           *)
(***************************************************************************)
EXTENDS Isochrone, OperatorTheorems

RequestsOK == \A r \in Requests : IsRequest(r)

(* What an edge costs, and where it leads.                                 *)
LEMMA EdgeFacts ==
    ASSUME RequestsOK, req \in Requests, NEW u, NEW i \in outgoing_edges(G, u)
    PROVE  /\ i \in Nat /\ i \in DOMAIN G.edges /\ edge_weight(G, P, i) \in Nat
           /\ G.edges[i].to \in 0 .. G.n - 1
<1>1. IsRequest(req)
  BY DEF RequestsOK
<1>2. G.edges \in Seq(Edge) /\ G.n \in Nat /\ i \in DOMAIN G.edges /\ G.edges[i].to < G.n
  BY <1>1 DEF IsRequest, IsGraph, G, outgoing_edges
<1>3. G.edges[i] \in Edge /\ i \in Nat
  BY <1>2
<1>4. pace_of_class(P, G.edges[i].road_class) \in Nat
  BY <1>1 DEF IsRequest, IsProfile, pace_of_class, P
<1>5. G.edges[i].distance \in Nat /\ G.edges[i].to \in Nat
  BY <1>3 DEF Edge
<1>6. edge_weight(G, P, i) \in Nat
  <2>1. \A x, y \in Nat : x * y \in Nat
    OBVIOUS
  <2>. QED
    BY <1>4, <1>5, <2>1 DEF edge_weight
<1>. QED
  BY <1>2, <1>3, <1>5, <1>6

-----------------------------------------------------------------------------
(* The roads by which e leads somewhere sooner than known.                 *)
CostBy(e, i) == e[1] + edge_weight(G, P, i)
Better(e) ==
    {i \in outgoing_edges(G, e[2]) :
        /\ usable(G, P, i)
        /\ Within(CostBy(e, i))
        /\ G.edges[i].to \in DOMAIN dist => CostBy(e, i) < dist[G.edges[i].to]}
Entries(e) == {<<CostBy(e, i), G.edges[i].to>> : i \in Sooner(e)}
New(e, u) == {x[1] : x \in {y \in Entries(e) : y[2] = u}}

LEMMA SoonerIs ==
    ASSUME NEW e
    PROVE  Sooner(e) = {i \in Better(e) : \A k \in Better(e) :
                           k < i /\ G.edges[k].to = G.edges[i].to => CostBy(e, i) < CostBy(e, k)}
BY DEF Sooner, Better, CostBy

LEMMA NewIs ==
    ASSUME NEW e, NEW u
    PROVE  /\ \A i \in Sooner(e) : G.edges[i].to = u => CostBy(e, i) \in New(e, u)
           /\ \A c \in New(e, u) : \E i \in Sooner(e) :
                 G.edges[i].to = u /\ c = CostBy(e, i)
<1>1. ASSUME NEW i \in Sooner(e), G.edges[i].to = u PROVE CostBy(e, i) \in New(e, u)
  <2>1. <<CostBy(e, i), u>> \in {y \in Entries(e) : y[2] = u}
    BY <1>1 DEF Entries
  <2>. QED
    BY <2>1, <<CostBy(e, i), u>>[1] = CostBy(e, i) DEF New
<1>2. ASSUME NEW c \in New(e, u)
      PROVE  \E i \in Sooner(e) : G.edges[i].to = u /\ c = CostBy(e, i)
  <2>1. PICK y \in Entries(e) : y[2] = u /\ c = y[1]
    BY DEF New
  <2>2. PICK i \in Sooner(e) : y = <<CostBy(e, i), G.edges[i].to>>
    BY DEF Entries
  <2>. QED
    BY <2>1, <2>2
<1>. QED
  BY <1>1, <1>2

(* Of the roads to one place the cheapest, and of those the first, is on   *)
(* the list.                                                               *)
LEMMA CheapestListed ==
    ASSUME RequestsOK, req \in Requests, NEW e, e[1] \in Nat, NEW i \in Better(e)
    PROVE  \E c \in New(e, G.edges[i].to) :
              /\ c <= CostBy(e, i)
              /\ \A d \in New(e, G.edges[i].to) : c <= d
<1>. DEFINE u == G.edges[i].to
            To == {k \in Better(e) : G.edges[k].to = u}
            Costs == {CostBy(e, k) : k \in To}
<1>1. \A k \in Better(e) : k \in Nat /\ CostBy(e, k) \in Nat
  BY EdgeFacts DEF Better, CostBy
<1>2. Costs \in SUBSET Nat /\ Costs # {}
  BY <1>1
<1>3. PICK c \in Costs : \A d \in Costs : c <= d
  <2>. HIDE DEF Costs
  <2>. QED
    BY <1>2, LeastNatural
<1>. DEFINE First == {k \in To : CostBy(e, k) = c}
<1>4. First \in SUBSET Nat /\ First # {}
  BY <1>1, <1>3
<1>5. PICK k \in First : \A l \in First : k <= l
  <2>. HIDE DEF First
  <2>. QED
    BY <1>4, LeastNatural
<1>6. k \in Sooner(e)
  <2>1. k \in Better(e) /\ G.edges[k].to = u /\ CostBy(e, k) = c
    BY <1>5
  <2>2. ASSUME NEW l \in Better(e), l < k, G.edges[l].to = u PROVE c < CostBy(e, l)
    <3>1. c <= CostBy(e, l)
      BY <1>3, <2>2
    <3>2. CostBy(e, l) # c
      BY <1>1, <1>5, <2>2
    <3>. QED
      BY <1>1, <2>1, <3>1, <3>2
  <2>. QED
    BY <2>1, <2>2, SoonerIs
<1>7. c \in New(e, u)
  BY <1>5, <1>6, NewIs
<1>8. \A d \in New(e, u) : d \in Costs
  BY NewIs, SoonerIs
<1>9. c <= CostBy(e, i)
  BY <1>3
<1>. QED
  BY <1>3, <1>7, <1>8, <1>9

-----------------------------------------------------------------------------
(* The inductive invariant.                                                *)

Shape == req \in Requests /\ TypeOK

(* No entry is below the cost of its node; while the search goes on, what  *)
(* is known and not expanded has its entry, what is expanded is nearer     *)
(* than every entry, and the source is known to be at no cost.             *)
Frontier ==
    /\ \A x \in heap : dist[x[2]] <= x[1]
    /\ pc = "start" => dist = <<>>
    /\ pc = "search" =>
          /\ \A u \in DOMAIN dist \ visited : <<dist[u], u>> \in heap
          /\ \A u \in visited : \A x \in heap : dist[u] <= x[1]
          /\ req.source \in DOMAIN dist /\ dist[req.source] = 0

(* What is listed is expanded, at its cost, in order and once.             *)
Listed ==
    /\ \A k \in DOMAIN reachable :
          reachable[k][1] \in visited /\ reachable[k][2] = dist[reachable[k][1]]
    /\ \A k, l \in DOMAIN reachable : k < l =>
          reachable[k][1] # reachable[l][1] /\ reachable[k][2] <= reachable[l][2]
    /\ pc # "done" => \A u \in visited : \E k \in DOMAIN reachable : reachable[k][1] = u

Road(k, i) == i \in outgoing_edges(G, reachable[k][1]) /\ usable(G, P, i)
CostAlong(k, i) == reachable[k][2] + edge_weight(G, P, i)

(* The roads out of what is listed have been taken ...                     *)
Taken ==
    \A k \in DOMAIN reachable : \A i \in outgoing_edges(G, reachable[k][1]) :
        Road(k, i) /\ Within(CostAlong(k, i)) =>
            G.edges[i].to \in DOMAIN dist /\ dist[G.edges[i].to] <= CostAlong(k, i)

(* ... and what is known, but for the source, one of them has led to.      *)
Led(v, k) ==
    \E i \in outgoing_edges(G, reachable[k][1]) :
        Road(k, i) /\ G.edges[i].to = v /\ dist[v] = CostAlong(k, i)

Reasons ==
    /\ \A v \in DOMAIN dist :
          \/ v = req.source /\ dist[v] = 0
          \/ \E k \in DOMAIN reachable : Led(v, k)
    /\ \A l \in DOMAIN reachable : \A v \in {reachable[l][1]} :
          \/ v = req.source
          \/ \E k \in DOMAIN reachable : k < l /\ Led(v, k)

(* Nothing but the source is ever known beyond the budget, and not even    *)
(* the source is listed beyond it.                                         *)
InBudget ==
    /\ \A x \in heap : Within(x[1]) \/ x[1] = 0
    /\ \A k \in DOMAIN reachable : Within(reachable[k][2])

Settled == Shape /\ Frontier /\ Listed

LEMMA ShapeInit == ASSUME RequestsOK, Init PROVE Settled /\ Taken /\ Reasons /\ InBudget
<1>1. DOMAIN dist = {} /\ DOMAIN reachable = {} /\ reachable \in Seq((0 .. G.n - 1) \X Nat)
  BY DEF Init
<1>. QED
  BY <1>1 DEF Init, Settled, Shape, TypeOK, Frontier, Listed, Taken, Reasons, InBudget

(* What is taken from the heap to be expanded costs what its node costs,   *)
(* and what has been expanded costs no more.                               *)
LEMMA PoppedFacts ==
    ASSUME RequestsOK, Settled, NEW e \in heap, Nearest(e), e[2] \notin visited
    PROVE  /\ e[1] \in Nat /\ e[2] \in DOMAIN dist /\ e[2] \in Nat /\ e[1] = dist[e[2]]
           /\ \A u \in visited : dist[u] <= e[1]
<1>1. e[1] \in Nat /\ e[2] \in DOMAIN dist /\ dist[e[2]] \in Nat /\ e[2] \in Nat
  BY DEF Settled, Shape, TypeOK
<1>2. dist[e[2]] <= e[1]
  BY DEF Settled, Frontier
<1>3. <<dist[e[2]], e[2]>> \in heap
  BY <1>1 DEF Settled, Frontier, Nearest
<1>4. e[1] <= dist[e[2]]
  BY <1>3, <<dist[e[2]], e[2]>>[1] = dist[e[2]] DEF Nearest
<1>. QED
  BY <1>1, <1>2, <1>4 DEF Settled, Frontier, Nearest

LEMMA ReachFacts ==
    ASSUME RequestsOK, Settled, NEW e \in heap, Reach(e)
    PROVE  /\ DOMAIN dist' = DOMAIN dist \cup {G.edges[i].to : i \in Sooner(e)}
           /\ heap' = (heap \ {e}) \cup Entries(e)
           /\ \A u \in DOMAIN dist' :
                 IF New(e, u) = {} THEN u \in DOMAIN dist /\ dist'[u] = dist[u]
                 ELSE dist'[u] \in New(e, u) /\ \A d \in New(e, u) : dist'[u] <= d
           /\ \A u \in visited \cup {e[2]} : New(e, u) = {}
<1>1. heap' = (heap \ {e}) \cup Entries(e)
      /\ dist' = [u \in DOMAIN dist \cup {x[2] : x \in Entries(e)} |->
                     IF New(e, u) = {} THEN dist[u]
                     ELSE CHOOSE c \in New(e, u) : \A d \in New(e, u) : c <= d]
  BY DEF Reach, Entries, New, CostBy
<1>2. {x[2] : x \in Entries(e)} = {G.edges[i].to : i \in Sooner(e)}
  <2>1. \A i \in Sooner(e) : <<CostBy(e, i), G.edges[i].to>> \in Entries(e)
    BY DEF Entries
  <2>2. \A x \in Entries(e) : \E i \in Sooner(e) : x[2] = G.edges[i].to
    BY DEF Entries
  <2>3. \A i \in Sooner(e) : G.edges[i].to \in {x[2] : x \in Entries(e)}
    BY <2>1, \A a, b : <<a, b>>[2] = b
  <2>. QED
    BY <2>2, <2>3
<1>3. /\ e[1] \in Nat /\ e[2] \in Nat /\ e[1] = dist[e[2]] /\ req \in Requests
      /\ visited \cup {e[2]} \subseteq DOMAIN dist
      /\ \A u \in visited \cup {e[2]} : dist[u] <= e[1] /\ dist[u] \in Nat
  BY PoppedFacts DEF Reach, Settled, Shape, TypeOK
<1>4. ASSUME NEW i \in Sooner(e)
      PROVE  /\ i \in Better(e) /\ CostBy(e, i) \in Nat /\ e[1] <= CostBy(e, i)
             /\ G.edges[i].to \in DOMAIN dist => CostBy(e, i) < dist[G.edges[i].to]
  BY <1>3, SoonerIs, EdgeFacts DEF Better, CostBy
<1>5. ASSUME NEW u, New(e, u) # {}
      PROVE  /\ \E c \in New(e, u) : \A d \in New(e, u) : c <= d
             /\ \E i \in Sooner(e) : G.edges[i].to = u
  <2>1. PICK i \in Sooner(e) : G.edges[i].to = u
    BY <1>5, NewIs
  <2>2. New(e, u) \in SUBSET Nat
    BY <1>4, NewIs
  <2>. QED
    BY <1>5, <2>1, <2>2, LeastNatural
<1>6. ASSUME NEW u \in visited \cup {e[2]} PROVE New(e, u) = {}
  BY <1>3, <1>4, NewIs
<1>7. \A u \in {G.edges[i].to : i \in Sooner(e)} : New(e, u) # {}
  BY NewIs
<1>8. DOMAIN dist' = DOMAIN dist \cup {G.edges[i].to : i \in Sooner(e)}
  BY <1>1, <1>2
<1>9. ASSUME NEW u \in DOMAIN dist'
      PROVE  IF New(e, u) = {} THEN u \in DOMAIN dist /\ dist'[u] = dist[u]
             ELSE dist'[u] \in New(e, u) /\ \A d \in New(e, u) : dist'[u] <= d
  BY <1>1, <1>2, <1>5, <1>7
<1>. QED
  BY <1>1, <1>6, <1>8, <1>9

-----------------------------------------------------------------------------
(* Reach.                                                                  *)

(* Costs only get lower, those of expanded nodes not at all.               *)
LEMMA ReachCosts ==
    ASSUME RequestsOK, Settled, NEW e \in heap, Reach(e)
    PROVE  /\ DOMAIN dist \subseteq DOMAIN dist' /\ DOMAIN dist' \subseteq 0 .. G.n - 1
           /\ \A u \in DOMAIN dist' : dist'[u] \in Nat
           /\ \A u \in DOMAIN dist : dist'[u] <= dist[u]
           /\ \A u \in visited \cup {e[2]} : dist'[u] = dist[u]
           /\ \A x \in Entries(e) :
                 /\ x[1] \in Nat /\ x[2] \in DOMAIN dist' /\ dist'[x[2]] <= x[1]
                 /\ e[1] <= x[1] /\ Within(x[1])
           /\ \A u \in DOMAIN dist' \ DOMAIN dist : New(e, u) # {}
           /\ \A u \in DOMAIN dist' : New(e, u) # {} => <<dist'[u], u>> \in Entries(e)
<1>1. /\ e[1] \in Nat /\ e[2] \in Nat /\ req \in Requests /\ DOMAIN dist \subseteq 0 .. G.n - 1
      /\ \A u \in DOMAIN dist : dist[u] \in Nat
      /\ visited \cup {e[2]} \subseteq DOMAIN dist
  BY PoppedFacts DEF Reach, Settled, Shape, TypeOK
<1>2. /\ DOMAIN dist' = DOMAIN dist \cup {G.edges[i].to : i \in Sooner(e)}
      /\ \A u \in DOMAIN dist' :
            IF New(e, u) = {} THEN u \in DOMAIN dist /\ dist'[u] = dist[u]
            ELSE dist'[u] \in New(e, u) /\ \A d \in New(e, u) : dist'[u] <= d
      /\ \A u \in visited \cup {e[2]} : New(e, u) = {}
  BY ReachFacts
<1>3. ASSUME NEW i \in Sooner(e)
      PROVE  /\ G.edges[i].to \in 0 .. G.n - 1 /\ CostBy(e, i) \in Nat /\ e[1] <= CostBy(e, i)
             /\ Within(CostBy(e, i)) /\ G.edges[i].to \in DOMAIN dist'
             /\ G.edges[i].to \in DOMAIN dist => CostBy(e, i) < dist[G.edges[i].to]
             /\ CostBy(e, i) \in New(e, G.edges[i].to)
             /\ dist'[G.edges[i].to] <= CostBy(e, i)
  <2>1. i \in Better(e)
    BY SoonerIs
  <2>2. CostBy(e, i) \in New(e, G.edges[i].to)
    BY NewIs
  <2>3. G.edges[i].to \in DOMAIN dist'
    BY <1>2
  <2>4. i \in outgoing_edges(G, e[2]) /\ Within(CostBy(e, i))
        /\ (G.edges[i].to \in DOMAIN dist => CostBy(e, i) < dist[G.edges[i].to])
    BY <2>1 DEF Better
  <2>5. edge_weight(G, P, i) \in Nat /\ G.edges[i].to \in 0 .. G.n - 1
    BY <1>1, <2>4, EdgeFacts
  <2>6. CostBy(e, i) \in Nat /\ e[1] <= CostBy(e, i)
    BY <1>1, <2>5 DEF CostBy
  <2>7. dist'[G.edges[i].to] <= CostBy(e, i)
    BY <1>2, <2>2, <2>3
  <2>. QED
    BY <2>2, <2>3, <2>4, <2>5, <2>6, <2>7
<1>4. ASSUME NEW u \in DOMAIN dist', New(e, u) # {}
      PROVE  /\ dist'[u] \in Nat /\ <<dist'[u], u>> \in Entries(e)
             /\ u \in DOMAIN dist => dist'[u] <= dist[u]
  <2>1. dist'[u] \in New(e, u)
    BY <1>4, <1>2
  <2>2. PICK i \in Sooner(e) : G.edges[i].to = u /\ dist'[u] = CostBy(e, i)
    BY <2>1, NewIs
  <2>. QED
    BY <1>1, <1>3, <2>2 DEF Entries
<1>5. ASSUME NEW x \in Entries(e)
      PROVE  /\ x[1] \in Nat /\ x[2] \in DOMAIN dist' /\ dist'[x[2]] <= x[1]
             /\ e[1] <= x[1] /\ Within(x[1])
  <2>1. PICK i \in Sooner(e) : x = <<CostBy(e, i), G.edges[i].to>>
    BY DEF Entries
  <2>. QED
    BY <1>3, <2>1
<1>6. ASSUME NEW u \in DOMAIN dist', New(e, u) = {} PROVE u \in DOMAIN dist /\ dist'[u] = dist[u]
  BY <1>6, <1>2
<1>7. DOMAIN dist \subseteq DOMAIN dist' /\ DOMAIN dist' \subseteq 0 .. G.n - 1
  BY <1>1, <1>3, <1>2
<1>8. \A u \in visited \cup {e[2]} : dist'[u] = dist[u]
  BY <1>1, <1>6, <1>7, <1>2
<1>9. \A u \in DOMAIN dist' : dist'[u] \in Nat
  BY <1>1, <1>4, <1>6
<1>10. ASSUME NEW u \in DOMAIN dist PROVE dist'[u] <= dist[u]
  <2>1. u \in DOMAIN dist' /\ dist[u] \in Nat
    BY <1>1, <1>7
  <2>2. CASE New(e, u) = {}
    <3>1. dist'[u] = dist[u]
      BY <1>6, <2>1, <2>2
    <3>. QED
      BY <2>1, <3>1
  <2>3. CASE New(e, u) # {}
    BY <1>4, <2>1, <2>3
  <2>. QED
    BY <2>2, <2>3
<1>. QED
  BY <1>4, <1>5, <1>6, <1>7, <1>8, <1>9, <1>10

LEMMA ReachSettled ==
    ASSUME RequestsOK, Settled, NEW e \in heap, Reach(e) PROVE Settled'
<1>. DEFINE n == Len(reachable)
<1>1. /\ UNCHANGED <<req, pc>> /\ pc = "search" /\ G' = G
      /\ visited' = visited \cup {e[2]} /\ e[2] \notin visited
      /\ reachable' = Append(reachable, <<e[2], e[1]>>)
      /\ heap' = (heap \ {e}) \cup Entries(e)
  BY ReachFacts DEF Reach, Nearest, G
<1>2. /\ e[1] \in Nat /\ e[2] \in DOMAIN dist /\ e[1] = dist[e[2]]
      /\ \A u \in visited : dist[u] <= e[1]
      /\ \A x \in heap : e[1] <= x[1]
  BY PoppedFacts DEF Reach, Nearest
<1>3. /\ req \in Requests /\ reachable \in Seq((0 .. G.n - 1) \X Nat)
      /\ DOMAIN dist \subseteq 0 .. G.n - 1 /\ visited \subseteq DOMAIN dist
      /\ \A u \in DOMAIN dist : dist[u] \in Nat
      /\ \A x \in heap : x[1] \in Nat /\ x[2] \in DOMAIN dist /\ dist[x[2]] <= x[1]
  BY DEF Settled, Shape, TypeOK, Frontier
<1>4. /\ DOMAIN reachable' = 1 .. n + 1 /\ DOMAIN reachable = 1 .. n /\ n \in Nat
      /\ reachable' \in Seq((0 .. G.n - 1) \X Nat)
      /\ \A k \in 1 .. n : reachable'[k] = reachable[k]
      /\ reachable'[n + 1] = <<e[2], e[1]>>
  BY <1>1, <1>2, <1>3
<1>5. Shape'
  BY <1>1, <1>2, <1>3, <1>4, ReachCosts DEF Shape, TypeOK
<1>6. Frontier'
  <2>1. \A x \in heap' : dist'[x[2]] <= x[1]
    BY <1>1, <1>2, <1>3, ReachCosts
  <2>2. ASSUME NEW u \in DOMAIN dist' \ visited' PROVE <<dist'[u], u>> \in heap'
    <3>1. CASE New(e, u) # {}
      BY <1>1, <3>1, ReachCosts
    <3>2. CASE New(e, u) = {}
      <4>1. u \in DOMAIN dist /\ dist'[u] = dist[u]
        BY <3>2, ReachFacts
      <4>2. <<dist[u], u>> \in heap /\ u # e[2]
        BY <1>1, <4>1 DEF Settled, Frontier
      <4>3. <<dist[u], u>> # e
        BY <4>2, <<dist[u], u>>[2] = u
      <4>. QED
        BY <1>1, <4>1, <4>2, <4>3
    <3>. QED
      BY <3>1, <3>2
  <2>3. ASSUME NEW u \in visited', NEW x \in heap' PROVE dist'[u] <= x[1]
    <3>1. dist'[u] <= e[1] /\ dist'[u] \in Nat
      BY <1>1, <1>2, <1>3, ReachCosts
    <3>2. e[1] <= x[1] /\ x[1] \in Nat
      BY <1>1, <1>2, <1>3, ReachCosts
    <3>. QED
      BY <1>2, <3>1, <3>2
  <2>4. req.source \in DOMAIN dist' /\ dist'[req.source] = 0
    <3>1. req.source \in DOMAIN dist /\ dist[req.source] = 0
      BY <1>1 DEF Settled, Frontier
    <3>. QED
      BY <3>1, ReachCosts
  <2>. QED
    BY <1>1, <2>1, <2>2, <2>3, <2>4 DEF Frontier
<1>7. Listed'
  <2>1. /\ \A k \in 1 .. n : reachable[k][1] \in visited /\ reachable[k][2] = dist[reachable[k][1]]
        /\ \A k, l \in 1 .. n : k < l =>
              reachable[k][1] # reachable[l][1] /\ reachable[k][2] <= reachable[l][2]
        /\ \A u \in visited : \E k \in 1 .. n : reachable[k][1] = u
    BY <1>1, <1>4 DEF Settled, Listed
  <2>2. ASSUME NEW k \in 1 .. n + 1
        PROVE  reachable'[k][1] \in visited' /\ reachable'[k][2] = dist'[reachable'[k][1]]
    <3>1. \A u \in visited \cup {e[2]} : dist'[u] = dist[u]
      BY ReachCosts
    <3>2. CASE k \in 1 .. n
      <4>1. reachable[k][1] \in visited /\ reachable[k][2] = dist[reachable[k][1]]
        BY <2>1, <3>2
      <4>. QED
        BY <1>1, <1>4, <3>1, <3>2, <4>1
    <3>3. CASE k = n + 1
      BY <1>1, <1>2, <1>4, <3>1, <3>3
    <3>. QED
      BY <1>4, <3>2, <3>3
  <2>3. ASSUME NEW k \in 1 .. n + 1, NEW l \in 1 .. n + 1, k < l
        PROVE  reachable'[k][1] # reachable'[l][1] /\ reachable'[k][2] <= reachable'[l][2]
    <3>1. k \in 1 .. n /\ reachable'[k] = reachable[k]
      BY <1>4, <2>3
    <3>2. CASE l \in 1 .. n
      <4>1. reachable'[l] = reachable[l]
        BY <1>4, <3>2
      <4>. QED
        BY <2>1, <2>3, <3>1, <3>2, <4>1
    <3>3. CASE l = n + 1
      <4>1. reachable[k][1] \in visited /\ reachable[k][2] = dist[reachable[k][1]]
        BY <2>1, <3>1
      <4>2. reachable'[l][1] = e[2] /\ reachable'[l][2] = e[1]
        BY <1>4, <3>3
      <4>3. dist[reachable[k][1]] <= e[1] /\ reachable[k][1] # e[2]
        BY <1>1, <1>2, <4>1
      <4>. QED
        BY <3>1, <4>1, <4>2, <4>3
    <3>. QED
      BY <1>4, <3>2, <3>3
  <2>4. \A u \in visited' : \E k \in 1 .. n + 1 : reachable'[k][1] = u
    BY <1>1, <1>4, <2>1
  <2>. QED
    BY <1>4, <2>2, <2>3, <2>4 DEF Listed
<1>. QED
  BY <1>5, <1>6, <1>7 DEF Settled

LEMMA ReachRoads ==
    ASSUME RequestsOK, Settled, Taken, Reasons, InBudget, NEW e \in heap, Reach(e)
    PROVE  Taken' /\ Reasons' /\ InBudget'
<1>. PICK n \in Nat : n = Len(reachable)
  BY DEF Settled, Shape, TypeOK
<1>1. /\ UNCHANGED req /\ G' = G /\ P' = P /\ \A c : Within(c)' <=> Within(c)
      /\ e[1] <= req.max_seconds
      /\ reachable' = Append(reachable, <<e[2], e[1]>>)
      /\ heap' = (heap \ {e}) \cup Entries(e)
  BY ReachFacts DEF Reach, G, P, Within
<1>2. /\ e[1] \in Nat /\ e[2] \in DOMAIN dist /\ e[1] = dist[e[2]] /\ e[2] \in 0 .. G.n - 1
  BY PoppedFacts DEF Reach, Settled, Shape, TypeOK
<1>3. /\ reachable \in Seq((0 .. G.n - 1) \X Nat) /\ req \in Requests
      /\ \A k \in DOMAIN reachable :
            reachable[k][1] \in visited /\ reachable[k][2] = dist[reachable[k][1]]
  BY DEF Settled, Shape, TypeOK, Listed
<1>4. /\ DOMAIN reachable' = 1 .. n + 1 /\ DOMAIN reachable = 1 .. n /\ n \in Nat
      /\ \A k \in 1 .. n : reachable'[k] = reachable[k]
      /\ reachable'[n + 1] = <<e[2], e[1]>>
  BY <1>1, <1>2, <1>3
<1>5. ASSUME NEW k \in 1 .. n, NEW i
      PROVE  (Road(k, i)' <=> Road(k, i)) /\ CostAlong(k, i)' = CostAlong(k, i)
  BY <1>1, <1>4 DEF Road, CostAlong
<1>6. ASSUME NEW i
      PROVE  /\ Road(n + 1, i)' <=> i \in outgoing_edges(G, e[2]) /\ usable(G, P, i)
             /\ CostAlong(n + 1, i)' = CostBy(e, i)
  BY <1>1, <1>4 DEF Road, CostAlong, CostBy
<1>7. Taken'
  <2>. SUFFICES ASSUME NEW k \in 1 .. n + 1, NEW i, Road(k, i)', Within(CostAlong(k, i)')
                PROVE  G.edges[i].to \in DOMAIN dist' /\ dist'[G.edges[i].to] <= CostAlong(k, i)'
    BY <1>1, <1>4 DEF Taken
  <2>1. CASE k \in 1 .. n
    <3>1. /\ Road(k, i) /\ Within(CostAlong(k, i)) /\ i \in outgoing_edges(G, reachable[k][1])
          /\ CostAlong(k, i)' = CostAlong(k, i) /\ CostAlong(k, i) \in Nat
      BY <1>3, <1>4, <1>5, <2>1, EdgeFacts DEF Road, CostAlong
    <3>2. G.edges[i].to \in DOMAIN dist /\ dist[G.edges[i].to] <= CostAlong(k, i)
      BY <1>4, <2>1, <3>1 DEF Taken
    <3>3. /\ G.edges[i].to \in DOMAIN dist' /\ dist'[G.edges[i].to] <= dist[G.edges[i].to]
          /\ dist[G.edges[i].to] \in Nat /\ dist'[G.edges[i].to] \in Nat
      BY <3>2, ReachCosts DEF Settled, Shape, TypeOK
    <3>. QED
      BY <3>1, <3>2, <3>3
  <2>2. CASE k = n + 1
    <3>1. /\ i \in outgoing_edges(G, e[2]) /\ usable(G, P, i) /\ Within(CostBy(e, i))
          /\ CostAlong(k, i)' = CostBy(e, i) /\ CostBy(e, i) \in Nat
      BY <1>2, <1>3, <1>6, <2>2, EdgeFacts DEF CostBy
    <3>2. CASE i \in Better(e)
      <4>1. PICK c \in New(e, G.edges[i].to) : c <= CostBy(e, i)
        BY <1>2, <1>3, <3>2, CheapestListed
      <4>2. PICK l \in Sooner(e) : G.edges[l].to = G.edges[i].to /\ c = CostBy(e, l)
        BY <4>1, NewIs
      <4>3. G.edges[i].to \in DOMAIN dist' /\ dist'[G.edges[i].to] <= c
            /\ dist'[G.edges[i].to] \in Nat
        <5>1. G.edges[i].to \in DOMAIN dist'
          <6>1. DOMAIN dist' = DOMAIN dist \cup {G.edges[m].to : m \in Sooner(e)}
            BY ReachFacts
          <6>. QED
            BY <4>2, <6>1
        <5>2. dist'[G.edges[i].to] <= c
          BY <4>1, <5>1, ReachFacts
        <5>. QED
          BY <5>1, <5>2, ReachCosts
      <4>4. c \in Nat
        BY <1>2, <1>3, <4>2, SoonerIs, EdgeFacts DEF Better, CostBy
      <4>. QED
        BY <3>1, <4>1, <4>3, <4>4
    <3>3. CASE i \notin Better(e)
      <4>1. G.edges[i].to \in DOMAIN dist /\ ~(CostBy(e, i) < dist[G.edges[i].to])
        BY <3>1, <3>3 DEF Better
      <4>2. /\ G.edges[i].to \in DOMAIN dist' /\ dist'[G.edges[i].to] <= dist[G.edges[i].to]
            /\ dist[G.edges[i].to] \in Nat /\ dist'[G.edges[i].to] \in Nat
        BY <4>1, ReachCosts DEF Settled, Shape, TypeOK
      <4>. QED
        BY <3>1, <4>1, <4>2
    <3>. QED
      BY <3>2, <3>3
  <2>. QED
    BY <1>4, <2>1, <2>2
<1>8. Reasons'
  <2>1. ASSUME NEW v \in DOMAIN dist, dist'[v] = dist[v], NEW k \in 1 .. n, Led(v, k)
        PROVE  Led(v, k)'
    BY <1>1, <1>4, <1>5, <2>1 DEF Led
  <2>2. ASSUME NEW v \in DOMAIN dist', New(e, v) # {} PROVE Led(v, n + 1)'
    <3>1. dist'[v] \in New(e, v)
      BY <2>2, ReachFacts
    <3>2. PICK i \in Sooner(e) : G.edges[i].to = v /\ dist'[v] = CostBy(e, i)
      BY <3>1, NewIs
    <3>3. i \in outgoing_edges(G, e[2]) /\ usable(G, P, i)
      BY SoonerIs DEF Better
    <3>. QED
      BY <1>1, <1>4, <1>6, <3>2, <3>3 DEF Led
  <2>3. ASSUME NEW v \in DOMAIN dist'
        PROVE  \/ v = req.source /\ dist'[v] = 0
               \/ \E k \in 1 .. n + 1 : Led(v, k)'
    <3>1. CASE New(e, v) # {}
      BY <1>4, <2>2, <3>1
    <3>2. CASE New(e, v) = {}
      <4>1. v \in DOMAIN dist /\ dist'[v] = dist[v]
        BY <3>2, ReachFacts
      <4>. QED
        BY <1>4, <2>1, <4>1 DEF Reasons
    <3>. QED
      BY <3>1, <3>2
  <2>4. ASSUME NEW l \in 1 .. n + 1, NEW v, v = reachable'[l][1]
        PROVE  v = req.source \/ \E k \in 1 .. n + 1 : k < l /\ Led(v, k)'
    <3>1. CASE l \in 1 .. n
      <4>1. v = reachable[l][1] /\ v \in visited
        BY <1>3, <1>4, <2>4, <3>1
      <4>2. v \in DOMAIN dist /\ dist'[v] = dist[v]
        BY <4>1, ReachCosts DEF Settled, Shape, TypeOK
      <4>3. v = req.source \/ \E k \in 1 .. n : k < l /\ Led(v, k)
        BY <1>4, <3>1, <4>1 DEF Reasons
      <4>. QED
        BY <1>4, <2>1, <4>1, <4>2, <4>3
    <3>2. CASE l = n + 1
      <4>1. v = e[2] /\ dist'[e[2]] = dist[e[2]]
        BY <1>4, <2>4, <3>2, ReachCosts
      <4>2. e[2] = req.source \/ \E k \in 1 .. n : Led(e[2], k)
        BY <1>2, <1>4 DEF Reasons
      <4>. QED
        BY <1>2, <1>4, <2>1, <3>2, <4>1, <4>2
    <3>. QED
      BY <1>4, <3>1, <3>2
  <2>. QED
    BY <1>1, <1>4, <2>3, <2>4 DEF Reasons
<1>9. InBudget'
  <2>1. \A x \in heap' : Within(x[1]) \/ x[1] = 0
    BY <1>1, ReachCosts DEF InBudget
  <2>2. ASSUME NEW k \in 1 .. n + 1 PROVE Within(reachable'[k][2])
    <3>1. CASE k \in 1 .. n
      BY <1>4, <3>1 DEF InBudget
    <3>2. CASE k = n + 1
      BY <1>1, <1>4, <3>2 DEF Within
    <3>. QED
      BY <1>4, <3>1, <3>2
  <2>. QED
    BY <1>1, <1>4, <2>1, <2>2 DEF InBudget
<1>. QED
  BY <1>7, <1>8, <1>9

-----------------------------------------------------------------------------
(* The whole search.                                                       *)

(* A call that is answered, and whose budget is no less than nothing, has  *)
(* listed all that it knows.                                               *)
AllListed ==
    pc = "done" /\ req.source < G.n /\ 0 <= req.max_seconds =>
        /\ \A u \in DOMAIN dist : \E k \in DOMAIN reachable : reachable[k][1] = u
        /\ req.source \in DOMAIN dist /\ dist[req.source] = 0

IInv == Settled /\ Taken /\ Reasons /\ InBudget /\ AllListed

LEMMA IInvInit == ASSUME RequestsOK, Init PROVE IInv
BY ShapeInit DEF Init, IInv, AllListed

LEMMA BeginKeeps == ASSUME RequestsOK, IInv, Begin PROVE IInv'
<1>1. /\ UNCHANGED <<req, visited, reachable>> /\ G' = G /\ pc = "start" /\ pc' = "search"
      /\ DOMAIN dist' = {req.source} /\ dist'[req.source] = 0 /\ heap' = {<<0, req.source>>}
      /\ req.source < G.n
  BY DEF Begin, G
<1>2. req \in Requests /\ req.source \in Nat /\ G.n \in Nat
  BY DEF IInv, Settled, Shape, RequestsOK, IsRequest, IsGraph, G
<1>3. visited = {} /\ DOMAIN reachable = {}
  <2>1. visited \subseteq DOMAIN dist /\ DOMAIN dist = {}
    BY <1>1 DEF IInv, Settled, Shape, TypeOK, Frontier
  <2>. QED
    BY <2>1 DEF IInv, Settled, Listed
<1>4. Shape'
  BY <1>1, <1>2, <1>3 DEF IInv, Settled, Shape, TypeOK
<1>5. Frontier' /\ Listed'
  BY <1>1, <1>3 DEF Frontier, Listed
<1>6. Taken' /\ Reasons' /\ InBudget' /\ AllListed'
  BY <1>1, <1>3 DEF Taken, Reasons, InBudget, AllListed
<1>. QED
  BY <1>4, <1>5, <1>6 DEF IInv, Settled

(* A step that leaves costs and the answer alone.                          *)
LEMMA OtherSteps ==
    ASSUME RequestsOK, IInv,
           \/ RejectNode \/ Answer \/ UNCHANGED vars
           \/ \E e \in heap : Skip(e) \/ Stop(e)
    PROVE  IInv'
<1>1. UNCHANGED <<req, dist, reachable>> /\ heap' \subseteq heap /\ visited \subseteq visited'
  BY DEF RejectNode, Answer, vars, Skip, Stop
<1>2. G' = G /\ P' = P /\ \A c : Within(c)' <=> Within(c)
  BY <1>1 DEF G, P, Within
<1>3. visited' \subseteq DOMAIN dist /\ pc' \in {"start", "search", "done"}
      /\ (pc' # "done" => pc' = pc)
  BY DEF RejectNode, Answer, vars, Skip, Stop, IInv, Settled, Shape, TypeOK
<1>4. pc' # "done" => visited' = visited
  BY <1>3 DEF RejectNode, Answer, vars, Skip, Stop, Nearest
<1>5. pc' = "search" =>
        \A u \in DOMAIN dist \ visited : <<dist[u], u>> \in heap => <<dist[u], u>> \in heap'
  <2>1. ASSUME NEW e \in heap, Skip(e), NEW u \in DOMAIN dist \ visited, <<dist[u], u>> \in heap
        PROVE  <<dist[u], u>> \in heap'
    BY <2>1, <<dist[u], u>>[2] = u DEF Skip
  <2>2. CASE RejectNode \/ Answer \/ UNCHANGED vars \/ \E e \in heap : Stop(e)
    BY <2>2 DEF RejectNode, Answer, vars, Stop
  <2>. QED
    BY <2>1, <2>2
<1>6. Shape'
  BY <1>1, <1>2, <1>3 DEF IInv, Settled, Shape, TypeOK
<1>7. Frontier'
  BY <1>1, <1>3, <1>4, <1>5 DEF IInv, Settled, Frontier
<1>8. Listed'
  BY <1>1, <1>3, <1>4 DEF IInv, Settled, Listed
<1>9. Taken'
  BY <1>1, <1>2 DEF IInv, Taken, Road, CostAlong
<1>10. Reasons'
  <2>1. \A v, k : Led(v, k)' <=> Led(v, k)
    BY <1>1, <1>2 DEF Led, Road, CostAlong
  <2>. QED
    BY <1>1, <2>1 DEF IInv, Reasons
<1>11. InBudget'
  BY <1>1, <1>2 DEF IInv, InBudget
<1>12. AllListed'
  <2>1. CASE UNCHANGED vars
    BY <1>1, <1>2, <2>1 DEF IInv, AllListed, vars
  <2>2. CASE Answer
    <3>1. pc = "search" /\ DOMAIN dist \subseteq visited
      BY <2>2 DEF Answer, IInv, Settled, Frontier
    <3>. QED
      BY <1>1, <1>2, <3>1 DEF IInv, Settled, Frontier, Listed, AllListed
  <2>3. CASE RejectNode
    <3>1. req.source \in Nat /\ G.n \in Nat /\ req.source >= G.n
      BY <2>3 DEF RejectNode, IInv, Settled, Shape, RequestsOK, IsRequest, IsGraph, G
    <3>. QED
      BY <1>1, <1>2, <3>1 DEF AllListed
  <2>4. ASSUME NEW e \in heap, Skip(e) PROVE AllListed'
    BY <2>4 DEF Skip, Nearest, AllListed
  <2>5. ASSUME NEW e \in heap, Stop(e) PROVE AllListed'
    <3>1. e[1] \in Nat /\ req.max_seconds \in Int /\ e[1] > req.max_seconds
          /\ (e[1] <= req.max_seconds \/ e[1] = 0)
      BY <2>5 DEF Stop, IInv, Settled, Shape, TypeOK, InBudget, Within, RequestsOK, IsRequest
    <3>. QED
      BY <1>1, <3>1 DEF AllListed
  <2>. QED
    BY <2>1, <2>2, <2>3, <2>4, <2>5
<1>. QED
  BY <1>6, <1>7, <1>8, <1>9, <1>10, <1>11, <1>12 DEF IInv, Settled

LEMMA IInvStep == ASSUME RequestsOK, IInv, [Next]_vars PROVE IInv'
<1>1. ASSUME NEW e \in heap, Reach(e) PROVE IInv'
  <2>1. Settled' /\ Taken' /\ Reasons' /\ InBudget'
    BY <1>1, ReachSettled, ReachRoads DEF IInv
  <2>2. AllListed'
    BY <1>1 DEF Reach, Nearest, AllListed
  <2>. QED
    BY <2>1, <2>2 DEF IInv
<1>. QED
  BY <1>1, BeginKeeps, OtherSteps DEF Next

(* At every step of isochrone: nodes expanded are no dearer than open ones,*)
(* every road out of them has been followed, every cost has its reason, and*)
(* the answer lists what has been expanded, in that order.                 *)
THEOREM InductiveInvariant == ASSUME RequestsOK PROVE Spec => []IInv
<1>1. Init => IInv
  BY IInvInit
<1>2. IInv /\ [Next]_vars => IInv'
  BY IInvStep
<1>. QED
  BY <1>1, <1>2, PTL DEF Spec

(* Whatever the road graph and the budget, the locals of isochrone stay    *)
(* what they can be: open entries are of nodes with a cost, and so on.     *)
THEOREM Typed == ASSUME RequestsOK PROVE Spec => []TypeOK
<1>1. IInv => TypeOK
  BY DEF IInv, Settled, Shape
<1>. QED
  BY <1>1, InductiveInvariant, PTL

LEMMA CostsStay ==
    ASSUME RequestsOK, IInv, Next, NEW u \in visited PROVE dist'[u] = dist[u]
<1>1. CASE Begin
  <2>1. visited \subseteq DOMAIN dist /\ DOMAIN dist = {}
    BY <1>1 DEF Begin, IInv, Settled, Shape, TypeOK, Frontier
  <2>. QED
    BY <2>1
<1>2. ASSUME NEW e \in heap, Reach(e) PROVE dist'[u] = dist[u]
  BY <1>2, ReachCosts DEF IInv
<1>3. CASE RejectNode \/ Answer \/ \E e \in heap : Skip(e) \/ Stop(e)
  BY <1>3 DEF RejectNode, Answer, Skip, Stop
<1>. QED
  BY <1>1, <1>2, <1>3 DEF Next

(* For every graph, profile and budget the cost of a node that has been    *)
(* expanded is never revised.                                              *)
THEOREM SettledStays == ASSUME RequestsOK PROVE Spec => ReachedIsFinal
<1>1. IInv /\ [Next]_vars => [\A u \in visited : dist'[u] = dist[u]]_vars
  BY CostsStay
<1>. QED
  BY <1>1, InductiveInvariant, PTL DEF Spec, ReachedIsFinal

(* The answer solves the equations of the least costs: the source is in it *)
(* at no cost, no road within the budget leads from a node in it to one    *)
(* that is not, or sooner than is answered, and each other node in it is   *)
(* led to by a road from one listed before.  The nearest come first, and   *)
(* each comes once.                                                        *)
LeastCostEquations ==
    pc = "done" /\ req.source < G.n /\ 0 <= req.max_seconds =>
        /\ \E k \in DOMAIN reachable : reachable[k] = <<req.source, 0>>
        /\ \A k \in DOMAIN reachable : \A i \in outgoing_edges(G, reachable[k][1]) :
              Road(k, i) /\ Within(CostAlong(k, i)) =>
                  \E l \in DOMAIN reachable :
                      reachable[l][1] = G.edges[i].to /\ reachable[l][2] <= CostAlong(k, i)
        /\ \A l \in DOMAIN reachable : reachable[l][1] # req.source =>
              \E k \in DOMAIN reachable : \E i \in outgoing_edges(G, reachable[k][1]) :
                  /\ k < l /\ Road(k, i)
                  /\ reachable[l] = <<G.edges[i].to, CostAlong(k, i)>>
        /\ \A k, l \in DOMAIN reachable : k < l =>
              reachable[k][1] # reachable[l][1] /\ reachable[k][2] <= reachable[l][2]

(* For every graph, profile and budget.                                    *)
THEOREM AnswersLeastCosts == ASSUME RequestsOK PROVE Spec => []LeastCostEquations
<1>1. ASSUME IInv, pc = "done", req.source < G.n, 0 <= req.max_seconds PROVE LeastCostEquations
  <2>1. /\ \A u \in DOMAIN dist : \E k \in DOMAIN reachable : reachable[k][1] = u
        /\ req.source \in DOMAIN dist /\ dist[req.source] = 0
    BY <1>1 DEF IInv, AllListed
  <2>2. \A k \in DOMAIN reachable :
            reachable[k] = <<reachable[k][1], dist[reachable[k][1]]>>
            /\ reachable[k][1] \in visited /\ reachable[k][2] = dist[reachable[k][1]]
    BY <1>1 DEF IInv, Settled, Shape, TypeOK, Listed
  <2>3. \E k \in DOMAIN reachable : reachable[k] = <<req.source, 0>>
    BY <2>1, <2>2
  <2>4. ASSUME NEW k \in DOMAIN reachable, NEW i \in outgoing_edges(G, reachable[k][1]),
               Road(k, i), Within(CostAlong(k, i))
        PROVE  \E l \in DOMAIN reachable :
                   reachable[l][1] = G.edges[i].to /\ reachable[l][2] <= CostAlong(k, i)
    BY <1>1, <2>1, <2>2, <2>4 DEF IInv, Taken
  <2>5. ASSUME NEW l \in DOMAIN reachable, reachable[l][1] # req.source
        PROVE  \E k \in DOMAIN reachable : \E i \in outgoing_edges(G, reachable[k][1]) :
                   /\ k < l /\ Road(k, i)
                   /\ reachable[l] = <<G.edges[i].to, CostAlong(k, i)>>
    <3>1. PICK k \in DOMAIN reachable : k < l /\ Led(reachable[l][1], k)
      BY <1>1, <2>5 DEF IInv, Reasons
    <3>. QED
      BY <2>2, <3>1 DEF Led
  <2>. QED
    BY <1>1, <2>3, <2>4, <2>5 DEF LeastCostEquations, IInv, Settled, Listed
<1>2. IInv => LeastCostEquations
  BY <1>1 DEF LeastCostEquations
<1>. QED
  BY <1>2, InductiveInvariant, PTL

-----------------------------------------------------------------------------
(* The answer is what driving yields.                                      *)

(* Without restrictions the exits are the roads that are open.             *)
LEMMA EveryTurnTaken ==
    ASSUME NEW g, IsGraph(g), NEW p, NEW k
    PROVE  /\ exits(Unrestricted(g), p, k) = {i \in outgoing_edges(g, k[1]) : usable(g, p, i)}
           /\ \A i : edge_weight(Unrestricted(g), p, i) = edge_weight(g, p, i)
           /\ \A i : HeadOf(Unrestricted(g), i) = HeadOf(g, i)
           /\ IsGraph(Unrestricted(g))
<1>. DEFINE h == Unrestricted(g)
<1>1. h.n = g.n /\ h.pos = g.pos /\ h.edges = g.edges /\ h.restrictions = {}
  BY DEF Unrestricted, IsGraph
<1>. QED
  BY <1>1 DEF exits, outgoing_edges, usable, edge_weight, turn_is_banned, HeadOf, IsGraph

(* A call with a source and a budget has listed nodes within both.         *)
LEMMA NothingWithout ==
    ASSUME RequestsOK, IInv, NEW l \in DOMAIN reachable
    PROVE  req.source < G.n /\ 0 <= req.max_seconds
<1>. DEFINE D == DOMAIN reachable
<1>1. /\ req \in Requests /\ reachable \in Seq((0 .. G.n - 1) \X Nat)
      /\ DOMAIN dist \subseteq 0 .. G.n - 1 /\ visited \subseteq DOMAIN dist
      /\ req.max_seconds \in Int /\ G.n \in Nat /\ req.source \in Nat
  BY DEF IInv, Settled, Shape, TypeOK, RequestsOK, IsRequest, IsGraph, G
<1>2. D \in SUBSET Nat /\ l \in D
  BY <1>1
<1>3. PICK f \in D : \A k \in D : f <= k
  <2>. HIDE DEF D
  <2>. QED
    BY <1>2, LeastNatural
<1>4. reachable[f][1] = req.source
  <2>1. \A k \in D : ~(k < f)
    BY <1>2, <1>3
  <2>. QED
    BY <1>3, <2>1 DEF IInv, Reasons
<1>5. reachable[f][1] \in DOMAIN dist
  BY <1>1, <1>3 DEF IInv, Settled, Listed
<1>6. reachable[l] \in (0 .. G.n - 1) \X Nat
  BY <1>1
<1>7. reachable[l][2] \in Nat /\ reachable[l][2] <= req.max_seconds
  BY <1>6 DEF IInv, InBudget, Within
<1>. QED
  BY <1>1, <1>4, <1>5, <1>7

(* What a driver who may take every turn can be at within the budget has   *)
(* been found, at no more than the cost of the drive.                      *)
LEMMA DrivesAreFound ==
    ASSUME RequestsOK, IInv, pc = "done", req.source < G.n, 0 <= req.max_seconds,
           NEW least, least = LeastCosts(Unrestricted(G), P, req.source)
    PROVE  \A k \in DOMAIN least :
              /\ k \in Label /\ least[k] \in Nat
              /\ least[k] <= req.max_seconds =>
                    k[1] \in DOMAIN dist /\ dist[k[1]] <= least[k]
<1>. DEFINE g == Unrestricted(G)
            Found(k, c) == Within(c) => k[1] \in DOMAIN dist /\ dist[k[1]] <= c
            S == {d \in Label \X Nat : Found(d[1], d[2])}
<1>1. /\ req \in Requests /\ IsGraph(G) /\ IsProfile(P) /\ req.source \in Nat
      /\ req.max_seconds \in Int /\ \A u \in DOMAIN dist : dist[u] \in Nat
  BY DEF IInv, Settled, Shape, TypeOK, RequestsOK, IsRequest, G, P
<1>2. /\ IsGraph(g)
      /\ \A k : exits(g, P, k) = {i \in outgoing_edges(G, k[1]) : usable(G, P, i)}
      /\ \A i : edge_weight(g, P, i) = edge_weight(G, P, i) /\ HeadOf(g, i) = HeadOf(G, i)
  BY <1>1, EveryTurnTaken
<1>. HIDE DEF g
<1>3. <<Start(req.source), 0>> \in S
  BY <1>1 DEF IInv, AllListed, Start, Label
<1>4. ASSUME NEW k \in Label, NEW c \in Nat, NEW i \in exits(g, P, k), <<k, c>> \in S
      PROVE  <<HeadOf(g, i), c + edge_weight(g, P, i)>> \in S
  <2>. DEFINE w == edge_weight(G, P, i)
              v == G.edges[i].to
  <2>1. i \in outgoing_edges(G, k[1]) /\ usable(G, P, i) /\ i \in DOMAIN G.edges
    BY <1>2, <1>4 DEF outgoing_edges
  <2>2. /\ w \in Nat /\ HeadOf(G, i) \in Label /\ HeadOf(G, i)[1] = v
        /\ HeadOf(g, i) = HeadOf(G, i) /\ edge_weight(g, P, i) = w
    BY <1>1, <1>2, <2>1, EdgeIsSound
  <2>. HIDE DEF w
  <2>3. Found(HeadOf(G, i), c + w)
    <3>. SUFFICES ASSUME Within(c + w) PROVE v \in DOMAIN dist /\ dist[v] <= c + w
      BY <2>2
    <3>1. Within(c)
      BY <1>1, <2>2 DEF Within
    <3>2. k[1] \in DOMAIN dist /\ dist[k[1]] <= c
      BY <1>4, <3>1
    <3>3. PICK j \in DOMAIN reachable : reachable[j][1] = k[1]
      BY <3>2 DEF IInv, AllListed
    <3>4. reachable[j][2] = dist[k[1]]
      BY <3>3 DEF IInv, Settled, Listed
    <3>5. Road(j, i) /\ CostAlong(j, i) = dist[k[1]] + w
      BY <2>1, <3>3, <3>4 DEF Road, CostAlong, w
    <3>6. Within(dist[k[1]] + w)
      BY <1>1, <2>2, <3>2 DEF Within
    <3>7. v \in DOMAIN dist /\ dist[v] <= dist[k[1]] + w
      BY <2>1, <3>3, <3>5, <3>6 DEF IInv, Taken
    <3>. QED
      BY <1>1, <2>2, <3>2, <3>7
  <2>4. c + w \in Nat
    BY <2>2
  <2>. QED
    BY <2>2, <2>3, <2>4
<1>. HIDE DEF S
<1>5. \A k \in DOMAIN least : <<k, least[k]>> \in S
  BY <1>1, <1>2, <1>3, <1>4, LeastCostsByDriving DEF g
<1>. QED
  BY <1>5 DEF S, Within

(* What is listed a driver can be at, for no more than the cost listed.    *)
LEMMA ListedAreDriven ==
    ASSUME RequestsOK, IInv, pc = "done",
           NEW least, least = LeastCosts(Unrestricted(G), P, req.source)
    PROVE  \A j \in DOMAIN reachable :
              \E k \in DOMAIN least : k[1] = reachable[j][1] /\ least[k] <= reachable[j][2]
<1>. DEFINE g == Unrestricted(G)
            Driven(j) == \E k \in DOMAIN least :
                            k[1] = reachable[j][1] /\ least[k] <= reachable[j][2]
            Missed == {j \in DOMAIN reachable : ~Driven(j)}
<1>1. /\ req \in Requests /\ IsGraph(G) /\ IsProfile(P) /\ req.source \in Nat
      /\ DOMAIN reachable \in SUBSET Nat
      /\ \A j \in DOMAIN reachable : reachable[j][2] = dist[reachable[j][1]]
                                     /\ reachable[j][2] \in Nat
  <2>1. reachable \in Seq((0 .. G.n - 1) \X Nat)
    BY DEF IInv, Settled, Shape, TypeOK
  <2>2. \A j \in DOMAIN reachable : reachable[j] \in (0 .. G.n - 1) \X Nat
    BY <2>1
  <2>. QED
    BY <2>1, <2>2 DEF IInv, Settled, Shape, Listed, RequestsOK, IsRequest, G, P
<1>2. /\ IsGraph(g)
      /\ \A k : exits(g, P, k) = {i \in outgoing_edges(G, k[1]) : usable(G, P, i)}
      /\ \A i : edge_weight(g, P, i) = edge_weight(G, P, i) /\ HeadOf(g, i) = HeadOf(G, i)
  BY <1>1, EveryTurnTaken
<1>. HIDE DEF g
<1>3. /\ Start(req.source) \in DOMAIN least /\ least[Start(req.source)] = 0
      /\ \A k \in DOMAIN least :
            /\ least[k] \in Nat
            /\ \A i \in exits(g, P, k) :
                  /\ HeadOf(g, i) \in DOMAIN least
                  /\ least[HeadOf(g, i)] <= least[k] + edge_weight(g, P, i)
  BY <1>1, <1>2, LeastCostsClose DEF g
<1>. SUFFICES ASSUME Missed # {} PROVE FALSE
  OBVIOUS
<1>4. PICK j \in Missed : \A l \in Missed : j <= l
  <2>1. Missed \in SUBSET Nat
    BY <1>1
  <2>. HIDE DEF Missed
  <2>. QED
    BY <2>1, LeastNatural
<1>5. CASE reachable[j][1] = req.source
  BY <1>1, <1>3, <1>4, <1>5 DEF Start
<1>6. CASE reachable[j][1] # req.source
  <2>1. PICK l \in DOMAIN reachable : l < j /\ Led(reachable[j][1], l)
    BY <1>4, <1>6 DEF IInv, Reasons
  <2>2. PICK i \in outgoing_edges(G, reachable[l][1]) :
            /\ usable(G, P, i) /\ G.edges[i].to = reachable[j][1]
            /\ reachable[j][2] = reachable[l][2] + edge_weight(G, P, i)
    BY <1>1, <1>4, <2>1 DEF Led, Road, CostAlong
  <2>3. Driven(l)
    <3>1. l \notin Missed
      BY <1>1, <1>4, <2>1
    <3>. QED
      BY <3>1
  <2>4. PICK k \in DOMAIN least : k[1] = reachable[l][1] /\ least[k] <= reachable[l][2]
    BY <2>3
  <2>5. i \in exits(g, P, k) /\ i \in DOMAIN G.edges
    BY <1>2, <2>2, <2>4 DEF outgoing_edges
  <2>6. /\ edge_weight(G, P, i) \in Nat /\ HeadOf(G, i)[1] = G.edges[i].to
    BY <1>1, <2>5, EdgeIsSound
  <2>7. /\ HeadOf(G, i) \in DOMAIN least /\ least[HeadOf(G, i)] \in Nat /\ least[k] \in Nat
        /\ least[HeadOf(G, i)] <= least[k] + edge_weight(G, P, i)
    BY <1>2, <1>3, <2>5
  <2>8. least[HeadOf(G, i)] <= reachable[j][2]
    BY <1>1, <1>4, <2>1, <2>2, <2>4, <2>6, <2>7
  <2>. QED
    BY <1>4, <2>2, <2>6, <2>7, <2>8
<1>. QED
  BY <1>5, <1>6

(* For every graph, profile and budget: when isochrone is done, it has     *)
(* listed exactly the nodes within the budget, each at its least cost.     *)
LEMMA ExactlyWhatCanBeReached ==
    ASSUME RequestsOK, IInv PROVE ReachableExactly
<1>. SUFFICES ASSUME pc = "done" PROVE ReachableExactly
  BY DEF ReachableExactly
<1>. DEFINE least == LeastCosts(Unrestricted(G), P, req.source)
            costs(u) == CostsTo(Unrestricted(G), P, req.source, u)
            best == {x \in (0 .. G.n - 1) \X (0 .. req.max_seconds) :
                        req.source < G.n /\ x[2] \in costs(x[1])
                           /\ \A c \in costs(x[1]) : x[2] <= c}
<1>1. /\ req \in Requests /\ req.max_seconds \in Int /\ G.n \in Nat
      /\ \A j \in DOMAIN reachable :
            /\ reachable[j] \in (0 .. G.n - 1) \X Nat
            /\ reachable[j][2] = dist[reachable[j][1]]
            /\ reachable[j][2] <= req.max_seconds
  <2>1. reachable \in Seq((0 .. G.n - 1) \X Nat)
    BY DEF IInv, Settled, Shape, TypeOK
  <2>. QED
    BY <2>1 DEF IInv, Settled, Shape, Listed, InBudget, Within, RequestsOK, IsRequest,
                IsGraph, G
<1>2. \A u : costs(u) = {least[k] : k \in {l \in DOMAIN least : l[1] = u}}
  BY DEF CostsTo
<1>3. req.source < G.n /\ 0 <= req.max_seconds =>
        \A k \in DOMAIN least :
           /\ least[k] \in Nat
           /\ least[k] <= req.max_seconds =>
                 k[1] \in DOMAIN dist /\ dist[k[1]] <= least[k]
  BY DrivesAreFound
<1>4. \A j \in DOMAIN reachable :
          \E k \in DOMAIN least : k[1] = reachable[j][1] /\ least[k] <= reachable[j][2]
  BY ListedAreDriven
<1>. HIDE DEF least, costs
<1>5. ASSUME NEW j \in DOMAIN reachable PROVE reachable[j] \in best
  <2>1. req.source < G.n /\ 0 <= req.max_seconds
    BY NothingWithout
  <2>. DEFINE u == reachable[j][1]
              c == reachable[j][2]
  <2>2. /\ u \in 0 .. G.n - 1 /\ c \in Nat /\ c <= req.max_seconds /\ c = dist[u]
        /\ reachable[j] = <<u, c>>
    BY <1>1
  <2>3. ASSUME NEW k \in DOMAIN least, k[1] = u PROVE c <= least[k]
    BY <1>1, <1>3, <2>1, <2>2, <2>3
  <2>4. PICK k \in DOMAIN least : k[1] = u /\ least[k] <= c
    BY <1>4
  <2>5. least[k] = c
    BY <1>3, <2>1, <2>2, <2>3, <2>4
  <2>6. c \in costs(u) /\ \A d \in costs(u) : c <= d
    BY <1>2, <2>3, <2>4, <2>5
  <2>7. <<u, c>> \in (0 .. G.n - 1) \X (0 .. req.max_seconds)
    BY <1>1, <2>2
  <2>. QED
    BY <2>1, <2>2, <2>6, <2>7
<1>6. ASSUME NEW x \in best PROVE \E j \in DOMAIN reachable : reachable[j] = x
  <2>. DEFINE u == x[1]
              c == x[2]
  <2>1. /\ u \in 0 .. G.n - 1 /\ c \in Nat /\ c <= req.max_seconds /\ x = <<u, c>>
        /\ req.source < G.n /\ c \in costs(u) /\ \A d \in costs(u) : c <= d
    BY <1>1
  <2>2. 0 <= req.max_seconds
    BY <1>1, <2>1
  <2>3. PICK k \in DOMAIN least : k[1] = u /\ least[k] = c
    BY <1>2, <2>1
  <2>4. u \in DOMAIN dist /\ dist[u] <= c
    BY <1>3, <2>1, <2>2, <2>3
  <2>5. PICK j \in DOMAIN reachable : reachable[j][1] = u
    BY <2>1, <2>2, <2>4 DEF IInv, AllListed
  <2>6. reachable[j] \in best
    BY <1>5
  <2>7. reachable[j][2] \in costs(u) /\ reachable[j][2] = dist[u]
    BY <1>1, <2>5, <2>6
  <2>8. reachable[j][2] = c
    BY <1>1, <2>1, <2>4, <2>7
  <2>. QED
    BY <1>1, <2>1, <2>5, <2>8
<1>7. {reachable[j] : j \in DOMAIN reachable} = best
  <2>. HIDE DEF best
  <2>. QED
    BY <1>5, <1>6
<1>8. \A j, k \in DOMAIN reachable : j < k =>
         reachable[j][1] # reachable[k][1] /\ reachable[j][2] <= reachable[k][2]
  BY DEF IInv, Settled, Listed
<1>. QED
  BY <1>7, <1>8 DEF ReachableExactly, costs

(* Of the whole search: its answer is exact in every state.                *)
THEOREM AnswersExactly == ASSUME RequestsOK PROVE Spec => []ReachableExactly
<1>1. IInv => ReachableExactly
  BY ExactlyWhatCanBeReached
<1>. QED
  BY <1>1, InductiveInvariant, PTL
=================================================================================
