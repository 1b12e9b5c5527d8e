------------------------------ MODULE AStarProofs ------------------------------
(***************************************************************************)
(* What holds of astar_search for every graph, profile and request: its    *)
(* type invariant; that the route told is the path found; and, for every   *)
(* request whose heuristic is consistent (dijkstra always), that settled   *)
(* costs are final, that the tree the backtrack follows is tight, that no  *)
(* drive beats the answer, that the steps told take as long as the search  *)
(* says, and that the search implements RoutePlanner.                      *)
(***************************************************************************)
EXTENDS AStarInvariants, RouteReply, OperatorTheorems

-----------------------------------------------------------------------------
(* Lemmas about the operators of RoadGraph and the heuristic.              *)

(* An edge of a well-formed graph has a natural weight and leads to a      *)
(* label.                                                                  *)
LEMMA EdgeFacts ==
    ASSUME NEW r, IsRequest(r), NEW i \in DOMAIN r.graph.edges
    PROVE  /\ edge_weight(r.graph, r.profile, i) \in Nat
           /\ HeadOf(r.graph, i) \in Label
           /\ HeadOf(r.graph, i)[1] = r.graph.edges[i].to
           /\ r.graph.edges[i].from \in Nat
           /\ r.graph.edges[i].to \in Nat
BY EdgeIsSound DEF IsRequest

(* The heuristic is a natural number, and zero at the target.              *)
LEMMA HeuristicFacts ==
    ASSUME NEW r, IsRequest(r), r.target < r.graph.n, NEW u \in Nat
    PROVE  heuristic(r, u) \in Nat /\ heuristic(r, r.target) = 0
<1>1. \A v \in Nat : v < r.graph.n => r.graph.pos[v] \in Int
  BY DEF IsRequest, IsGraph
<1>2. r.target \in Nat
  BY DEF IsRequest
<1>3. r.graph.pos[r.target] \in Int
  BY <1>1, <1>2
<1>4. ASSUME NEW here \in Int
      PROVE  LET away == here - r.graph.pos[r.target]
             IN  (IF away < 0 THEN -away ELSE away) \in Nat
  BY <1>3
<1>5. heuristic(r, u) \in Nat
  BY <1>1, <1>3, <1>4 DEF heuristic
<1>6. heuristic(r, r.target) = 0
  BY <1>3 DEF heuristic
<1>. QED
  BY <1>5, <1>6

(* With a consistent heuristic, driving an exit never lowers the estimate  *)
(* of the whole trip.                                                      *)
LEMMA ExitFacts ==
    ASSUME NEW r, IsRequest(r), NEW k \in Label,
           NEW i \in exits(r.graph, r.profile, k)
    PROVE  /\ i \in DOMAIN r.graph.edges
           /\ i \in outgoing_edges(r.graph, k[1])
           /\ Consistent(r) =>
                heuristic(r, k[1]) <= edge_weight(r.graph, r.profile, i)
                                        + heuristic(r, HeadOf(r.graph, i)[1])
BY EdgeFacts DEF exits, outgoing_edges, Consistent

-----------------------------------------------------------------------------
(* Type correctness.                                                       *)

LEMMA TypeInit == Init => TypeInv
<1>. SUFFICES ASSUME Init PROVE TypeInv
  OBVIOUS
<1>1. IsRequest(req)
  BY RequestsAssumption DEF Init
<1>2. Start(req.source) \in Label
  BY <1>1 DEF IsRequest, Start, Label
<1>3. /\ DOMAIN g_scores = {}
      /\ DOMAIN prev = {}
      /\ path \in Seq(Nat)
  BY DEF Init
<1>. QED
  BY <1>1, <1>2, <1>3
  DEF Init, TypeInv, TypeOK, NodesKnown, HeapSound, HeapEntry, NoReply

(* Popping an entry keeps the heap and the settled labels well typed.      *)
LEMMA PopFacts ==
    ASSUME TypeInv, NEW e, Pop(e)
    PROVE  /\ e \in HeapEntry
           /\ e.at \in Label
           /\ heap' \subseteq heap
           /\ settled' = settled \cup {e.at}
           /\ settled' \subseteq DOMAIN g_scores
BY DEF Pop, TypeInv, TypeOK, HeapSound, HeapEntry

(* An improving relaxation: the label, its cost and its heap entry.        *)
LEMMA RelaxFacts ==
    ASSUME TypeInv, NEW i, Relax(i), i \in exits(G, P, current.at)
    PROVE  LET k == HeadOf(G, i)
               g == current.g + edge_weight(G, P, i)
           IN  /\ i \in DOMAIN G.edges
               /\ k \in Label
               /\ g \in Nat
               /\ edge_weight(G, P, i) \in Nat
               /\ heuristic(req, k[1]) \in Nat
               /\ Entry(g, k) \in HeapEntry
               /\ Entry(g, k).at = k
               /\ Entry(g, k).g = g
               /\ Entry(g, k).f = g + heuristic(req, k[1])
<1>1. i \in DOMAIN req.graph.edges /\ IsRequest(req) /\ current \in HeapEntry
  BY DEF exits, outgoing_edges, G, TypeInv, TypeOK
<1>2. req.target < req.graph.n
  BY DEF Relax, TypeInv, NodesKnown, G
<1>3. HeadOf(G, i) \in Label /\ edge_weight(G, P, i) \in Nat
  BY <1>1, EdgeFacts DEF G, P
<1>4. heuristic(req, HeadOf(G, i)[1]) \in Nat
  BY <1>1, <1>2, <1>3, HeuristicFacts DEF Label
<1>. QED
  BY <1>1, <1>3, <1>4 DEF Entry, HeapEntry, G

LEMMA TypeStep == TypeInv /\ [Next]_vars => TypeInv'
<1>. SUFFICES ASSUME TypeInv, [Next]_vars PROVE TypeInv'
  OBVIOUS
<1>. USE DEF TypeInv
<1>1. CASE RejectEmptyGraph
  BY <1>1 DEF RejectEmptyGraph, Finish, TypeOK, NodesKnown, HeapSound, G
<1>2. CASE RejectNode
  BY <1>2 DEF RejectNode, Finish, TypeOK, NodesKnown, HeapSound, G
<1>3. CASE Begin
  <2>1. Start(req.source) \in Label /\ Start(req.source)[1] = req.source
    BY DEF Start, Label, TypeOK, IsRequest
  <2>2. heuristic(req, req.source) \in Nat
    BY <1>3, HeuristicFacts DEF Begin, TypeOK, IsRequest, G
  <2>3. /\ Entry(0, Start(req.source)) \in HeapEntry
        /\ Entry(0, Start(req.source)).at = Start(req.source)
        /\ Entry(0, Start(req.source)).g = 0
        /\ Entry(0, Start(req.source)).f = heuristic(req, req.source)
    BY <2>1, <2>2 DEF Entry, HeapEntry
  <2>4. DOMAIN g_scores = {}
    BY <1>3 DEF Begin, NodesKnown
  <2>. QED
    BY <1>3, <2>1, <2>2, <2>3, <2>4 DEF Begin, TypeOK, NodesKnown, HeapSound, G
<1>4. ASSUME NEW e \in heap, PopStale(e) PROVE TypeInv'
  BY <1>4, PopFacts DEF PopStale, TypeOK, NodesKnown, HeapSound, G, Pop
<1>5. ASSUME NEW e \in heap, PopTarget(e) PROVE TypeInv'
  BY <1>5, PopFacts
  DEF PopTarget, Pop, TypeOK, NodesKnown, HeapSound, HeapEntry, G
<1>6. ASSUME NEW e \in heap, Expand(e) PROVE TypeInv'
  <2>1. outgoing_edges(G, e.at[1]) \subseteq DOMAIN G.edges
    BY DEF outgoing_edges
  <2>. QED
    BY <1>6, <2>1, PopFacts DEF Expand, Pop, TypeOK, NodesKnown, HeapSound, G
<1>7. ASSUME NEW i \in todo, Relax(i) PROVE TypeInv'
  <2>1. CASE i \in exits(G, P, current.at)
             /\ Improves(HeadOf(G, i), current.g + edge_weight(G, P, i))
    <3>. DEFINE k == HeadOf(G, i)
                g == current.g + edge_weight(G, P, i)
    <3>1. /\ g_scores' = Record(g_scores, k, g)
          /\ prev' = Record(prev, k, current.at)
          /\ heap' = heap \cup {Entry(g, k)}
          /\ UNCHANGED <<req, pc, settled, current, cursor, path, duration, reply>>
          /\ todo' \subseteq todo
      BY <1>7, <2>1 DEF Relax, Takes, Offer
    <3>2. /\ k \in Label
          /\ g \in Nat
          /\ Entry(g, k) \in HeapEntry
          /\ Entry(g, k).at = k
          /\ Entry(g, k).g = g
          /\ Entry(g, k).f = g + heuristic(req, k[1])
      BY <1>7, <2>1, RelaxFacts
    <3>3. k \in DOMAIN g_scores => g < g_scores[k]
      BY <2>1 DEF Improves
    <3>. HIDE DEF k, g
    <3>4. /\ DOMAIN g_scores' = DOMAIN g_scores \cup {k}
          /\ g_scores'[k] = g
          /\ \A x \in DOMAIN g_scores : x # k => g_scores'[x] = g_scores[x]
      BY <3>1 DEF Record
    <3>5. /\ DOMAIN prev' = DOMAIN prev \cup {k}
          /\ prev'[k] = current.at
          /\ \A x \in DOMAIN prev : x # k => prev'[x] = prev[x]
      BY <3>1 DEF Record
    <3>6. TypeOK'
      BY <3>1, <3>2, <3>4, <3>5 DEF TypeOK, G, HeapEntry
    <3>7. HeapSound'
      BY <3>1, <3>2, <3>3, <3>4 DEF HeapSound, TypeOK, HeapEntry
    <3>. QED
      BY <3>1, <3>4, <3>6, <3>7, <1>7 DEF NodesKnown, G, Relax
  <2>2. CASE ~(i \in exits(G, P, current.at)
               /\ Improves(HeadOf(G, i), current.g + edge_weight(G, P, i)))
    BY <1>7, <2>2 DEF Relax, Takes, Offer, TypeOK, NodesKnown, HeapSound, G
  <2>. QED
    BY <2>1, <2>2
<1>8. CASE NoRoute
  BY <1>8 DEF NoRoute, Finish, TypeOK, NodesKnown, HeapSound, G
<1>9. CASE Backtrack
  <2>1. path' \in Seq(Nat)
    BY <1>9 DEF Backtrack, TypeOK, Label
  <2>. QED
    BY <1>9, <2>1 DEF Backtrack, Finish, TypeOK, NodesKnown, HeapSound, G
<1>10. CASE Return
  <2>1. path' \in Seq(Nat)
    BY <1>10 DEF Return, TypeOK, Label
  <2>. QED
    BY <1>10, <2>1 DEF Return, Finish, TypeOK, NodesKnown, HeapSound, G
<1>11. CASE UNCHANGED vars
  BY <1>11 DEF vars, TypeOK, NodesKnown, HeapSound, G
<1>. QED
  BY <1>1, <1>2, <1>3, <1>4, <1>5, <1>6, <1>7, <1>8, <1>9, <1>10, <1>11
  DEF Next

(* Every value astar_search keeps stays in its type, for every graph.      *)
THEOREM TypeCorrect == Spec => []TypeOK
<1>1. TypeInv => TypeOK
  BY DEF TypeInv
<1>. QED
  BY <1>1, TypeInit, TypeStep, PTL DEF Spec

-----------------------------------------------------------------------------
(* The search invariant is inductive.                                      *)

LEMMA EstimateFacts ==
    ASSUME TypeInv, req.target < G.n
    PROVE  /\ \A k \in Label : heuristic(req, k[1]) \in Nat
           /\ \A k \in DOMAIN g_scores : k \in Label /\ Estimate(k) \in Nat
           /\ heuristic(req, req.target) = 0
<1>1. \A k \in Label : k[1] \in Nat
  BY DEF Label
<1>2. IsRequest(req) /\ req.target \in Nat
  BY DEF TypeInv, TypeOK, IsRequest
<1>3. \A k \in Label : heuristic(req, k[1]) \in Nat
  BY <1>1, <1>2, HeuristicFacts DEF G
<1>4. heuristic(req, req.target) = 0
  BY <1>2, HeuristicFacts DEF G
<1>. QED
  BY <1>3, <1>4 DEF TypeInv, TypeOK, Estimate

(* What is popped is the best of what is open; if it is fresh, it carries  *)
(* the best cost of its label, and if not, its label was settled before.   *)
LEMMA BestPopped ==
    ASSUME TypeInv, OpenCovered, SettledFirst, NEW e \in heap, Pop(e)
    PROVE  /\ \A l \in DOMAIN g_scores \ settled : e.f <= Estimate(l)
           /\ ~Fresh(e) => e.at \in settled
           /\ Fresh(e) => /\ e.at \in DOMAIN g_scores
                          /\ e.at \notin settled
                          /\ e.g = g_scores[e.at]
                          /\ e.f = Estimate(e.at)
                          /\ \A k \in settled : Estimate(k) <= Estimate(e.at)
<1>1. req.target < G.n
  BY DEF Pop, TypeInv, NodesKnown
<1>2. /\ e \in HeapEntry
      /\ e.at \in DOMAIN g_scores
      /\ g_scores[e.at] <= e.g
      /\ e.f = e.g + heuristic(req, e.at[1])
  BY DEF TypeInv, TypeOK, HeapSound
<1>3. \A l \in DOMAIN g_scores : l \in Label /\ heuristic(req, l[1]) \in Nat
                                /\ g_scores[l] \in Nat
  BY <1>1, EstimateFacts DEF TypeInv, TypeOK
<1>4. \A l \in DOMAIN g_scores \ settled : e.f <= Estimate(l)
  BY DEF OpenCovered, Pop, Entry, Estimate
<1>5. e.at \notin settled => e.g <= g_scores[e.at]
  BY <1>2, <1>3, <1>4 DEF Estimate, HeapEntry
<1>6. e.at \notin settled => e.g = g_scores[e.at]
  BY <1>2, <1>3, <1>5 DEF HeapEntry
<1>. QED
  BY <1>2, <1>4, <1>5, <1>6 DEF Fresh, Estimate, SettledFirst

(* No relaxation improves a settled label: the heuristic is consistent and *)
(* current is the last label settled.                                      *)
LEMMA NoSettledImproves ==
    ASSUME TypeInv, Consistent(req), CurrentLast, NEW i \in todo, Relax(i),
           i \in exits(G, P, current.at),
           Improves(HeadOf(G, i), current.g + edge_weight(G, P, i))
    PROVE  HeadOf(G, i) \notin settled
<1>. DEFINE k == HeadOf(G, i)
            w == edge_weight(G, P, i)
<1>. SUFFICES ASSUME k \in settled PROVE FALSE
  OBVIOUS
<1>1. req.target < G.n /\ IsRequest(req)
  BY DEF Relax, TypeInv, NodesKnown, TypeOK
<1>2. current.at \in DOMAIN g_scores /\ k \in DOMAIN g_scores
  BY DEF CurrentLast, TypeInv, TypeOK
<1>3. /\ current.at \in Label
      /\ heuristic(req, current.at[1]) <= w + heuristic(req, k[1])
  BY <1>1, <1>2, ExitFacts DEF TypeInv, TypeOK, G, P
<1>4. /\ k \in Label
      /\ w \in Nat
      /\ heuristic(req, k[1]) \in Nat
      /\ heuristic(req, current.at[1]) \in Nat
  BY <1>1, <1>3, RelaxFacts, EstimateFacts
<1>5. /\ g_scores[k] + heuristic(req, k[1])
             <= g_scores[current.at] + heuristic(req, current.at[1])
      /\ current.g = g_scores[current.at]
  BY DEF CurrentLast, Estimate
<1>6. current.g + w < g_scores[k]
  BY <1>2 DEF Improves
<1>7. g_scores[k] \in Nat /\ g_scores[current.at] \in Nat
  BY <1>2 DEF TypeInv, TypeOK
<1>. HIDE DEF k, w
<1>. QED
  BY <1>3, <1>4, <1>5, <1>6, <1>7

LEMMA SearchInit == Init => SearchInv
<1>. SUFFICES ASSUME Init PROVE SearchInv
  OBVIOUS
<1>1. /\ DOMAIN g_scores = {}
      /\ reply.kind = "none"
  BY DEF Init, NoReply
<1>. QED
  BY <1>1 DEF Init, SearchInv, StartZero, OpenCovered, SettledFirst,
              CurrentLast, Offered, Arrived, TreeInv

LEMMA StepBegin ==
    ASSUME TypeInv, SearchInv, Begin
    PROVE  SearchInv'
<1>1. /\ g_scores' = [k \in {Start(req.source)} |-> 0]
      /\ heap' = {Entry(0, Start(req.source))}
      /\ UNCHANGED <<req, settled, todo, reply>>
      /\ pc' = "search"
  BY DEF Begin
<1>2. /\ settled = {}
      /\ todo = {}
      /\ reply.kind = "none"
  BY DEF Begin, TypeInv, TypeOK, NodesKnown, NoReply
<1>3. (Entry(0, Start(req.source)))' = Entry(0, Start(req.source))
  BY <1>1 DEF Entry, Start
<1>. QED
  BY <1>1, <1>2, <1>3
  DEF SearchInv, StartZero, OpenCovered, SettledFirst, CurrentLast, Offered,
      Arrived, TreeInv, Entry

LEMMA StepPopStale ==
    ASSUME TypeInv, SearchInv, NEW e \in heap, PopStale(e)
    PROVE  SearchInv'
<1>1. /\ heap' = heap \ {e}
      /\ settled' = settled \cup {e.at}
      /\ UNCHANGED <<req, pc, g_scores, prev, current, todo, cursor, path,
                     duration, reply>>
  BY DEF PopStale, Pop
<1>2. e.at \in settled
  BY BestPopped DEF PopStale, SearchInv
<1>3. settled' = settled
  BY <1>1, <1>2
<1>4. \A k \in DOMAIN g_scores \ settled : Entry(g_scores[k], k) # e
  BY <1>2 DEF Entry
<1>5. OpenCovered'
  BY <1>1, <1>3, <1>4 DEF SearchInv, OpenCovered, Entry
<1>. QED
  BY <1>1, <1>3, <1>5
  DEF SearchInv, StartZero, SettledFirst, CurrentLast, Offered, OfferedBy,
      Arrived, TreeInv, TightAt, Estimate, G, P

(* What PopTarget and Expand have in common: one more label is settled.    *)
LEMMA StepSettle ==
    ASSUME TypeInv, SearchInv, NEW e \in heap, Pop(e), Fresh(e),
           UNCHANGED <<req, g_scores, prev>>
    PROVE  /\ StartZero'
           /\ OpenCovered'
           /\ SettledFirst'
           /\ TreeInv'
<1>1. /\ heap' = heap \ {e}
      /\ settled' = settled \cup {e.at}
  BY DEF Pop
<1>2. /\ \A l \in DOMAIN g_scores \ settled : e.f <= Estimate(l)
      /\ e.at \notin settled
      /\ e.f = Estimate(e.at)
  BY BestPopped DEF SearchInv
<1>3. \A k : Entry(g_scores[k], k).at = k
  BY DEF Entry
<1>4. OpenCovered'
  BY <1>1, <1>3 DEF SearchInv, OpenCovered, Entry
<1>5. SettledFirst'
  BY <1>1, <1>2 DEF SearchInv, SettledFirst, Estimate
<1>6. TreeInv'
  BY <1>1 DEF SearchInv, TreeInv, TightAt, G, P
<1>. QED
  BY <1>4, <1>5, <1>6 DEF SearchInv, StartZero

LEMMA StepPopTarget ==
    ASSUME TypeInv, SearchInv, NEW e \in heap, PopTarget(e)
    PROVE  SearchInv'
<1>1. /\ pc = "search"
      /\ todo = {}
      /\ settled' = settled \cup {e.at}
      /\ e.at[1] = req.target
      /\ pc' = "backtrack"
      /\ cursor' = e.at
      /\ duration' = e.g
      /\ UNCHANGED <<req, g_scores, prev, current, todo, path, reply>>
      /\ Pop(e)
      /\ Fresh(e)
  BY DEF PopTarget, Pop
<1>2. /\ StartZero' /\ OpenCovered' /\ SettledFirst' /\ TreeInv'
  BY <1>1, StepSettle
<1>3. CurrentLast'
  BY <1>1 DEF CurrentLast
<1>4. Offered'
  BY <1>1 DEF SearchInv, Offered, OfferedBy, G, P
<1>5. Arrived'
  <2>1. /\ \A l \in DOMAIN g_scores \ settled : e.f <= Estimate(l)
        /\ e.g = g_scores[e.at]
        /\ e.at \in DOMAIN g_scores
        /\ e.f = Estimate(e.at)
    BY <1>1, BestPopped DEF SearchInv
  <2>2. e.f = e.g
    <3>1. req.target < G.n
      BY <1>1 DEF TypeInv, NodesKnown
    <3>2. heuristic(req, e.at[1]) = 0
      BY <1>1, <3>1, EstimateFacts
    <3>. QED
      BY <2>1, <3>2 DEF Estimate, TypeInv, TypeOK
  <2>3. reply = NoReply
    BY <1>1 DEF TypeInv, NodesKnown
  <2>4. \A k \in settled : k[1] # req.target
    BY <1>1 DEF SearchInv, Arrived
  <2>. QED
    BY <1>1, <2>1, <2>2, <2>3, <2>4 DEF Arrived, Estimate, NoReply
<1>. QED
  BY <1>2, <1>3, <1>4, <1>5 DEF SearchInv

LEMMA StepExpand ==
    ASSUME TypeInv, SearchInv, NEW e \in heap, Expand(e)
    PROVE  SearchInv'
<1>1. /\ pc = "search"
      /\ todo = {}
      /\ settled' = settled \cup {e.at}
      /\ e.at[1] # req.target
      /\ current' = e
      /\ todo' = outgoing_edges(G, e.at[1])
      /\ UNCHANGED <<req, pc, g_scores, prev, cursor, path, duration, reply>>
      /\ Pop(e)
      /\ Fresh(e)
  BY DEF Expand, Pop
<1>2. /\ StartZero' /\ OpenCovered' /\ SettledFirst' /\ TreeInv'
  BY <1>1, StepSettle
<1>3. CurrentLast'
  <2>1. /\ e.g = g_scores[e.at]
        /\ e.at \in DOMAIN g_scores
        /\ \A k \in settled : Estimate(k) <= Estimate(e.at)
    BY <1>1, BestPopped DEF SearchInv
  <2>2. Estimate(e.at) \in Nat
    BY <1>1, <2>1, EstimateFacts DEF TypeInv, NodesKnown
  <2>. QED
    BY <1>1, <2>1, <2>2 DEF CurrentLast, Estimate, G
<1>4. Offered'
  <2>1. \A i \in exits(G, P, e.at) : i \in todo'
    BY <1>1 DEF exits
  <2>2. \A k \in settled : k[1] # req.target =>
          \A i \in exits(G, P, k) : OfferedBy(k, i)
    BY <1>1 DEF SearchInv, Offered
  <2>. QED
    BY <1>1, <2>1, <2>2 DEF Offered, OfferedBy, G, P
<1>5. Arrived'
  <2>1. reply = NoReply
    BY <1>1 DEF TypeInv, NodesKnown
  <2>. QED
    BY <1>1, <2>1 DEF SearchInv, Arrived, NoReply
<1>. QED
  BY <1>2, <1>3, <1>4, <1>5 DEF SearchInv

LEMMA StepRelax ==
    ASSUME TypeInv, Consistent(req), SearchInv, NEW i \in todo, Relax(i)
    PROVE  SearchInv'
<1>. DEFINE k == HeadOf(G, i)
            w == edge_weight(G, P, i)
            g == current.g + w
            taken == i \in exits(G, P, current.at) /\ Improves(k, g)
<1>1. /\ pc = "search"
      /\ todo' = todo \ {i}
      /\ reply = NoReply
      /\ req.target < G.n
      /\ UNCHANGED <<req, pc, settled, current, cursor, path, duration, reply>>
  BY DEF Relax, TypeInv, NodesKnown
<1>2. /\ current.at \in settled
      /\ current.g = g_scores[current.at]
      /\ todo \subseteq outgoing_edges(G, current.at[1])
      /\ \A l \in settled : Estimate(l) <= Estimate(current.at)
  BY DEF SearchInv, CurrentLast
<1>3. settled \subseteq DOMAIN g_scores
  BY DEF TypeInv, TypeOK
<1>4. CASE ~taken
  <2>1. UNCHANGED <<g_scores, prev, heap>>
    BY <1>4 DEF Relax, Takes, Offer
  <2>2. i \in exits(G, P, current.at) => OfferedBy(current.at, i)
    <3>. SUFFICES ASSUME i \in exits(G, P, current.at)
                  PROVE  OfferedBy(current.at, i)
      OBVIOUS
    <3>1. k \in DOMAIN g_scores /\ ~(g < g_scores[k])
      BY <1>4 DEF Improves
    <3>2. g \in Nat
      BY RelaxFacts
    <3>. QED
      BY <1>2, <3>1, <3>2 DEF OfferedBy, TypeInv, TypeOK
  <2>. QED
    BY <1>1, <1>2, <2>1, <2>2
    DEF SearchInv, StartZero, OpenCovered, SettledFirst, CurrentLast, Offered,
        OfferedBy, Arrived, TreeInv, TightAt, Estimate, Entry, G, P, NoReply
<1>5. CASE taken
  <2>1. /\ g_scores' = Record(g_scores, k, g)
        /\ prev' = Record(prev, k, current.at)
        /\ heap' = heap \cup {Entry(g, k)}
    BY <1>5 DEF Relax, Takes, Offer
  <2>2. /\ k \in Label
        /\ g \in Nat
        /\ w \in Nat
        /\ heuristic(req, k[1]) \in Nat
        /\ i \in DOMAIN G.edges
    BY <1>5, RelaxFacts
  <2>3. k \notin settled
    BY <1>5, NoSettledImproves DEF SearchInv
  <2>4. k \in DOMAIN g_scores => g < g_scores[k]
    BY <1>5 DEF Improves
  <2>5. i \in exits(G, P, current.at)
    BY <1>5
  <2>6. /\ current.at \in Label
        /\ heuristic(req, current.at[1]) \in Nat
        /\ heuristic(req, current.at[1]) <= w + heuristic(req, k[1])
    BY <1>1, <1>2, <1>3, <2>5, ExitFacts, EstimateFacts
    DEF TypeInv, TypeOK, G, P
  <2>7. /\ \A l \in DOMAIN g_scores : g_scores[l] \in Nat
        /\ \A l \in DOMAIN g_scores : l \in Label /\ heuristic(req, l[1]) \in Nat
    BY <1>1, EstimateFacts DEF TypeInv, TypeOK
  <2>8. k # Start(req.source)
    BY <1>1, <2>2, <2>4, <2>7
    DEF SearchInv, StartZero, TypeInv, NodesKnown
  <2>9. HeadOf(G, i) = k /\ edge_weight(G, P, i) = w
    OBVIOUS
  <2>10. g = g_scores[current.at] + w
    BY <1>2
  <2>. HIDE DEF k, w, g
  <2>11. /\ DOMAIN g_scores' = DOMAIN g_scores \cup {k}
         /\ g_scores'[k] = g
         /\ \A x \in DOMAIN g_scores : x # k => g_scores'[x] = g_scores[x]
    BY <2>1 DEF Record
  <2>12. /\ DOMAIN prev' = DOMAIN prev \cup {k}
         /\ prev'[k] = current.at
         /\ \A x \in DOMAIN prev : x # k => prev'[x] = prev[x]
    BY <2>1 DEF Record
  <2>13. StartZero'
    BY <1>1, <2>8, <2>11 DEF SearchInv, StartZero, Start
  <2>14. OpenCovered'
    BY <1>1, <2>1, <2>11 DEF SearchInv, OpenCovered, Entry
  <2>15. SettledFirst'
    <3>1. \A l \in settled : g_scores[l] + heuristic(req, l[1])
                              <= g + heuristic(req, k[1])
      <4>1. g_scores[current.at] + heuristic(req, current.at[1])
              <= g + heuristic(req, k[1])
        BY <1>2, <1>3, <2>2, <2>6, <2>7, <2>10
      <4>. QED
        BY <1>2, <1>3, <2>2, <2>6, <2>7, <4>1 DEF Estimate
    <3>. QED
      BY <1>1, <1>3, <2>3, <2>11, <3>1 DEF SearchInv, SettledFirst, Estimate
  <2>16. CurrentLast'
    BY <1>1, <1>2, <1>3, <2>3, <2>11 DEF CurrentLast, Estimate, G
  <2>17. Offered'
    <3>. SUFFICES ASSUME NEW l \in settled, l[1] # req.target,
                         NEW j \in exits(G, P, l),
                         ~(l = current.at /\ j \in todo /\ j # i)
                  PROVE  /\ HeadOf(G, j) \in DOMAIN g_scores'
                         /\ g_scores'[HeadOf(G, j)]
                              <= g_scores'[l] + edge_weight(G, P, j)
      BY <1>1 DEF Offered, OfferedBy, G, P
    <3>1. l \in Label /\ edge_weight(G, P, j) \in Nat
      BY <1>3, <2>7, ExitFacts, EdgeFacts DEF TypeInv, TypeOK, G, P
    <3>2. g_scores'[l] = g_scores[l] /\ l \in DOMAIN g_scores
      BY <1>3, <2>3, <2>11
    <3>3. CASE l = current.at /\ j = i
      BY <2>9, <2>10, <2>11, <2>2, <2>7, <3>1, <3>2, <3>3
    <3>4. CASE ~(l = current.at /\ j = i)
      <4>1. OfferedBy(l, j)
        BY <3>4 DEF SearchInv, Offered
      <4>2. CASE HeadOf(G, j) = k
        BY <2>2, <2>4, <2>7, <2>11, <3>1, <3>2, <4>1, <4>2 DEF OfferedBy
      <4>3. CASE HeadOf(G, j) # k
        BY <2>11, <3>2, <4>1, <4>3 DEF OfferedBy
      <4>. QED
        BY <4>2, <4>3
    <3>. QED
      BY <3>3, <3>4
  <2>18. Arrived'
    BY <1>1 DEF SearchInv, Arrived, NoReply
  <2>19. TreeInv'
    <3>1. ASSUME NEW l, l = k PROVE TightAt(l)'
      BY <1>1, <1>2, <1>3, <2>3, <2>5, <2>9, <2>10, <2>11, <2>12, <3>1
      DEF TightAt, G, P
    <3>2. ASSUME NEW l \in DOMAIN g_scores, l # Start(req.source), l # k
          PROVE  TightAt(l)'
      BY <1>1, <1>3, <2>3, <2>11, <2>12, <3>2
      DEF SearchInv, TreeInv, TightAt, G, P
    <3>. QED
      BY <1>1, <2>11, <3>1, <3>2 DEF TreeInv, Start
  <2>. QED
    BY <2>13, <2>14, <2>15, <2>16, <2>17, <2>18, <2>19 DEF SearchInv
<1>. QED
  BY <1>4, <1>5

LEMMA StepFinish ==
    ASSUME TypeInv, SearchInv,
           RejectEmptyGraph \/ RejectNode \/ NoRoute \/ Backtrack \/ Return
    PROVE  SearchInv'
<1>1. UNCHANGED <<req, heap, g_scores, prev, settled, current, todo, duration>>
  BY DEF RejectEmptyGraph, RejectNode, NoRoute, Backtrack, Return
<1>2. /\ StartZero' /\ OpenCovered' /\ SettledFirst' /\ Offered' /\ TreeInv'
  BY <1>1 DEF SearchInv, StartZero, OpenCovered, SettledFirst, Offered,
              OfferedBy, TreeInv, TightAt, Estimate, Entry, G, P
<1>3. todo = {}
  BY DEF RejectEmptyGraph, RejectNode, NoRoute, Backtrack, Return, TypeInv,
         NodesKnown, SearchInv, Arrived
<1>4. CurrentLast'
  BY <1>1, <1>3 DEF CurrentLast
<1>5. Arrived'
  <2>1. CASE RejectEmptyGraph \/ RejectNode
    BY <1>1, <1>3, <2>1
    DEF RejectEmptyGraph, RejectNode, Finish, Arrived
  <2>2. CASE NoRoute
    <3>1. \A k \in DOMAIN g_scores : k \in settled
      BY <2>2 DEF NoRoute, SearchInv, OpenCovered
    <3>. QED
      BY <1>1, <1>3, <2>2, <3>1
      DEF NoRoute, Finish, SearchInv, Arrived, TypeInv, NodesKnown, G
  <2>3. CASE Backtrack
    <3>1. /\ cursor \in settled
          /\ cursor # Start(req.source)
          /\ cursor \in DOMAIN g_scores
      BY <2>3 DEF Backtrack, SearchInv, Arrived, Start, TypeInv, TypeOK
    <3>2. cursor \in DOMAIN prev /\ prev[cursor] \in settled
      BY <3>1 DEF SearchInv, TreeInv, TightAt
    <3>3. cursor' = prev[cursor] /\ UNCHANGED <<pc, reply>>
      BY <2>3, <3>2 DEF Backtrack
    <3>. QED
      BY <1>1, <2>3, <3>2, <3>3
      DEF Backtrack, SearchInv, Arrived, Estimate, G
  <2>4. CASE Return
    <3>1. reply'.kind = "Route" /\ reply'.duration = duration /\ pc' = "done"
      BY <2>4 DEF Return, Finish
    <3>. QED
      BY <1>1, <2>4, <3>1
      DEF Return, SearchInv, Arrived, Estimate, TypeInv, NodesKnown, G
  <2>. QED
    BY <2>1, <2>2, <2>3, <2>4
<1>. QED
  BY <1>2, <1>4, <1>5 DEF SearchInv

LEMMA SearchStep ==
    ASSUME TypeInv, Consistent(req), SearchInv, [Next]_vars
    PROVE  SearchInv'
<1>1. CASE UNCHANGED vars
  BY <1>1
  DEF vars, SearchInv, StartZero, OpenCovered, SettledFirst, CurrentLast,
      Offered, OfferedBy, Arrived, TreeInv, TightAt, Estimate, Entry, G, P
<1>. QED
  BY <1>1, StepBegin, StepPopStale, StepPopTarget, StepExpand, StepRelax,
     StepFinish DEF Next

LEMMA RequestKept == [Next]_vars => req' = req
BY DEF Next, vars, RejectEmptyGraph, RejectNode, Begin, PopStale, PopTarget,
       Expand, Relax, NoRoute, Backtrack, Return

LEMMA IInvStep == IInv /\ [Next]_vars => IInv'
BY TypeStep, SearchStep, RequestKept DEF IInv

(* What astar_search keeps hangs together as IInv says, for every request. *)
THEOREM SearchInvariant == Spec => []IInv
<1>1. Init => IInv
  BY TypeInit, SearchInit DEF IInv
<1>. QED
  BY <1>1, IInvStep, PTL DEF Spec

(* The tree the backtrack follows is made of legal exits and its costs add *)
(* up, whatever the graph, the restrictions and the ties in the heap.      *)
THEOREM TreeCorrect == Spec => []TreeIsTight
<1>1. IInv => TreeIsTight
  BY DEF IInv, SearchInv, TreeInv, TreeIsTight
<1>. QED
  BY <1>1, SearchInvariant, PTL

(* No step changes the cost of a settled label.                            *)
THEOREM SettledStays == Spec => SettledIsFinal
<1>1. ASSUME IInv, [Next]_vars
      PROVE  [Consistent(req) =>
                \A k \in settled :
                   k \in DOMAIN g_scores' /\ g_scores'[k] = g_scores[k]]_vars
  <2>. SUFFICES ASSUME Consistent(req), ~UNCHANGED vars, NEW k \in settled
                PROVE  k \in DOMAIN g_scores' /\ g_scores'[k] = g_scores[k]
    OBVIOUS
  <2>1. k \in DOMAIN g_scores
    BY <1>1 DEF IInv, TypeInv, TypeOK
  <2>2. ASSUME NEW i \in todo, Relax(i)
        PROVE  k \in DOMAIN g_scores' /\ g_scores'[k] = g_scores[k]
    <3>1. CASE UNCHANGED g_scores
      BY <2>1, <3>1
    <3>2. CASE /\ i \in exits(G, P, current.at)
               /\ Improves(HeadOf(G, i), current.g + edge_weight(G, P, i))
      <4>1. HeadOf(G, i) # k
        BY <1>1, <2>2, <3>2, NoSettledImproves DEF IInv, SearchInv
      <4>. QED
        BY <2>1, <2>2, <3>2, <4>1 DEF Relax, Takes, Offer, Record
    <3>. QED
      BY <2>2, <3>1, <3>2 DEF Relax, Takes
  <2>3. CASE Begin
    BY <1>1, <2>3, <2>1 DEF Begin, IInv, TypeInv, NodesKnown
  <2>. QED
    BY <1>1, <2>1, <2>2, <2>3
    DEF Next, RejectEmptyGraph, RejectNode, PopStale, PopTarget, Expand,
        NoRoute, Backtrack, Return
<1>. QED
  BY <1>1, SearchInvariant, PTL DEF Spec, SettledIsFinal

-----------------------------------------------------------------------------
(* Optimality: the driver of DriveAudit never beats the answer.            *)

LEMMA AuditInitial == AuditInit => AuditIInv
<1>. SUFFICES ASSUME AuditInit PROVE AuditIInv
  OBVIOUS
<1>1. IInv
  BY TypeInit, SearchInit DEF AuditInit, IInv
<1>2. at \in Label /\ spent \in Nat
  BY <1>1 DEF AuditInit, IInv, TypeInv, TypeOK, IsRequest, Start, Label
<1>. QED
  BY <1>1, <1>2
  DEF AuditInit, AuditIInv, DriverWaits, DriverBehind, Init, NoReply

(* When the search answers, the waiting driver is at the settled start.    *)
LEMMA DriverAtAnswer ==
    ASSUME IInv', Consistent(req)', pc' = "done",
           reply'.kind \in {"Route", "NoRoute"},
           at' = Start(req.source)', spent' = 0
    PROVE  DriverBehind'
<1>1. /\ Start(req.source)' \in DOMAIN g_scores'
      /\ g_scores'[Start(req.source)'] = 0
      /\ req'.target < G'.n
  BY DEF IInv, SearchInv, Arrived, StartZero
<1>2. CASE Start(req.source)' \in settled'
  BY <1>1, <1>2 DEF DriverBehind
<1>3. CASE Start(req.source)' \notin settled'
  BY <1>1, <1>3 DEF DriverBehind, IInv, SearchInv, Arrived, Estimate
<1>. QED
  BY <1>2, <1>3

LEMMA DriveKeepsBehind ==
    ASSUME AuditIInv, Consistent(req), NEW i \in DOMAIN G.edges, Drive(i)
    PROVE  DriverBehind'
<1>. SUFFICES ASSUME reply.kind \in {"Route", "NoRoute"}
              PROVE  \/ at' \in settled /\ g_scores[at'] <= spent'
                     \/ /\ reply.kind = "Route"
                        /\ duration <= spent' + heuristic(req, at'[1])
  BY DEF Drive, vars, DriverBehind
<1>. DEFINE w == edge_weight(G, P, i)
<1>1. /\ i \in exits(G, P, at)
      /\ at' = HeadOf(G, i)
      /\ spent' = spent + w
  BY DEF Drive
<1>2. /\ TypeInv
      /\ SearchInv
      /\ req.target < G.n
      /\ IsRequest(req)
      /\ at \in Label
      /\ spent \in Nat
      /\ duration \in Nat
      /\ todo = {}
  BY DEF AuditIInv, IInv, TypeInv, TypeOK, SearchInv, Arrived
<1>3. /\ w \in Nat
      /\ at' \in Label
      /\ heuristic(req, at[1]) \in Nat
      /\ heuristic(req, at'[1]) \in Nat
      /\ heuristic(req, at[1]) <= w + heuristic(req, at'[1])
      /\ heuristic(req, req.target) = 0
  BY <1>1, <1>2, EdgeFacts, ExitFacts, EstimateFacts DEF G, P
<1>4. ASSUME duration <= spent + heuristic(req, at[1])
      PROVE  duration <= spent' + heuristic(req, at'[1])
  <2>. HIDE DEF w
  <2>. QED
    BY <1>1, <1>2, <1>3, <1>4
<1>5. CASE at \in settled /\ g_scores[at] <= spent /\ at[1] # req.target
  <2>1. /\ at' \in DOMAIN g_scores
        /\ g_scores[at'] <= g_scores[at] + w
    BY <1>1, <1>2, <1>5 DEF SearchInv, Offered, OfferedBy
  <2>2. /\ g_scores[at] \in Nat
        /\ g_scores[at'] \in Nat
    BY <1>2, <1>5, <2>1 DEF TypeInv, TypeOK
  <2>3. g_scores[at'] <= spent'
    <3>. HIDE DEF w
    <3>. QED
      BY <1>1, <1>2, <1>3, <1>5, <2>1, <2>2
  <2>4. CASE at' \notin settled
    <3>1. reply.kind = "Route" /\ duration <= Estimate(at')
      BY <1>2, <2>1, <2>4 DEF SearchInv, Arrived
    <3>2. duration <= spent' + heuristic(req, at'[1])
      BY <1>1, <1>2, <1>3, <2>2, <2>3, <3>1 DEF Estimate
    <3>. QED
      BY <3>1, <3>2
  <2>. QED
    BY <2>3, <2>4
<1>6. CASE at \in settled /\ g_scores[at] <= spent /\ at[1] = req.target
  <2>1. reply.kind = "Route" /\ g_scores[at] = duration
    BY <1>2, <1>6 DEF SearchInv, Arrived
  <2>. QED
    BY <1>2, <1>3, <1>4, <1>6, <2>1
<1>7. CASE reply.kind = "Route" /\ duration <= spent + heuristic(req, at[1])
  BY <1>4, <1>7
<1>. QED
  BY <1>5, <1>6, <1>7 DEF AuditIInv, DriverBehind

LEMMA AuditStep == AuditIInv /\ [AuditNext]_auditVars => AuditIInv'
<1>. SUFFICES ASSUME AuditIInv, [AuditNext]_auditVars PROVE AuditIInv'
  OBVIOUS
<1>1. CASE Next /\ UNCHANGED <<at, spent>>
  <2>1. IInv' /\ req' = req
    BY <1>1, IInvStep, RequestKept DEF AuditIInv
  <2>2. CASE pc = "done"
    <3>. QED
      BY <1>1, <2>2
      DEF Next, RejectEmptyGraph, RejectNode, Begin, PopStale, PopTarget,
          Expand, Pop, Relax, NoRoute, Backtrack, Return
  <2>3. CASE pc # "done"
    <3>1. at' = Start(req.source)' /\ spent' = 0 /\ at' \in Label /\ spent' \in Nat
      BY <1>1, <2>1, <2>3 DEF AuditIInv, DriverWaits, Start
    <3>2. reply'.kind \in {"Route", "NoRoute"} /\ Consistent(req)' => pc' = "done"
      BY <2>1 DEF IInv, SearchInv, Arrived
    <3>3. Consistent(req)' => DriverBehind'
      BY <2>1, <3>1, <3>2, DriverAtAnswer DEF DriverBehind
    <3>. QED
      BY <2>1, <3>1, <3>3 DEF AuditIInv, DriverWaits
  <2>. QED
    BY <2>2, <2>3
<1>2. ASSUME NEW i \in DOMAIN G.edges, Drive(i) PROVE AuditIInv'
  <2>1. IInv' /\ req' = req /\ pc' = "done"
    BY <1>2, IInvStep DEF AuditIInv, Drive, vars
  <2>2. at' \in Label /\ spent' \in Nat
    BY <1>2, EdgeFacts DEF AuditIInv, IInv, TypeInv, TypeOK, Drive, G, P
  <2>3. Consistent(req)' => DriverBehind'
    BY <1>2, <2>1, DriveKeepsBehind
  <2>. QED
    BY <2>1, <2>2, <2>3 DEF AuditIInv, DriverWaits
<1>3. CASE UNCHANGED auditVars
  <2>1. UNCHANGED vars /\ UNCHANGED <<at, spent>>
    BY <1>3 DEF auditVars
  <2>2. IInv'
    BY <2>1, IInvStep DEF AuditIInv
  <2>. QED
    BY <2>1, <2>2 DEF vars, AuditIInv, DriverWaits, DriverBehind
<1>. QED
  BY <1>1, <1>2, <1>3 DEF AuditNext

(* For every graph, profile, set of turn restrictions and request with a   *)
(* consistent heuristic, the route returned is at least as quick as any    *)
(* drive that obeys the restrictions, and NoRoute means there is none.     *)
THEOREM Optimal == AuditSpec => []NoFasterDrive
<1>1. AuditIInv => NoFasterDrive
  <2>. SUFFICES ASSUME AuditIInv, Consistent(req),
                       reply.kind \in {"Route", "NoRoute"}, at[1] = req.target
                PROVE  reply.kind = "Route" /\ reply.duration <= spent
    BY DEF NoFasterDrive
  <2>1. SearchInv /\ TypeInv /\ req.target < G.n /\ spent \in Nat
    BY DEF AuditIInv, IInv, SearchInv, Arrived
  <2>2. heuristic(req, at[1]) = 0
    BY <2>1, EstimateFacts
  <2>3. reply.kind = "Route" => reply.duration = duration
    BY <2>1 DEF SearchInv, Arrived
  <2>4. CASE at \in settled /\ g_scores[at] <= spent
    BY <2>1, <2>3, <2>4 DEF SearchInv, Arrived
  <2>5. CASE reply.kind = "Route" /\ duration <= spent + heuristic(req, at[1])
    BY <2>1, <2>2, <2>3, <2>5
  <2>. QED
    BY <2>4, <2>5 DEF AuditIInv, DriverBehind
<1>. QED
  BY <1>1, AuditInitial, AuditStep, PTL DEF AuditSpec

-----------------------------------------------------------------------------
(* Refinement: the search keeps the promise of RoutePlanner.               *)

LEMMA TraceInitial == Init => StartFirst /\ Backed
BY DEF Init, StartFirst, Backed

LEMMA TraceStep ==
    ASSUME IInv, Consistent(req), StartFirst, Backed, [Next]_vars
    PROVE  StartFirst' /\ Backed'
<1>1. CASE UNCHANGED vars
  BY <1>1 DEF vars, StartFirst, Backed
<1>2. CASE RejectEmptyGraph \/ RejectNode \/ NoRoute
  BY <1>2 DEF RejectEmptyGraph, RejectNode, NoRoute, Finish, StartFirst, Backed
<1>3. CASE Begin
  <2>1. settled = {}
    BY <1>3 DEF Begin, IInv, TypeInv, TypeOK, NodesKnown
  <2>. QED
    BY <1>3, <2>1 DEF Begin, StartFirst, Backed
<1>4. ASSUME NEW e \in heap, Pop(e)
      PROVE  StartFirst' \/ req' # req
  <2>1. e.at \in DOMAIN g_scores
    BY <1>4 DEF IInv, TypeInv, HeapSound
  <2>. QED
    BY <1>4, <2>1 DEF Pop, StartFirst
<1>5. ASSUME NEW e \in heap, PopStale(e) \/ Expand(e) PROVE StartFirst' /\ Backed'
  <2>1. StartFirst'
    BY <1>4, <1>5 DEF PopStale, Expand
  <2>2. Backed'
    BY <1>5 DEF PopStale, Expand, Pop, Backed
  <2>. QED
    BY <2>1, <2>2
<1>6. ASSUME NEW e \in heap, PopTarget(e) PROVE StartFirst' /\ Backed'
  <2>1. StartFirst'
    BY <1>4, <1>6 DEF PopTarget
  <2>2. /\ path' = <<>> /\ cursor' = e.at /\ e.at[1] = req.target /\ req' = req
        /\ e.at \in settled' /\ pc' = "backtrack"
    BY <1>6 DEF PopTarget, Pop, Backed
  <2>. DEFINE ks == [j \in 1 .. Len(path') + 1 |-> e.at]
  <2>3. Len(path') = 0
    BY <2>2
  <2>4. ks \in [1 .. Len(path') + 1 -> settled'] /\ ks[1] = e.at /\ ks[Len(path') + 1] = e.at
    BY <2>2, <2>3
  <2>. HIDE DEF ks
  <2>5. Backed'
    BY <2>2, <2>3, <2>4 DEF Backed
  <2>. QED
    BY <2>1, <2>5
<1>7. ASSUME NEW i \in todo, Relax(i) PROVE StartFirst' /\ Backed'
  <2>1. Start(req.source) \in settled
    BY <1>7 DEF Relax, StartFirst, IInv, SearchInv, CurrentLast
  <2>. QED
    BY <1>7, <2>1 DEF Relax, StartFirst, Backed
<1>8. CASE Backtrack
  <2>1. StartFirst'
    BY <1>8 DEF Backtrack, Finish, StartFirst
  <2>2. PICK ks \in [1 .. Len(path) + 1 -> settled] :
             /\ ks[1][1] = req.target
             /\ ks[Len(path) + 1] = cursor
             /\ \A j \in 1 .. Len(path) :
                   /\ ks[j][1] = path[j]
                   /\ path[j] # req.source
                   /\ prev[ks[j]] = ks[j + 1]
    BY <1>8 DEF Backtrack, Backed
  <2>3. TightAt(cursor)
    BY <1>8 DEF Backtrack, IInv, SearchInv, TreeInv, Arrived, TypeInv, TypeOK, Start
  <2>4. /\ path' = Append(path, cursor[1]) /\ cursor' = prev[cursor] /\ cursor' \in settled
        /\ cursor[1] # req.source /\ pc' = "backtrack"
        /\ UNCHANGED <<req, settled, prev, g_scores>>
    BY <1>8, <2>3 DEF Backtrack, TightAt
  <2>5. path \in Seq(Nat) /\ cursor[1] \in Nat /\ Len(path) \in Nat
    BY DEF IInv, TypeInv, TypeOK, Label
  <2>6. /\ Len(path') = Len(path) + 1
        /\ \A j \in 1 .. Len(path) : path'[j] = path[j]
        /\ path'[Len(path) + 1] = cursor[1]
    BY <2>4, <2>5
  <2>. DEFINE n == Len(path)
              hs == [j \in 1 .. n + 2 |-> IF j = n + 2 THEN cursor' ELSE ks[j]]
  <2>7. hs \in [1 .. n + 2 -> settled] /\ \A j \in 1 .. n + 1 : hs[j] = ks[j]
    BY <2>4, <2>5
  <2>8. hs[n + 2] = cursor'
    BY <2>5
  <2>. HIDE DEF hs
  <2>9. ASSUME NEW j \in 1 .. n + 1
        PROVE  /\ hs[j][1] = path'[j]
               /\ path'[j] # req.source
               /\ prev[hs[j]] = hs[j + 1]
    <3>1. CASE j = n + 1
      BY <2>2, <2>4, <2>5, <2>6, <2>7, <2>8, <3>1
    <3>2. CASE j # n + 1
      <4>1. j \in 1 .. n /\ j + 1 \in 1 .. n + 1
        BY <2>5, <3>2
      <4>. QED
        BY <2>2, <2>6, <2>7, <4>1
    <3>. QED
      BY <3>1, <3>2
  <2>10. hs[1][1] = req.target
    BY <2>2, <2>5, <2>7
  <2>11. n + 2 = Len(path') + 1
    BY <2>5, <2>6
  <2>12. Backed'
    BY <2>4, <2>5, <2>6, <2>7, <2>8, <2>9, <2>10, <2>11 DEF Backed
  <2>. QED
    BY <2>1, <2>12
<1>9. CASE Return
  BY <1>9 DEF Return, Finish, StartFirst, Backed
<1>. QED
  BY <1>1, <1>2, <1>3, <1>5, <1>6, <1>7, <1>8, <1>9 DEF Next

LEMMA PlanInvStep == PlanInv /\ [Next]_vars => PlanInv'
BY IInvStep, RequestKept, TraceStep DEF PlanInv

(* What has been found of a label when drivers can be there at this cost:  *)
(* it is settled at least as cheaply, or they cannot beat the route.       *)
Met(k, c) ==
    \/ k \in settled /\ g_scores[k] <= c
    \/ duration <= c + heuristic(req, k[1])

LEMMA MetOnward ==
    ASSUME IInv, Consistent(req), pc = "backtrack",
           NEW k \in Label, NEW c \in Nat, Met(k, c), NEW i \in exits(G, P, k)
    PROVE  Met(HeadOf(G, i), c + edge_weight(G, P, i))
<1>. DEFINE w == edge_weight(G, P, i)
            l == HeadOf(G, i)
<1>1. /\ TypeInv /\ SearchInv /\ req.target < G.n /\ IsRequest(req)
      /\ duration \in Nat /\ todo = {}
  BY DEF IInv, TypeInv, TypeOK, NodesKnown, SearchInv, Arrived
<1>2. i \in DOMAIN G.edges
  BY DEF exits, outgoing_edges
<1>3. /\ w \in Nat /\ l \in Label
      /\ heuristic(req, k[1]) \in Nat
      /\ heuristic(req, l[1]) \in Nat
      /\ heuristic(req, k[1]) <= w + heuristic(req, l[1])
      /\ heuristic(req, req.target) = 0
  BY <1>1, <1>2, EdgeFacts, ExitFacts, EstimateFacts DEF G, P
<1>. HIDE DEF w
<1>4. CASE duration <= c + heuristic(req, k[1])
  <2>1. duration <= (c + w) + heuristic(req, l[1])
    <3>. HIDE DEF l
    <3>. QED
      BY <1>1, <1>3, <1>4
  <2>. QED
    BY <2>1 DEF Met, w
<1>5. CASE k \in settled /\ g_scores[k] <= c /\ k[1] # req.target
  <2>1. l \in DOMAIN g_scores /\ g_scores[l] <= g_scores[k] + w
    BY <1>1, <1>5 DEF SearchInv, Offered, OfferedBy, w
  <2>2. g_scores[k] \in Nat /\ g_scores[l] \in Nat
    BY <1>1, <1>5, <2>1 DEF TypeInv, TypeOK
  <2>3. g_scores[l] <= c + w
    <3>. HIDE DEF l
    <3>. QED
      BY <1>3, <1>5, <2>1, <2>2
  <2>4. l \notin settled => duration <= g_scores[l] + heuristic(req, l[1])
    BY <1>1, <2>1 DEF SearchInv, Arrived, Estimate
  <2>5. l \notin settled => duration <= (c + w) + heuristic(req, l[1])
    <3>. HIDE DEF l
    <3>. QED
      BY <1>1, <1>3, <2>2, <2>3, <2>4
  <2>. QED
    BY <2>3, <2>5 DEF Met, w
<1>6. CASE k \in settled /\ g_scores[k] <= c /\ k[1] = req.target
  <2>1. g_scores[k] = duration
    BY <1>1, <1>6 DEF SearchInv, Arrived
  <2>2. duration <= c + heuristic(req, k[1])
    BY <1>1, <1>3, <1>6, <2>1
  <2>. QED
    BY <1>4, <2>2
<1>. QED
  BY <1>4, <1>5, <1>6 DEF Met

(* When the target is popped, no drive to it is cheaper than the duration  *)
(* about to be returned.                                                   *)
LEMMA NoDriveBeats ==
    ASSUME IInv, Consistent(req), pc = "backtrack"
    PROVE  \A c \in CostsTo(G, P, req.source, req.target) : c \in Nat /\ duration <= c
<1>. DEFINE s == req.source
            least == LeastCosts(G, P, s)
            S == {d \in Label \X Nat : Met(d[1], d[2])}
<1>1. /\ TypeInv /\ SearchInv /\ req.target < G.n /\ duration \in Nat
      /\ IsGraph(G) /\ IsProfile(P) /\ s \in Nat /\ Start(s) \in Label
      /\ Start(s) \in DOMAIN g_scores /\ g_scores[Start(s)] = 0
  BY DEF IInv, TypeInv, TypeOK, NodesKnown, IsRequest, G, P, SearchInv, StartZero
<1>2. heuristic(req, req.target) = 0
  BY <1>1, EstimateFacts
<1>3. Met(Start(s), 0)
  BY <1>1 DEF SearchInv, Arrived, Estimate, Met
<1>4. <<Start(s), 0>> \in S
  BY <1>1, <1>3
<1>5. ASSUME NEW k \in Label, NEW c \in Nat, NEW i \in exits(G, P, k), <<k, c>> \in S
      PROVE  <<HeadOf(G, i), c + edge_weight(G, P, i)>> \in S
  <2>1. i \in DOMAIN req.graph.edges /\ IsRequest(req)
    BY <1>1 DEF exits, outgoing_edges, G, TypeInv, TypeOK
  <2>2. HeadOf(G, i) \in Label /\ edge_weight(G, P, i) \in Nat
    BY <2>1, EdgeFacts DEF G, P
  <2>3. Met(HeadOf(G, i), c + edge_weight(G, P, i))
    BY <1>5, MetOnward
  <2>. QED
    BY <2>2, <2>3
<1>. HIDE DEF S
<1>6. \A k \in DOMAIN least : <<k, least[k]>> \in S
  BY <1>1, <1>4, <1>5, LeastCostsByDriving
<1>7. \A k \in DOMAIN least : least[k] \in Nat
  BY <1>1, LeastCostsClose
<1>. HIDE DEF least
<1>8. ASSUME NEW k \in DOMAIN least, k[1] = req.target PROVE duration <= least[k]
  <2>1. Met(k, least[k])
    BY <1>6 DEF S
  <2>2. CASE k \in settled /\ g_scores[k] <= least[k]
    BY <1>1, <1>8, <2>2 DEF SearchInv, Arrived
  <2>3. CASE duration <= least[k] + heuristic(req, k[1])
    BY <1>2, <1>7, <1>8, <2>3
  <2>. QED
    BY <2>1, <2>2, <2>3 DEF Met
<1>. QED
  BY <1>7, <1>8 DEF CostsTo, least

(* When the heap runs empty, no drive reaches the target.                  *)
LEMMA NoDriveThere ==
    ASSUME IInv, Consistent(req), NoRoute
    PROVE  CostsTo(G, P, req.source, req.target) = {}
<1>. DEFINE s == req.source
            least == LeastCosts(G, P, s)
            S == settled \X Nat
<1>1. /\ TypeInv /\ SearchInv /\ pc = "search" /\ todo = {} /\ heap = {}
      /\ IsGraph(G) /\ IsProfile(P) /\ s \in Nat
      /\ Start(s) \in DOMAIN g_scores
  BY DEF NoRoute, IInv, TypeInv, TypeOK, NodesKnown, IsRequest, G, P
<1>2. \A k \in DOMAIN g_scores : k \in settled
  BY <1>1 DEF SearchInv, OpenCovered
<1>3. <<Start(s), 0>> \in S
  BY <1>1, <1>2
<1>4. ASSUME NEW k \in Label, NEW c \in Nat, NEW i \in exits(G, P, k), <<k, c>> \in S
      PROVE  <<HeadOf(G, i), c + edge_weight(G, P, i)>> \in S
  <2>1. i \in DOMAIN req.graph.edges /\ IsRequest(req)
    BY <1>1 DEF exits, outgoing_edges, G, TypeInv, TypeOK
  <2>2. edge_weight(G, P, i) \in Nat
    BY <2>1, EdgeFacts DEF G, P
  <2>3. k \in settled /\ k[1] # req.target
    BY <1>1, <1>4 DEF SearchInv, Arrived
  <2>4. HeadOf(G, i) \in settled
    BY <1>1, <1>2, <2>3 DEF SearchInv, Offered, OfferedBy
  <2>. QED
    BY <2>2, <2>4
<1>. HIDE DEF S
<1>5. \A k \in DOMAIN least : <<k, least[k]>> \in S
  BY <1>1, <1>3, <1>4, LeastCostsByDriving
<1>6. \A k \in DOMAIN least : k[1] # req.target
  BY <1>1, <1>5 DEF S, SearchInv, Arrived
<1>. QED
  BY <1>6 DEF CostsTo

(* The node the backtrack ends at was settled at no cost.                  *)
LEMMA BackAtNoCost ==
    ASSUME IInv, Consistent(req), StartFirst, Backed,
           pc = "backtrack", cursor[1] = req.source
    PROVE  g_scores[cursor] = 0
<1>1. /\ TypeInv /\ SearchInv /\ todo = {} /\ cursor \in settled /\ duration \in Nat
      /\ IsRequest(req) /\ g_scores[cursor] \in Nat /\ path \in Seq(Nat)
  BY DEF IInv, TypeInv, TypeOK, SearchInv, Arrived
<1>2. /\ Start(req.source) \in settled /\ g_scores[Start(req.source)] = 0
      /\ Start(req.source)[1] = req.source
  BY <1>1 DEF StartFirst, SearchInv, StartZero, TypeInv, TypeOK, Start
<1>3. PICK ks \in [1 .. Len(path) + 1 -> settled] :
         /\ ks[1][1] = req.target
         /\ ks[Len(path) + 1] = cursor
         /\ \A j \in 1 .. Len(path) :
               /\ ks[j][1] = path[j]
               /\ path[j] # req.source
               /\ prev[ks[j]] = ks[j + 1]
  BY DEF Backed
<1>4. CASE Len(path) = 0
  <2>1. cursor[1] = req.target
    BY <1>3, <1>4
  <2>. QED
    BY <1>1, <1>2, <2>1 DEF SearchInv, Arrived
<1>5. CASE Len(path) # 0
  <2>. DEFINE n == Len(path)
              l == ks[n]
  <2>1. n \in Nat \ {0} /\ n \in 1 .. n /\ 1 \in 1 .. n /\ n \in 1 .. n + 1
    BY <1>1, <1>5
  <2>2. /\ l \in settled /\ l[1] # req.source /\ prev[l] = cursor /\ req.source # req.target
    BY <1>3, <2>1
  <2>3. TightAt(l)
    BY <1>1, <1>2, <2>2 DEF SearchInv, TreeInv, TypeInv, TypeOK
  <2>4. PICK i \in exits(G, P, cursor) :
           HeadOf(G, i) = l /\ g_scores[l] = g_scores[cursor] + edge_weight(G, P, i)
    BY <2>2, <2>3 DEF TightAt
  <2>. HIDE DEF l
  <2>5. i \in exits(G, P, Start(req.source))
    BY <2>4, StartMayTakeAny
  <2>6. g_scores[l] <= g_scores[Start(req.source)] + edge_weight(G, P, i)
    BY <1>1, <1>2, <2>2, <2>4, <2>5 DEF SearchInv, Offered, OfferedBy
  <2>7. edge_weight(G, P, i) \in Nat
    BY <1>1, EdgeFacts DEF exits, outgoing_edges, G, P
  <2>. QED
    BY <1>1, <1>2, <2>4, <2>6, <2>7
<1>. QED
  BY <1>4, <1>5

(* A path walked back over from the target is reversed at the end.         *)
LEMMA BackToFront ==
    ASSUME NEW back, back \in Seq(Nat), NEW u \in Nat,
           NEW ks \in [1 .. Len(back) + 1 -> Label], ks[Len(back) + 1][1] = u,
           \A j \in 1 .. Len(back) : ks[j][1] = back[j]
    PROVE  LET n     == Len(back)
               there == Reversed(Append(back, u))
           IN  /\ there \in Seq(Nat) /\ Len(there) = n + 1
               /\ \A j \in 1 .. n + 1 : n + 2 - j \in 1 .. n + 1 /\ there[j] = ks[n + 2 - j][1]
<1>. DEFINE n == Len(back)
            whole == Append(back, u)
            there == Reversed(whole)
<1>1. /\ n \in Nat /\ whole \in Seq(Nat) /\ Len(whole) = n + 1 /\ whole[n + 1] = u
      /\ \A j \in 1 .. n : whole[j] = back[j]
  OBVIOUS
<1>2. \A j \in 1 .. n + 1 : whole[j] = ks[j][1] /\ whole[j] \in Nat
  <2>. SUFFICES ASSUME NEW j \in 1 .. n + 1 PROVE whole[j] = ks[j][1] /\ whole[j] \in Nat
    OBVIOUS
  <2>1. CASE j = n + 1
    BY <1>1, <2>1
  <2>2. CASE j # n + 1
    <3>1. j \in 1 .. n /\ back[j] \in Nat
      BY <1>1, <2>2
    <3>. QED
      BY <1>1, <3>1
  <2>. QED
    BY <2>1, <2>2
<1>. HIDE DEF whole
<1>3. \A j \in 1 .. n + 1 : n + 2 - j \in 1 .. n + 1 /\ whole[n + 2 - j] \in Nat
  BY <1>1, <1>2
<1>4. there = [j \in 1 .. n + 1 |-> whole[n + 2 - j]]
  <2>1. Len(whole) + 1 = n + 2
    BY <1>1
  <2>. QED
    BY <1>1, <2>1 DEF Reversed
<1>. HIDE DEF there
<1>5. there \in [1 .. n + 1 -> Nat] /\ \A j \in 1 .. n + 1 : there[j] = whole[n + 2 - j]
  BY <1>3, <1>4
<1>6. there \in Seq(Nat) /\ Len(there) = n + 1
  <2>1. PICK m \in Nat : m = n + 1
    BY <1>1
  <2>2. there \in [1 .. m -> Nat]
    BY <1>5, <2>1
  <2>3. there \in Seq(Nat) /\ Len(there) = m
    BY <2>2
  <2>. QED
    BY <2>1, <2>3
<1>. QED
  BY <1>2, <1>3, <1>5, <1>6 DEF there, whole

(* The nodes walked back over, in the order of the drive, can be driven    *)
(* for exactly the duration.                                               *)
LEMMA PathIsDriven ==
    ASSUME IInv, Consistent(req), StartFirst, Backed,
           pc = "backtrack", cursor[1] = req.source,
           NEW back, back = Append(path, cursor[1])
    PROVE  LET there == Reversed(back)
           IN  /\ there \in Seq(Nat) /\ there # <<>>
               /\ there[1] = req.source /\ there[Len(there)] = req.target
               /\ Drivable(G, P, there, duration)
               /\ \E hs, c : Chain(G, P, there, hs, c) /\ c[Len(there)] = duration
<1>. DEFINE n == Len(path)
            there == Reversed(back)
<1>1. /\ TypeInv /\ SearchInv /\ IsRequest(req) /\ path \in Seq(Nat) /\ n \in Nat
      /\ cursor[1] \in Nat /\ settled \subseteq Label
      /\ \A k \in settled : k \in DOMAIN g_scores /\ g_scores[k] \in Nat
  BY DEF IInv, TypeInv, TypeOK, Label
<1>2. PICK ks \in [1 .. n + 1 -> settled] :
         /\ ks[1][1] = req.target
         /\ ks[n + 1] = cursor
         /\ \A j \in 1 .. n :
               /\ ks[j][1] = path[j]
               /\ path[j] # req.source
               /\ prev[ks[j]] = ks[j + 1]
  BY DEF Backed
<1>5. /\ there \in Seq(Nat) /\ Len(there) = n + 1
      /\ \A j \in 1 .. n + 1 : n + 2 - j \in 1 .. n + 1 /\ there[j] = ks[n + 2 - j][1]
  <2>1. ks \in [1 .. n + 1 -> Label]
    BY <1>1, <1>2
  <2>. QED
    BY <1>1, <1>2, <2>1, BackToFront
<1>. HIDE DEF there
<1>. DEFINE hs == [j \in 1 .. n + 1 |-> ks[n + 2 - j]]
            c == [j \in 1 .. n + 1 |-> g_scores[ks[n + 2 - j]]]
<1>6. \A j \in 1 .. n + 1 : /\ hs[j] = ks[n + 2 - j] /\ hs[j] \in settled
                           /\ c[j] = g_scores[hs[j]] /\ there[j] = hs[j][1]
  <2>. SUFFICES ASSUME NEW j \in 1 .. n + 1
                PROVE  /\ hs[j] = ks[n + 2 - j] /\ hs[j] \in settled
                       /\ c[j] = g_scores[hs[j]] /\ there[j] = hs[j][1]
    OBVIOUS
  <2>1. hs[j] = ks[n + 2 - j] /\ c[j] = g_scores[ks[n + 2 - j]]
    OBVIOUS
  <2>2. n + 2 - j \in 1 .. n + 1 /\ there[j] = ks[n + 2 - j][1]
    BY <1>5
  <2>3. ks[n + 2 - j] \in settled
    BY <1>2, <2>2
  <2>. HIDE DEF hs, c
  <2>. QED
    BY <2>1, <2>2, <2>3
<1>7. /\ hs \in [1 .. n + 1 -> Label] /\ c \in [1 .. n + 1 -> Nat]
  BY <1>1, <1>6
<1>8. hs[1] = cursor /\ hs[n + 1] = ks[1] /\ 1 \in 1 .. n + 1 /\ n + 1 \in 1 .. n + 1
  <2>1. n + 2 - 1 = n + 1 /\ n + 2 - (n + 1) = 1 /\ 1 \in 1 .. n + 1 /\ n + 1 \in 1 .. n + 1
    BY <1>1
  <2>. QED
    BY <1>2, <1>6, <2>1
<1>. HIDE DEF hs, c
<1>9. ASSUME NEW j \in 1 .. n
      PROVE  \E i \in exits(G, P, hs[j]) :
                HeadOf(G, i) = hs[j + 1] /\ c[j + 1] = c[j] + edge_weight(G, P, i)
  <2>. DEFINE m == n + 1 - j
  <2>1. /\ m \in 1 .. n /\ m \in 1 .. n + 1 /\ m + 1 = n + 2 - j /\ m = n + 2 - (j + 1)
        /\ j \in 1 .. n + 1 /\ j + 1 \in 1 .. n + 1
    BY <1>1
  <2>2. hs[j] = ks[m + 1] /\ hs[j + 1] = ks[m]
    BY <1>6, <2>1
  <2>3. ks[m][1] # req.source /\ prev[ks[m]] = ks[m + 1] /\ ks[m] \in settled
    BY <1>2, <2>1
  <2>4. ks[m] \in DOMAIN g_scores \ {Start(req.source)}
    BY <1>1, <2>3 DEF Start
  <2>5. TightAt(ks[m])
    BY <1>1, <2>4 DEF SearchInv, TreeInv
  <2>. QED
    BY <1>6, <2>1, <2>2, <2>3, <2>5 DEF TightAt
<1>10. c[1] = 0 /\ c[n + 1] = duration
  <2>1. g_scores[cursor] = 0
    BY BackAtNoCost
  <2>2. g_scores[ks[1]] = duration
    BY <1>1, <1>2, <1>6, <1>8 DEF SearchInv, Arrived
  <2>. QED
    BY <1>6, <1>8, <2>1, <2>2
<1>11. Chain(G, P, there, hs, c)
  <2>1. (n + 1) - 1 = n
    BY <1>1
  <2>. QED
    BY <1>5, <1>6, <1>7, <1>9, <1>10, <2>1 DEF Chain
<1>12. there # <<>>
  BY <1>1, <1>5
<1>13. Drivable(G, P, there, c[n + 1])
  <2>1. IsGraph(G) /\ IsProfile(P)
    BY <1>1 DEF IsRequest, G, P
  <2>. QED
    BY <1>5, <1>11, <1>12, <2>1, ChainsAreDrivable
<1>14. there[1] = req.source /\ there[n + 1] = req.target
  BY <1>2, <1>6, <1>8
<1>. QED
  BY <1>5, <1>10, <1>11, <1>12, <1>13, <1>14 DEF there

(* RoutePlanner reads the road graph with the same definitions.            *)
LEMMA SameExits ==
    ASSUME NEW g, NEW p
    PROVE  /\ \A k : Planner!exits(g, p, k) = exits(g, p, k)
           /\ \A i : Planner!edge_weight(g, p, i) = edge_weight(g, p, i)
           /\ \A i : Planner!HeadOf(g, i) = HeadOf(g, i)
           /\ \A u : Planner!Start(u) = Start(u)
<1>1. \A c : Planner!pace_of_class(p, c) = pace_of_class(p, c)
  BY DEF Planner!pace_of_class, pace_of_class
<1>2. \A i : Planner!edge_weight(g, p, i) = edge_weight(g, p, i)
  BY <1>1 DEF Planner!edge_weight, edge_weight
<1>3. \A i : Planner!usable(g, p, i) = usable(g, p, i)
  BY <1>1 DEF Planner!usable, usable
<1>4. \A u, v, w : Planner!turn_is_banned(g, u, v, w) = turn_is_banned(g, u, v, w)
  BY DEF Planner!turn_is_banned, turn_is_banned
<1>5. \A u : Planner!outgoing_edges(g, u) = outgoing_edges(g, u)
  BY DEF Planner!outgoing_edges, outgoing_edges
<1>6. \A k : Planner!exits(g, p, k) = exits(g, p, k)
  BY <1>3, <1>4, <1>5 DEF Planner!exits, exits
<1>. QED
  BY <1>2, <1>6 DEF Planner!HeadOf, HeadOf, Planner!Start, Start

LEMMA SameCosts ==
    ASSUME NEW g, NEW p, NEW s, NEW t
    PROVE  Planner!CostsTo(g, p, s, t) = CostsTo(g, p, s, t)
<1>1. \A X : Planner!Cheapest(X) = Cheapest(X)
  BY DEF Planner!Cheapest, Cheapest
<1>2. \A r, X : Planner!Further(r, X) = Further(r, X)
  BY DEF Planner!Further, Further
<1>3. \A x, r : Planner!CheapestDrives(x, r) = CheapestDrives(x, r)
  BY <1>1, <1>2 DEF Planner!CheapestDrives, CheapestDrives
<1>4. \A x, r : Planner!LeastCostsOver(x, r) = LeastCostsOver(x, r)
  <2>1. \A X : Planner!Cardinality(X) = Cardinality(X)
    BY DEF Planner!Cardinality, Cardinality
  <2>. SUFFICES ASSUME NEW x, NEW r
                PROVE  Planner!LeastCostsOver(x, r) = LeastCostsOver(x, r)
    OBVIOUS
  <2>. DEFINE final == CheapestDrives(x, r)[Cardinality(DOMAIN r) - 1]
  <2>2. Planner!CheapestDrives(x, r)[Planner!Cardinality(DOMAIN r) - 1] = final
    BY <1>3, <2>1
  <2>. HIDE DEF final
  <2>3. Planner!LeastCostsOver(x, r) =
          [k \in {d[1] : d \in final} |-> (CHOOSE d \in final : d[1] = k)[2]]
    BY <2>2 DEF Planner!LeastCostsOver
  <2>. QED
    BY <2>3 DEF LeastCostsOver, final
<1>5. Planner!LabelsFrom(g, s) = LabelsFrom(g, s)
  BY SameExits DEF Planner!LabelsFrom, LabelsFrom
<1>6. Planner!RoadsFrom(g, p, s) = RoadsFrom(g, p, s)
  BY <1>5, SameExits DEF Planner!RoadsFrom, RoadsFrom
<1>7. Planner!LeastCosts(g, p, s) = LeastCosts(g, p, s)
  BY <1>4, <1>6, SameExits DEF Planner!LeastCosts, LeastCosts
<1>. QED
  BY <1>7 DEF Planner!CostsTo, CostsTo

LEMMA SameDrives ==
    ASSUME NEW g, NEW p, NEW ns, NEW c
    PROVE  Planner!Drivable(g, p, ns, c) = Drivable(g, p, ns, c)
<1>. DEFINE Theirs(X, u) ==
               UNION {{<<Planner!HeadOf(g, i), d[2] + Planner!edge_weight(g, p, i)>> :
                          i \in {x \in Planner!exits(g, p, d[1]) : g.edges[x].to = u}} : d \in X}
            Ours(X, u) ==
               UNION {{<<HeadOf(g, i), d[2] + edge_weight(g, p, i)>> :
                          i \in {x \in exits(g, p, d[1]) : g.edges[x].to = u}} : d \in X}
<1>0. /\ \A k : Planner!exits(g, p, k) = exits(g, p, k)
      /\ \A i : Planner!edge_weight(g, p, i) = edge_weight(g, p, i)
      /\ \A i : Planner!HeadOf(g, i) = HeadOf(g, i)
      /\ \A u : Planner!Start(u) = Start(u)
  BY SameExits
<1>a. \A X, u : Theirs(X, u) = Ours(X, u)
  BY <1>0
<1>. HIDE DEF Theirs, Ours
<1>b. \A f : [j \in Nat |-> IF j <= 1 THEN {<<Planner!Start(ns[1]), 0>>} ELSE Theirs(f[j - 1], ns[j])]
           = [j \in Nat |-> IF j <= 1 THEN {<<Start(ns[1]), 0>>} ELSE Ours(f[j - 1], ns[j])]
  BY <1>0, <1>a
<1>1. Planner!DrivesAlong(g, p, ns) = DrivesAlong(g, p, ns)
  BY <1>b DEF Planner!DrivesAlong, DrivesAlong, Theirs, Ours
<1>. QED
  BY <1>1 DEF Planner!Drivable, Drivable

(* The three kinds of answer, each the one RoutePlanner asks for.          *)
LEMMA ErrorIsRight ==
    ASSUME PlanInv, RejectEmptyGraph \/ RejectNode
    PROVE  Planner!Answer
<1>1. G.n \in Nat /\ req.source \in Nat /\ req.target \in Nat /\ reply = NoReply /\ req' = req
  BY DEF PlanInv, IInv, TypeInv, TypeOK, NodesKnown, IsRequest, IsGraph, G,
         RejectEmptyGraph, RejectNode
<1>2. CASE RejectEmptyGraph
  <2>1. reply' = [kind |-> "EmptyGraph"] /\ G.n = 0
    BY <1>2 DEF RejectEmptyGraph, Finish
  <2>2. reply' # [kind |-> "none"]
    BY <2>1
  <2>. QED
    BY <1>1, <2>1, <2>2 DEF Planner!Answer, Planner!CorrectReply, Planner!NoReply, NoReply, G
<1>3. CASE RejectNode
  <2>. DEFINE lost == {u \in {req.source, req.target} : u >= G.n}
  <2>1. /\ reply'.kind = "NodeNotFound" /\ reply'.node \in lost /\ G.n > 0
    BY <1>1, <1>3 DEF RejectNode, Finish
  <2>2. reply' # [kind |-> "none"]
    BY <2>1
  <2>3. lost # {} /\ G.n # 0
    BY <1>1, <2>1
  <2>. QED
    BY <1>1, <2>1, <2>2, <2>3
    DEF Planner!Answer, Planner!CorrectReply, Planner!NoReply, NoReply, G
<1>. QED
  BY <1>2, <1>3

LEMMA NoRouteIsRight ==
    ASSUME PlanInv, Consistent(req), NoRoute
    PROVE  Planner!Answer
<1>1. /\ G.n \in Nat /\ req.source \in Nat /\ req.target \in Nat /\ reply = NoReply
      /\ req' = req /\ req.source < G.n /\ req.target < G.n
      /\ reply' = [kind |-> "NoRoute"]
  BY DEF PlanInv, IInv, TypeInv, TypeOK, NodesKnown, IsRequest, IsGraph, G, NoRoute, Finish
<1>2. Planner!CostsTo(G, P, req.source, req.target) = {}
  BY NoDriveThere, SameCosts DEF PlanInv
<1>3. G.n > 0 /\ G.n # 0 /\ {u \in {req.source, req.target} : u >= G.n} = {}
  BY <1>1
<1>4. reply' # [kind |-> "none"]
  BY <1>1
<1>. QED
  BY <1>1, <1>2, <1>3, <1>4
  DEF Planner!Answer, Planner!CorrectReply, Planner!NoReply, NoReply, G, P

LEMMA RouteIsRight ==
    ASSUME PlanInv, Consistent(req), Return
    PROVE  Planner!Answer
<1>. DEFINE s == req.source
            t == req.target
            costs == CostsTo(G, P, s, t)
            there == Reversed(path')
<1>1. /\ IInv /\ StartFirst /\ Backed /\ pc = "backtrack" /\ cursor[1] = s
      /\ path' = Append(path, cursor[1]) /\ req' = req
      /\ reply' = [kind |-> "Route", duration |-> duration, path |-> there]
  BY DEF PlanInv, Return, Finish
<1>2. /\ G.n \in Nat /\ s \in Nat /\ t \in Nat /\ reply = NoReply
      /\ s < G.n /\ t < G.n /\ IsGraph(G) /\ IsProfile(P) /\ duration \in Nat
  BY <1>1 DEF IInv, TypeInv, TypeOK, NodesKnown, IsRequest, IsGraph, G, P
<1>3. /\ there \in Seq(Nat) /\ there # <<>>
      /\ there[1] = s /\ there[Len(there)] = t
      /\ Drivable(G, P, there, duration)
  BY <1>1, PathIsDriven
<1>. HIDE DEF there
<1>4. \A c \in costs : c \in Nat /\ duration <= c
  BY <1>1, NoDriveBeats
<1>5. duration \in costs
  <2>. DEFINE least == LeastCosts(G, P, s)
  <2>1. PICK d \in DrivesAlong(G, P, there) : d[2] = duration
    BY <1>3 DEF Drivable
  <2>2. d[1][1] = t /\ d[1] \in DOMAIN least /\ least[d[1]] <= duration
    BY <1>2, <1>3, <2>1, DrivesCostAtLeast
  <2>. HIDE DEF least
  <2>3. least[d[1]] \in costs
    BY <2>2 DEF CostsTo, least
  <2>4. least[d[1]] = duration
    BY <1>2, <1>4, <2>2, <2>3
  <2>. QED
    BY <2>3, <2>4
<1>6. /\ Planner!CostsTo(G, P, s, t) = costs
      /\ Planner!Drivable(G, P, there, duration)
  BY <1>3, SameCosts, SameDrives
<1>. HIDE DEF costs
<1>7. /\ G.n > 0 /\ G.n # 0 /\ {u \in {s, t} : u >= G.n} = {} /\ costs # {}
  BY <1>2, <1>5
<1>8. reply' # [kind |-> "none"]
  BY <1>1
<1>9. /\ reply'.kind = "Route" /\ reply'.duration = duration /\ reply'.path = there
  BY <1>1
<1>10. Planner!CorrectReply(req, reply')
  BY <1>3, <1>4, <1>5, <1>6, <1>7, <1>9 DEF Planner!CorrectReply, G, P
<1>. QED
  BY <1>1, <1>2, <1>8, <1>10 DEF Planner!Answer, Planner!NoReply, NoReply

LEMMA PlanStep ==
    ASSUME PlanInv, Consistent(req), [Next]_vars
    PROVE  [Planner!Answer]_<<req, reply>>
<1>1. CASE UNCHANGED vars
  BY <1>1 DEF vars
<1>2. CASE Begin \/ \E e \in heap : PopStale(e) \/ PopTarget(e) \/ Expand(e)
  BY <1>2 DEF Begin, PopStale, PopTarget, Expand
<1>3. CASE \E i \in todo : Relax(i)
  BY <1>3 DEF Relax
<1>4. CASE Backtrack
  <2>1. cursor \in DOMAIN prev
    BY <1>4 DEF Backtrack, PlanInv, IInv, SearchInv, Arrived, TreeInv, TightAt,
                TypeInv, TypeOK, Start
  <2>. QED
    BY <1>4, <2>1 DEF Backtrack
<1>. QED
  BY <1>1, <1>2, <1>3, <1>4, ErrorIsRight, NoRouteIsRight, RouteIsRight DEF Next

(* Requests whose heuristic never overestimates: all of dijkstra's, and    *)
(* those of astar over edges no shorter than the straight line.            *)
ConsistentRequests == \A r \in Requests : Consistent(r)

(* astar_search implements RoutePlanner, for every graph, profile and turn *)
(* restrictions: one answer, an error for an unknown node, NoRoute exactly *)
(* when no legal drive exists, and otherwise the least cost of any legal   *)
(* drive with nodes that can be driven for just that cost.                 *)
THEOREM SearchImplementsPlanner ==
    ASSUME ConsistentRequests
    PROVE  Spec => AnswersCorrectly
<1>. DEFINE Inv == PlanInv /\ Consistent(req)
<1>1. Init => Inv
  BY TypeInit, SearchInit, TraceInitial DEF PlanInv, IInv, Init, ConsistentRequests
<1>2. Inv /\ [Next]_vars => Inv'
  BY PlanInvStep, RequestKept
<1>3. Init => Planner!Init
  BY DEF Init, Planner!Init, NoReply, Planner!NoReply
<1>4. Inv /\ [Next]_vars => [Planner!Answer]_<<req, reply>>
  BY PlanStep
<1>. HIDE DEF Inv
<1>. QED
  BY <1>1, <1>2, <1>3, <1>4, PTL DEF Spec, AnswersCorrectly, Planner!Spec

(* No edge is shorter than the straight line between its ends.             *)
StraightIsShortest(g) ==
    \A i \in DOMAIN g.edges :
        LET e == g.edges[i]
        IN  /\ e.from < g.n
            /\ e.to < g.n
            /\ g.pos[e.from] - g.pos[e.to] <= e.distance
            /\ g.pos[e.to] - g.pos[e.from] <= e.distance

(* dijkstra's zero heuristic never overestimates; nor does that of astar   *)
(* when no edge is shorter than the straight line: in the units of AStar   *)
(* no open class is quicker than the speed of the heuristic.               *)
LEMMA WhenConsistent ==
    ASSUME NEW r, IsRequest(r),
           r.astar => r.target < r.graph.n /\ StraightIsShortest(r.graph)
    PROVE  Consistent(r)
<1>. SUFFICES ASSUME NEW i \in DOMAIN r.graph.edges, usable(r.graph, r.profile, i)
              PROVE  heuristic(r, r.graph.edges[i].from)
                        <= edge_weight(r.graph, r.profile, i)
                             + heuristic(r, r.graph.edges[i].to)
  BY DEF Consistent
<1>. DEFINE e == r.graph.edges[i]
            w == edge_weight(r.graph, r.profile, i)
            pos == r.graph.pos
            pace == pace_of_class(r.profile, e.road_class)
<1>1. e \in Edge /\ w \in Nat
  BY EdgeFacts DEF IsRequest, IsGraph
<1>2. CASE ~r.astar
  BY <1>1, <1>2 DEF heuristic
<1>3. CASE r.astar
  <2>1. /\ e.from < r.graph.n /\ e.to < r.graph.n
        /\ pos[e.from] - pos[e.to] <= e.distance
        /\ pos[e.to] - pos[e.from] <= e.distance
    BY <1>3 DEF StraightIsShortest
  <2>2. /\ e.from \in Nat /\ e.to \in Nat /\ e.distance \in Nat /\ r.target \in Nat
        /\ r.graph.n \in Nat
    BY <1>1 DEF Edge, IsRequest, IsGraph
  <2>3. pos[e.from] \in Int /\ pos[e.to] \in Int /\ pos[r.target] \in Int
    <3>1. \A u \in Nat : u < r.graph.n => pos[u] \in Int
      BY <2>2 DEF IsRequest, IsGraph
    <3>. QED
      BY <1>3, <2>1, <2>2, <3>1
  <2>4. pace \in Nat /\ pace > 0
    BY DEF usable, pace_of_class, IsRequest, IsProfile
  <2>5. e.distance <= w
    <3>1. w = e.distance * pace
      BY DEF edge_weight
    <3>. HIDE DEF e, w, pace
    <3>2. \A d, q \in Nat : q > 0 => d <= d * q
      OBVIOUS
    <3>. QED
      BY <2>2, <2>4, <3>1, <3>2
  <2>6. \A x, y, z \in Int : \A d, v \in Nat :
            x - y <= d /\ y - x <= d /\ d <= v =>
              (IF x - z < 0 THEN -(x - z) ELSE x - z)
                 <= v + (IF y - z < 0 THEN -(y - z) ELSE y - z)
    OBVIOUS
  <2>7. (IF pos[e.from] - pos[r.target] < 0 THEN -(pos[e.from] - pos[r.target])
          ELSE pos[e.from] - pos[r.target])
           <= w + (IF pos[e.to] - pos[r.target] < 0 THEN -(pos[e.to] - pos[r.target])
                    ELSE pos[e.to] - pos[r.target])
    <3>. HIDE DEF e, w, pos
    <3>. QED
      BY <1>1, <2>1, <2>2, <2>3, <2>5, <2>6
  <2>. QED
    BY <1>3, <2>1, <2>7 DEF heuristic
<1>. QED
  BY <1>2, <1>3

(* dijkstra implements RoutePlanner whatever the requests.                 *)
THEOREM DijkstraImplementsPlanner ==
    ASSUME \A r \in Requests : ~r.astar
    PROVE  Spec => AnswersCorrectly
<1>1. ConsistentRequests
  BY WhenConsistent, RequestsAssumption DEF ConsistentRequests
<1>. QED
  BY <1>1, SearchImplementsPlanner

-----------------------------------------------------------------------------
(* The route told.                                                         *)

(* The first edge from a node to another, where there is one.              *)
LEMMA FirstBetween ==
    ASSUME NEW g, IsGraph(g), NEW u, NEW v, u < g.n,
           NEW i \in DOMAIN g.edges, g.edges[i].from = u, g.edges[i].to = v
    PROVE  /\ edge_between(g, u, v) # {}
           /\ \A x \in edge_between(g, u, v) :
                 x \in outgoing_edges(g, u) /\ g.edges[x].from = u /\ g.edges[x].to = v
<1>. DEFINE between == {x \in outgoing_edges(g, u) : g.edges[x].to = v}
            roads   == {x \in between : g.edges[x].way >= 0}
<1>1. i \in between
  BY DEF outgoing_edges
<1>2. \A x \in between : x \in DOMAIN g.edges /\ g.edges[x] \in Edge /\ g.edges[x].from = u
  BY DEF outgoing_edges, IsGraph
<1>3. roads = between
  BY <1>2 DEF Edge
<1>4. between \in SUBSET Nat
  <2>1. DOMAIN g.edges = 1 .. Len(g.edges) /\ Len(g.edges) \in Nat
    BY DEF IsGraph
  <2>. QED
    BY <1>2, <2>1
<1>5. edge_between(g, u, v) = {x \in between : \A k \in between : x <= k}
  BY <1>1, <1>3 DEF edge_between
<1>. HIDE DEF between, roads
<1>6. PICK c \in between : \A d \in between : c <= d
  BY <1>1, <1>4, LeastNatural
<1>7. \A x \in between : g.edges[x].to = v /\ x \in outgoing_edges(g, u)
  BY DEF between
<1>. QED
  BY <1>2, <1>5, <1>6, <1>7

(* The words of angle_to_maneuver for the angles between two legs on a     *)
(* line.                                                                   *)
LEMMA WordsOnALine ==
    ASSUME NEW g, NEW u, NEW v, NEW w,
           g.pos[u] \in Int, g.pos[v] \in Int, g.pos[w] \in Int,
           g.pos[u] # g.pos[v], g.pos[v] # g.pos[w]
    PROVE  detect_maneuver(g, u, v, w) =
               (IF (g.pos[v] < g.pos[w]) = (g.pos[u] < g.pos[v]) THEN "Continue" ELSE "UTurn")
<1>1. Rem(0, 360) = 0 /\ Rem(180, 360) = 180 /\ Rem(-180, 360) = -180
  BY DEF Rem
<1>2. /\ normalize_angle(0) = 0 /\ normalize_angle(180) = 180
      /\ normalize_angle(-180) = 180
  BY <1>1 DEF normalize_angle
<1>3. /\ angle_to_maneuver(0) = "Continue"
      /\ angle_to_maneuver(180) = "UTurn"
  BY DEF angle_to_maneuver
<1>4. /\ bearing(g, u, v) = (IF g.pos[u] < g.pos[v] THEN 90 ELSE 270)
      /\ bearing(g, v, w) = (IF g.pos[v] < g.pos[w] THEN 90 ELSE 270)
  BY DEF bearing
<1>5. 90 - 90 = 0 /\ 270 - 270 = 0 /\ 270 - 90 = 180 /\ 90 - 270 = -180
  OBVIOUS
<1>6. CASE g.pos[u] < g.pos[v]
  <2>1. CASE g.pos[v] < g.pos[w]
    BY <1>2, <1>3, <1>4, <1>5, <1>6, <2>1 DEF detect_maneuver
  <2>2. CASE ~(g.pos[v] < g.pos[w])
    BY <1>2, <1>3, <1>4, <1>5, <1>6, <2>2 DEF detect_maneuver
  <2>. QED
    BY <2>1, <2>2
<1>7. CASE ~(g.pos[u] < g.pos[v])
  <2>1. CASE g.pos[v] < g.pos[w]
    BY <1>2, <1>3, <1>4, <1>5, <1>7, <2>1 DEF detect_maneuver
  <2>2. CASE ~(g.pos[v] < g.pos[w])
    BY <1>2, <1>3, <1>4, <1>5, <1>7, <2>2 DEF detect_maneuver
  <2>. QED
    BY <2>1, <2>2
<1>. QED
  BY <1>6, <1>7

(* A road leads from each node of a path to the next.                      *)
RoadsJoin(g, nodes) ==
    /\ nodes \in Seq(Nat) /\ nodes # <<>>
    /\ \A k \in 1 .. Len(nodes) : nodes[k] < g.n
    /\ \A k \in 1 .. Len(nodes) - 1 :
          \E i \in DOMAIN g.edges :
             g.edges[i].from = nodes[k] /\ g.edges[i].to = nodes[k + 1]

LEMMA AllLegsFound ==
    ASSUME NEW g, IsGraph(g), NEW nodes, RoadsJoin(g, nodes)
    PROVE  LegsFound(g, nodes) = [k \in 1 .. Len(nodes) - 1 |-> k]
<1>. DEFINE all == 1 .. Len(nodes) - 1
            s == [k \in all |-> k]
<1>1. PICK m \in Nat : m = Len(nodes) - 1
  <2>1. Len(nodes) \in Nat /\ Len(nodes) # 0
    BY DEF RoadsJoin
  <2>2. Len(nodes) - 1 \in Nat
    BY <2>1
  <2>. QED
    BY <2>2
<1>2. ASSUME NEW k \in all PROVE edge_between(g, nodes[k], nodes[k + 1]) # {}
  <2>1. k \in 1 .. Len(nodes) /\ nodes[k] < g.n
    BY <1>1 DEF RoadsJoin
  <2>2. PICK i \in DOMAIN g.edges :
           g.edges[i].from = nodes[k] /\ g.edges[i].to = nodes[k + 1]
    BY DEF RoadsJoin
  <2>. QED
    BY <2>1, <2>2, FirstBetween
<1>3. {k \in all : edge_between(g, nodes[k], nodes[k + 1]) # {}} = all
  BY <1>2
<1>4. s \in Seq(Nat) /\ DOMAIN s = all
  <2>1. s \in [1 .. m -> Nat]
    BY <1>1
  <2>. QED
    BY <2>1
<1>5. Picked(s, all) = s
  BY <1>4, PickedAll
<1>. QED
  BY <1>3, <1>5 DEF LegsFound

StepBy(g, p, i, word) ==
    [edge |-> i, distance |-> g.edges[i].distance, duration |-> edge_weight(g, p, i),
     maneuver |-> word]

StepsFit(g, p, nodes, steps) ==
    LET n == Len(nodes)
    IN  /\ n \in Nat \ {0}
        /\ n = 1 => steps = <<>>
        /\ n # 1 =>
             /\ Len(steps) = n /\ DOMAIN steps = 1 .. n
             /\ \A k \in 1 .. n - 1 : \E i \in edge_between(g, nodes[k], nodes[k + 1]) :
                   steps[k] = StepBy(g, p, i, annotate_maneuvers(g, nodes)[k])
             /\ steps[n] = Arrival

LEMMA StepsAlong ==
    ASSUME NEW g, IsGraph(g), NEW p, NEW nodes, RoadsJoin(g, nodes), NEW c,
           NEW steps, steps = route_from_path(g, p, nodes, c).steps
    PROVE  StepsFit(g, p, nodes, steps)
<1>. DEFINE n == Len(nodes)
<1>1. n \in Nat \ {0}
  BY DEF RoadsJoin
<1>. DEFINE legs == LegsFound(g, nodes)
            road(k) == CHOOSE x \in edge_between(g, nodes[k], nodes[k + 1]) : TRUE
            step == [k \in 1 .. n - 1 |-> StepBy(g, p, road(k), annotate_maneuvers(g, nodes)[k])]
            T == {step[k] : k \in 1 .. n - 1}
<1>2. legs = [k \in 1 .. n - 1 |-> k]
  BY AllLegsFound
<1>3. steps = IF step = <<>> THEN <<>> ELSE Append(step, Arrival)
  <2>1. DOMAIN legs = 1 .. n - 1 /\ \A k \in 1 .. n - 1 : legs[k] = k
    BY <1>2
  <2>. DEFINE told(k) ==
         LET i == CHOOSE x \in edge_between(g, nodes[k], nodes[k + 1]) : TRUE
         IN  [edge |-> i, distance |-> g.edges[i].distance,
              duration |-> edge_weight(g, p, i),
              maneuver |-> annotate_maneuvers(g, nodes)[k]]
  <2>2. \A k : told(k) = StepBy(g, p, road(k), annotate_maneuvers(g, nodes)[k])
    BY DEF StepBy
  <2>3. steps = IF [m \in DOMAIN legs |-> told(legs[m])] = <<>> THEN <<>>
                ELSE Append([m \in DOMAIN legs |-> told(legs[m])], Arrival)
    BY DEF route_from_path
  <2>. HIDE DEF legs, told, road
  <2>4. [m \in DOMAIN legs |-> told(legs[m])] = step
    BY <2>1, <2>2
  <2>. QED
    BY <2>3, <2>4
<1>4. \A k \in 1 .. n - 1 : road(k) \in edge_between(g, nodes[k], nodes[k + 1])
  <2>. SUFFICES ASSUME NEW k \in 1 .. n - 1 PROVE road(k) \in edge_between(g, nodes[k], nodes[k + 1])
    OBVIOUS
  <2>1. k \in 1 .. Len(nodes) /\ nodes[k] < g.n
    BY <1>1 DEF RoadsJoin
  <2>2. PICK i \in DOMAIN g.edges :
           g.edges[i].from = nodes[k] /\ g.edges[i].to = nodes[k + 1]
    BY DEF RoadsJoin
  <2>3. edge_between(g, nodes[k], nodes[k + 1]) # {}
    BY <2>1, <2>2, FirstBetween
  <2>. QED
    BY <2>3
<1>5. PICK m \in Nat : m = n - 1
  BY <1>1
<1>6. step \in Seq(T) /\ Len(step) = m /\ DOMAIN step = 1 .. m
      /\ \A k \in 1 .. m : step[k] = StepBy(g, p, road(k), annotate_maneuvers(g, nodes)[k])
  <2>. HIDE DEF road
  <2>1. step \in [1 .. m -> T]
    BY <1>5
  <2>2. \A k \in 1 .. m : step[k] = StepBy(g, p, road(k), annotate_maneuvers(g, nodes)[k])
    BY <1>5
  <2>. HIDE DEF step, T
  <2>. QED
    BY <2>1, <2>2
<1>. HIDE DEF road, step, T, legs
<1>7. CASE n = 1
  <2>1. step = <<>>
    BY <1>5, <1>6, <1>7
  <2>. QED
    BY <1>1, <1>3, <1>7, <2>1 DEF StepsFit
<1>8. CASE n # 1
  <2>1. step # <<>> /\ m + 1 = n
    BY <1>1, <1>5, <1>6, <1>8
  <2>2. steps = Append(step, Arrival)
    BY <1>3, <2>1
  <2>3. step \in Seq(T \cup {Arrival})
    BY <1>6
  <2>4. /\ Len(steps) = m + 1 /\ DOMAIN steps = 1 .. m + 1
        /\ \A k \in 1 .. m : steps[k] = step[k]
        /\ steps[m + 1] = Arrival
    BY <1>6, <2>2, <2>3
  <2>5. \A k \in 1 .. n - 1 : \E i \in edge_between(g, nodes[k], nodes[k + 1]) :
                      steps[k] = StepBy(g, p, i, annotate_maneuvers(g, nodes)[k])
    BY <1>4, <1>5, <1>6, <2>4
  <2>. QED
    BY <1>1, <1>8, <2>1, <2>4, <2>5 DEF StepsFit
<1>. QED
  BY <1>7, <1>8

(* What they take together is the cost of the drive, where no leg has two  *)
(* roads.                                                                  *)
LEMMA StepsTakeAsLong ==
    ASSUME NEW g, IsGraph(g), NEW p, IsProfile(p), NEW nodes, RoadsJoin(g, nodes), NEW d,
           NEW steps, steps = route_from_path(g, p, nodes, d).steps,
           \A k \in 1 .. Len(nodes) - 1 :
              Cardinality({i \in outgoing_edges(g, nodes[k]) : g.edges[i].to = nodes[k + 1]}) = 1,
           NEW ks, NEW c, Chain(g, p, nodes, ks, c)
    PROVE  Total([k \in DOMAIN steps |-> steps[k].duration]) = c[Len(nodes)]
<1>. DEFINE n == Len(nodes)
            lasts == [k \in DOMAIN steps |-> steps[k].duration]
<1>1. /\ n \in Nat \ {0} /\ c[1] = 0 /\ c \in [1 .. n -> Nat] /\ ks \in [1 .. n -> Label]
      /\ n = 1 => steps = <<>>
      /\ n # 1 =>
            /\ DOMAIN steps = 1 .. n
            /\ \A k \in 1 .. n - 1 : \E i \in edge_between(g, nodes[k], nodes[k + 1]) :
                  steps[k] = StepBy(g, p, i, annotate_maneuvers(g, nodes)[k])
            /\ steps[n] = Arrival
  <2>1. StepsFit(g, p, nodes, steps)
    BY StepsAlong
  <2>2. c[1] = 0 /\ c \in [1 .. n -> Nat] /\ ks \in [1 .. n -> Label]
    BY DEF Chain
  <2>. QED
    BY <2>1, <2>2 DEF StepsFit
<1>2. CASE n = 1
  <2>1. DOMAIN steps = {}
    BY <1>1, <1>2
  <2>2. lasts \in [{} -> Nat]
    BY <2>1
  <2>. QED
    BY <1>1, <1>2, <2>2, TotalOfNone
<1>3. CASE n # 1
  <2>1. \A j \in 1 .. n - 1 : j \in 1 .. n /\ j + 1 \in 1 .. n
    BY <1>1
  <2>2. ASSUME NEW j \in 1 .. n - 1
        PROVE  steps[j].duration \in Nat /\ c[j + 1] = c[j] + steps[j].duration
    <3>1. PICK x \in edge_between(g, nodes[j], nodes[j + 1]) :
             steps[j] = StepBy(g, p, x, annotate_maneuvers(g, nodes)[j])
      BY <1>1, <1>3
    <3>2. PICK i \in exits(g, p, ks[j]) :
             HeadOf(g, i) = ks[j + 1] /\ c[j + 1] = c[j] + edge_weight(g, p, i)
      BY DEF Chain
    <3>3. ks[j][1] = nodes[j] /\ ks[j + 1][1] = nodes[j + 1] /\ nodes[j] < g.n
      BY <2>1 DEF Chain, RoadsJoin
    <3>4. /\ i \in DOMAIN g.edges /\ g.edges[i].from = nodes[j] /\ g.edges[i].to = nodes[j + 1]
      BY <3>2, <3>3 DEF exits, outgoing_edges, HeadOf
    <3>. DEFINE between == {y \in outgoing_edges(g, nodes[j]) : g.edges[y].to = nodes[j + 1]}
    <3>5. i \in between /\ x \in between
      BY <3>1, <3>3, <3>4, FirstBetween DEF outgoing_edges
    <3>6. Cardinality(between) = 1
      OBVIOUS
    <3>7. IsFiniteSet(between)
      <4>1. PICK q \in Nat : DOMAIN g.edges = 1 .. q
        BY DEF IsGraph
      <4>2. IsFiniteSet(DOMAIN g.edges)
        BY <4>1, FS_Interval
      <4>3. between \subseteq DOMAIN g.edges
        BY DEF outgoing_edges
      <4>. QED
        BY <4>2, <4>3, FS_Subset
    <3>. HIDE DEF between
    <3>8. PICK b : between = {b}
      BY <3>6, <3>7, FS_Singleton
    <3>9. x = i
      BY <3>5, <3>8
    <3>10. steps[j].duration = edge_weight(g, p, i) /\ edge_weight(g, p, i) \in Nat
      BY <3>1, <3>4, <3>9, EdgeIsSound DEF StepBy
    <3>. QED
      BY <3>2, <3>10
  <2>3. steps[n].duration = 0
    BY <1>1, <1>3 DEF Arrival
  <2>. DEFINE cost == [j \in 1 .. n + 1 |-> IF j = n + 1 THEN c[n] ELSE c[j]]
  <2>4. /\ cost \in [1 .. n + 1 -> Nat] /\ cost[1] = 0 /\ cost[n + 1] = c[n]
        /\ \A j \in 1 .. n : cost[j] = c[j]
    <3>1. /\ 1 \in 1 .. n + 1 /\ n + 1 \in 1 .. n + 1 /\ 1 # n + 1 /\ n \in 1 .. n
          /\ \A j \in 1 .. n : j \in 1 .. n + 1 /\ j # n + 1
          /\ \A j \in 1 .. n + 1 : j # n + 1 => j \in 1 .. n
      BY <1>1
    <3>. QED
      BY <1>1, <3>1
  <2>5. ASSUME NEW j \in 1 .. n
        PROVE  steps[j].duration \in Nat /\ cost[j + 1] = cost[j] + steps[j].duration
    <3>. HIDE DEF cost
    <3>1. CASE j = n
      BY <1>1, <2>3, <2>4, <3>1
    <3>2. CASE j # n
      <4>1. j \in 1 .. n - 1 /\ j + 1 \in 1 .. n
        BY <1>1, <3>2
      <4>. QED
        BY <2>2, <2>4, <4>1
    <3>. QED
      BY <3>1, <3>2
  <2>. HIDE DEF cost
  <2>6. /\ lasts \in [1 .. n -> Nat] /\ \A j \in 1 .. n : lasts[j] = steps[j].duration
    BY <1>1, <1>3, <2>5
  <2>. HIDE DEF lasts
  <2>7. cost[n + 1] = cost[1] + Total(lasts) /\ Total(lasts) \in Nat
    <3>1. PICK m \in Nat : m = n
      BY <1>1
    <3>2. IsFiniteSet(1 .. m)
      BY FS_Interval
    <3>3. lasts \in [1 .. m -> Nat] /\ cost \in [1 .. m + 1 -> Nat]
      BY <2>4, <2>6, <3>1
    <3>4. \A j \in 1 .. m : cost[j + 1] = cost[j] + lasts[j]
      BY <2>5, <2>6, <3>1
    <3>5. cost[m + 1] = cost[1] + Total(lasts)
      BY <3>3, <3>4, TotalOfSteps
    <3>6. Total(lasts) \in Nat
      BY <3>2, <3>3, TotalTyped
    <3>. QED
      BY <3>1, <3>5, <3>6
  <2>. QED
    BY <2>4, <2>7 DEF lasts
<1>. QED
  BY <1>2, <1>3

(* Each label was reached from another by an exit, whatever the heuristic. *)
Entered == \A k \in DOMAIN prev : \E i \in exits(G, P, prev[k]) : HeadOf(G, i) = k

(* So the backtrack has come back over exits from the target to cursor.    *)
Traced ==
    /\ pc \in {"check", "search"} => path = <<>>
    /\ pc = "backtrack" =>
          \E ks \in [1 .. Len(path) + 1 -> Label] :
             /\ ks[1][1] = req.target
             /\ ks[Len(path) + 1] = cursor
             /\ \A j \in 1 .. Len(path) :
                   /\ ks[j][1] = path[j]
                   /\ ks[j] \in DOMAIN prev
                   /\ prev[ks[j]] = ks[j + 1]

(* What is answered is a path, and can be driven for just the duration.    *)
Walked ==
    reply.kind = "Route" =>
        /\ pc = "done"
        /\ RoadsJoin(G, reply.path)
        /\ Consistent(req) =>
              \E ks, c : /\ Chain(G, P, reply.path, ks, c)
                         /\ c[Len(reply.path)] = reply.duration

TellInv == PlanInv /\ Entered /\ Traced /\ Walked

LEMMA EnteredStep ==
    ASSUME TypeInv, Entered, [Next]_vars PROVE Entered'
<1>1. CASE UNCHANGED vars
  BY <1>1 DEF vars, Entered, G, P
<1>2. ASSUME prev' = prev, req' = req PROVE Entered'
  BY <1>2 DEF Entered, G, P
<1>3. CASE RejectEmptyGraph \/ RejectNode \/ Begin \/ NoRoute \/ Backtrack \/ Return
  BY <1>2, <1>3 DEF RejectEmptyGraph, RejectNode, Begin, NoRoute, Backtrack, Return
<1>4. CASE \E e \in heap : PopStale(e) \/ PopTarget(e) \/ Expand(e)
  BY <1>2, <1>4 DEF PopStale, PopTarget, Expand
<1>5. ASSUME NEW i \in todo, Relax(i) PROVE Entered'
  <2>. DEFINE k == HeadOf(G, i)
              g == current.g + edge_weight(G, P, i)
  <2>1. CASE Takes(i) /\ Improves(k, g) /\ Offer(k, g)
    <3>1. req' = req /\ prev' = Record(prev, k, current.at) /\ i \in exits(G, P, current.at)
      BY <1>5, <2>1 DEF Relax, Offer, Takes
    <3>. HIDE DEF k
    <3>2. DOMAIN prev' = DOMAIN prev \cup {k}
          /\ prev'[k] = current.at /\ \A l \in DOMAIN prev : l # k => prev'[l] = prev[l]
      BY <3>1 DEF Record
    <3>3. \A l \in DOMAIN prev' : \E x \in exits(G, P, prev'[l]) : HeadOf(G, x) = l
      BY <3>1, <3>2 DEF Entered, k
    <3>. QED
      BY <3>1, <3>3 DEF Entered, G, P
  <2>2. CASE UNCHANGED <<g_scores, prev, heap>>
    BY <1>2, <1>5, <2>2 DEF Relax
  <2>. QED
    BY <1>5, <2>1, <2>2 DEF Relax
<1>. QED
  BY <1>1, <1>3, <1>4, <1>5 DEF Next

LEMMA TracedStep ==
    ASSUME TypeInv, Traced, [Next]_vars PROVE Traced'
<1>1. CASE UNCHANGED vars
  BY <1>1 DEF vars, Traced
<1>2. CASE RejectEmptyGraph \/ RejectNode \/ NoRoute \/ Return
  BY <1>2 DEF RejectEmptyGraph, RejectNode, NoRoute, Return, Finish, Traced
<1>3. CASE Begin
  BY <1>3 DEF Begin, Traced
<1>4. CASE \E e \in heap : PopStale(e) \/ Expand(e)
  BY <1>4 DEF PopStale, Expand, Pop, Traced
<1>5. ASSUME NEW e \in heap, PopTarget(e) PROVE Traced'
  <2>1. /\ path' = <<>> /\ cursor' = e.at /\ e.at[1] = req.target /\ req' = req
        /\ e.at \in Label /\ pc' = "backtrack"
    BY <1>5 DEF PopTarget, Pop, Traced, TypeInv, TypeOK, HeapEntry
  <2>. DEFINE ks == [j \in 1 .. Len(path') + 1 |-> e.at]
  <2>2. Len(path') = 0
    BY <2>1
  <2>3. ks \in [1 .. Len(path') + 1 -> Label] /\ ks[1] = e.at /\ ks[Len(path') + 1] = e.at
    BY <2>1, <2>2
  <2>. HIDE DEF ks
  <2>. QED
    BY <2>1, <2>2, <2>3 DEF Traced
<1>6. CASE \E i \in todo : Relax(i)
  BY <1>6 DEF Relax, Traced
<1>7. CASE Backtrack
  <2>1. CASE cursor \notin DOMAIN prev
    BY <1>7, <2>1 DEF Backtrack, Finish, Traced
  <2>2. CASE cursor \in DOMAIN prev
    <3>1. PICK ks \in [1 .. Len(path) + 1 -> Label] :
               /\ ks[1][1] = req.target
               /\ ks[Len(path) + 1] = cursor
               /\ \A j \in 1 .. Len(path) :
                     /\ ks[j][1] = path[j]
                     /\ ks[j] \in DOMAIN prev
                     /\ prev[ks[j]] = ks[j + 1]
      BY <1>7 DEF Backtrack, Traced
    <3>2. /\ path' = Append(path, cursor[1]) /\ cursor' = prev[cursor] /\ cursor' \in Label
          /\ pc' = "backtrack" /\ UNCHANGED <<req, prev>>
      BY <1>7, <2>2 DEF Backtrack, TypeInv, TypeOK
    <3>3. path \in Seq(Nat) /\ cursor[1] \in Nat /\ Len(path) \in Nat
      BY DEF TypeInv, TypeOK, Label
    <3>4. /\ Len(path') = Len(path) + 1
          /\ \A j \in 1 .. Len(path) : path'[j] = path[j]
          /\ path'[Len(path) + 1] = cursor[1]
      BY <3>2, <3>3
    <3>. DEFINE n == Len(path)
                hs == [j \in 1 .. n + 2 |-> IF j = n + 2 THEN cursor' ELSE ks[j]]
    <3>5. hs \in [1 .. n + 2 -> Label] /\ \A j \in 1 .. n + 1 : hs[j] = ks[j]
      BY <3>2, <3>3
    <3>6. hs[n + 2] = cursor'
      BY <3>3
    <3>. HIDE DEF hs
    <3>7. ASSUME NEW j \in 1 .. n + 1
          PROVE  /\ hs[j][1] = path'[j]
                 /\ hs[j] \in DOMAIN prev
                 /\ prev[hs[j]] = hs[j + 1]
      <4>1. CASE j = n + 1
        BY <2>2, <3>1, <3>2, <3>3, <3>4, <3>5, <3>6, <4>1
      <4>2. CASE j # n + 1
        <5>1. j \in 1 .. n /\ j + 1 \in 1 .. n + 1
          BY <3>3, <4>2
        <5>. QED
          BY <3>1, <3>4, <3>5, <5>1
      <4>. QED
        BY <4>1, <4>2
    <3>8. hs[1][1] = req.target
      BY <3>1, <3>3, <3>5
    <3>9. n + 2 = Len(path') + 1
      BY <3>3, <3>4
    <3>. QED
      BY <3>2, <3>3, <3>4, <3>5, <3>6, <3>7, <3>8, <3>9 DEF Traced
  <2>. QED
    BY <2>1, <2>2
<1>. QED
  BY <1>1, <1>2, <1>3, <1>4, <1>5, <1>6, <1>7 DEF Next

LEMMA ReturnRoads ==
    ASSUME TypeInv, Entered, Traced, Return
    PROVE  RoadsJoin(G, reply'.path)
<1>. DEFINE n == Len(path)
            back == Append(path, cursor[1])
            there == Reversed(back)
<1>1. /\ n \in Nat /\ path \in Seq(Nat) /\ cursor \in Label /\ cursor[1] \in Nat
      /\ pc = "backtrack" /\ req.target < G.n /\ reply'.path = there
      /\ IsGraph(G)
  BY DEF TypeInv, TypeOK, NodesKnown, Return, Finish, Label, IsRequest, G
<1>2. PICK ks \in [1 .. n + 1 -> Label] :
           /\ ks[1][1] = req.target
           /\ ks[n + 1] = cursor
           /\ \A j \in 1 .. n :
                 /\ ks[j][1] = path[j]
                 /\ ks[j] \in DOMAIN prev
                 /\ prev[ks[j]] = ks[j + 1]
  BY <1>1 DEF Traced
<1>3. /\ there \in Seq(Nat) /\ Len(there) = n + 1
      /\ \A j \in 1 .. n + 1 : n + 2 - j \in 1 .. n + 1 /\ there[j] = ks[n + 2 - j][1]
  BY <1>1, <1>2, BackToFront
<1>. HIDE DEF there
<1>4. ASSUME NEW m \in 1 .. n
      PROVE  \E i \in DOMAIN G.edges : /\ G.edges[i].from = ks[m + 1][1]
                                       /\ G.edges[i].to = ks[m][1]
                                       /\ ks[m + 1][1] < G.n
  <2>1. PICK i \in exits(G, P, ks[m + 1]) : HeadOf(G, i) = ks[m]
    BY <1>2 DEF Entered
  <2>. QED
    BY <2>1 DEF exits, outgoing_edges, HeadOf
<1>5. ASSUME NEW j \in 1 .. n + 1 PROVE there[j] < G.n
  <2>1. CASE j = n + 1
    <3>1. n + 2 - j = 1
      BY <1>1, <2>1
    <3>. QED
      BY <1>1, <1>2, <1>3, <3>1
  <2>2. CASE j # n + 1
    <3>1. n + 1 - j \in 1 .. n /\ n + 1 - j + 1 = n + 2 - j
      BY <1>1, <2>2
    <3>2. ks[n + 2 - j][1] < G.n
      BY <1>4, <3>1
    <3>. QED
      BY <1>3, <3>2
  <2>. QED
    BY <2>1, <2>2
<1>6. ASSUME NEW j \in 1 .. n
      PROVE  \E i \in DOMAIN G.edges :
                G.edges[i].from = there[j] /\ G.edges[i].to = there[j + 1]
  <2>1. /\ n + 1 - j \in 1 .. n /\ n + 1 - j + 1 = n + 2 - j /\ n + 2 - (j + 1) = n + 1 - j
        /\ j \in 1 .. n + 1 /\ j + 1 \in 1 .. n + 1
    BY <1>1
  <2>2. there[j] = ks[n + 2 - j][1] /\ there[j + 1] = ks[n + 1 - j][1]
    BY <1>3, <2>1
  <2>3. \E i \in DOMAIN G.edges : /\ G.edges[i].from = ks[n + 2 - j][1]
                                  /\ G.edges[i].to = ks[n + 1 - j][1]
    BY <1>4, <2>1
  <2>. QED
    BY <2>2, <2>3
<1>7. Len(there) - 1 = n /\ there # <<>>
  BY <1>1, <1>3
<1>. QED
  BY <1>1, <1>3, <1>5, <1>6, <1>7 DEF RoadsJoin

LEMMA WalkedStep ==
    ASSUME TellInv, [Next]_vars PROVE Walked'
<1>1. ASSUME reply' = reply, req' = req, pc = "done" => pc' = "done" PROVE Walked'
  BY <1>1 DEF TellInv, Walked, G, P
<1>2. CASE UNCHANGED vars
  BY <1>1, <1>2 DEF vars
<1>3. CASE Begin \/ \E e \in heap : PopStale(e) \/ PopTarget(e) \/ Expand(e)
  BY <1>1, <1>3 DEF Begin, PopStale, PopTarget, Expand, Pop
<1>4. CASE \E i \in todo : Relax(i)
  BY <1>1, <1>4 DEF Relax
<1>5. CASE RejectEmptyGraph \/ RejectNode \/ NoRoute
  BY <1>5 DEF RejectEmptyGraph, RejectNode, NoRoute, Finish, Walked
<1>6. CASE Backtrack
  <2>1. CASE cursor \in DOMAIN prev
    BY <1>1, <1>6, <2>1 DEF Backtrack
  <2>2. CASE cursor \notin DOMAIN prev
    BY <1>6, <2>2 DEF Backtrack, Finish, Walked
  <2>. QED
    BY <2>1, <2>2
<1>7. CASE Return
  <2>. DEFINE there == Reversed(path')
  <2>1. /\ pc = "backtrack" /\ cursor[1] = req.source /\ path' = Append(path, cursor[1])
        /\ req' = req /\ pc' = "done"
        /\ reply'.kind = "Route" /\ reply'.duration = duration /\ reply'.path = there
    BY <1>7 DEF Return, Finish
  <2>2. RoadsJoin(G, reply'.path)
    BY <1>7, ReturnRoads DEF TellInv, PlanInv, IInv
  <2>3. ASSUME Consistent(req)
        PROVE  \E ks, c : Chain(G, P, there, ks, c) /\ c[Len(there)] = duration
    BY <2>1, <2>3, PathIsDriven DEF TellInv, PlanInv
  <2>. HIDE DEF there
  <2>4. G' = G /\ P' = P /\ (Consistent(req))' = Consistent(req)
    BY <2>1 DEF G, P
  <2>. QED
    BY <2>1, <2>2, <2>3, <2>4 DEF Walked
<1>. QED
  BY <1>2, <1>3, <1>4, <1>5, <1>6, <1>7 DEF Next

LEMMA StepsAreTold ==
    ASSUME TypeInv, Walked PROVE StepsTellTheDrive
<1>. SUFFICES ASSUME reply.kind = "Route" PROVE StepsTellTheDrive
  BY DEF StepsTellTheDrive
<1>. DEFINE nodes == reply.path
            n == Len(nodes)
            steps == Told.steps
            Directed(k) == G.pos[nodes[k]] # G.pos[nodes[k + 1]]
            Eastward(k) == G.pos[nodes[k]] < G.pos[nodes[k + 1]]
<1>1. /\ IsGraph(G) /\ IsProfile(P) /\ RoadsJoin(G, nodes)
      /\ Consistent(req) => \E ks, c : Chain(G, P, nodes, ks, c) /\ c[n] = reply.duration
  BY DEF TypeInv, TypeOK, IsRequest, G, P, Walked
<1>2. steps = route_from_path(G, P, nodes, reply.duration).steps
  BY DEF Told
<1>. HIDE DEF steps
<1>3. /\ n \in Nat \ {0}
      /\ n = 1 => steps = <<>>
      /\ n # 1 =>
           /\ Len(steps) = n
           /\ \A k \in 1 .. n - 1 : \E i \in edge_between(G, nodes[k], nodes[k + 1]) :
                 steps[k] = StepBy(G, P, i, annotate_maneuvers(G, nodes)[k])
           /\ steps[n] = Arrival
  <2>1. StepsFit(G, P, nodes, steps)
    BY <1>1, <1>2, StepsAlong
  <2>. QED
    BY <2>1 DEF StepsFit
<1>. HIDE DEF nodes
<1>4. Len(steps) = (IF n = 1 THEN 0 ELSE n)
  BY <1>3
<1>5. \A k \in 1 .. n : nodes[k] \in Nat /\ nodes[k] < G.n /\ G.pos[nodes[k]] \in Int
  <2>1. nodes \in Seq(Nat) /\ \A k \in 1 .. n : nodes[k] < G.n
    BY <1>1 DEF RoadsJoin
  <2>2. G.n \in Nat /\ \A u \in 0 .. (G.n - 1) : G.pos[u] \in Int
    BY <1>1 DEF IsGraph
  <2>3. ASSUME NEW k \in 1 .. n PROVE nodes[k] \in Nat /\ nodes[k] \in 0 .. (G.n - 1)
    <3>1. nodes[k] \in Nat
      BY <2>1
    <3>. QED
      BY <2>1, <2>2, <3>1
  <2>. QED
    BY <2>1, <2>2, <2>3
<1>6. ASSUME NEW k \in 1 .. n - 1
      PROVE  /\ G.edges[steps[k].edge].from = nodes[k]
             /\ G.edges[steps[k].edge].to = nodes[k + 1]
             /\ k = 1 => steps[k].maneuver = "Depart"
             /\ k > 1 /\ Directed(k - 1) /\ Directed(k) =>
                   steps[k].maneuver = (IF Eastward(k) = Eastward(k - 1)
                                        THEN "Continue" ELSE "UTurn")
  <2>1. n # 1 /\ k \in 1 .. n /\ k + 1 \in 1 .. n /\ k # n
    <3>. HIDE DEF n
    <3>. QED
      BY <1>3
  <2>2. PICK x \in edge_between(G, nodes[k], nodes[k + 1]) :
           steps[k] = StepBy(G, P, x, annotate_maneuvers(G, nodes)[k])
    BY <1>3, <2>1
  <2>3. PICK i \in DOMAIN G.edges : G.edges[i].from = nodes[k] /\ G.edges[i].to = nodes[k + 1]
    BY <1>1 DEF RoadsJoin
  <2>4. G.edges[x].from = nodes[k] /\ G.edges[x].to = nodes[k + 1]
    BY <1>1, <1>5, <2>1, <2>2, <2>3, FirstBetween
  <2>5. steps[k].edge = x /\ steps[k].maneuver = annotate_maneuvers(G, nodes)[k]
    BY <2>2 DEF StepBy
  <2>6. nodes \in Seq(Nat) /\ DOMAIN nodes = 1 .. n
    BY <1>1 DEF RoadsJoin
  <2>7. CASE k = 1
    <3>1. annotate_maneuvers(G, nodes)[k] = "Depart"
      BY <2>1, <2>6, <2>7 DEF annotate_maneuvers
    <3>. QED
      BY <2>4, <2>5, <2>7, <3>1
  <2>8. CASE k # 1
    <3>1. annotate_maneuvers(G, nodes)[k]
              = detect_maneuver(G, nodes[k - 1], nodes[k], nodes[k + 1])
      BY <2>1, <2>6, <2>8 DEF annotate_maneuvers
    <3>2. k - 1 \in 1 .. n /\ k - 1 + 1 = k
      BY <2>1, <2>8
    <3>3. /\ G.pos[nodes[k - 1]] \in Int /\ G.pos[nodes[k]] \in Int
          /\ G.pos[nodes[k + 1]] \in Int
      BY <1>5, <2>1, <3>2
    <3>4. ASSUME Directed(k - 1), Directed(k)
          PROVE  steps[k].maneuver = (IF Eastward(k) = Eastward(k - 1) THEN "Continue" ELSE "UTurn")
      <4>1. detect_maneuver(G, nodes[k - 1], nodes[k], nodes[k + 1])
                = (IF (G.pos[nodes[k]] < G.pos[nodes[k + 1]])
                         = (G.pos[nodes[k - 1]] < G.pos[nodes[k]])
                   THEN "Continue" ELSE "UTurn")
        BY <3>2, <3>3, <3>4, WordsOnALine
      <4>. QED
        BY <2>5, <3>1, <3>2, <4>1
    <3>. QED
      BY <2>4, <2>5, <2>8, <3>4
  <2>. QED
    BY <2>7, <2>8
<1>7. n > 1 => steps[n].maneuver = "Arrive"
  <2>. HIDE DEF n
  <2>1. n > 1 => n # 1 /\ steps[n] = Arrival
    BY <1>3
  <2>. QED
    BY <2>1 DEF Arrival
<1>8. ASSUME Consistent(req), \A k \in 1 .. n - 1 : OneRoad(nodes[k], nodes[k + 1])
      PROVE  Total([k \in DOMAIN steps |-> steps[k].duration]) = reply.duration
  <2>1. PICK ks, c : Chain(G, P, nodes, ks, c) /\ c[n] = reply.duration
    BY <1>1, <1>8
  <2>2. \A k \in 1 .. n - 1 :
           Cardinality({i \in outgoing_edges(G, nodes[k]) : G.edges[i].to = nodes[k + 1]}) = 1
    BY <1>8 DEF OneRoad
  <2>. QED
    BY <1>1, <1>2, <2>1, <2>2, StepsTakeAsLong
<1>. QED
  BY <1>4, <1>6, <1>7, <1>8 DEF StepsTellTheDrive, steps, nodes

(* For every graph, profile and request: route_from_path tells a step for  *)
(* every leg of the path that dijkstra and astar find, in their order, by  *)
(* an edge along it and with the maneuver the nodes around it call for;    *)
(* and where no leg has two roads the steps take as long as the search     *)
(* says, always of dijkstra, and of astar if its heuristic is consistent.  *)
THEOREM RouteIsTold == Spec => []StepsTellTheDrive
<1>1. Init => TellInv
  BY TypeInit, SearchInit, TraceInitial
  DEF Init, TellInv, PlanInv, IInv, Entered, Traced, Walked, NoReply
<1>2. TellInv /\ [Next]_vars => TellInv'
  BY PlanInvStep, EnteredStep, TracedStep, WalkedStep DEF TellInv, PlanInv, IInv
<1>3. TellInv => StepsTellTheDrive
  BY StepsAreTold DEF TellInv, PlanInv, IInv
<1>. QED
  BY <1>1, <1>2, <1>3, PTL DEF Spec
=============================================================================
