----------------------------- MODULE AnalysesProofs -----------------------------
(***************************************************************************)
(* A call of the server that analyses the network moves as the module of   *)
(* that analysis does.  What is proved of isochrone alone holds of every   *)
(* call; connected_components, the pair queries and the matcher are proved *)
(* right here, and the locals of all five, betweenness included, typed.    *)
(***************************************************************************)
EXTENDS Analyses, OperatorTheorems, FiniteSetTheorems, SequenceTheorems, TLAPS

AreaAlone == INSTANCE IsochroneProofs WITH Requests <- Areas

-----------------------------------------------------------------------------
(* connected_components.                                                   *)

NetworksOK == \A r \in Networks : Network!IsRequest(r)

LEMMA NetworksFine == NetworksOK
BY CallsAssumption DEF NetworksOK

(* The nodes numbered c, and those of the component being searched that    *)
(* have been expanded.                                                     *)
Part(c) == {u \in Network!Labelled : component_id[u] = c}
ExpandedPart == Part(current_component) \ queue

(* Outside a search every label is of a component that is complete.  In    *)
(* one, the queue holds nodes of the component it began at start.          *)
NetworkPhases ==
    /\ pc # "search" =>
          queue = {} /\ \A u \in Network!Labelled : component_id[u] < current_component
    /\ pc = "search" =>
          /\ start < Network!net.n /\ start \in Network!Labelled
          /\ component_id[start] = current_component
          /\ \A u \in queue : component_id[u] = current_component
    /\ \A u \in Network!Nodes : u < start => u \in Network!Labelled

(* The streets of a node that has been expanded stay in its component.     *)
NoStreetOut ==
    \A u \in Network!Labelled \ queue : \A w \in Network!Neighbours(u) :
        w \in Network!Labelled /\ component_id[w] = component_id[u]

NetworkCounts ==
    /\ pc = "search" => size = Cardinality(ExpandedPart)
    /\ \A c \in 0 .. current_component - 1 : component_sizes[c] = Cardinality(Part(c))

(* TypeOK without the bound of size, which follows from Counts.            *)
NetworkShape ==
    /\ req \in Networks
    /\ pc \in {"start", "scan", "search", "done"}
    /\ start \in 0 .. Network!net.n /\ size \in Int
    /\ Network!Labelled \subseteq Network!Nodes /\ queue \subseteq Network!Labelled
    /\ current_component \in 0 .. start
    /\ \A u \in Network!Labelled : component_id[u] \in 0 .. current_component
    /\ DOMAIN component_sizes = 0 .. current_component - 1

Graphwise == NetworkShape /\ NetworkPhases /\ NoStreetOut

(* What is answered, of the component sizes and top_k.                     *)
NetworkRanked == InOrder(DOMAIN component_sizes, Network!LargerFirst)
NetworkShown == IF req.top_k < Len(NetworkRanked) THEN req.top_k ELSE Len(NetworkRanked)

NetworkAnswered ==
    [kind |-> "ok", num_components |-> current_component,
     largest |-> IF NetworkRanked = <<>> THEN 0 ELSE component_sizes[NetworkRanked[1]],
     components |-> SubSeq(NetworkRanked, 1, NetworkShown)]

NetworkListed ==
    /\ pc = "scan" /\ start = Network!net.n /\ pc' = "done" /\ reply' = NetworkAnswered
    /\ UNCHANGED <<req, start, component_id, queue, current_component, size,
                   component_sizes>>

NetworkMoves ==
    \/ Network!Reject \/ Network!Begin \/ Network!SkipLabelled
    \/ Network!Open \/ Network!Close \/ NetworkListed
    \/ \E u \in queue : Network!Expand(u)
    \/ UNCHANGED Network!vars

LEMMA NetworkNext == Network!Next => NetworkMoves
<1>1. Network!InOrder(DOMAIN component_sizes, Network!LargerFirst) = NetworkRanked
  BY DEF Network!InOrder, InOrder, Network!Cardinality, Cardinality, NetworkRanked
<1>2. Network!Finish => NetworkListed
  BY <1>1, Zenon
  DEF Network!Finish, NetworkListed, NetworkAnswered, NetworkShown, Network!net
<1>. QED
  BY <1>2 DEF Network!Next, NetworkMoves

-----------------------------------------------------------------------------
(* A street joins its ends both ways.                                      *)
LEMMA StreetsBothWays ==
    ASSUME NetworksOK, req \in Networks, NEW u \in Network!Nodes, NEW w \in Network!Neighbours(u)
    PROVE  w \in Network!Nodes /\ u \in Network!Neighbours(w)
<1>1. Network!net.n \in Nat /\ Network!net.edges \in Seq(Network!Edge)
      /\ \A i \in DOMAIN Network!net.edges :
            Network!net.edges[i].from < Network!net.n /\ Network!net.edges[i].to < Network!net.n
  BY DEF NetworksOK, Network!IsRequest, Network!IsNetwork, Network!IsGraph, Network!net
<1>2. \A i \in DOMAIN Network!net.edges :
          {Network!net.edges[i].from, Network!net.edges[i].to} \subseteq Network!Nodes
  <2>. SUFFICES ASSUME NEW i \in DOMAIN Network!net.edges
                PROVE  {Network!net.edges[i].from, Network!net.edges[i].to} \subseteq Network!Nodes
    OBVIOUS
  <2>1. Network!net.edges[i] \in Network!Edge
    BY <1>1
  <2>2. Network!net.edges[i].from \in Nat /\ Network!net.edges[i].to \in Nat
    BY <2>1 DEF Network!Edge
  <2>3. Network!net.edges[i].from < Network!net.n /\ Network!net.edges[i].to < Network!net.n
    BY <1>1
  <2>. QED
    BY <1>1, <2>2, <2>3 DEF Network!Nodes
<1>. QED
  BY <1>1, <1>2
  DEF Network!Neighbours, Network!outgoing_edges, Network!incoming_edges, Network!Nodes

LEMMA CountUpTo ==
    ASSUME NEW k \in Nat
    PROVE  IsFiniteSet(0..(k - 1)) /\ Cardinality(0..(k - 1)) = k
<1>1. 0 \in Int /\ k - 1 \in Int
  OBVIOUS
<1>2. /\ IsFiniteSet(0..(k - 1))
      /\ Cardinality(0..(k - 1)) = IF 0 > k - 1 THEN 0 ELSE (k - 1) - 0 + 1
  BY <1>1, FS_Interval
<1>. QED
  BY <1>2

LEMMA NetworkFinite ==
    ASSUME NetworksOK, req \in Networks
    PROVE  /\ Network!net.n \in Nat
           /\ IsFiniteSet(Network!Nodes) /\ Cardinality(Network!Nodes) = Network!net.n
<1>1. Network!net.n \in Nat
  BY DEF NetworksOK, Network!IsRequest, Network!IsNetwork, Network!IsGraph, Network!net
<1>2. IsFiniteSet(0..(Network!net.n - 1)) /\ Cardinality(0..(Network!net.n - 1)) = Network!net.n
  BY <1>1, CountUpTo
<1>. QED
  BY <1>1, <1>2 DEF Network!Nodes

LEMMA NetworkInit == ASSUME NetworksOK, Network!Init PROVE Graphwise
<1>1. Network!net.n \in Nat
  BY NetworkFinite DEF Network!Init
<1>2. DOMAIN <<>> = {} /\ Network!Labelled = {}
  BY DEF Network!Init, Network!Labelled
<1>. QED
  BY <1>1, <1>2
  DEF Network!Init, Graphwise, NetworkShape, NetworkPhases, NoStreetOut, Network!Nodes

(* What Assign does.                                                       *)
LEMMA LabelsAssigned ==
    ASSUME NEW us, Network!Assign(us)
    PROVE  /\ Network!Labelled' = Network!Labelled \cup us
           /\ \A u \in us : component_id'[u] = current_component
           /\ \A u \in Network!Labelled \ us : component_id'[u] = component_id[u]
BY DEF Network!Assign, Network!Labelled

LEMMA OpenGraphwise == ASSUME NetworksOK, Graphwise, Network!Open PROVE Graphwise'
<1>1. /\ Network!net.n \in Nat /\ UNCHANGED <<req, start, current_component, component_sizes>>
      /\ Network!net' = Network!net /\ Network!Nodes' = Network!Nodes
      /\ \A u : Network!Neighbours(u)' = Network!Neighbours(u)
  BY NetworkFinite
  DEF Graphwise, NetworkShape, Network!Open, Network!net, Network!Nodes, Network!Neighbours
<1>2. /\ pc' = "search" /\ queue = {} /\ queue' = {start}
      /\ start \in Network!Nodes \ Network!Labelled
      /\ Network!Labelled' = Network!Labelled \cup {start}
      /\ component_id'[start] = current_component
      /\ \A u \in Network!Labelled : component_id'[u] = component_id[u]
      /\ start < Network!net.n /\ size' = 0
  BY <1>1, LabelsAssigned
  DEF Network!Open, Graphwise, NetworkPhases, NetworkShape, Network!Nodes
<1>3. NetworkShape'
  BY <1>1, <1>2 DEF Graphwise, NetworkShape
<1>4. NetworkPhases'
  BY <1>1, <1>2 DEF Graphwise, NetworkShape, NetworkPhases
<1>5. NoStreetOut'
  BY <1>1, <1>2 DEF Graphwise, NoStreetOut
<1>. QED
  BY <1>3, <1>4, <1>5 DEF Graphwise

LEMMA ExpandGraphwise ==
    ASSUME NetworksOK, Graphwise, NEW u \in queue, Network!Expand(u) PROVE Graphwise'
<1>1. /\ Network!net.n \in Nat /\ UNCHANGED <<req, pc, start, current_component, component_sizes>>
      /\ Network!net' = Network!net /\ Network!Nodes' = Network!Nodes
      /\ \A x : Network!Neighbours(x)' = Network!Neighbours(x)
  BY NetworkFinite
  DEF Graphwise, NetworkShape, Network!Expand, Network!net, Network!Nodes,
      Network!Neighbours
<1>. DEFINE new == Network!NewNeighbours(u)
<1>2. /\ pc = "search" /\ queue' = (queue \ {u}) \cup new
      /\ new \cap Network!Labelled = {} /\ Network!Labelled' = Network!Labelled \cup new
      /\ \A x \in new : component_id'[x] = current_component
      /\ \A x \in Network!Labelled : component_id'[x] = component_id[x]
  BY LabelsAssigned DEF Network!Expand, Network!NewNeighbours
<1>3. u \in Network!Nodes /\ u \in Network!Labelled /\ component_id[u] = current_component
  BY <1>2 DEF Graphwise, NetworkShape, NetworkPhases
<1>4. new \subseteq Network!Nodes
  BY <1>3, StreetsBothWays DEF Network!NewNeighbours, Graphwise, NetworkShape
<1>5. NetworkShape'
  BY <1>1, <1>2, <1>4 DEF Graphwise, NetworkShape, Network!Expand
<1>6. NetworkPhases'
  BY <1>1, <1>2 DEF Graphwise, NetworkShape, NetworkPhases
<1>7. \A w \in Network!Neighbours(u) : w \in Network!Labelled => component_id[w] = current_component
  <2>. SUFFICES ASSUME NEW w \in Network!Neighbours(u), w \in Network!Labelled
                PROVE  component_id[w] = current_component
    OBVIOUS
  <2>1. CASE w \in queue
    BY <1>2, <2>1 DEF Graphwise, NetworkPhases
  <2>2. CASE w \notin queue
    <3>1. u \in Network!Neighbours(w)
      BY <1>3, StreetsBothWays DEF Graphwise, NetworkShape
    <3>. QED
      BY <1>3, <2>2, <3>1 DEF Graphwise, NoStreetOut
  <2>. QED
    BY <2>1, <2>2
<1>8. NoStreetOut'
  <2>. SUFFICES ASSUME NEW x \in Network!Labelled' \ queue', NEW w \in Network!Neighbours(x)
                PROVE  w \in Network!Labelled' /\ component_id'[w] = component_id'[x]
    BY <1>1 DEF NoStreetOut
  <2>1. CASE x = u
    BY <1>2, <1>3, <1>7, <2>1 DEF Network!NewNeighbours
  <2>2. CASE x # u
    BY <1>2, <2>2 DEF Graphwise, NoStreetOut
  <2>. QED
    BY <2>1, <2>2
<1>. QED
  BY <1>5, <1>6, <1>8 DEF Graphwise

LEMMA CloseGraphwise == ASSUME NetworksOK, Graphwise, Network!Close PROVE Graphwise'
<1>1. /\ Network!net.n \in Nat /\ UNCHANGED <<req, component_id, queue, size>> /\ queue = {}
      /\ pc = "search" /\ pc' = "scan"
      /\ current_component' = current_component + 1 /\ start' = start + 1
      /\ DOMAIN component_sizes' = DOMAIN component_sizes \cup {current_component}
      /\ Network!net' = Network!net /\ Network!Nodes' = Network!Nodes
      /\ Network!Labelled' = Network!Labelled
     
      /\ \A x : Network!Neighbours(x)' = Network!Neighbours(x)
  BY NetworkFinite
  DEF Graphwise, NetworkShape, Network!Close, Network!net, Network!Nodes,
      Network!Neighbours, Network!Labelled
<1>2. NetworkShape'
  BY <1>1 DEF Graphwise, NetworkShape, NetworkPhases
<1>3. NetworkPhases'
  BY <1>1 DEF Graphwise, NetworkShape, NetworkPhases, Network!Nodes
<1>4. NoStreetOut'
  BY <1>1 DEF Graphwise, NoStreetOut
<1>. QED
  BY <1>2, <1>3, <1>4 DEF Graphwise

(* The other steps move the scan at most, past a node that is labelled.    *)
NetworkElsewhere ==
    \/ Network!Reject \/ Network!Begin \/ Network!SkipLabelled \/ NetworkListed
    \/ UNCHANGED Network!vars

LEMMA ElsewhereGraphwise == ASSUME NetworksOK, Graphwise, NetworkElsewhere PROVE Graphwise'
<1>1. /\ Network!net.n \in Nat
      /\ UNCHANGED <<req, component_id, queue, current_component, size, component_sizes>>
      /\ Network!net' = Network!net /\ Network!Nodes' = Network!Nodes
      /\ Network!Labelled' = Network!Labelled
     
      /\ \A x : Network!Neighbours(x)' = Network!Neighbours(x)
  BY NetworkFinite
  DEF Graphwise, NetworkShape, NetworkElsewhere, Network!Reject, Network!Begin,
      Network!SkipLabelled, NetworkListed, Network!vars, Network!net,
                     Network!Nodes, Network!Neighbours, Network!Labelled
<1>2. /\ pc' \in {"start", "scan", "search", "done"}
      /\ pc' = "search" => pc = "search"
      /\ pc = "search" => pc' = "search" /\ start' = start
      /\ start' = start \/ (start' = start + 1
                            /\ start < Network!net.n /\ start \in Network!Labelled)
  <2>1. CASE NetworkListed
    <3>1. pc = "scan" /\ pc' = "done" /\ start' = start
      BY <2>1, Zenon DEF NetworkListed
    <3>. QED
      BY <3>1
  <2>2. CASE Network!Reject \/ Network!Begin \/ Network!SkipLabelled \/ UNCHANGED Network!vars
    BY <2>2
    DEF Graphwise, NetworkShape, Network!Reject, Network!Begin, Network!SkipLabelled,
        Network!vars
  <2>. QED
    BY <2>1, <2>2 DEF NetworkElsewhere
<1>3. NetworkShape'
  BY <1>1, <1>2 DEF Graphwise, NetworkShape
<1>4. NetworkPhases'
  BY <1>1, <1>2 DEF Graphwise, NetworkShape, NetworkPhases, Network!Nodes
<1>5. NoStreetOut'
  BY <1>1 DEF Graphwise, NoStreetOut
<1>. QED
  BY <1>3, <1>4, <1>5 DEF Graphwise

LEMMA GraphwiseStep == ASSUME NetworksOK, Graphwise, NetworkMoves PROVE Graphwise'
BY OpenGraphwise, ExpandGraphwise, CloseGraphwise, ElsewhereGraphwise
DEF NetworkMoves, NetworkElsewhere


LEMMA NetworkJoinedStep ==
    ASSUME NetworksOK, Graphwise, Network!ComponentsJoined, NetworkMoves
    PROVE  Network!ComponentsJoined'
<1>1. CASE Network!Open
  <2>1. /\ Network!Nodes' = Network!Nodes
        /\ \A S : Network!Closed(S)' <=> Network!Closed(S)
        /\ start \notin Network!Labelled /\ queue = {}
        /\ Network!Labelled' = Network!Labelled \cup {start}
        /\ component_id'[start] = current_component
        /\ \A u \in Network!Labelled : component_id'[u] = component_id[u]
    BY <1>1, LabelsAssigned
    DEF Network!Open, Graphwise, NetworkPhases, Network!Nodes, Network!net,
        Network!Neighbours, Network!Closed
  <2>2. \A u \in Network!Labelled : component_id'[u] # component_id'[start]
    BY <1>1, <2>1 DEF Network!Open, Graphwise, NetworkPhases, NetworkShape
  <2>. QED
    BY <2>1, <2>2 DEF Network!ComponentsJoined
<1>2. ASSUME NEW u \in queue, Network!Expand(u) PROVE Network!ComponentsJoined'
  <2>. DEFINE new == Network!NewNeighbours(u)
  <2>1. /\ Network!Nodes' = Network!Nodes
        /\ \A S : Network!Closed(S)' <=> Network!Closed(S)
        /\ Network!Labelled' = Network!Labelled \cup new /\ new \cap Network!Labelled = {}
        /\ \A x \in new : component_id'[x] = current_component
        /\ \A x \in Network!Labelled : component_id'[x] = component_id[x]
    BY <1>2, LabelsAssigned
    DEF Network!Expand, Network!NewNeighbours, Network!Nodes, Network!net,
        Network!Neighbours, Network!Closed
  <2>2. u \in Network!Labelled /\ component_id[u] = current_component
    BY <1>2 DEF Network!Expand, Graphwise, NetworkShape, NetworkPhases
  <2>3. ASSUME NEW S \in SUBSET Network!Nodes, Network!Closed(S), NEW x \in new
        PROVE  u \in S <=> x \in S
    <3>1. x \in Network!Neighbours(u) /\ u \in Network!Neighbours(x)
      BY <2>2, StreetsBothWays DEF Network!NewNeighbours, Graphwise, NetworkShape
    <3>. QED
      BY <2>3, <3>1 DEF Network!Closed
  <2>. SUFFICES ASSUME NEW x \in Network!Labelled', NEW w \in Network!Labelled',
                       component_id'[x] = component_id'[w],
                       NEW S \in SUBSET Network!Nodes, Network!Closed(S)
                PROVE  x \in S <=> w \in S
    BY <2>1 DEF Network!ComponentsJoined
  <2>4. ASSUME NEW y \in Network!Labelled', component_id'[y] = current_component
        PROVE  y \in S <=> u \in S
    <3>1. CASE y \in new
      BY <2>3, <3>1
    <3>2. CASE y \in Network!Labelled
      BY <2>1, <2>2, <2>4, <3>2 DEF Network!ComponentsJoined
    <3>. QED
      BY <2>1, <3>1, <3>2
  <2>5. CASE component_id'[x] = current_component
    BY <2>4, <2>5
  <2>6. CASE component_id'[x] # current_component
    BY <2>1, <2>6 DEF Network!ComponentsJoined
  <2>. QED
    BY <2>5, <2>6
<1>3. CASE Network!Close \/ NetworkElsewhere
  <2>1. UNCHANGED <<req, component_id>>
    BY <1>3
    DEF Network!Close, NetworkElsewhere, Network!Reject, Network!Begin,
        Network!SkipLabelled, NetworkListed, Network!vars
  <2>2. /\ Network!Labelled' = Network!Labelled /\ Network!Nodes' = Network!Nodes
        /\ \A S : Network!Closed(S)' <=> Network!Closed(S)
    BY <2>1
    DEF Network!Labelled, Network!Nodes, Network!net, Network!Neighbours, Network!Closed
  <2>. QED
    BY <2>1, <2>2 DEF Network!ComponentsJoined
<1>. QED
  BY <1>1, <1>2, <1>3 DEF NetworkMoves, NetworkElsewhere


LEMMA PartsFinite ==
    ASSUME NetworksOK, NetworkShape, NEW S \in SUBSET Network!Labelled
    PROVE  IsFiniteSet(S) /\ Cardinality(S) \in 0 .. Network!net.n
<1>1. /\ IsFiniteSet(Network!Nodes) /\ Cardinality(Network!Nodes) = Network!net.n
      /\ Network!net.n \in Nat /\ S \in SUBSET Network!Nodes
  BY NetworkFinite DEF NetworkShape
<1>. QED
  BY <1>1, FS_Subset, FS_CardinalityType

LEMMA NetworkCountsStep ==
    ASSUME NetworksOK, Graphwise, NetworkCounts, NetworkMoves PROVE NetworkCounts'
<1>1. CASE Network!Open
  <2>1. /\ start \notin Network!Labelled /\ queue = {} /\ queue' = {start} /\ size' = 0
        /\ Network!Labelled' = Network!Labelled \cup {start}
        /\ component_id'[start] = current_component
        /\ \A u \in Network!Labelled : component_id'[u] = component_id[u]
        /\ UNCHANGED <<current_component, component_sizes>>
    BY <1>1, LabelsAssigned DEF Network!Open, Graphwise, NetworkPhases
  <2>2. \A u \in Network!Labelled : component_id[u] # current_component
    BY <1>1 DEF Network!Open, Graphwise, NetworkPhases, NetworkShape
  <2>3. ExpandedPart' = {}
    BY <2>1, <2>2 DEF ExpandedPart, Part
  <2>4. ASSUME NEW c \in 0 .. current_component - 1 PROVE Part(c)' = Part(c)
    BY <2>1 DEF Part, Graphwise, NetworkShape
  <2>. QED
    BY <2>1, <2>3, <2>4, FS_EmptySet DEF NetworkCounts
<1>2. ASSUME NEW u \in queue, Network!Expand(u) PROVE NetworkCounts'
  <2>. DEFINE new == Network!NewNeighbours(u)
  <2>1. /\ Network!Labelled' = Network!Labelled \cup new /\ new \cap Network!Labelled = {}
        /\ \A x \in new : component_id'[x] = current_component
        /\ \A x \in Network!Labelled : component_id'[x] = component_id[x]
        /\ UNCHANGED <<pc, current_component, component_sizes>>
        /\ pc = "search" /\ size' = size + 1 /\ queue' = (queue \ {u}) \cup new
    BY <1>2, LabelsAssigned DEF Network!Expand, Network!NewNeighbours
  <2>2. u \in Network!Labelled /\ component_id[u] = current_component
    BY <1>2, <2>1 DEF Graphwise, NetworkShape, NetworkPhases
  <2>3. ExpandedPart' = ExpandedPart \cup {u} /\ u \notin ExpandedPart
    BY <2>1, <2>2 DEF ExpandedPart, Part
  <2>4. IsFiniteSet(ExpandedPart)
    BY PartsFinite DEF Graphwise, ExpandedPart, Part
  <2>5. Cardinality(ExpandedPart') = Cardinality(ExpandedPart) + 1
    BY <2>3, <2>4, FS_AddElement
  <2>6. ASSUME NEW c \in 0 .. current_component - 1 PROVE Part(c)' = Part(c)
    BY <2>1 DEF Part, Graphwise, NetworkShape
  <2>. QED
    BY <2>1, <2>5, <2>6 DEF NetworkCounts
<1>3. CASE Network!Close
  <2>1. /\ pc = "search" /\ pc' = "scan" /\ queue = {}
        /\ current_component' = current_component + 1 /\ current_component \in Nat
        /\ component_sizes'[current_component] = size
        /\ \A c \in DOMAIN component_sizes :
              c # current_component => component_sizes'[c] = component_sizes[c]
    BY <1>3, NetworkFinite DEF Network!Close, Graphwise, NetworkShape
  <2>2. \A c : Part(c)' = Part(c)
    BY <1>3 DEF Network!Close, Part, Network!Labelled
  <2>3. ExpandedPart = Part(current_component)
    BY <2>1 DEF ExpandedPart
  <2>. QED
    BY <2>1, <2>2, <2>3 DEF NetworkCounts, Graphwise, NetworkShape
<1>4. CASE NetworkElsewhere
  <2>1. UNCHANGED <<component_id, queue, current_component, size, component_sizes>>
    BY <1>4
    DEF NetworkElsewhere, Network!Reject, Network!Begin, Network!SkipLabelled,
        NetworkListed, Network!vars
  <2>2. pc' = "search" => pc = "search"
    BY <1>4, Zenon
    DEF NetworkElsewhere, Network!Reject, Network!Begin, Network!SkipLabelled,
        NetworkListed, Network!vars
  <2>3. ExpandedPart' = ExpandedPart /\ \A c : Part(c)' = Part(c)
    BY <2>1 DEF ExpandedPart, Part, Network!Labelled
  <2>. QED
    BY <2>1, <2>2, <2>3 DEF NetworkCounts
<1>. QED
  BY <1>1, <1>2, <1>3, <1>4 DEF NetworkMoves, NetworkElsewhere

LEMMA NetworkSizeStep ==
    ASSUME NetworksOK, Graphwise, NetworkCounts', Graphwise', size \in 0 .. Network!net.n, NetworkMoves
    PROVE  size' \in 0 .. Network!net'.n
<1>1. Network!net' = Network!net /\ Network!Nodes' = Network!Nodes
  <2>1. req' = req
    BY Zenon
    DEF NetworkMoves, Network!Open, Network!Expand, Network!Close, Network!Reject,
        Network!Begin, Network!SkipLabelled, NetworkListed, Network!vars
  <2>. QED
    BY <2>1 DEF Network!net, Network!Nodes
<1>2. CASE pc' = "search"
  <2>1. size' = Cardinality(ExpandedPart')
    BY <1>2 DEF NetworkCounts
  <2>2. ExpandedPart' \in SUBSET Network!Nodes
    BY <1>1 DEF Graphwise, NetworkShape, ExpandedPart, Part
  <2>. QED
    BY <1>1, <2>1, <2>2, NetworkFinite, FS_Subset, FS_CardinalityType
    DEF Graphwise, NetworkShape
<1>3. CASE pc' # "search"
  <2>1. size' = size
    BY <1>3, Zenon
    DEF NetworkMoves, Network!Open, Network!Expand, Network!Close, Network!Reject,
        Network!Begin, Network!SkipLabelled, NetworkListed, Network!vars
  <2>. QED
    BY <1>1, <2>1
<1>. QED
  BY <1>2, <1>3

LEMMA NetworkCountsInit ==
    ASSUME NetworksOK, Network!Init PROVE NetworkCounts /\ size \in 0 .. Network!net.n
<1>1. Network!net.n \in Nat
  BY NetworkFinite DEF Network!Init
<1>. QED
  BY <1>1 DEF Network!Init, NetworkCounts

-----------------------------------------------------------------------------
(* The answer is of the sizes that the last search leaves.                 *)
NetworkReplied ==
    reply.kind = "ok" => pc = "done" /\ start = Network!net.n /\ reply = NetworkAnswered

LEMMA NetworkRepliedStep == ASSUME NetworkReplied, NetworkMoves PROVE NetworkReplied'
<1>. DEFINE kept == <<req, current_component, component_sizes>>
<1>1. ASSUME UNCHANGED kept PROVE NetworkAnswered' = NetworkAnswered
  BY <1>1 DEF NetworkAnswered, NetworkShown, NetworkRanked, Network!LargerFirst
<1>2. CASE NetworkListed
  <2>1. /\ start = Network!net.n /\ pc' = "done" /\ reply' = NetworkAnswered
        /\ UNCHANGED <<start, kept>>
    BY <1>2, Zenon DEF NetworkListed
  <2>. QED
    BY <1>1, <2>1 DEF NetworkReplied, Network!net
<1>3. CASE Network!Reject
  BY <1>3 DEF Network!Reject, NetworkReplied
<1>4. ASSUME NEW u \in queue, Network!Expand(u) PROVE NetworkReplied'
  BY <1>4 DEF Network!Expand, NetworkReplied
<1>5. CASE Network!Begin \/ Network!SkipLabelled \/ Network!Open \/ Network!Close
  BY <1>5
  DEF Network!Begin, Network!SkipLabelled, Network!Open, Network!Close, NetworkReplied
<1>6. CASE UNCHANGED Network!vars
  BY <1>1, <1>6 DEF Network!vars, NetworkReplied, Network!net
<1>. QED
  BY <1>2, <1>3, <1>4, <1>5, <1>6 DEF NetworkMoves

(* The list is the first Shown of all the components, the larger first.    *)
LEMMA NetworkAnswerRanks ==
    ASSUME NetworksOK, Graphwise, NetworkCounts
    PROVE  /\ NetworkRanked \in Seq(DOMAIN component_sizes) /\ Len(NetworkRanked) = current_component
           /\ current_component \in Nat /\ NetworkShown \in 0 .. current_component
           /\ NetworkShown < current_component => NetworkShown = req.top_k
           /\ \A c \in DOMAIN component_sizes :
                 \E k \in 1 .. current_component : NetworkRanked[k] = c
           /\ \A h, k \in 1 .. current_component : h < k =>
                 /\ NetworkRanked[h] # NetworkRanked[k]
                 /\ component_sizes[NetworkRanked[h]] >= component_sizes[NetworkRanked[k]]
<1>. DEFINE C == DOMAIN component_sizes
<1>1. current_component \in Nat /\ C = 0 .. current_component - 1
  BY NetworkFinite DEF Graphwise, NetworkShape
<1>2. IsFiniteSet(C) /\ Cardinality(C) = current_component
  BY <1>1, CountUpTo
<1>3. \A c \in C : component_sizes[c] \in Nat
  <2>1. \A c : Part(c) \in SUBSET Network!Labelled
    BY DEF Part
  <2>. QED
    BY <1>1, <2>1, PartsFinite, NetworkFinite DEF Graphwise, NetworkShape, NetworkCounts
<1>4. IsOrder(Network!LargerFirst, C)
  <2>1. \A x, y \in C : <<x, y>> \in Network!LargerFirst <=>
            \/ component_sizes[x] > component_sizes[y]
            \/ component_sizes[x] = component_sizes[y] /\ x < y
    BY DEF Network!LargerFirst
  <2>. QED
    BY <1>1, <1>3, <2>1 DEF IsOrder
<1>a. Sorted(NetworkRanked, C, Network!LargerFirst, current_component)
  BY <1>2, <1>4, InOrderSorts DEF NetworkRanked
<1>5. /\ NetworkRanked \in Seq(C) /\ NetworkRanked \in [1 .. current_component -> C]
      /\ Len(NetworkRanked) = current_component
      /\ \A c \in C : \E k \in 1 .. current_component : NetworkRanked[k] = c
      /\ \A h, k \in 1 .. current_component : h < k =>
            <<NetworkRanked[h], NetworkRanked[k]>> \in Network!LargerFirst /\ NetworkRanked[h] # NetworkRanked[k]
  BY <1>a DEF Sorted
<1>6. ASSUME NEW h \in 1 .. current_component, NEW k \in 1 .. current_component, h < k
      PROVE  component_sizes[NetworkRanked[h]] >= component_sizes[NetworkRanked[k]]
  <2>1. /\ NetworkRanked[h] \in C /\ NetworkRanked[k] \in C
        /\ <<NetworkRanked[h], NetworkRanked[k]>> \in Network!LargerFirst
    BY <1>5, <1>6
  <2>. QED
    BY <1>3, <2>1 DEF Network!LargerFirst
<1>7. req.top_k \in Nat
  BY DEF Graphwise, NetworkShape, NetworksOK, Network!IsRequest
<1>8. /\ NetworkShown \in 0 .. current_component
      /\ (NetworkShown < current_component => NetworkShown = req.top_k)
  BY <1>1, <1>5, <1>7 DEF NetworkShown
<1>. QED
  BY <1>1, <1>5, <1>6, <1>8

LEMMA NetworkAnswerCounts ==
    ASSUME NetworksOK, Graphwise, NetworkCounts, NetworkReplied PROVE Network!SizesCount
<1>. SUFFICES ASSUME reply.kind = "ok" PROVE Network!SizesCount
  BY DEF Network!SizesCount
<1>. DEFINE counted(c) == Cardinality({u \in Network!Nodes : component_id[u] = c})
            listed == {reply.components[k] : k \in DOMAIN reply.components}
            all == 0 .. reply.num_components - 1
            m == NetworkShown
            s == NetworkRanked
<1>1. Network!Labelled = Network!Nodes
  <2>1. /\ start = Network!net.n /\ Network!Labelled \subseteq Network!Nodes
        /\ \A u \in Network!Nodes : u < start => u \in Network!Labelled
    BY DEF NetworkReplied, Graphwise, NetworkPhases, NetworkShape
  <2>2. \A u \in Network!Nodes : u < Network!net.n
    BY NetworkFinite DEF Network!Nodes, Graphwise, NetworkShape
  <2>. QED
    BY <2>1, <2>2
<1>2. /\ reply.num_components = current_component
      /\ reply.largest = IF s = <<>> THEN 0 ELSE component_sizes[s[1]]
      /\ reply.components = SubSeq(s, 1, m)
      /\ all = DOMAIN component_sizes
  BY DEF NetworkReplied, NetworkAnswered, Graphwise, NetworkShape
<1>3. \A c \in all : component_sizes[c] = counted(c)
  BY <1>1, <1>2 DEF NetworkCounts, Part
<1>4. /\ s \in Seq(all) /\ Len(s) = current_component
      /\ current_component \in Nat /\ m \in 0 .. current_component
      /\ m < current_component => m = req.top_k
      /\ \A c \in all : \E k \in 1 .. current_component : s[k] = c
      /\ \A h, k \in 1 .. current_component : h < k =>
            s[h] # s[k] /\ component_sizes[s[h]] >= component_sizes[s[k]]
  BY <1>2, NetworkAnswerRanks
<1>. HIDE DEF counted, all, m, s
<1>5. /\ Len(reply.components) = m /\ reply.components \in Seq(all)
      /\ \A k \in 1 .. m : reply.components[k] = s[k]
  <2>1. CASE m = 0
    BY <1>2, <1>4, <2>1, SubSeqEmpty
  <2>2. CASE m # 0
    <3>1. m \in 1 .. Len(s) + 1 /\ 1 \in 1 .. Len(s) + 1 /\ m - 1 + 1 = m /\ 1 <= m
          /\ m \in Nat /\ m <= Len(s)
      BY <1>4, <2>2
    <3>2. \A k \in 1 .. m : 1 + k - 1 = k
      BY <3>1
    <3>. QED
      BY <1>2, <1>4, <3>1, <3>2, SubSeqProperties
  <2>. QED
    BY <2>1, <2>2
<1>6. listed = {s[k] : k \in 1 .. m}
  <2>1. DOMAIN reply.components = 1 .. m
    BY <1>5
  <2>. QED
    BY <1>5, <2>1
<1>. HIDE DEF listed
<1>7. ASSUME NEW c \in all PROVE counted(c) <= reply.largest
  <2>1. PICK k \in 1 .. current_component : s[k] = c
    BY <1>4
  <2>2. reply.largest = component_sizes[s[1]] /\ 1 \in 1 .. current_component
    BY <1>2, <1>4, <2>1
  <2>3. component_sizes[c] \in Int
    <3>1. {u \in Network!Nodes : component_id[u] = c} \in SUBSET Network!Labelled
      BY <1>1
    <3>2. NetworkShape /\ Network!net.n \in Nat
      BY NetworkFinite DEF Graphwise, NetworkShape
    <3>3. counted(c) \in 0 .. Network!net.n
      BY <3>1, <3>2, PartsFinite DEF counted
    <3>. QED
      BY <1>3, <3>2, <3>3
  <2>4. component_sizes[c] <= component_sizes[s[1]]
    <3>1. CASE k = 1
      BY <2>1, <2>3, <3>1
    <3>2. CASE k # 1
      <4>1. 1 < k
        BY <2>1, <3>2
      <4>. QED
        BY <1>4, <2>1, <2>2, <4>1
    <3>. QED
      BY <3>1, <3>2
  <2>. QED
    BY <1>3, <2>2, <2>4
<1>8. ASSUME NEW c \in listed, NEW d \in all \ listed PROVE counted(c) >= counted(d)
  <2>1. PICK h \in 1 .. m : s[h] = c
    BY <1>6
  <2>2. PICK k \in 1 .. current_component : s[k] = d
    BY <1>4
  <2>3. k \notin 1 .. m
    BY <1>6, <2>2
  <2>4. h < k /\ h \in 1 .. current_component
    BY <1>4, <2>1, <2>2, <2>3
  <2>5. c \in all
    BY <1>4, <2>1, <2>4
  <2>. QED
    BY <1>3, <1>4, <2>1, <2>2, <2>4, <2>5
<1>9. ASSUME all # listed PROVE Cardinality(listed) = req.top_k
  <2>1. m < current_component
    <3>. SUFFICES ASSUME m = current_component PROVE FALSE
      BY <1>4
    <3>1. listed \subseteq all
      BY <1>4, <1>6
    <3>2. all \subseteq listed
      BY <1>4, <1>6
    <3>. QED
      BY <1>9, <3>1, <3>2
  <2>. DEFINE f == [k \in 1 .. m |-> s[k]]
  <2>2. \A h, k \in 1 .. m : s[h] = s[k] => h = k
    BY <1>4
  <2>3. f \in Bijection(1 .. m, listed)
    BY <1>6, <2>2 DEF Bijection, Injection, Surjection, IsInjective
  <2>4. IsFiniteSet(1 .. m) /\ Cardinality(1 .. m) = m
    BY <1>4, FS_Interval
  <2>5. Cardinality(listed) = m
    BY <2>3, <2>4, FS_Bijection DEF ExistsBijection
  <2>. QED
    BY <1>4, <2>1, <2>5
<1>10. \A S : Network!Cardinality(S) = Cardinality(S)
  BY DEF Network!Cardinality, Cardinality
<1>. QED
  BY <1>1, <1>3, <1>7, <1>8, <1>9, <1>10 DEF Network!SizesCount, counted, listed, all

(* Of other calls, nothing moves what connected_components would keep.     *)
NetworkRight ==
    call = "components" =>
        /\ Graphwise /\ Network!ComponentsJoined
        /\ NetworkCounts /\ NetworkReplied

LEMMA NetworkRightInit == Init => NetworkRight
<1>. SUFFICES ASSUME Init, call = "components" PROVE NetworkRight
  BY DEF NetworkRight
<1>1. Network!Init
  BY DEF Init
<1>2. Graphwise
  BY <1>1, NetworksFine, NetworkInit
<1>3. Network!ComponentsJoined
  BY <1>1 DEF Network!Init, Network!ComponentsJoined, Network!Labelled
<1>4. NetworkCounts
  BY <1>1, NetworksFine, NetworkCountsInit
<1>5. NetworkReplied
  BY <1>1 DEF Network!Init, NetworkReplied, Network!NoReply
<1>. QED
  BY <1>2, <1>3, <1>4, <1>5 DEF NetworkRight

LEMMA NetworkRightStep == NetworkRight /\ [Next]_vars => NetworkRight'
<1>. SUFFICES ASSUME NetworkRight, [Next]_vars, call' = "components" PROVE NetworkRight'
  BY DEF NetworkRight
<1>1. call = "components"
  BY DEF Next, Isochrone, ConnectedComponents, Centrality, MatchTrace, PairQuery, vars
<1>2. NetworkMoves
  <2>1. CASE Next
    BY <1>1, <2>1, NetworkNext
    DEF Next, Isochrone, ConnectedComponents, Centrality, MatchTrace, PairQuery
  <2>2. CASE UNCHANGED vars
    BY <2>2 DEF vars, networkLocals, NetworkMoves, Network!vars
  <2>. QED
    BY <2>1, <2>2
<1>. QED
  BY <1>1, <1>2, NetworksFine, GraphwiseStep, NetworkJoinedStep,
     NetworkCountsStep, NetworkRepliedStep
  DEF NetworkRight

(* Of a call of connected_components, on whatever network: no street leads *)
(* from a component that has been closed into another.                     *)
THEOREM ComponentsSeparated == Spec => []ComponentsClosed
<1>1. NetworkRight => ComponentsClosed
  BY DEF NetworkRight, ComponentsClosed, Network!ComponentsClosed, Network!Closed,
         Graphwise, NetworkShape, NetworkPhases, NoStreetOut
<1>. QED
  BY <1>1, NetworkRightInit, NetworkRightStep, PTL DEF Spec

(* Of the same calls: nodes given one component are joined by streets.     *)
THEOREM ComponentsTogether == Spec => []ComponentsJoined
<1>1. NetworkRight => ComponentsJoined
  BY DEF NetworkRight, ComponentsJoined
<1>. QED
  BY <1>1, NetworkRightInit, NetworkRightStep, PTL DEF Spec

(* Of the same calls: the answer counts every node once, and lists top_k   *)
(* components of which none is smaller than one left out.                  *)
THEOREM ComponentsCounted == Spec => []SizesCount
<1>1. ASSUME NetworkRight, call = "components" PROVE Network!SizesCount
  BY <1>1, NetworksFine, NetworkAnswerCounts DEF NetworkRight
<1>2. NetworkRight => SizesCount
  BY <1>1 DEF SizesCount
<1>. QED
  BY <1>2, NetworkRightInit, NetworkRightStep, PTL DEF Spec

-----------------------------------------------------------------------------
(* isochrone.                                                              *)

LEMMA AreasFine == AreaAlone!RequestsOK
BY CallsAssumption
DEF AreaAlone!RequestsOK, AreaAlone!IsRequest, Area!IsRequest, AreaAlone!IsGraph,
    Area!IsGraph, AreaAlone!IsProfile, Area!IsProfile, AreaAlone!Edge, Area!Edge,
    AreaAlone!TurnRestriction, Area!TurnRestriction

LEMMA AreaInit == Area!Init => AreaAlone!Init
BY DEF Area!Init, AreaAlone!Init

LEMMA AreaNext == Area!Next => AreaAlone!Next
<1>1. Area!RejectNode => AreaAlone!RejectNode
  BY DEF Area!RejectNode, AreaAlone!RejectNode, Area!G, AreaAlone!G
<1>2. Area!Begin => AreaAlone!Begin
  BY DEF Area!Begin, AreaAlone!Begin, Area!G, AreaAlone!G
<1>3. ASSUME NEW e \in heap, Area!Skip(e) PROVE AreaAlone!Skip(e)
  BY <1>3 DEF Area!Skip, AreaAlone!Skip, Area!Nearest, AreaAlone!Nearest
<1>4. ASSUME NEW e \in heap, Area!Stop(e) PROVE AreaAlone!Stop(e)
  BY <1>4 DEF Area!Stop, AreaAlone!Stop, Area!Nearest, AreaAlone!Nearest
<1>5. ASSUME NEW e \in heap, Area!Reach(e) PROVE AreaAlone!Reach(e)
  BY <1>5, Zenon
  DEF Area!Reach, AreaAlone!Reach, Area!Nearest, AreaAlone!Nearest,
      Area!Sooner, AreaAlone!Sooner, Area!Within, AreaAlone!Within,
      Area!G, AreaAlone!G, Area!P, AreaAlone!P, Area!usable, AreaAlone!usable,
      Area!pace_of_class, AreaAlone!pace_of_class,
      Area!edge_weight, AreaAlone!edge_weight,
      Area!outgoing_edges, AreaAlone!outgoing_edges
<1>6. Area!Answer => AreaAlone!Answer
  BY DEF Area!Answer, AreaAlone!Answer
<1>. QED
  BY <1>1, <1>2, <1>3, <1>4, <1>5, <1>6 DEF Area!Next, AreaAlone!Next

(* Nothing is ever expanded by other calls.                                *)
AreaRight ==
    /\ call = "isochrone" => AreaAlone!IInv
    /\ call # "isochrone" => visited = {}

LEMMA AreaRightInit == Init => AreaRight
<1>1. ASSUME Init, call = "isochrone" PROVE AreaAlone!IInv
  <2>1. AreaAlone!Init
    BY <1>1, AreaInit DEF Init
  <2>. QED
    BY <2>1, AreasFine, AreaAlone!IInvInit
<1>2. ASSUME Init, call # "isochrone" PROVE visited = {}
  BY <1>2 DEF Init, AreaIdle
<1>. QED
  BY <1>1, <1>2 DEF AreaRight

LEMMA AreaMoves ==
    ASSUME [Next]_vars, call = "isochrone"
    PROVE  [AreaAlone!Next]_(AreaAlone!vars)
<1>1. CASE Next
  BY <1>1, AreaNext
  DEF Next, Isochrone, ConnectedComponents, Centrality, MatchTrace, PairQuery
<1>2. CASE UNCHANGED vars
  BY <1>2 DEF vars, searchLocals, areaLocals, AreaAlone!vars
<1>. QED
  BY <1>1, <1>2

LEMMA AreaRightStep == AreaRight /\ [Next]_vars => AreaRight'
<1>. SUFFICES ASSUME AreaRight, [Next]_vars PROVE AreaRight'
  OBVIOUS
<1>1. call' = call
  BY DEF Next, Isochrone, ConnectedComponents, Centrality, MatchTrace, PairQuery, vars
<1>2. CASE call = "isochrone"
  BY <1>1, <1>2, AreaMoves, AreasFine, AreaAlone!IInvStep DEF AreaRight
<1>3. CASE call # "isochrone"
  <2>1. visited' = visited
    BY <1>3 DEF Next, Isochrone, ConnectedComponents, Centrality, MatchTrace, PairQuery,
                vars, areaLocals
  <2>. QED
    BY <1>1, <1>3, <2>1 DEF AreaRight
<1>. QED
  BY <1>2, <1>3

(* Of every call: the cost of a node that isochrone has expanded, and      *)
(* answered, is never revised.                                             *)
THEOREM ExpandedStays == Spec => ReachedIsFinal
<1>1. AreaRight /\ [Next]_vars
        => [\A u \in visited : dist'[u] = dist[u]]_(Area!vars)
  <2>. SUFFICES ASSUME AreaRight, [Next]_vars, Area!vars' # Area!vars, NEW u \in visited
                PROVE  dist'[u] = dist[u]
    OBVIOUS
  <2>1. call = "isochrone" /\ AreaAlone!IInv
    BY DEF AreaRight
  <2>2. Area!Next
    BY <2>1 DEF Next, Isochrone, ConnectedComponents, Centrality, MatchTrace, PairQuery,
                vars, searchLocals, areaLocals, Area!vars
  <2>. QED
    BY <2>1, <2>2, AreaNext, AreasFine, AreaAlone!CostsStay
<1>. QED
  BY <1>1, AreaRightInit, AreaRightStep, PTL DEF Spec, ReachedIsFinal, Area!ReachedIsFinal

(* Area and AreaAlone read the road graph with the same definitions.       *)
LEMMA AreaSameCosts ==
    ASSUME NEW g, NEW p, NEW s, NEW u
    PROVE  Area!CostsTo(g, p, s, u) = AreaAlone!CostsTo(g, p, s, u)
<1>1. \A c : Area!pace_of_class(p, c) = AreaAlone!pace_of_class(p, c)
  BY DEF Area!pace_of_class, AreaAlone!pace_of_class
<1>2. \A i : Area!edge_weight(g, p, i) = AreaAlone!edge_weight(g, p, i)
  BY <1>1 DEF Area!edge_weight, AreaAlone!edge_weight
<1>3. \A i : Area!usable(g, p, i) = AreaAlone!usable(g, p, i)
  BY <1>1 DEF Area!usable, AreaAlone!usable
<1>4. \A a, b, c : Area!turn_is_banned(g, a, b, c) = AreaAlone!turn_is_banned(g, a, b, c)
  BY DEF Area!turn_is_banned, AreaAlone!turn_is_banned
<1>5. \A a : Area!outgoing_edges(g, a) = AreaAlone!outgoing_edges(g, a)
  BY DEF Area!outgoing_edges, AreaAlone!outgoing_edges
<1>6. \A k : Area!exits(g, p, k) = AreaAlone!exits(g, p, k)
  BY <1>3, <1>4, <1>5 DEF Area!exits, AreaAlone!exits
<1>7. \A i : Area!HeadOf(g, i) = AreaAlone!HeadOf(g, i)
  BY DEF Area!HeadOf, AreaAlone!HeadOf
<1>8. Area!Start(s) = AreaAlone!Start(s)
  BY DEF Area!Start, AreaAlone!Start
<1>9. \A X : Area!Cheapest(X) = AreaAlone!Cheapest(X)
  BY DEF Area!Cheapest, AreaAlone!Cheapest
<1>10. \A r, X : Area!Further(r, X) = AreaAlone!Further(r, X)
  BY DEF Area!Further, AreaAlone!Further
<1>11. \A x, r : Area!CheapestDrives(x, r) = AreaAlone!CheapestDrives(x, r)
  BY <1>9, <1>10 DEF Area!CheapestDrives, AreaAlone!CheapestDrives
<1>12. \A x, r : Area!LeastCostsOver(x, r) = AreaAlone!LeastCostsOver(x, r)
  <2>1. \A X : Area!Cardinality(X) = AreaAlone!Cardinality(X)
    BY DEF Area!Cardinality, AreaAlone!Cardinality
  <2>. SUFFICES ASSUME NEW x, NEW r
                PROVE  Area!LeastCostsOver(x, r) = AreaAlone!LeastCostsOver(x, r)
    OBVIOUS
  <2>. DEFINE final == AreaAlone!CheapestDrives(x, r)[AreaAlone!Cardinality(DOMAIN r) - 1]
  <2>2. Area!CheapestDrives(x, r)[Area!Cardinality(DOMAIN r) - 1] = final
    BY <1>11, <2>1
  <2>. HIDE DEF final
  <2>3. Area!LeastCostsOver(x, r) =
          [k \in {d[1] : d \in final} |-> (CHOOSE d \in final : d[1] = k)[2]]
    BY <2>2 DEF Area!LeastCostsOver
  <2>. QED
    BY <2>3 DEF AreaAlone!LeastCostsOver, final
<1>13. Area!LabelsFrom(g, s) = AreaAlone!LabelsFrom(g, s)
  BY <1>7, <1>8 DEF Area!LabelsFrom, AreaAlone!LabelsFrom
<1>14. Area!RoadsFrom(g, p, s) = AreaAlone!RoadsFrom(g, p, s)
  BY <1>2, <1>6, <1>7, <1>13 DEF Area!RoadsFrom, AreaAlone!RoadsFrom
<1>15. Area!LeastCosts(g, p, s) = AreaAlone!LeastCosts(g, p, s)
  BY <1>8, <1>12, <1>14 DEF Area!LeastCosts, AreaAlone!LeastCosts
<1>. QED
  BY <1>15 DEF Area!CostsTo, AreaAlone!CostsTo

(* Of every call of isochrone, on whatever graph: when it is done, it has  *)
(* answered the nodes within the budget, all of them and no other, each    *)
(* once at its least cost, the nearest first.                              *)
THEOREM IsochroneExact == Spec => []ReachableExactly
<1>1. ASSUME AreaRight, call = "isochrone" PROVE Area!ReachableExactly
  <2>1. AreaAlone!ReachableExactly
    BY <1>1, AreasFine, AreaAlone!ExactlyWhatCanBeReached DEF AreaRight
  <2>2. /\ Area!G = AreaAlone!G /\ Area!P = AreaAlone!P
        /\ Area!Unrestricted(Area!G) = AreaAlone!Unrestricted(Area!G)
    BY DEF Area!G, AreaAlone!G, Area!P, AreaAlone!P,
           Area!Unrestricted, AreaAlone!Unrestricted
  <2>3. \A u : Area!CostsTo(Area!Unrestricted(Area!G), Area!P, req.source, u) =
               AreaAlone!CostsTo(AreaAlone!Unrestricted(AreaAlone!G), AreaAlone!P, req.source, u)
    BY <2>2, AreaSameCosts
  <2>. QED
    BY <2>1, <2>2, <2>3 DEF Area!ReachableExactly, AreaAlone!ReachableExactly
<1>2. AreaRight => ReachableExactly
  BY <1>1 DEF ReachableExactly
<1>. QED
  BY <1>2, AreaRightInit, AreaRightStep, PTL DEF Spec

-----------------------------------------------------------------------------
(* od_matrix and closest_facility.                                         *)

LEMMA PairsFine ==
    ASSUME req \in Pairs
    PROVE  /\ IsGraph(Pair!G) /\ IsProfile(Pair!P) /\ Pair!G.n \in Nat
           /\ req.sources \in Seq(Int) /\ req.targets \in Seq(Int)
<1>1. Pair!IsRequest(req)
  BY CallsAssumption
<1>. QED
  BY <1>1 DEF Pair!IsRequest, Pair!IsGraph, Pair!IsProfile, Pair!Edge, Pair!TurnRestriction,
              IsGraph, IsProfile, Edge, TurnRestriction, Pair!G, Pair!P

(* Pair reads the road graph with the definitions the theorems are about.  *)
LEMMA PairSameCosts ==
    ASSUME NEW g, NEW p, NEW s, NEW u
    PROVE  Pair!CostsTo(g, p, s, u) = CostsTo(g, p, s, u)
<1>1. \A c : Pair!pace_of_class(p, c) = pace_of_class(p, c)
  BY DEF Pair!pace_of_class, pace_of_class
<1>2. \A i : Pair!edge_weight(g, p, i) = edge_weight(g, p, i)
  BY <1>1 DEF Pair!edge_weight, edge_weight
<1>3. \A i : Pair!usable(g, p, i) = usable(g, p, i)
  BY <1>1 DEF Pair!usable, usable
<1>4. \A a, b, c : Pair!turn_is_banned(g, a, b, c) = turn_is_banned(g, a, b, c)
  BY DEF Pair!turn_is_banned, turn_is_banned
<1>5. \A a : Pair!outgoing_edges(g, a) = outgoing_edges(g, a)
  BY DEF Pair!outgoing_edges, outgoing_edges
<1>6. \A k : Pair!exits(g, p, k) = exits(g, p, k)
  BY <1>3, <1>4, <1>5 DEF Pair!exits, exits
<1>7. \A i : Pair!HeadOf(g, i) = HeadOf(g, i)
  BY DEF Pair!HeadOf, HeadOf
<1>8. Pair!Start(s) = Start(s)
  BY DEF Pair!Start, Start
<1>9. \A X : Pair!Cheapest(X) = Cheapest(X)
  BY DEF Pair!Cheapest, Cheapest
<1>10. \A r, X : Pair!Further(r, X) = Further(r, X)
  BY DEF Pair!Further, Further
<1>11. \A x, r : Pair!CheapestDrives(x, r) = CheapestDrives(x, r)
  BY <1>9, <1>10 DEF Pair!CheapestDrives, CheapestDrives
<1>12. \A x, r : Pair!LeastCostsOver(x, r) = LeastCostsOver(x, r)
  <2>1. \A X : Pair!Cardinality(X) = Cardinality(X)
    BY DEF Pair!Cardinality, Cardinality
  <2>. SUFFICES ASSUME NEW x, NEW r
                PROVE  Pair!LeastCostsOver(x, r) = LeastCostsOver(x, r)
    OBVIOUS
  <2>. DEFINE final == CheapestDrives(x, r)[Cardinality(DOMAIN r) - 1]
  <2>2. Pair!CheapestDrives(x, r)[Pair!Cardinality(DOMAIN r) - 1] = final
    BY <1>11, <2>1
  <2>. HIDE DEF final
  <2>3. Pair!LeastCostsOver(x, r) =
          [k \in {d[1] : d \in final} |-> (CHOOSE d \in final : d[1] = k)[2]]
    BY <2>2 DEF Pair!LeastCostsOver
  <2>. QED
    BY <2>3 DEF LeastCostsOver, final
<1>13. Pair!LabelsFrom(g, s) = LabelsFrom(g, s)
  BY <1>7, <1>8 DEF Pair!LabelsFrom, LabelsFrom
<1>14. Pair!RoadsFrom(g, p, s) = RoadsFrom(g, p, s)
  BY <1>2, <1>6, <1>7, <1>13 DEF Pair!RoadsFrom, RoadsFrom
<1>15. Pair!LeastCosts(g, p, s) = LeastCosts(g, p, s)
  BY <1>8, <1>12, <1>14 DEF Pair!LeastCosts, LeastCosts
<1>. QED
  BY <1>15 DEF Pair!CostsTo, CostsTo

(* dijkstra answers one cost where there is a drive, and none otherwise.   *)
LEMMA DijkstraFacts ==
    ASSUME req \in Pairs, NEW u \in Pair!Nodes, NEW w
    PROVE  /\ Pair!Dijkstra(u, w) \subseteq Nat
           /\ \A c, d \in Pair!Dijkstra(u, w) : c = d
<1>. DEFINE costs == Pair!CostsTo(Pair!G, Pair!P, u, w)
            least == LeastCosts(Pair!G, Pair!P, u)
<1>1. IsGraph(Pair!G) /\ IsProfile(Pair!P) /\ u \in Nat
  BY PairsFine DEF Pair!Nodes
<1>2. \A k \in DOMAIN least : least[k] \in Nat
  BY <1>1, LeastCostsClose
<1>3. costs = CostsTo(Pair!G, Pair!P, u, w)
  BY PairSameCosts
<1>4. costs \subseteq Nat
  BY <1>2, <1>3 DEF CostsTo
<1>. HIDE DEF costs
<1>5. Pair!Dijkstra(u, w) = {c \in costs : \A x \in costs : c <= x}
  BY DEF Pair!Dijkstra, Pair!Least, costs
<1>6. Pair!Dijkstra(u, w) \subseteq Nat
  BY <1>4, <1>5
<1>7. ASSUME NEW c \in Pair!Dijkstra(u, w), NEW d \in Pair!Dijkstra(u, w) PROVE c = d
  <2>1. c <= d /\ d <= c /\ c \in Nat /\ d \in Nat
    BY <1>5, <1>6
  <2>. QED
    BY <2>1
<1>. QED
  BY <1>6, <1>7

(* The costs of driving from the i-th source to a node.                    *)
Quick(i, w) == Pair!Dijkstra(sources[i], w)

Found(i, w, c) == [source |-> sources[i], target |-> w, cost |-> c]

IsList(s) == Len(s) \in Nat /\ s = [k \in 1 .. Len(s) |-> s[k]]

(* Both lists are of nodes, and the loops are at one of their positions.   *)
Walking ==
    /\ req \in Pairs
    /\ sources \in Seq(Pair!Nodes) /\ targets \in Seq(Pair!Nodes)
    /\ turn \in 1 .. Len(sources) /\ left \subseteq Pair!ToAsk(targets)
    /\ IsList(results)

(* od_matrix: has asked for the way from the i-th source to w, has one     *)
(* result for each way there is, and two for the same only if two sources  *)
(* are one node.                                                           *)
AskedFor(i, w) ==
    i \in 1 .. turn /\ w \in Pair!ToAsk(targets) /\ (i = turn => w \notin left)

MatrixRight ==
    /\ best = Pair!NoBest
    /\ \A k \in DOMAIN results : \E i, w : AskedFor(i, w) /\ \E c \in Quick(i, w) :
          results[k] = Found(i, w, c)
    /\ \A i, w : AskedFor(i, w) => \A c \in Quick(i, w) : \E k \in DOMAIN results :
          results[k] = Found(i, w, c)
    /\ Pair!OneEach(sources) => \A k, l \in DOMAIN results :
          results[k].source = results[l].source /\ results[k].target = results[l].target
            => k = l

(* closest_facility: has found one result for each of the first n sources  *)
(* from which a facility can be reached, no facility quicker.              *)
Closest(i, r, facilities) ==
    \E f \in DOMAIN targets : \E c \in Quick(i, targets[f]) :
        /\ r = Found(i, targets[f], c)
        /\ \A h \in facilities : \A d \in Quick(i, targets[h]) : c <= d

Served(n) == {i \in 1 .. n : \E f \in DOMAIN targets : Quick(i, targets[f]) # {}}

ClosestRight(found, n) ==
    /\ \A k \in DOMAIN found : \E i \in 1 .. n : Closest(i, found[k], DOMAIN targets)
    /\ Len(found) = Cardinality(Served(n))

BestRight ==
    LET asked == DOMAIN targets \ left
    IN  \/ best = Pair!NoBest /\ \A f \in asked : Quick(turn, targets[f]) = {}
        \/ Closest(turn, best, asked)

PairAnswered ==
    [kind |-> "ok", entries |-> Pair!Entries(results),
     unreachable |-> IF Pair!Matrix THEN 0 ELSE Len(sources) - Len(results)]

PairRight ==
    call = "pairs" =>
        \/ /\ pc = "start" /\ Pair!Init
        \/ /\ pc = "done" /\ reply = [kind |-> "bad_request"]
           /\ sources = <<>> /\ targets = <<>> /\ turn = 1 /\ left = {} /\ results = <<>>
        \/ /\ pc = "ask" /\ Walking /\ reply = Pair!NoReply
           /\ IF Pair!Matrix THEN MatrixRight ELSE ClosestRight(results, turn - 1) /\ BestRight
        \/ /\ pc = "done" /\ Walking /\ reply = PairAnswered
           /\ turn = Len(sources) /\ left = {}
           /\ IF Pair!Matrix THEN MatrixRight ELSE ClosestRight(results, turn)

-----------------------------------------------------------------------------
LEMMA OneMore ==
    ASSUME NEW s, NEW x, IsList(s)
    PROVE  LET a == Append(s, x)
           IN  /\ DOMAIN s = 1 .. Len(s) /\ DOMAIN a = 1 .. Len(s) + 1 /\ Len(a) = Len(s) + 1
               /\ \A k \in 1 .. Len(s) : a[k] = s[k]
               /\ a[Len(s) + 1] = x /\ IsList(a)
<1>. DEFINE S == {s[k] : k \in 1 .. Len(s)} \cup {x}
            n == Len(s)
            a == Append(s, x)
<1>1. s \in [1 .. n -> S] /\ x \in S /\ n \in Nat
  BY DEF IsList
<1>. HIDE DEF S, n
<1>2. s \in Seq(S) /\ Len(s) = n
  BY <1>1 DEF n
<1>3. a \in Seq(S) /\ Len(a) = n + 1 /\ a[n + 1] = x /\ \A k \in 1 .. n : a[k] = s[k]
  BY <1>1, <1>2
<1>. HIDE DEF a
<1>4. PICK m \in Nat : m = n + 1
  BY <1>1
<1>5. DOMAIN a = 1 .. m /\ a = [k \in 1 .. m |-> a[k]]
  BY <1>3, <1>4
<1>. QED
  BY <1>1, <1>3, <1>4, <1>5 DEF n, a, IsList

(* What a step keeps that leaves the question and the snapped lists alone. *)
LEMMA Standing ==
    ASSUME UNCHANGED <<req, sources, targets>>
    PROVE  /\ \A i, x : Quick(i, x)' = Quick(i, x)
           /\ \A i, x, c : Found(i, x, c)' = Found(i, x, c)
           /\ \A n : Served(n)' = Served(n)
           /\ \A i, r, F : Closest(i, r, F)' <=> Closest(i, r, F)
           /\ Pair!Nodes' = Pair!Nodes /\ Pair!ToAsk(targets)' = Pair!ToAsk(targets)
           /\ Pair!OneEach(sources)' = Pair!OneEach(sources)
           /\ Pair!NoBest' = Pair!NoBest /\ (Pair!Matrix' <=> Pair!Matrix)
<1>1. /\ \A i, x : Quick(i, x)' = Quick(i, x)
      /\ \A i, x, c : Found(i, x, c)' = Found(i, x, c)
  BY DEF Quick, Found, Pair!Dijkstra, Pair!G, Pair!P
<1>2. \A n : Served(n)' = Served(n)
  BY <1>1 DEF Served
<1>3. \A i, r, F : Closest(i, r, F)' <=> Closest(i, r, F)
  BY <1>1 DEF Closest
<1>. QED
  BY <1>1, <1>2, <1>3
  DEF Pair!Nodes, Pair!G, Pair!ToAsk, Pair!Matrix, Pair!OneEach, Pair!NoBest

(* The snapped lists are lists of nodes.                                   *)
LEMMA SnapRight ==
    ASSUME req \in Pairs, Pair!Init, Pair!Snap
    PROVE  /\ Walking' /\ turn' = 1 /\ pc' = "ask" /\ reply' = Pair!NoReply
           /\ left' = Pair!ToAsk(targets)' /\ best' = Pair!NoBest /\ results' = <<>>
<1>1. /\ req.sources \in Seq(Int) /\ req.targets \in Seq(Int)
      /\ Len(req.sources) >= 1
  BY PairsFine, CallsAssumption DEF Pair!Snap, Pair!Acceptable
<1>2. PICK f \in [Pair!Points -> Pair!Nodes] :
          /\ sources' = [i \in DOMAIN req.sources |-> f[req.sources[i]]]
          /\ targets' = [i \in DOMAIN req.targets |-> f[req.targets[i]]]
          /\ left' = Pair!ToAsk(targets')
  BY Zenon DEF Pair!Snap, Pair!Snappings
<1>3. /\ \A i \in DOMAIN req.sources : f[req.sources[i]] \in Pair!Nodes
      /\ \A i \in DOMAIN req.targets : f[req.targets[i]] \in Pair!Nodes
  BY <1>2 DEF Pair!Points
<1>4. /\ sources' \in Seq(Pair!Nodes) /\ targets' \in Seq(Pair!Nodes)
      /\ Len(sources') = Len(req.sources) /\ Len(sources') \in Nat
  <2>1. PICK m \in Nat : m = Len(req.sources) /\ DOMAIN req.sources = 1 .. m
    BY <1>1
  <2>2. PICK k \in Nat : k = Len(req.targets) /\ DOMAIN req.targets = 1 .. k
    BY <1>1
  <2>3. sources' \in [1 .. m -> Pair!Nodes] /\ targets' \in [1 .. k -> Pair!Nodes]
    BY <1>2, <1>3, <2>1, <2>2
  <2>. QED
    BY <2>1, <2>2, <2>3
<1>5. UNCHANGED <<req, turn, best, results, reply>> /\ pc' = "ask"
  BY Zenon DEF Pair!Snap
<1>6. turn' = 1 /\ best' = Pair!NoBest /\ results' = <<>> /\ reply' = Pair!NoReply
      /\ Pair!Nodes' = Pair!Nodes /\ Pair!Matrix' = Pair!Matrix
  BY <1>5 DEF Pair!Init, Pair!Nodes, Pair!G, Pair!Matrix
<1>7. left' = Pair!ToAsk(targets)'
  BY <1>2, <1>6 DEF Pair!ToAsk
<1>8. IsList(results)'
  BY <1>6 DEF IsList
<1>9. turn' \in 1 .. Len(sources')
  BY <1>1, <1>4, <1>6
<1>10. Walking'
  BY <1>4, <1>5, <1>6, <1>7, <1>8, <1>9 DEF Walking
<1>. QED
  BY <1>5, <1>6, <1>7, <1>10

LEMMA AskPairRight ==
    ASSUME Walking, MatrixRight, NEW w \in left, Pair!AskPair(w), pc = "ask"
    PROVE  Walking' /\ MatrixRight'
<1>1. /\ UNCHANGED <<req, pc, sources, targets, turn, best, reply>>
      /\ left' = left \ {w} /\ Pair!Matrix
  BY DEF Pair!AskPair
<1>2. /\ \A i, x : Quick(i, x)' = Quick(i, x)
      /\ \A i, x, c : Found(i, x, c)' = Found(i, x, c)
      /\ Pair!Nodes' = Pair!Nodes /\ Pair!ToAsk(targets)' = Pair!ToAsk(targets)
      /\ Pair!OneEach(sources)' = Pair!OneEach(sources)
      /\ Pair!NoBest' = Pair!NoBest
  BY <1>1, Standing
<1>3. \A i, x : AskedFor(i, x)' <=> AskedFor(i, x) \/ (i = turn /\ x = w)
  BY <1>1, <1>2 DEF AskedFor, Walking
<1>4. CASE Quick(turn, w) = {}
  <2>1. results' = results
    BY <1>4 DEF Pair!AskPair, Quick
  <2>2. Walking'
    BY <1>1, <1>2, <2>1 DEF Walking
  <2>3. MatrixRight'
    BY <1>1, <1>2, <1>3, <1>4, <2>1 DEF MatrixRight
  <2>. QED
    BY <2>2, <2>3
<1>5. CASE Quick(turn, w) # {}
  <2>1. PICK c \in Quick(turn, w) : results' = Append(results, Found(turn, w, c))
    BY <1>5 DEF Pair!AskPair, Quick, Found
  <2>. DEFINE n == Len(results)
              new == Found(turn, w, c)
  <2>2. n \in Nat /\ IsList(results)
    BY DEF Walking, IsList
  <2>3. /\ DOMAIN results = 1 .. n /\ DOMAIN results' = 1 .. n + 1 /\ Len(results') = n + 1
        /\ \A k \in 1 .. n : results'[k] = results[k]
        /\ results'[n + 1] = new
        /\ IsList(results')
    BY <2>1, <2>2, OneMore
  <2>. HIDE DEF n, new
  <2>4. Walking'
    BY <1>1, <1>2, <2>2, <2>3 DEF Walking
  <2>5. \A d \in Quick(turn, w) : d = c
    <3>1. sources[turn] \in Pair!Nodes
      BY DEF Walking
    <3>. QED
      BY <2>1, <3>1, DijkstraFacts DEF Quick, Walking
  <2>6. ASSUME NEW k \in DOMAIN results'
        PROVE  \E i, x : AskedFor(i, x)' /\ \E d \in Quick(i, x) : results'[k] = Found(i, x, d)
    <3>1. CASE k = n + 1
      BY <1>3, <2>1, <2>3, <3>1 DEF new
    <3>2. CASE k \in 1 .. n
      <4>1. \E i, x : AskedFor(i, x) /\ \E d \in Quick(i, x) : results[k] = Found(i, x, d)
        BY <2>3, <3>2 DEF MatrixRight
      <4>. QED
        BY <1>3, <2>3, <3>2, <4>1
    <3>. QED
      BY <2>2, <2>3, <3>1, <3>2
  <2>7. ASSUME NEW i, NEW x, AskedFor(i, x)', NEW d \in Quick(i, x)
        PROVE  \E k \in DOMAIN results' : results'[k] = Found(i, x, d)
    <3>1. CASE AskedFor(i, x)
      <4>1. PICK k \in DOMAIN results : results[k] = Found(i, x, d)
        BY <3>1 DEF MatrixRight
      <4>. QED
        BY <2>2, <2>3, <4>1
    <3>2. CASE i = turn /\ x = w
      <4>1. n + 1 \in DOMAIN results' /\ results'[n + 1] = Found(i, x, d)
        BY <2>2, <2>3, <2>5, <3>2 DEF new
      <4>. QED
        BY <4>1
    <3>. QED
      BY <1>3, <2>7, <3>1, <3>2
  <2>8. ASSUME Pair!OneEach(sources), NEW k \in 1 .. n,
               results[k].source = new.source, results[k].target = new.target
        PROVE  FALSE
    <3>1. PICK i, x, d : AskedFor(i, x) /\ results[k] = Found(i, x, d)
      BY <2>3 DEF MatrixRight
    <3>2. sources[i] = sources[turn] /\ x = w
      BY <2>8, <3>1 DEF new, Found
    <3>3. i \in DOMAIN sources /\ turn \in DOMAIN sources
      BY <3>1 DEF AskedFor, Walking
    <3>4. i = turn
      BY <2>8, <3>2, <3>3 DEF Pair!OneEach
    <3>. QED
      BY <3>1, <3>2, <3>4 DEF AskedFor
  <2>9. ASSUME Pair!OneEach(sources), NEW k \in DOMAIN results', NEW l \in DOMAIN results',
               results'[k].source = results'[l].source, results'[k].target = results'[l].target
        PROVE  k = l
    <3>1. CASE k \in 1 .. n /\ l \in 1 .. n
      BY <2>3, <2>9, <3>1 DEF MatrixRight
    <3>2. CASE k = n + 1 /\ l = n + 1
      BY <3>2
    <3>3. CASE k = n + 1 /\ l \in 1 .. n
      BY <2>3, <2>8, <2>9, <3>3
    <3>4. CASE l = n + 1 /\ k \in 1 .. n
      BY <2>3, <2>8, <2>9, <3>4
    <3>. QED
      BY <2>2, <2>3, <3>1, <3>2, <3>3, <3>4
  <2>10. MatrixRight'
    BY <1>1, <1>2, <2>6, <2>7, <2>9 DEF MatrixRight
  <2>. QED
    BY <2>4, <2>10
<1>. QED
  BY <1>4, <1>5

LEMMA ClosestIsFound ==
    ASSUME Walking, NEW i \in 1 .. Len(sources), NEW r, NEW F, Closest(i, r, F)
    PROVE  r # Pair!NoBest /\ r.cost \in Nat
<1>1. PICK f, c : c \in Quick(i, targets[f]) /\ r = Found(i, targets[f], c)
  BY DEF Closest
<1>2. sources[i] \in Pair!Nodes
  BY DEF Walking
<1>3. c \in Nat
  BY <1>1, <1>2, DijkstraFacts DEF Quick, Walking
<1>4. r.cost = c /\ Pair!NoBest.cost = -1
  BY <1>1 DEF Found, Pair!NoBest
<1>. QED
  BY <1>3, <1>4

LEMMA AskFacilityRight ==
    ASSUME Walking, ClosestRight(results, turn - 1), BestRight,
           NEW f \in left, Pair!AskFacility(f)
    PROVE  Walking' /\ ClosestRight(results, turn - 1)' /\ BestRight'
<1>1. /\ UNCHANGED <<req, pc, sources, targets, turn, results, reply>>
      /\ left' = left \ {f} /\ ~Pair!Matrix
  BY DEF Pair!AskFacility
<1>2. /\ \A i, x : Quick(i, x)' = Quick(i, x)
      /\ \A i, x, c : Found(i, x, c)' = Found(i, x, c)
      /\ \A n : Served(n)' = Served(n)
      /\ Pair!Nodes' = Pair!Nodes /\ Pair!ToAsk(targets)' = Pair!ToAsk(targets)
      /\ Pair!NoBest' = Pair!NoBest
  BY <1>1, Standing
<1>3. \A i, r, F : Closest(i, r, F)' <=> Closest(i, r, F)
  BY <1>1, Standing
<1>4. Walking'
  BY <1>1, <1>2 DEF Walking
<1>5. ClosestRight(results, turn - 1)'
  BY <1>1, <1>2, <1>3 DEF ClosestRight
<1>. DEFINE asked == DOMAIN targets \ left
            costs == Quick(turn, targets[f])
<1>6. f \in DOMAIN targets /\ (DOMAIN targets \ left)' = asked \cup {f}
  BY <1>1 DEF Walking, Pair!ToAsk
<1>7. \A c, d \in costs : c \in Nat /\ c = d
  <2>1. sources[turn] \in Pair!Nodes
    BY DEF Walking
  <2>. QED
    BY <2>1, DijkstraFacts DEF Quick, Walking
<1>. HIDE DEF asked, costs
<1>8. \/ best = Pair!NoBest /\ \A h \in asked : Quick(turn, targets[h]) = {}
      \/ Closest(turn, best, asked)
  BY DEF BestRight, asked
<1>9. CASE \E c \in costs : Pair!Beats(c)
  <2>1. PICK c \in costs : Pair!Beats(c)
    BY <1>9
  <2>2. PICK d \in costs : best' = Found(turn, targets[f], d)
    BY <1>9, Zenon DEF Pair!AskFacility, costs, Quick, Found
  <2>3. ASSUME NEW h \in asked, NEW e \in Quick(turn, targets[h]) PROVE d <= e
    <3>0. Quick(turn, targets[h]) # {}
      OBVIOUS
    <3>a. Closest(turn, best, asked)
      BY <1>8, <3>0
    <3>1. best # Pair!NoBest /\ Closest(turn, best, asked)
      BY <3>a, ClosestIsFound DEF Walking
    <3>2. PICK h0 \in DOMAIN targets : \E b \in Quick(turn, targets[h0]) :
             best = Found(turn, targets[h0], b)
             /\ \A g \in asked : \A x \in Quick(turn, targets[g]) : b <= x
      BY <3>1 DEF Closest
    <3>3. PICK b \in Quick(turn, targets[h0]) :
             best = Found(turn, targets[h0], b)
             /\ \A g \in asked : \A x \in Quick(turn, targets[g]) : b <= x
      BY <3>2
    <3>4. best.cost = b /\ b <= e
      BY <2>3, <3>3 DEF Found
    <3>5. c < b /\ c = d
      BY <1>7, <2>1, <3>1, <3>4 DEF Pair!Beats
    <3>6. sources[turn] \in Pair!Nodes
      BY DEF Walking
    <3>7. b \in Nat /\ e \in Nat
      BY <2>3, <3>3, <3>6, DijkstraFacts DEF Quick, Walking
    <3>. QED
      BY <1>7, <3>4, <3>5, <3>7
  <2>4. \A e \in costs : d <= e
    BY <1>7
  <2>5. Closest(turn, best', asked \cup {f})
    BY <1>6, <2>2, <2>3, <2>4 DEF Closest, costs
  <2>6. BestRight'
    BY <1>1, <1>3, <1>6, <2>5 DEF BestRight
  <2>. QED
    BY <1>4, <1>5, <2>6
<1>10. CASE ~ \E c \in costs : Pair!Beats(c)
  <2>1. best' = best
    BY <1>10, Zenon DEF Pair!AskFacility, costs, Quick
  <2>2. CASE best = Pair!NoBest /\ \A h \in asked : Quick(turn, targets[h]) = {}
    <3>1. costs = {}
      BY <1>10, <2>2 DEF Pair!Beats
    <3>. QED
      BY <1>1, <1>2, <1>4, <1>5, <1>6, <2>1, <2>2, <3>1 DEF BestRight, costs
  <2>3. CASE Closest(turn, best, asked)
    <3>1. best # Pair!NoBest /\ best.cost \in Nat
      BY <2>3, ClosestIsFound DEF Walking
    <3>2. \A e \in costs : best.cost <= e
      BY <1>7, <1>10, <3>1 DEF Pair!Beats
    <3>3. PICK h \in DOMAIN targets : \E c \in Quick(turn, targets[h]) :
             best = Found(turn, targets[h], c)
             /\ \A g \in asked : \A x \in Quick(turn, targets[g]) : c <= x
      BY <2>3 DEF Closest
    <3>4. PICK c \in Quick(turn, targets[h]) :
             best = Found(turn, targets[h], c)
             /\ \A g \in asked : \A x \in Quick(turn, targets[g]) : c <= x
      BY <3>3
    <3>5. best.cost = c
      BY <3>4 DEF Found
    <3>6. Closest(turn, best, asked \cup {f})
      BY <3>2, <3>4, <3>5 DEF Closest, costs
    <3>7. BestRight'
      BY <1>1, <1>3, <1>6, <2>1, <3>6 DEF BestRight
    <3>. QED
      BY <1>4, <1>5, <3>7
  <2>. QED
    BY <1>8, <2>2, <2>3
<1>. QED
  BY <1>9, <1>10

(* The best facility for a source closes its row.                          *)
LEMMA WithBestRight ==
    ASSUME Walking, ClosestRight(results, turn - 1), BestRight, left = {}
    PROVE  IsList(Pair!WithBest) /\ ClosestRight(Pair!WithBest, turn)
<1>1. turn \in Nat \ {0} /\ turn - 1 \in Nat /\ turn \in 1 .. Len(sources)
      /\ 1 .. turn = (1 .. turn - 1) \cup {turn} /\ turn \notin 1 .. turn - 1
  BY DEF Walking
<1>2. IsList(results) /\ Len(results) \in Nat
  BY DEF Walking, IsList
<1>3. /\ \A k \in DOMAIN results : \E i \in 1 .. turn - 1 : Closest(i, results[k], DOMAIN targets)
      /\ Len(results) = Cardinality(Served(turn - 1))
  BY DEF ClosestRight
<1>4. IsFiniteSet(Served(turn - 1))
  <2>1. IsFiniteSet(1 .. turn - 1)
    BY <1>1, FS_Interval
  <2>. QED
    BY <2>1, FS_Subset DEF Served
<1>5. \/ best = Pair!NoBest /\ \A f \in DOMAIN targets : Quick(turn, targets[f]) = {}
      \/ Closest(turn, best, DOMAIN targets)
  BY DEF BestRight
<1>6. CASE best = Pair!NoBest /\ \A f \in DOMAIN targets : Quick(turn, targets[f]) = {}
  <2>1. Pair!WithBest = results
    BY <1>6 DEF Pair!WithBest
  <2>2. Served(turn) = Served(turn - 1)
    BY <1>1, <1>6 DEF Served
  <2>. QED
    BY <1>1, <1>2, <1>3, <2>1, <2>2 DEF ClosestRight
<1>7. CASE Closest(turn, best, DOMAIN targets)
  <2>1. best # Pair!NoBest
    BY <1>1, <1>7, ClosestIsFound
  <2>. DEFINE new == Pair!WithBest
              n == Len(results)
  <2>2. new = Append(results, best)
    BY <2>1 DEF Pair!WithBest
  <2>3. /\ DOMAIN results = 1 .. n /\ DOMAIN new = 1 .. n + 1 /\ Len(new) = n + 1
        /\ \A k \in 1 .. n : new[k] = results[k]
        /\ new[n + 1] = best /\ IsList(new)
    BY <1>2, <2>2, OneMore
  <2>4. Served(turn) = Served(turn - 1) \cup {turn} /\ turn \notin Served(turn - 1)
    <3>1. \E f \in DOMAIN targets : Quick(turn, targets[f]) # {}
      BY <1>7 DEF Closest
    <3>. QED
      BY <1>1, <3>1 DEF Served
  <2>5. Cardinality(Served(turn)) = Cardinality(Served(turn - 1)) + 1
    BY <1>4, <2>4, FS_AddElement
  <2>. HIDE DEF new, n
  <2>6. ASSUME NEW k \in 1 .. n + 1 PROVE \E i \in 1 .. turn : Closest(i, new[k], DOMAIN targets)
    <3>1. CASE k = n + 1
      BY <1>1, <1>7, <2>3, <3>1
    <3>2. CASE k \in 1 .. n
      BY <1>1, <1>3, <2>3, <3>2
    <3>. QED
      BY <1>2, <3>1, <3>2 DEF n
  <2>7. ClosestRight(new, turn)
    BY <1>3, <2>3, <2>5, <2>6 DEF ClosestRight, n
  <2>. QED
    BY <2>3, <2>7 DEF new
<1>. QED
  BY <1>5, <1>6, <1>7

LEMMA FirstSource ==
    ASSUME Walking', turn' = 1, left' = Pair!ToAsk(targets)', best' = Pair!NoBest,
           results' = <<>>
    PROVE  IF Pair!Matrix' THEN MatrixRight' ELSE ClosestRight(results, turn - 1)' /\ BestRight'
<1>1. (turn' = 1 => \A i \in 1 .. turn' : i = turn') /\ Pair!NoBest' = Pair!NoBest
  BY DEF Pair!NoBest
<1>2. \A i, x : ~AskedFor(i, x)'
  BY <1>1 DEF AskedFor
<1>3. DOMAIN results' = {} /\ Len(results') = 0
  OBVIOUS
<1>4. MatrixRight'
  BY <1>1, <1>2, <1>3 DEF MatrixRight
<1>5. 1 .. turn' - 1 = {} /\ Served(turn - 1)' = {}
  BY DEF Served
<1>6. ClosestRight(results, turn - 1)'
  BY <1>3, <1>5, FS_EmptySet DEF ClosestRight
<1>7. ~Pair!Matrix' => (DOMAIN targets \ left)' = {}
  BY DEF Pair!ToAsk
<1>8. ~Pair!Matrix' => BestRight'
  BY <1>1, <1>7 DEF BestRight
<1>. QED
  BY <1>4, <1>6, <1>8

LEMMA NextSourceRight ==
    ASSUME Walking, left = {}, turn < Len(sources), turn' = turn + 1,
           left' = Pair!ToAsk(targets), results' = Pair!WithBest, best' = Pair!NoBest,
           UNCHANGED <<req, sources, targets>>,
           IF Pair!Matrix THEN MatrixRight ELSE ClosestRight(results, turn - 1) /\ BestRight
    PROVE  /\ Walking'
           /\ IF Pair!Matrix' THEN MatrixRight' ELSE ClosestRight(results, turn - 1)' /\ BestRight'
<1>1. /\ \A i, x : Quick(i, x)' = Quick(i, x)
      /\ \A i, x, c : Found(i, x, c)' = Found(i, x, c)
      /\ \A n : Served(n)' = Served(n)
      /\ \A i, r, F : Closest(i, r, F)' <=> Closest(i, r, F)
      /\ Pair!Nodes' = Pair!Nodes /\ Pair!ToAsk(targets)' = Pair!ToAsk(targets)
      /\ Pair!OneEach(sources)' = Pair!OneEach(sources)
      /\ Pair!NoBest' = Pair!NoBest /\ (Pair!Matrix' <=> Pair!Matrix)
  BY Standing
<1>2. turn \in Nat /\ turn' \in 1 .. Len(sources') /\ turn' - 1 = turn /\ Len(sources) \in Nat
  BY DEF Walking
<1>3. CASE Pair!Matrix
  <2>1. results' = results
    BY <1>3 DEF Pair!WithBest, MatrixRight
  <2>2. Walking'
    BY <1>1, <1>2, <2>1 DEF Walking
  <2>3. \A i, x : AskedFor(i, x)' <=> AskedFor(i, x)
    BY <1>1, <1>2 DEF AskedFor
  <2>4. MatrixRight'
    BY <1>1, <1>3, <2>1, <2>3 DEF MatrixRight
  <2>. QED
    BY <1>1, <1>3, <2>2, <2>4
<1>4. CASE ~Pair!Matrix
  <2>1. IsList(results') /\ ClosestRight(results', turn)
    BY <1>4, WithBestRight
  <2>2. Walking'
    BY <1>1, <1>2, <2>1 DEF Walking
  <2>3. ClosestRight(results, turn - 1)'
    BY <1>1, <1>2, <2>1 DEF ClosestRight
  <2>4. (DOMAIN targets \ left)' = {}
    BY <1>4 DEF Pair!ToAsk
  <2>5. BestRight'
    BY <1>1, <2>4 DEF BestRight
  <2>. QED
    BY <1>1, <1>4, <2>2, <2>3, <2>5
<1>. QED
  BY <1>3, <1>4

LEMMA AnswerRight ==
    ASSUME Walking, left = {}, turn = Len(sources), results' = Pair!WithBest,
           UNCHANGED <<req, sources, targets, turn, left, best>>,
           IF Pair!Matrix THEN MatrixRight ELSE ClosestRight(results, turn - 1) /\ BestRight
    PROVE  Walking' /\ IF Pair!Matrix THEN MatrixRight' ELSE ClosestRight(results, turn)'
<1>1. /\ \A i, x : Quick(i, x)' = Quick(i, x)
      /\ \A i, x, c : Found(i, x, c)' = Found(i, x, c)
      /\ \A n : Served(n)' = Served(n)
      /\ \A i, r, F : Closest(i, r, F)' <=> Closest(i, r, F)
      /\ Pair!Nodes' = Pair!Nodes /\ Pair!ToAsk(targets)' = Pair!ToAsk(targets)
      /\ Pair!OneEach(sources)' = Pair!OneEach(sources)
      /\ Pair!NoBest' = Pair!NoBest
  BY Standing
<1>2. CASE Pair!Matrix
  <2>1. results' = results
    BY <1>2 DEF Pair!WithBest, MatrixRight
  <2>2. \A i, x : AskedFor(i, x)' <=> AskedFor(i, x)
    BY <1>1 DEF AskedFor
  <2>. QED
    BY <1>1, <1>2, <2>1, <2>2 DEF Walking, MatrixRight
<1>3. CASE ~Pair!Matrix
  <2>1. IsList(results') /\ ClosestRight(results', turn)
    BY <1>3, WithBestRight
  <2>2. Walking'
    BY <1>1, <2>1 DEF Walking
  <2>. QED
    BY <1>1, <1>3, <2>1, <2>2 DEF ClosestRight
<1>. QED
  BY <1>2, <1>3

LEMMA PairRightStep ==
    ASSUME PairRight, call = "pairs", call' = call, Pair!Next \/ UNCHANGED Pair!vars
    PROVE  PairRight'
<1>1. CASE UNCHANGED Pair!vars
  <2>1. /\ Pair!Init => Pair!Init'
        /\ Walking => Walking'
        /\ Pair!NoReply' = Pair!NoReply /\ Pair!Matrix' = Pair!Matrix
        /\ PairAnswered' = PairAnswered
    BY <1>1 DEF Pair!vars, Pair!Init, Pair!NoBest, Pair!NoReply, Walking, Pair!Nodes, Pair!G,
                Pair!ToAsk, Pair!Matrix, PairAnswered, Pair!Entries, Pair!Entry, Pair!IndexOf
  <2>. USE <1>1 DEF Pair!vars
  <2>2. /\ \A i, x : Quick(i, x)' = Quick(i, x)
        /\ \A i, x, c : Found(i, x, c)' = Found(i, x, c)
        /\ \A n : Served(n)' = Served(n)
        /\ \A i, r, F : Closest(i, r, F)' <=> Closest(i, r, F)
        /\ Pair!ToAsk(targets)' = Pair!ToAsk(targets)
        /\ Pair!OneEach(sources)' = Pair!OneEach(sources)
        /\ Pair!NoBest' = Pair!NoBest
    BY Standing
  <2>3. \A i, x : AskedFor(i, x)' <=> AskedFor(i, x)
    BY <2>2 DEF AskedFor
  <2>4. MatrixRight => MatrixRight'
    BY <2>2, <2>3 DEF MatrixRight
  <2>5. /\ ClosestRight(results, turn - 1) => ClosestRight(results, turn - 1)'
        /\ ClosestRight(results, turn) => ClosestRight(results, turn)'
    BY <2>2 DEF ClosestRight
  <2>6. BestRight => BestRight'
    BY <2>2 DEF BestRight
  <2>. QED
    BY <2>1, <2>4, <2>5, <2>6 DEF PairRight
<1>2. CASE Pair!Reject
  <2>1. /\ pc = "start" /\ pc' = "done" /\ reply' = [kind |-> "bad_request"]
        /\ UNCHANGED <<sources, targets, turn, left, results>>
    BY <1>2, Zenon DEF Pair!Reject
  <2>2. Pair!Init
    BY <2>1 DEF PairRight
  <2>. QED
    BY <2>1, <2>2 DEF PairRight, Pair!Init
<1>3. CASE Pair!Snap
  <2>1. pc = "start"
    BY <1>3, Zenon DEF Pair!Snap
  <2>2. Pair!Init /\ req \in Pairs
    BY <2>1 DEF PairRight, Pair!Init
  <2>3. /\ Walking' /\ turn' = 1 /\ pc' = "ask" /\ reply' = Pair!NoReply
        /\ left' = Pair!ToAsk(targets)' /\ best' = Pair!NoBest /\ results' = <<>>
    BY <1>3, <2>2, SnapRight
  <2>4. IF Pair!Matrix' THEN MatrixRight' ELSE ClosestRight(results, turn - 1)' /\ BestRight'
    BY <2>3, FirstSource
  <2>. QED
    BY <2>3, <2>4 DEF PairRight, Pair!NoReply
<1>4. ASSUME NEW x \in left, Pair!AskPair(x) PROVE PairRight'
  <2>1. pc = "ask" /\ pc' = "ask" /\ reply' = reply /\ req' = req /\ Pair!Matrix
    BY <1>4, Zenon DEF Pair!AskPair
  <2>2. Walking /\ MatrixRight /\ reply = Pair!NoReply
    BY <2>1 DEF PairRight
  <2>3. Walking' /\ MatrixRight'
    BY <1>4, <2>1, <2>2, AskPairRight
  <2>. QED
    BY <2>1, <2>2, <2>3 DEF PairRight, Pair!NoReply, Pair!Matrix
<1>5. ASSUME NEW x \in left, Pair!AskFacility(x) PROVE PairRight'
  <2>1. pc = "ask" /\ pc' = "ask" /\ reply' = reply /\ req' = req /\ ~Pair!Matrix
    BY <1>5, Zenon DEF Pair!AskFacility
  <2>2. Walking /\ ClosestRight(results, turn - 1) /\ BestRight /\ reply = Pair!NoReply
    BY <2>1 DEF PairRight
  <2>3. Walking' /\ ClosestRight(results, turn - 1)' /\ BestRight'
    BY <1>5, <2>2, AskFacilityRight
  <2>. QED
    BY <2>1, <2>2, <2>3 DEF PairRight, Pair!NoReply, Pair!Matrix
<1>6. CASE Pair!NextSource
  <2>1. /\ pc = "ask" /\ pc' = "ask" /\ left = {} /\ turn < Len(sources) /\ turn' = turn + 1
        /\ left' = Pair!ToAsk(targets) /\ results' = Pair!WithBest /\ best' = Pair!NoBest
        /\ UNCHANGED <<req, sources, targets, reply>>
    BY <1>6, Zenon DEF Pair!NextSource
  <2>2. Walking /\ reply = Pair!NoReply
        /\ IF Pair!Matrix THEN MatrixRight ELSE ClosestRight(results, turn - 1) /\ BestRight
    BY <2>1 DEF PairRight
  <2>. QED
    BY <2>1, <2>2, NextSourceRight DEF PairRight, Pair!NoReply
<1>7. CASE Pair!Answer
  <2>1. /\ pc = "ask" /\ pc' = "done" /\ left = {} /\ turn = Len(sources)
        /\ results' = Pair!WithBest /\ UNCHANGED <<req, sources, targets, turn, left, best>>
        /\ reply' = [kind |-> "ok", entries |-> Pair!Entries(results'),
                     unreachable |-> IF Pair!Matrix THEN 0 ELSE Len(sources) - Len(results')]
    BY <1>7, Zenon DEF Pair!Answer
  <2>2. /\ Walking
        /\ IF Pair!Matrix THEN MatrixRight ELSE ClosestRight(results, turn - 1) /\ BestRight
    BY <2>1 DEF PairRight
  <2>3. Pair!Entries(results)' = Pair!Entries(results') /\ Pair!Matrix' = Pair!Matrix
    BY <2>1 DEF Pair!Entries, Pair!Entry, Pair!Matrix
  <2>4. reply' = PairAnswered'
    BY <2>1, <2>3 DEF PairAnswered
  <2>5. /\ Walking'
        /\ IF Pair!Matrix THEN MatrixRight' ELSE ClosestRight(results, turn)'
    BY <2>1, <2>2, AnswerRight
  <2>. QED
    BY <2>1, <2>3, <2>4, <2>5 DEF PairRight
<1>. QED
  BY <1>1, <1>2, <1>3, <1>4, <1>5, <1>6, <1>7 DEF Pair!Next

-----------------------------------------------------------------------------
(* What the two handlers answer.                                           *)

LEMMA IndexRight ==
    ASSUME NEW S, NEW nodes \in Seq(S), NEW i \in DOMAIN nodes
    PROVE  LET x == Pair!IndexOf(nodes, nodes[i])
           IN  x \in DOMAIN nodes /\ nodes[x] = nodes[i]
<1>. DEFINE places == {k \in DOMAIN nodes : nodes[k] = nodes[i]}
<1>1. places \in SUBSET Nat /\ places # {}
  OBVIOUS
<1>2. \E c \in places : \A d \in places : c <= d
  BY <1>1, LeastNatural
<1>3. \E c \in DOMAIN nodes : nodes[c] = nodes[i]
          /\ \A k \in DOMAIN nodes : nodes[k] = nodes[i] => c <= k
  BY <1>2
<1>. QED
  BY <1>3 DEF Pair!IndexOf

LEMMA LexIsOrder ==
    ASSUME NEW D \in SUBSET Int, NEW a \in [D -> Int], NEW c \in [D -> Int], NEW R,
           \A x, y \in D : <<x, y>> \in R <=>
               a[x] < a[y] \/ (a[x] = a[y] /\ (c[x] < c[y] \/ (c[x] = c[y] /\ x < y)))
    PROVE  IsOrder(R, D)
<1>1. \A x \in D : <<x, x>> \notin R
  OBVIOUS
<1>2. ASSUME NEW x \in D, NEW y \in D, x # y PROVE <<x, y>> \in R \/ <<y, x>> \in R
  <2>1. a[x] \in Int /\ a[y] \in Int /\ c[x] \in Int /\ c[y] \in Int /\ x \in Int /\ y \in Int
    OBVIOUS
  <2>. QED
    BY <1>2, <2>1
<1>3. ASSUME NEW x \in D, NEW y \in D, NEW z \in D, <<x, y>> \in R, <<y, z>> \in R
      PROVE  <<x, z>> \in R
  <2>. DEFINE ax == a[x]  ay == a[y]  az == a[z]  cx == c[x]  cy == c[y]  cz == c[z]
  <2>1. /\ ax \in Int /\ ay \in Int /\ az \in Int /\ cx \in Int /\ cy \in Int /\ cz \in Int
        /\ x \in Int /\ y \in Int /\ z \in Int
    OBVIOUS
  <2>2. /\ ax < ay \/ (ax = ay /\ (cx < cy \/ (cx = cy /\ x < y)))
        /\ ay < az \/ (ay = az /\ (cy < cz \/ (cy = cz /\ y < z)))
    BY <1>3
  <2>. HIDE DEF ax, ay, az, cx, cy, cz
  <2>3. ax < az \/ (ax = az /\ (cx < cz \/ (cx = cz /\ x < z)))
    BY <2>1, <2>2
  <2>. QED
    BY <2>3 DEF ax, az, cx, cz
<1>. QED
  BY <1>1, <1>2, <1>3 DEF IsOrder

(* The places of D in another order.                                       *)
Permutes(s, D) ==
    /\ s \in [D -> D]
    /\ \A x \in D : \E k \in D : s[k] = x
    /\ \A k, m \in D : s[k] = s[m] => k = m

LEMMA InOrderOfPlaces ==
    ASSUME NEW n \in Nat, NEW D, D = 1 .. n, NEW R, IsOrder(R, D), NEW s, s = InOrder(D, R)
    PROVE  Permutes(s, D)
<1>1. IsFiniteSet(D) /\ Cardinality(D) = n
  BY FS_Interval
<1>2. Sorted(s, D, R, n)
  <2>1. Sorted(InOrder(D, R), D, R, Cardinality(D))
    BY <1>1, InOrderSorts
  <2>. QED
    BY <1>1, <2>1
<1>3. \A k, m \in D : k # m => k < m \/ m < k
  OBVIOUS
<1>. QED
  BY <1>2, <1>3 DEF Sorted, Permutes

(* b lists the n elements of e in another order.                           *)
Reordered(b, e, n) ==
    \E s : /\ Permutes(s, 1 .. n)
          /\ DOMAIN b = 1 .. n /\ \A k \in 1 .. n : b[k] = e[s[k]]

(* Sorted, the entries are the same ones, each of them once.               *)
LEMMA ByIndicesSorts ==
    ASSUME NEW e, NEW n \in Nat, DOMAIN e = 1 .. n,
           \A k \in 1 .. n : e[k].source_index \in Int /\ e[k].target_index \in Int,
           NEW b, b = Pair!ByIndices(e)
    PROVE  Reordered(b, e, n)
<1>. DEFINE D == 1 .. n
            R == {p \in D \X D :
                      \/ Pair!Before(e[p[1]], e[p[2]])
                      \/ ~Pair!Before(e[p[2]], e[p[1]]) /\ p[1] < p[2]}
            a == [x \in D |-> e[x].source_index]
            c == [x \in D |-> e[x].target_index]
<1>2. IsOrder(R, D)
  <2>1. \A x, y \in D : <<x, y>> \in R <=>
            \/ Pair!Before(e[x], e[y])
            \/ ~Pair!Before(e[y], e[x]) /\ x < y
    OBVIOUS
  <2>2. a \in [D -> Int] /\ c \in [D -> Int] /\ D \in SUBSET Int
    OBVIOUS
  <2>3. \A x, y \in D : Pair!Before(e[x], e[y]) <=> a[x] < a[y] \/ (a[x] = a[y] /\ c[x] < c[y])
    BY DEF Pair!Before
  <2>. HIDE DEF R, a, c, D
  <2>4. ASSUME NEW x \in D, NEW y \in D
        PROVE  <<x, y>> \in R <=>
                   a[x] < a[y] \/ (a[x] = a[y] /\ (c[x] < c[y] \/ (c[x] = c[y] /\ x < y)))
    <3>. DEFINE ax == a[x]  ay == a[y]  cx == c[x]  cy == c[y]
    <3>1. ax \in Int /\ ay \in Int /\ cx \in Int /\ cy \in Int /\ x \in Int /\ y \in Int
      BY <2>2
    <3>2. <<x, y>> \in R <=>
             \/ ax < ay \/ (ax = ay /\ cx < cy)
             \/ ~(ay < ax \/ (ay = ax /\ cy < cx)) /\ x < y
      BY <2>1, <2>3
    <3>. HIDE DEF ax, ay, cx, cy
    <3>3. <<x, y>> \in R <=> ax < ay \/ (ax = ay /\ (cx < cy \/ (cx = cy /\ x < y)))
      BY <3>1, <3>2
    <3>. QED
      BY <3>3 DEF ax, ay, cx, cy
  <2>. QED
    BY <2>2, <2>4, LexIsOrder
<1>. HIDE DEF R
<1>a. PICK s : s = InOrder(D, R)
  OBVIOUS
<1>4. Pair!InOrder(D, R) = s
  BY <1>a DEF Pair!InOrder, InOrder, Pair!Cardinality, Cardinality
<1>3. Permutes(s, D)
  <2>. HIDE DEF D
  <2>1. D = 1 .. n
    BY DEF D
  <2>. QED
    BY <1>2, <1>a, <2>1, InOrderOfPlaces, Zenon
<1>5. b = [k \in D |-> e[s[k]]]
  <2>2. DOMAIN s = D
    BY <1>3 DEF Permutes
  <2>1. b = [k \in DOMAIN Pair!InOrder(D, R) |-> e[Pair!InOrder(D, R)[k]]]
    BY Zenon DEF Pair!ByIndices, R
  <2>. QED
    BY <1>4, <2>1, <2>2
<1>. QED
  BY <1>3, <1>5 DEF Reordered

(* b holds the entry of every result, once each.                           *)
Rearranged(b) ==
    \E s \in [DOMAIN results -> DOMAIN results] :
        /\ DOMAIN b = DOMAIN results
        /\ \A k \in DOMAIN results : b[k] = Pair!Entry(results[s[k]])
        /\ \A k \in DOMAIN results : \E m \in DOMAIN results : s[m] = k
        /\ \A k, m \in DOMAIN results : s[k] = s[m] => k = m

LEMMA EntriesAreResults ==
    ASSUME Walking,
           \A k \in DOMAIN results : \E i \in DOMAIN sources, f \in DOMAIN targets :
              results[k].source = sources[i] /\ results[k].target = targets[f],
           NEW b, b = Pair!Entries(results)
    PROVE  Rearranged(b)
<1>. DEFINE n == Len(results)
            e == [k \in DOMAIN results |-> Pair!Entry(results[k])]
<1>1. n \in Nat /\ DOMAIN results = 1 .. n
  BY DEF Walking, IsList
<1>2. CASE ~Pair!Matrix
  <2>1. b = e
    BY <1>2 DEF Pair!Entries
  <2>. DEFINE s == [k \in DOMAIN results |-> k]
  <2>2. Permutes(s, DOMAIN results)
    BY DEF Permutes
  <2>. QED
    BY <2>1, <2>2 DEF Permutes, Rearranged
<1>3. CASE Pair!Matrix
  <2>1. b = Pair!ByIndices(e)
    BY <1>3 DEF Pair!Entries
  <2>2. \A k \in 1 .. n : e[k].source_index \in Int /\ e[k].target_index \in Int
    <3>. SUFFICES ASSUME NEW k \in 1 .. n
                  PROVE  e[k].source_index \in Int /\ e[k].target_index \in Int
      OBVIOUS
    <3>1. PICK i \in DOMAIN sources, f \in DOMAIN targets :
             results[k].source = sources[i] /\ results[k].target = targets[f]
      BY <1>1
    <3>2. /\ Pair!IndexOf(sources, sources[i]) \in DOMAIN sources
          /\ Pair!IndexOf(targets, targets[f]) \in DOMAIN targets
      BY IndexRight DEF Walking
    <3>3. DOMAIN sources \subseteq Int /\ DOMAIN targets \subseteq Int
      BY DEF Walking
    <3>. QED
      BY <1>1, <3>1, <3>2, <3>3 DEF Pair!Entry
  <2>3. DOMAIN e = 1 .. n /\ \A k \in 1 .. n : e[k] = Pair!Entry(results[k])
    BY <1>1
  <2>. HIDE DEF e, n
  <2>4. Reordered(b, e, n)
    BY <1>1, <2>1, <2>2, <2>3, ByIndicesSorts
  <2>. DEFINE D == DOMAIN results
  <2>5. D = 1 .. n
    BY <1>1
  <2>6. \A k \in D : e[k] = Pair!Entry(results[k])
    BY <2>3, <2>5
  <2>. HIDE DEF D
  <2>7. PICK s : Permutes(s, D) /\ DOMAIN b = D /\ \A k \in D : b[k] = e[s[k]]
    BY <2>4, <2>5 DEF Reordered
  <2>8. /\ s \in [D -> D]
        /\ \A k \in D : \E m \in D : s[m] = k
        /\ \A k, m \in D : s[k] = s[m] => k = m
    BY <2>7 DEF Permutes
  <2>9. \A k \in D : b[k] = Pair!Entry(results[s[k]])
    BY <2>6, <2>7, <2>8
  <2>. QED
    BY <2>7, <2>8, <2>9 DEF Rearranged, D
<1>. QED
  BY <1>2, <1>3

(* Once they have answered, every result is of a pair of points.           *)
LEMMA ResultsRight ==
    ASSUME PairRight, call = "pairs", Pair!Answered
    PROVE  /\ Walking /\ turn = Len(sources) /\ left = {} /\ reply = PairAnswered
           /\ IF Pair!Matrix THEN MatrixRight ELSE ClosestRight(results, turn)
           /\ \A k \in DOMAIN results :
                 \E i \in DOMAIN sources, f \in DOMAIN targets :
                    \E c \in Quick(i, targets[f]) : results[k] = Found(i, targets[f], c)
<1>1. /\ Walking /\ turn = Len(sources) /\ left = {} /\ reply = PairAnswered
      /\ IF Pair!Matrix THEN MatrixRight ELSE ClosestRight(results, turn)
  BY DEF PairRight, Pair!Answered, Pair!Init, Pair!NoReply
<1>2. DOMAIN sources = 1 .. turn
  BY <1>1 DEF Walking
<1>3. CASE Pair!Matrix
  <2>1. \A i, w : AskedFor(i, w) => i \in DOMAIN sources /\ \E f \in DOMAIN targets : w = targets[f]
    BY <1>2, <1>3 DEF AskedFor, Pair!ToAsk
  <2>. QED
    BY <1>1, <1>3, <2>1 DEF MatrixRight
<1>4. CASE ~Pair!Matrix
  <2>1. \A k \in DOMAIN results : \E i \in DOMAIN sources : Closest(i, results[k], DOMAIN targets)
    BY <1>1, <1>2, <1>4 DEF ClosestRight
  <2>. QED
    BY <1>1, <2>1 DEF Closest
<1>. QED
  BY <1>3, <1>4

(* The k-th entry is that of some result.                                  *)
LEMMA EntryOf ==
    ASSUME PairRight, call = "pairs", Pair!Answered, NEW r \in DOMAIN results
    PROVE  LET e == Pair!Entry(results[r])
           IN  /\ e.source_index \in DOMAIN sources /\ e.target_index \in DOMAIN targets
               /\ sources[e.source_index] = results[r].source
               /\ targets[e.target_index] = results[r].target
               /\ e.duration = results[r].cost
<1>1. PICK i \in DOMAIN sources, f \in DOMAIN targets :
         \E c \in Quick(i, targets[f]) : results[r] = Found(i, targets[f], c)
  BY ResultsRight
<1>2. results[r].source = sources[i] /\ results[r].target = targets[f]
  BY <1>1 DEF Found
<1>3. /\ Pair!IndexOf(sources, sources[i]) \in DOMAIN sources
      /\ sources[Pair!IndexOf(sources, sources[i])] = sources[i]
      /\ Pair!IndexOf(targets, targets[f]) \in DOMAIN targets
      /\ targets[Pair!IndexOf(targets, targets[f])] = targets[f]
  BY ResultsRight, IndexRight DEF Walking
<1>. QED
  BY <1>2, <1>3 DEF Pair!Entry

LEMMA Replies ==
    ASSUME PairRight, call = "pairs", Pair!Answered
    PROVE  Rearranged(reply.entries)
<1>1. Walking /\ reply = PairAnswered
  BY ResultsRight
<1>2. reply.entries = Pair!Entries(results)
  BY <1>1 DEF PairAnswered
<1>3. \A k \in DOMAIN results : \E i \in DOMAIN sources, f \in DOMAIN targets :
         results[k].source = sources[i] /\ results[k].target = targets[f]
  BY ResultsRight DEF Found
<1>. QED
  BY <1>1, <1>2, <1>3, EntriesAreResults

LEMMA DurationsFollow ==
    ASSUME PairRight, call = "pairs" PROVE Pair!DurationsRight
<1>. SUFFICES ASSUME Pair!Answered, NEW k \in DOMAIN reply.entries
              PROVE  reply.entries[k].duration
                       \in Pair!Quickest(reply.entries[k].source_index, reply.entries[k].target_index)
  BY DEF Pair!DurationsRight, Pair!Rows
<1>1. PICK r \in DOMAIN results : reply.entries[k] = Pair!Entry(results[r])
  BY Replies DEF Rearranged
<1>2. PICK i \in DOMAIN sources, f \in DOMAIN targets :
         \E c \in Quick(i, targets[f]) : results[r] = Found(i, targets[f], c)
  BY ResultsRight
<1>3. results[r].cost \in Quick(i, targets[f])
      /\ results[r].source = sources[i] /\ results[r].target = targets[f]
  BY <1>2 DEF Found
<1>. QED
  BY <1>1, <1>3, EntryOf DEF Quick, Pair!Quickest, Pair!Dijkstra

LEMMA ClosestFollows ==
    ASSUME PairRight, call = "pairs" PROVE Pair!ClosestChosen
<1>. SUFFICES ASSUME Pair!Answered, ~Pair!Matrix PROVE Pair!ClosestChosen
  BY DEF Pair!ClosestChosen
<1>1. /\ Walking /\ turn = Len(sources) /\ reply = PairAnswered
      /\ ClosestRight(results, turn)
  BY ResultsRight
<1>2. DOMAIN sources = 1 .. turn /\ turn \in Nat
  BY <1>1 DEF Walking
<1>3. ASSUME NEW k \in DOMAIN reply.entries, NEW h \in DOMAIN targets,
             NEW d \in Pair!Quickest(reply.entries[k].source_index, h)
      PROVE  reply.entries[k].duration <= d
  <2>1. PICK r \in DOMAIN results : reply.entries[k] = Pair!Entry(results[r])
    BY Replies DEF Rearranged
  <2>2. PICK i \in 1 .. turn : Closest(i, results[r], DOMAIN targets)
    BY <1>1 DEF ClosestRight
  <2>a. PICK f \in DOMAIN targets : \E c \in Quick(i, targets[f]) :
           /\ results[r] = Found(i, targets[f], c)
           /\ \A g \in DOMAIN targets : \A x \in Quick(i, targets[g]) : c <= x
    BY <2>2 DEF Closest
  <2>3. PICK c \in Quick(i, targets[f]) :
           /\ results[r] = Found(i, targets[f], c)
           /\ \A g \in DOMAIN targets : \A x \in Quick(i, targets[g]) : c <= x
    BY <2>a
  <2>4. results[r].source = sources[i] /\ results[r].cost = c
    BY <2>3 DEF Found
  <2>5. d \in Quick(i, targets[h])
    BY <2>1, <2>4, EntryOf DEF Quick, Pair!Quickest, Pair!Dijkstra
  <2>. QED
    BY <2>1, <2>3, <2>4, <2>5, EntryOf
<1>4. reply.unreachable = Cardinality({i \in DOMAIN sources :
                              \A f \in DOMAIN targets : Pair!Quickest(i, f) = {}})
  <2>. DEFINE none == {i \in DOMAIN sources : \A f \in DOMAIN targets : Pair!Quickest(i, f) = {}}
  <2>1. \A i, f : Pair!Quickest(i, f) = Quick(i, targets[f])
    BY DEF Quick, Pair!Quickest, Pair!Dijkstra
  <2>2. none = (1 .. turn) \ Served(turn) /\ Served(turn) \subseteq 1 .. turn
    BY <1>2, <2>1 DEF Served
  <2>3. IsFiniteSet(1 .. turn) /\ Cardinality(1 .. turn) = turn
    BY <1>2, FS_Interval
  <2>. HIDE DEF none
  <2>4. Cardinality(none) = turn - Cardinality(Served(turn))
    <3>1. (1 .. turn) \cap Served(turn) = Served(turn)
      BY <2>2
    <3>2. Cardinality((1 .. turn) \ Served(turn)) =
            Cardinality(1 .. turn) - Cardinality((1 .. turn) \cap Served(turn))
      BY <2>3, FS_Difference
    <3>. QED
      BY <2>2, <2>3, <3>1, <3>2
  <2>5. reply.unreachable = Len(sources) - Len(results)
    BY <1>1 DEF PairAnswered
  <2>. QED
    BY <1>1, <2>4, <2>5 DEF ClosestRight, none
<1>5. \A X : Pair!Cardinality(X) = Cardinality(X)
  BY DEF Pair!Cardinality, Cardinality
<1>. QED
  BY <1>3, <1>4, <1>5 DEF Pair!ClosestChosen, Pair!Rows

LEMMA MatrixFollows ==
    ASSUME PairRight, call = "pairs" PROVE Pair!MatrixCompleteOneEach
<1>. SUFFICES ASSUME Pair!Answered, Pair!Matrix, Pair!OneEach(sources), Pair!OneEach(targets),
                     NEW i \in DOMAIN sources, NEW f \in DOMAIN targets
              PROVE  Pair!Cardinality({k \in DOMAIN reply.entries :
                                  /\ reply.entries[k].source_index = i
                                  /\ reply.entries[k].target_index = f})
                       = Pair!Cardinality(Pair!Quickest(i, f))
  BY DEF Pair!MatrixCompleteOneEach
<1>1. /\ Walking /\ turn = Len(sources) /\ left = {} /\ MatrixRight
  BY ResultsRight
<1>2. PICK s \in [DOMAIN results -> DOMAIN results] :
         /\ DOMAIN reply.entries = DOMAIN results
         /\ \A k \in DOMAIN results : reply.entries[k] = Pair!Entry(results[s[k]])
         /\ \A k \in DOMAIN results : \E m \in DOMAIN results : s[m] = k
         /\ \A k, m \in DOMAIN results : s[k] = s[m] => k = m
  BY Replies DEF Rearranged
<1>. DEFINE K == {k \in DOMAIN results :
                     results[s[k]].source = sources[i] /\ results[s[k]].target = targets[f]}
            Q == Quick(i, targets[f])
<1>3. {k \in DOMAIN reply.entries : /\ reply.entries[k].source_index = i
                                    /\ reply.entries[k].target_index = f} = K
  <2>. SUFFICES ASSUME NEW k \in DOMAIN results
                PROVE  (/\ reply.entries[k].source_index = i
                        /\ reply.entries[k].target_index = f) <=>
                       (results[s[k]].source = sources[i] /\ results[s[k]].target = targets[f])
    BY <1>2
  <2>. DEFINE e == Pair!Entry(results[s[k]])
  <2>1. /\ reply.entries[k] = e
        /\ e.source_index \in DOMAIN sources /\ e.target_index \in DOMAIN targets
        /\ sources[e.source_index] = results[s[k]].source
        /\ targets[e.target_index] = results[s[k]].target
    BY <1>2, EntryOf
  <2>. HIDE DEF e
  <2>. QED
    BY <2>1 DEF Pair!OneEach
<1>4. Pair!Quickest(i, f) = Q
  BY DEF Quick, Pair!Quickest, Pair!Dijkstra
<1>5. AskedFor(i, targets[f])
  BY <1>1 DEF AskedFor, Pair!ToAsk, Walking
<1>6. \A c, d \in Q : c = d
  <2>1. sources[i] \in Pair!Nodes
    BY <1>1 DEF Walking
  <2>. QED
    BY <1>1, <2>1, DijkstraFacts DEF Quick, Walking
<1>7. \A k, m \in K : k = m
  <2>. SUFFICES ASSUME NEW k \in K, NEW m \in K PROVE k = m
    OBVIOUS
  <2>1. s[k] = s[m]
    BY <1>1 DEF MatrixRight
  <2>. QED
    BY <1>2, <2>1
<1>8. K # {} <=> Q # {}
  <2>1. ASSUME NEW k \in K PROVE Q # {}
    <3>1. PICK h \in DOMAIN sources, g \in DOMAIN targets :
             \E c \in Quick(h, targets[g]) : results[s[k]] = Found(h, targets[g], c)
      BY ResultsRight
    <3>2. sources[h] = sources[i] /\ targets[g] = targets[f]
      BY <3>1 DEF Found
    <3>. QED
      BY <3>1, <3>2 DEF Quick
  <2>2. ASSUME NEW c \in Q PROVE K # {}
    <3>1. PICK r \in DOMAIN results : results[r] = Found(i, targets[f], c)
      BY <1>1, <1>5 DEF MatrixRight
    <3>2. PICK m \in DOMAIN results : s[m] = r
      BY <1>2
    <3>3. m \in K
      BY <3>1, <3>2 DEF Found
    <3>. QED
      BY <3>3
  <2>. QED
    BY <2>1, <2>2
<1>. HIDE DEF K, Q
<1>9. \A X : Pair!Cardinality(X) = Cardinality(X)
  BY DEF Pair!Cardinality, Cardinality
<1>10. Cardinality(K) = Cardinality(Q)
  <2>1. CASE K = {}
    BY <1>8, <2>1
  <2>2. CASE K # {}
    <3>1. PICK k, c : K = {k} /\ Q = {c}
      BY <1>6, <1>7, <1>8, <2>2
    <3>. QED
      BY <3>1, FS_Singleton
  <2>. QED
    BY <2>1, <2>2
<1>. QED
  BY <1>2, <1>3, <1>4, <1>9, <1>10

LEMMA PairRightInit == Init => PairRight
<1>. SUFFICES ASSUME Init, call = "pairs" PROVE Pair!Init
  BY DEF PairRight, Pair!Init
<1>. QED
  BY DEF Init

LEMMA PairRightNext == PairRight /\ [Next]_vars => PairRight'
<1>. SUFFICES ASSUME PairRight, [Next]_vars, call' = "pairs" PROVE PairRight'
  BY DEF PairRight
<1>1. call = "pairs"
  BY DEF Next, Isochrone, ConnectedComponents, Centrality, MatchTrace, PairQuery, vars
<1>2. Pair!Next \/ UNCHANGED Pair!vars
  <2>1. CASE Next
    BY <1>1, <2>1 DEF Next, Isochrone, ConnectedComponents, Centrality, MatchTrace, PairQuery
  <2>2. CASE UNCHANGED vars
    BY <2>2 DEF vars, listLocals, pairLocals, Pair!vars
  <2>. QED
    BY <2>1, <2>2
<1>. QED
  BY <1>1, <1>2, PairRightStep

(* Of every call of either handler, on whatever graph: the duration        *)
(* answered for two points is that of a quickest legal drive.              *)
THEOREM PairDurations == Spec => []DurationsRight
<1>1. PairRight => DurationsRight
  BY DurationsFollow DEF DurationsRight
<1>. QED
  BY <1>1, PairRightInit, PairRightNext, PTL DEF Spec

(* Of every call of closest_facility: no facility is quicker than the one  *)
(* answered, and the demand points without any are counted.                *)
THEOREM NoFacilityQuicker == Spec => []ClosestChosen
<1>1. PairRight => ClosestChosen
  BY ClosestFollows DEF ClosestChosen
<1>. QED
  BY <1>1, PairRightInit, PairRightNext, PTL DEF Spec

(* Of every call of od_matrix that snaps no two points of a list to one    *)
(* node: one entry for each pair of points that is connected.              *)
THEOREM MatrixComplete == Spec => []MatrixCompleteOneEach
<1>1. PairRight => MatrixCompleteOneEach
  BY MatrixFollows DEF MatrixCompleteOneEach
<1>. QED
  BY <1>1, PairRightInit, PairRightNext, PTL DEF Spec

-----------------------------------------------------------------------------
(* match_trace.                                                            *)

LEMMA MatchesFine ==
    ASSUME req \in Matches
    PROVE  /\ req.trace \in Seq(Int)
           /\ req.roads \in Seq([from : Int, to : Int, offset : Nat])
           /\ Match!n_points \in Nat /\ Match!n_points = Len(req.trace)
<1>1. Match!IsRequest(req)
  BY CallsAssumption
<1>. QED
  BY <1>1 DEF Match!IsRequest, Match!n_points

LEMMA ListFacts ==
    ASSUME NEW T, NEW s \in Seq(T)
    PROVE  Len(s) \in Nat /\ DOMAIN s = 1 .. Len(s) /\ \A k \in DOMAIN s : s[k] \in T
OBVIOUS

(* The candidates of a point, in the order of a list.                      *)
Near(i) == Match!all_candidates[i]

LEMMA ApartTyped ==
    ASSUME NEW a, NEW b, a[1] \in Int, a[2] \in Int, b[1] \in Int, b[2] \in Int
    PROVE  Match!Apart(a, b) \in Nat
BY DEF Match!Apart, Match!Abs

LEMMA NearTyped ==
    ASSUME req \in Matches, NEW i \in 1 .. Match!n_points
    PROVE  \E m \in Nat :
              /\ Near(i) = [c \in 1 .. m |-> Near(i)[c]] /\ DOMAIN Near(i) = 1 .. m
              /\ \A c \in 1 .. m :
                    /\ Near(i)[c].dist \in Nat /\ Near(i)[c].seg # Match!Nobody
                    /\ Near(i)[c].snap[1] \in Int /\ Near(i)[c].snap[2] \in Int
<1>. DEFINE x == req.trace[i]
            At(s) == Match!Snap(x, req.roads[s])
            Of(s) == [seg |-> s, dist |-> Match!Apart(<<x, 0>>, At(s)), snap |-> At(s)]
            near == {s \in DOMAIN req.roads : Of(s).dist <= req.search_radius}
            byIndex == {p \in near \X near : p[1] < p[2]}
            all == InOrder(near, byIndex)
<1>0. PICK Roads : Roads = [from : Int, to : Int, offset : Nat] /\ req.roads \in Seq(Roads)
  BY MatchesFine
<1>a. /\ Len(req.roads) \in Nat /\ DOMAIN req.roads = 1 .. Len(req.roads)
      /\ \A s \in DOMAIN req.roads : req.roads[s] \in Roads
  BY <1>0, ListFacts
<1>1. x \in Int
  BY MatchesFine
<1>2. ASSUME NEW s \in DOMAIN req.roads
      PROVE  At(s)[1] \in Int /\ At(s)[2] \in Int /\ Of(s).dist \in Nat /\ Of(s).snap = At(s)
  <2>1. req.roads[s] \in [from : Int, to : Int, offset : Nat]
    BY <1>0, <1>a
  <2>2. req.roads[s].from \in Int /\ req.roads[s].to \in Int /\ req.roads[s].offset \in Int
    BY <2>1
  <2>3. At(s)[1] \in Int /\ At(s)[2] \in Int
    BY <1>1, <2>2 DEF Match!Snap
  <2>4. <<x, 0>>[1] \in Int /\ <<x, 0>>[2] \in Int
    BY <1>1
  <2>. HIDE DEF At
  <2>. QED
    BY <2>3, <2>4, ApartTyped
<1>3. IsFiniteSet(near) /\ \A s \in near : s \in Nat
  <2>1. IsFiniteSet(1 .. Len(req.roads)) /\ DOMAIN req.roads = 1 .. Len(req.roads)
        /\ Len(req.roads) \in Nat
    BY <1>a, FS_Interval
  <2>2. near \subseteq 1 .. Len(req.roads)
    BY <2>1
  <2>. HIDE DEF near
  <2>3. IsFiniteSet(near)
    BY <2>1, <2>2, FS_Subset
  <2>. QED
    BY <2>1, <2>2, <2>3
<1>4. IsOrder(byIndex, near)
  <2>. HIDE DEF near
  <2>. QED
    BY <1>3 DEF IsOrder
<1>5. Sorted(all, near, byIndex, Cardinality(near))
  <2>. HIDE DEF near, byIndex
  <2>. QED
    BY <1>3, <1>4, InOrderSorts
<1>6. PICK m \in Nat : m = Cardinality(near) /\ all \in [1 .. m -> near]
  BY <1>5 DEF Sorted
<1>7. Near(i) = [c \in DOMAIN all |-> Of(all[c])]
  <2>1. \A S, R : Match!InOrder(S, R) = InOrder(S, R)
    BY DEF Match!InOrder, InOrder, Match!Cardinality, Cardinality
  <2>2. Near(i) = Match!candidates(i)
    BY MatchesFine DEF Near, Match!all_candidates
  <2>. QED
    BY <2>1, <2>2, Zenon DEF Match!candidates
<1>8. \A s \in near : /\ Of(s).dist \in Nat /\ Of(s).seg # Match!Nobody
                      /\ Of(s).snap[1] \in Int /\ Of(s).snap[2] \in Int
  <2>1. ASSUME NEW s \in DOMAIN req.roads PROVE Of(s).seg # Match!Nobody
    BY <1>a DEF Match!Nobody
  <2>. QED
    BY <1>2, <2>1
<1>. HIDE DEF near, all, Of
<1>9. DOMAIN Near(i) = 1 .. m /\ \A c \in 1 .. m : Near(i)[c] = Of(all[c]) /\ all[c] \in near
  BY <1>6, <1>7
<1>10. Near(i) = [c \in 1 .. m |-> Near(i)[c]]
  BY <1>6, <1>7
<1>. QED
  BY <1>8, <1>9, <1>10

LEMMA WeightsTyped ==
    ASSUME req \in Matches, NEW i \in 1 .. Match!n_points, NEW c \in DOMAIN Near(i)
    PROVE  /\ Match!emission(Near(i)[c]) \in Int
           /\ i > 1 => \A b \in DOMAIN Near(i - 1) :
                          Match!Step(i, Near(i - 1)[b], Near(i)[c]) \in Int
<1>1. /\ Near(i)[c].dist \in Nat
      /\ Near(i)[c].snap[1] \in Int /\ Near(i)[c].snap[2] \in Int
  BY NearTyped
<1>2. Match!emission(Near(i)[c]) \in Int
  BY <1>1 DEF Match!emission
<1>3. ASSUME i > 1, NEW b \in DOMAIN Near(i - 1)
      PROVE  Match!Step(i, Near(i - 1)[b], Near(i)[c]) \in Int
  <2>1. i - 1 \in 1 .. Match!n_points /\ Match!n_points \in Nat
    BY <1>3, MatchesFine
  <2>2. Near(i - 1)[b].snap[1] \in Int /\ Near(i - 1)[b].snap[2] \in Int
    BY <2>1, NearTyped
  <2>3. Match!Apart(Near(i - 1)[b].snap, Near(i)[c].snap) \in Nat
    BY <1>1, <2>2, ApartTyped
  <2>4. req.trace[i] \in Int /\ req.trace[i - 1] \in Int
    BY <2>1, MatchesFine
  <2>5. Match!transition(i, Near(i - 1)[b], Near(i)[c]) \in Int
    BY <2>3, <2>4 DEF Match!transition, Match!Abs
  <2>. QED
    BY <1>2, <2>5 DEF Match!Step, Match!connectivity_bonus
<1>. QED
  BY <1>2, <1>3

LEMMA HighestExists ==
    ASSUME NEW f, NEW m \in Nat, NEW D \in SUBSET (1 .. m), D # {}, f \in [D -> Int]
    PROVE  \E i \in D : \A k \in D : f[k] <= f[i]
<1>. DEFINE T == {n \in Nat : \A E \in SUBSET D :
                      E # {} /\ E \subseteq 1 .. n => \E i \in E : \A k \in E : f[k] <= f[i]}
<1>1. 0 \in T
  <2>1. 1 .. 0 = {}
    OBVIOUS
  <2>. QED
    BY <2>1
<1>2. ASSUME NEW n \in Nat, n \in T PROVE n + 1 \in T
  <2>1. ASSUME NEW E \in SUBSET D, E # {}, E \subseteq 1 .. n + 1
        PROVE  \E i \in E : \A k \in E : f[k] <= f[i]
    <3>1. CASE E \ {n + 1} = {}
      <4>1. E = {n + 1} /\ f[n + 1] \in Int
        BY <2>1, <3>1
      <4>. QED
        BY <4>1
    <3>2. CASE E \ {n + 1} # {}
      <4>. DEFINE F == E \ {n + 1}
      <4>1. F \in SUBSET D /\ F # {} /\ F \subseteq 1 .. n
        BY <2>1, <3>2
      <4>2. PICK i \in F : \A k \in F : f[k] <= f[i]
        BY <1>2, <4>1
      <4>3. CASE n + 1 \in E /\ f[n + 1] > f[i]
        <5>1. \A k \in E : k = n + 1 \/ k \in F
          OBVIOUS
        <5>2. \A k \in E : f[k] \in Int
          OBVIOUS
        <5>3. \A k \in E : f[k] <= f[n + 1]
          BY <4>2, <4>3, <5>1, <5>2
        <5>. QED
          BY <4>3, <5>3
      <4>4. CASE ~(n + 1 \in E /\ f[n + 1] > f[i])
        <5>1. \A k \in E : k = n + 1 \/ k \in F
          OBVIOUS
        <5>2. \A k \in E : f[k] \in Int
          OBVIOUS
        <5>3. \A k \in E : f[k] <= f[i]
          BY <4>2, <4>4, <5>1, <5>2
        <5>. QED
          BY <5>3
      <4>. QED
        BY <4>3, <4>4
    <3>. QED
      BY <3>1, <3>2
  <2>. QED
    BY <2>1
<1>3. m \in T
  <2>. HIDE DEF T
  <2>. QED
    BY <1>1, <1>2, InductionOverNat
<1>. QED
  BY <1>3

(* The first of the best scores is one of them.                            *)
LEMMA FirstBestFacts ==
    ASSUME NEW f, NEW m \in Nat, NEW D \in SUBSET (1 .. m), D # {}, f \in [D -> Int]
    PROVE  /\ Match!FirstBest(f) \in D
           /\ \A k \in D : f[k] <= f[Match!FirstBest(f)]
<1>. DEFINE B == {i \in DOMAIN f : \A k \in DOMAIN f : f[k] <= f[i]}
<1>1. B \in SUBSET Nat /\ B # {}
  <2>1. PICK a \in D : \A k \in D : f[k] <= f[a]
    BY HighestExists
  <2>2. \A i \in D : i \in Nat
    OBVIOUS
  <2>3. DOMAIN f = D
    OBVIOUS
  <2>. QED
    BY <2>1, <2>2, <2>3
<1>2. PICK i \in B : \A k \in B : i <= k
  BY <1>1, LeastNatural
<1>3. Match!FirstBest(f) \in B
  <2>1. Match!FirstBest(f) = CHOOSE x \in B : \A y \in B : x =< y
    BY DEF Match!FirstBest, Match!Min
  <2>. HIDE DEF B
  <2>. QED
    BY <1>2, <2>1
<1>. QED
  BY <1>3

-----------------------------------------------------------------------------
(* A column of the Viterbi recursion: where the column before has a score, *)
(* every candidate has one, by way of its predecessor, and none before it  *)
(* would give it a higher one.  Where it has none predecessors are 1.      *)
By(i, b, c) == Match!Step(i, Near(i - 1)[b], Near(i)[c])

Filled(i) ==
    /\ prev[i] = [c \in DOMAIN Near(i) |-> prev[i][c]]
    /\ prob[i] \in [DOMAIN prob[i] -> Int] /\ DOMAIN prob[i] \subseteq DOMAIN Near(i)
    /\ \A c \in DOMAIN Near(i) :
          prev[i][c] = 1 \/ (i > 1 /\ prev[i][c] \in DOMAIN Near(i - 1))
    /\ i = 1 => \A c \in DOMAIN Near(i) :
                   c \in DOMAIN prob[i] /\ prob[i][c] = Match!emission(Near(i)[c])
    /\ i > 1 /\ DOMAIN prob[i - 1] # {} =>
          \A c \in DOMAIN Near(i) :
             /\ c \in DOMAIN prob[i] /\ prev[i][c] \in DOMAIN prob[i - 1]
             /\ prob[i][c] = prob[i - 1][prev[i][c]] + By(i, prev[i][c], c)
             /\ \A b \in DOMAIN prob[i - 1] : prob[i - 1][b] + By(i, b, c) <= prob[i][c]

Columns ==
    /\ req \in Matches
    /\ IsList(prob) /\ IsList(prev) /\ Len(prev) = Len(prob)
    /\ Len(prob) \in 1 .. Match!n_points
    /\ \A i \in 1 .. Len(prob) : Filled(i)

LEMMA SameTrace ==
    ASSUME req' = req
    PROVE  /\ Match!n_points' = Match!n_points
           /\ \A i : Near(i)' = Near(i)
           /\ \A i, b, c : By(i, b, c)' = By(i, b, c)
           /\ Match!NoReply' = Match!NoReply
<1>1. Match!n_points' = Match!n_points
  BY DEF Match!n_points
<1>2. \A i : Match!candidates(i)' = Match!candidates(i)
  BY DEF Match!candidates
<1>3. Match!all_candidates' = Match!all_candidates
  BY <1>1, <1>2 DEF Match!all_candidates
<1>4. \A i : Near(i)' = Near(i)
  BY <1>3 DEF Near
<1>5. \A i, a, b : Match!Step(i, a, b)' = Match!Step(i, a, b)
  BY DEF Match!Step, Match!transition
<1>. QED
  BY <1>1, <1>4, <1>5 DEF By, Match!NoReply

LEMMA FilledStays ==
    ASSUME req' = req, NEW i \in Nat, Filled(i), prob'[i] = prob[i], prev'[i] = prev[i],
           i > 1 => prob'[i - 1] = prob[i - 1]
    PROVE  Filled(i)'
<1>1. /\ Near(i)' = Near(i) /\ Near(i - 1)' = Near(i - 1)
      /\ \A b, c : By(i, b, c)' = By(i, b, c)
  BY SameTrace
<1>2. i > 1 => DOMAIN prob'[i - 1] = DOMAIN prob[i - 1]
  OBVIOUS
<1>. QED
  BY <1>1, <1>2 DEF Filled

(* The scores of a candidate by way of each before it.                     *)
LEMMA ScoresAre ==
    ASSUME req \in Matches, t \in 2 .. Match!n_points, Filled(t - 1),
           NEW c \in DOMAIN Near(t)
    PROVE  LET D == DOMAIN prob[t - 1]
           IN  /\ Match!Scores(c) = [b \in D |-> prob[t - 1][b] + By(t, b, c)]
               /\ Match!Scores(c) \in [D -> Int]
               /\ D # {} => /\ Match!FirstBest(Match!Scores(c)) \in D
                            /\ \A b \in D : prob[t - 1][b] + By(t, b, c)
                                   <= Match!Scores(c)[Match!FirstBest(Match!Scores(c))]
<1>. DEFINE D == DOMAIN prob[t - 1]
            f == Match!Scores(c)
<1>1. t \in 1 .. Match!n_points /\ t - 1 \in 1 .. Match!n_points /\ t > 1
  BY MatchesFine
<1>2. f = [b \in D |-> prob[t - 1][b] + By(t, b, c)]
  BY DEF Match!Scores, By, Near
<1>3. \A b \in D : prob[t - 1][b] \in Int /\ b \in DOMAIN Near(t - 1)
  BY DEF Filled
<1>4. \A b \in D : By(t, b, c) \in Int
  BY <1>1, <1>3, WeightsTyped DEF By
<1>5. f \in [D -> Int]
  BY <1>2, <1>3, <1>4
<1>6. PICK m \in Nat : DOMAIN Near(t - 1) = 1 .. m
  BY <1>1, NearTyped
<1>7. D \in SUBSET (1 .. m)
  BY <1>3, <1>6
<1>. HIDE DEF D, f
<1>8. D # {} => Match!FirstBest(f) \in D /\ \A b \in D : f[b] <= f[Match!FirstBest(f)]
  BY <1>5, <1>7, FirstBestFacts
<1>9. \A b \in D : f[b] = prob[t - 1][b] + By(t, b, c)
  BY <1>2
<1>. QED
  BY <1>2, <1>5, <1>8, <1>9 DEF D, f

LEMMA RecurFills ==
    ASSUME Columns, t = Len(prob) + 1, Match!Recur
    PROVE  Columns' /\ Len(prob') = Len(prob) + 1
<1>1. /\ t <= Match!n_points /\ prob' = Append(prob, Match!ScoreColumn)
      /\ prev' = Append(prev, Match!PrevColumn) /\ req' = req
  BY DEF Match!Recur
<1>2. /\ req \in Matches /\ IsList(prob) /\ IsList(prev) /\ Len(prev) = Len(prob)
      /\ Len(prob) \in 1 .. Match!n_points /\ \A i \in 1 .. Len(prob) : Filled(i)
  BY DEF Columns
<1>3. /\ Match!n_points \in Nat /\ t \in 2 .. Match!n_points /\ t \in 1 .. Match!n_points
      /\ t - 1 = Len(prob) /\ t > 1 /\ t - 1 \in 1 .. Len(prob) /\ t - 1 \in 1 .. Match!n_points
  BY <1>1, <1>2, MatchesFine
<1>4. /\ Len(prob') = t /\ Len(prev') = t /\ IsList(prob') /\ IsList(prev')
      /\ \A k \in 1 .. t - 1 : prob'[k] = prob[k] /\ prev'[k] = prev[k]
      /\ prob'[t] = Match!ScoreColumn /\ prev'[t] = Match!PrevColumn
  BY <1>1, <1>2, <1>3, OneMore
<1>. DEFINE D == DOMAIN prob[t - 1]
<1>5. ASSUME NEW c \in DOMAIN Near(t)
      PROVE  /\ Match!Scores(c) \in [D -> Int]
             /\ Match!Scores(c) = [b \in D |-> prob[t - 1][b] + By(t, b, c)]
             /\ D # {} => /\ Match!FirstBest(Match!Scores(c)) \in D
                          /\ \A b \in D : prob[t - 1][b] + By(t, b, c)
                                 <= Match!Scores(c)[Match!FirstBest(Match!Scores(c))]
  BY <1>2, <1>3, ScoresAre
<1>6. Near(t) = Match!all_candidates[t]
  BY DEF Near
<1>7. Match!Possible = IF D = {} THEN {} ELSE DOMAIN Near(t)
  <2>1. \A c \in DOMAIN Near(t) : Match!Scores(c) # <<>> <=> D # {}
    <3>1. ASSUME NEW c \in DOMAIN Near(t), D = {} PROVE Match!Scores(c) = <<>>
      BY <1>5, <3>1
    <3>2. ASSUME NEW c \in DOMAIN Near(t), D # {} PROVE Match!Scores(c) # <<>>
      BY <1>5, <3>2
    <3>. QED
      BY <3>1, <3>2
  <2>. HIDE DEF D
  <2>. QED
    BY <1>6, <2>1 DEF Match!Possible
<1>. DEFINE best_(c) == Match!FirstBest(Match!Scores(c))
<1>8. /\ prob'[t] = [c \in Match!Possible |-> Match!Scores(c)[best_(c)]]
      /\ prev'[t] = [c \in DOMAIN Near(t) |-> IF c \in Match!Possible THEN best_(c) ELSE 1]
  BY <1>4, <1>6 DEF Match!ScoreColumn, Match!PrevColumn
<1>9. \A b \in D : b \in DOMAIN Near(t - 1)
  BY <1>2, <1>3 DEF Filled
<1>10. /\ \A k : Near(k)' = Near(k)
       /\ \A k, b, c : By(k, b, c)' = By(k, b, c)
       /\ Match!n_points' = Match!n_points
  BY <1>1, SameTrace
<1>11. prob'[t - 1] = prob[t - 1]
  BY <1>3, <1>4
<1>. DEFINE FilledNow ==
    /\ prev'[t] = [c \in DOMAIN Near(t) |-> prev'[t][c]]
    /\ prob'[t] \in [DOMAIN prob'[t] -> Int] /\ DOMAIN prob'[t] \subseteq DOMAIN Near(t)
    /\ \A c \in DOMAIN Near(t) : prev'[t][c] = 1 \/ prev'[t][c] \in DOMAIN Near(t - 1)
    /\ D # {} =>
          \A c \in DOMAIN Near(t) :
             /\ c \in DOMAIN prob'[t] /\ prev'[t][c] \in D
             /\ prob'[t][c] = prob[t - 1][prev'[t][c]] + By(t, prev'[t][c], c)
             /\ \A b \in D : prob[t - 1][b] + By(t, b, c) <= prob'[t][c]
<1>12. FilledNow
  <2>1. CASE D = {}
    <3>1. prob'[t] = <<>> /\ DOMAIN prob'[t] = {}
      BY <1>7, <1>8, <2>1
    <3>2. prev'[t] = [c \in DOMAIN Near(t) |-> 1]
      BY <1>7, <1>8, <2>1
    <3>. QED
      BY <2>1, <3>1, <3>2
  <2>2. CASE D # {}
    <3>1. /\ prob'[t] = [c \in DOMAIN Near(t) |-> Match!Scores(c)[best_(c)]]
          /\ prev'[t] = [c \in DOMAIN Near(t) |-> best_(c)]
      BY <1>7, <1>8, <2>2
    <3>2. ASSUME NEW c \in DOMAIN Near(t)
          PROVE  /\ best_(c) \in D /\ Match!Scores(c)[best_(c)] \in Int
                 /\ Match!Scores(c)[best_(c)] = prob[t - 1][best_(c)] + By(t, best_(c), c)
                 /\ \A b \in D : prob[t - 1][b] + By(t, b, c) <= Match!Scores(c)[best_(c)]
      <4>. HIDE DEF D
      <4>. QED
        BY <1>5, <2>2
    <3>. HIDE DEF best_, D
    <3>3. \A c \in DOMAIN Near(t) : /\ prob'[t][c] = Match!Scores(c)[best_(c)]
                                    /\ prev'[t][c] = best_(c)
      BY <3>1
    <3>4. DOMAIN prob'[t] = DOMAIN Near(t) /\ prob'[t] \in [DOMAIN Near(t) -> Int]
      BY <3>1, <3>2
    <3>5. prev'[t] = [c \in DOMAIN Near(t) |-> prev'[t][c]]
      BY <3>1
    <3>. QED
      BY <1>9, <3>2, <3>3, <3>4, <3>5
  <2>. QED
    BY <2>1, <2>2
<1>. HIDE DEF best_
<1>13. ASSUME NEW i \in Nat, i = t PROVE Filled(i)'
  <2>1. /\ Near(i)' = Near(t) /\ Near(i - 1)' = Near(t - 1)
        /\ \A b, c : By(i, b, c)' = By(t, b, c)
    BY <1>10, <1>13
  <2>2. i > 1 /\ i # 1
    BY <1>3, <1>13
  <2>. HIDE DEF FilledNow
  <2>3. FilledNow /\ prob[t - 1] = prob'[i - 1]
    BY <1>11, <1>12, <1>13
  <2>. QED
    BY <1>13, <2>1, <2>2, <2>3 DEF Filled, FilledNow
<1>14. ASSUME NEW i \in 1 .. t - 1 PROVE Filled(i)'
  <2>1. i \in Nat /\ Filled(i) /\ prob'[i] = prob[i] /\ prev'[i] = prev[i]
    BY <1>2, <1>3, <1>4
  <2>2. i > 1 => prob'[i - 1] = prob[i - 1]
    BY <1>3, <1>4
  <2>. QED
    BY <1>1, <2>1, <2>2, FilledStays
<1>15. \A i \in 1 .. t : i \in Nat /\ (i = t \/ i \in 1 .. t - 1)
  BY <1>3
<1>. QED
  BY <1>1, <1>2, <1>3, <1>4, <1>10, <1>13, <1>14, <1>15 DEF Columns

LEMMA NearOrNone ==
    ASSUME req \in Matches, NEW i \in 1 .. Match!n_points
    PROVE  /\ Match!NoRoad(i) <=> DOMAIN Near(i) = {}
           /\ DOMAIN Near(i) # {} => 1 \in DOMAIN Near(i)
           /\ \A c \in DOMAIN Near(i) : c \in Nat \ {0}
<1>1. PICK m \in Nat : Near(i) = [c \in 1 .. m |-> Near(i)[c]] /\ DOMAIN Near(i) = 1 .. m
  BY NearTyped
<1>2. Match!NoRoad(i) <=> Near(i) = <<>>
  BY DEF Near, Match!NoRoad
<1>3. Near(i) = <<>> <=> DOMAIN Near(i) = {}
  <2>1. CASE m = 0
    BY <1>1, <2>1
  <2>2. CASE m # 0
    <3>1. 1 \in DOMAIN Near(i)
      BY <1>1, <2>2
    <3>. QED
      BY <3>1
  <2>. QED
    BY <2>1, <2>2
<1>. QED
  BY <1>1, <1>2, <1>3

(* On a trace without gaps every candidate has a score.                    *)
LEMMA ColumnsFull ==
    ASSUME Columns, ~Match!HasGap
    PROVE  \A i \in 1 .. Len(prob) :
              DOMAIN Near(i) # {} /\ DOMAIN prob[i] = DOMAIN Near(i)
<1>. DEFINE n == Len(prob)
            T == {i \in Nat : i \in 1 .. n =>
                     DOMAIN Near(i) # {} /\ DOMAIN prob[i] = DOMAIN Near(i)}
<1>1. req \in Matches /\ n \in 1 .. Match!n_points /\ Match!n_points \in Nat
      /\ \A i \in 1 .. n : Filled(i)
  BY MatchesFine DEF Columns
<1>. HIDE DEF n
<1>2. ASSUME NEW i \in 1 .. n PROVE DOMAIN Near(i) # {}
  <2>1. i \in 1 .. Match!n_points
    BY <1>1
  <2>2. ~Match!NoRoad(i)
    BY <2>1 DEF Match!HasGap, Match!NoRoad
  <2>. QED
    BY <1>1, <2>1, <2>2, NearOrNone
<1>3. 0 \in T
  OBVIOUS
<1>4. ASSUME NEW i \in Nat, i \in T PROVE i + 1 \in T
  <2>. SUFFICES ASSUME i + 1 \in 1 .. n PROVE DOMAIN prob[i + 1] = DOMAIN Near(i + 1)
    BY <1>2
  <2>1. Filled(i + 1) /\ (i + 1) - 1 = i
    BY <1>1
  <2>2. CASE i = 0
    <3>1. Filled(1)
      BY <2>1, <2>2
    <3>2. DOMAIN prob[1] = DOMAIN Near(1)
      BY <3>1 DEF Filled
    <3>. QED
      BY <2>2, <3>2
  <2>3. CASE i # 0
    <3>1. i \in 1 .. n /\ i + 1 > 1
      BY <1>1, <2>3
    <3>2. DOMAIN prob[i] # {}
      BY <1>2, <1>4, <3>1
    <3>. QED
      BY <2>1, <3>1, <3>2 DEF Filled
  <2>. QED
    BY <2>2, <2>3
<1>5. Nat \subseteq T
  <2>. HIDE DEF T
  <2>. QED
    BY <1>3, <1>4, InductionOverNat
<1>. QED
  BY <1>1, <1>5 DEF n

(* The marks the backtrack has set, from t to the end: on a trace without  *)
(* gaps each is the predecessor of the next, and the last scores highest.  *)
Along ==
    LET n == Match!n_points
    IN  /\ chosen[n] \in DOMAIN prob[n]
        /\ \A c \in DOMAIN prob[n] : prob[n][c] <= prob[n][chosen[n]]
        /\ \A i \in t .. n : chosen[i] \in DOMAIN Near(i)
        /\ \A i \in t + 1 .. n : chosen[i - 1] = prev[i][chosen[i]]
        /\ j = chosen[t]

(* The points the backtrack passes over without a mark.                    *)
Skipped(i) == Match!NoRoad(i) \/ Match!BeforeGap(i)

Traced ==
    LET n == Match!n_points
    IN  /\ t \in 1 .. n /\ DOMAIN chosen = 1 .. n
        /\ \A i \in 1 .. n : chosen[i] = Match!Nobody \/ chosen[i] \in DOMAIN Near(i)
        /\ j = 1 \/ j \in DOMAIN Near(t)
        /\ ~Match!NoRoad(1) /\ \E k \in t .. n : ~Match!NoRoad(k)
        /\ \A i \in 1 .. n : i < t => chosen[i] = Match!Nobody
        /\ \A i \in t .. n : chosen[i] = Match!Nobody <=> Skipped(i)
        /\ ~Match!HasGap => Along

LEMMA ColumnsStay ==
    ASSUME Columns, req' = req, prob' = prob, prev' = prev PROVE Columns'
<1>1. \A i \in 1 .. Len(prob) : Filled(i) /\ i \in Nat
  BY MatchesFine DEF Columns
<1>2. \A i \in 1 .. Len(prob) : Filled(i)'
  BY <1>1, FilledStays
<1>. QED
  BY <1>2, SameTrace DEF Columns

LEMMA SameGaps ==
    ASSUME req' = req
    PROVE  /\ \A i : Match!NoRoad(i)' <=> Match!NoRoad(i)
           /\ \A i : Skipped(i)' <=> Skipped(i)
           /\ Match!HasGap' <=> Match!HasGap
<1>1. \A i : Match!NoRoad(i) <=> Near(i) = <<>>
  BY DEF Match!NoRoad, Near
<1>2. \A i : Match!NoRoad(i)' <=> Near(i)' = <<>>
  BY DEF Match!NoRoad, Near
<1>3. Match!HasGap <=> \E i \in 1 .. Match!n_points : Near(i) = <<>>
  BY DEF Match!HasGap, Near
<1>4. Match!HasGap' <=> \E i \in 1 .. Match!n_points' : Near(i)' = <<>>
  BY DEF Match!HasGap, Near
<1>5. \A i : Match!NoRoad(i)' <=> Match!NoRoad(i)
  BY <1>1, <1>2, SameTrace
<1>6. ASSUME NEW i PROVE Skipped(i)' <=> Skipped(i)
  <2>1. Skipped(i) <=> \/ Match!NoRoad(i)
                       \/ \E k \in i + 1 .. Match!n_points :
                             Match!NoRoad(i + 1) /\ ~Match!NoRoad(k)
    BY DEF Skipped, Match!BeforeGap
  <2>2. Skipped(i)' <=> \/ Match!NoRoad(i)'
                        \/ \E k \in i + 1 .. Match!n_points' :
                              Match!NoRoad(i + 1)' /\ ~Match!NoRoad(k)'
    BY DEF Skipped, Match!BeforeGap
  <2>. QED
    BY <1>5, <2>1, <2>2, SameTrace
<1>. QED
  BY <1>3, <1>4, <1>5, <1>6, SameTrace

LEMMA EndIsBest ==
    ASSUME Columns, Len(prob) = Match!n_points, ~Match!NoRoad(1),
           DOMAIN chosen = 1 .. Match!n_points,
           \A i \in DOMAIN chosen : chosen[i] = Match!Nobody,
           Match!ChooseEnd
    PROVE  Columns' /\ Len(prob') = Match!n_points' /\ Traced'
<1>. DEFINE n == Match!n_points
            D == {i \in 1 .. n : ~Match!NoRoad(i)}
            last == Match!Max({i \in 1 .. n : Match!all_candidates[i] # <<>>})
            end == IF prob[last] = <<>> THEN 1 ELSE Match!FirstBest(prob[last])
<1>1. /\ req' = req /\ prob' = prob /\ prev' = prev /\ t' = last /\ j' = end
      /\ chosen' = [chosen EXCEPT ![last] = end]
  BY DEF Match!ChooseEnd
<1>2. /\ req \in Matches /\ n \in Nat /\ n >= 1 /\ Len(prob) = n
      /\ \A i \in 1 .. n : Filled(i)
  BY MatchesFine DEF Columns
<1>3. Columns' /\ Len(prob') = n'
  BY <1>1, ColumnsStay, SameTrace
<1>4. /\ n' = n /\ \A i : Near(i)' = Near(i)
      /\ \A i : Match!NoRoad(i)' <=> Match!NoRoad(i)
      /\ \A i : Skipped(i)' <=> Skipped(i)
      /\ Match!HasGap' <=> Match!HasGap
  BY <1>1, SameTrace, SameGaps
<1>5. last \in D /\ \A i \in D : i <= last
  <2>1. D \in SUBSET (1 .. n) /\ 1 \in D
    BY <1>2
  <2>2. D = {i \in 1 .. n : Match!all_candidates[i] # <<>>}
    BY DEF Match!NoRoad
  <2>3. last = CHOOSE x \in D : \A y \in D : x >= y
    BY <2>2 DEF Match!Max
  <2>. DEFINE f == [i \in D |-> i]
  <2>4. f \in [D -> Int]
    BY <2>1
  <2>5. \E i \in D : \A k \in D : f[k] <= f[i]
    <3>. HIDE DEF D, f
    <3>. QED
      BY <1>2, <2>1, <2>4, HighestExists
  <2>6. \E x \in D : \A y \in D : x >= y
    BY <2>1, <2>5
  <2>. HIDE DEF D, last
  <2>7. last \in D /\ \A y \in D : last >= y
    BY <2>3, <2>6
  <2>. QED
    BY <2>1, <2>7
<1>6. last \in 1 .. n /\ ~Match!NoRoad(last) /\ \A i \in last + 1 .. n : Match!NoRoad(i)
  BY <1>2, <1>5
<1>. HIDE DEF last
<1>7. /\ end \in DOMAIN Near(last)
      /\ DOMAIN prob[last] # {} =>
            /\ end \in DOMAIN prob[last]
            /\ \A c \in DOMAIN prob[last] : prob[last][c] <= prob[last][end]
  <2>1. /\ prob[last] \in [DOMAIN prob[last] -> Int] /\ DOMAIN prob[last] \subseteq DOMAIN Near(last)
    BY <1>2, <1>6 DEF Filled
  <2>2. CASE DOMAIN prob[last] = {}
    <3>1. prob[last] = <<>>
      BY <2>1, <2>2
    <3>2. 1 \in DOMAIN Near(last)
      BY <1>2, <1>6, NearOrNone
    <3>. QED
      BY <2>2, <3>1, <3>2
  <2>3. CASE DOMAIN prob[last] # {}
    <3>1. prob[last] # <<>>
      BY <2>3
    <3>2. PICK m \in Nat : DOMAIN Near(last) = 1 .. m
      BY <1>2, <1>6, NearTyped
    <3>. DEFINE E == DOMAIN prob[last]
                f == prob[last]
    <3>3. E \in SUBSET (1 .. m) /\ E # {} /\ f \in [E -> Int]
      BY <2>1, <2>3, <3>2
    <3>4. end = Match!FirstBest(f)
      BY <3>1
    <3>5. Match!FirstBest(f) \in E /\ \A k \in E : f[k] <= f[Match!FirstBest(f)]
      <4>. HIDE DEF E, f
      <4>. QED
        BY <3>2, <3>3, FirstBestFacts
    <3>. QED
      BY <2>1, <3>4, <3>5
  <2>. QED
    BY <2>2, <2>3
<1>. HIDE DEF end
<1>8. /\ DOMAIN chosen' = 1 .. n /\ chosen'[last] = end
      /\ \A i \in 1 .. n : i # last => chosen'[i] = Match!Nobody
  BY <1>1, <1>6
<1>9. end # Match!Nobody
  BY <1>2, <1>6, <1>7, NearOrNone DEF Match!Nobody
<1>10. ASSUME ~Match!HasGap PROVE Along'
  <2>1. last = n
    <3>1. ~Match!NoRoad(n)
      BY <1>2, <1>10 DEF Match!HasGap, Match!NoRoad
    <3>. QED
      BY <1>2, <1>6, <3>1
  <2>2. DOMAIN prob[n] # {}
    BY <1>2, <1>10, ColumnsFull
  <2>3. n .. n = {n} /\ n + 1 .. n = {}
    BY <1>2
  <2>4. /\ chosen'[n] = end /\ end \in DOMAIN prob'[n] /\ j' = chosen'[n] /\ t' = n
        /\ \A c \in DOMAIN prob'[n] : prob'[n][c] <= prob'[n][end]
        /\ end \in DOMAIN Near(n)
    BY <1>1, <1>7, <1>8, <2>1, <2>2
  <2>. HIDE DEF n
  <2>. QED
    BY <1>4, <2>3, <2>4 DEF Along, n
<1>11. \A i \in 1 .. n : chosen'[i] = Match!Nobody \/ chosen'[i] \in DOMAIN Near(i)
  BY <1>7, <1>8
<1>12. ASSUME NEW i \in last .. n PROVE chosen'[i] = Match!Nobody <=> Skipped(i)
  <2>1. ~Match!BeforeGap(i)
    <3>1. \A k \in i + 1 .. n : k \in last + 1 .. n
      BY <1>2, <1>6
    <3>. QED
      BY <1>6, <3>1 DEF Match!BeforeGap
  <2>2. CASE i = last
    BY <1>6, <1>8, <1>9, <2>1, <2>2 DEF Skipped
  <2>3. CASE i # last
    <3>1. i \in last + 1 .. n /\ i \in 1 .. n
      BY <1>2, <1>6, <2>3
    <3>. QED
      BY <1>6, <1>8, <2>3, <3>1 DEF Skipped
  <2>. QED
    BY <2>2, <2>3
<1>13. Traced'
  <2>1. t' = last /\ j' = end /\ last \in 1 .. n
    BY <1>1, <1>6
  <2>3. \E k \in last .. n : ~Match!NoRoad(k)
    BY <1>2, <1>6
  <2>4. \A i \in 1 .. n : i < last => chosen'[i] = Match!Nobody
    BY <1>6, <1>8
  <2>. HIDE DEF n
  <2>2. j' \in DOMAIN Near(t')
    BY <1>7, <2>1
  <2>. QED
    BY <1>4, <1>8, <1>10, <1>11, <1>12, <2>1, <2>2, <2>3, <2>4 DEF Traced, n
<1>. QED
  BY <1>3, <1>13

LEMMA BackKeeps ==
    ASSUME Columns, Len(prob) = Match!n_points, Traced, Match!BackOne
    PROVE  Columns' /\ Len(prob') = Match!n_points' /\ Traced'
<1>. DEFINE n == Match!n_points
<1>1. /\ t > 1 /\ t' = t - 1 /\ req' = req /\ prob' = prob /\ prev' = prev
      /\ prev[t] = <<>> => j' = j /\ chosen' = chosen
      /\ prev[t] # <<>> => j' = prev[t][j]
      /\ prev[t] # <<>> => chosen' = IF Match!all_candidates[t - 1] = <<>> THEN chosen
                                     ELSE [chosen EXCEPT ![t - 1] = j']
  BY DEF Match!BackOne, Match!Mark
<1>2. /\ req \in Matches /\ n \in Nat /\ n >= 1 /\ Len(prob) = n
      /\ \A i \in 1 .. n : Filled(i)
  BY MatchesFine DEF Columns
<1>3. Columns' /\ Len(prob') = n'
  BY <1>1, ColumnsStay, SameTrace
<1>4. /\ n' = n /\ \A i : Near(i)' = Near(i)
      /\ \A i : Match!NoRoad(i)' <=> Match!NoRoad(i)
      /\ \A i : Skipped(i)' <=> Skipped(i)
      /\ Match!HasGap' <=> Match!HasGap
  BY <1>1, SameTrace, SameGaps
<1>5. /\ t \in 1 .. n /\ DOMAIN chosen = 1 .. n
      /\ \A i \in 1 .. n : chosen[i] = Match!Nobody \/ chosen[i] \in DOMAIN Near(i)
      /\ j = 1 \/ j \in DOMAIN Near(t)
      /\ ~Match!NoRoad(1) /\ \E k \in t .. n : ~Match!NoRoad(k)
      /\ \A i \in 1 .. n : i < t => chosen[i] = Match!Nobody
      /\ \A i \in t .. n : chosen[i] = Match!Nobody <=> Skipped(i)
      /\ ~Match!HasGap => Along
  BY DEF Traced
<1>6. /\ t - 1 \in 1 .. n /\ t \in Nat /\ t - 1 < t /\ chosen[t - 1] = Match!Nobody
      /\ (t - 1) + 1 = t
      /\ \A i \in 1 .. n : i < t - 1 => i < t /\ i # t - 1
      /\ \A i \in t - 1 .. n : i = t - 1 \/ i \in t .. n
  BY <1>1, <1>2, <1>5
<1>11. /\ \E k \in t - 1 .. n : ~Match!NoRoad(k)
       /\ Match!BeforeGap(t - 1) <=> Match!NoRoad(t)
  <2>1. PICK k \in t .. n : ~Match!NoRoad(k)
    BY <1>5
  <2>2. k \in t - 1 .. n
    BY <1>6
  <2>. QED
    BY <1>6, <2>1, <2>2 DEF Match!BeforeGap
<1>7. prev[t] = [c \in DOMAIN Near(t) |-> prev[t][c]]
      /\ \A c \in DOMAIN Near(t) : prev[t][c] = 1 \/ prev[t][c] \in DOMAIN Near(t - 1)
  BY <1>2, <1>5 DEF Filled
<1>8. prev[t] = <<>> <=> DOMAIN Near(t) = {}
  <2>1. DOMAIN prev[t] = DOMAIN Near(t)
    BY <1>7
  <2>2. ASSUME DOMAIN Near(t) = {} PROVE prev[t] = <<>>
    BY <1>7, <2>2
  <2>. QED
    BY <2>1, <2>2
<1>9. CASE prev[t] = <<>>
  <2>1. j' = 1 /\ chosen' = chosen /\ Match!NoRoad(t)
    BY <1>1, <1>2, <1>5, <1>8, <1>9, NearOrNone
  <2>2. Match!HasGap
    BY <1>5, <2>1 DEF Match!HasGap, Match!NoRoad
  <2>3. \A i \in t - 1 .. n : chosen[i] = Match!Nobody <=> Skipped(i)
    BY <1>5, <1>6, <1>11, <2>1 DEF Skipped
  <2>4. \A i \in 1 .. n : i < t - 1 => chosen[i] = Match!Nobody
    BY <1>5, <1>6
  <2>. HIDE DEF n
  <2>. QED
    BY <1>1, <1>3, <1>4, <1>5, <1>6, <1>11, <2>1, <2>2, <2>3, <2>4 DEF Traced, n
<1>10. CASE prev[t] # <<>>
  <2>1. j \in DOMAIN Near(t) /\ j' = prev[t][j]
    BY <1>1, <1>2, <1>5, <1>8, <1>10, NearOrNone
  <2>2. j' = 1 \/ j' \in DOMAIN Near(t - 1)
    BY <1>7, <2>1
  <2>3. ASSUME ~Match!NoRoad(t - 1) PROVE j' \in DOMAIN Near(t - 1) /\ j' # Match!Nobody
    BY <1>2, <1>6, <2>2, <2>3, NearOrNone DEF Match!Nobody
  <2>4. chosen' = IF Match!NoRoad(t - 1) THEN chosen ELSE [chosen EXCEPT ![t - 1] = j']
    BY <1>1, <1>10 DEF Match!NoRoad
  <2>5. /\ DOMAIN chosen' = 1 .. n
        /\ ~Match!NoRoad(t - 1) => chosen'[t - 1] = j'
        /\ \A i \in 1 .. n : i # t - 1 => chosen'[i] = chosen[i]
        /\ Match!NoRoad(t - 1) => chosen' = chosen
    BY <1>5, <1>6, <2>4
  <2>6. \A i \in 1 .. n : chosen'[i] = Match!Nobody \/ chosen'[i] \in DOMAIN Near(i)
    BY <1>5, <2>3, <2>5
  <2>7. ASSUME NEW i \in t - 1 .. n PROVE chosen'[i] = Match!Nobody <=> Skipped(i)
    <3>1. CASE i = t - 1
      <4>1. ~Match!BeforeGap(t - 1)
        BY <1>2, <1>5, <1>11, <2>1, NearOrNone
      <4>. QED
        BY <1>6, <2>3, <2>5, <3>1, <4>1 DEF Skipped
    <3>2. CASE i # t - 1
      <4>1. i \in t .. n /\ i \in 1 .. n
        BY <1>5, <1>6, <3>2
      <4>. QED
        BY <1>5, <2>5, <3>2, <4>1
    <3>. QED
      BY <3>1, <3>2
  <2>11. \A i \in 1 .. n : i < t - 1 => chosen'[i] = Match!Nobody
    BY <1>5, <1>6, <2>5
  <2>8. ASSUME ~Match!HasGap PROVE Along'
    <3>1. Along
      BY <1>5, <2>8
    <3>2. /\ chosen[n] \in DOMAIN prob[n]
          /\ \A c \in DOMAIN prob[n] : prob[n][c] <= prob[n][chosen[n]]
          /\ \A i \in t .. n : chosen[i] \in DOMAIN Near(i)
          /\ \A i \in t + 1 .. n : chosen[i - 1] = prev[i][chosen[i]]
          /\ j = chosen[t]
      BY <3>1 DEF Along
    <3>3. ~Match!NoRoad(t - 1)
      BY <1>6, <2>8 DEF Match!HasGap, Match!NoRoad
    <3>4. chosen'[t - 1] = j' /\ j' \in DOMAIN Near(t - 1) /\ j' = prev[t][chosen[t]]
      BY <2>1, <2>3, <2>5, <3>2, <3>3
    <3>5. \A i \in t .. n : chosen'[i] = chosen[i]
      BY <1>5, <2>5
    <3>6. n \in t .. n /\ t \in t .. n
      BY <1>2, <1>5
    <3>7. \A i \in t - 1 .. n : chosen'[i] \in DOMAIN Near(i)
      <4>1. \A i \in t - 1 .. n : i = t - 1 \/ i \in t .. n
        BY <1>6
      <4>. QED
        BY <3>2, <3>4, <3>5, <4>1
    <3>8. ASSUME NEW i \in t .. n PROVE chosen'[i - 1] = prev[i][chosen'[i]]
      <4>1. CASE i = t
        BY <3>4, <3>5, <3>6, <4>1
      <4>2. CASE i # t
        <5>1. i \in t + 1 .. n /\ i - 1 \in t .. n
          BY <1>6, <4>2
        <5>. QED
          BY <3>2, <3>5, <5>1
      <4>. QED
        BY <4>1, <4>2
    <3>9. (t - 1) + 1 = t
      BY <1>6
    <3>10. chosen'[n] = chosen[n]
      BY <3>5, <3>6
    <3>. HIDE DEF n
    <3>. QED
      BY <1>1, <1>4, <3>2, <3>4, <3>7, <3>8, <3>9, <3>10 DEF Along, n
  <2>9. t' = t - 1 /\ (j' = 1 \/ j' \in DOMAIN Near(t'))
    BY <1>1, <2>2
  <2>. HIDE DEF n
  <2>10. Traced'
    BY <1>4, <1>5, <1>6, <1>11, <2>5, <2>6, <2>7, <2>8, <2>9, <2>11 DEF Traced, n
  <2>. QED
    BY <1>3, <2>10 DEF n
<1>. QED
  BY <1>9, <1>10

(* The answer of a trace.                                                  *)
PointOf(i) ==
    IF chosen[i] = Match!Nobody THEN Match!Unmatched(i)
    ELSE [snapped |-> Near(i)[chosen[i]].snap, road |-> Near(i)[chosen[i]].seg]

Untouched ==
    /\ t = 0 /\ prob = <<>> /\ prev = <<>> /\ j = 1
    /\ chosen = [i \in 1 .. Match!n_points |-> Match!Nobody]

Told ==
    \/ Untouched /\ reply.kind = "bad_request"
    \/ Untouched /\ reply.kind = "matched" /\ Match!n_points = 0
    \/ /\ Untouched /\ reply.kind = "fallback" /\ Match!NoRoad(1)
       /\ reply.points = [i \in 1 .. Match!n_points |-> Match!Unmatched(i)]
    \/ /\ Columns /\ Len(prob) = Match!n_points /\ Traced /\ t = 1
       /\ reply.kind = "matched" /\ reply.points = [i \in 1 .. Match!n_points |-> PointOf(i)]

MatchRight ==
    call = "match" =>
        /\ pc \in {"start", "recur", "back", "done"} /\ req \in Matches
        /\ pc = "start" => Untouched /\ reply = Match!NoReply
        /\ pc = "recur" =>
              /\ Columns /\ t = Len(prob) + 1 /\ ~Match!NoRoad(1) /\ reply = Match!NoReply
              /\ chosen = [i \in 1 .. Match!n_points |-> Match!Nobody]
        /\ pc = "back" =>
              Columns /\ Len(prob) = Match!n_points /\ Traced /\ reply = Match!NoReply
        /\ pc = "done" => Told

LEMMA MatchRightInit == Init => MatchRight
<1>. SUFFICES ASSUME Init, call = "match" PROVE MatchRight
  BY DEF MatchRight
<1>1. Match!Init
  BY DEF Init
<1>. QED
  BY <1>1 DEF Match!Init, MatchRight, Untouched

LEMMA BeginFills ==
    ASSUME req \in Matches, Match!Begin
    PROVE  Columns' /\ t' = Len(prob') + 1 /\ ~Match!NoRoad(1)'
<1>1. /\ Match!n_points > 0 /\ Match!all_candidates[1] # <<>> /\ t' = 2 /\ req' = req
      /\ prob' = << [c \in DOMAIN Match!all_candidates[1] |->
                        Match!emission(Match!all_candidates[1][c])] >>
      /\ prev' = << [c \in DOMAIN Match!all_candidates[1] |-> 1] >>
  BY DEF Match!Begin
<1>2. Match!n_points \in Nat /\ 1 \in 1 .. Match!n_points /\ 1 .. 1 = {1}
  BY <1>1, MatchesFine
<1>3. /\ prob'[1] = [c \in DOMAIN Near(1) |-> Match!emission(Near(1)[c])]
      /\ prev'[1] = [c \in DOMAIN Near(1) |-> 1]
      /\ IsList(prob') /\ IsList(prev') /\ Len(prob') = 1 /\ Len(prev') = 1
  BY <1>1, <1>2 DEF IsList, Near
<1>4. \A c \in DOMAIN Near(1) : Match!emission(Near(1)[c]) \in Int
  BY <1>2, WeightsTyped
<1>5. Near(1)' = Near(1) /\ Match!n_points' = Match!n_points
      /\ (Match!NoRoad(1)' <=> Match!NoRoad(1))
  BY <1>1, SameTrace, SameGaps
<1>6. Filled(1)'
  BY <1>3, <1>4, <1>5 DEF Filled
<1>. QED
  BY <1>1, <1>2, <1>3, <1>5, <1>6 DEF Columns, Match!NoRoad

LEMMA ResultTells ==
    ASSUME Columns, Len(prob) = Match!n_points, Traced, Match!Result
    PROVE  Told'
<1>1. /\ t = 1 /\ UNCHANGED <<req, t, prob, prev, j, chosen>>
      /\ reply'.kind = "matched"
      /\ reply'.points = [i \in 1 .. Match!n_points |-> PointOf(i)]
  BY DEF Match!Result, PointOf, Near
<1>2. Columns' /\ Match!n_points' = Match!n_points /\ (\A i : Near(i)' = Near(i))
      /\ (\A i : Match!NoRoad(i)' <=> Match!NoRoad(i))
      /\ (\A i : Skipped(i)' <=> Skipped(i))
      /\ (Match!HasGap' <=> Match!HasGap)
  BY <1>1, ColumnsStay, SameTrace, SameGaps
<1>3. Traced'
  BY <1>1, <1>2 DEF Traced, Along
<1>4. \A i : PointOf(i)' = PointOf(i)
  BY <1>1, <1>2 DEF PointOf, Match!Unmatched
<1>. QED
  BY <1>1, <1>2, <1>3, <1>4 DEF Told

LEMMA MatchRightStep ==
    ASSUME MatchRight, call = "match", call' = call, Match!Next \/ UNCHANGED Match!vars
    PROVE  MatchRight'
<1>0. req \in Matches /\ pc \in {"start", "recur", "back", "done"}
  BY DEF MatchRight
<1>1. CASE UNCHANGED Match!vars
  <2>1. UNCHANGED <<req, pc, t, prob, prev, j, chosen, reply>>
    BY <1>1 DEF Match!vars
  <2>2. /\ Match!n_points' = Match!n_points /\ \A i : Near(i)' = Near(i)
        /\ \A i : Match!NoRoad(i)' <=> Match!NoRoad(i)
        /\ \A i : Skipped(i)' <=> Skipped(i)
        /\ Match!HasGap' <=> Match!HasGap
        /\ Match!NoReply' = Match!NoReply
    BY <2>1, SameTrace, SameGaps
  <2>3. Columns => Columns'
    BY <2>1, ColumnsStay
  <2>4. Traced => Traced'
    BY <2>1, <2>2 DEF Traced, Along
  <2>5. Untouched => Untouched'
    BY <2>1, <2>2 DEF Untouched
  <2>6. \A i : PointOf(i)' = PointOf(i) /\ Match!Unmatched(i)' = Match!Unmatched(i)
    BY <2>1, <2>2 DEF PointOf, Match!Unmatched
  <2>7. Told => Told'
    BY <2>1, <2>2, <2>3, <2>4, <2>5, <2>6 DEF Told
  <2>. QED
    BY <2>1, <2>2, <2>3, <2>4, <2>5, <2>7 DEF MatchRight
<1>2. ASSUME UNCHANGED <<req, t, prob, prev, j, chosen>>, pc = "start"
      PROVE  Untouched' /\ Match!n_points' = Match!n_points
             /\ (\A i : Match!NoRoad(i)' <=> Match!NoRoad(i))
             /\ \A i : Match!Unmatched(i)' = Match!Unmatched(i)
  <2>1. Untouched
    BY <1>2 DEF MatchRight
  <2>. QED
    BY <1>2, <2>1, SameTrace, SameGaps DEF Untouched, Match!Unmatched
<1>3. CASE Match!Reject
  <2>1. /\ pc = "start" /\ pc' = "done" /\ reply'.kind = "bad_request"
        /\ UNCHANGED <<req, t, prob, prev, j, chosen>>
    BY <1>3 DEF Match!Reject
  <2>. QED
    BY <1>0, <1>2, <2>1 DEF MatchRight, Told
<1>4. CASE Match!AnswerEmpty
  <2>1. /\ pc = "start" /\ pc' = "done" /\ reply'.kind = "matched" /\ Match!n_points = 0
        /\ UNCHANGED <<req, t, prob, prev, j, chosen>>
    BY <1>4 DEF Match!AnswerEmpty
  <2>. QED
    BY <1>0, <1>2, <2>1 DEF MatchRight, Told
<1>5. CASE Match!AnswerFallback
  <2>1. /\ pc = "start" /\ pc' = "done" /\ reply'.kind = "fallback" /\ Match!NoRoad(1)
        /\ reply'.points = [i \in 1 .. Match!n_points |-> Match!Unmatched(i)]
        /\ UNCHANGED <<req, t, prob, prev, j, chosen>>
    BY <1>5 DEF Match!AnswerFallback, Match!NoRoad
  <2>2. Told'
    BY <1>2, <2>1 DEF Told
  <2>. QED
    BY <1>0, <2>1, <2>2 DEF MatchRight
<1>6. CASE Match!Begin
  <2>1. pc = "start" /\ pc' = "recur" /\ UNCHANGED <<req, j, chosen, reply>>
    BY <1>6 DEF Match!Begin
  <2>2. Columns' /\ t' = Len(prob') + 1 /\ ~Match!NoRoad(1)'
    BY <1>0, <1>6, BeginFills
  <2>3. Untouched /\ reply = Match!NoReply
    BY <2>1 DEF MatchRight
  <2>. QED
    BY <1>0, <2>1, <2>2, <2>3, SameTrace DEF MatchRight, Untouched
<1>7. CASE Match!Recur
  <2>1. pc = "recur" /\ t' = t + 1 /\ UNCHANGED <<req, pc, j, chosen, reply>>
    BY <1>7 DEF Match!Recur
  <2>2. /\ Columns /\ t = Len(prob) + 1 /\ ~Match!NoRoad(1) /\ reply = Match!NoReply
        /\ chosen = [i \in 1 .. Match!n_points |-> Match!Nobody]
    BY <2>1 DEF MatchRight
  <2>3. Columns' /\ Len(prob') = Len(prob) + 1
    BY <1>7, <2>2, RecurFills
  <2>. QED
    BY <1>0, <2>1, <2>2, <2>3, SameTrace, SameGaps DEF MatchRight
<1>8. CASE Match!ChooseEnd
  <2>1. pc = "recur" /\ pc' = "back" /\ t > Match!n_points /\ UNCHANGED <<req, reply>>
    BY <1>8 DEF Match!ChooseEnd
  <2>2. /\ Columns /\ t = Len(prob) + 1 /\ ~Match!NoRoad(1) /\ reply = Match!NoReply
        /\ chosen = [i \in 1 .. Match!n_points |-> Match!Nobody]
    BY <2>1 DEF MatchRight
  <2>3. Len(prob) = Match!n_points
    <3>1. Len(prob) \in 1 .. Match!n_points /\ Match!n_points \in Nat
      BY <1>0, <2>2, MatchesFine DEF Columns
    <3>. QED
      BY <2>1, <2>2, <3>1
  <2>4. DOMAIN chosen = 1 .. Match!n_points /\ \A i \in DOMAIN chosen : chosen[i] = Match!Nobody
    BY <2>2
  <2>5. Columns' /\ Len(prob') = Match!n_points' /\ Traced'
    BY <1>8, <2>2, <2>3, <2>4, EndIsBest
  <2>. QED
    BY <1>0, <2>1, <2>2, <2>5, SameTrace DEF MatchRight
<1>9. CASE Match!BackOne
  <2>1. pc = "back" /\ UNCHANGED <<req, pc, reply>>
    BY <1>9 DEF Match!BackOne
  <2>2. Columns /\ Len(prob) = Match!n_points /\ Traced /\ reply = Match!NoReply
    BY <2>1 DEF MatchRight
  <2>3. Columns' /\ Len(prob') = Match!n_points' /\ Traced'
    BY <1>9, <2>2, BackKeeps
  <2>. QED
    BY <1>0, <2>1, <2>2, <2>3, SameTrace DEF MatchRight
<1>10. CASE Match!Result
  <2>1. pc = "back" /\ pc' = "done" /\ req' = req
    BY <1>10 DEF Match!Result
  <2>2. Columns /\ Len(prob) = Match!n_points /\ Traced
    BY <2>1 DEF MatchRight
  <2>3. Told'
    BY <1>10, <2>2, ResultTells
  <2>. QED
    BY <1>0, <2>1, <2>3 DEF MatchRight
<1>. QED
  BY <1>1, <1>3, <1>4, <1>5, <1>6, <1>7, <1>8, <1>9, <1>10 DEF Match!Next

LEMMA MatchRightNext == MatchRight /\ [Next]_vars => MatchRight'
<1>. SUFFICES ASSUME MatchRight, [Next]_vars, call' = "match" PROVE MatchRight'
  BY DEF MatchRight
<1>1. call = "match"
  BY DEF Next, Isochrone, ConnectedComponents, Centrality, MatchTrace, PairQuery, vars
<1>2. Match!Next \/ UNCHANGED Match!vars
  <2>1. CASE Next
    BY <1>1, <2>1 DEF Next, Isochrone, ConnectedComponents, Centrality, MatchTrace, PairQuery
  <2>2. CASE UNCHANGED vars
    BY <2>2 DEF vars, matchLocals, Match!vars
  <2>. QED
    BY <2>1, <2>2
<1>. QED
  BY <1>1, <1>2, MatchRightStep

LEMMA GapsFollow == ASSUME MatchRight, call = "match" PROVE Match!UnmatchedExactly
<1>. SUFFICES ASSUME reply.kind \in {"matched", "fallback"}, NEW i \in 1 .. Match!n_points
              PROVE  /\ reply.points[i].road = Match!Nobody
                           <=> Match!NoRoad(1) \/ Skipped(i)
                     /\ reply.points[i].road # Match!Nobody =>
                           \E c \in DOMAIN Near(i) :
                              /\ Near(i)[c].seg = reply.points[i].road
                              /\ Near(i)[c].snap = reply.points[i].snapped
  BY DEF Match!UnmatchedExactly, Near, Skipped
<1>1. Told
  BY DEF MatchRight, Match!NoReply
<1>2. Match!Unmatched(i).road = Match!Nobody
  BY DEF Match!Unmatched
<1>3. ASSUME reply.kind # "bad_request", Match!n_points # 0,
             ~(/\ Untouched /\ reply.kind = "fallback" /\ Match!NoRoad(1)
               /\ reply.points = [k \in 1 .. Match!n_points |-> Match!Unmatched(k)])
      PROVE  /\ t = 1 /\ Traced /\ req \in Matches /\ reply.points[i] = PointOf(i)
  BY <1>1, <1>3 DEF Told, Columns
<1>4. CASE /\ Untouched /\ reply.kind = "fallback" /\ Match!NoRoad(1)
           /\ reply.points = [k \in 1 .. Match!n_points |-> Match!Unmatched(k)]
  BY <1>2, <1>4
<1>5. CASE t = 1 /\ Traced /\ req \in Matches /\ reply.points[i] = PointOf(i)
  <2>1. ~Match!NoRoad(1) /\ (chosen[i] = Match!Nobody <=> Skipped(i))
    BY <1>5 DEF Traced
  <2>2. CASE chosen[i] = Match!Nobody
    BY <1>2, <1>5, <2>1, <2>2 DEF PointOf
  <2>3. CASE chosen[i] # Match!Nobody
    <3>1. chosen[i] \in DOMAIN Near(i)
      BY <1>5, <2>3 DEF Traced
    <3>2. /\ reply.points[i].snapped = Near(i)[chosen[i]].snap
          /\ reply.points[i].road = Near(i)[chosen[i]].seg
      BY <1>5, <2>3 DEF PointOf
    <3>3. Near(i)[chosen[i]].seg # Match!Nobody
      BY <1>5, <3>1, NearTyped
    <3>. QED
      BY <2>1, <2>3, <3>1, <3>2, <3>3
  <2>. QED
    BY <2>2, <2>3
<1>6. Match!n_points # 0
  BY MatchesFine DEF MatchRight
<1>. QED
  BY <1>3, <1>4, <1>5, <1>6

(* Of every trace and road network: the points match_trace leaves          *)
(* unmatched are those no road is near to, all of them if none is near to  *)
(* the first, and those before a gap beyond which there are roads again;   *)
(* any other is matched to a road within the radius.                       *)
THEOREM UnmatchedAtGaps == Spec => []UnmatchedExactly
<1>1. MatchRight => UnmatchedExactly
  BY GapsFollow DEF UnmatchedExactly
<1>. QED
  BY <1>1, MatchRightInit, MatchRightNext, PTL DEF Spec

LEMMA MatchTyped == ASSUME MatchRight, call = "match" PROVE Match!TypeOK
<1>0. /\ pc \in {"start", "recur", "back", "done"} /\ req \in Matches
      /\ Match!n_points \in Nat
  BY MatchesFine DEF MatchRight
<1>1. ASSUME Columns
      PROVE  /\ Len(prob) = Len(prev) /\ DOMAIN prob = 1 .. Len(prob)
             /\ DOMAIN prev = 1 .. Len(prob)
             /\ Len(prob) \in 1 .. Match!n_points
             /\ \A i \in DOMAIN prob :
                   /\ DOMAIN prob[i] \subseteq DOMAIN Match!all_candidates[i]
                   /\ DOMAIN prev[i] = DOMAIN Match!all_candidates[i]
                   /\ \A c \in DOMAIN prob[i] : prob[i][c] \in Int
  <2>1. /\ Len(prob) = Len(prev) /\ IsList(prob) /\ IsList(prev)
        /\ Len(prob) \in 1 .. Match!n_points /\ \A i \in 1 .. Len(prob) : Filled(i)
    BY <1>1 DEF Columns
  <2>2. DOMAIN prob = 1 .. Len(prob) /\ DOMAIN prev = 1 .. Len(prob)
    BY <2>1 DEF IsList
  <2>3. \A i \in 1 .. Len(prob) :
           /\ DOMAIN prob[i] \subseteq DOMAIN Near(i) /\ DOMAIN prev[i] = DOMAIN Near(i)
           /\ \A c \in DOMAIN prob[i] : prob[i][c] \in Int
    BY <2>1 DEF Filled
  <2>. QED
    BY <2>1, <2>2, <2>3 DEF Near
<1>2. CASE Untouched /\ reply.kind \in {"none", "bad_request", "matched", "fallback"}
           /\ pc \in {"start", "done"}
  <2>1. Len(prob) = 0 /\ Len(prev) = 0 /\ DOMAIN prob = {}
    BY <1>2 DEF Untouched
  <2>2. DOMAIN chosen = 1 .. Match!n_points
        /\ \A i \in DOMAIN chosen : chosen[i] = Match!Nobody
    BY <1>2 DEF Untouched
  <2>. QED
    BY <1>0, <1>2, <2>1, <2>2 DEF Match!TypeOK, Untouched
<1>3. CASE pc = "recur"
  <2>1. /\ Columns /\ t = Len(prob) + 1 /\ reply.kind = "none"
        /\ chosen = [i \in 1 .. Match!n_points |-> Match!Nobody]
    BY <1>3 DEF MatchRight, Match!NoReply
  <2>2. t \in 0 .. Match!n_points + 1 /\ Len(prob) = t - 1
    BY <1>0, <1>1, <2>1
  <2>. QED
    BY <1>1, <1>3, <2>1, <2>2 DEF Match!TypeOK
<1>4. CASE Columns /\ Len(prob) = Match!n_points /\ Traced /\ pc \in {"back", "done"}
           /\ reply.kind \in {"none", "matched"}
  <2>1. /\ t \in 1 .. Match!n_points /\ DOMAIN chosen = 1 .. Match!n_points
        /\ \A i \in 1 .. Match!n_points :
              chosen[i] = Match!Nobody \/ chosen[i] \in DOMAIN Match!all_candidates[i]
        /\ j = 1 \/ j \in DOMAIN Near(t)
    BY <1>4 DEF Traced, Near
  <2>2. ASSUME prev[t] # <<>> PROVE j \in DOMAIN prev[t]
    <3>1. Filled(t)
      BY <1>4, <2>1 DEF Columns
    <3>2. prev[t] = [c \in DOMAIN Near(t) |-> prev[t][c]]
      BY <3>1 DEF Filled
    <3>3. DOMAIN prev[t] = DOMAIN Near(t)
      BY <3>2
    <3>4. DOMAIN Near(t) # {}
      <4>1. ASSUME DOMAIN Near(t) = {} PROVE prev[t] = <<>>
        BY <3>2, <4>1
      <4>. QED
        BY <2>2, <4>1
    <3>5. 1 \in DOMAIN Near(t)
      BY <1>0, <2>1, <3>4, NearOrNone
    <3>. QED
      BY <2>1, <3>3, <3>5
  <2>3. t \in 0 .. Match!n_points + 1
    BY <1>0, <2>1
  <2>. QED
    BY <1>0, <1>1, <1>4, <2>1, <2>2, <2>3 DEF Match!TypeOK
<1>5. CASE pc = "start"
  BY <1>2, <1>5 DEF MatchRight, Match!NoReply
<1>6. CASE pc = "back"
  BY <1>4, <1>6 DEF MatchRight, Match!NoReply
<1>7. CASE pc = "done"
  <2>1. Told
    BY <1>7 DEF MatchRight
  <2>. QED
    BY <1>2, <1>4, <1>7, <2>1 DEF Told
<1>. QED
  BY <1>0, <1>3, <1>5, <1>6, <1>7

(* The scores of the first points of a choice of candidates.               *)
SumsTo(p, f) ==
    LET n == Match!n_points
    IN  /\ \A i \in 1 .. n : f[i] \in Int
        /\ f[1] = Match!emission(Near(1)[p[1]])
        /\ \A i \in 1 .. n - 1 : f[i + 1] = f[i] + By(i + 1, p[i], p[i + 1])

LEMMA ScoreIs ==
    ASSUME req \in Matches, Match!n_points > 0,
           NEW p, \A i \in 1 .. Match!n_points : p[i] \in DOMAIN Near(i)
    PROVE  \E f : SumsTo(p, f) /\ Match!Score(p) = f[Match!n_points]
<1>. DEFINE x == Match!emission(Near(1)[p[1]])
            Next1(k, s) == IF k \in 1 .. Match!n_points - 1 THEN s + By(k + 1, p[k], p[k + 1]) ELSE s
            step == [k \in Nat |-> [s \in Int |-> Next1(k, s)]]
            Partial(a) == [i \in 1 .. Match!n_points |->
                          IF i = 1 THEN x ELSE a[i - 1] + By(i, p[i - 1], p[i])]
            f == CHOOSE a : a = Partial(a)
<1>1. PICK l \in Nat : l = Match!n_points /\ l >= 1
  BY MatchesFine
<1>2. x \in Int
  BY <1>1, WeightsTyped
<1>3. \A k \in 1 .. l - 1 : By(k + 1, p[k], p[k + 1]) \in Int
  <2>1. ASSUME NEW k \in 1 .. l - 1 PROVE By(k + 1, p[k], p[k + 1]) \in Int
    <3>1. /\ k + 1 \in 1 .. Match!n_points /\ k \in 1 .. Match!n_points /\ k + 1 > 1
          /\ (k + 1) - 1 = k
      BY <1>1
    <3>2. p[k] \in DOMAIN Near(k) /\ p[k + 1] \in DOMAIN Near(k + 1)
      BY <3>1
    <3>. QED
      BY <3>1, <3>2, WeightsTyped DEF By
  <2>. QED
    BY <2>1
<1>4. step \in [Nat -> [Int -> Int]] /\ \A k \in Nat : \A s \in Int : step[k][s] = Next1(k, s)
  <2>1. \A k \in Nat : \A s \in Int : Next1(k, s) \in Int
    BY <1>1, <1>3
  <2>. QED
    BY <2>1
<1>5. \A k \in 1 .. l - 1 : \A s : Next1(k, s) = s + By(k + 1, p[k], p[k + 1])
  BY <1>1
<1>6. \A s : Next1(0, s) = s
  OBVIOUS
<1>. HIDE DEF Next1, step, x
<1>7. PICK h : Recurs(h, Int, x, step)
  BY <1>2, <1>4, RecursionOverNat DEF IsRecursion
<1>8. h \in [Nat -> Int] /\ h[0] = x /\ \A k \in Nat : h[k + 1] = Next1(k, h[k])
  BY <1>4, <1>7 DEF Recurs
<1>9. h[1] = x
  <2>1. h[0 + 1] = h[0]
    BY <1>6, <1>8
  <2>. QED
    BY <1>8, <2>1
<1>10. ASSUME NEW k \in 1 .. l - 1 PROVE h[k + 1] = h[k] + By(k + 1, p[k], p[k + 1])
  <2>1. k \in Nat
    OBVIOUS
  <2>2. h[k + 1] = Next1(k, h[k])
    BY <1>8, <2>1
  <2>. QED
    BY <1>5, <2>2
<1>. DEFINE g == [i \in 1 .. l |-> h[i]]
<1>11. ASSUME NEW i \in 1 .. l
       PROVE  g[i] = IF i = 1 THEN x ELSE g[i - 1] + By(i, p[i - 1], p[i])
  <2>1. CASE i = 1
    BY <1>1, <1>9, <2>1
  <2>2. CASE i # 1
    <3>1. i - 1 \in 1 .. l - 1 /\ (i - 1) + 1 = i /\ i - 1 \in 1 .. l
      BY <2>2
    <3>2. h[i] = h[i - 1] + By(i, p[i - 1], p[i])
      BY <1>10, <3>1
    <3>3. g[i] = h[i] /\ g[i - 1] = h[i - 1]
      BY <3>1
    <3>. HIDE DEF g
    <3>. QED
      BY <2>2, <3>2, <3>3
  <2>. QED
    BY <2>1, <2>2
<1>12. g = Partial(g)
  <2>1. DOMAIN g = 1 .. l /\ g = [i \in 1 .. l |-> g[i]]
    OBVIOUS
  <2>. HIDE DEF g
  <2>. QED
    BY <1>1, <1>11, <2>1
<1>. HIDE DEF g
<1>13. f = Partial(f)
  BY <1>12
<1>14. Match!Score(p) = f[Match!n_points]
  BY DEF Match!Score, x, By, Near
<1>. HIDE DEF f
<1>15. \A i \in 1 .. l : f[i] = IF i = 1 THEN x ELSE f[i - 1] + By(i, p[i - 1], p[i])
  BY <1>1, <1>13
<1>16. f[1] = x
  <2>1. 1 \in 1 .. l
    BY <1>1
  <2>. QED
    BY <1>15, <2>1
<1>17. ASSUME NEW i \in 1 .. l - 1 PROVE f[i + 1] = f[i] + By(i + 1, p[i], p[i + 1])
  <2>1. i + 1 \in 1 .. l /\ i + 1 # 1 /\ (i + 1) - 1 = i
    OBVIOUS
  <2>. QED
    BY <1>15, <2>1
<1>. DEFINE T == {i \in Nat : i \in 1 .. l => f[i] \in Int}
<1>18. Nat \subseteq T
  <2>1. 0 \in T
    OBVIOUS
  <2>2. ASSUME NEW i \in Nat, i \in T PROVE i + 1 \in T
    <3>1. CASE i = 0
      BY <1>2, <1>16, <3>1
    <3>2. CASE i # 0
      <4>. SUFFICES ASSUME i + 1 \in 1 .. l PROVE f[i + 1] \in Int
        OBVIOUS
      <4>1. i \in 1 .. l - 1 /\ i \in 1 .. l
        BY <3>2
      <4>2. f[i] \in Int /\ By(i + 1, p[i], p[i + 1]) \in Int
        BY <1>3, <2>2, <4>1
      <4>. QED
        BY <1>17, <4>1, <4>2
    <3>. QED
      BY <3>1, <3>2
  <2>. HIDE DEF T
  <2>. QED
    BY <2>1, <2>2, InductionOverNat
<1>19. SumsTo(p, f)
  BY <1>1, <1>16, <1>17, <1>18 DEF SumsTo, x
<1>. QED
  BY <1>14, <1>19

(* No choice of candidates scores higher than the columns say.             *)
LEMMA ColumnsBound ==
    ASSUME Columns, Len(prob) = Match!n_points, ~Match!HasGap,
           NEW p, \A i \in 1 .. Match!n_points : p[i] \in DOMAIN Near(i),
           NEW f, SumsTo(p, f)
    PROVE  f[Match!n_points] <= prob[Match!n_points][p[Match!n_points]]
<1>. DEFINE n == Match!n_points
            T == {i \in Nat : i \in 1 .. n => f[i] <= prob[i][p[i]]}
<1>1. /\ req \in Matches /\ n \in Nat /\ n >= 1 /\ \A i \in 1 .. n : Filled(i)
      /\ \A i \in 1 .. n : DOMAIN Near(i) # {} /\ DOMAIN prob[i] = DOMAIN Near(i)
  BY MatchesFine, ColumnsFull DEF Columns
<1>2. /\ \A i \in 1 .. n : f[i] \in Int
      /\ f[1] = Match!emission(Near(1)[p[1]])
      /\ \A i \in 1 .. n - 1 : f[i + 1] = f[i] + By(i + 1, p[i], p[i + 1])
  BY DEF SumsTo
<1>3. \A i \in 1 .. n : p[i] \in DOMAIN Near(i) /\ prob[i][p[i]] \in Int
  BY <1>1 DEF Filled
<1>. HIDE DEF n
<1>4. 0 \in T
  OBVIOUS
<1>5. ASSUME NEW i \in Nat, i \in T PROVE i + 1 \in T
  <2>. SUFFICES ASSUME i + 1 \in 1 .. n PROVE f[i + 1] <= prob[i + 1][p[i + 1]]
    OBVIOUS
  <2>1. Filled(i + 1) /\ (i + 1) - 1 = i /\ p[i + 1] \in DOMAIN Near(i + 1)
    BY <1>1, <1>3
  <2>2. CASE i = 0
    <3>1. Filled(1) /\ p[1] \in DOMAIN Near(1) /\ 1 \in 1 .. n
      BY <1>1, <2>1, <2>2
    <3>2. prob[1][p[1]] = Match!emission(Near(1)[p[1]])
      BY <3>1 DEF Filled
    <3>3. f[1] = prob[1][p[1]] /\ f[1] \in Int
      BY <1>2, <3>1, <3>2
    <3>. QED
      BY <2>2, <3>3
  <2>3. CASE i # 0
    <3>1. i \in 1 .. n - 1 /\ i \in 1 .. n /\ i + 1 > 1
      BY <1>1, <2>3
    <3>2. p[i] \in DOMAIN prob[i]
      BY <1>1, <1>3, <3>1
    <3>3. prob[i][p[i]] + By(i + 1, p[i], p[i + 1]) <= prob[i + 1][p[i + 1]]
      BY <2>1, <3>1, <3>2 DEF Filled
    <3>4. f[i] <= prob[i][p[i]] /\ f[i] \in Int /\ prob[i][p[i]] \in Int
          /\ prob[i + 1][p[i + 1]] \in Int
      BY <1>2, <1>3, <1>5, <3>1
    <3>5. By(i + 1, p[i], p[i + 1]) \in Int
      <4>1. i + 1 \in 1 .. Match!n_points /\ p[i] \in DOMAIN Near(i)
        BY <1>3, <3>1 DEF n
      <4>. QED
        BY <1>1, <2>1, <3>1, <4>1, WeightsTyped DEF By
    <3>6. f[i + 1] = f[i] + By(i + 1, p[i], p[i + 1])
      BY <1>2, <3>1
    <3>. QED
      BY <3>3, <3>4, <3>5, <3>6
  <2>. QED
    BY <2>2, <2>3
<1>6. n \in T
  <2>. HIDE DEF T
  <2>. QED
    BY <1>1, <1>4, <1>5, InductionOverNat
<1>. QED
  BY <1>1, <1>6 DEF n

(* The marks score what the columns say.                                   *)
LEMMA MarksScore ==
    ASSUME Columns, Len(prob) = Match!n_points, ~Match!HasGap, Along, t = 1,
           NEW f, SumsTo(chosen, f)
    PROVE  f[Match!n_points] = prob[Match!n_points][chosen[Match!n_points]]
<1>. DEFINE n == Match!n_points
            T == {i \in Nat : i \in 1 .. n => f[i] = prob[i][chosen[i]]}
<1>1. /\ req \in Matches /\ n \in Nat /\ n >= 1 /\ \A i \in 1 .. n : Filled(i)
      /\ \A i \in 1 .. n : DOMAIN Near(i) # {} /\ DOMAIN prob[i] = DOMAIN Near(i)
  BY MatchesFine, ColumnsFull DEF Columns
<1>2. /\ f[1] = Match!emission(Near(1)[chosen[1]])
      /\ \A i \in 1 .. n - 1 : f[i + 1] = f[i] + By(i + 1, chosen[i], chosen[i + 1])
  BY DEF SumsTo
<1>3. /\ \A i \in 1 .. n : chosen[i] \in DOMAIN Near(i)
      /\ \A i \in 2 .. n : chosen[i - 1] = prev[i][chosen[i]]
  BY DEF Along
<1>. HIDE DEF n
<1>4. 0 \in T
  OBVIOUS
<1>5. ASSUME NEW i \in Nat, i \in T PROVE i + 1 \in T
  <2>. SUFFICES ASSUME i + 1 \in 1 .. n PROVE f[i + 1] = prob[i + 1][chosen[i + 1]]
    OBVIOUS
  <2>1. Filled(i + 1) /\ (i + 1) - 1 = i /\ chosen[i + 1] \in DOMAIN Near(i + 1)
    BY <1>1, <1>3
  <2>2. CASE i = 0
    <3>1. Filled(1) /\ chosen[1] \in DOMAIN Near(1)
      BY <2>1, <2>2
    <3>2. prob[1][chosen[1]] = Match!emission(Near(1)[chosen[1]])
      BY <3>1 DEF Filled
    <3>. QED
      BY <1>2, <2>2, <3>2
  <2>3. CASE i # 0
    <3>1. i \in 1 .. n - 1 /\ i \in 1 .. n /\ i + 1 \in 2 .. n /\ i + 1 > 1
      BY <1>1, <2>3
    <3>2. chosen[i] = prev[i + 1][chosen[i + 1]] /\ DOMAIN prob[i] # {}
      BY <1>1, <1>3, <2>1, <3>1
    <3>3. prob[i + 1][chosen[i + 1]]
              = prob[i][chosen[i]] + By(i + 1, chosen[i], chosen[i + 1])
      BY <2>1, <3>1, <3>2 DEF Filled
    <3>. QED
      BY <1>2, <1>5, <3>1, <3>3
  <2>. QED
    BY <2>2, <2>3
<1>6. n \in T
  <2>. HIDE DEF T
  <2>. QED
    BY <1>1, <1>4, <1>5, InductionOverNat
<1>. QED
  BY <1>1, <1>6 DEF n

LEMMA BestFollows == ASSUME MatchRight, call = "match" PROVE Match!BestSequence
<1>. DEFINE n == Match!n_points
<1>. SUFFICES ASSUME reply.kind = "matched", ~Match!HasGap, n > 0, NEW p \in Match!Paths
              PROVE  Match!Score(p) <= Match!Score(chosen)
  BY DEF Match!BestSequence
<1>1. Told
  BY DEF MatchRight, Match!NoReply
<1>2. req \in Matches /\ n \in Nat
  BY MatchesFine DEF MatchRight
<1>3. Columns /\ Len(prob) = n /\ Along /\ t = 1
  BY <1>1, <1>2 DEF Told, Traced
<1>4. /\ \A i \in 1 .. n : p[i] \in DOMAIN Near(i)
      /\ \A i \in 1 .. n : chosen[i] \in DOMAIN Near(i)
  BY <1>3 DEF Match!Paths, Near, Along
<1>5. PICK f : SumsTo(p, f) /\ Match!Score(p) = f[n]
  BY <1>2, <1>4, ScoreIs
<1>6. PICK g : SumsTo(chosen, g) /\ Match!Score(chosen) = g[n]
  BY <1>2, <1>4, ScoreIs
<1>7. f[n] <= prob[n][p[n]]
  BY <1>3, <1>4, <1>5, ColumnsBound
<1>8. g[n] = prob[n][chosen[n]]
  BY <1>3, <1>6, MarksScore
<1>9. f[n] \in Int /\ g[n] \in Int /\ n \in 1 .. n
  BY <1>2, <1>5, <1>6 DEF SumsTo
<1>10. prob[n][p[n]] <= prob[n][chosen[n]] /\ prob[n][p[n]] \in Int
  <2>1. DOMAIN prob[n] = DOMAIN Near(n) /\ Filled(n)
    BY <1>3, <1>9, ColumnsFull DEF Columns
  <2>2. p[n] \in DOMAIN prob[n]
    BY <1>4, <1>9, <2>1
  <2>. QED
    BY <1>3, <2>1, <2>2 DEF Along, Filled
<1>. QED
  BY <1>5, <1>6, <1>7, <1>8, <1>9, <1>10

(* Of every trace without gaps, on every road network: no other choice of  *)
(* candidates scores higher than the one that is answered.                 *)
THEOREM NoBetterMatch == Spec => []BestSequence
<1>1. MatchRight => BestSequence
  BY BestFollows DEF BestSequence
<1>. QED
  BY <1>1, MatchRightInit, MatchRightNext, PTL DEF Spec

-----------------------------------------------------------------------------
(* The locals of every call are what they can be.                          *)

LEMMA AreaTyped == ASSUME AreaRight, call = "isochrone" PROVE Area!TypeOK
<1>1. AreaAlone!TypeOK
  BY DEF AreaRight, AreaAlone!IInv, AreaAlone!Settled, AreaAlone!Shape
<1>. QED
  BY <1>1 DEF AreaAlone!TypeOK, Area!TypeOK, AreaAlone!G, Area!G

NetworkTyped == call = "components" => size \in 0 .. Network!net.n

LEMMA NetworkTypedInit == Init => NetworkTyped
<1>. SUFFICES ASSUME Init, call = "components" PROVE size \in 0 .. Network!net.n
  BY DEF NetworkTyped
<1>1. Network!Init
  BY DEF Init
<1>. QED
  BY <1>1, NetworksFine, NetworkCountsInit

LEMMA NetworkTypedStep ==
    NetworkTyped /\ NetworkRight /\ NetworkRight' /\ [Next]_vars => NetworkTyped'
<1>. SUFFICES ASSUME NetworkTyped, NetworkRight, NetworkRight', [Next]_vars,
                     call' = "components"
              PROVE  size' \in 0 .. Network!net'.n
  BY DEF NetworkTyped
<1>1. call = "components"
  BY DEF Next, Isochrone, ConnectedComponents, Centrality, MatchTrace, PairQuery, vars
<1>2. NetworkMoves
  <2>1. CASE Next
    BY <1>1, <2>1, NetworkNext
    DEF Next, Isochrone, ConnectedComponents, Centrality, MatchTrace, PairQuery
  <2>2. CASE UNCHANGED vars
    BY <2>2 DEF vars, networkLocals, NetworkMoves, Network!vars
  <2>. QED
    BY <2>1, <2>2
<1>. QED
  BY <1>1, <1>2, NetworksFine, NetworkSizeStep DEF NetworkRight, NetworkTyped

LEMMA NetworkIsTyped ==
    ASSUME NetworkRight, NetworkTyped, call = "components" PROVE Network!TypeOK
<1>1. Graphwise /\ size \in 0 .. Network!net.n
  BY DEF NetworkRight, NetworkTyped
<1>. QED
  BY <1>1 DEF Graphwise, NetworkShape, Network!TypeOK

LEMMA ResultsTyped ==
    ASSUME Walking, NEW r, NEW i \in DOMAIN sources, NEW w \in Pair!Nodes,
           NEW c \in Quick(i, w), r = Found(i, w, c)
    PROVE  r.source \in Pair!Nodes /\ r.target \in Pair!Nodes /\ r.cost \in Nat
<1>1. sources[i] \in Pair!Nodes
  BY DEF Walking
<1>2. c \in Nat
  BY <1>1, DijkstraFacts DEF Walking, Quick
<1>. QED
  BY <1>1, <1>2 DEF Found

LEMMA PairTyped == ASSUME PairRight, call = "pairs" PROVE Pair!TypeOK
<1>1. CASE pc \in {"start", "done"} /\ sources = <<>> /\ targets = <<>> /\ turn = 1
           /\ left = {} /\ results = <<>>
  <2>1. sources \in Seq(Pair!Nodes) /\ targets \in Seq(Pair!Nodes)
        /\ Len(sources) = 0 /\ DOMAIN results = {}
    BY <1>1
  <2>. QED
    BY <1>1, <2>1 DEF Pair!TypeOK
<1>2. CASE /\ pc \in {"ask", "done"} /\ Walking
           /\ IF Pair!Matrix THEN MatrixRight
              ELSE \E n : ClosestRight(results, n) /\ n \in 0 .. turn
  <2>1. ASSUME NEW r, NEW i, NEW w, i \in DOMAIN sources, w \in Pair!Nodes,
               \E c \in Quick(i, w) : r = Found(i, w, c)
        PROVE  r.source \in Pair!Nodes /\ r.target \in Pair!Nodes /\ r.cost \in Nat
    BY <1>2, <2>1, ResultsTyped
  <2>2. DOMAIN sources = 1 .. Len(sources) /\ Len(sources) \in Nat /\ turn \in 1 .. Len(sources)
        /\ left \subseteq Pair!ToAsk(targets)
        /\ \A f \in DOMAIN targets : targets[f] \in Pair!Nodes
    BY <1>2 DEF Walking
  <2>3. ASSUME NEW k \in DOMAIN results
        PROVE  \E i, w : /\ i \in DOMAIN sources /\ w \in Pair!Nodes
                         /\ \E c \in Quick(i, w) : results[k] = Found(i, w, c)
    <3>1. CASE Pair!Matrix
      <4>1. PICK i, w : AskedFor(i, w) /\ \E c \in Quick(i, w) : results[k] = Found(i, w, c)
        BY <1>2, <3>1 DEF MatrixRight
      <4>2. i \in DOMAIN sources /\ w \in Pair!Nodes
        BY <2>2, <3>1, <4>1 DEF AskedFor, Pair!ToAsk
      <4>. QED
        BY <4>1, <4>2
    <3>2. CASE ~Pair!Matrix
      <4>1. PICK n \in 0 .. turn : ClosestRight(results, n)
        BY <1>2, <3>2
      <4>2. PICK i \in 1 .. n : Closest(i, results[k], DOMAIN targets)
        BY <4>1 DEF ClosestRight
      <4>3. PICK f \in DOMAIN targets : \E c \in Quick(i, targets[f]) :
               results[k] = Found(i, targets[f], c)
        BY <4>2 DEF Closest
      <4>. QED
        BY <2>2, <4>1, <4>2, <4>3
    <3>. QED
      BY <3>1, <3>2
  <2>4. \A k \in DOMAIN results :
          results[k].source \in Pair!Nodes /\ results[k].target \in Pair!Nodes
                                           /\ results[k].cost \in Nat
    BY <2>1, <2>3
  <2>5. turn \in 1 .. Len(sources) + 1
    BY <2>2
  <2>. QED
    BY <1>2, <2>2, <2>4, <2>5 DEF Pair!TypeOK, Walking
<1>3. CASE pc = "start" /\ Pair!Init
  BY <1>1, <1>3 DEF Pair!Init
<1>4. CASE pc = "ask" /\ Walking /\ IF Pair!Matrix THEN MatrixRight
                                    ELSE ClosestRight(results, turn - 1) /\ BestRight
  <2>1. turn - 1 \in 0 .. turn
    BY <1>4 DEF Walking
  <2>. QED
    BY <1>2, <1>4, <2>1
<1>5. CASE pc = "done" /\ Walking /\ IF Pair!Matrix THEN MatrixRight
                                     ELSE ClosestRight(results, turn)
  <2>1. turn \in 0 .. turn
    BY <1>5 DEF Walking
  <2>. QED
    BY <1>2, <1>5, <2>1
<1>. QED
  BY <1>1, <1>3, <1>4, <1>5 DEF PairRight

-----------------------------------------------------------------------------
(* betweenness_centrality: its locals.                                     *)

LEMMA CentralsFine ==
    ASSUME req \in Centralities
    PROVE  /\ IsGraph(Central!G) /\ IsProfile(Central!P) /\ Central!G.n \in Nat
           /\ IsFiniteSet(DOMAIN Central!G.edges)
           /\ \A i \in DOMAIN Central!G.edges :
                 /\ Central!edge_weight(Central!G, Central!P, i) \in Nat
                 /\ Central!G.edges[i].to \in Central!Nodes
           /\ req.sample_size \in Nat /\ IsFiniteSet(Central!Nodes)
<1>. DEFINE g == Central!G
            p == Central!P
<1>1. Central!IsRequest(req)
  BY CallsAssumption
<1>2. /\ IsGraph(g) /\ IsProfile(p) /\ g.n \in Nat /\ req.sample_size \in Nat
      /\ \A i \in DOMAIN g.edges : g.edges[i].to < g.n
  BY <1>1 DEF Central!IsRequest, Central!IsGraph, Central!IsProfile, Central!Edge,
              Central!TurnRestriction, IsGraph, IsProfile, Edge, TurnRestriction,
              Central!G, Central!P
<1>3. \A i : Central!edge_weight(g, p, i) = edge_weight(g, p, i)
  BY DEF Central!edge_weight, edge_weight, Central!pace_of_class, pace_of_class
<1>4. IsFiniteSet(DOMAIN g.edges)
  <2>1. PICK m \in Nat : DOMAIN g.edges = 1 .. m
    BY <1>2 DEF IsGraph
  <2>. QED
    BY <2>1, FS_Interval
<1>5. \A i \in DOMAIN g.edges : g.edges[i].to \in Nat /\ edge_weight(g, p, i) \in Nat
  BY <1>2, EdgeIsSound
<1>6. Central!Nodes = 0 .. g.n - 1
  BY DEF Central!Nodes
<1>. HIDE DEF g, p
<1>7. IsFiniteSet(Central!Nodes)
  <2>1. g.n - 1 \in Int
    BY <1>2
  <2>. QED
    BY <1>6, <2>1, FS_Interval
<1>8. \A i \in DOMAIN g.edges : g.edges[i].to \in Central!Nodes
  BY <1>2, <1>5, <1>6
<1>. QED
  BY <1>2, <1>3, <1>4, <1>5, <1>7, <1>8 DEF g, p

LEMMA ProductIsNatural == ASSUME NEW a \in Nat, NEW b \in Nat PROVE a * b \in Nat
OBVIOUS

LEMMA QuotientIsNatural ==
    ASSUME NEW a \in Nat, NEW b \in Nat \ {0} PROVE a \div b \in Nat
OBVIOUS

(* What is less than n times b holds b less than n times.                  *)
LEMMA QuotientBelow ==
    ASSUME NEW a \in Nat, NEW b \in Nat \ {0}, NEW n \in Nat, a < b * n
    PROVE  a \div b \in 0 .. n - 1
<1>1. PICK q \in Nat : q = a \div b
  OBVIOUS
<1>2. b * q <= a
  BY <1>1
<1>3. ASSUME q >= n PROVE b * q >= b * n
  <2>1. PICK m \in Nat : q = n + m
    BY <1>3
  <2>2. b * q = b * n + b * m /\ b * m \in Nat /\ b * n \in Nat
    BY <2>1
  <2>. QED
    BY <2>2
<1>4. b * n \in Nat /\ b * q \in Nat
  OBVIOUS
<1>5. q < n
  BY <1>2, <1>3, <1>4
<1>. QED
  BY <1>1, <1>5

(* The sample is of nodes, one at least.                                   *)
LEMMA SampleTyped ==
    ASSUME req \in Centralities, Central!Acceptable, Central!G.n > 0
    PROVE  Central!Sample \in Seq(Central!Nodes) /\ Len(Central!Sample) >= 1
<1>1. PICK n \in Nat : n = Central!G.n /\ n > 0
  BY CentralsFine
<1>2. PICK k \in Nat : k = req.sample_size /\ k >= 1
  BY CentralsFine, CallsAssumption DEF Central!Acceptable
<1>3. Central!Nodes = 0 .. n - 1
  BY <1>1 DEF Central!Nodes
<1>4. CASE k >= n
  <2>1. Central!Sample = [i \in 1 .. n |-> i - 1]
    BY <1>1, <1>2, <1>4 DEF Central!Sample
  <2>2. Central!Sample \in [1 .. n -> Central!Nodes]
    BY <1>3, <2>1
  <2>. QED
    BY <1>1, <2>2
<1>5. CASE k < n
  <2>1. Central!Sample = [i \in 1 .. k |-> ((i - 1) * n) \div k]
    BY <1>1, <1>2, <1>5 DEF Central!Sample
  <2>2. ASSUME NEW i \in 1 .. k PROVE ((i - 1) * n) \div k \in 0 .. n - 1
    <3>1. PICK m \in Nat : m = i - 1 /\ k = m + (k - m) /\ k - m \in Nat /\ k - m >= 1
      OBVIOUS
    <3>2. PICK r \in Nat : k = m + r /\ r >= 1
      BY <3>1
    <3>3. m * n \in Nat /\ r * n \in Nat /\ k * n = m * n + r * n
      BY <3>2
    <3>4. r * n >= n
      <4>1. PICK x \in Nat : r = x + 1
        BY <3>2
      <4>2. r * n = x * n + n /\ x * n \in Nat
        BY <4>1
      <4>. QED
        BY <4>2
    <3>5. m * n < k * n
      BY <1>1, <3>3, <3>4
    <3>6. PICK x \in Nat : x = m * n
      BY <3>3
    <3>7. x < k * n /\ k \in Nat \ {0}
      BY <1>2, <3>5, <3>6
    <3>8. x \div k \in 0 .. n - 1
      BY <3>7, QuotientBelow
    <3>. QED
      BY <3>1, <3>6, <3>8
  <2>3. Central!Sample \in [1 .. k -> Central!Nodes]
    BY <1>3, <2>1, <2>2
  <2>. QED
    BY <1>2, <2>3
<1>. QED
  BY <1>4, <1>5

(* The least of naturals is one of them.                                   *)
LEMMA CentralMin ==
    ASSUME NEW S \in SUBSET Nat, S # {} PROVE Central!Min(S) \in S
<1>1. \E c \in S : \A d \in S : c <= d
  BY LeastNatural
<1>. QED
  BY <1>1 DEF Central!Min

(* The search from one source: costs, open entries and predecessors are of *)
(* nodes that have been reached.                                           *)
SearchTyped ==
    /\ DOMAIN dist \subseteq Central!Nodes
    /\ \A u \in DOMAIN dist : dist[u] \in Nat
    /\ \A e \in heap : e[1] \in Nat /\ e[2] \in DOMAIN dist
    /\ DOMAIN dist # {}
    /\ DOMAIN predecessors = Central!Nodes
    /\ \A v \in Central!Nodes :
          /\ DOMAIN predecessors[v] \subseteq DOMAIN dist
          /\ \A u \in DOMAIN predecessors[v] : predecessors[v][u] \in Nat

OneByNode == sigma \in [Central!Nodes -> Nat] /\ dependency \in [Central!Nodes -> Nat]

(* The loops over what it has reached, and the scores so far.              *)
Scored ==
    /\ order \in Seq(Central!Nodes) /\ at \in 0 .. Len(order)
    /\ (sigma = <<>> /\ dependency = <<>>) \/ OneByNode
    /\ DOMAIN centrality \subseteq Central!Nodes
    /\ \A u \in DOMAIN centrality : centrality[u] \in Nat

Sampling ==
    /\ req \in Centralities
    /\ sources \in Seq(Central!Nodes) /\ turn \in 1 .. Len(sources)

(* The calls that have sampled their sources.                              *)
Measuring ==
    /\ pc \in {"search", "count", "spread", "done"}
    /\ Sampling /\ SearchTyped /\ Scored
    /\ pc = "count" => at >= 1
    /\ pc \in {"count", "spread"} => OneByNode

CentralRight ==
    call = "betweenness" =>
        \/ pc = "start" /\ Central!Init
        \/ /\ pc = "done" /\ sources = <<>> /\ turn = 1
           /\ dist = <<>> /\ predecessors = <<>> /\ heap = {}
           /\ order = <<>> /\ at = 0 /\ sigma = <<>> /\ centrality = <<>>
        \/ Measuring

LEMMA SameNetwork == ASSUME req' = req PROVE Central!Nodes' = Central!Nodes /\ Central!G' = Central!G
BY DEF Central!Nodes, Central!G

(* A search begins at a node.                                              *)
LEMMA SearchBegins ==
    ASSUME NEW s \in Central!Nodes, Central!SearchFrom(s), req' = req PROVE SearchTyped'
<1>1. /\ dist' = [u \in {s} |-> 0] /\ heap' = {<<0, s>>}
      /\ predecessors' = [u \in Central!Nodes |-> <<>>]
      /\ Central!Nodes' = Central!Nodes
  BY SameNetwork DEF Central!SearchFrom
<1>2. DOMAIN <<>> = {}
  OBVIOUS
<1>3. \A e \in heap' : e[1] = 0 /\ e[2] = s
  BY <1>1
<1>4. DOMAIN dist' = {s} /\ \A u \in {s} : dist'[u] = 0
  BY <1>1
<1>. QED
  BY <1>1, <1>2, <1>3, <1>4 DEF SearchTyped

LEMMA OffersFine ==
    ASSUME req \in Centralities, NEW e, e[1] \in Nat, NEW v
    PROVE  /\ Central!Offers(e, v) \subseteq DOMAIN Central!G.edges
           /\ \A i \in DOMAIN Central!G.edges : Central!CostBy(e, i) \in Nat
           /\ Central!Offers(e, v) # {} => Central!BestBy(e, v) \in Nat
           /\ Central!Cardinality({i \in Central!Offers(e, v) :
                  Central!CostBy(e, i) = Central!BestBy(e, v)}) \in Nat
<1>1. Central!Offers(e, v) \subseteq DOMAIN Central!G.edges
  BY DEF Central!Offers, Central!outgoing_edges
<1>2. \A i \in DOMAIN Central!G.edges : Central!CostBy(e, i) \in Nat
  BY CentralsFine DEF Central!CostBy
<1>3. ASSUME Central!Offers(e, v) # {} PROVE Central!BestBy(e, v) \in Nat
  <2>. DEFINE S == {Central!CostBy(e, i) : i \in Central!Offers(e, v)}
  <2>1. S \in SUBSET Nat /\ S # {}
    BY <1>1, <1>2, <1>3
  <2>. HIDE DEF S
  <2>2. Central!Min(S) \in Nat
    BY <2>1, CentralMin
  <2>. QED
    BY <2>2 DEF S, Central!BestBy
<1>4. \A X : Central!Cardinality(X) = Cardinality(X)
  BY DEF Central!Cardinality, Cardinality
<1>. DEFINE X == {i \in Central!Offers(e, v) : Central!CostBy(e, i) = Central!BestBy(e, v)}
<1>5. X \subseteq DOMAIN Central!G.edges
  BY <1>1
<1>. HIDE DEF X
<1>6. Cardinality(X) \in Nat
  BY <1>5, CentralsFine, FS_Subset, FS_CardinalityType
<1>. QED
  BY <1>1, <1>2, <1>3, <1>4, <1>6 DEF X

LEMMA ExpandTyped ==
    ASSUME Sampling, SearchTyped, NEW e \in heap, Central!Expand(e) PROVE SearchTyped'
<1>. DEFINE new == {x[2] : x \in Central!Pushed(e)}
            N == Central!Nodes
<1>1. /\ e[1] \in Nat /\ e[2] \in DOMAIN dist /\ req \in Centralities
      /\ DOMAIN predecessors = N /\ DOMAIN dist # {} /\ DOMAIN dist \subseteq N
      /\ \A u \in DOMAIN dist : dist[u] \in Nat
      /\ \A x \in heap : x[1] \in Nat /\ x[2] \in DOMAIN dist
  BY DEF SearchTyped, Sampling
<1>2. /\ dist' = [v \in DOMAIN dist \cup new |->
                     IF Central!Better(e, v) THEN Central!BestBy(e, v) ELSE dist[v]]
      /\ predecessors' = [v \in N |-> IF Central!Better(e, v) \/ Central!AsGood(e, v)
                              THEN Central!Preceded(e, v) ELSE predecessors[v]]
      /\ heap' = (heap \ {e}) \cup Central!Pushed(e)
      /\ req' = req
  BY DEF Central!Expand
<1>3. ASSUME NEW x \in Central!Pushed(e)
      PROVE  x[1] \in Nat /\ x[2] \in N /\ Central!Better(e, x[2])
  <2>1. PICK i \in Central!outgoing_edges(Central!G, e[2]) :
            /\ x = <<Central!CostBy(e, i), Central!G.edges[i].to>>
            /\ Central!Better(e, Central!G.edges[i].to)
    BY DEF Central!Pushed
  <2>2. i \in DOMAIN Central!G.edges
    BY DEF Central!outgoing_edges
  <2>. QED
    BY <1>1, <2>1, <2>2, OffersFine, CentralsFine
<1>4. new \subseteq N /\ \A v \in new : Central!Better(e, v)
  BY <1>3
<1>5. \A v : Central!Better(e, v) => Central!BestBy(e, v) \in Nat
  BY <1>1, OffersFine DEF Central!Better
<1>. HIDE DEF new, N
<1>6. /\ DOMAIN dist' = DOMAIN dist \cup new /\ DOMAIN dist' \subseteq N /\ DOMAIN dist' # {}
      /\ \A u \in DOMAIN dist' : dist'[u] \in Nat
  BY <1>1, <1>2, <1>4, <1>5
<1>7. \A x \in heap' : x[1] \in Nat /\ x[2] \in DOMAIN dist'
  BY <1>1, <1>2, <1>3, <1>6 DEF new
<1>8. ASSUME NEW v \in N
      PROVE  /\ DOMAIN predecessors'[v] \subseteq DOMAIN dist'
             /\ \A u \in DOMAIN predecessors'[v] : predecessors'[v][u] \in Nat
  <2>0. DOMAIN predecessors[v] \subseteq DOMAIN dist
        /\ \A u \in DOMAIN predecessors[v] : predecessors[v][u] \in Nat
    BY DEF SearchTyped, N
  <2>. DEFINE old == IF Central!Better(e, v) THEN <<>> ELSE predecessors[v]
              ties == Central!Cardinality({i \in Central!Offers(e, v) :
                          Central!CostBy(e, i) = Central!BestBy(e, v)})
  <2>1. ties \in Nat
    BY <1>1, OffersFine
  <2>2. DOMAIN old \subseteq DOMAIN dist /\ \A u \in DOMAIN old : old[u] \in Nat
    BY <2>0
  <2>3. Central!Preceded(e, v) = [u \in DOMAIN old \cup {e[2]} |->
              Central!Times(old, u) + (IF u = e[2] THEN ties ELSE 0)]
    BY DEF Central!Preceded
  <2>. HIDE DEF old, ties
  <2>4. \A u : Central!Times(old, u) \in Nat
    BY <2>2 DEF Central!Times
  <2>5. /\ DOMAIN Central!Preceded(e, v) = DOMAIN old \cup {e[2]}
        /\ \A u \in DOMAIN old \cup {e[2]} : Central!Preceded(e, v)[u] \in Nat
    BY <2>1, <2>3, <2>4
  <2>. QED
    BY <1>1, <1>2, <1>6, <2>0, <2>2, <2>5
<1>9. DOMAIN predecessors' = N /\ Central!Nodes' = N
  BY <1>2, SameNetwork DEF N
<1>. QED
  BY <1>6, <1>7, <1>8, <1>9 DEF SearchTyped

(* Every node reached is put in order.                                     *)
LEMMA OrderTyped ==
    ASSUME Sampling, SearchTyped
    PROVE  LET s == Central!InOrder(DOMAIN dist, Central!NearestFirst)
           IN  s \in Seq(Central!Nodes) /\ Len(s) >= 1
<1>. DEFINE D == DOMAIN dist
            R == Central!NearestFirst
            s == Central!InOrder(D, R)
<1>1. D \subseteq Central!Nodes /\ \A u \in D : dist[u] \in Nat /\ u \in Int
  BY DEF SearchTyped, Central!Nodes
<1>2. IsFiniteSet(D)
  BY <1>1, CentralsFine, FS_Subset DEF Sampling
<1>3. \A x, y \in D : <<x, y>> \in R <=> dist[x] < dist[y] \/ (dist[x] = dist[y] /\ x < y)
  BY DEF Central!NearestFirst
<1>. HIDE DEF R
<1>4. IsOrder(R, D)
  <2>1. ASSUME NEW x \in D PROVE <<x, x>> \notin R
    BY <1>1, <1>3
  <2>2. ASSUME NEW x \in D, NEW y \in D, x # y PROVE <<x, y>> \in R \/ <<y, x>> \in R
    <3>1. dist[x] \in Nat /\ dist[y] \in Nat /\ x \in Int /\ y \in Int
      BY <1>1
    <3>. QED
      BY <1>3, <2>2, <3>1
  <2>3. ASSUME NEW x \in D, NEW y \in D, NEW z \in D, <<x, y>> \in R, <<y, z>> \in R
        PROVE  <<x, z>> \in R
    <3>1. dist[x] \in Nat /\ dist[y] \in Nat /\ dist[z] \in Nat
          /\ x \in Int /\ y \in Int /\ z \in Int
      BY <1>1
    <3>. QED
      BY <1>3, <2>3, <3>1
  <2>. QED
    BY <2>1, <2>2, <2>3 DEF IsOrder
<1>5. s = InOrder(D, R)
  BY DEF Central!InOrder, InOrder, Central!Cardinality, Cardinality
<1>. HIDE DEF s
<1>6. s \in Seq(D) /\ Len(s) = Cardinality(D) /\ \A x \in D : \E k \in 1 .. Len(s) : s[k] = x
  <2>1. Sorted(s, D, R, Cardinality(D))
    BY <1>2, <1>4, <1>5, InOrderSorts
  <2>. QED
    BY <2>1 DEF Sorted
<1>7. Len(s) >= 1
  <2>1. PICK x \in D : TRUE
    BY DEF SearchTyped
  <2>2. PICK k \in 1 .. Len(s) : s[k] = x
    BY <1>6
  <2>. QED
    BY <1>6, <2>2
<1>8. s \in Seq(Central!Nodes)
  BY <1>1, <1>6
<1>. QED
  BY <1>7, <1>8 DEF s, R

LEMMA CountTyped ==
    ASSUME Sampling, SearchTyped, Scored, OneByNode, pc = "count", at >= 1, Central!Count
    PROVE  Scored' /\ OneByNode' /\ (pc' = "count" => at' >= 1) /\ pc' \in {"count", "spread"}
<1>. DEFINE v == order[at]
            N == Central!Nodes
            through == Central!MapThenSumSet(LAMBDA u : predecessors[v][u] * sigma[u],
                                             DOMAIN predecessors[v])
<1>1. /\ sigma' = [sigma EXCEPT ![v] = @ + through]
      /\ IF at < Len(order) THEN at' = at + 1 /\ pc' = pc ELSE at' = at /\ pc' = "spread"
      /\ UNCHANGED <<req, order, dependency, centrality>>
  BY DEF Central!Count
<1>2. /\ sigma \in [N -> Nat] /\ dependency \in [N -> Nat] /\ order \in Seq(N)
      /\ at \in 1 .. Len(order) /\ Len(order) \in Nat
  BY DEF OneByNode, Scored
<1>3. v \in N
  BY <1>2
<1>4. IsFiniteSet(DOMAIN predecessors[v]) /\ DOMAIN predecessors[v] \subseteq N
      /\ \A u \in DOMAIN predecessors[v] : predecessors[v][u] \in Nat
  BY <1>3, CentralsFine, FS_Subset DEF SearchTyped, Sampling
<1>5. \A u \in DOMAIN predecessors[v] : predecessors[v][u] * sigma[u] \in Nat
  BY <1>2, <1>4, ProductIsNatural
<1>. HIDE DEF v
<1>6. through \in Nat
  <2>. DEFINE S == DOMAIN predecessors[v]
              weight == [u \in S |-> predecessors[v][u] * sigma[u]]
              Turn(total) == [s \in SUBSET S |->
                        IF s = {} THEN 0
                        ELSE LET y == Any(s)
                             IN  predecessors[v][y] * sigma[y] + total[s \ {y}]]
              sum == CHOOSE total : total = Turn(total)
  <2>1. through = sum[S]
    BY DEF Central!MapThenSumSet, Central!MapThenFoldSet, Any
  <2>2. weight \in [S -> Nat] /\ \A y \in S : weight[y] = predecessors[v][y] * sigma[y]
    BY <1>5
  <2>. HIDE DEF weight
  <2>3. \A s \in SUBSET S : s # {} => Any(s) \in S
    BY DEF Any
  <2>4. \A total : Sums(total, S, weight) <=> total = Turn(total)
    BY <2>2, <2>3 DEF Sums
  <2>5. \E total : total = Turn(total)
    BY <1>4, <2>2, <2>4, SumsExist
  <2>6. sum = Turn(sum)
    <3>. HIDE DEF Turn
    <3>. QED
      BY <2>5
  <2>. HIDE DEF sum, Turn
  <2>7. Sums(sum, S, weight)
    BY <2>4, <2>6
  <2>. QED
    BY <1>4, <2>1, <2>2, <2>7, SumsTyped
<1>. HIDE DEF through
<1>7. sigma' \in [N -> Nat]
  BY <1>1, <1>2, <1>3, <1>6
<1>8. N' = N
  BY <1>1, SameNetwork
<1>9. OneByNode'
  BY <1>1, <1>2, <1>7, <1>8 DEF OneByNode
<1>10. at' \in 1 .. Len(order)
  BY <1>1, <1>2
<1>11. Scored'
  BY <1>1, <1>2, <1>8, <1>9, <1>10 DEF Scored
<1>. QED
  BY <1>1, <1>2, <1>9, <1>10, <1>11

LEMMA SpreadTyped ==
    ASSUME Sampling, SearchTyped, Scored, OneByNode, Central!Spread
    PROVE  Scored' /\ OneByNode'
<1>. DEFINE w == order[at]
            N == Central!Nodes
<1>1. /\ at > 0 /\ at' = at - 1 /\ UNCHANGED <<req, order, sigma>>
  BY DEF Central!Spread
<1>2. /\ sigma \in [N -> Nat] /\ dependency \in [N -> Nat] /\ order \in Seq(N)
      /\ at \in 1 .. Len(order) /\ Len(order) \in Nat
      /\ DOMAIN centrality \subseteq N /\ \A u \in DOMAIN centrality : centrality[u] \in Nat
  BY <1>1 DEF OneByNode, Scored
<1>3. w \in N /\ N' = N
  BY <1>1, <1>2, SameNetwork
<1>4. w = sources[turn] => UNCHANGED <<dependency, centrality>>
  BY DEF Central!Spread
<1>5. w # sources[turn] =>
        /\ dependency' = [v \in N |-> dependency[v] + Central!ShareOf(v, w)]
        /\ centrality' = [v \in DOMAIN centrality \cup {w} |->
              Central!Times(centrality, v) + (IF v = w THEN dependency'[w] ELSE 0)]
  BY DEF Central!Spread
<1>. HIDE DEF w, N
<1>6. ASSUME NEW v \in N PROVE Central!ShareOf(v, w) \in Nat
  <2>. DEFINE a == Central!Times(predecessors[w], v)
              b == sigma[v]
              c == Scale + dependency[w]
  <2>1. a \in Nat
    BY <1>3 DEF SearchTyped, Central!Times, N
  <2>2. b \in Nat /\ c \in Nat /\ sigma[w] \in Nat
    <3>1. Scale \in Nat
      BY CallsAssumption
    <3>2. dependency[w] \in Nat /\ sigma[w] \in Nat /\ sigma[v] \in Nat
      BY <1>2, <1>3
    <3>. QED
      BY <3>1, <3>2
  <2>3. Central!ShareOf(v, w) = IF sigma[w] = 0 THEN 0 ELSE (a * b * c) \div sigma[w]
    BY DEF Central!ShareOf
  <2>. HIDE DEF a, b, c
  <2>4. a * b \in Nat
    BY <2>1, <2>2, ProductIsNatural
  <2>5. PICK d \in Nat : d = a * b
    BY <2>4
  <2>6. PICK f \in Nat : f = d * c
    BY <2>2, ProductIsNatural
  <2>7. CASE sigma[w] # 0
    <3>1. f \div sigma[w] \in Nat
      BY <2>2, <2>6, <2>7, QuotientIsNatural
    <3>. QED
      BY <2>3, <2>5, <2>6, <2>7, <3>1
  <2>. QED
    BY <2>3, <2>7
<1>7. dependency' \in [N -> Nat]
  <2>1. CASE w = sources[turn]
    BY <1>2, <1>4, <2>1
  <2>2. CASE w # sources[turn]
    <3>1. \A v \in N : dependency[v] + Central!ShareOf(v, w) \in Nat
      BY <1>2, <1>6
    <3>. QED
      BY <1>5, <2>2, <3>1
  <2>. QED
    BY <2>1, <2>2
<1>8. /\ DOMAIN centrality' \subseteq N
      /\ \A u \in DOMAIN centrality' : centrality'[u] \in Nat
  <2>1. CASE w = sources[turn]
    BY <1>2, <1>4, <2>1
  <2>2. CASE w # sources[turn]
    <3>1. dependency'[w] \in Nat /\ \A v : Central!Times(centrality, v) \in Nat
      BY <1>2, <1>3, <1>7 DEF Central!Times
    <3>2. \A v : Central!Times(centrality, v) + (IF v = w THEN dependency'[w] ELSE 0) \in Nat
      BY <3>1
    <3>. QED
      BY <1>2, <1>3, <1>5, <2>2, <3>2
  <2>. QED
    BY <2>1, <2>2
<1>9. OneByNode'
  BY <1>1, <1>2, <1>3, <1>7 DEF OneByNode, N
<1>10. at' \in 0 .. Len(order)
  BY <1>1, <1>2
<1>. QED
  BY <1>1, <1>2, <1>3, <1>8, <1>9, <1>10 DEF Scored, N

LEMMA AnswerTyped ==
    ASSUME Sampling, SearchTyped, Scored, Central!Answer PROVE Scored' /\ SearchTyped'
<1>. DEFINE n == Central!G.n
            m == Len(sources)
<1>1. /\ centrality' = Central!Normalised(centrality)
      /\ UNCHANGED <<req, sources, turn, dist, predecessors, heap, order, at, sigma, dependency>>
  BY DEF Central!Answer, Central!searchVars, Central!spreadVars
<1>2. n \in Nat /\ m \in Nat \ {0}
  BY CentralsFine DEF Sampling
<1>3. centrality' = [v \in DOMAIN centrality |-> (centrality[v] * n) \div m]
  BY <1>1 DEF Central!Normalised
<1>. HIDE DEF n, m
<1>4. DOMAIN centrality' = DOMAIN centrality
  BY <1>3
<1>5. ASSUME NEW v \in DOMAIN centrality PROVE centrality'[v] \in Nat
  <2>1. centrality[v] \in Nat
    BY DEF Scored
  <2>2. PICK a \in Nat : a = centrality[v] * n
    BY <1>2, <2>1, ProductIsNatural
  <2>3. a \div m \in Nat
    BY <1>2, <2>2, QuotientIsNatural
  <2>. QED
    BY <1>3, <2>2, <2>3
<1>6. Central!Nodes' = Central!Nodes
  BY <1>1, SameNetwork
<1>. QED
  BY <1>1, <1>4, <1>5, <1>6 DEF Scored, SearchTyped, OneByNode

LEMMA CentralRightInit == Init => CentralRight
<1>. SUFFICES ASSUME Init, call = "betweenness" PROVE pc = "start" /\ Central!Init
  BY DEF CentralRight
<1>. QED
  BY DEF Init, Central!Init

LEMMA CentralBegins ==
    ASSUME Central!Init, Central!Begin PROVE Sampling' /\ SearchTyped' /\ Scored' /\ pc' = "search"
<1>1. /\ Central!Acceptable /\ Central!G.n > 0 /\ pc' = "search"
      /\ sources' = Central!Sample /\ Central!SearchFrom(Central!Sample[1])
      /\ UNCHANGED <<req, turn, order, at, sigma, dependency, centrality>>
  BY DEF Central!Begin, Central!spreadVars
<1>2. /\ req \in Centralities /\ turn = 1 /\ order = <<>> /\ at = 0
      /\ sigma = <<>> /\ dependency = <<>> /\ centrality = <<>>
  BY DEF Central!Init
<1>3. Central!Nodes' = Central!Nodes
  BY <1>1, SameNetwork
<1>4. /\ Central!Sample \in Seq(Central!Nodes) /\ Len(Central!Sample) >= 1
      /\ Central!Sample[1] \in Central!Nodes
  BY <1>1, <1>2, SampleTyped
<1>5. SearchTyped'
  BY <1>1, <1>4, SearchBegins
<1>6. Sampling'
  BY <1>1, <1>2, <1>3, <1>4 DEF Sampling
<1>7. Scored'
  <2>1. /\ order' = <<>> /\ at' = 0 /\ sigma' = <<>> /\ dependency' = <<>>
        /\ DOMAIN centrality' = {}
    BY <1>1, <1>2
  <2>2. order' \in Seq(Central!Nodes) /\ Len(order') = 0
    BY <2>1
  <2>. QED
    BY <1>3, <2>1, <2>2 DEF Scored
<1>. QED
  BY <1>1, <1>5, <1>6, <1>7

LEMMA CountBegins ==
    ASSUME Sampling, SearchTyped, Scored, Central!BeginCount
    PROVE  SearchTyped' /\ Scored' /\ OneByNode' /\ at' >= 1 /\ pc' = "count"
<1>. DEFINE N == Central!Nodes
<1>1. /\ pc' = "count" /\ at' = 1
      /\ order' = Central!InOrder(DOMAIN dist, Central!NearestFirst)
      /\ sigma' = [u \in N |-> IF u = sources[turn] THEN 1 ELSE 0]
      /\ dependency' = [u \in N |-> 0]
      /\ UNCHANGED <<req, sources, turn, dist, predecessors, heap, centrality>>
  BY DEF Central!BeginCount, Central!searchVars
<1>2. N' = N
  BY <1>1, SameNetwork
<1>3. order' \in Seq(N) /\ Len(order') >= 1
  BY <1>1, OrderTyped
<1>4. OneByNode'
  BY <1>1, <1>2 DEF OneByNode
<1>5. SearchTyped'
  BY <1>1, <1>2 DEF SearchTyped
<1>. HIDE DEF N
<1>6. at' \in 0 .. Len(order')
  BY <1>1, <1>3
<1>7. Scored'
  BY <1>1, <1>2, <1>3, <1>4, <1>6 DEF Scored, N
<1>. QED
  BY <1>1, <1>4, <1>5, <1>7

LEMMA MeasuringStays ==
    ASSUME Measuring, Central!Next PROVE Measuring'
<1>1. Sampling /\ SearchTyped /\ Scored /\ pc # "start"
  BY DEF Measuring
<1>2. /\ Sampling' <=> /\ req' \in Centralities /\ sources' \in Seq(Central!Nodes')
                       /\ turn' \in 1 .. Len(sources')
  BY DEF Sampling
<1>3. ASSUME UNCHANGED <<req, sources, turn>> PROVE Sampling'
  BY <1>1, <1>3, SameNetwork DEF Sampling
<1>4. ASSUME UNCHANGED <<req, dist, predecessors, heap>> PROVE SearchTyped'
  BY <1>1, <1>4, SameNetwork DEF SearchTyped
<1>5. ASSUME UNCHANGED <<req, order, at, sigma, dependency, centrality>> PROVE Scored'
  BY <1>1, <1>5, SameNetwork DEF Scored, OneByNode
<1>6. ASSUME NEW e \in heap, Central!Skip(e) PROVE Measuring'
  <2>1. /\ pc = "search" /\ heap' = heap \ {e}
        /\ UNCHANGED <<req, pc, sources, turn, dist, predecessors,
                       order, at, sigma, dependency, centrality>>
    BY <1>6 DEF Central!Skip, Central!Nearest, Central!spreadVars
  <2>2. SearchTyped'
    BY <1>1, <2>1, SameNetwork DEF SearchTyped
  <2>. QED
    BY <1>3, <1>5, <2>1, <2>2 DEF Measuring
<1>7. ASSUME NEW e \in heap, Central!Expand(e) PROVE Measuring'
  <2>1. /\ pc = "search"
        /\ UNCHANGED <<req, pc, sources, turn, order, at, sigma, dependency, centrality>>
    BY <1>7 DEF Central!Expand, Central!Nearest, Central!spreadVars
  <2>2. SearchTyped'
    BY <1>1, <1>7, ExpandTyped
  <2>. QED
    BY <1>3, <1>5, <2>1, <2>2 DEF Measuring
<1>8. CASE Central!BeginCount
  <2>1. UNCHANGED <<req, sources, turn>>
    BY <1>8 DEF Central!BeginCount
  <2>2. SearchTyped' /\ Scored' /\ OneByNode' /\ at' >= 1 /\ pc' = "count"
    BY <1>1, <1>8, CountBegins
  <2>. QED
    BY <1>3, <2>1, <2>2 DEF Measuring
<1>9. CASE Central!Count
  <2>1. pc = "count" /\ UNCHANGED <<req, sources, turn, dist, predecessors, heap>>
    BY <1>9 DEF Central!Count, Central!searchVars
  <2>2. Scored' /\ OneByNode' /\ (pc' = "count" => at' >= 1) /\ pc' \in {"count", "spread"}
    BY <1>1, <1>9, <2>1, CountTyped DEF Measuring
  <2>. QED
    BY <1>3, <1>4, <2>1, <2>2 DEF Measuring
<1>10. CASE Central!Spread
  <2>1. /\ pc = "spread" /\ pc' = pc
        /\ UNCHANGED <<req, sources, turn, dist, predecessors, heap>>
    BY <1>10 DEF Central!Spread, Central!searchVars
  <2>2. Scored' /\ OneByNode'
    BY <1>1, <1>10, <2>1, SpreadTyped DEF Measuring
  <2>. QED
    BY <1>3, <1>4, <2>1, <2>2 DEF Measuring
<1>11. CASE Central!NextSource
  <2>1. /\ turn < Len(sources) /\ turn' = turn + 1 /\ pc' = "search"
        /\ Central!SearchFrom(sources[turn + 1])
        /\ UNCHANGED <<req, sources, order, at, sigma, dependency, centrality>>
    BY <1>11 DEF Central!NextSource, Central!spreadVars
  <2>2. /\ sources \in Seq(Central!Nodes) /\ turn \in 1 .. Len(sources)
        /\ req \in Centralities /\ Central!Nodes' = Central!Nodes
    BY <1>1, <2>1, SameNetwork DEF Sampling
  <2>3. turn + 1 \in 1 .. Len(sources) /\ sources[turn + 1] \in Central!Nodes
    BY <2>1, <2>2
  <2>4. SearchTyped'
    BY <2>1, <2>3, SearchBegins
  <2>5. Sampling'
    BY <2>1, <2>2, <2>3 DEF Sampling
  <2>. QED
    BY <1>5, <2>1, <2>4, <2>5 DEF Measuring
<1>12. CASE Central!Answer
  <2>1. pc' = "done" /\ UNCHANGED <<req, sources, turn>>
    BY <1>12 DEF Central!Answer
  <2>2. Scored' /\ SearchTyped'
    BY <1>1, <1>12, AnswerTyped
  <2>. QED
    BY <1>3, <2>1, <2>2 DEF Measuring
<1>13. ~Central!Reject /\ ~Central!AnswerEmpty /\ ~Central!Begin
  BY <1>1 DEF Central!Reject, Central!AnswerEmpty, Central!Begin
<1>. QED
  BY <1>6, <1>7, <1>8, <1>9, <1>10, <1>11, <1>12, <1>13 DEF Central!Next

LEMMA CentralRightNext == CentralRight /\ [Next]_vars => CentralRight'
<1>. SUFFICES ASSUME CentralRight, [Next]_vars, call' = "betweenness" PROVE CentralRight'
  BY DEF CentralRight
<1>1. call = "betweenness"
  BY DEF Next, Isochrone, ConnectedComponents, Centrality, MatchTrace, PairQuery, vars
<1>2. CASE UNCHANGED vars
  <2>1. UNCHANGED <<req, pc, reply, dist, heap, sources, turn>>
        /\ UNCHANGED <<predecessors, order, at, sigma, dependency, centrality>>
    BY <1>2 DEF vars, searchLocals, centralLocals, listLocals
  <2>2. Central!Nodes' = Central!Nodes
    BY <2>1, SameNetwork
  <2>3. ASSUME Central!Init PROVE Central!Init'
    BY <2>1, <2>3 DEF Central!Init, Central!NoReply
  <2>4. ASSUME Measuring PROVE Measuring'
    BY <2>1, <2>2, <2>4 DEF Measuring, Sampling, SearchTyped, Scored, OneByNode
  <2>. QED
    BY <1>1, <2>1, <2>3, <2>4 DEF CentralRight
<1>3. CASE Next
  <2>1. Central!Next
    BY <1>1, <1>3 DEF Next, Isochrone, ConnectedComponents, Centrality, MatchTrace, PairQuery
  <2>2. CASE pc = "start" /\ Central!Init
    <3>1. CASE Central!Reject \/ Central!AnswerEmpty
      <4>1. pc' = "done" /\ UNCHANGED <<sources, turn, dist, predecessors, heap,
                                        order, at, sigma, centrality>>
        BY <3>1 DEF Central!Reject, Central!AnswerEmpty, Central!searchVars, Central!spreadVars
      <4>. QED
        BY <2>2, <4>1 DEF Central!Init, CentralRight
    <3>2. CASE Central!Begin
      <4>1. Sampling' /\ SearchTyped' /\ Scored' /\ pc' = "search"
        BY <2>2, <3>2, CentralBegins
      <4>. QED
        BY <4>1 DEF CentralRight, Measuring
    <3>3. heap = {}
      BY <2>2 DEF Central!Init
    <3>. QED
      BY <2>1, <2>2, <3>1, <3>2, <3>3
      DEF Central!Next, Central!BeginCount, Central!Count, Central!Spread,
          Central!NextSource, Central!Answer
  <2>3. CASE pc = "done" /\ heap = {}
    BY <2>1, <2>3
    DEF Central!Next, Central!Reject, Central!AnswerEmpty, Central!Begin, Central!BeginCount,
        Central!Count, Central!Spread, Central!NextSource, Central!Answer
  <2>4. CASE Measuring
    BY <2>1, <2>4, MeasuringStays DEF CentralRight
  <2>. QED
    BY <1>1, <2>2, <2>3, <2>4 DEF CentralRight
<1>. QED
  BY <1>2, <1>3

LEMMA CentralTyped == ASSUME CentralRight, call = "betweenness" PROVE Central!TypeOK
<1>1. CASE Measuring
  <2>1. /\ sources \in Seq(Central!Nodes) /\ turn \in 1 .. Len(sources)
        /\ pc \in {"search", "count", "spread", "done"}
    BY <1>1 DEF Measuring, Sampling
  <2>2. turn \in 1 .. Len(sources) + 1
    BY <2>1
  <2>3. /\ DOMAIN dist \subseteq Central!Nodes
        /\ \A u \in DOMAIN predecessors : DOMAIN predecessors[u] \subseteq DOMAIN dist
        /\ \A e \in heap : e[1] \in Nat /\ e[2] \in DOMAIN dist
    BY <1>1 DEF Measuring, SearchTyped
  <2>4. \A u \in DOMAIN sigma : sigma[u] \in Nat /\ dependency[u] \in Nat
    <3>1. DOMAIN <<>> = {}
      OBVIOUS
    <3>. QED
      BY <1>1, <3>1 DEF Measuring, Scored, OneByNode
  <2>5. /\ order \in Seq(Central!Nodes) /\ at \in 0 .. Len(order)
        /\ DOMAIN centrality \subseteq Central!Nodes
        /\ \A u \in DOMAIN centrality : centrality[u] \in Nat
    BY <1>1 DEF Measuring, Scored
  <2>. QED
    BY <2>1, <2>2, <2>3, <2>4, <2>5 DEF Central!TypeOK
<1>2. CASE /\ pc \in {"start", "done"} /\ sources = <<>> /\ turn = 1
           /\ dist = <<>> /\ predecessors = <<>> /\ heap = {}
           /\ order = <<>> /\ at = 0 /\ sigma = <<>> /\ centrality = <<>>
  <2>1. /\ sources \in Seq(Central!Nodes) /\ Len(sources) = 0
        /\ order \in Seq(Central!Nodes) /\ Len(order) = 0
        /\ DOMAIN dist = {} /\ DOMAIN predecessors = {} /\ DOMAIN sigma = {}
        /\ DOMAIN centrality = {}
    BY <1>2
  <2>2. turn \in 1 .. Len(sources) + 1 /\ at \in 0 .. Len(order)
    BY <1>2, <2>1
  <2>. QED
    BY <1>2, <2>1, <2>2 DEF Central!TypeOK
<1>. QED
  BY <1>1, <1>2 DEF CentralRight, Central!Init

(* Of every call of the five handlers, on whatever network: its locals are *)
(* nodes, costs, lists and counts as the code declares them, no index is   *)
(* out of its list, and what is open has been reached.                     *)
THEOREM AnalysesTyped == Spec => []TypeOK
<1>. DEFINE I == /\ AreaRight /\ NetworkRight /\ NetworkTyped /\ CentralRight
                 /\ MatchRight /\ PairRight
<1>1. Init => I
  BY AreaRightInit, NetworkRightInit, NetworkTypedInit, CentralRightInit, MatchRightInit,
     PairRightInit
<1>2. I /\ [Next]_vars => I'
  <2>. SUFFICES ASSUME I, [Next]_vars PROVE I'
    OBVIOUS
  <2>1. NetworkRight'
    BY NetworkRightStep
  <2>2. NetworkTyped'
    BY <2>1, NetworkTypedStep
  <2>. QED
    BY <2>1, <2>2, AreaRightStep, CentralRightNext, MatchRightNext, PairRightNext
<1>3. I => TypeOK
  BY AreaTyped, NetworkIsTyped, CentralTyped, MatchTyped, PairTyped DEF TypeOK
<1>. QED
  BY <1>1, <1>2, <1>3, PTL DEF Spec
=================================================================================
