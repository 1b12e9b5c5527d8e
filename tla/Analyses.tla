-------------------------------- MODULE Analyses --------------------------------
(***************************************************************************)
(* The calls that analyse the road network without planning one route:     *)
(* POST /match, /network/components, /network/betweenness,                 *)
(* /network/od-matrix, /network/closest-facility and GET /isochrone.       *)
(* Every handler                                                           *)
(* (crates/itinera-server/src/handlers.rs) reads the graph of AppState,    *)
(* which nothing writes once the server is up, and keeps locals of its     *)
(* own: a behaviour is one call of one of them, from router to answer.     *)
(***************************************************************************)
EXTENDS Naturals

CONSTANTS
    Areas,        \* calls of isochrone
    Networks,     \* calls of connected_components
    Centralities, \* calls of betweenness_centrality
    Matches,      \* calls of match_trace
    Pairs,        \* calls of the two pair queries
    MaxPoints, MaxPairs, MaxTopK, MaxSample, MaxTrace, MaxRadius,
    Scale         \* scores of betweenness are numbers of Scale-ths

VARIABLES
    call,         \* which analysis was called
    pc,           \* where it is
    req, reply,   \* what it was asked and has answered, where it has them
    dist, heap,                       \* the searches
    visited, reachable,               \* isochrone
    start, component_id, queue, current_component, size, component_sizes,
    predecessors, order, at, sigma, dependency, centrality,
    t, prob, prev, j, chosen,         \* match_trace
    sources, turn,                    \* whatever goes through a list of nodes
    targets, left, best, results

Area == INSTANCE Isochrone WITH Requests <- Areas
Network == INSTANCE Components WITH Requests <- Networks
Central == INSTANCE Betweenness WITH Requests <- Centralities
Match == INSTANCE MapMatching WITH Requests <- Matches
Pair == INSTANCE PairQueries WITH Requests <- Pairs

ASSUME CallsAssumption ==
    /\ \A r \in Areas : Area!IsRequest(r)
    /\ \A r \in Networks : Network!IsRequest(r)
    /\ \A r \in Centralities : Central!IsRequest(r)
    /\ \A r \in Matches : Match!IsRequest(r)
    /\ \A r \in Pairs : Pair!IsRequest(r)
    /\ {MaxPoints, MaxPairs, MaxTopK, MaxSample, MaxTrace, MaxRadius} \subseteq Nat
    /\ Scale \in Nat \ {0}

searchLocals == <<dist, heap>>
areaLocals == <<visited, reachable>>
networkLocals ==
    <<start, component_id, queue, current_component, size, component_sizes>>
centralLocals == <<predecessors, order, at, sigma, dependency, centrality>>
matchLocals == <<t, prob, prev, j, chosen>>
listLocals == <<sources, turn>>
pairLocals == <<targets, left, best, results>>

vars == <<call, pc, req, reply, searchLocals, areaLocals, networkLocals,
          centralLocals, matchLocals, listLocals, pairLocals>>

-----------------------------------------------------------------------------
(* A call leaves the locals of the other handlers as they are.             *)
Unused == "unused"

SearchIdle == dist = <<>> /\ heap = {}
AreaIdle == visited = {} /\ reachable = <<>>
NetworkIdle ==
    /\ start = 0 /\ component_id = <<>> /\ queue = {}
    /\ current_component = 0 /\ size = 0 /\ component_sizes = <<>>
CentralIdle ==
    /\ predecessors = <<>> /\ order = <<>> /\ at = 0
    /\ sigma = <<>> /\ dependency = <<>> /\ centrality = <<>>
MatchIdle == t = 0 /\ prob = <<>> /\ prev = <<>> /\ j = 0 /\ chosen = <<>>
ListIdle == sources = <<>> /\ turn = 0
PairIdle == targets = <<>> /\ left = {} /\ best = Unused /\ results = <<>>

Init ==
    \/ /\ call = "isochrone"
       /\ Area!Init /\ reply = Unused
       /\ NetworkIdle /\ CentralIdle /\ MatchIdle /\ ListIdle /\ PairIdle
    \/ /\ call = "components"
       /\ Network!Init
       /\ SearchIdle /\ AreaIdle /\ CentralIdle /\ MatchIdle /\ ListIdle /\ PairIdle
    \/ /\ call = "betweenness"
       /\ Central!Init
       /\ AreaIdle /\ NetworkIdle /\ MatchIdle /\ PairIdle
    \/ /\ call = "match"
       /\ Match!Init
       /\ SearchIdle /\ AreaIdle /\ NetworkIdle /\ CentralIdle /\ ListIdle /\ PairIdle
    \/ /\ call = "pairs"
       /\ Pair!Init
       /\ SearchIdle /\ AreaIdle /\ NetworkIdle /\ CentralIdle /\ MatchIdle

Isochrone ==
    /\ call = "isochrone"
    /\ Area!Next
    /\ UNCHANGED <<call, reply, networkLocals, centralLocals, matchLocals,
                   listLocals, pairLocals>>

ConnectedComponents ==
    /\ call = "components"
    /\ Network!Next
    /\ UNCHANGED <<call, searchLocals, areaLocals, centralLocals, matchLocals,
                   listLocals, pairLocals>>

Centrality ==
    /\ call = "betweenness"
    /\ Central!Next
    /\ UNCHANGED <<call, areaLocals, networkLocals, matchLocals, pairLocals>>

MatchTrace ==
    /\ call = "match"
    /\ Match!Next
    /\ UNCHANGED <<call, searchLocals, areaLocals, networkLocals, centralLocals,
                   listLocals, pairLocals>>

PairQuery ==
    /\ call = "pairs"
    /\ Pair!Next
    /\ UNCHANGED <<call, searchLocals, areaLocals, networkLocals, centralLocals,
                   matchLocals>>

Next == Isochrone \/ ConnectedComponents \/ Centrality \/ MatchTrace \/ PairQuery

Spec == Init /\ [][Next]_vars

(* A handler runs to its end on a thread of its own: it awaits nothing.    *)
(* Fairness is stated of those whose loops have no bound known beforehand. *)
FairSpec ==
    Spec /\ WF_vars(Isochrone \/ ConnectedComponents \/ Centrality \/ PairQuery)

-----------------------------------------------------------------------------
(* The locals of the handler called are what they can be.                  *)
TypeOK ==
    /\ call = "isochrone" => Area!TypeOK
    /\ call = "components" => Network!TypeOK
    /\ call = "betweenness" => Central!TypeOK
    /\ call = "match" => Match!TypeOK
    /\ call = "pairs" => Pair!TypeOK

(* isochrone answers exactly the nodes within the budget, at the least     *)
(* cost, once each and the nearest first ...                               *)
ReachableExactly == call = "isochrone" => Area!ReachableExactly

(* ... and the cost of a node once answered is never revised.              *)
ReachedIsFinal == Area!ReachedIsFinal

(* No road leads from a component that connected_components has closed to  *)
(* a node outside of it ...                                                *)
ComponentsClosed == call = "components" => Network!ComponentsClosed

(* ... nodes it has put into one component are joined by roads ...         *)
ComponentsJoined == call = "components" => Network!ComponentsJoined

(* ... and in the end every node is in one and counted there, and the      *)
(* largest are listed.                                                     *)
SizesCount == call = "components" => Network!SizesCount

(* The score of a node is the number of quickest drives of the sampled     *)
(* sources that pass through it, drives between two nodes counted by       *)
(* shares, and no node left out has a higher one.                          *)
CentralityExact == call = "betweenness" => Central!CentralityExact

(* On a trace without gaps no other choice of roads fits better.           *)
BestSequence == call = "match" => Match!BestSequence

(* The points left unmatched are those without a road in reach, all where  *)
(* the first has none, and the last before a gap that roads follow; any    *)
(* other is matched to a road in reach.                                    *)
UnmatchedExactly == call = "match" => Match!UnmatchedExactly

(* Where no two points share a node the matrix has one entry for every     *)
(* pair of points that is connected, and none for the others.              *)
MatrixCompleteOneEach == call = "pairs" => Pair!MatrixCompleteOneEach

(* What is answered about two points is the duration of a quickest legal   *)
(* drive from the first to the second.                                     *)
DurationsRight == call = "pairs" => Pair!DurationsRight

(* No facility is quicker than the one chosen, and the demand points       *)
(* without any are counted.                                                *)
ClosestChosen == call = "pairs" => Pair!ClosestChosen

(* Those calls are answered.                                               *)
Terminates == call # "match" => <>(pc = "done")
=================================================================================
