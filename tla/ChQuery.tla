-------------------------------- MODULE ChQuery --------------------------------
(***************************************************************************)
(* ContractionHierarchy::query (crates/itinera-core/src/ch.rs) on the      *)
(* hierarchy Contraction builds: two label-setting searches, from the      *)
(* source and against the arcs from the target, that only climb the        *)
(* hierarchy and take turns until neither can improve the best meeting;    *)
(* then the arcs of the best drive are unpacked into nodes of the graph.   *)
(* The profile asked for may be another than that of the build: shortcuts  *)
(* keep the costs of the build, edges have those of the profile asked for. *)
(***************************************************************************)
EXTENDS Contraction

VARIABLES
    pc,        \* "build", "fwd", "bwd", "check", "unpack" or "done"
    dist,      \* for each side: label -> best cost found so far
    prev,      \* for each side: label -> the label it was reached from
    heap,      \* for each side: open entries [cost, at]
    settled,   \* for each side: labels popped and expanded
    best,      \* cost of the best meeting, or NoCost
    meeting,   \* the labels of the two sides that met
    reply

queryVars == <<pc, dist, prev, heap, settled, best, meeting, reply>>
vars == <<buildVars, queryVars>>

Sides == {"fwd", "bwd"}
Other(side) == IF side = "fwd" THEN "bwd" ELSE "fwd"
NoCost == -1
NoReply == [kind |-> "none"]

Init ==
    /\ BuildInit
    /\ pc = "build"
    /\ dist = [s \in Sides |-> <<>>]
    /\ prev = [s \in Sides |-> <<>>]
    /\ heap = [s \in Sides |-> {}]
    /\ settled = [s \in Sides |-> {}]
    /\ best = NoCost
    /\ meeting = <<>>
    /\ reply = NoReply

Build == pc = "build" /\ BuildNext /\ UNCHANGED queryVars

(* A node the hierarchy does not have.                                     *)
RejectNode ==
    /\ pc = "build"
    /\ Built
    /\ req.source >= G.n \/ req.target >= G.n
    /\ pc' = "done"
    /\ reply' = [kind |-> "NoRoute"]
    /\ UNCHANGED <<buildVars, dist, prev, heap, settled, best, meeting>>

(* Source equal to target needs no search.                                 *)
AskForNothing ==
    /\ pc = "build"
    /\ Built
    /\ req.source < G.n
    /\ req.source = req.target
    /\ pc' = "done"
    /\ reply' = [kind |-> "Route", duration |-> 0, path |-> <<req.source>>]
    /\ UNCHANGED <<buildVars, dist, prev, heap, settled, best, meeting>>

Ask ==
    /\ pc = "build"
    /\ Built
    /\ req.source < G.n /\ req.target < G.n
    /\ req.source # req.target
    /\ pc' = "fwd"
    /\ LET root == [s \in Sides |->
                       Start(IF s = "fwd" THEN req.source ELSE req.target)]
       IN  /\ dist' = [s \in Sides |-> [k \in {root[s]} |-> 0]]
           /\ heap' = [s \in Sides |-> {[cost |-> 0, at |-> root[s]]}]
    /\ UNCHANGED <<buildVars, prev, settled, best, meeting, reply>>

-----------------------------------------------------------------------------
Edges == 1 .. Len(G.edges)

(* What an arc costs the one who asks, if it is open to them at all.       *)
OpenTo(a) == a \in Edges => usable(G, req.asked, a)
Weight(a) == IF a \in Edges THEN edge_weight(G, req.asked, a) ELSE arcs[a].weight

(* The turn at a node between what the two sides drive there.              *)
TurnBanned(side, node, mine, theirs) ==
    IF side = "fwd" THEN turn_is_banned(G, node, mine, theirs)
                    ELSE turn_is_banned(G, node, theirs, mine)

(* Where an arc leads on this side, and by which of its ways it is joined. *)
Ahead(side, a) == IF side = "fwd" THEN <<arcs[a].to, arcs[a].last>>
                                  ELSE <<arcs[a].from, arcs[a].first>>
Behind(side, a) == IF side = "fwd" THEN <<arcs[a].from, arcs[a].first>>
                                   ELSE <<arcs[a].to, arcs[a].last>>

Climbs(side, k, a) ==
    /\ OpenTo(a)
    /\ Behind(side, a)[1] = k[1]
    /\ level(Ahead(side, a)[1]) >= level(k[1])
    /\ ~TurnBanned(side, k[1], k[2], Behind(side, a)[2])

(* Arcs are looked at in the order they were made: of the offers to one    *)
(* label, those that beat every earlier one are pushed.                    *)
OfferOf(side, e, a) == e.cost + Weight(a)

Better(side, e) ==
    {a \in DOMAIN arcs :
        LET k == Ahead(side, a)
        IN  /\ Climbs(side, e.at, a)
            /\ k \in DOMAIN dist[side] => OfferOf(side, e, a) < dist[side][k]}

Pushed(side, e) ==
    {a \in Better(side, e) :
        \A b \in Better(side, e) :
            b < a /\ Ahead(side, b) = Ahead(side, a)
                => OfferOf(side, e, b) > OfferOf(side, e, a)}

(* Faulty: the offers are pushed and never recorded.                       *)
ExpandUnrecorded(side, e) ==
    /\ heap' = [heap EXCEPT ![side] =
                   (@ \ {e}) \cup {[cost |-> OfferOf(side, e, a),
                                   at |-> Ahead(side, a)] : a \in Pushed(side, e)}]
    /\ UNCHANGED <<dist, prev>>

Expand(side, e) ==
    LET heads == {Ahead(side, a) : a \in Pushed(side, e)}
        Lowest(k) == Min({OfferOf(side, e, a) :
                               a \in {b \in Pushed(side, e) : Ahead(side, b) = k}})
    IN  /\ dist' = [dist EXCEPT ![side] =
                       [k \in DOMAIN @ \cup heads |->
                           IF k \in heads THEN Lowest(k) ELSE @[k]]]
        /\ prev' = [prev EXCEPT ![side] =
                       [k \in DOMAIN @ \cup heads |->
                           IF k \in heads THEN e.at ELSE @[k]]]
        /\ heap' = [heap EXCEPT ![side] =
                       (@ \ {e}) \cup {[cost |-> OfferOf(side, e, a),
                                       at |-> Ahead(side, a)] : a \in Pushed(side, e)}]

(* Faulty: the two sides meet whatever turn the meeting takes.             *)
MeetingsAnyTurn(side, e) == {k \in DOMAIN dist[Other(side)] : k[1] = e.at[1]}

(* The other side's labels at this node that the drive can go on with; its *)
(* cost there may still be tentative.                                      *)
Meetings(side, e) ==
    {k \in DOMAIN dist[Other(side)] :
        /\ k[1] = e.at[1]
        /\ ~TurnBanned(side, k[1], e.at[2], k[2])}

Meet(side, e) ==
    LET total(k) == e.cost + dist[Other(side)][k]
        costs    == {total(k) : k \in Meetings(side, e)}
    IN  IF costs # {} /\ (best = NoCost \/ Min(costs) < best)
          THEN \E k \in Meetings(side, e) :
                  /\ total(k) = Min(costs)
                  /\ best' = Min(costs)
                  /\ meeting' = IF side = "fwd" THEN <<e.at, k>> ELSE <<k, e.at>>
          ELSE UNCHANGED <<best, meeting>>

After(side) == IF side = "fwd" THEN "bwd" ELSE "check"

Least(side, e) == e \in heap[side] /\ \A d \in heap[side] : e.cost <= d.cost

Pruned(side, e) ==
    (best # NoCost /\ e.cost > best) \/ e.at \in settled[side]

Drop(side, e) ==
    /\ pc = side
    /\ Least(side, e)
    /\ Pruned(side, e)
    /\ heap' = [heap EXCEPT ![side] = @ \ {e}]
    /\ pc' = After(side)
    /\ UNCHANGED <<buildVars, dist, prev, settled, best, meeting, reply>>

Settle(side, e) ==
    /\ pc = side
    /\ Least(side, e)
    /\ ~Pruned(side, e)
    /\ settled' = [settled EXCEPT ![side] = @ \cup {e.at}]
    /\ Meet(side, e)
    /\ Expand(side, e)
    /\ pc' = After(side)
    /\ UNCHANGED <<buildVars, reply>>

Rest(side) ==
    /\ pc = side
    /\ heap[side] = {}
    /\ pc' = After(side)
    /\ UNCHANGED <<buildVars, dist, prev, heap, settled, best, meeting, reply>>

(* Faulty: the search stops when one side is done ...                      *)
HopelessOneSide ==
    \E s \in Sides : \A e \in heap[s] : best # NoCost /\ e.cost >= best

(* ... or only once the sides have met.                                    *)
HopelessOnceMet ==
    \A s \in Sides : best # NoCost /\ \A e \in heap[s] : e.cost >= best

(* Neither side has anything open that could still improve the meeting.    *)
Hopeless ==
    \A s \in Sides : \A e \in heap[s] : best # NoCost /\ e.cost >= best

Check ==
    /\ pc = "check"
    /\ pc' = IF Hopeless THEN "unpack" ELSE "fwd"
    /\ UNCHANGED <<buildVars, dist, prev, heap, settled, best, meeting, reply>>

-----------------------------------------------------------------------------
(* The nodes from a label back to the first one at the node stop.          *)
Trace(p, k, stop) ==
    LET upto[j \in Nat] ==
            IF j = 0 THEN <<k>>
            ELSE LET t == upto[j - 1]
                     z == t[Len(t)]
                 IN  IF z[1] = stop \/ z \notin DOMAIN p THEN t
                                                         ELSE Append(t, p[z])
        labels == upto[Cardinality(DOMAIN p) + 1]
    IN  [j \in DOMAIN labels |-> labels[j][1]]

Reversed(s) == [j \in DOMAIN s |-> s[Len(s) + 1 - j]]

packed_path ==
    Reversed(Trace(prev["fwd"], meeting[1], req.source))
      \o Tail(Trace(prev["bwd"], meeting[2], req.target))

(* Between two nodes the cheapest arc is unpacked, the first made of       *)
(* equals, whichever arc the search went by; none where a shortcut was     *)
(* built over an edge that is closed to the one who asks.                  *)
ArcBetween(u, w) ==
    LET between == {a \in DOMAIN arcs :
                       OpenTo(a) /\ arcs[a].from = u /\ arcs[a].to = w}
        lowest  == Min({Weight(a) : a \in between})
    IN  IF between = {} THEN {} ELSE {Min({a \in between : Weight(a) = lowest})}

unpack_edge[uw \in (0 .. G.n - 1) \X (0 .. G.n - 1)] ==
    LET arc == ArcBetween(uw[1], uw[2])
        mid == IF arc = {} THEN NoMiddle ELSE arcs[CHOOSE a \in arc : TRUE].middle
    IN  IF mid = NoMiddle THEN <<uw[2]>>
        ELSE unpack_edge[<<uw[1], mid>>] \o unpack_edge[<<mid, uw[2]>>]

unpack_path(path) ==
    LET upto[j \in 1 .. Len(path)] ==
            IF j = 1 THEN <<path[1]>>
            ELSE upto[j - 1] \o unpack_edge[<<path[j - 1], path[j]>>]
    IN  upto[Len(path)]

Answer ==
    /\ pc = "unpack"
    /\ pc' = "done"
    /\ reply' = IF best = NoCost THEN [kind |-> "NoRoute"]
                ELSE [kind |-> "Route", duration |-> best,
                      path |-> unpack_path(packed_path)]
    /\ UNCHANGED <<buildVars, dist, prev, heap, settled, best, meeting>>

Next ==
    \/ Build
    \/ RejectNode
    \/ AskForNothing
    \/ Ask
    \/ \E side \in Sides :
          \/ \E e \in heap[side] : Drop(side, e) \/ Settle(side, e)
          \/ Rest(side)
    \/ Check
    \/ Answer

Spec == Init /\ [][Next]_vars
FairSpec == Spec /\ WF_vars(Next)

-----------------------------------------------------------------------------
IsArc(a) ==
    /\ {a.from, a.to} \subseteq 0 .. G.n - 1
    /\ {a.weight, a.first, a.last} \subseteq Nat /\ a.open \in BOOLEAN
    /\ a.middle \in (0 .. G.n - 1) \cup {NoMiddle}

(* The state is one the fields of the hierarchy and of a query can hold.   *)
TypeOK ==
    /\ \A a \in DOMAIN arcs : IsArc(arcs[a])
    /\ order \in Seq(0 .. G.n - 1)
    /\ Len(order) <= G.n
    /\ pairs \subseteq (DOMAIN arcs) \X (DOMAIN arcs)
    /\ pc \in {"build", "fwd", "bwd", "check", "unpack", "done"}
    /\ \A s \in Sides :
          /\ \A k \in DOMAIN dist[s] : k \in Label /\ dist[s][k] \in Nat
          /\ DOMAIN prev[s] \subseteq DOMAIN dist[s]
          /\ \A e \in heap[s] : e.cost \in Nat /\ e.at \in DOMAIN dist[s]
          /\ settled[s] \subseteq DOMAIN dist[s]
    /\ best \in Nat \cup {NoCost}

(* By class the quicker of the two profiles, closed where both are.        *)
Quicker ==
    [c \in DOMAIN P \cup DOMAIN req.asked |->
        LET built == pace_of_class(P, c)
            asked == pace_of_class(req.asked, c)
        IN  IF built = 0 \/ (asked # 0 /\ asked < built) THEN asked ELSE built]

(* A hierarchy never promises a drive the roads do not have: the cost      *)
(* reported is that of some legal drive at least, turn restrictions and    *)
(* abandoned witness searches included.  Where another profile is asked    *)
(* for than that of the build, each road of it is driven by either.        *)
NeverQuickerThanRoads ==
    reply.kind = "Route" =>
        \E c \in CostsTo(G, Quicker, req.source, req.target) : c <= reply.duration

(* The nodes answered with are those of a drive that the roads and the     *)
(* turn restrictions allow and that takes the time reported.               *)
PathIsDrivable ==
    reply.kind = "Route" => Drivable(G, P, reply.path, reply.duration)

(* No route is reported only where the roads have none.                    *)
FindsEveryRoute ==
    reply.kind = "NoRoute" => CostsTo(G, P, req.source, req.target) = {}

(* Without turn restrictions the query answers as dijkstra does, if the    *)
(* profile is that of the build; otherwise it promises no more than what   *)
(* the properties above say.                                               *)
Promised ==
    IF G.restrictions = {} /\ req.asked = P /\ {req.source, req.target} \subseteq 0 .. G.n - 1
      THEN reply ELSE NoReply
Planner == INSTANCE RoutePlanner WITH reply <- Promised
AnswersCorrectly == Planner!Spec

(* The build ends and the query answers.                                   *)
Terminates == <>(pc = "done")
===============================================================================
