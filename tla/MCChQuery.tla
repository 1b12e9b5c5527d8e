------------------------------- MODULE MCChQuery -------------------------------
(* Contraction and ChQuery on the towns of Towns.                            *)
EXTENDS ChQuery, Towns

Trip(g, s, t, asked) ==
    [graph |-> g, profile |-> Car, asked |-> asked, source |-> s, target |-> t]

Trips(ts, st) == {Trip(g, x[1], x[2], Car) : g \in ts, x \in st}

(* Profiles by class (0, 1, 2): on foot, where the car may not go too, and   *)
(* a lorry that is slow on main roads and kept off the lesser ones.          *)
Foot == [c \in 0 .. 2 |-> 3 - c]
Lorry == [c \in 0 .. 2 |-> IF c = 1 THEN 2 ELSE 0]

(* The towns of at most k streets with and without restrictions: few enough  *)
(* for every order of contraction and every abandoned witness search.        *)
FreeTowns(k) == {g \in Towns : g.restrictions = {} /\ Len(g.edges) <= k}
BannedTowns(k) == {g \in Towns : g.restrictions # {} /\ Len(g.edges) <= k}

TripRequests ==
    Trips(FreeTowns(7), {<<0, 3>>, <<2, 0>>})
    \cup Trips(FreeTowns(4), {<<1, 3>>, <<3, 0>>, <<2, 2>>})
    \cup Trips(BannedTowns(6), {<<0, 3>>})
    \cup {Trip(g, 0, 3, asked) : g \in FreeTowns(6), asked \in {Foot, Lorry}}
    \cup Trips(FreeTowns(4), {<<0, 4>>})

BannedRequests ==
    Trips(BannedTowns(9), {<<0, 3>>, <<2, 0>>, <<1, 3>>})

(* A trip in the same town with its nodes numbered the other way: contracted *)
(* in another order where priorities tie.                                    *)
Renumbered(r, id) ==
    LET g    == r.graph
        From(u) == SelectSeq(g.edges, LAMBDA e : id[e.from] = u)
        all  == From(0) \o From(1) \o From(2) \o From(3)
    IN  [r EXCEPT !.source = id[@], !.target = id[@],
                  !.graph.edges = [j \in DOMAIN all |->
                      [all[j] EXCEPT !.from = id[@], !.to = id[@]]],
                  !.graph.restrictions = {[b EXCEPT !.via = id[@]] : b \in @}]

RenumberedRequests ==
    {Renumbered(r, id) : r \in Trips(BannedTowns(9), {<<0, 3>>}),
     id \in {f \in [0 .. 3 -> 0 .. 3] : {f[u] : u \in 0 .. 3} = 0 .. 3}}
================================================================================
