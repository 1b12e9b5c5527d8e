------------------------------- MODULE MCAnalyses -------------------------------
(* Analyses on the towns of Towns and a strip of roads for the matcher.        *)
EXTENDS Analyses, Towns, Integers

Around(g, s, m) == [graph |-> g, profile |-> Car, source |-> s, max_seconds |-> m]

(* Budgets that cover nothing up to all of a town; node 4 does not exist.      *)
AreaRequests ==
    {Around(g, s, m) : g \in {x \in Towns : x.restrictions \in {{}, {Ban(1, 1, 2, "no")}}},
                      s \in {0, 2, 4}, m \in {-1, 0, 1, 2, 3, 6}}

(* Every choice of the streets of Towns.                                       *)
Count(g, k) == [graph |-> g, top_k |-> k]

AllNetworks ==
    {Count(Town(Streets, kept, {}), 2) : kept \in SUBSET (1 .. Len(Streets))}
    \cup {Count(g, k) : g \in {Nowhere, Town(Streets, {9}, {})}, k \in {0, 1, 3, 4}}

(* Two equal ways 0-1-3 and 0-2-3, two carriageways 1-3, then 3-4 and a     *)
(* shortcut to it that is as long; street 9 is longer, 10 is closed.        *)
Squares == <<
    Street(0, 1, 1, 1, 1),
    Street(0, 2, 2, 1, 1),
    Street(1, 3, 3, 1, 1),
    Street(1, 3, 4, 1, 1),
    Street(2, 3, 5, 1, 1),
    Street(3, 0, 6, 1, 1),
    Street(3, 4, 7, 1, 1),
    Street(0, 4, 8, 3, 1),
    Street(0, 3, 9, 3, 1),
    Street(2, 4, 9, 1, 0),
    Street(4, 1, 9, 1, 2) >>

Score(kept, s, k) ==
    [graph |-> [Town(Squares, kept, {Ban(1, 1, 3, "no")}) EXCEPT !.n = 5,
                   !.pos = [u \in 0 .. 4 |-> u]],
     profile |-> Car, sample_size |-> s, top_k |-> k]

AllCentralities ==
    {Score({1, 3, 5, 7, 10} \cup kept, s, 5) :
        kept \in SUBSET {2, 4, 6, 8}, s \in {1, 3, 5}}
    \cup {Score({1, 2, 3, 4, 5, 7, 8, 9, 11}, s, k) : s \in {0, 2, 6, 7}, k \in {0, 2, 3}}
    \cup {Score({}, 2, 6), [Score({}, 2, 1) EXCEPT !.graph = Nowhere]}

Road(a, b, o) == [from |-> a, to |-> b, offset |-> o]

Walk(trace, roads) ==
    [trace |-> trace, roads |-> roads, search_radius |-> 2, served |-> FALSE]

Traces(lengths, xs) == UNION {[1 .. k -> xs] : k \in lengths}

(* Three roads that overlap and one that is out of the way.                  *)
RoadRequests ==
    {Walk(tr, <<Road(0, 3, 1), Road(2, 4, 0), Road(4, 6, 2), Road(8, 9, 1)>>) :
        tr \in Traces(0 .. 4, 1 .. 6)}

(* The same roads with a hole nothing covers.                                *)
GapRequests ==
    {Walk(tr, <<Road(0, 1, 1), Road(2, 2, 2), Road(8, 9, 1), Road(8, 8, 0)>>) :
        tr \in Traces(1 .. 4, {0, 2, 5, 7, 8, 9})}

(* By POST /match: too long a trace, none, and radii at the limits.           *)
ServedRequests ==
    {[Walk(tr, <<Road(0, 1, 1), Road(2, 2, 2)>>) EXCEPT !.served = TRUE,
                                                        !.search_radius = r] :
        tr \in Traces({0, 1, 4, 5}, {0, 2}), r \in {0, 1, 3, 4}}

MatchRequests == RoadRequests \cup GapRequests \cup ServedRequests

Many(e, g, a, b) ==
    [endpoint |-> e, graph |-> g, declared |-> <<>>, profile |-> Car,
     sources |-> a, targets |-> b]

(* The longest street of these towns is 3: -3 and 6 are still covered, 7 not.  *)
PairTowns ==
    {Town(Streets, {1, 3, 5, 9} \cup k, b) :
        k \in {{}, {4}, {6, 8}, {2, 4, 8}}, b \in {{}, {Ban(1, 1, 2, "no")}}}

PairRequests ==
    {Many(e, g, a, b) : e \in {"od-matrix", "closest-facility"}, g \in PairTowns,
                        a \in {<<0, 3>>, <<1, 2>>, <<3>>, <<2, 3, 0>>, <<-3, 6>>},
                        b \in {<<2>>, <<3, 1>>, <<0, 3>>}}
    \cup {Many("closest-facility", g, <<1, 1>>, <<2, 2, 3>>) : g \in PairTowns}
    \cup {Many("od-matrix", g, <<>>, <<1>>) : g \in PairTowns}
    \cup {Many("od-matrix", g, <<0, 1>>, <<7>>) : g \in PairTowns}
    \cup {Many("od-matrix", Nowhere, <<0>>, <<1>>)}
    \cup {[Many("closest-facility", g, <<a, 1>>, <<2, 1>>) EXCEPT !.declared = d] :
              g \in PairTowns, a \in {-9, 3}, d \in {<<-9, 9>>, <<1, 2>>}}
=================================================================================
